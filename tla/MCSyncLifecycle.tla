-------------------------- MODULE MCSyncLifecycle --------------------------
(* TLC instances of SyncLifecycle. *)
EXTENDS SyncLifecycle
=============================================================================
