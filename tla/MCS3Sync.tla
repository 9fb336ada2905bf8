----------------------------- MODULE MCS3Sync -----------------------------
(* TLC instances of S3Sync. *)
EXTENDS S3Sync
=============================================================================
