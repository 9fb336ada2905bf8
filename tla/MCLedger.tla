------------------------------ MODULE MCLedger ------------------------------
(* TLC instances of Ledger. *)
EXTENDS Ledger
=============================================================================
