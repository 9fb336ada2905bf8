--------------------------- MODULE AppendOnlyLog ---------------------------
(***************************************************************************)
(* What a ledger promises to the code that appends to it: a log that only  *)
(* grows at its end, never holds an event twice, and never loses an event  *)
(* whose append() returned.  Events that nobody was told about may vanish  *)
(* with a power loss.  The promise ends for good when it is broken, which  *)
(* the implementation has to own up to (intact).  Ledger.tla is shown to   *)
(* implement this module.                                                  *)
(***************************************************************************)
EXTENDS Naturals, Sequences

CONSTANT Ids        \* identities (record hashes) an event may have

VARIABLES
  log,              \* the events, oldest first
  committed,        \* the events whose append() has returned
  intact            \* the promise holds

logVars == <<log, committed, intact>>

Held(s) == {s[i] : i \in DOMAIN s}

LogInit ==
  /\ log = <<>>
  /\ committed = {}
  /\ intact = TRUE

\* Actions are stated on the log before and after, so that Ids may be infinite.
Extend ==
  /\ Len(log') = Len(log) + 1
  /\ SubSeq(log', 1, Len(log)) = log
  /\ log'[Len(log')] \in Ids \ Held(log)
  /\ UNCHANGED committed

Commit ==
  /\ \E id \in Held(log) : committed' = committed \cup {id}
  /\ UNCHANGED log

Lose ==
  /\ \E n \in 0..Len(log) : log' = SubSeq(log, 1, n)
  /\ committed \subseteq Held(log')
  /\ UNCHANGED committed

\* The promise is, or stays, broken: nothing is said of the log.
Break == intact' = FALSE

LogNext ==
  \/ (Extend \/ Commit \/ Lose) /\ UNCHANGED intact
  \/ Break

LogSpec == LogInit /\ [][LogNext]_logVars
=============================================================================
