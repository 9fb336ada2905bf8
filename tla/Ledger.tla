------------------------------- MODULE Ledger -------------------------------
(***************************************************************************)
(* One hash-chained JSONL ledger: core/writer.py (ChainWriter.append under *)
(* an exclusive flock) and core/verifier.py (verify_chain, lock-free), with*)
(* several processes, killed, interrupted and failing writers, and power   *)
(* losses.                                                                 *)
(*                                                                         *)
(* The file is a sequence of pieces, one per append() that reached the     *)
(* disk.  A piece is an envelope and how much of its line is in the file:  *)
(*   "torn"   a proper prefix of the JSON text,                            *)
(*   "whole"  the JSON text but not the newline,                           *)
(*   "line"   the JSON text and the newline.                               *)
(* A torn or whole piece followed by another one shares its line with it.  *)
(* append() unlocks before it closes the file.  After an exception the     *)
(* close may still have text to write: it lands where the writer stood,    *)
(* which no longer is the end of the file when others appended meanwhile.  *)
(* A piece whose text such a write has mixed with another's is "damaged".  *)
(* The SHA-256 of an envelope, which contains a fresh uuid4, is its id:    *)
(* two records have one hash only if they are one record.                  *)
(***************************************************************************)
EXTENDS Integers, Sequences, FiniteSets

CONSTANTS
  Procs,        \* processes that hold a ChainWriter on this ledger
  NoProc,       \* "nobody holds the flock"
  Kinds,        \* kinds of payload the callers pass, see AllKinds
  Faults,       \* subset of {"kill", "interrupt", "oserror", "power"}
  MaxEvents,    \* bound: no append() is called once so many envelopes exist
  MaxFaults     \* bound: faults

(***************************************************************************)
(* plain      a payload that is one line and survives a JSON round trip    *)
(* separator  a string in it holds U+0085, U+2028 or U+2029: canonical_json*)
(*            writes them raw and str.splitlines() breaks the line there   *)
(* unstable   a float in it is a negative zero: written as -0, read back   *)
(*            as the integer 0, so that the recomputed hash differs        *)
(***************************************************************************)
AllKinds == {"plain", "separator", "unstable"}
PieceKinds == AllKinds \cup {"damaged"}
Ends == {"torn", "whole", "line"}

ASSUME LedgerAssumption ==
  /\ NoProc \notin Procs
  /\ Kinds \subseteq AllKinds
  /\ MaxEvents \in Nat
  /\ MaxFaults \in Nat

NULL_HASH == 0
Envelope == [id : Nat, prev : Nat, kind : PieceKinds, end : Ends]
Blank == [id |-> 0, prev |-> NULL_HASH, kind |-> "plain", end |-> "torn"]

VARIABLES
  ledger,       \* the bytes of the file, as pieces
  synced,       \* how many leading pieces a power loss cannot take away
  lock,         \* who holds the flock
  pc,           \* where each process is in append()
  rec,          \* the envelope each process builds
  at,           \* how many pieces were in the file when it sought its end
  cause,        \* the exception its close() runs under
  acked,        \* ids whose append() returned normally
  verdict,      \* the last verify_chain(), by whoever called it
  exposed,      \* history: somebody read the tip while the close() of
                \* another append still had text to write
  nextId,       \* bound on envelopes
  faults        \* bound on faults

vars == <<ledger, synced, lock, pc, rec, at, cause, acked, verdict, exposed,
          nextId, faults>>

-----------------------------------------------------------------------------
(* Reading the file: str.splitlines() and json.loads() *)

\* Piece i is the only one on its line.
Alone(f, i) ==
  /\ i > 1 => f[i-1].end = "line"
  /\ i < Len(f) => f[i].end = "line"

\* splitlines() yields piece i as a line of its own and json.loads() takes it.
Parses(f, i) ==
  /\ Alone(f, i)
  /\ f[i].end # "torn"
  /\ f[i].kind \notin {"separator", "damaged"}

Tip_slip(f) == IF f = <<>> THEN NULL_HASH ELSE f[1].id

\* record_hash of the last piece, NULL_HASH for an empty file.
Tip(f) == IF f = <<>> THEN NULL_HASH ELSE f[Len(f)].id

TailMalformed_slip(f) == f # <<>> /\ f[Len(f)].end = "torn"

\* _last_hash_from_open_file() raises ChainCorruptionError.
TailMalformed(f) == f # <<>> /\ ~Parses(f, Len(f))

\* verify_chain() reports no error for the line of piece i, whose
\* predecessor parses: an earlier line that does not is an error already.
LineOk(f, i) ==
  /\ Parses(f, i)
  /\ f[i].prev = (IF i = 1 THEN NULL_HASH ELSE f[i-1].id)
  /\ f[i].kind # "unstable"

VerifyChain(f) == \A i \in 1..Len(f) : LineOk(f, i)

-----------------------------------------------------------------------------
Init ==
  /\ ledger = <<>>
  /\ synced = 0
  /\ lock = NoProc
  /\ pc = [p \in Procs |-> "idle"]
  /\ rec = [p \in Procs |-> Blank]
  /\ at = [p \in Procs |-> 0]
  /\ cause = [p \in Procs |-> "none"]
  /\ acked = {}
  /\ verdict = [outcome |-> "none", total |-> 0]
  /\ exposed = FALSE
  /\ nextId = 1
  /\ faults = 0

Goto(p, label) == pc' = [pc EXCEPT ![p] = label]

Unlock_slip(p) == UNCHANGED lock

\* The finally of _exclusive_lock.
Unlock(p) == lock' = IF lock = p THEN NoProc ELSE lock

\* Leaving append() with nothing in the file's buffers, however it ends.
Leave(p) ==
  /\ Unlock(p)
  /\ Goto(p, "idle")
  /\ rec' = [rec EXCEPT ![p] = Blank]
  /\ at' = [at EXCEPT ![p] = 0]
  /\ cause' = [cause EXCEPT ![p] = "none"]

\* Text that write() took and flush() did not bring to the file.
Unflushed == {"buffered", "torn", "whole"}

\* An exception leaves the two with blocks: the lock goes first, and whoever
\* has unflushed text stays where it is, without the lock, for close() to
\* write it.
Raise(p, how) ==
  IF pc[p] \in Unflushed
  THEN /\ Unlock(p)
       /\ cause' = [cause EXCEPT ![p] = how]
       /\ UNCHANGED <<pc, rec, at>>
  ELSE Leave(p)

Call_slip(p) ==
  /\ pc[p] = "idle"
  /\ nextId <= MaxEvents
  /\ \E k \in Kinds : rec' = [rec EXCEPT ![p] = [Blank EXCEPT !.kind = k]]
  /\ ledger' = <<>>
  /\ Goto(p, "waiting")
  /\ UNCHANGED <<synced, lock, at, cause, acked, verdict, exposed, nextId, faults>>

\* append() validates the payload, opens the file and waits for the flock.
Call(p) ==
  /\ pc[p] = "idle"
  /\ nextId <= MaxEvents
  /\ \E k \in Kinds : rec' = [rec EXCEPT ![p] = [Blank EXCEPT !.kind = k]]
  /\ Goto(p, "waiting")
  /\ UNCHANGED <<ledger, synced, lock, at, cause, acked, verdict, exposed,
                 nextId, faults>>

Acquire(p) ==
  /\ pc[p] = "waiting"
  /\ lock = NoProc
  /\ lock' = p
  /\ Goto(p, "locked")
  /\ UNCHANGED <<ledger, synced, rec, at, cause, acked, verdict, exposed,
                 nextId, faults>>

\* _last_hash_from_open_file() and the envelope linked to it.
BuildEnvelope(p) ==
  /\ pc[p] = "locked"
  /\ ~TailMalformed(ledger)
  /\ rec' = [rec EXCEPT ![p].id = nextId, ![p].prev = Tip(ledger)]
  /\ nextId' = nextId + 1
  /\ exposed' = (exposed \/ \E q \in Procs : pc[q] \in Unflushed)
  /\ Goto(p, "writing")
  /\ UNCHANGED <<ledger, synced, lock, at, cause, acked, verdict, faults>>

RaiseCorruption(p) ==
  /\ pc[p] = "locked"
  /\ TailMalformed(ledger)
  /\ Leave(p)
  /\ UNCHANGED <<ledger, synced, acked, verdict, exposed, nextId, faults>>

Buffer_slip(p) ==
  /\ pc[p] = "writing"
  /\ at' = [at EXCEPT ![p] = 0]
  /\ Goto(p, "buffered")
  /\ UNCHANGED <<ledger, synced, lock, rec, cause, acked, verdict, exposed,
                 nextId, faults>>

\* Mode "r+", seek to the end, write() into the buffers of the file object.
Buffer(p) ==
  /\ pc[p] = "writing"
  /\ at' = [at EXCEPT ![p] = Len(ledger)]
  /\ Goto(p, "buffered")
  /\ UNCHANGED <<ledger, synced, lock, rec, cause, acked, verdict, exposed,
                 nextId, faults>>

\* The file has nothing behind its n-th piece but text of r.
AtEnd(f, n, r) ==
  \/ Len(f) = n
  \/ Len(f) = n + 1 /\ f[n + 1].id = r.id /\ f[n + 1].kind = r.kind

\* The text of r over what is behind the n-th piece.  Lines differ in length:
\* the line it falls on is replaced, or mixed with it, and more of the
\* following ones (up to m) may be hit.
Overlay(f, n, r, kind, m) ==
  [i \in 1..Len(f) |->
     CASE i = n + 1 -> [r EXCEPT !.kind = kind,
                                 !.end = IF f[i].end = "line" THEN "line" ELSE @]
       [] i \in n + 2 .. m -> [f[i] EXCEPT !.kind = "damaged"]
       [] OTHER -> f[i]]

\* The file after the text of r, as far as r.end says, was written at the end
\* of its n-th piece.
Laid(f, n, r) ==
  IF AtEnd(f, n, r) THEN {Append(SubSeq(f, 1, n), r)}
  ELSE {Overlay(f, n, r, kind, m) :
          kind \in (IF r.end = "torn" THEN {} ELSE {r.kind}) \cup {"damaged"},
          m \in n + 1 .. Len(f)}

\* flush(), or close() after an exception.  The kernel copies the line into
\* the file page by page, in view of every reader that takes no lock.
WriteStart(p) ==
  /\ pc[p] = "buffered"
  /\ ledger' \in Laid(ledger, at[p], rec[p])
  /\ Goto(p, "torn")
  /\ UNCHANGED <<synced, lock, rec, at, cause, acked, verdict, exposed, nextId,
                 faults>>

WriteMore(p) ==
  /\ pc[p] \in {"torn", "whole"}
  /\ LET end == IF pc[p] = "torn" THEN "whole" ELSE "line" IN
       /\ ledger' \in Laid(ledger, at[p], [rec[p] EXCEPT !.end = end])
       /\ IF end = "line" /\ lock # p
          THEN Leave(p)
          ELSE Goto(p, end) /\ UNCHANGED <<lock, rec, at, cause>>
  /\ UNCHANGED <<synced, acked, verdict, exposed, nextId, faults>>

FsyncCovers_slip == synced

FsyncCovers == Len(ledger)

Fsync(p) ==
  /\ pc[p] = "line"
  /\ synced' = FsyncCovers
  /\ Goto(p, "synced")
  /\ UNCHANGED <<ledger, lock, rec, at, cause, acked, verdict, exposed, nextId,
                 faults>>

Return(p) ==
  /\ pc[p] = "synced"
  /\ acked' = acked \cup {rec[p].id}
  /\ Leave(p)
  /\ UNCHANGED <<ledger, synced, verdict, exposed, nextId, faults>>

\* A disk that was full at the flush may still be full for the close().
CloseFails(p) ==
  /\ pc[p] \in Unflushed
  /\ lock # p
  /\ cause[p] = "error"
  /\ Leave(p)
  /\ UNCHANGED <<ledger, synced, acked, verdict, exposed, nextId, faults>>

\* verify_chain() reads the whole file in one go and takes no lock.
Verify(p) ==
  /\ pc[p] = "idle"
  /\ verdict' = [outcome |-> IF VerifyChain(ledger) THEN "pass" ELSE "fail",
                 total   |-> Len(ledger)]
  /\ UNCHANGED <<ledger, synced, lock, pc, rec, at, cause, acked, exposed,
                 nextId, faults>>

-----------------------------------------------------------------------------
(* Faults *)

Fault(kind) ==
  /\ kind \in Faults
  /\ faults < MaxFaults
  /\ faults' = faults + 1

\* Inside append() and not yet on the way out.
Inside(p) ==
  /\ pc[p] # "idle"
  /\ pc[p] \in Unflushed => lock = p

\* write, flush or fsync raises OSError: append() raises ChainWriteError.
WriteFails(p) ==
  /\ Fault("oserror")
  /\ Inside(p)
  /\ pc[p] \in {"writing", "line"} \cup Unflushed
  /\ Raise(p, "error")
  /\ UNCHANGED <<ledger, synced, acked, verdict, exposed, nextId>>

\* KeyboardInterrupt, which no handler of append() catches.
Interrupt(p) ==
  /\ Fault("interrupt")
  /\ Inside(p)
  /\ Raise(p, "interrupted")
  /\ UNCHANGED <<ledger, synced, acked, verdict, exposed, nextId>>

\* The process is killed inside append(); the kernel drops its flock and the
\* page cache keeps what was written.  A new process takes its place.
Kill(p) ==
  /\ Fault("kill")
  /\ pc[p] # "idle"
  /\ Leave(p)
  /\ UNCHANGED <<ledger, synced, acked, verdict, exposed, nextId>>

ShorterThan == [torn |-> {}, whole |-> {"torn"}, line |-> {"torn", "whole"}]

\* The machine dies: every process with it, and any suffix of the bytes that
\* no fsync covered.
PowerLoss ==
  /\ Fault("power")
  /\ \E n \in synced..Len(ledger) :
       \/ ledger' = SubSeq(ledger, 1, n)
       \/ /\ n > synced
          /\ \E e \in ShorterThan[ledger[n].end] :
               ledger' = [SubSeq(ledger, 1, n) EXCEPT ![n].end = e]
  /\ synced' = Len(ledger')
  /\ lock' = NoProc
  /\ pc' = [p \in Procs |-> "idle"]
  /\ rec' = [p \in Procs |-> Blank]
  /\ at' = [p \in Procs |-> 0]
  /\ cause' = [p \in Procs |-> "none"]
  /\ UNCHANGED <<acked, verdict, exposed, nextId>>

-----------------------------------------------------------------------------
AppendStep(p) ==
  \/ Acquire(p) \/ BuildEnvelope(p) \/ RaiseCorruption(p)
  \/ Buffer(p) \/ WriteStart(p) \/ WriteMore(p) \/ Fsync(p) \/ Return(p)
  \/ CloseFails(p)

Next ==
  \/ \E p \in Procs :
       \/ Call(p) \/ AppendStep(p) \/ Verify(p)
       \/ WriteFails(p) \/ Interrupt(p) \/ Kill(p)
  \/ PowerLoss

Spec == Init /\ [][Next]_vars

\* A process inside append() keeps running, and flock() queues its waiters:
\* a process that waits gets the lock if it is released again and again.
FairSpec ==
  /\ Spec
  /\ \A p \in Procs : WF_vars(AppendStep(p)) /\ SF_vars(Acquire(p))

-----------------------------------------------------------------------------
(* Properties *)

\* Type invariant.
TypeOK ==
  /\ ledger \in Seq(Envelope)
  /\ synced \in 0..Len(ledger)
  /\ lock \in Procs \cup {NoProc}
  /\ pc \in [Procs -> {"idle", "waiting", "locked", "writing", "line", "synced"}
                      \cup Unflushed]
  /\ rec \in [Procs -> Envelope]
  /\ at \in [Procs -> Nat]
  /\ cause \in [Procs -> {"none", "error", "interrupted"}]
  /\ acked \subseteq Nat
  /\ verdict \in [outcome : {"none", "pass", "fail"}, total : Nat]
  /\ exposed \in BOOLEAN
  /\ nextId \in Nat \ {0}
  /\ faults \in Nat

\* However writers interleave, fail, are interrupted, killed or lose power,
\* every envelope in the file names the hash of the envelope written just
\* before it: the chain never forks and has no gap.  The flock gives this only
\* as long as nobody reads the tip between the unlock of a failed append and
\* the flush in its close(): from then on nothing is promised.
ChainLinked ==
  ~exposed =>
    \A i \in 1..Len(ledger) :
      ledger[i].prev = IF i = 1 THEN NULL_HASH ELSE ledger[i-1].id

\* An event whose append() returned is in the file, newline included, and no
\* later fault removes it: fsync comes before the return.  (Once a tip was read
\* during a late close(), the text of that close() may fall on it.)
AckedDurable ==
  ~exposed =>
    \A id \in acked : \E i \in 1..synced :
      ledger[i].id = id /\ ledger[i].end = "line"

\* Whatever goes wrong, only the last line of the file is unreadable (it may
\* hold two pieces): nothing is ever written behind a malformed line, so that
\* all damage of a ledger is repaired by dropping one line.  (The same
\* exception.)
DamageOnlyAtEnd ==
  ~exposed =>
    \A i \in 1..Len(ledger) :
      \/ Parses(ledger, i)
      \/ i = Len(ledger)
      \/ i = Len(ledger) - 1 /\ ledger[i].end = "whole"

\* The last line is malformed and nobody is in the middle of writing it.
Stuck ==
  /\ ledger # <<>> /\ ~Parses(ledger, Len(ledger))
  /\ \A p \in Procs : pc[p] \notin {"torn", "whole", "line", "synced"}

\* A ledger whose last line is malformed takes no event again, from anyone:
\* append() refuses it (only a power loss may still shorten it).  (The same
\* exception.)
StuckIsFinal ==
  [][Stuck /\ ~exposed => (ledger' = ledger \/ faults' > faults)]_vars

\* A check that passed stays true as long as nothing fails: the lines it
\* covered verify for ever, whatever is appended later.  (After a fault it does
\* not: a line without its newline passes and the next append spoils it.)
PassedChecksStand ==
  verdict.outcome = "pass" /\ faults = 0 =>
    /\ verdict.total <= Len(ledger)
    /\ \A i \in 1..verdict.total : LineOk(ledger, i)

\* Every append() ends, and so gives the flock back.
AppendReturns == \A p \in Procs : pc[p] # "idle" ~> pc[p] = "idle"

\* The ledger implements the append-only log: its events are the envelopes
\* whose JSON text is complete, committed when append() returned.
Complete(f) == IF f # <<>> /\ f[Len(f)].end = "torn" THEN Len(f) - 1 ELSE Len(f)

EventsOf(f) == [i \in 1..Complete(f) |-> f[i].id]

Events == EventsOf(ledger)

Log == INSTANCE AppendOnlyLog
         WITH Ids <- Nat, log <- Events, committed <- acked, intact <- ~exposed

ImplementsLog == Log!LogSpec
=============================================================================
