------------------------------- MODULE S3Sync -------------------------------
(***************************************************************************)
(* infra/s3_sync.py: sync_ecosystem_once(), run by one or more syncers     *)
(* (the runner's periodic thread, its final sync, the supervisor's         *)
(* subprocess) while the ecosystem's files grow.                           *)
(*                                                                         *)
(* The text of a ledger is cut into pieces, numbered in the order in which *)
(* they are written, and byte offsets are counted in pieces.  LineEnds are *)
(* the pieces that end a line, so that a line, the record of one event, is *)
(* one or several pieces long.  Malformed is a line that two records share *)
(* (Ledger.tla): it ends in a newline and is no JSON.                      *)
(***************************************************************************)
EXTENDS Integers, Sequences, FiniteSets

CONSTANTS
  Syncers,      \* executions of sync_ecosystem_once() that may overlap
  Budgeted,     \* those with a deadline (--max-seconds)
  NLedgers,     \* ledgers and notebooks, uploaded in this order
  Files,        \* names of research artifacts
  Faults,       \* subset of the kinds of fault in Fault(_) below
  LineEnds,     \* the pieces of a ledger that end a line
  MaxLength,    \* bound: pieces of a ledger behind which no line is begun
  MaxVersion,   \* bound: versions of constitution.md
  MaxFaults     \* bound: kinds of fault that occur, each of them once

Ledgers == 1..NLedgers
Malformed == 0

ASSUME SyncAssumption ==
  /\ NLedgers \in Nat \ {0}
  /\ Budgeted \subseteq Syncers
  /\ LineEnds \subseteq Nat \ {Malformed}
  /\ MaxLength \in Nat /\ MaxVersion \in Nat /\ MaxFaults \in Nat

\* The positions of sync_ecosystem_once() in its loops (one agent).
Constitution == NLedgers + 1
Research == NLedgers + 2
Done == NLedgers + 3

VARIABLES
  disk,         \* the complete lines of each ledger
  unfinished,   \* ledgers that end in a line without its newline yet
  written,      \* how many pieces of complete lines each ledger ever got
  constitution, \* version of constitution.md, 0 if there is none
  research,     \* artifact -> "absent", "partial" (being written) or "whole"
  archive,      \* the S3 object of each ledger
  archivedConstitution,
  bundles,      \* the research bundles in S3: sets of <<artifact, content>>
  state,        \* the SyncState in the sidecar file, or Torn
  pc,           \* where each syncer is
  at,           \* the surface it is at
  mem,          \* its SyncState in memory
  buf,          \* what it has read and not put yet
  faults        \* the faults that have occurred

local == <<disk, unfinished, written, constitution, research>>
remote == <<archive, archivedConstitution, bundles>>
vars == <<local, remote, state, pc, at, mem, buf, faults>>

Torn == [torn |-> TRUE]
EmptyState == [cursors |-> [l \in Ledgers |-> 0], bundled |-> {}]
NoBuf == [body |-> <<>>, upto |-> 0, members |-> {}]

Init ==
  /\ disk = [l \in Ledgers |-> <<>>]
  /\ unfinished = {}
  /\ written = [l \in Ledgers |-> 0]
  /\ constitution = 0
  /\ research = [f \in Files |-> "absent"]
  /\ archive = [l \in Ledgers |-> <<>>]
  /\ archivedConstitution = 0
  /\ bundles = <<>>
  /\ state = EmptyState
  /\ pc = [s \in Syncers |-> "off"]
  /\ at = [s \in Syncers |-> 1]
  /\ mem = [s \in Syncers |-> EmptyState]
  /\ buf = [s \in Syncers |-> NoBuf]
  /\ faults = {}

Goto(s, label) == pc' = [pc EXCEPT ![s] = label]

\* The syncs S are over, in whatever way.
Stop(S) ==
  /\ pc' = [s \in Syncers |-> IF s \in S THEN "off" ELSE pc[s]]
  /\ at' = [s \in Syncers |-> IF s \in S THEN 1 ELSE at[s]]
  /\ mem' = [s \in Syncers |-> IF s \in S THEN EmptyState ELSE mem[s]]
  /\ buf' = [s \in Syncers |-> IF s \in S THEN NoBuf ELSE buf[s]]

Fault(kind) ==
  /\ kind \in Faults
  /\ kind \notin faults
  /\ Cardinality(faults) < MaxFaults
  /\ faults' = faults \cup {kind}

Spoiled(l) == disk[l] # <<>> /\ disk[l][Len(disk[l])] = Malformed

\* The pieces of the line that ends with piece e.
Line(e) == {n \in 1..e : \A m \in n..e - 1 : m \notin LineEnds}

\* e ends the line that a ledger gets next.
EndsNextLine(l, e) == e \in LineEnds /\ Line(e) = written[l] + 1..e

\* A complete line at the end of the ledger.
AppendLine(l, e) ==
  /\ EndsNextLine(l, e)
  /\ disk' = [disk EXCEPT ![l] = @ \o [k \in 1..e - written[l] |-> written[l] + k]]
  /\ written' = [written EXCEPT ![l] = e]

-----------------------------------------------------------------------------
(* The files under a sync: ChainWriter, ConstitutionManager, the executor *)

StartLine(l) ==
  /\ l \notin unfinished
  /\ ~Spoiled(l)
  /\ written[l] < MaxLength
  /\ unfinished' = unfinished \cup {l}
  /\ UNCHANGED <<disk, written, constitution, research, remote, state, pc, at,
                 mem, buf, faults>>

FinishLine(l) ==
  /\ l \in unfinished
  /\ unfinished' = unfinished \ {l}
  /\ \E e \in LineEnds : AppendLine(l, e)
  /\ UNCHANGED <<constitution, research, remote, state, pc, at, mem, buf, faults>>

\* A killed writer's unterminated line gets the next record behind it.
SpoilLine(l) ==
  /\ Fault("spoil")
  /\ l \in unfinished
  /\ unfinished' = unfinished \ {l}
  /\ disk' = [disk EXCEPT ![l] = Append(@, Malformed)]
  /\ UNCHANGED <<written, constitution, research, remote, state, pc, at, mem,
                 buf>>

\* The ledger is replaced by an older copy of itself, which ends with a line.
RestoreLedger(l) ==
  /\ Fault("restore")
  /\ l \notin unfinished
  /\ \E n \in {m \in 0..Len(disk[l]) - 1 : m > 0 => disk[l][m] \in LineEnds} :
       disk' = [disk EXCEPT ![l] = SubSeq(@, 1, n)]
  /\ UNCHANGED <<unfinished, written, constitution, research, remote, state, pc,
                 at, mem, buf>>

\* initialize() and append_revision(), which replaces the file atomically.
ReviseConstitution ==
  /\ constitution < MaxVersion
  /\ constitution' = constitution + 1
  /\ UNCHANGED <<disk, unfinished, written, research, remote, state, pc, at, mem,
                 buf, faults>>

\* _write_artifact(): write_text() creates the file and then fills it.
WriteArtifact(f) ==
  /\ \/ research[f] = "absent" /\ research' = [research EXCEPT ![f] = "partial"]
     \/ research[f] = "partial" /\ research' = [research EXCEPT ![f] = "whole"]
  /\ UNCHANGED <<disk, unfinished, written, constitution, remote, state, pc, at,
                 mem, buf, faults>>

-----------------------------------------------------------------------------
(* sync_ecosystem_once() *)

\* load_state(): a sidecar that is not JSON raises, and the caller gives up.
Load(s) ==
  /\ pc[s] = "off"
  /\ state # Torn
  /\ mem' = [mem EXCEPT ![s] = state]
  /\ Goto(s, "surface")
  /\ UNCHANGED <<local, remote, state, at, buf, faults>>

LoadFails(s) ==
  /\ pc[s] = "off"
  /\ state = Torn
  /\ UNCHANGED vars

Start_slip(s) == mem[s].cursors[at[s]] + 1

\* st_size counts what there is of an unfinished line: its first piece.
Size(l) ==
  Len(disk[l]) + (IF l \in unfinished /\ written[l] + 1 \notin LineEnds THEN 1 ELSE 0)

\* Where the upload resumes: a cursor behind the end of the file is dropped.
\* In a ledger that was restored and has grown again the cursor of the old one
\* may point into a line.
Start(s) ==
  LET cursor == mem[s].cursors[at[s]]
  IN  IF cursor > Size(at[s]) THEN 0 ELSE cursor

\* read_newline_bounded_slice(): an unfinished line is not in it.
Chunk(s) == SubSeq(disk[at[s]], Start(s) + 1, Len(disk[at[s]]))

Held(lines) == {lines[i] : i \in DOMAIN lines}

\* _parse_last_record_meta() takes the last line of the chunk for a record: it
\* is one, and all of it is in the chunk.
Parses(chunk) ==
  LET last == chunk[Len(chunk)]
  IN  last # Malformed /\ Line(last) \subseteq Held(chunk)

Uploadable_slip1(s) == Len(Chunk(s)) > 1 /\ Parses(Chunk(s))
Uploadable_slip2(s) == Chunk(s) # <<>>

\* There are new lines, and the last one of them is a record.
Uploadable(s) == Chunk(s) # <<>> /\ Parses(Chunk(s))

Skip(s) ==
  /\ at' = [at EXCEPT ![s] = @ + 1]
  /\ UNCHANGED <<local, remote, state, pc, mem, buf, faults>>

SkipLedger(s) ==
  /\ pc[s] = "surface"
  /\ at[s] \in Ledgers
  /\ ~Uploadable(s)
  /\ Skip(s)

ReadLedger(s) ==
  /\ pc[s] = "surface"
  /\ at[s] \in Ledgers
  /\ Uploadable(s)
  /\ buf' = [buf EXCEPT ![s] = [NoBuf EXCEPT !.body = Chunk(s),
                                             !.upto = Len(disk[at[s]])]]
  /\ Goto(s, IF Start(s) = 0 THEN "put" ELSE "get")
  /\ UNCHANGED <<local, remote, state, at, mem, faults>>

Existing_slip(s) == <<>>

Existing(s) == archive[at[s]]

\* get_object(): the object becomes existing + chunk.
GetExisting(s) ==
  /\ pc[s] = "get"
  /\ buf' = [buf EXCEPT ![s].body = Existing(s) \o @]
  /\ Goto(s, "put")
  /\ UNCHANGED <<local, remote, state, at, mem, faults>>

\* Any other exception than NoSuchKey: existing = b"" all the same.
GetFails(s) ==
  /\ Fault("get")
  /\ pc[s] = "get"
  /\ Goto(s, "put")
  /\ UNCHANGED <<local, remote, state, at, mem, buf>>

Advance(s) ==
  /\ at' = [at EXCEPT ![s] = @ + 1]
  /\ buf' = [buf EXCEPT ![s] = NoBuf]
  /\ Goto(s, "surface")

PutLedger(s) ==
  /\ pc[s] = "put"
  /\ archive' = [archive EXCEPT ![at[s]] = buf[s].body]
  /\ mem' = [mem EXCEPT ![s].cursors[at[s]] = buf[s].upto]
  /\ Advance(s)
  /\ UNCHANGED <<local, archivedConstitution, bundles, state, faults>>

SkipConstitution(s) ==
  /\ pc[s] = "surface"
  /\ at[s] = Constitution
  /\ constitution = 0
  /\ Skip(s)

ReadConstitution(s) ==
  /\ pc[s] = "surface"
  /\ at[s] = Constitution
  /\ constitution > 0
  /\ buf' = [buf EXCEPT ![s].upto = constitution]
  /\ Goto(s, "put_constitution")
  /\ UNCHANGED <<local, remote, state, at, mem, faults>>

PutConstitution(s) ==
  /\ pc[s] = "put_constitution"
  /\ archivedConstitution' = buf[s].upto
  /\ Advance(s)
  /\ UNCHANGED <<local, archive, bundles, state, mem, faults>>

Unbundled(s) == {f \in Files : research[f] # "absent"} \ mem[s].bundled

SkipResearch(s) ==
  /\ pc[s] = "surface"
  /\ at[s] = Research
  /\ Unbundled(s) = {}
  /\ Skip(s)

\* The tar holds what each artifact contains at this moment.
ReadResearch(s) ==
  /\ pc[s] = "surface"
  /\ at[s] = Research
  /\ Unbundled(s) # {}
  /\ buf' = [buf EXCEPT ![s].members = {<<f, research[f]>> : f \in Unbundled(s)}]
  /\ Goto(s, "put_bundle")
  /\ UNCHANGED <<local, remote, state, at, mem, faults>>

Names(members) == {m[1] : m \in members}

Recorded_slip(s) == {f \in Files : research[f] # "absent"}

\* The names sync_ecosystem_once() adds to research_bundles.
Recorded(s) == mem[s].bundled \cup Names(buf[s].members)

FinishBundle(s) ==
  /\ mem' = [mem EXCEPT ![s].bundled = Recorded(s)]
  /\ Advance(s)
  /\ UNCHANGED <<local, archive, archivedConstitution, state>>

PutBundle(s) ==
  /\ pc[s] = "put_bundle"
  /\ bundles' = Append(bundles, buf[s].members)
  /\ FinishBundle(s)
  /\ UNCHANGED faults

\* Bundle keys are whole seconds: a second bundle in one second replaces the
\* first.
PutBundleSameSecond(s) ==
  /\ Fault("same_second")
  /\ pc[s] = "put_bundle"
  /\ bundles # <<>>
  /\ bundles' = [bundles EXCEPT ![Len(bundles)] = buf[s].members]
  /\ FinishBundle(s)

\* put_object() raises: the sync is over and nothing is saved.
PutFails(s) ==
  /\ Fault("put")
  /\ pc[s] \in {"put", "put_constitution", "put_bundle"}
  /\ Stop({s})
  /\ UNCHANGED <<local, remote, state>>

\* All surfaces are done, or the deadline has passed; write_text() truncates
\* the sidecar and then writes it.
TruncateState(s) ==
  /\ pc[s] = "surface"
  /\ at[s] = Done \/ s \in Budgeted
  /\ state' = Torn
  /\ Goto(s, "save")
  /\ UNCHANGED <<local, remote, at, mem, buf, faults>>

WriteState(s) ==
  /\ pc[s] = "save"
  /\ state' = mem[s]
  /\ Stop({s})
  /\ UNCHANGED <<local, remote, faults>>

\* The process is killed, or the daemon thread ends with its process, or
\* subprocess.run() kills a sync that takes longer than its timeout.
Kill(s) ==
  /\ Fault("kill")
  /\ pc[s] # "off"
  /\ Stop({s})
  /\ UNCHANGED <<local, remote, state>>

-----------------------------------------------------------------------------
SyncStep(s) ==
  \/ Load(s) \/ LoadFails(s)
  \/ SkipLedger(s) \/ ReadLedger(s) \/ GetExisting(s) \/ PutLedger(s)
  \/ SkipConstitution(s) \/ ReadConstitution(s) \/ PutConstitution(s)
  \/ SkipResearch(s) \/ ReadResearch(s) \/ PutBundle(s)
  \/ TruncateState(s) \/ WriteState(s)

SyncFault(s) == GetFails(s) \/ PutBundleSameSecond(s) \/ PutFails(s) \/ Kill(s)

LocalStep ==
  \/ \E l \in Ledgers : \/ StartLine(l) \/ FinishLine(l)
                        \/ SpoilLine(l) \/ RestoreLedger(l)
  \/ ReviseConstitution
  \/ \E f \in Files : WriteArtifact(f)

Next == LocalStep \/ \E s \in Syncers : SyncStep(s) \/ SyncFault(s)

Spec == Init /\ [][Next]_vars

\* The periodic thread syncs again and again, and each step of a sync ends.
FairSpec == Spec /\ \A s \in Syncers : WF_vars(SyncStep(s))

-----------------------------------------------------------------------------
(* Properties *)

\* The object of a ledger is a prefix of it: downloaded, it verifies from
\* genesis to the last synced record.
ArchiveVerifies ==
  \A l \in Ledgers :
    /\ Len(archive[l]) <= Len(disk[l])
    /\ archive[l] = SubSeq(disk[l], 1, Len(archive[l]))

\* As long as nothing fails it is so.
ArchiveVerifiesUnfailed == faults = {} => ArchiveVerifies

\* What the saved cursor says is in S3 is in S3: no sync will send those
\* lines again, so that a line missing there is missing for good.
CursorCovered ==
  state # Torn =>
    \A l \in Ledgers : \A i \in 1..Len(disk[l]) :
      i <= state.cursors[l] => disk[l][i] \in Held(archive[l])

\* The faults after which the next sync is meant to carry on: the object and
\* the ledger itself are as the last sync left them.
Survivable == faults \subseteq {"put", "kill", "same_second", "spoil"}

\* Whatever uploads fail, syncs die and lines are malformed, cursors stay
\* behind the archive.
CursorsSurvive == Survivable => CursorCovered

\* Syncs that fail or die may send lines again, but leave no hole: without
\* the repeated lines the archive is a chain from genesis.
NoGap ==
  Survivable =>
    \A l \in Ledgers : \A i \in DOMAIN archive[l] :
      archive[l][i] <= (IF i = 1 THEN 0 ELSE archive[l][i-1]) + 1

\* A line that has begun goes on to its end.
EndsWhole(lines) ==
  \A i \in DOMAIN lines :
    lines[i] \notin LineEnds => i + 1 \in DOMAIN lines /\ lines[i+1] = lines[i] + 1

\* No line lacks its beginning.
BeginsWhole(lines) ==
  \A i \in DOMAIN lines :
    lines[i] - 1 \notin LineEnds \cup {0} => i > 1 /\ lines[i-1] = lines[i] - 1

\* Whatever fails and however syncs overlap, only parsable records reach the
\* archive: no unfinished line and no line that two records share, and no line
\* without its beginning either, unless a ledger was restored from an older
\* copy and the byte cursor of the old one points into a line of the new one.
OnlyRecordsArchived ==
  \A l \in Ledgers :
    /\ Malformed \notin Held(archive[l])
    /\ EndsWhole(archive[l])
    /\ "restore" \notin faults => BeginsWhole(archive[l])

\* An artifact recorded as bundled, and so never sent again, is in a bundle,
\* whatever fails, except where two bundles had one second's key.
BundledIsArchived ==
  state # Torn /\ "same_second" \notin faults =>
    \A f \in state.bundled : \E i \in DOMAIN bundles : f \in Names(bundles[i])

\* The periodic sync catches up with everything the run writes, whatever
\* uploads fail and syncs die: each line, each version of the constitution
\* or a later one, and each artifact is in S3 in the end, unless the sidecar
\* has been torn, a line is malformed, a get failed, a ledger was restored or
\* one bundle has replaced another.
EverythingArchived ==
  /\ \A l \in Ledgers : \A n \in LineEnds :
       written[l] >= n ~>
         \/ n \in Held(archive[l])
         \/ [](state = Torn) \/ faults \cap {"get", "spoil", "restore"} # {}
  /\ \A v \in 1..MaxVersion :
       constitution >= v ~> archivedConstitution >= v \/ [](state = Torn)
  /\ \A f \in Files : research[f] # "absent" ~>
       \/ \E i \in DOMAIN bundles : f \in Names(bundles[i])
       \/ [](state = Torn) \/ "same_second" \in faults
=============================================================================
