--------------------------- MODULE BatchToolsProofs ---------------------------
(***************************************************************************)
(* Proofs about BatchTools, for any ledgers, events, artifacts, chunk size *)
(* and number of jobs: that an export keeps what it had to find, that a    *)
(* finished batch is complete, and that the research manifest has all that *)
(* an index job had to find.                                               *)
(***************************************************************************)
EXTENDS BatchTools, SequenceTheorems, FiniteSetTheorems, TLAPS

(* Types *)

States == {"torn", "whole"}
Members == UNION {[A -> States] : A \in SUBSET Artifacts}
RowSet == [id : Events \cup Artifacts, eco : Ecosystems, from : Files \cup Artifacts]
Part == UNION {[D -> RowSet] : D \in SUBSET Nat}
Line == [of : Artifacts, is : {"row", "garbled", "half", "open"}]
Dirs ==
  [parts : [Tables -> [Ecosystems -> Part]], flushes : [Tables -> [Ecosystems -> Nat]],
   manifest : BOOLEAN, users : Nat, due : SUBSET (Files \X Events)]

Buffers == [Tables -> Seq(RowSet)]
Scanning ==
  [at : {"scan", "meta"}, id : Nat, file : Nat \ {0}, line : Nat, skip : BOOLEAN,
   buffer : Buffers, todo : SUBSET Artifacts]
Linking == [at : {"report", "unlink", "link"}, id : Nat]
Exporting ==
  [at : {"export"}, ledgers : SUBSET Files, todo : SUBSET Artifacts,
   rows : [Tables \cup {"manifest"} -> SUBSET (Events \cup Artifacts)],
   due : SUBSET (Events \cup Artifacts)]
Indexing ==
  [at : {"index", "unpack", "restore", "append"}, todo : SUBSET Artifacts,
   keys : SUBSET (Authors \X Nat), members : Members, entries : SUBSET Artifacts,
   had : SUBSET Artifacts, here : SUBSET Artifacts, there : SUBSET Artifacts,
   torn : SUBSET Artifacts]

AnyJob == {Idle} \cup Scanning \cup Linking \cup Exporting \cup Indexing

TypeInv ==
  /\ now \in Nat
  /\ lines \in [Files -> Seq(Events)]
  /\ half \in [Files -> Events \cup {None}]
  /\ local \in [Artifacts -> States \cup {None}]
  /\ writing \subseteq Artifacts /\ known \subseteq Artifacts
  /\ DOMAIN bundles \subseteq Authors \X (0..now)
  /\ bundles \in [DOMAIN bundles -> Members]
  /\ job \in [Procs -> AnyJob]
  /\ DOMAIN dirs \subseteq 0..now
  /\ dirs \in [DOMAIN dirs -> Dirs]
  /\ \A p \in Procs : job[p].at \in {"scan", "meta", "report", "unlink", "link"} => job[p].id \in DOMAIN dirs
  /\ \A p \in Procs : job[p].at \in {"index", "unpack", "restore", "append"} => IsFiniteSet(job[p].entries)
  /\ manifest \in Seq(Line)
  /\ db \in [Tables \cup {"manifest"} -> SUBSET (Events \cup Artifacts)]
  /\ indexed \subseteq Artifacts /\ restored \subseteq Artifacts
  /\ dbDue \subseteq Events \cup Artifacts
  /\ killed \in BOOLEAN /\ overlapped \in BOOLEAN

-----------------------------------------------------------------------------
(* Ledgers *)

\* An event was told to the first n of its ledgers, and a half line is its next
\* telling.
InOrder(e, n) ==
  /\ \A i \in 1..Len(Into[e]) : e \in ToSet(lines[Into[e][i]]) <=> i <= n
  /\ \A f \in Files : half[f] = e => n < Len(Into[e]) /\ f = Into[e][n+1]

\* Each ledger tells an event once.
LineInv ==
  /\ \A f \in Files : \A i, k \in 1..Len(lines[f]) : lines[f][i] = lines[f][k] => i = k
  /\ \A e \in Events : \E n \in 0..Len(Into[e]) : InOrder(e, n)

-----------------------------------------------------------------------------
(* Export *)

ToldEvents == UNION {ToSet(lines[f]) \cup ({half[f]} \ {None}) : f \in Files}

\* Something that had to be found was found or is still to be read.
Exported(j, d) ==
  \/ d \in j.rows["events"] \cup j.rows["artifacts"]
  \/ \E f \in j.ledgers : d \in ToSet(lines[f]) \ Separated
  \/ d \in Artifacts /\ local[d] = "whole" /\ (j.ledgers # {} \/ d \in j.todo)

ExportInv ==
  /\ db["runs"] = db["events"] \cap Completed
  /\ db["events"] \subseteq ToldEvents
  /\ dbDue \subseteq db["events"] \cup db["artifacts"]
  /\ \A p \in Procs : At(p, "export") =>
       /\ job[p].rows["runs"] = job[p].rows["events"] \cap Completed
       /\ job[p].rows["events"] \subseteq ToldEvents
       /\ \A d \in job[p].due : Exported(job[p], d)

-----------------------------------------------------------------------------
(* Batches *)

InDir(p) == job[p].at \in {"scan", "meta", "report"}

\* How many jobs ever used a directory tells whether one is alone in it.
UserInv ==
  /\ \A k \in DOMAIN dirs : dirs[k].users >= 1
  /\ \A p, q \in Procs :
       InDir(p) /\ InDir(q) /\ p # q /\ job[p].id = job[q].id => dirs[job[p].id].users # 1
  /\ \A p \in Procs : InDir(p) /\ dirs[job[p].id].users = 1 => ~dirs[job[p].id].manifest
  /\ \A p \in Procs :
       job[p].at \in {"unlink", "link"} /\ dirs[job[p].id].users = 1 => dirs[job[p].id].manifest
  /\ latest # None => latest \in DOMAIN dirs /\ (dirs[latest].users = 1 => dirs[latest].manifest)

Once(s, r) ==
  \E i \in DOMAIN s : s[i] = r /\ \A k \in DOMAIN s : s[k] = r => k = i
Absent(s, r) == \A i \in DOMAIN s : s[i] # r

RowOf(d) == Row(d[2], Ledgers[d[1]], d[1])

\* The tables that a line of an event gets a row of.
TablesOf(e) == {"events"} \cup (IF e \in Completed THEN {"runs"} ELSE {})

\* The job has read the line.
Passed(j, d) ==
  \/ d[1] < j.file
  \/ d[1] = j.file /\ \E i \in 1..j.line : i <= Len(lines[j.file]) /\ lines[j.file][i] = d[2]

\* Where the row of a line is once it is read, and before.
Held(buffer, part, flushes, r) ==
  /\ flushes = 0 => Once(buffer, r)
  /\ flushes = 1 => Once(buffer, r) \/ (Absent(buffer, r) /\ Once(part, r))
Nowhere(buffer, part, r) == Absent(buffer, r) /\ Absent(part, r)

Tracked(j, dir, d, t) ==
  IF Passed(j, d)
  THEN Held(j.buffer[t], dir.parts[t][Ledgers[d[1]]], dir.flushes[t][Ledgers[d[1]]], RowOf(d))
  ELSE Nowhere(j.buffer[t], dir.parts[t][Ledgers[d[1]]], RowOf(d))

\* Behind a line it took for the rest of a half one, a job has read all that
\* its ledger had.
Tracks(j, dir) ==
  /\ j.file <= Len(Ledgers) + 1
  /\ \A d \in dir.due :
       /\ d[2] \in ToSet(lines[d[1]])
       /\ \A t \in TablesOf(d[2]) : Tracked(j, dir, d, t)
       /\ j.skip /\ d[1] = j.file => Passed(j, d)

ScanInv ==
  \A p \in Procs : At(p, "scan") /\ dirs[job[p].id].users = 1 => Tracks(job[p], dirs[job[p].id])

Complete(dir) ==
  \A d \in dir.due : \A t \in TablesOf(d[2]) :
    dir.flushes[t][Ledgers[d[1]]] = 1 => Once(dir.parts[t][Ledgers[d[1]]], RowOf(d))

FinishedInv ==
  /\ \A p \in Procs :
       job[p].at \in {"meta", "report"} /\ dirs[job[p].id].users = 1 => Complete(dirs[job[p].id])
  /\ \A k \in DOMAIN dirs : dirs[k].manifest /\ dirs[k].users = 1 => Complete(dirs[k])

-----------------------------------------------------------------------------
(* The research manifest *)

IndexJob(p) == job[p].at \in {"index", "unpack", "restore", "append"}

\* A bundle has artifacts of its agent; one that is listed and can still be
\* replaced has what the sidecar knows of.
KnownInv ==
  \A k \in DOMAIN bundles :
    /\ \A a \in DOMAIN bundles[k] : Research[a] = k[1]
    /\ k \in Listed => k[2] < now \/ DOMAIN bundles[k] \subseteq known

\* An artifact that a bundle had to give is in a bundle that stays, or known.
There(a) ==
  \/ \E k \in DOMAIN bundles : k[2] < now /\ a \in DOMAIN bundles[k]
  \/ a \in known

\* It was found, or is about to be, or no bundle has it any more.
Found(j, a) ==
  \/ a \in j.entries
  \/ a \in DOMAIN j.members /\ j.members[a] = "whole"
  \/ \E k \in j.keys : k[2] < now /\ a \in WholeIn(k)
  \/ a \in known /\ \A k \in DOMAIN bundles : a \in WholeIn(k) => k \in j.keys

KeysInv == \A p \in Procs : IndexJob(p) => job[p].keys \subseteq DOMAIN bundles

FoundInv ==
  \A p \in Procs : IndexJob(p) =>
    LET j == job[p] IN
    /\ At(p, "unpack") => j.todo = {}
    /\ At(p, "index") \/ At(p, "append") => j.members = <<>>
    /\ At(p, "append") => j.keys = {}
    /\ \A a \in j.here : local[a] = "whole" /\ (a \in j.entries \/ (At(p, "index") /\ a \in j.todo))
    /\ \A a \in j.there : There(a) /\ Found(j, a)

ReadableAt == {i \in DOMAIN manifest : manifest[i].is \in {"row", "open"}}

\* No artifact has two rows that can be read.
OneRow == \A i, k \in ReadableAt : manifest[i].of = manifest[k].of => i = k

ManifestInv ==
  /\ indexed \subseteq Readable
  /\ ~overlapped =>
       /\ OneRow
       /\ \A p, q \in Procs : IndexJob(p) /\ IndexJob(q) => p = q
       /\ \A p \in Procs : At(p, "append") => job[p].had = Readable

RestoreInv ==
  ~overlapped =>
    /\ \A a \in restored : local[a] = "whole"
    /\ \A p \in Procs : IndexJob(p) =>
         \A a \in job[p].there \ job[p].torn :
           /\ local[a] = "torn" => At(p, "restore") /\ a \in job[p].todo
           /\ a \in job[p].entries => local[a] # None

TornInv ==
  ~killed =>
    \A a \in Artifacts : local[a] = "torn" =>
      a \in writing \/ \E p \in Procs : At(p, "restore") /\ a \in job[p].todo

-----------------------------------------------------------------------------
(* Operators *)

\* What a job is doing says what it has in memory.
LEMMA Kinds ==
  ASSUME TypeInv, NEW p \in Procs
  PROVE  /\ job[p] \in AnyJob
         /\ At(p, "idle") => job[p] = Idle
         /\ job[p].at \in {"scan", "meta"} => job[p] \in Scanning
         /\ job[p].at \in {"report", "unlink", "link"} => job[p] \in Linking
         /\ At(p, "export") => job[p] \in Exporting
         /\ IndexJob(p) => job[p] \in Indexing
<1>1. job[p] \in AnyJob
  BY DEF TypeInv
<1>2. Idle.at = "idle"
  BY DEF Idle
<1>3. \A j \in Scanning : j.at \in {"scan", "meta"}
  BY DEF Scanning
<1>4. \A j \in Linking : j.at \in {"report", "unlink", "link"}
  BY DEF Linking
<1>5. \A j \in Exporting : j.at = "export"
  BY DEF Exporting
<1>6. \A j \in Indexing : j.at \in {"index", "unpack", "restore", "append"}
  BY DEF Indexing
<1>7. QED
  BY <1>1, <1>2, <1>3, <1>4, <1>5, <1>6, Zenon DEF AnyJob, At, IndexJob

\* A step of one job leaves the others alone.
LEMMA Steps ==
  ASSUME TypeInv, NEW p \in Procs, NEW r, Becomes(p, r)
  PROVE  /\ job'[p] = r
         /\ \A q \in Procs : q # p => job'[q] = job[q]
         /\ r \in AnyJob => job' \in [Procs -> AnyJob]
BY DEF TypeInv, Becomes

LEMMA OfFacts ==
  ASSUME NEW rows \in Seq(RowSet), NEW eco
  PROVE  /\ Of(rows, eco) \in Part
         /\ DOMAIN Of(rows, eco) = {i \in DOMAIN rows : rows[i].eco = eco}
         /\ \A i \in DOMAIN Of(rows, eco) : Of(rows, eco)[i] = rows[i]
<1> DEFINE D == {i \in DOMAIN rows : rows[i].eco = eco}
<1>1. DOMAIN rows \subseteq Nat /\ \A i \in DOMAIN rows : rows[i] \in RowSet
  BY LenProperties, ElementOfSeq
<1>2. Of(rows, eco) = [i \in D |-> rows[i]]
  BY DEF Of, Restrict
<1>3. D \in SUBSET Nat /\ [i \in D |-> rows[i]] \in [D -> RowSet]
  BY <1>1
<1>4. Of(rows, eco) \in Part
  BY <1>2, <1>3, Zenon DEF Part
<1>5. QED
  BY <1>2, <1>4

LEMMA RowType ==
  ASSUME NEW id \in Events \cup Artifacts, NEW eco \in Ecosystems, NEW from \in Files \cup Artifacts
  PROVE  /\ Row(id, eco, from) \in RowSet
         /\ Row(id, eco, from).id = id
         /\ Row(id, eco, from).eco = eco
         /\ Row(id, eco, from).from = from
BY DEF Row, RowSet

LEMMA LedgerType ==
  /\ Len(Ledgers) \in Nat
  /\ \A f \in Files : Ledgers[f] \in Ecosystems
<1>1. Ledgers \in Seq(Ecosystems)
  BY BatchAssumption
<1>2. QED
  BY <1>1, ElementOfSeq, LenProperties DEF Files

LEMMA FlushAllFacts ==
  ASSUME NEW dir \in Dirs, NEW buffer \in Buffers, NEW tables
  PROVE  /\ FlushAll(dir, buffer, tables) \in Dirs
         /\ FlushAll(dir, buffer, tables).manifest = dir.manifest
         /\ FlushAll(dir, buffer, tables).users = dir.users
         /\ FlushAll(dir, buffer, tables).due = dir.due
         /\ \A t \in Tables : FlushAll(dir, buffer, tables).parts[t] =
              IF t \in tables THEN FlushedParts(dir.parts[t], buffer[t]) ELSE dir.parts[t]
         /\ \A t \in Tables : FlushAll(dir, buffer, tables).flushes[t] =
              IF t \in tables THEN Counted(dir.flushes[t], buffer[t]) ELSE dir.flushes[t]
<1> DEFINE P(t) == IF t \in tables THEN FlushedParts(dir.parts[t], buffer[t]) ELSE dir.parts[t]
           F(t) == IF t \in tables THEN Counted(dir.flushes[t], buffer[t]) ELSE dir.flushes[t]
           R == FlushAll(dir, buffer, tables)
<1>1. R = [parts |-> [t \in Tables |-> P(t)], flushes |-> [t \in Tables |-> F(t)],
           manifest |-> dir.manifest, users |-> dir.users, due |-> dir.due]
  BY DEF FlushAll
<1>2. ASSUME NEW t \in Tables  PROVE P(t) \in [Ecosystems -> Part] /\ F(t) \in [Ecosystems -> Nat]
  <2>1. dir.parts[t] \in [Ecosystems -> Part] /\ dir.flushes[t] \in [Ecosystems -> Nat]
    BY DEF Dirs
  <2>2. buffer[t] \in Seq(RowSet)
    BY DEF Buffers
  <2>3. \A eco \in Ecosystems : Of(buffer[t], eco) \in Part
    BY <2>2, OfFacts
  <2>4. FlushedParts(dir.parts[t], buffer[t]) \in [Ecosystems -> Part]
    BY <2>1, <2>3 DEF FlushedParts
  <2>5. Counted(dir.flushes[t], buffer[t]) \in [Ecosystems -> Nat]
    BY <2>1 DEF Counted
  <2>6. QED
    BY <2>1, <2>4, <2>5
<1> HIDE DEF P, F, R
<1>3. /\ R.parts = [t \in Tables |-> P(t)]
      /\ R.flushes = [t \in Tables |-> F(t)]
      /\ R.manifest = dir.manifest /\ R.users = dir.users /\ R.due = dir.due
  BY <1>1
<1>4. [t \in Tables |-> P(t)] \in [Tables -> [Ecosystems -> Part]]
  BY <1>2
<1>5. [t \in Tables |-> F(t)] \in [Tables -> [Ecosystems -> Nat]]
  BY <1>2
<1>6. dir.manifest \in BOOLEAN /\ dir.users \in Nat /\ dir.due \in SUBSET (Files \X Events)
  BY DEF Dirs
<1>7. R \in Dirs
  BY <1>1, <1>4, <1>5, <1>6 DEF Dirs
<1>8. \A t \in Tables : R.parts[t] = P(t) /\ R.flushes[t] = F(t)
  BY <1>3
<1>9. QED
  BY <1>3, <1>7, <1>8 DEF P, F, R

LEMMA WithoutFacts ==
  ASSUME NEW buffer \in Buffers, NEW tables
  PROVE  /\ Without(buffer, tables) \in Buffers
         /\ \A t \in Tables : Without(buffer, tables)[t] = IF t \in tables THEN <<>> ELSE buffer[t]
BY EmptySeq DEF Without, Buffers

LEMMA NoRowsFacts == NoRows \in Buffers /\ \A t \in Tables : NoRows[t] = <<>>
BY EmptySeq DEF NoRows, Buffers

LEMMA NewDirFacts ==
  /\ NewDir \in Dirs
  /\ NewDir.users = 0 /\ NewDir.manifest = FALSE
  /\ \A t \in Tables : \A eco \in Ecosystems : NewDir.parts[t][eco] = <<>> /\ NewDir.flushes[t][eco] = 0
<1>1. <<>> \in [{} -> RowSet]
  OBVIOUS
<1>2. <<>> \in Part
  BY <1>1, Zenon DEF Part
<1>3. [t \in Tables |-> [eco \in Ecosystems |-> <<>>]] \in [Tables -> [Ecosystems -> Part]]
  BY <1>2
<1>4. [t \in Tables |-> [eco \in Ecosystems |-> 0]] \in [Tables -> [Ecosystems -> Nat]]
  OBVIOUS
<1>5. NewDir \in Dirs
  BY <1>3, <1>4 DEF NewDir, Dirs
<1>6. QED
  BY <1>5 DEF NewDir

LEMMA TakenFacts ==
  ASSUME NEW j \in Scanning, j.file \in Files, NEW e \in Events
  PROVE  /\ Taken(j, e) \in Buffers
         /\ \A t \in Tables : Taken(j, e)[t] =
              IF t \in TablesOf(e) THEN Append(j.buffer[t], RowOf(<<j.file, e>>)) ELSE j.buffer[t]
<1> DEFINE r == Row(e, Ledgers[j.file], j.file)
<1>1. r \in RowSet
  BY RowType, LedgerType
<1>2. j.buffer \in Buffers
  BY DEF Scanning
<1>3. r = RowOf(<<j.file, e>>)
  BY DEF RowOf
<1>4. Taken(j, e) = [j.buffer EXCEPT !["events"] = Append(@, r), !["runs"] = IF e \in Completed THEN Append(@, r) ELSE @]
  BY DEF Taken
<1> HIDE DEF r
<1>5. \A t \in Tables : j.buffer[t] \in Seq(RowSet)
  BY <1>2 DEF Buffers
<1>6. \A t \in Tables : Append(j.buffer[t], r) \in Seq(RowSet)
  BY <1>1, <1>5, AppendProperties
<1>7. \A t \in Tables : Taken(j, e)[t] = IF t \in TablesOf(e) THEN Append(j.buffer[t], r) ELSE j.buffer[t]
  BY <1>2, <1>4 DEF Tables, Buffers, TablesOf
<1>8. Taken(j, e) = [t \in Tables |-> Taken(j, e)[t]]
  BY <1>2, <1>4 DEF Tables, Buffers
<1>9. Taken(j, e) \in Buffers
  BY <1>5, <1>6, <1>7, <1>8 DEF Buffers
<1>10. QED
  BY <1>3, <1>7, <1>9

\* The members of a finite set in some order, each once.
LEMMA SetToSeqFacts ==
  ASSUME NEW S, IsFiniteSet(S)
  PROVE  /\ SetToSeq(S) \in Seq(S)
         /\ \A i, k \in DOMAIN SetToSeq(S) : SetToSeq(S)[i] = SetToSeq(S)[k] => i = k
         /\ \A x \in S : \E i \in DOMAIN SetToSeq(S) : SetToSeq(S)[i] = x
<1> DEFINE n == Cardinality(S)
           G == {f \in [1..n -> S] : IsInjective(f)}
<1>1. n \in Nat /\ ExistsBijection(1..n, S)
  BY FS_CardinalityType
<1>2. PICK g : g \in Bijection(1..n, S)
  BY <1>1 DEF ExistsBijection
<1>3. g \in G
  BY <1>2 DEF Bijection, Injection, IsInjective
<1>4. SetToSeq(S) = CHOOSE f \in [1..n -> S] : IsInjective(f)
  BY DEF SetToSeq
<1> DEFINE s == SetToSeq(S)
<1>5. s \in [1..n -> S] /\ IsInjective(s)
  BY <1>3, <1>4
<1> HIDE DEF s
<1>6. s \in Injection(1..n, S)
  BY <1>5 DEF Injection
<1>7. IsFiniteSet(1..n) /\ Cardinality(1..n) = n
  BY <1>1, FS_Interval
<1>8. s \in Surjection(1..n, S)
  BY <1>6, <1>7, FS_Injection
<1>9. \A x \in S : \E i \in 1..n : s[i] = x
  BY <1>8 DEF Surjection
<1>10. s \in Seq(S) /\ DOMAIN s = 1..n
  BY <1>1, <1>5
<1>11. QED
  BY <1>5, <1>9, <1>10 DEF s, IsInjective

LEMMA MembersFacts ==
  ASSUME NEW m \in Members
  PROVE  /\ DOMAIN m \subseteq Artifacts
         /\ m \in [DOMAIN m -> States]
         /\ \A a : Dropped(m, a) \in Members /\ DOMAIN Dropped(m, a) = DOMAIN m \ {a}
         /\ \A a : \A b \in DOMAIN m \ {a} : Dropped(m, a)[b] = m[b]
         /\ m = <<>> <=> DOMAIN m = {}
<1>1. PICK A \in SUBSET Artifacts : m \in [A -> States]
  BY Zenon DEF Members
<1>2. \A a : Dropped(m, a) \in [A \ {a} -> States]
  BY <1>1 DEF Dropped
<1>3. \A a : A \ {a} \in SUBSET Artifacts
  OBVIOUS
<1>4. \A a : Dropped(m, a) \in Members
  BY <1>2, <1>3, Zenon DEF Members
<1>5. \A a : \A b \in DOMAIN m \ {a} : Dropped(m, a)[b] = m[b]
  BY <1>1 DEF Dropped
<1>6. m = <<>> <=> DOMAIN m = {}
  BY <1>1
<1>7. QED
  BY <1>1, <1>2, <1>4, <1>5, <1>6

LEMMA NoMembers == <<>> \in Members /\ DOMAIN <<>> = {}
<1>1. <<>> \in [{} -> States]
  OBVIOUS
<1>2. QED
  BY <1>1, Zenon DEF Members

\* The place behind which the rows are appended: one that does not end in a
\* newline is taken by the first of them.
Base == IF Ended THEN Len(manifest) ELSE Len(manifest) - 1

LEMMA LastLine ==
  ASSUME manifest \in Seq(Line)
  PROVE  /\ Len(manifest) \in Nat
         /\ Base \in Nat /\ Base <= Len(manifest)
         /\ Ended => Base = Len(manifest)
         /\ ~Ended => /\ Len(manifest) = Base + 1
                      /\ Last(manifest) = manifest[Base + 1]
                      /\ Last(manifest).is \in {"half", "open"}
                      /\ Last(manifest).of \in Artifacts
<1>1. Len(manifest) \in Nat
  BY LenProperties
<1>2. manifest # <<>> => Len(manifest) >= 1
  BY EmptySeq
<1>3. manifest # <<>> => Last(manifest) \in Line
  BY <1>1, <1>2, ElementOfSeq DEF Last
<1>4. QED
  BY <1>1, <1>2, <1>3 DEF Base, Ended, Last, Line

LEMMA AppendedFacts ==
  ASSUME manifest \in Seq(Line), NEW rows \in Seq(Artifacts), rows # <<>>
  PROVE  /\ Appended(rows) \in Seq(Line)
         /\ Len(Appended(rows)) = Base + Len(rows)
         /\ \A i \in 1..Base : Appended(rows)[i] = manifest[i]
         /\ \A i \in 1..Len(rows) :
              /\ Appended(rows)[Base + i].of = rows[i]
              /\ Appended(rows)[Base + i].is = IF i = 1 /\ ~Ended THEN "garbled" ELSE "row"
         /\ Garbled(rows) = IF Ended THEN {} ELSE {rows[1], Last(manifest).of}
<1> DEFINE new == [i \in DOMAIN rows |-> [of |-> rows[i], is |-> "row"]]
           n == Len(rows)
           first == [of |-> rows[1], is |-> "garbled"]
<1>1. n \in Nat /\ n >= 1 /\ DOMAIN rows = 1..n /\ \A i \in 1..n : rows[i] \in Artifacts
  BY EmptySeq, LenProperties, ElementOfSeq
<1>2. \A i \in 1..n : [of |-> rows[i], is |-> "row"] \in Line
  BY <1>1 DEF Line
<1>3. new \in [1..n -> Line]
  BY <1>1, <1>2
<1>4. new \in Seq(Line) /\ Len(new) = n /\ \A i \in 1..n : new[i] = [of |-> rows[i], is |-> "row"]
  BY <1>1, <1>3
<1>5. first \in Line
  BY <1>1 DEF Line
<1>6. Len(manifest) \in Nat
  BY LenProperties
<1>10. /\ new # <<>>
       /\ \A i \in 1..n : new[i].of = rows[i] /\ new[i].is = "row"
  <2>1. \A i \in 1..n : new[i].of = rows[i] /\ new[i].is = "row"
    BY <1>1
  <2>2. QED
    BY <1>1, <1>4, <2>1
<1> HIDE DEF n
<1>7. CASE Ended
  <2>1. Appended(rows) = manifest \o new
    BY <1>7 DEF Appended
  <2>2. Base = Len(manifest)
    BY <1>7 DEF Base
  <2> HIDE DEF new
  <2>3. /\ manifest \o new \in Seq(Line)
        /\ Len(manifest \o new) = Len(manifest) + n
        /\ \A i \in 1..Len(manifest) + n :
             (manifest \o new)[i] = IF i <= Len(manifest) THEN manifest[i] ELSE new[i - Len(manifest)]
    BY <1>4, ConcatProperties
  <2>4. \A i \in 1..n : (manifest \o new)[Len(manifest) + i] = new[i]
    BY <1>1, <1>6, <2>3
  <2>5. Garbled(rows) = {}
    BY <1>7 DEF Garbled
  <2>6. ASSUME NEW i \in 1..n
        PROVE  (manifest \o new)[Base + i].of = rows[i] /\ (manifest \o new)[Base + i].is = "row"
    BY <1>10, <2>2, <2>4
  <2>7. \A i \in 1..Base : (manifest \o new)[i] = manifest[i]
    BY <1>1, <1>6, <2>2, <2>3
  <2>8. QED
    BY <1>7, <2>1, <2>2, <2>3, <2>5, <2>6, <2>7 DEF n
<1>8. CASE ~Ended
  <2>1. Appended(rows) = Front(manifest) \o <<first>> \o Tail(new)
    BY <1>8 DEF Appended
  <2>2. Len(manifest) = Base + 1 /\ Base \in Nat
    BY <1>8, LastLine
  <2>3. Front(manifest) = SubSeq(manifest, 1, Base)
    BY <2>2 DEF Front
  <2>4. \A i \in 1..Base : manifest[i] \in Line
    BY <2>2, ElementOfSeq
  <2>5. /\ Front(manifest) \in Seq(Line)
        /\ Len(Front(manifest)) = Base
        /\ \A i \in 1..Base : Front(manifest)[i] = manifest[i]
    BY <2>2, <2>3, <2>4, SubSeqProperties
  <2> HIDE DEF new, first
  <2>6. <<first>> \in Seq(Line) /\ Len(<<first>>) = 1 /\ <<first>>[1] = first
    BY <1>5
  <2>8. /\ Tail(new) \in Seq(Line) /\ Len(Tail(new)) = n - 1
        /\ \A i \in 1..n-1 : Tail(new)[i] = new[i+1]
    BY <1>4, <1>10, HeadTailProperties
  <2> DEFINE a == Front(manifest) \o <<first>>
  <2>9. /\ a \in Seq(Line) /\ Len(a) = Base + 1
        /\ \A i \in 1..Base + 1 : a[i] = IF i <= Base THEN Front(manifest)[i] ELSE <<first>>[i - Base]
    BY <2>5, <2>6, ConcatProperties
  <2>10. a[Base + 1] = first /\ \A i \in 1..Base : a[i] = manifest[i]
    BY <2>2, <2>5, <2>6, <2>9
  <2> HIDE DEF a
  <2>11. /\ a \o Tail(new) \in Seq(Line)
         /\ Len(a \o Tail(new)) = Base + 1 + (n - 1)
         /\ \A i \in 1..Base + 1 + (n - 1) :
              (a \o Tail(new))[i] = IF i <= Base + 1 THEN a[i] ELSE Tail(new)[i - (Base + 1)]
    <3>1. /\ a \o Tail(new) \in Seq(Line)
          /\ Len(a \o Tail(new)) = Len(a) + Len(Tail(new))
          /\ \A i \in 1..Len(a) + Len(Tail(new)) :
               (a \o Tail(new))[i] = IF i <= Len(a) THEN a[i] ELSE Tail(new)[i - Len(a)]
      BY <2>8, <2>9, ConcatProperties
    <3>2. QED
      BY <2>8, <2>9, <3>1
  <2>12. \A i \in 2..n : (a \o Tail(new))[Base + i] = new[i]
    BY <1>1, <2>2, <2>8, <2>11
  <2>13. (a \o Tail(new))[Base + 1] = first /\ \A i \in 1..Base : (a \o Tail(new))[i] = manifest[i]
    <3>1. \A i \in 1..Base + 1 : i \in 1..Base + 1 + (n - 1) /\ i <= Base + 1
      BY <1>1, <2>2
    <3>2. \A i \in 1..Base + 1 : (a \o Tail(new))[i] = a[i]
      BY <3>1, <2>11
    <3>3. Base + 1 \in 1..Base + 1 /\ \A i \in 1..Base : i \in 1..Base + 1
      BY <2>2
    <3>4. QED
      BY <2>10, <3>2, <3>3
  <2>14. Appended(rows) = a \o Tail(new)
    BY <2>1 DEF a
  <2>15. first.of = rows[1] /\ first.is = "garbled"
    BY DEF first
  <2>17. Garbled(rows) = {rows[1], Last(manifest).of}
    BY <1>8 DEF Garbled
  <2>18. ASSUME NEW i \in 1..n
         PROVE  /\ (a \o Tail(new))[Base + i].of = rows[i]
                /\ (a \o Tail(new))[Base + i].is = IF i = 1 /\ ~Ended THEN "garbled" ELSE "row"
    <3>1. CASE i = 1
      BY <1>8, <2>13, <2>15, <3>1
    <3>2. CASE i # 1
      <4>1. i \in 2..n
        BY <1>1, <3>2
      <4>2. QED
        BY <1>10, <2>12, <3>2, <4>1
    <3>3. QED
      BY <3>1, <3>2
  <2>19. Len(a \o Tail(new)) = Base + n
    BY <1>1, <2>2, <2>11
  <2>20. QED
    BY <1>8, <2>11, <2>13, <2>14, <2>17, <2>18, <2>19 DEF n
<1>9. QED
  BY <1>7, <1>8

-----------------------------------------------------------------------------
(* Types are kept *)

\* A directory is replaced.
LEMMA DirStep ==
  ASSUME TypeInv, NEW k \in DOMAIN dirs, NEW d \in Dirs, dirs' = [dirs EXCEPT ![k] = d]
  PROVE  /\ DOMAIN dirs' = DOMAIN dirs
         /\ dirs'[k] = d
         /\ \A i \in DOMAIN dirs : i # k => dirs'[i] = dirs[i]
         /\ dirs' \in [DOMAIN dirs' -> Dirs]
BY DEF TypeInv

\* A job goes on in its directory, which it flushed some tables to.
LEMMA BatchStep ==
  ASSUME TypeInv, NEW p \in Procs, job[p].at \in {"scan", "meta"},
         NEW j \in Scanning, j.id = job[p].id, NEW tables,
         dirs' = [dirs EXCEPT ![job[p].id] = FlushAll(@, j.buffer, tables)],
         Becomes(p, [j EXCEPT !.buffer = Without(@, tables)])
  PROVE  /\ job'[p] \in Scanning
         /\ job'[p].buffer = Without(j.buffer, tables)
         /\ job'[p].at = j.at /\ job'[p].id = j.id /\ job'[p].file = j.file
         /\ job'[p].line = j.line /\ job'[p].skip = j.skip /\ job'[p].todo = j.todo
         /\ \A q \in Procs : q # p => job'[q] = job[q]
         /\ job' \in [Procs -> AnyJob]
         /\ j.id \in DOMAIN dirs /\ dirs[j.id] \in Dirs
         /\ DOMAIN dirs' = DOMAIN dirs
         /\ dirs'[j.id] = FlushAll(dirs[j.id], j.buffer, tables)
         /\ \A i \in DOMAIN dirs : i # j.id => dirs'[i] = dirs[i]
         /\ dirs' \in [DOMAIN dirs' -> Dirs]
<1> DEFINE r == [j EXCEPT !.buffer = Without(@, tables)]
<1>1. j.buffer \in Buffers
  BY DEF Scanning
<1>2. Without(j.buffer, tables) \in Buffers
  BY <1>1, WithoutFacts
<1>3. /\ r \in Scanning /\ r.buffer = Without(j.buffer, tables)
      /\ r.at = j.at /\ r.id = j.id /\ r.file = j.file
      /\ r.line = j.line /\ r.skip = j.skip /\ r.todo = j.todo
  BY <1>2 DEF Scanning
<1> HIDE DEF r
<1>4. r \in AnyJob
  BY <1>3 DEF AnyJob
<1>5. Becomes(p, r)
  BY DEF r
<1>6. job'[p] = r /\ (\A q \in Procs : q # p => job'[q] = job[q]) /\ job' \in [Procs -> AnyJob]
  BY <1>4, <1>5, Steps
<1>7. j.id \in DOMAIN dirs /\ dirs[j.id] \in Dirs
  BY DEF TypeInv
<1> DEFINE d == FlushAll(dirs[j.id], j.buffer, tables)
<1>8. d \in Dirs
  BY <1>1, <1>7, FlushAllFacts
<1>9. dirs' = [dirs EXCEPT ![j.id] = d]
  OBVIOUS
<1> HIDE DEF d
<1>10. /\ DOMAIN dirs' = DOMAIN dirs /\ dirs'[j.id] = d
       /\ (\A i \in DOMAIN dirs : i # j.id => dirs'[i] = dirs[i]) /\ dirs' \in [DOMAIN dirs' -> Dirs]
  BY <1>7, <1>8, <1>9, DirStep
<1>11. QED
  BY <1>3, <1>6, <1>7, <1>10 DEF d

\* A line is told to a job: what it becomes, before it flushes what is full.
TakesLine(p, j) ==
  /\ job[p].line < Len(lines[job[p].file])
  /\ j = [job[p] EXCEPT !.line = @ + 1, !.skip = FALSE,
            !.buffer = IF job[p].skip THEN @ ELSE Taken(job[p], lines[job[p].file][job[p].line + 1])]
TakesHalf(p, j) ==
  /\ job[p].line >= Len(lines[job[p].file])
  /\ half[job[p].file] # None /\ ~job[p].skip
  /\ \/ j = [job[p] EXCEPT !.skip = TRUE]
     \/ j = [job[p] EXCEPT !.skip = TRUE, !.buffer = Taken(job[p], half[job[p].file])]
TurnsFile(p, j) ==
  /\ job[p].line >= Len(lines[job[p].file])
  /\ j = [job[p] EXCEPT !.file = @ + 1, !.line = 0, !.skip = FALSE]

LEMMA ScanLineCases ==
  ASSUME TypeInv, NEW p \in Procs, ScanLine(p)
  PROVE  /\ At(p, "scan") /\ job[p] \in Scanning /\ job[p].file \in Files
         /\ \E j : /\ TakesLine(p, j) \/ TakesHalf(p, j) \/ TurnsFile(p, j)
                   /\ Scans(p, j)
         /\ UNCHANGED <<now, sources, research, latest, manifest, db, ghosts, left>>
<1>1. At(p, "scan") /\ job[p].file \in Files
  BY DEF ScanLine
<1>2. job[p] \in Scanning
  BY <1>1, Kinds DEF At
<1>3. job[p].line \in Nat /\ Len(lines[job[p].file]) \in Nat
  BY <1>1, <1>2, LenProperties DEF TypeInv, Scanning
<1>4. CASE job[p].line < Len(lines[job[p].file])
  BY <1>1, <1>2, <1>4 DEF ScanLine, TakesLine
<1>5. CASE ~(job[p].line < Len(lines[job[p].file]))
  <2>1. job[p].line >= Len(lines[job[p].file])
    BY <1>3, <1>5
  <2>2. CASE half[job[p].file] # None /\ ~job[p].skip
    BY <1>1, <1>2, <1>5, <2>1, <2>2 DEF ScanLine, TakesHalf
  <2>3. CASE ~(half[job[p].file] # None /\ ~job[p].skip)
    BY <1>1, <1>2, <1>5, <2>1, <2>3 DEF ScanLine, TurnsFile
  <2>4. QED
    BY <2>2, <2>3
<1>6. QED
  BY <1>4, <1>5

\* What a job is told leaves most of it as it was.
LEMMA TakesFacts ==
  ASSUME TypeInv, NEW p \in Procs, job[p] \in Scanning, job[p].file \in Files, NEW j,
         TakesLine(p, j) \/ TakesHalf(p, j) \/ TurnsFile(p, j)
  PROVE  /\ j \in Scanning
         /\ j.id = job[p].id /\ j.at = job[p].at
         /\ TakesLine(p, j) =>
              /\ j.file = job[p].file /\ j.line = job[p].line + 1 /\ j.skip = FALSE
              /\ j.buffer = IF job[p].skip THEN job[p].buffer
                            ELSE Taken(job[p], lines[job[p].file][job[p].line + 1])
         /\ TakesHalf(p, j) =>
              /\ j.file = job[p].file /\ j.line = job[p].line /\ j.skip = TRUE
              /\ j.buffer \in {job[p].buffer, Taken(job[p], half[job[p].file])}
         /\ TurnsFile(p, j) =>
              j.file = job[p].file + 1 /\ j.line = 0 /\ j.skip = FALSE /\ j.buffer = job[p].buffer
<1> DEFINE f == job[p].file
<1>1. /\ job[p].buffer \in Buffers /\ job[p].line \in Nat /\ f \in Nat \ {0}
      /\ lines[f] \in Seq(Events) /\ half[f] \in Events \cup {None}
  BY DEF TypeInv, Scanning
<1>2. CASE TakesLine(p, j)
  <2>1. job[p].line + 1 \in 1..Len(lines[f])
    BY <1>1, <1>2, LenProperties DEF TakesLine
  <2>2. lines[f][job[p].line + 1] \in Events
    BY <1>1, <2>1, ElementOfSeq
  <2>3. Taken(job[p], lines[f][job[p].line + 1]) \in Buffers
    BY <2>2, TakenFacts
  <2> DEFINE b == IF job[p].skip THEN job[p].buffer ELSE Taken(job[p], lines[f][job[p].line + 1])
  <2>4. b \in Buffers
    BY <1>1, <2>3
  <2>5. j = [job[p] EXCEPT !.line = @ + 1, !.skip = FALSE, !.buffer = b]
    BY <1>2 DEF TakesLine
  <2>6. ~TakesHalf(p, j) /\ ~TurnsFile(p, j)
    BY <1>1, <1>2, LenProperties DEF TakesLine, TakesHalf, TurnsFile
  <2> DEFINE n == job[p].line + 1
  <2>9. n \in Nat /\ j = [job[p] EXCEPT !.line = n, !.skip = FALSE, !.buffer = b]
    BY <1>1, <2>5
  <2> HIDE DEF b, n
  <2>7. /\ j \in Scanning /\ j.id = job[p].id /\ j.at = job[p].at
        /\ j.file = f /\ j.line = n /\ j.skip = FALSE /\ j.buffer = b
    BY <2>4, <2>9 DEF Scanning
  <2>8. QED
    BY <2>6, <2>7 DEF b, n
<1>3. CASE TakesHalf(p, j)
  <2>1. half[f] \in Events
    BY <1>1, <1>3 DEF TakesHalf
  <2>2. Taken(job[p], half[f]) \in Buffers
    BY <2>1, TakenFacts
  <2>3. PICK b \in {job[p].buffer, Taken(job[p], half[f])} : j = [job[p] EXCEPT !.skip = TRUE, !.buffer = b]
    <3>1. job[p] = [job[p] EXCEPT !.buffer = job[p].buffer]
      BY DEF Scanning
    <3>2. [job[p] EXCEPT !.skip = TRUE] = [job[p] EXCEPT !.skip = TRUE, !.buffer = job[p].buffer]
      BY <3>1 DEF Scanning
    <3>3. QED
      BY <1>3, <3>2 DEF TakesHalf
  <2>4. b \in Buffers
    BY <1>1, <2>2, <2>3
  <2>5. /\ j \in Scanning /\ j.id = job[p].id /\ j.at = job[p].at
        /\ j.file = f /\ j.line = job[p].line /\ j.skip = TRUE /\ j.buffer = b
    BY <1>1, <2>3, <2>4 DEF Scanning
  <2>6. ~TakesLine(p, j) /\ ~TurnsFile(p, j)
    <3>1. ~TakesLine(p, j)
      BY <1>1, <1>3, LenProperties DEF TakesLine, TakesHalf
    <3>2. ~job[p].skip
      BY <1>3 DEF TakesHalf
    <3>3. ASSUME TurnsFile(p, j) PROVE FALSE
      <4>1. j.file = f + 1
        BY <1>1, <3>3 DEF TurnsFile, Scanning
      <4>2. QED
        BY <1>1, <2>5, <4>1
    <3>4. QED
      BY <3>1, <3>3
  <2>7. QED
    BY <2>3, <2>5, <2>6
<1>4. CASE TurnsFile(p, j)
  <2>1. j = [job[p] EXCEPT !.file = @ + 1, !.line = 0, !.skip = FALSE]
    BY <1>4 DEF TurnsFile
  <2> DEFINE n == f + 1
  <2>6. n \in Nat \ {0} /\ j = [job[p] EXCEPT !.file = n, !.line = 0, !.skip = FALSE]
    BY <1>1, <2>1
  <2> HIDE DEF n
  <2>7. /\ j \in Scanning /\ j.id = job[p].id /\ j.at = job[p].at
        /\ j.file = n /\ j.line = 0 /\ j.skip = FALSE /\ j.buffer = job[p].buffer
    BY <2>6 DEF Scanning
  <2>2. /\ j \in Scanning /\ j.id = job[p].id /\ j.at = job[p].at
        /\ j.file = f + 1 /\ j.line = 0 /\ j.skip = FALSE /\ j.buffer = job[p].buffer
    BY <2>7 DEF n
  <2>3. ~TakesLine(p, j)
    BY <1>1, <1>4, LenProperties DEF TakesLine, TurnsFile
  <2>4. ~TakesHalf(p, j)
    <3>1. SUFFICES ASSUME TakesHalf(p, j) PROVE FALSE
      OBVIOUS
    <3>2. j.skip = TRUE
      BY <3>1 DEF TakesHalf, Scanning
    <3>3. QED
      BY <2>2, <3>2
  <2>5. QED
    BY <2>2, <2>3, <2>4
<1>5. QED
  BY <1>2, <1>3, <1>4

LEMMA BeginsEtl ==
  ASSUME TypeInv, NEW p \in Procs, StartEtl(p)
  PROVE  /\ At(p, "idle")
         /\ job'[p] \in Scanning
         /\ job'[p].at = "scan" /\ job'[p].id = now /\ job'[p].file = 1 /\ job'[p].line = 0
         /\ job'[p].skip = FALSE /\ job'[p].buffer = NoRows
         /\ \A q \in Procs : q # p => job'[q] = job[q]
         /\ job' \in [Procs -> AnyJob]
         /\ DOMAIN dirs' = DOMAIN dirs \cup {now}
         /\ dirs' \in [DOMAIN dirs' -> Dirs]
         /\ \A k \in DOMAIN dirs : k # now => dirs'[k] = dirs[k]
         /\ dirs'[now].due = WholeLines
         /\ LET dir == IF now \in DOMAIN dirs THEN dirs[now] ELSE NewDir IN
              /\ dirs'[now].users = dir.users + 1
              /\ dirs'[now].manifest = dir.manifest
              /\ dirs'[now].parts = dir.parts /\ dirs'[now].flushes = dir.flushes
<1> DEFINE r == [at |-> "scan", id |-> now, file |-> 1, line |-> 0, skip |-> FALSE,
                 buffer |-> NoRows, todo |-> {}]
           dir == IF now \in DOMAIN dirs THEN dirs[now] ELSE NewDir
           d == [dir EXCEPT !.users = @ + 1, !.due = WholeLines]
<1>1. r \in Scanning
  BY NoRowsFacts DEF TypeInv, Scanning
<1>2. r \in AnyJob
  BY <1>1 DEF AnyJob
<1>3. job'[p] = r /\ (\A q \in Procs : q # p => job'[q] = job[q]) /\ job' \in [Procs -> AnyJob]
  <2>1. Becomes(p, r)
    BY DEF StartEtl
  <2> HIDE DEF r
  <2>2. QED
    BY <1>2, <2>1, Steps
<1>4. dir \in Dirs
  BY NewDirFacts DEF TypeInv
<1>5. WholeLines \subseteq Files \X Events
  <2>1. \A f \in Files : ToSet(lines[f]) \subseteq Events
    BY ElementOfSeq, LenProperties DEF TypeInv, ToSet
  <2>2. QED
    BY <2>1 DEF WholeLines
<1>6. /\ d \in Dirs /\ d.due = WholeLines /\ d.users = dir.users + 1 /\ d.manifest = dir.manifest
      /\ d.parts = dir.parts /\ d.flushes = dir.flushes
  <2> HIDE DEF dir
  <2>1. dir.users + 1 \in Nat
    BY <1>4 DEF Dirs
  <2> DEFINE n == dir.users + 1
  <2>2. d = [dir EXCEPT !.users = n, !.due = WholeLines]
    BY <1>4 DEF Dirs
  <2> HIDE DEF n, d
  <2>3. n \in Nat
    BY <2>1 DEF n
  <2>4. /\ d \in Dirs /\ d.due = WholeLines /\ d.users = n /\ d.manifest = dir.manifest
        /\ d.parts = dir.parts /\ d.flushes = dir.flushes
    BY <1>4, <1>5, <2>2, <2>3 DEF Dirs
  <2>5. QED
    BY <2>4 DEF n
<1>7. dirs' = [k \in DOMAIN dirs \cup {now} |-> IF k = now THEN d ELSE dirs[k]]
  BY DEF StartEtl
<1> HIDE DEF dir, d
<1>8. /\ DOMAIN dirs' = DOMAIN dirs \cup {now} /\ dirs'[now] = d
      /\ \A k \in DOMAIN dirs : k # now => dirs'[k] = dirs[k]
  BY <1>7
<1>9. dirs' \in [DOMAIN dirs' -> Dirs]
  BY <1>6, <1>7 DEF TypeInv
<1>10. At(p, "idle")
  BY DEF StartEtl
<1>11. QED
  BY <1>1, <1>3, <1>6, <1>8, <1>9, <1>10 DEF dir

LEMMA EndsScan ==
  ASSUME TypeInv, NEW p \in Procs, ScanEnds(p)
  PROVE  /\ job[p] \in Scanning /\ At(p, "scan") /\ job[p].file \notin Files
         /\ job'[p] \in Scanning /\ job'[p].at = "meta" /\ job'[p].id = job[p].id
         /\ \A q \in Procs : q # p => job'[q] = job[q]
         /\ job' \in [Procs -> AnyJob]
         /\ job[p].id \in DOMAIN dirs /\ dirs[job[p].id] \in Dirs
         /\ DOMAIN dirs' = DOMAIN dirs
         /\ dirs'[job[p].id] = FlushAll(dirs[job[p].id], job[p].buffer, {"events", "runs"})
         /\ \A i \in DOMAIN dirs : i # job[p].id => dirs'[i] = dirs[i]
         /\ dirs' \in [DOMAIN dirs' -> Dirs]
<1>1. At(p, "scan") /\ job[p].file \notin Files /\ job[p] \in Scanning
  BY Kinds DEF ScanEnds, At
<1> DEFINE r == [job[p] EXCEPT !.at = "meta", !.todo = Present, !.buffer = NoRows]
<1>2. Present \subseteq Artifacts /\ NoRows \in Buffers
  BY NoRowsFacts DEF Present
<1>3. r \in Scanning /\ r.at = "meta" /\ r.id = job[p].id
  BY <1>1, <1>2 DEF Scanning
<1>4. Becomes(p, r)
  BY DEF ScanEnds
<1> HIDE DEF r
<1>5. r \in AnyJob
  BY <1>3 DEF AnyJob
<1>6. job'[p] = r /\ (\A q \in Procs : q # p => job'[q] = job[q]) /\ job' \in [Procs -> AnyJob]
  BY <1>4, <1>5, Steps
<1>7. job[p].id \in DOMAIN dirs /\ dirs[job[p].id] \in Dirs /\ job[p].buffer \in Buffers
  BY <1>1 DEF TypeInv, Scanning, At
<1> DEFINE d == FlushAll(dirs[job[p].id], job[p].buffer, {"events", "runs"})
<1>8. d \in Dirs
  BY <1>7, FlushAllFacts
<1>9. dirs' = [dirs EXCEPT ![job[p].id] = d]
  BY DEF ScanEnds
<1> HIDE DEF d
<1>10. /\ DOMAIN dirs' = DOMAIN dirs /\ dirs'[job[p].id] = d
       /\ (\A i \in DOMAIN dirs : i # job[p].id => dirs'[i] = dirs[i]) /\ dirs' \in [DOMAIN dirs' -> Dirs]
  BY <1>7, <1>8, <1>9, DirStep
<1>11. QED
  BY <1>1, <1>3, <1>6, <1>7, <1>10 DEF d

\* Behind the scan the tables of the events are left alone.
SameTables(d, dir) ==
  /\ d.due = dir.due /\ d.users = dir.users
  /\ \A t \in {"events", "runs"} : d.parts[t] = dir.parts[t] /\ d.flushes[t] = dir.flushes[t]

LEMMA TellsArtifact ==
  ASSUME TypeInv, NEW p \in Procs, MetaRow(p)
  PROVE  /\ job[p] \in Scanning /\ At(p, "meta")
         /\ job'[p] \in Scanning /\ job'[p].at = "meta" /\ job'[p].id = job[p].id
         /\ \A q \in Procs : q # p => job'[q] = job[q]
         /\ job' \in [Procs -> AnyJob]
         /\ DOMAIN dirs' = DOMAIN dirs
         /\ SameTables(dirs'[job[p].id], dirs[job[p].id])
         /\ dirs'[job[p].id].manifest = dirs[job[p].id].manifest
         /\ \A i \in DOMAIN dirs : i # job[p].id => dirs'[i] = dirs[i]
         /\ dirs' \in [DOMAIN dirs' -> Dirs]
<1>1. At(p, "meta") /\ job[p] \in Scanning
  BY Kinds DEF MetaRow, At
<1> DEFINE grown(a) == IF local[a] # "whole" THEN job[p].buffer
                       ELSE [job[p].buffer EXCEPT !["artifacts"] = Append(@, Row(a, Home, a))]
<1>2. PICK a \in job[p].todo :
        LET full == {t \in {"artifacts"} : Full(grown(a), t)} IN
        /\ dirs' = [dirs EXCEPT ![job[p].id] = FlushAll(@, grown(a), full)]
        /\ Becomes(p, [job[p] EXCEPT !.todo = @ \ {a}, !.buffer = Without(grown(a), full)])
  BY DEF MetaRow
<1> DEFINE full == {t \in {"artifacts"} : Full(grown(a), t)}
           j == [job[p] EXCEPT !.todo = @ \ {a}, !.buffer = grown(a)]
<1>3. a \in Artifacts /\ job[p].buffer \in Buffers
  BY <1>1 DEF Scanning
<1>4. grown(a) \in Buffers
  <2>1. Row(a, Home, a) \in RowSet
    BY <1>3, RowType, BatchAssumption
  <2>2. \A t \in Tables : job[p].buffer[t] \in Seq(RowSet)
    BY <1>3 DEF Buffers
  <2>3. Append(job[p].buffer["artifacts"], Row(a, Home, a)) \in Seq(RowSet)
    BY <2>1, <2>2, AppendProperties DEF Tables
  <2>4. QED
    BY <1>3, <2>3 DEF Buffers
<1> HIDE DEF grown
<1>5. /\ j \in Scanning /\ j.id = job[p].id /\ j.at = "meta" /\ j.buffer = grown(a)
  BY <1>1, <1>4 DEF Scanning, At
<1>6. [job[p] EXCEPT !.todo = @ \ {a}, !.buffer = Without(grown(a), full)] = [j EXCEPT !.buffer = Without(@, full)]
  BY <1>1 DEF Scanning
<1> HIDE DEF j, full
<1>7. /\ Becomes(p, [j EXCEPT !.buffer = Without(@, full)])
      /\ dirs' = [dirs EXCEPT ![job[p].id] = FlushAll(@, j.buffer, full)]
      /\ job[p].at \in {"scan", "meta"} /\ j.id = job[p].id
  BY <1>1, <1>2, <1>5, <1>6 DEF full, At
<1>8. /\ job'[p] \in Scanning /\ job'[p].at = "meta" /\ job'[p].id = job[p].id
      /\ \A q \in Procs : q # p => job'[q] = job[q]
      /\ job' \in [Procs -> AnyJob]
      /\ j.id \in DOMAIN dirs /\ dirs[j.id] \in Dirs
      /\ DOMAIN dirs' = DOMAIN dirs
      /\ dirs'[j.id] = FlushAll(dirs[j.id], j.buffer, full)
      /\ \A i \in DOMAIN dirs : i # j.id => dirs'[i] = dirs[i]
      /\ dirs' \in [DOMAIN dirs' -> Dirs]
  <2>1. /\ job'[p] \in Scanning /\ job'[p].at = j.at /\ job'[p].id = j.id
        /\ \A q \in Procs : q # p => job'[q] = job[q]
        /\ job' \in [Procs -> AnyJob]
    BY ZenonT(40), <1>5, <1>7, BatchStep
  <2>2. /\ j.id \in DOMAIN dirs /\ dirs[j.id] \in Dirs
        /\ DOMAIN dirs' = DOMAIN dirs
        /\ dirs'[j.id] = FlushAll(dirs[j.id], j.buffer, full)
    BY <1>5, <1>7, BatchStep
  <2>3. /\ \A i \in DOMAIN dirs : i # j.id => dirs'[i] = dirs[i]
        /\ dirs' \in [DOMAIN dirs' -> Dirs]
    BY <1>5, <1>7, BatchStep
  <2>4. QED
    BY <1>5, <2>1, <2>2, <2>3
<1>9. "events" \notin full /\ "runs" \notin full
  BY DEF full
<1>10. SameTables(dirs'[j.id], dirs[j.id]) /\ dirs'[j.id].manifest = dirs[j.id].manifest
  BY <1>4, <1>5, <1>8, <1>9, FlushAllFacts DEF SameTables, Tables
<1>11. QED
  BY <1>1, <1>5, <1>8, <1>10

LEMMA WritesManifest ==
  ASSUME TypeInv, NEW p \in Procs, WriteBatchManifest(p)
  PROVE  /\ job[p] \in Scanning /\ At(p, "meta")
         /\ job'[p] \in Linking /\ job'[p].at = "report" /\ job'[p].id = job[p].id
         /\ \A q \in Procs : q # p => job'[q] = job[q]
         /\ job' \in [Procs -> AnyJob]
         /\ DOMAIN dirs' = DOMAIN dirs
         /\ SameTables(dirs'[job[p].id], dirs[job[p].id])
         /\ dirs'[job[p].id].manifest = FALSE
         /\ \A i \in DOMAIN dirs : i # job[p].id => dirs'[i] = dirs[i]
         /\ dirs' \in [DOMAIN dirs' -> Dirs]
<1>1. At(p, "meta") /\ job[p] \in Scanning
  BY Kinds DEF WriteBatchManifest, At
<1>2. /\ job[p].id \in Nat /\ job[p].id \in DOMAIN dirs /\ dirs[job[p].id] \in Dirs
      /\ job[p].buffer \in Buffers
  BY <1>1 DEF Scanning, TypeInv, At
<1> DEFINE r == [at |-> "report", id |-> job[p].id]
           flushed == FlushAll(dirs[job[p].id], job[p].buffer, {"artifacts"})
           d == [flushed EXCEPT !.manifest = FALSE]
<1>3. r \in Linking /\ r \in AnyJob /\ Becomes(p, r)
  BY <1>2 DEF Linking, AnyJob, WriteBatchManifest
<1>4. job'[p] = r /\ (\A q \in Procs : q # p => job'[q] = job[q]) /\ job' \in [Procs -> AnyJob]
  <2> HIDE DEF r
  <2>1. QED
    BY <1>3, Steps
<1>5. flushed \in Dirs /\ SameTables(flushed, dirs[job[p].id])
  BY <1>2, FlushAllFacts DEF SameTables, Tables
<1>6. dirs' = [dirs EXCEPT ![job[p].id] = d]
  BY DEF WriteBatchManifest
<1> HIDE DEF flushed
<1>7. d \in Dirs /\ SameTables(d, dirs[job[p].id]) /\ d.manifest = FALSE
  BY <1>5 DEF SameTables, Dirs
<1> HIDE DEF d
<1>8. /\ DOMAIN dirs' = DOMAIN dirs /\ dirs'[job[p].id] = d
      /\ (\A i \in DOMAIN dirs : i # job[p].id => dirs'[i] = dirs[i]) /\ dirs' \in [DOMAIN dirs' -> Dirs]
  BY <1>2, <1>6, <1>7, DirStep
<1>9. QED
  BY <1>1, <1>3, <1>4, <1>7, <1>8

LEMMA Reports ==
  ASSUME TypeInv, NEW p \in Procs, Report(p)
  PROVE  /\ job[p] \in Linking /\ At(p, "report") /\ job[p].id \in DOMAIN dirs
         /\ job'[p] \in Linking /\ job'[p].at = "unlink" /\ job'[p].id = job[p].id
         /\ \A q \in Procs : q # p => job'[q] = job[q]
         /\ job' \in [Procs -> AnyJob]
         /\ DOMAIN dirs' = DOMAIN dirs
         /\ SameTables(dirs'[job[p].id], dirs[job[p].id])
         /\ dirs'[job[p].id].manifest = TRUE
         /\ \A i \in DOMAIN dirs : i # job[p].id => dirs'[i] = dirs[i]
         /\ dirs' \in [DOMAIN dirs' -> Dirs]
<1>1. At(p, "report") /\ job[p] \in Linking
  BY Kinds DEF Report, At
<1>2. job[p].id \in Nat /\ job[p].id \in DOMAIN dirs /\ dirs[job[p].id] \in Dirs
  BY <1>1 DEF Linking, TypeInv, At
<1> DEFINE r == [at |-> "unlink", id |-> job[p].id]
           d == [dirs[job[p].id] EXCEPT !.manifest = TRUE]
<1>3. r \in Linking /\ r \in AnyJob /\ Becomes(p, r)
  BY <1>2 DEF Linking, AnyJob, Report
<1>4. job'[p] = r /\ (\A q \in Procs : q # p => job'[q] = job[q]) /\ job' \in [Procs -> AnyJob]
  <2> HIDE DEF r
  <2>1. QED
    BY <1>3, Steps
<1>5. dirs' = [dirs EXCEPT ![job[p].id] = d]
  BY DEF Report
<1>6. d \in Dirs /\ SameTables(d, dirs[job[p].id]) /\ d.manifest = TRUE
  BY <1>2 DEF SameTables, Dirs
<1> HIDE DEF d
<1>7. /\ DOMAIN dirs' = DOMAIN dirs /\ dirs'[job[p].id] = d
      /\ (\A i \in DOMAIN dirs : i # job[p].id => dirs'[i] = dirs[i]) /\ dirs' \in [DOMAIN dirs' -> Dirs]
  BY <1>2, <1>5, <1>6, DirStep
<1>8. QED
  BY <1>1, <1>2, <1>3, <1>4, <1>6, <1>7

LEMMA Links ==
  ASSUME TypeInv, NEW p \in Procs, Unlink(p) \/ Link(p)
  PROVE  /\ job[p] \in Linking
         /\ \/ job'[p] \in Linking /\ job'[p].at = "link" /\ job'[p].id = job[p].id
            \/ job'[p] = Idle
         /\ \A q \in Procs : q # p => job'[q] = job[q]
         /\ job' \in [Procs -> AnyJob]
         /\ latest' \in {None, latest, job[p].id}
<1>1. job[p].at \in {"unlink", "link"} /\ job[p] \in Linking
  BY Kinds DEF Unlink, Link, At
<1> DEFINE r == [at |-> "link", id |-> job[p].id]
<1>2. r \in Linking /\ r \in AnyJob /\ Idle \in AnyJob
  BY <1>1 DEF Linking, AnyJob
<1>3. Becomes(p, r) \/ Becomes(p, Idle)
  BY DEF Unlink, Link
<1> HIDE DEF r
<1>4. /\ job'[p] \in {r, Idle} /\ (\A q \in Procs : q # p => job'[q] = job[q])
      /\ job' \in [Procs -> AnyJob]
  BY <1>2, <1>3, Steps
<1>5. r.at = "link" /\ r.id = job[p].id
  BY DEF r
<1>6. latest' \in {None, latest, job[p].id}
  BY DEF Unlink, Link
<1>7. QED
  BY <1>1, <1>2, <1>4, <1>5, <1>6

LEMMA BeginsExport ==
  ASSUME TypeInv, NEW p \in Procs, StartExport(p)
  PROVE  /\ At(p, "idle")
         /\ job'[p] \in Exporting /\ job'[p].ledgers = Files /\ job'[p].todo = {}
         /\ \A t \in Tables \cup {"manifest"} : job'[p].rows[t] = {}
         /\ job'[p].due = ({d[2] : d \in WholeLines} \ Separated) \cup {a \in Artifacts : local[a] = "whole"}
         /\ \A q \in Procs : q # p => job'[q] = job[q]
         /\ job' \in [Procs -> AnyJob]
<1> DEFINE due == ({d[2] : d \in WholeLines} \ Separated) \cup {a \in Artifacts : local[a] = "whole"}
           r == [at |-> "export", ledgers |-> Files, todo |-> {}, rows |-> [t \in DOMAIN db |-> {}],
                 due |-> due]
<1>1. DOMAIN db = Tables \cup {"manifest"}
  BY DEF TypeInv
<1>2. due \subseteq Events \cup Artifacts
  <2>1. \A f \in Files : ToSet(lines[f]) \subseteq Events
    BY ElementOfSeq, LenProperties DEF TypeInv, ToSet
  <2>2. QED
    BY <2>1 DEF WholeLines
<1> HIDE DEF due
<1>3. r \in Exporting
  BY <1>1, <1>2 DEF Exporting
<1>4. r \in AnyJob
  BY <1>3 DEF AnyJob
<1>5. Becomes(p, r) /\ At(p, "idle")
  BY DEF StartExport, due
<1>6. r.ledgers = Files /\ r.todo = {} /\ r.due = due /\ \A t \in Tables \cup {"manifest"} : r.rows[t] = {}
  BY <1>1
<1> HIDE DEF r
<1>7. QED
  BY <1>3, <1>4, <1>5, <1>6, Steps DEF due

LEMMA ExportsLedger ==
  ASSUME TypeInv, NEW p \in Procs, ExportLedger(p)
  PROVE  /\ job[p] \in Exporting /\ At(p, "export")
         /\ job'[p] \in Exporting /\ job'[p].due = job[p].due
         /\ \E f \in job[p].ledgers, last \in SUBSET Events :
              /\ last \subseteq {half[f]} \ {None}
              /\ job'[p].ledgers = job[p].ledgers \ {f}
              /\ job'[p].todo = IF job[p].ledgers = {f} THEN Present ELSE {}
              /\ job'[p].rows["events"] = job[p].rows["events"] \cup ((ToSet(lines[f]) \cup last) \ Separated)
              /\ job'[p].rows["runs"] =
                   job[p].rows["runs"] \cup (((ToSet(lines[f]) \cup last) \ Separated) \cap Completed)
              /\ job'[p].rows["artifacts"] = job[p].rows["artifacts"]
         /\ \A q \in Procs : q # p => job'[q] = job[q]
         /\ job' \in [Procs -> AnyJob]
<1>1. At(p, "export") /\ job[p] \in Exporting
  BY Kinds DEF ExportLedger
<1>0. PICK f \in job[p].ledgers : \E last \in SUBSET ({half[f]} \ {None}) :
        Becomes(p, [job[p] EXCEPT !.ledgers = @ \ {f}, !.todo = IF job[p].ledgers = {f} THEN Present ELSE {},
                      !.rows["events"] = @ \cup ((ToSet(lines[f]) \cup last) \ Separated),
                      !.rows["runs"] = @ \cup (((ToSet(lines[f]) \cup last) \ Separated) \cap Completed)])
  BY DEF ExportLedger
<1>2. PICK last \in SUBSET ({half[f]} \ {None}) :
        Becomes(p, [job[p] EXCEPT !.ledgers = @ \ {f}, !.todo = IF job[p].ledgers = {f} THEN Present ELSE {},
                      !.rows["events"] = @ \cup ((ToSet(lines[f]) \cup last) \ Separated),
                      !.rows["runs"] = @ \cup (((ToSet(lines[f]) \cup last) \ Separated) \cap Completed)])
  BY <1>0
<1>3. f \in Files /\ half[f] \in Events \cup {None} /\ lines[f] \in Seq(Events)
  BY <1>1 DEF Exporting, TypeInv
<1>4. ToSet(lines[f]) \subseteq Events /\ last \subseteq Events
  BY <1>2, <1>3, ElementOfSeq, LenProperties DEF ToSet
<1> DEFINE new == (ToSet(lines[f]) \cup last) \ Separated
           todo == IF job[p].ledgers = {f} THEN Present ELSE {}
           rows == [job[p].rows EXCEPT !["events"] = @ \cup new, !["runs"] = @ \cup (new \cap Completed)]
           r == [job[p] EXCEPT !.ledgers = @ \ {f}, !.todo = todo, !.rows = rows]
<1>5. new \subseteq Events /\ todo \subseteq Artifacts
  BY <1>4 DEF Present
<1> HIDE DEF new, todo
<1>6. job[p].rows \in [Tables \cup {"manifest"} -> SUBSET (Events \cup Artifacts)]
  BY <1>1 DEF Exporting
<1>7. /\ rows \in [Tables \cup {"manifest"} -> SUBSET (Events \cup Artifacts)]
      /\ rows["events"] = job[p].rows["events"] \cup new
      /\ rows["runs"] = job[p].rows["runs"] \cup (new \cap Completed)
      /\ rows["artifacts"] = job[p].rows["artifacts"]
  BY <1>5, <1>6 DEF Tables
<1>8. Becomes(p, r)
  <2>1. r = [job[p] EXCEPT !.ledgers = @ \ {f}, !.todo = todo,
               !.rows["events"] = @ \cup new, !.rows["runs"] = @ \cup (new \cap Completed)]
    BY <1>1, <1>6 DEF Exporting, Tables
  <2>2. QED
    BY <1>2, <2>1 DEF new, todo
<1> HIDE DEF rows
<1>9. /\ r \in Exporting /\ r.due = job[p].due /\ r.ledgers = job[p].ledgers \ {f} /\ r.todo = todo
      /\ r.rows = rows
  BY <1>1, <1>5, <1>7 DEF Exporting
<1> HIDE DEF r
<1>10. r \in AnyJob
  BY <1>9 DEF AnyJob
<1>11. job'[p] = r /\ (\A q \in Procs : q # p => job'[q] = job[q]) /\ job' \in [Procs -> AnyJob]
  BY <1>8, <1>10, Steps
<1>12. last \in SUBSET Events
  BY <1>4
<1>13. /\ last \subseteq {half[f]} \ {None}
       /\ job'[p].ledgers = job[p].ledgers \ {f}
       /\ job'[p].todo = IF job[p].ledgers = {f} THEN Present ELSE {}
       /\ job'[p].rows["events"] = job[p].rows["events"] \cup ((ToSet(lines[f]) \cup last) \ Separated)
       /\ job'[p].rows["runs"] =
            job[p].rows["runs"] \cup (((ToSet(lines[f]) \cup last) \ Separated) \cap Completed)
       /\ job'[p].rows["artifacts"] = job[p].rows["artifacts"]
  BY <1>2, <1>7, <1>9, <1>11 DEF new, todo
<1>14. QED
  BY <1>1, <1>2, <1>9, <1>11, <1>12, <1>13

LEMMA ExportsArtifact ==
  ASSUME TypeInv, NEW p \in Procs, ExportArtifact(p)
  PROVE  /\ job[p] \in Exporting /\ At(p, "export")
         /\ job'[p] \in Exporting /\ job'[p].due = job[p].due /\ job'[p].ledgers = job[p].ledgers
         /\ \E a \in job[p].todo :
              /\ job'[p].todo = job[p].todo \ {a}
              /\ job'[p].rows["artifacts"] =
                   IF local[a] = "whole" THEN job[p].rows["artifacts"] \cup {a} ELSE job[p].rows["artifacts"]
         /\ job'[p].rows["events"] = job[p].rows["events"]
         /\ job'[p].rows["runs"] = job[p].rows["runs"]
         /\ \A q \in Procs : q # p => job'[q] = job[q]
         /\ job' \in [Procs -> AnyJob]
<1>1. At(p, "export") /\ job[p] \in Exporting
  BY Kinds DEF ExportArtifact
<1>2. PICK a \in job[p].todo :
        Becomes(p, [job[p] EXCEPT !.todo = @ \ {a},
                      !.rows["artifacts"] = IF local[a] = "whole" THEN @ \cup {a} ELSE @])
  BY DEF ExportArtifact
<1>3. a \in Artifacts /\ job[p].rows \in [Tables \cup {"manifest"} -> SUBSET (Events \cup Artifacts)]
  BY <1>1 DEF Exporting
<1> DEFINE new == IF local[a] = "whole" THEN job[p].rows["artifacts"] \cup {a} ELSE job[p].rows["artifacts"]
           rows == [job[p].rows EXCEPT !["artifacts"] = new]
           r == [job[p] EXCEPT !.todo = @ \ {a}, !.rows = rows]
<1>4. new \subseteq Events \cup Artifacts
  BY <1>3 DEF Tables
<1>5. Becomes(p, r)
  <2>1. r = [job[p] EXCEPT !.todo = @ \ {a},
               !.rows["artifacts"] = IF local[a] = "whole" THEN @ \cup {a} ELSE @]
    BY <1>1, <1>3 DEF Exporting, Tables
  <2>2. QED
    BY <1>2, <2>1
<1> HIDE DEF new
<1>6. /\ rows \in [Tables \cup {"manifest"} -> SUBSET (Events \cup Artifacts)]
      /\ rows["artifacts"] = new /\ rows["events"] = job[p].rows["events"]
      /\ rows["runs"] = job[p].rows["runs"]
  BY <1>3, <1>4 DEF Tables
<1> HIDE DEF rows
<1>7. /\ r \in Exporting /\ r.due = job[p].due /\ r.ledgers = job[p].ledgers
      /\ r.todo = job[p].todo \ {a} /\ r.rows = rows
  BY <1>1, <1>6 DEF Exporting
<1> HIDE DEF r
<1>8. r \in AnyJob
  BY <1>7 DEF AnyJob
<1>9. job'[p] = r /\ (\A q \in Procs : q # p => job'[q] = job[q]) /\ job' \in [Procs -> AnyJob]
  BY <1>5, <1>8, Steps
<1>10. QED
  BY <1>1, <1>6, <1>7, <1>9 DEF new

LEMMA EndsJob ==
  ASSUME TypeInv, NEW p \in Procs, Becomes(p, Idle)
  PROVE  /\ job'[p] = Idle
         /\ \A q \in Procs : q # p => job'[q] = job[q]
         /\ job' \in [Procs -> AnyJob]
<1>1. Idle \in AnyJob
  BY DEF AnyJob
<1>2. QED
  BY <1>1, Steps

LEMMA WholeInFacts ==
  ASSUME TypeInv, NEW k \in DOMAIN bundles
  PROVE  /\ WholeIn(k) \subseteq DOMAIN bundles[k]
         /\ WholeIn(k) \subseteq Artifacts
         /\ bundles[k] \in Members
<1>1. bundles[k] \in Members
  BY DEF TypeInv
<1>2. QED
  BY <1>1, MembersFacts DEF WholeIn

LEMMA BeginsIndex ==
  ASSUME TypeInv, NEW p \in Procs, StartIndex(p)
  PROVE  /\ At(p, "idle")
         /\ job'[p] \in Indexing /\ job'[p].at = "index" /\ job'[p].todo = Present
         /\ job'[p].keys = {} \/ job'[p].keys = Listed
         /\ job'[p].members = <<>> /\ job'[p].entries = {} /\ job'[p].had = {}
         /\ job'[p].here = {a \in Artifacts : local[a] = "whole"}
         /\ job'[p].there = UNION {WholeIn(k) : k \in job'[p].keys}
         /\ job'[p].torn = {a \in Artifacts : local[a] = "torn"}
         /\ \A q \in Procs : q # p => job'[q] = job[q]
         /\ job' \in [Procs -> AnyJob]
<1>1. PICK fromS3 \in BOOLEAN :
        LET keys == IF fromS3 THEN Listed ELSE {}
            there == UNION {WholeIn(k) : k \in keys}
        IN Becomes(p, [at |-> "index", todo |-> Present, keys |-> keys, members |-> <<>>, entries |-> {},
                       had |-> {}, here |-> {a \in Artifacts : local[a] = "whole"}, there |-> there,
                       torn |-> {a \in Artifacts : local[a] = "torn"}])
  BY DEF StartIndex
<1> DEFINE keys == IF fromS3 THEN Listed ELSE {}
           there == UNION {WholeIn(k) : k \in keys}
           here == {a \in Artifacts : local[a] = "whole"}
           torn == {a \in Artifacts : local[a] = "torn"}
           r == [at |-> "index", todo |-> Present, keys |-> keys, members |-> <<>>, entries |-> {},
                 had |-> {}, here |-> here, there |-> there, torn |-> torn]
<1>2. Becomes(p, r) /\ At(p, "idle")
  BY <1>1 DEF StartIndex
<1>3. keys = {} \/ keys = Listed
  OBVIOUS
<1>4. keys \subseteq Authors \X Nat /\ keys \subseteq DOMAIN bundles
  <2>1. keys \subseteq DOMAIN bundles
    BY DEF Listed
  <2>2. DOMAIN bundles \subseteq Authors \X Nat
    BY DEF TypeInv
  <2>3. QED
    BY <2>1, <2>2
<1>5. there \subseteq Artifacts
  BY <1>4, WholeInFacts
<1>6. Present \subseteq Artifacts /\ here \subseteq Artifacts /\ torn \subseteq Artifacts
  BY DEF Present
<1> HIDE DEF keys, there, here, torn
<1>7. r \in Indexing
  BY <1>4, <1>5, <1>6, NoMembers DEF Indexing
<1>8. r \in AnyJob
  BY <1>7 DEF AnyJob
<1>9. /\ r.at = "index" /\ r.todo = Present /\ r.keys = keys /\ r.members = <<>> /\ r.entries = {}
      /\ r.had = {} /\ r.here = here /\ r.there = there /\ r.torn = torn
  OBVIOUS
<1> HIDE DEF r
<1>10. job'[p] = r /\ (\A q \in Procs : q # p => job'[q] = job[q]) /\ job' \in [Procs -> AnyJob]
  BY <1>2, <1>8, Steps
<1>11. job'[p].there = UNION {WholeIn(k) : k \in job'[p].keys}
  BY <1>9, <1>10 DEF there
<1>12. QED
  BY <1>2, <1>3, <1>7, <1>9, <1>10, <1>11 DEF here, torn

\* What a step of an index job does not touch.
SameIndex(j, r) ==
  /\ r.here = j.here /\ r.torn = j.torn /\ r.there \subseteq j.there

LEMMA IndexesLocal ==
  ASSUME TypeInv, NEW p \in Procs, IndexLocal(p)
  PROVE  /\ job[p] \in Indexing /\ At(p, "index")
         /\ job'[p] \in Indexing /\ job'[p].at = "index"
         /\ \E a \in job[p].todo :
              /\ job'[p].todo = job[p].todo \ {a}
              /\ job'[p].entries = IF local[a] = "whole" THEN job[p].entries \cup {a} ELSE job[p].entries
         /\ job'[p].keys = job[p].keys /\ job'[p].members = job[p].members
         /\ job'[p].there = job[p].there /\ SameIndex(job[p], job'[p])
         /\ \A q \in Procs : q # p => job'[q] = job[q]
         /\ job' \in [Procs -> AnyJob]
<1>1. At(p, "index") /\ job[p] \in Indexing
  BY Kinds DEF IndexLocal, At, IndexJob
<1>2. PICK a \in job[p].todo :
        Becomes(p, [job[p] EXCEPT !.todo = @ \ {a},
                      !.entries = IF local[a] = "whole" THEN @ \cup {a} ELSE @])
  BY DEF IndexLocal
<1> DEFINE new == IF local[a] = "whole" THEN job[p].entries \cup {a} ELSE job[p].entries
           r == [job[p] EXCEPT !.todo = @ \ {a}, !.entries = new]
<1>3. new \subseteq Artifacts
  BY <1>1 DEF Indexing
<1>4. Becomes(p, r)
  BY <1>1, <1>2 DEF Indexing
<1> HIDE DEF new
<1>5. /\ r \in Indexing /\ r.at = "index" /\ r.todo = job[p].todo \ {a} /\ r.entries = new
      /\ r.keys = job[p].keys /\ r.members = job[p].members
      /\ r.there = job[p].there /\ SameIndex(job[p], r)
  BY <1>1, <1>3 DEF Indexing, SameIndex, At
<1> HIDE DEF r
<1>6. r \in AnyJob
  BY <1>5 DEF AnyJob
<1>7. job'[p] = r /\ (\A q \in Procs : q # p => job'[q] = job[q]) /\ job' \in [Procs -> AnyJob]
  BY <1>4, <1>6, Steps
<1>8. QED
  BY <1>1, <1>5, <1>7 DEF new

LEMMA Fetches ==
  ASSUME TypeInv, NEW p \in Procs, Fetch(p), job[p].keys \subseteq DOMAIN bundles
  PROVE  /\ job[p] \in Indexing /\ job[p].at \in {"index", "unpack"} /\ job[p].members = <<>>
         /\ At(p, "index") => job[p].todo = {}
         /\ job'[p] \in Indexing /\ job'[p].at = "unpack" /\ job'[p].todo = job[p].todo
         /\ job'[p].entries = job[p].entries /\ SameIndex(job[p], job'[p])
         /\ \E k \in job[p].keys :
              /\ job'[p].keys = job[p].keys \ {k}
              /\ \/ job'[p].members = bundles[k] /\ job'[p].there = job[p].there
                 \/ job'[p].members = <<>> /\ job'[p].there = job[p].there \ WholeIn(k)
         /\ \A q \in Procs : q # p => job'[q] = job[q]
         /\ job' \in [Procs -> AnyJob]
<1>1. job[p].at \in {"index", "unpack"} /\ job[p] \in Indexing /\ job[p].members = <<>>
  BY Kinds DEF Fetch, IndexJob
<1>2. PICK k \in job[p].keys :
        \/ Becomes(p, [job[p] EXCEPT !.at = "unpack", !.keys = @ \ {k}, !.members = bundles[k]])
        \/ Becomes(p, [job[p] EXCEPT !.at = "unpack", !.keys = @ \ {k}, !.there = @ \ WholeIn(k)])
  BY DEF Fetch
<1>3. bundles[k] \in Members
  BY WholeInFacts
<1>4. PICK m \in Members, there \in SUBSET job[p].there :
        /\ \/ m = bundles[k] /\ there = job[p].there
           \/ m = <<>> /\ there = job[p].there \ WholeIn(k)
        /\ Becomes(p, [job[p] EXCEPT !.at = "unpack", !.keys = @ \ {k}, !.members = m, !.there = there])
  <2>1. CASE Becomes(p, [job[p] EXCEPT !.at = "unpack", !.keys = @ \ {k}, !.members = bundles[k]])
    <3>1. [job[p] EXCEPT !.at = "unpack", !.keys = @ \ {k}, !.members = bundles[k]]
            = [job[p] EXCEPT !.at = "unpack", !.keys = @ \ {k}, !.members = bundles[k], !.there = job[p].there]
      BY <1>1 DEF Indexing
    <3>2. QED
      BY <1>3, <2>1, <3>1
  <2>2. CASE Becomes(p, [job[p] EXCEPT !.at = "unpack", !.keys = @ \ {k}, !.there = @ \ WholeIn(k)])
    <3>1. [job[p] EXCEPT !.at = "unpack", !.keys = @ \ {k}, !.there = @ \ WholeIn(k)]
            = [job[p] EXCEPT !.at = "unpack", !.keys = @ \ {k}, !.members = <<>>, !.there = job[p].there \ WholeIn(k)]
      BY <1>1 DEF Indexing
    <3>2. <<>> \in Members /\ job[p].there \ WholeIn(k) \in SUBSET job[p].there
      BY NoMembers
    <3>3. QED
      BY <2>2, <3>1, <3>2
  <2>3. QED
    BY <1>2, <2>1, <2>2
<1> DEFINE r == [job[p] EXCEPT !.at = "unpack", !.keys = @ \ {k}, !.members = m, !.there = there]
<1>5. /\ r \in Indexing /\ r.at = "unpack" /\ r.todo = job[p].todo /\ r.entries = job[p].entries
      /\ r.keys = job[p].keys \ {k} /\ r.members = m /\ r.there = there /\ SameIndex(job[p], r)
  BY <1>1, <1>4 DEF Indexing, SameIndex
<1>6. Becomes(p, r)
  BY <1>4
<1> HIDE DEF r
<1>7. r \in AnyJob
  BY <1>5 DEF AnyJob
<1>8. job'[p] = r /\ (\A q \in Procs : q # p => job'[q] = job[q]) /\ job' \in [Procs -> AnyJob]
  BY <1>6, <1>7, Steps
<1>9. At(p, "index") => job[p].todo = {}
  BY DEF Fetch
<1>10. \E i \in job[p].keys :
              /\ job'[p].keys = job[p].keys \ {i}
              /\ \/ job'[p].members = bundles[i] /\ job'[p].there = job[p].there
                 \/ job'[p].members = <<>> /\ job'[p].there = job[p].there \ WholeIn(i)
  BY <1>4, <1>5, <1>8
<1>11. QED
  BY <1>1, <1>5, <1>8, <1>9, <1>10

LEMMA Unpacks ==
  ASSUME TypeInv, NEW p \in Procs, Unpack(p)
  PROVE  /\ job[p] \in Indexing /\ At(p, "unpack")
         /\ job'[p] \in Indexing
         /\ job'[p].keys = job[p].keys /\ job'[p].there = job[p].there /\ SameIndex(job[p], job'[p])
         /\ \E a \in DOMAIN job[p].members :
              /\ a \in Artifacts
              /\ job'[p].members = Dropped(job[p].members, a)
              /\ job'[p].entries = IF job[p].members[a] = "whole" THEN job[p].entries \cup {a} ELSE job[p].entries
              /\ IF job[p].members[a] = "whole" /\ local[a] = None
                 THEN /\ job'[p].at = "restore" /\ job'[p].todo = {a}
                      /\ local' = [local EXCEPT ![a] = "torn"]
                 ELSE job'[p].at = "unpack" /\ job'[p].todo = {} /\ local' = local
         /\ \A q \in Procs : q # p => job'[q] = job[q]
         /\ job' \in [Procs -> AnyJob]
<1>1. At(p, "unpack") /\ job[p] \in Indexing
  BY Kinds DEF Unpack, At, IndexJob
<1>2. PICK a \in DOMAIN job[p].members :
       LET whole == job[p].members[a] = "whole"
           missing == whole /\ local[a] = None
       IN /\ local' = IF missing THEN [local EXCEPT ![a] = "torn"] ELSE local
          /\ job' = [job EXCEPT ![p].members = Dropped(@, a),
                       ![p].entries = IF whole THEN @ \cup {a} ELSE @,
                       ![p].at = IF missing THEN "restore" ELSE @,
                       ![p].todo = IF missing THEN {a} ELSE {}]
  BY DEF Unpack
<1>3. job[p].members \in Members
  BY <1>1 DEF Indexing
<1>4. a \in Artifacts /\ Dropped(job[p].members, a) \in Members
  BY <1>3, MembersFacts
<1> DEFINE whole == job[p].members[a] = "whole"
           missing == whole /\ local[a] = None
           m == Dropped(job[p].members, a)
           entries == IF whole THEN job[p].entries \cup {a} ELSE job[p].entries
           at == IF missing THEN "restore" ELSE "unpack"
           todo == IF missing THEN {a} ELSE {}
           r == [job[p] EXCEPT !.members = m, !.entries = entries, !.at = at, !.todo = todo]
<1>5. job' = [job EXCEPT ![p] = r]
  BY <1>1, <1>2 DEF TypeInv, Indexing, At
<1>6. m \in Members /\ entries \subseteq Artifacts /\ at \in {"restore", "unpack"} /\ todo \subseteq Artifacts
  BY <1>1, <1>4 DEF Indexing
<1> HIDE DEF m, entries, at, todo
<1>7. /\ r \in Indexing /\ r.members = m /\ r.entries = entries /\ r.at = at /\ r.todo = todo
      /\ r.keys = job[p].keys /\ r.there = job[p].there /\ SameIndex(job[p], r)
  BY <1>1, <1>6 DEF Indexing, SameIndex
<1> HIDE DEF r
<1>8. r \in AnyJob /\ Becomes(p, r)
  BY <1>5, <1>7 DEF AnyJob, Becomes
<1>9. job'[p] = r /\ (\A q \in Procs : q # p => job'[q] = job[q]) /\ job' \in [Procs -> AnyJob]
  BY <1>8, Steps
<1>10. \E b \in DOMAIN job[p].members :
              /\ b \in Artifacts
              /\ job'[p].members = Dropped(job[p].members, b)
              /\ job'[p].entries = IF job[p].members[b] = "whole" THEN job[p].entries \cup {b} ELSE job[p].entries
              /\ IF job[p].members[b] = "whole" /\ local[b] = None
                 THEN /\ job'[p].at = "restore" /\ job'[p].todo = {b}
                      /\ local' = [local EXCEPT ![b] = "torn"]
                 ELSE job'[p].at = "unpack" /\ job'[p].todo = {} /\ local' = local
  BY <1>2, <1>4, <1>7, <1>9 DEF m, entries, at, todo
<1>11. QED
  BY <1>1, <1>7, <1>9, <1>10

LEMMA Restores ==
  ASSUME TypeInv, NEW p \in Procs, Restore(p)
  PROVE  /\ job[p] \in Indexing /\ At(p, "restore")
         /\ job'[p] \in Indexing /\ job'[p].at = "unpack" /\ job'[p].todo = {}
         /\ job'[p].entries = job[p].entries /\ job'[p].members = job[p].members
         /\ job'[p].keys = job[p].keys /\ job'[p].there = job[p].there /\ SameIndex(job[p], job'[p])
         /\ \A q \in Procs : q # p => job'[q] = job[q]
         /\ job' \in [Procs -> AnyJob]
<1>1. At(p, "restore") /\ job[p] \in Indexing
  BY Kinds DEF Restore, At, IndexJob
<1> DEFINE r == [job[p] EXCEPT !.at = "unpack", !.todo = {}]
<1>2. /\ r \in Indexing /\ r.at = "unpack" /\ r.todo = {}
      /\ r.entries = job[p].entries /\ r.members = job[p].members
      /\ r.keys = job[p].keys /\ r.there = job[p].there /\ SameIndex(job[p], r)
  BY <1>1 DEF Indexing, SameIndex
<1>3. Becomes(p, r)
  BY DEF Restore
<1> HIDE DEF r
<1>4. r \in AnyJob
  BY <1>2 DEF AnyJob
<1>5. QED
  BY <1>1, <1>2, <1>3, <1>4, Steps

LEMMA ReadableType ==
  ASSUME TypeInv
  PROVE  Readable \subseteq Artifacts
<1>1. \A i \in DOMAIN manifest : manifest[i] \in Line
  BY ElementOfSeq, LenProperties DEF TypeInv
<1>2. \A i \in DOMAIN manifest : manifest[i].of \in Artifacts
  BY <1>1 DEF Line
<1>3. QED
  BY <1>2 DEF Readable

LEMMA ReadsManifest ==
  ASSUME TypeInv, NEW p \in Procs, ReadManifest(p)
  PROVE  /\ job[p] \in Indexing /\ job[p].at \in {"index", "unpack"}
         /\ job[p].todo = {} /\ job[p].keys = {} /\ job[p].members = <<>>
         /\ job'[p] \in Indexing /\ job'[p].at = "append" /\ job'[p].todo = {} /\ job'[p].keys = {}
         /\ job'[p].had = Readable
         /\ job'[p].entries = job[p].entries /\ job'[p].members = <<>>
         /\ job'[p].there = job[p].there /\ SameIndex(job[p], job'[p])
         /\ \A q \in Procs : q # p => job'[q] = job[q]
         /\ job' \in [Procs -> AnyJob]
<1>1. /\ job[p].at \in {"index", "unpack"} /\ job[p] \in Indexing
      /\ job[p].todo = {} /\ job[p].keys = {} /\ job[p].members = <<>>
  BY Kinds DEF ReadManifest, IndexJob
<1> DEFINE r == [job[p] EXCEPT !.at = "append", !.had = Readable]
<1>2. /\ r \in Indexing /\ r.at = "append" /\ r.todo = {} /\ r.keys = {} /\ r.had = Readable
      /\ r.entries = job[p].entries /\ r.members = <<>>
      /\ r.there = job[p].there /\ SameIndex(job[p], r)
  BY <1>1, ReadableType DEF Indexing, SameIndex
<1>3. Becomes(p, r)
  BY DEF ReadManifest
<1> HIDE DEF r
<1>4. r \in AnyJob
  BY <1>2 DEF AnyJob
<1>5. QED
  BY <1>1, <1>2, <1>3, <1>4, Steps

\* The rows a job appends, if it finds finitely many.
LEMMA NewRowsFacts ==
  ASSUME TypeInv, NEW p \in Procs, At(p, "append"), IsFiniteSet(job[p].entries)
  PROVE  /\ NewRows(p) \in Seq(Artifacts)
         /\ \A i \in 1..Len(NewRows(p)) : NewRows(p)[i] \in job[p].entries \ job[p].had
         /\ \A i, k \in 1..Len(NewRows(p)) : NewRows(p)[i] = NewRows(p)[k] => i = k
         /\ \A a \in job[p].entries \ job[p].had : \E i \in 1..Len(NewRows(p)) : NewRows(p)[i] = a
<1> DEFINE S == job[p].entries \ job[p].had
<1>1. IsFiniteSet(S)
  BY FS_Difference
<1>2. S \subseteq Artifacts
  BY Kinds DEF At, IndexJob, Indexing
<1> HIDE DEF S
<1>3. /\ SetToSeq(S) \in Seq(S)
      /\ \A i, k \in DOMAIN SetToSeq(S) : SetToSeq(S)[i] = SetToSeq(S)[k] => i = k
      /\ \A x \in S : \E i \in DOMAIN SetToSeq(S) : SetToSeq(S)[i] = x
  BY <1>1, SetToSeqFacts
<1>4. NewRows(p) = SetToSeq(S)
  BY DEF NewRows, S
<1>5. NewRows(p) \in Seq(S) /\ DOMAIN NewRows(p) = 1..Len(NewRows(p))
  BY <1>3, <1>4, LenProperties
<1>6. NewRows(p) \in Seq(Artifacts)
  BY <1>2, <1>5, SeqMonotonic
<1>7. \A i \in 1..Len(NewRows(p)) : NewRows(p)[i] \in S
  BY <1>5, ElementOfSeq
<1>8. QED
  BY <1>3, <1>4, <1>5, <1>6, <1>7 DEF S

\* How the manifest grows: by all rows, or by the first of them, of which a
\* killed job leaves the last one as it may be.
Grows(rows, m) ==
  /\ m \in Seq(Line) /\ Len(m) = Base + Len(rows)
  /\ \A i \in 1..Base : m[i] = manifest[i]
  /\ \A i \in 1..Len(rows) :
       /\ m[Base + i].of = rows[i]
       /\ i = 1 /\ ~Ended => m[Base + i].is = "garbled"

LEMMA AppendGrows ==
  ASSUME TypeInv, NEW p \in Procs, At(p, "append"), IsFiniteSet(job[p].entries)
  PROVE  /\ Appended(NewRows(p)) \in Seq(Line)
         /\ NewRows(p) = <<>> => Appended(NewRows(p)) = manifest
         /\ NewRows(p) # <<>> =>
              /\ Grows(NewRows(p), Appended(NewRows(p)))
              /\ \A i \in 1..Len(NewRows(p)) :
                   i # 1 \/ Ended => Appended(NewRows(p))[Base + i].is = "row"
<1> DEFINE rows == NewRows(p)
<1>1. rows \in Seq(Artifacts)
  BY NewRowsFacts
<1>2. manifest \in Seq(Line)
  BY DEF TypeInv
<1>3. CASE rows = <<>>
  <2>1. [i \in DOMAIN rows |-> [of |-> rows[i], is |-> "row"]] = <<>>
    BY <1>3
  <2>2. Appended(rows) = manifest \o <<>>
    BY <1>3, <2>1 DEF Appended
  <2>3. Appended(rows) = manifest
    BY <1>2, <2>2, ConcatEmptySeq
  <2>4. QED
    BY <1>2, <1>3, <2>3
<1>4. CASE rows # <<>>
  <2> HIDE DEF rows
  <2>1. /\ Appended(rows) \in Seq(Line)
        /\ Len(Appended(rows)) = Base + Len(rows)
        /\ \A i \in 1..Base : Appended(rows)[i] = manifest[i]
        /\ \A i \in 1..Len(rows) :
              /\ Appended(rows)[Base + i].of = rows[i]
              /\ Appended(rows)[Base + i].is = IF i = 1 /\ ~Ended THEN "garbled" ELSE "row"
    BY <1>1, <1>2, <1>4, AppendedFacts
  <2>2. Grows(rows, Appended(rows))
    BY <2>1 DEF Grows
  <2>3. \A i \in 1..Len(rows) : i # 1 \/ Ended => Appended(rows)[Base + i].is = "row"
    BY <2>1
  <2>4. QED
    BY <1>4, <2>1, <2>2, <2>3 DEF rows
<1>5. QED
  BY <1>3, <1>4

\* A prefix of the rows, and what is left of its last line.
IsCut(m, rows, cut) ==
  m = [Appended(rows) EXCEPT ![Len(Appended(rows))].is = IF @ = "row" THEN cut ELSE @]

LEMMA CutRows ==
  ASSUME TypeInv, NEW p \in Procs, At(p, "append"), IsFiniteSet(job[p].entries),
         NEW n \in DOMAIN NewRows(p), NEW rows, rows = SubSeq(NewRows(p), 1, n)
  PROVE  /\ rows \in Seq(Artifacts) /\ Len(rows) = n /\ n \in Nat \ {0}
         /\ n <= Len(NewRows(p))
         /\ \A i \in 1..n : rows[i] = NewRows(p)[i]
         /\ rows # <<>>
         /\ Garbled(rows) = IF Ended THEN {} ELSE {rows[1], Last(manifest).of}
<1>1. NewRows(p) \in Seq(Artifacts) /\ manifest \in Seq(Line)
  BY NewRowsFacts DEF TypeInv
<1>2. n \in 1..Len(NewRows(p)) /\ Len(NewRows(p)) \in Nat
  BY <1>1, LenProperties
<1>3. \A i \in 1..n : NewRows(p)[i] \in Artifacts
  BY <1>1, <1>2, ElementOfSeq
<1>4. /\ rows \in Seq(Artifacts) /\ Len(rows) = n
      /\ \A i \in 1..n : rows[i] = NewRows(p)[i]
  <2>1. /\ SubSeq(NewRows(p), 1, n) \in Seq(Artifacts)
        /\ Len(SubSeq(NewRows(p), 1, n)) = IF 1 <= n THEN n - 1 + 1 ELSE 0
        /\ \A i \in 1..n-1+1 : SubSeq(NewRows(p), 1, n)[i] = NewRows(p)[1+i-1]
    BY <1>2, <1>3, SubSeqProperties
  <2>2. \A i \in 1..n : i \in 1..n-1+1 /\ 1+i-1 = i
    BY <1>2
  <2>3. QED
    BY <1>2, <2>1, <2>2
<1>5. rows # <<>>
  BY <1>2, <1>4
<1>6. Garbled(rows) = IF Ended THEN {} ELSE {rows[1], Last(manifest).of}
  BY <1>1, <1>4, <1>5, AppendedFacts
<1>7. n \in Nat \ {0} /\ n <= Len(NewRows(p))
  BY <1>2
<1>8. QED
  BY <1>4, <1>5, <1>6, <1>7, Zenon

\* Some rows, each once, that the job did not see in the manifest.
AreNew(p, rows) ==
  /\ rows \in Seq(Artifacts) /\ rows # <<>>
  /\ \A i \in 1..Len(rows) : rows[i] \notin job[p].had
  /\ \A i, k \in 1..Len(rows) : rows[i] = rows[k] => i = k

LEMMA CutOnce ==
  ASSUME TypeInv, NEW p \in Procs, At(p, "append"), IsFiniteSet(job[p].entries),
         NEW n \in DOMAIN NewRows(p), NEW rows, rows = SubSeq(NewRows(p), 1, n)
  PROVE  AreNew(p, rows)
<1>1. rows \in Seq(Artifacts) /\ rows # <<>> /\ Len(rows) = n /\ n \in Nat \ {0}
  BY CutRows
<1>2. \A i \in 1..n : rows[i] = NewRows(p)[i]
  BY CutRows
<1>3. n <= Len(NewRows(p))
  BY CutRows
<1>4. /\ NewRows(p) \in Seq(Artifacts)
      /\ \A i \in 1..Len(NewRows(p)) : NewRows(p)[i] \in job[p].entries \ job[p].had
      /\ \A i, k \in 1..Len(NewRows(p)) : NewRows(p)[i] = NewRows(p)[k] => i = k
  BY NewRowsFacts
<1>5. Len(NewRows(p)) \in Nat
  BY <1>4, LenProperties
<1>6. \A i \in 1..n : i \in 1..Len(NewRows(p))
  BY <1>1, <1>3, <1>5
<1>7. QED
  BY <1>1, <1>2, <1>4, <1>6 DEF AreNew

LEMMA CutGrows ==
  ASSUME TypeInv, NEW p \in Procs, At(p, "append"), IsFiniteSet(job[p].entries),
         NEW n \in DOMAIN NewRows(p), NEW cut \in {"half", "open", "row"},
         NEW rows, rows = SubSeq(NewRows(p), 1, n),
         NEW m, IsCut(m, rows, cut)
  PROVE  Grows(rows, m)
<1>1. manifest \in Seq(Line)
  BY DEF TypeInv
<1>2. n \in 1..Len(NewRows(p)) /\ Len(NewRows(p)) \in Nat
  BY NewRowsFacts, LenProperties
<1>4. rows \in Seq(Artifacts) /\ Len(rows) = n /\ rows # <<>>
  BY CutRows
<1> DEFINE a == Appended(rows)
<1>6. /\ a \in Seq(Line) /\ Len(a) = Base + n
      /\ \A i \in 1..Base : a[i] = manifest[i]
      /\ \A i \in 1..n :
           /\ a[Base + i].of = rows[i]
           /\ a[Base + i].is = IF i = 1 /\ ~Ended THEN "garbled" ELSE "row"
  BY <1>1, <1>4, AppendedFacts
<1>7. Base \in Nat
  BY <1>1, LastLine
<1> HIDE DEF a
<1> DEFINE l == Base + n
           x == [a[l] EXCEPT !.is = IF @ = "row" THEN cut ELSE @]
<1>8. l \in 1..Len(a) /\ a[l] \in Line /\ DOMAIN a = 1..Len(a)
  BY <1>2, <1>6, <1>7, ElementOfSeq, LenProperties
<1>9. x \in Line /\ x.of = a[l].of /\ (a[l].is = "garbled" => x.is = "garbled")
  BY <1>8 DEF Line
<1>10. m = [a EXCEPT ![l] = x]
  BY <1>6 DEF a, IsCut
<1> HIDE DEF x, l
<1>11. /\ m \in Seq(Line) /\ Len(m) = Len(a)
       /\ \A j \in 1..Len(a) : m[j] = IF j = l THEN x ELSE a[j]
  <2>1. a \in Seq(Line)
    BY <1>6
  <2>2. /\ [a EXCEPT ![l] = x] \in Seq(Line)
        /\ Len([a EXCEPT ![l] = x]) = Len(a)
        /\ \A j \in 1..Len(a) : [a EXCEPT ![l] = x][j] = IF j = l THEN x ELSE a[j]
    BY <1>8, <1>9, <2>1, ExceptSeq, Zenon
  <2>3. QED
    BY <1>10, <2>2
<1>12. \A i \in 1..Base : m[i] = manifest[i]
  BY <1>2, <1>6, <1>7, <1>11 DEF l
<1>13. ASSUME NEW i \in 1..n
       PROVE  /\ m[Base + i].of = rows[i]
              /\ i = 1 /\ ~Ended => m[Base + i].is = "garbled"
  <2>1. Base + i \in 1..Len(a)
    BY <1>2, <1>6, <1>7
  <2>2. CASE Base + i = l
    BY <1>6, <1>9, <1>11, <2>1, <2>2
  <2>3. CASE Base + i # l
    BY <1>6, <1>11, <2>1, <2>3
  <2>4. QED
    BY <2>2, <2>3
<1>14. QED
  BY <1>4, <1>6, <1>11, <1>12, <1>13 DEF Grows

LEMMA InitTypes == Init => TypeInv
<1> SUFFICES ASSUME Init PROVE TypeInv
  OBVIOUS
<1>1. now \in Nat /\ (lines \in [Files -> Seq(Events)]) /\ half \in [Files -> Events \cup {None}]
  BY EmptySeq DEF Init
<1>2. local \in [Artifacts -> States \cup {None}] /\ writing \subseteq Artifacts /\ known \subseteq Artifacts
  BY DEF Init
<1>3. DOMAIN bundles \subseteq Authors \X (0..now) /\ bundles \in [DOMAIN bundles -> Members]
  BY DEF Init
<1>4. job \in [Procs -> AnyJob] /\ \A p \in Procs : job[p].at = "idle"
  BY DEF Init, AnyJob, Idle
<1>5. DOMAIN dirs \subseteq 0..now /\ dirs \in [DOMAIN dirs -> Dirs]
  BY DEF Init
<1>6. manifest \in Seq(Line)
  BY EmptySeq DEF Init
<1>7. db \in [Tables \cup {"manifest"} -> SUBSET (Events \cup Artifacts)]
  BY DEF Init
<1>8. /\ indexed \subseteq Artifacts /\ restored \subseteq Artifacts /\ dbDue \subseteq Events \cup Artifacts
      /\ killed \in BOOLEAN /\ overlapped \in BOOLEAN
  BY DEF Init
<1>9. QED
  BY <1>1, <1>2, <1>3, <1>4, <1>5, <1>6, <1>7, <1>8 DEF TypeInv

LEMMA AgentTypes ==
  ASSUME TypeInv, Agents \/ Sync \/ Tick \/ NewHost
  PROVE  TypeInv'
<1>1. ASSUME NEW e \in Events, BeginLine(e) PROVE TypeInv'
  <2>1. half' \in [Files -> Events \cup {None}]
    BY <1>1 DEF BeginLine, TypeInv
  <2>2. QED
    BY <1>1, <2>1 DEF BeginLine, TypeInv, research, outputs, ghosts
<1>2. ASSUME NEW f \in Files, EndLine(f) PROVE TypeInv'
  <2>1. half[f] \in Events /\ lines[f] \in Seq(Events)
    BY <1>2 DEF EndLine, TypeInv
  <2>2. Append(lines[f], half[f]) \in Seq(Events)
    BY <2>1, AppendProperties
  <2>3. lines' \in [Files -> Seq(Events)] /\ half' \in [Files -> Events \cup {None}]
    BY <1>2, <2>2 DEF EndLine, TypeInv
  <2>4. QED
    BY <1>2, <2>3 DEF EndLine, TypeInv, research, outputs, ghosts
<1>3. ASSUME NEW a \in Artifacts, BeginArtifact(a) PROVE TypeInv'
  <2>1. local' \in [Artifacts -> States \cup {None}] /\ writing' \subseteq Artifacts
    BY <1>3 DEF BeginArtifact, TypeInv, States
  <2>2. QED
    BY <1>3, <2>1 DEF BeginArtifact, TypeInv, sources, outputs, ghosts
<1>4. ASSUME NEW a \in Artifacts, EndArtifact(a) PROVE TypeInv'
  <2>1. local' \in [Artifacts -> States \cup {None}] /\ writing' \subseteq Artifacts /\ killed' \in BOOLEAN
    BY <1>4 DEF EndArtifact, TypeInv, States
  <2>2. QED
    BY <1>4, <2>1 DEF EndArtifact, TypeInv, sources, outputs
<1>5. ASSUME NEW agent \in Authors, Bundle(agent) PROVE TypeInv'
  <2> DEFINE new == Unbundled(agent)
             k0 == <<agent, now>>
             m == [a \in new |-> local[a]]
  <2>1. m \in Members
    <3>1. new \in SUBSET Artifacts
      BY DEF Unbundled
    <3>2. \A a \in new : local[a] \in States
      BY DEF TypeInv, Unbundled
    <3>3. m \in [new -> States]
      BY <3>2
    <3> HIDE DEF m, new
    <3>4. QED
      BY <3>1, <3>3, Zenon DEF Members
  <2>2. /\ known' = known \cup new
        /\ bundles' = [k \in DOMAIN bundles \cup {k0} |-> IF k = k0 THEN m ELSE bundles[k]]
    BY <1>5 DEF Bundle
  <2>3. k0 \in Authors \X (0..now) /\ new \subseteq Artifacts
    BY DEF TypeInv, Unbundled
  <2> HIDE DEF m, k0, new
  <2>4. known' \subseteq Artifacts /\ DOMAIN bundles' = DOMAIN bundles \cup {k0}
    BY <2>2, <2>3 DEF TypeInv
  <2>5. bundles' \in [DOMAIN bundles' -> Members] /\ DOMAIN bundles' \subseteq Authors \X (0..now)
    BY <2>1, <2>2, <2>3, <2>4 DEF TypeInv
  <2>6. QED
    BY <1>5, <2>4, <2>5 DEF Bundle, TypeInv, sources, outputs, ghosts
<1>6. ASSUME Tick PROVE TypeInv'
  <2>1. now' \in Nat /\ 0..now \subseteq 0..now' /\ Authors \X (0..now) \subseteq Authors \X (0..now')
    BY <1>6 DEF Tick, TypeInv
  <2>2. QED
    BY <1>6, <2>1 DEF Tick, TypeInv, sources, research, outputs, ghosts
<1>7. ASSUME NewHost PROVE TypeInv'
  <2>1. local' \in [Artifacts -> States \cup {None}] /\ writing' = {} /\ restored' = {}
    BY <1>7 DEF NewHost
  <2>2. known' \subseteq Artifacts /\ manifest' \in Seq(Line) /\ indexed' \subseteq Artifacts
    <3>1. \/ UNCHANGED <<known, manifest, indexed>>
          \/ known' = {} /\ manifest' = <<>> /\ indexed' = {}
      BY <1>7 DEF NewHost
    <3>2. known \subseteq Artifacts /\ manifest \in Seq(Line) /\ indexed \subseteq Artifacts
      BY DEF TypeInv
    <3>3. QED
      BY <3>1, <3>2, EmptySeq
  <2>3. UNCHANGED <<now, lines, half, bundles, job, dirs, db, dbDue, killed, overlapped>>
    BY <1>7 DEF NewHost, sources
  <2>4. QED
    BY <2>1, <2>2, <2>3 DEF TypeInv
<1>8. QED
  BY <1>1, <1>2, <1>3, <1>4, <1>5, <1>6, <1>7 DEF Agents, Sync

LEMMA EtlTypes ==
  ASSUME TypeInv, NEW p \in Procs, Etl(p)
  PROVE  TypeInv'
<1> DEFINE Rest == /\ UNCHANGED <<now, lines, half, local, writing, known, bundles, manifest, db>>
                   /\ UNCHANGED <<indexed, restored, dbDue, killed, overlapped>>
           JobOK == /\ \A q \in Procs : q # p => job'[q] = job[q]
                    /\ job' \in [Procs -> AnyJob]
                    /\ job'[p].at \notin {"index", "unpack", "restore", "append"}
           DirOK == /\ dirs' \in [DOMAIN dirs' -> Dirs]
                    /\ DOMAIN dirs \subseteq DOMAIN dirs' /\ DOMAIN dirs' \subseteq 0..now
                    /\ job'[p].at \in {"scan", "meta", "report", "unlink", "link"} => job'[p].id \in DOMAIN dirs'
<1>1. SUFFICES Rest /\ JobOK /\ DirOK
  BY DEF TypeInv
<1>2. Rest
  BY DEF Etl, StartEtl, ScanLine, ScanEnds, MetaRow, WriteBatchManifest, Report, Unlink, Link, sources, research, ghosts
<1>3. CASE StartEtl(p)
  <2>1. /\ job'[p].at = "scan" /\ job'[p].id = now
        /\ \A q \in Procs : q # p => job'[q] = job[q]
        /\ job' \in [Procs -> AnyJob]
        /\ DOMAIN dirs' = DOMAIN dirs \cup {now}
        /\ dirs' \in [DOMAIN dirs' -> Dirs]
    BY <1>3, BeginsEtl
  <2>2. QED
    BY <1>2, <2>1 DEF TypeInv
<1>4. CASE ScanLine(p)
  <2>1. At(p, "scan") /\ job[p] \in Scanning /\ job[p].file \in Files
    BY <1>4, ScanLineCases
  <2>2. PICK j : (TakesLine(p, j) \/ TakesHalf(p, j) \/ TurnsFile(p, j)) /\ Scans(p, j)
    BY <1>4, ScanLineCases
  <2>3. j \in Scanning /\ j.id = job[p].id /\ j.at = job[p].at
    BY <2>1, <2>2, TakesFacts
  <2> DEFINE full == {t \in {"events", "runs"} : Full(j.buffer, t)}
  <2>4. /\ dirs' = [dirs EXCEPT ![job[p].id] = FlushAll(@, j.buffer, full)]
        /\ Becomes(p, [j EXCEPT !.buffer = Without(@, full)])
    BY <2>2, <2>3 DEF Scans
  <2>5. job[p].at \in {"scan", "meta"}
    BY <2>1 DEF At
  <2> HIDE DEF full
  <2>6. /\ job'[p].at = j.at /\ job'[p].id = j.id
        /\ \A q \in Procs : q # p => job'[q] = job[q]
        /\ job' \in [Procs -> AnyJob]
        /\ j.id \in DOMAIN dirs
        /\ DOMAIN dirs' = DOMAIN dirs
        /\ dirs' \in [DOMAIN dirs' -> Dirs]
    BY ZenonT(40), <2>3, <2>4, <2>5, BatchStep
  <2>7. QED
    BY <1>2, <2>1, <2>3, <2>6 DEF TypeInv, At
<1>5. CASE ScanEnds(p)
  BY <1>2, <1>5, EndsScan DEF TypeInv
<1>6. CASE MetaRow(p)
  <2>1. job[p].id \in DOMAIN dirs
    BY <1>6, TellsArtifact DEF TypeInv, At
  <2>2. QED
    BY <1>2, <1>6, <2>1, TellsArtifact DEF TypeInv
<1>7. CASE WriteBatchManifest(p)
  <2>1. job[p].id \in DOMAIN dirs
    BY <1>7, WritesManifest DEF TypeInv, At
  <2>2. QED
    BY <1>2, <1>7, <2>1, WritesManifest DEF TypeInv
<1>8. CASE Unlink(p) \/ Link(p)
  <2>1. dirs' = dirs
    BY <1>8 DEF Unlink, Link
  <2>2. job[p].at \in {"unlink", "link"} /\ Idle.at = "idle"
    BY <1>8 DEF Unlink, Link, At, Idle
  <2>3. QED
    BY <1>2, <1>8, <2>1, <2>2, Links DEF TypeInv
<1>9. CASE Report(p)
  BY <1>2, <1>9, Reports DEF TypeInv
<1>10. QED
  BY <1>3, <1>4, <1>5, <1>6, <1>7, <1>8, <1>9 DEF Etl

LEMMA ExportTypes ==
  ASSUME TypeInv, NEW p \in Procs, Export(p) \/ Undecodable(p)
  PROVE  TypeInv'
<1> DEFINE Rest == /\ UNCHANGED <<now, lines, half, local, writing, known, bundles, manifest, dirs>>
                   /\ UNCHANGED <<indexed, restored, killed, overlapped>>
           JobOK == /\ \A q \in Procs : q # p => job'[q] = job[q]
                    /\ job' \in [Procs -> AnyJob]
                    /\ job'[p].at \in {"export", "idle"}
           DbOK == /\ db' \in [Tables \cup {"manifest"} -> SUBSET (Events \cup Artifacts)]
                   /\ dbDue' \subseteq Events \cup Artifacts
<1>1. SUFFICES Rest /\ JobOK /\ DbOK
  BY DEF TypeInv
<1>2. Rest
  BY DEF Export, StartExport, ExportLedger, ExportArtifact, Commit, Undecodable, sources, research, outputs, ghosts
<1>3. \A j \in Exporting : j.at = "export"
  BY DEF Exporting
<1>4. Idle.at = "idle"
  BY DEF Idle
<1>5. CASE StartExport(p)
  BY <1>2, <1>3, <1>5, BeginsExport DEF TypeInv, StartExport, outputs, ghosts
<1>6. CASE ExportLedger(p)
  BY <1>2, <1>3, <1>6, ExportsLedger DEF TypeInv, ExportLedger, outputs, ghosts
<1>7. CASE ExportArtifact(p)
  BY <1>2, <1>3, <1>7, ExportsArtifact DEF TypeInv, ExportArtifact, outputs, ghosts
<1>8. CASE Commit(p)
  <2>1. At(p, "export") /\ Becomes(p, Idle)
    BY <1>8 DEF Commit
  <2>2. job[p] \in Exporting
    BY <2>1, Kinds
  <2>3. Readable \subseteq Artifacts
    BY ReadableType
  <2>4. db' \in [Tables \cup {"manifest"} -> SUBSET (Events \cup Artifacts)]
    BY <1>8, <2>2, <2>3 DEF Commit, TypeInv, Exporting
  <2>5. dbDue' \subseteq Events \cup Artifacts
    BY <1>8, <2>2 DEF Commit, TypeInv, Exporting
  <2>6. QED
    BY <1>2, <1>4, <2>1, <2>4, <2>5, EndsJob
<1>9. CASE Undecodable(p)
  <2>1. Becomes(p, Idle) /\ db' = db /\ dbDue' = dbDue
    BY <1>9 DEF Undecodable, outputs, ghosts
  <2>2. QED
    BY <1>2, <1>4, <2>1, EndsJob DEF TypeInv
<1>10. QED
  BY <1>5, <1>6, <1>7, <1>8, <1>9 DEF Export

LEMMA IndexTypes ==
  ASSUME TypeInv, NEW p \in Procs, Index(p) \/ Kill(p),
         KeysInv
  PROVE  TypeInv'
<1> DEFINE Rest == /\ UNCHANGED <<now, lines, half, writing, known, bundles, dirs, db, dbDue>>
           JobOK == /\ \A q \in Procs : q # p => job'[q] = job[q]
                    /\ job' \in [Procs -> AnyJob]
                    /\ job'[p].at \in {"index", "unpack", "restore", "append"} =>
                         IsFiniteSet(job'[p].entries)
                    /\ job'[p].at \in {"index", "unpack", "restore", "append", "idle"}
           Others == /\ local' \in [Artifacts -> States \cup {None}]
                     /\ manifest' \in Seq(Line) /\ indexed' \subseteq Artifacts
                     /\ restored' \subseteq Artifacts
                     /\ killed' \in BOOLEAN /\ overlapped' \in BOOLEAN
<1>1. SUFFICES Rest /\ JobOK /\ Others
  BY DEF TypeInv
<1>2. Rest
  BY DEF Index, StartIndex, IndexLocal, Fetch, Unpack, Restore, ReadManifest, AppendManifest, Kill,
         sources, research, outputs, ghosts
<1>3. Idle.at = "idle" /\ \A j \in Indexing : j.at \in {"index", "unpack", "restore", "append"}
  BY DEF Idle, Indexing
<1>4. IndexJob(p) => IsFiniteSet(job[p].entries)
  BY DEF TypeInv, IndexJob
<1>5. \A a : IsFiniteSet(job[p].entries) => IsFiniteSet(job[p].entries \cup {a})
  BY FS_AddElement
<1>6. CASE StartIndex(p)
  <2>1. JobOK
    BY <1>3, <1>6, BeginsIndex, FS_EmptySet
  <2>2. Others
    BY <1>6 DEF StartIndex, TypeInv, research, outputs
  <2>3. QED
    BY <1>2, <2>1, <2>2
<1>7. CASE IndexLocal(p)
  <2>0. IndexJob(p)
    BY <1>7 DEF IndexLocal, At, IndexJob
  <2>1. IsFiniteSet(job'[p].entries)
    <3>1. PICK a \in job[p].todo :
            job'[p].entries = IF local[a] = "whole" THEN job[p].entries \cup {a} ELSE job[p].entries
      BY <1>7, IndexesLocal
    <3>2. QED
      BY <1>4, <1>5, <2>0, <3>1
  <2>2. JobOK
    BY <1>7, <2>1, IndexesLocal
  <2>3. Others
    BY <1>7 DEF IndexLocal, TypeInv, research, outputs, ghosts
  <2>4. QED
    BY <1>2, <2>2, <2>3
<1>8. CASE Fetch(p)
  <2>1. IndexJob(p)
    BY <1>8 DEF Fetch, IndexJob
  <2>2. JobOK
    BY <1>4, <1>8, <2>1, Fetches DEF KeysInv
  <2>3. Others
    BY <1>8 DEF Fetch, TypeInv, research, outputs, ghosts
  <2>4. QED
    BY <1>2, <2>2, <2>3
<1>9. CASE Unpack(p)
  <2>1. IndexJob(p)
    BY <1>9 DEF Unpack, At, IndexJob
  <2>2. IsFiniteSet(job'[p].entries) /\ job'[p].at \in {"unpack", "restore"}
    BY ZenonT(40), <1>4, <1>5, <1>9, <2>1, Unpacks
  <2>3. JobOK
    BY <1>9, <2>2, Unpacks
  <2>4. local' \in [Artifacts -> States \cup {None}]
    BY <1>9, Unpacks DEF TypeInv, States
  <2>5. Others
    BY <1>9, <2>4 DEF Unpack, TypeInv, outputs, ghosts
  <2>6. QED
    BY <1>2, <2>3, <2>5
<1>10. CASE Restore(p)
  <2>1. IndexJob(p)
    BY <1>10 DEF Restore, At, IndexJob
  <2>2. JobOK
    BY <1>4, <1>10, <2>1, Restores
  <2>3. Others
    BY <1>10 DEF Restore, TypeInv, outputs, ghosts, States
  <2>4. QED
    BY <1>2, <2>2, <2>3
<1>11. CASE ReadManifest(p)
  <2>1. IndexJob(p)
    BY <1>11 DEF ReadManifest, IndexJob
  <2>2. JobOK
    BY <1>4, <1>11, <2>1, ReadsManifest
  <2>3. Others
    BY <1>11 DEF ReadManifest, TypeInv, research, outputs, ghosts
  <2>4. QED
    BY <1>2, <2>2, <2>3
<1>12. CASE AppendManifest(p)
  <2>1. At(p, "append") /\ Becomes(p, Idle)
    BY <1>12 DEF AppendManifest
  <2>2. job[p] \in Indexing /\ IsFiniteSet(job[p].entries)
    BY <1>4, <2>1, Kinds DEF At, IndexJob
  <2>3. JobOK
    BY <1>3, <2>1, EndsJob
  <2>4. manifest' \in Seq(Line)
    BY <1>12, <2>1, <2>2, AppendGrows DEF AppendManifest
  <2>5. indexed' \subseteq Artifacts /\ restored' \subseteq Artifacts
    BY <1>12, <2>2 DEF AppendManifest, TypeInv, Indexing
  <2>6. Others
    BY <1>12, <2>4, <2>5 DEF AppendManifest, TypeInv, research
  <2>7. QED
    BY <1>2, <2>3, <2>6
<1>13. CASE Kill(p)
  <2>1. Becomes(p, Idle)
    BY <1>13 DEF Kill
  <2>2. JobOK
    BY <1>3, <2>1, EndsJob
  <2>3. manifest' \in Seq(Line) /\ indexed' \subseteq Artifacts
    <3>1. CASE UNCHANGED <<manifest, indexed>>
      BY <3>1 DEF TypeInv
    <3>2. CASE /\ At(p, "append")
               /\ \E n \in DOMAIN NewRows(p), cut \in {"half", "open", "row"} :
                    LET rows == SubSeq(NewRows(p), 1, n) IN
                    IsCut(manifest', rows, cut) /\ indexed' = indexed \ Garbled(rows)
      <4>1. PICK n \in DOMAIN NewRows(p), cut \in {"half", "open", "row"} :
              IsCut(manifest', SubSeq(NewRows(p), 1, n), cut) /\ indexed' = indexed \ Garbled(SubSeq(NewRows(p), 1, n))
        BY <3>2
      <4>2. PICK m : m = manifest'
        OBVIOUS
      <4>4. IsFiniteSet(job[p].entries) /\ At(p, "append")
        BY <1>4, <3>2 DEF At, IndexJob
      <4>5. PICK rows : rows = SubSeq(NewRows(p), 1, n)
        OBVIOUS
      <4>6. IsCut(m, rows, cut)
        BY <4>1, <4>2, <4>5
      <4>7. Grows(rows, m)
        BY <4>4, <4>5, <4>6, CutGrows, Zenon
      <4>3. QED
        BY <4>1, <4>2, <4>7 DEF Grows, TypeInv
    <3>3. QED
      BY <1>13, <3>1, <3>2 DEF Kill, IsCut
  <2>4. Others
    BY <1>13, <2>3 DEF Kill, TypeInv, research
  <2>5. QED
    BY <1>2, <2>2, <2>4
<1>14. QED
  BY <1>6, <1>7, <1>8, <1>9, <1>10, <1>11, <1>12, <1>13 DEF Index

-----------------------------------------------------------------------------
(* What the steps of each kind of job leave alone *)

LEMMA EtlJobs ==
  ASSUME TypeInv, NEW p \in Procs, Etl(p)
  PROVE  /\ \A q \in Procs : q # p => job'[q] = job[q]
         /\ job[p].at \in {"scan", "meta", "report", "unlink", "link", "idle"}
         /\ job'[p].at \in {"scan", "meta", "report", "unlink", "link", "idle"}
         /\ UNCHANGED <<now, lines, half, local, writing, known, bundles, manifest, db>>
         /\ UNCHANGED <<indexed, restored, dbDue, killed, overlapped>>
<1>1. /\ UNCHANGED <<now, lines, half, local, writing, known, bundles, manifest, db>>
      /\ UNCHANGED <<indexed, restored, dbDue, killed, overlapped>>
  BY DEF Etl, StartEtl, ScanLine, ScanEnds, MetaRow, WriteBatchManifest, Report, Unlink, Link, sources, research, ghosts
<1>2. job[p].at \in {"scan", "meta", "report", "unlink", "link", "idle"}
  BY DEF Etl, StartEtl, ScanLine, ScanEnds, MetaRow, WriteBatchManifest, Report, Unlink, Link, At
<1>3. /\ \A q \in Procs : q # p => job'[q] = job[q]
      /\ job'[p].at \in {"scan", "meta", "report", "unlink", "link", "idle"}
  <2>1. CASE StartEtl(p)
    BY <2>1, BeginsEtl
  <2>2. CASE ScanLine(p)
    <3>1. At(p, "scan") /\ job[p] \in Scanning /\ job[p].file \in Files
      BY <2>2, ScanLineCases
    <3>2. PICK j : (TakesLine(p, j) \/ TakesHalf(p, j) \/ TurnsFile(p, j)) /\ Scans(p, j)
      BY <2>2, ScanLineCases
    <3>3. j \in Scanning /\ j.id = job[p].id /\ j.at = job[p].at
      BY <3>1, <3>2, TakesFacts
    <3> DEFINE full == {t \in {"events", "runs"} : Full(j.buffer, t)}
    <3>4. /\ dirs' = [dirs EXCEPT ![job[p].id] = FlushAll(@, j.buffer, full)]
          /\ Becomes(p, [j EXCEPT !.buffer = Without(@, full)])
      BY <3>2, <3>3 DEF Scans
    <3>5. job[p].at \in {"scan", "meta"}
      BY <3>1 DEF At
    <3> HIDE DEF full
    <3>6. job'[p].at = j.at /\ \A q \in Procs : q # p => job'[q] = job[q]
      BY ZenonT(40), <3>3, <3>4, <3>5, BatchStep
    <3>7. QED
      BY <3>1, <3>3, <3>6 DEF At
  <2>3. CASE ScanEnds(p)
    BY <2>3, EndsScan
  <2>4. CASE MetaRow(p)
    BY <2>4, TellsArtifact
  <2>5. CASE WriteBatchManifest(p)
    BY <2>5, WritesManifest
  <2>6. CASE Report(p)
    BY <2>6, Reports
  <2>7. CASE Unlink(p) \/ Link(p)
    BY <2>7, Links DEF Idle
  <2>8. QED
    BY <2>1, <2>2, <2>3, <2>4, <2>5, <2>6, <2>7 DEF Etl
<1>4. QED
  BY <1>1, <1>2, <1>3

LEMMA ExportJobs ==
  ASSUME TypeInv, NEW p \in Procs, Export(p)
  PROVE  /\ \A q \in Procs : q # p => job'[q] = job[q]
         /\ job[p].at \in {"export", "idle"}
         /\ job'[p].at \in {"export", "idle"}
         /\ UNCHANGED <<now, lines, half, local, writing, known, bundles, manifest, dirs, latest>>
         /\ UNCHANGED <<indexed, restored, killed, overlapped>>
<1>1. /\ UNCHANGED <<now, lines, half, local, writing, known, bundles, manifest, dirs, latest>>
      /\ UNCHANGED <<indexed, restored, killed, overlapped>>
  BY DEF Export, StartExport, ExportLedger, ExportArtifact, Commit, sources, research, outputs, ghosts
<1>2. job[p].at \in {"export", "idle"}
  BY DEF Export, StartExport, ExportLedger, ExportArtifact, Commit, At
<1>3. \A j \in Exporting : j.at = "export"
  BY DEF Exporting
<1>4. Idle.at = "idle"
  BY DEF Idle
<1>5. CASE StartExport(p)
  BY <1>1, <1>2, <1>3, <1>5, BeginsExport
<1>6. CASE ExportLedger(p)
  BY <1>1, <1>2, <1>3, <1>6, ExportsLedger
<1>7. CASE ExportArtifact(p)
  BY <1>1, <1>2, <1>3, <1>7, ExportsArtifact
<1>8. CASE Commit(p)
  BY <1>1, <1>2, <1>4, <1>8, EndsJob DEF Commit
<1>9. QED
  BY <1>5, <1>6, <1>7, <1>8 DEF Export

LEMMA IndexJobs ==
  ASSUME TypeInv, KeysInv, NEW p \in Procs, Index(p)
  PROVE  /\ \A q \in Procs : q # p => job'[q] = job[q]
         /\ job[p].at \in {"index", "unpack", "restore", "append", "idle"}
         /\ job'[p].at \in {"index", "unpack", "restore", "append", "idle"}
         /\ UNCHANGED <<now, lines, half, writing, known, bundles, dirs, latest, db, dbDue, killed>>
<1>1. UNCHANGED <<now, lines, half, writing, known, bundles, dirs, latest, db, dbDue, killed>>
  BY DEF Index, StartIndex, IndexLocal, Fetch, Unpack, Restore, ReadManifest, AppendManifest,
         sources, research, outputs, ghosts
<1>2. job[p].at \in {"index", "unpack", "restore", "append", "idle"}
  BY DEF Index, StartIndex, IndexLocal, Fetch, Unpack, Restore, ReadManifest, AppendManifest, At
<1>3. Idle.at = "idle" /\ \A j \in Indexing : j.at \in {"index", "unpack", "restore", "append"}
  BY DEF Idle, Indexing
<1>4. CASE StartIndex(p)
  BY <1>1, <1>2, <1>4, BeginsIndex
<1>5. CASE IndexLocal(p)
  BY <1>1, <1>2, <1>5, IndexesLocal
<1>6. CASE Fetch(p)
  <2>1. IndexJob(p)
    BY <1>6 DEF Fetch, IndexJob
  <2>2. job[p].keys \subseteq DOMAIN bundles
    BY <2>1 DEF KeysInv
  <2>3. QED
    BY <1>1, <1>2, <1>6, <2>2, Fetches
<1>7. CASE Unpack(p)
  <2>1. job'[p] \in Indexing /\ \A q \in Procs : q # p => job'[q] = job[q]
    BY <1>7, Unpacks
  <2>2. QED
    BY <1>1, <1>2, <1>3, <2>1
<1>8. CASE Restore(p)
  BY <1>1, <1>2, <1>8, Restores
<1>9. CASE ReadManifest(p)
  BY <1>1, <1>2, <1>9, ReadsManifest
<1>10. CASE AppendManifest(p)
  BY <1>1, <1>2, <1>3, <1>10, EndsJob DEF AppendManifest
<1>11. QED
  BY <1>4, <1>5, <1>6, <1>7, <1>8, <1>9, <1>10 DEF Index

LEMMA StopJobs ==
  ASSUME TypeInv, NEW p \in Procs, Undecodable(p) \/ Kill(p)
  PROVE  /\ \A q \in Procs : q # p => job'[q] = job[q]
         /\ job'[p] = Idle /\ job'[p].at = "idle"
         /\ UNCHANGED <<now, lines, half, local, writing, known, bundles, dirs, latest, db>>
         /\ UNCHANGED <<restored, dbDue, overlapped>>
         /\ job[p].at # "append" => UNCHANGED <<manifest, indexed>>
<1>1. Becomes(p, Idle)
  BY DEF Undecodable, Kill
<1>2. /\ UNCHANGED <<now, lines, half, local, writing, known, bundles, dirs, latest, db>>
      /\ UNCHANGED <<restored, dbDue, overlapped>>
      /\ job[p].at # "append" => UNCHANGED <<manifest, indexed>>
  BY DEF Undecodable, Kill, sources, research, outputs, ghosts, At
<1>3. QED
  BY <1>1, <1>2, EndsJob DEF Idle

LEMMA AgentJobs ==
  ASSUME Agents \/ Sync \/ Tick \/ NewHost
  PROVE  /\ UNCHANGED <<job, dirs, latest, db, dbDue, overlapped>>
         /\ ~NewHost => UNCHANGED <<manifest, indexed, restored>>
BY DEF Agents, BeginLine, EndLine, BeginArtifact, EndArtifact, Sync, Bundle, Tick, NewHost,
       sources, research, outputs, ghosts

\* A job gets its bundles from those there are, which are never fewer.
LEMMA KeysStep ==
  ASSUME TypeInv, KeysInv, [Next]_vars
  PROVE  KeysInv'
<1>1. CASE Agents \/ Sync \/ Tick \/ NewHost
  <2>1. job' = job
    BY <1>1, AgentJobs
  <2>2. DOMAIN bundles \subseteq DOMAIN bundles'
    BY <1>1 DEF Agents, BeginLine, EndLine, BeginArtifact, EndArtifact, Sync, Bundle, Tick, NewHost, research
  <2>3. QED
    BY <2>1, <2>2 DEF KeysInv, IndexJob
<1>2. ASSUME NEW p \in Procs, Etl(p) \/ Export(p) \/ Undecodable(p) \/ Kill(p)
      PROVE  KeysInv'
  <2>1. /\ \A q \in Procs : q # p => job'[q] = job[q]
        /\ job'[p].at \notin {"index", "unpack", "restore", "append"}
        /\ bundles' = bundles
    BY <1>2, EtlJobs, ExportJobs, StopJobs
  <2>2. QED
    BY <2>1 DEF KeysInv, IndexJob
<1>3. ASSUME NEW p \in Procs, Index(p)
      PROVE  KeysInv'
  <2>1. (\A q \in Procs : q # p => job'[q] = job[q]) /\ bundles' = bundles
    BY <1>3, IndexJobs
  <2>2. SUFFICES ASSUME IndexJob(p)' PROVE job'[p].keys \subseteq DOMAIN bundles
    BY <2>1 DEF KeysInv, IndexJob
  <2>3. CASE StartIndex(p)
    <3>1. job'[p].keys = {} \/ job'[p].keys = Listed
      BY <2>3, BeginsIndex
    <3>2. Listed \subseteq DOMAIN bundles
      BY DEF Listed
    <3>3. QED
      BY <3>1, <3>2
  <2>4. ASSUME ~StartIndex(p) PROVE IndexJob(p)
    BY <1>3, <2>4 DEF Index, IndexLocal, Fetch, Unpack, Restore, ReadManifest, AppendManifest, At, IndexJob
  <2>5. CASE ~StartIndex(p)
    <3>1. job[p].keys \subseteq DOMAIN bundles
      BY <2>4, <2>5 DEF KeysInv
    <3>2. job'[p].keys \subseteq job[p].keys
      <4>1. CASE IndexLocal(p)
        BY <4>1, IndexesLocal
      <4>2. CASE Fetch(p)
        BY <3>1, <4>2, Fetches
      <4>3. CASE Unpack(p)
        BY <4>3, Unpacks
      <4>4. CASE Restore(p)
        BY <4>4, Restores
      <4>5. CASE ReadManifest(p)
        BY <4>5, ReadsManifest
      <4>6. CASE AppendManifest(p)
        BY <2>2, <4>6, EndsJob DEF AppendManifest, IndexJob, Idle
      <4>7. QED
        BY <1>3, <2>5, <4>1, <4>2, <4>3, <4>4, <4>5, <4>6 DEF Index
    <3>3. QED
      BY <3>1, <3>2
  <2>6. QED
    BY <2>3, <2>5
<1>4. CASE UNCHANGED vars
  BY <1>4 DEF vars, research, KeysInv, IndexJob
<1>5. QED
  BY <1>1, <1>2, <1>3, <1>4 DEF Next

LEMMA TypeStep ==
  ASSUME TypeInv, KeysInv, [Next]_vars
  PROVE  TypeInv'
<1>1. CASE Agents \/ Sync \/ Tick \/ NewHost
  BY <1>1, AgentTypes
<1>2. ASSUME NEW p \in Procs, Etl(p)
      PROVE  TypeInv'
  BY <1>2, EtlTypes
<1>3. ASSUME NEW p \in Procs, Export(p) \/ Undecodable(p)
      PROVE  TypeInv'
  BY <1>3, ExportTypes
<1>4. ASSUME NEW p \in Procs, Index(p) \/ Kill(p)
      PROVE  TypeInv'
  BY <1>4, IndexTypes
<1>5. CASE UNCHANGED vars
  BY <1>5 DEF vars, sources, research, outputs, ghosts, TypeInv
<1>6. QED
  BY <1>1, <1>2, <1>3, <1>4, <1>5 DEF Next

\* The types of what the batch tools work on: every step of an agent, the sync
\* or a job keeps them, and a job reads bundles that there are.
THEOREM TypeCorrect == Spec => [](TypeInv /\ KeysInv)
<1>1. Init => TypeInv /\ KeysInv
  <2>1. Init => \A p \in Procs : ~IndexJob(p)
    BY DEF Init, IndexJob, Idle
  <2>2. QED
    BY <2>1, InitTypes DEF KeysInv
<1>2. TypeInv /\ KeysInv /\ [Next]_vars => (TypeInv /\ KeysInv)'
  BY TypeStep, KeysStep
<1>3. QED
  BY <1>1, <1>2, PTL DEF Spec

-----------------------------------------------------------------------------
(* Ledgers only grow *)

LEMMA LineSteps ==
  ASSUME TypeInv, KeysInv, [Next]_vars
  PROVE  \/ UNCHANGED <<lines, half>>
         \/ \E e \in Events : BeginLine(e)
         \/ \E f \in Files : EndLine(f)
<1>1. CASE Agents
  <2>1. ASSUME NEW a \in Artifacts, BeginArtifact(a) \/ EndArtifact(a)
        PROVE  UNCHANGED <<lines, half>>
    BY <2>1 DEF BeginArtifact, EndArtifact, sources
  <2>2. QED
    BY <1>1, <2>1 DEF Agents
<1>2. CASE Sync \/ Tick \/ NewHost
  BY <1>2 DEF Sync, Bundle, Tick, NewHost, sources
<1>3. ASSUME NEW p \in Procs, Etl(p) \/ Export(p) \/ Index(p) \/ Undecodable(p) \/ Kill(p)
      PROVE  UNCHANGED <<lines, half>>
  BY <1>3, EtlJobs, ExportJobs, IndexJobs, StopJobs
<1>4. CASE UNCHANGED vars
  BY <1>4 DEF vars, sources
<1>5. QED
  BY <1>1, <1>2, <1>3, <1>4 DEF Next

\* A line is ended.
LEMMA EndsLine ==
  ASSUME TypeInv, NEW f \in Files, EndLine(f)
  PROVE  /\ half[f] \in Events /\ half'[f] = None
         /\ Len(lines'[f]) = Len(lines[f]) + 1
         /\ \A i \in 1..Len(lines[f]) : lines'[f][i] = lines[f][i]
         /\ lines'[f][Len(lines[f]) + 1] = half[f]
         /\ ToSet(lines'[f]) = ToSet(lines[f]) \cup {half[f]}
         /\ \A g \in Files \ {f} : lines'[g] = lines[g] /\ half'[g] = half[g]
<1>1. half[f] \in Events /\ lines[f] \in Seq(Events)
  BY DEF EndLine, TypeInv
<1>2. /\ lines'[f] = Append(lines[f], half[f]) /\ half'[f] = None
      /\ \A g \in Files \ {f} : lines'[g] = lines[g] /\ half'[g] = half[g]
  BY DEF EndLine, TypeInv
<1> DEFINE s == lines[f]  r == Append(s, half[f])
<1>3. s \in Seq(Events) /\ Len(s) \in Nat /\ DOMAIN s = 1..Len(s)
  BY <1>1, LenProperties
<1>4. /\ Len(r) = Len(s) + 1
      /\ \A i \in 1..Len(s) : r[i] = s[i]
      /\ r[Len(s) + 1] = half[f]
      /\ DOMAIN r = 1..Len(s) + 1
  BY <1>1, AppendProperties, LenProperties
<1> HIDE DEF r, s
<1>5. ToSet(r) = ToSet(s) \cup {half[f]}
  <2>1. \A i \in DOMAIN r : i \in DOMAIN s \/ i = Len(s) + 1
    BY <1>3, <1>4
  <2>2. \A i \in DOMAIN s : i \in DOMAIN r
    BY <1>3, <1>4
  <2>3. Len(s) + 1 \in DOMAIN r
    BY <1>3, <1>4
  <2>4. QED
    BY <1>3, <1>4, <2>1, <2>2, <2>3 DEF ToSet
<1>6. QED
  BY <1>1, <1>2, <1>4, <1>5 DEF r, s

LEMMA LinesGrow ==
  ASSUME TypeInv, KeysInv, [Next]_vars, NEW f \in Files
  PROVE  /\ Len(lines[f]) \in Nat /\ Len(lines'[f]) \in Nat
         /\ Len(lines[f]) <= Len(lines'[f])
         /\ \A i \in 1..Len(lines[f]) : lines'[f][i] = lines[f][i]
         /\ ToSet(lines[f]) \subseteq ToSet(lines'[f])
<1>1. lines[f] \in Seq(Events) /\ Len(lines[f]) \in Nat
  BY LenProperties DEF TypeInv
<1>2. CASE lines'[f] = lines[f]
  BY <1>1, <1>2
<1>3. CASE lines'[f] # lines[f]
  <2>1. PICK g \in Files : EndLine(g)
    BY <1>3, LineSteps DEF BeginLine
  <2>2. g = f
    BY <1>3, <2>1, EndsLine
  <2>3. Len(lines'[f]) = Len(lines[f]) + 1
    BY <2>1, <2>2, EndsLine
  <2>4. \A i \in 1..Len(lines[f]) : lines'[f][i] = lines[f][i]
    BY <2>1, <2>2, EndsLine
  <2>5. ToSet(lines'[f]) = ToSet(lines[f]) \cup {half[f]}
    BY <2>1, <2>2, EndsLine
  <2>6. QED
    BY <1>1, <2>3, <2>4, <2>5
<1>4. QED
  BY <1>2, <1>3

\* What was told, if only in half, stays told.
LEMMA ToldGrows ==
  ASSUME TypeInv, KeysInv, [Next]_vars
  PROVE  ToldEvents \subseteq ToldEvents'
<1>1. CASE UNCHANGED <<lines, half>>
  BY <1>1 DEF ToldEvents
<1>2. ASSUME NEW e \in Events, BeginLine(e) PROVE ToldEvents \subseteq ToldEvents'
  <2>1. lines' = lines
    BY <1>2 DEF BeginLine
  <2>2. \A f \in Files : half[f] # None => half'[f] = half[f]
    BY <1>2 DEF BeginLine, TypeInv
  <2>3. \A f \in Files : {half[f]} \ {None} \subseteq {half'[f]} \ {None}
    BY <2>2
  <2>4. QED
    BY <2>1, <2>3 DEF ToldEvents
<1>3. ASSUME NEW f \in Files, EndLine(f) PROVE ToldEvents \subseteq ToldEvents'
  <2>1. ToSet(lines[f]) \cup {half[f]} \subseteq ToSet(lines'[f])
    BY <1>3, EndsLine
  <2>2. \A g \in Files \ {f} : lines'[g] = lines[g] /\ half'[g] = half[g]
    BY <1>3, EndsLine
  <2>3. \A g \in Files : ToSet(lines[g]) \cup ({half[g]} \ {None}) \subseteq
                         ToSet(lines'[g]) \cup ({half'[g]} \ {None})
    BY <2>1, <2>2
  <2>4. QED
    BY <2>3 DEF ToldEvents
<1>4. QED
  BY <1>1, <1>2, <1>3, LineSteps

\* The count of BeginLine is the place the event has come to.
LEMMA ToldIs ==
  ASSUME TypeInv, NEW e \in Events, NEW n \in 0..Len(Into[e]), InOrder(e, n)
  PROVE  Told(e) = n
<1>1. /\ Into[e] \in Seq(Files) /\ IsInjective(Into[e])
      /\ Len(Into[e]) \in Nat /\ DOMAIN Into[e] = 1..Len(Into[e])
  BY BatchAssumption, LenProperties
<1> DEFINE T == {f \in ToSet(Into[e]) : e \in ToSet(lines[f])}
           g == [i \in 1..n |-> Into[e][i]]
<1>2. \A i \in 1..n : i \in DOMAIN Into[e] /\ Into[e][i] \in T
  BY <1>1 DEF ToSet, InOrder
<1>3. \A f \in T : \E i \in 1..n : Into[e][i] = f
  BY <1>1 DEF ToSet, InOrder
<1>4. \A i, k \in 1..n : Into[e][i] = Into[e][k] => i = k
  BY <1>1, <1>2 DEF IsInjective
<1> HIDE DEF T
<1>5. g \in Bijection(1..n, T)
  BY <1>2, <1>3, <1>4 DEF Bijection, Injection, Surjection, IsInjective
<1>6. Cardinality(T) = n
  BY <1>5, FS_CountingElements DEF ExistsBijection
<1>7. QED
  BY <1>6 DEF Told, T

LEMMA LineStep ==
  ASSUME TypeInv, KeysInv, LineInv, [Next]_vars
  PROVE  LineInv'
<1>1. CASE UNCHANGED <<lines, half>>
  BY <1>1 DEF LineInv, InOrder
<1>2. ASSUME NEW e \in Events, BeginLine(e) PROVE LineInv'
  <2>1. PICK m \in 0..Len(Into[e]) : InOrder(e, m)
    BY DEF LineInv
  <2>2. Told(e) = m
    BY <2>1, ToldIs
  <2> DEFINE f == Into[e][m + 1]
  <2>3. m < Len(Into[e]) /\ lines' = lines /\ half' = [half EXCEPT ![f] = e]
    BY <1>2, <2>2 DEF BeginLine
  <2>4. ASSUME NEW d \in Events, NEW n \in 0..Len(Into[d]), InOrder(d, n)
        PROVE  \E i \in 0..Len(Into[d]) : InOrder(d, i)'
    <3>1. \A i \in 1..Len(Into[d]) : d \in ToSet(lines'[Into[d][i]]) <=> i <= n
      BY <2>3, <2>4 DEF InOrder
    <3>2. d = e => n = m
      BY <2>2, <2>4, ToldIs
    <3>3. \A g \in Files : half'[g] = d => n < Len(Into[d]) /\ g = Into[d][n+1]
      <4>1. SUFFICES ASSUME NEW g \in Files, half'[g] = d
                     PROVE  n < Len(Into[d]) /\ g = Into[d][n+1]
        OBVIOUS
      <4>2. CASE g = f
        <5>1. half'[g] = e
          BY <2>3, <4>2 DEF TypeInv
        <5>2. QED
          BY <2>3, <3>2, <4>1, <4>2, <5>1
      <4>3. CASE g # f
        <5>1. half[g] = d
          BY <2>3, <4>1, <4>3 DEF TypeInv
        <5>2. QED
          BY <2>4, <5>1 DEF InOrder
      <4>4. QED
        BY <4>2, <4>3
    <3>4. QED
      BY <3>1, <3>3 DEF InOrder
  <2>5. QED
    BY <2>3, <2>4 DEF LineInv
<1>3. ASSUME NEW f \in Files, EndLine(f) PROVE LineInv'
  <2>0. PICK e : e = half[f]
    OBVIOUS
  <2>1. /\ e \in Events /\ half'[f] = None
        /\ Len(lines'[f]) = Len(lines[f]) + 1
        /\ \A i \in 1..Len(lines[f]) : lines'[f][i] = lines[f][i]
        /\ lines'[f][Len(lines[f]) + 1] = e
        /\ ToSet(lines'[f]) = ToSet(lines[f]) \cup {e}
        /\ \A g \in Files \ {f} : lines'[g] = lines[g] /\ half'[g] = half[g]
    BY <1>3, <2>0, EndsLine
  <2>2. PICK m \in 0..Len(Into[e]) : InOrder(e, m)
    BY <2>1 DEF LineInv
  <2>3. m < Len(Into[e]) /\ f = Into[e][m + 1]
    BY <2>0, <2>2 DEF InOrder
  <2>4. /\ Into[e] \in Seq(Files) /\ IsInjective(Into[e])
        /\ Len(Into[e]) \in Nat /\ DOMAIN Into[e] = 1..Len(Into[e])
    BY <2>1, BatchAssumption, LenProperties
  <2>5. e \notin ToSet(lines[f])
    <3>1. m + 1 \in 1..Len(Into[e]) /\ ~(m + 1 <= m)
      BY <2>3, <2>4
    <3>2. QED
      BY <2>2, <2>3, <3>1 DEF InOrder
  <2>6. Len(lines[f]) \in Nat /\ \A i \in 1..Len(lines[f]) : lines[f][i] # e
    <3>1. lines[f] \in Seq(Events)
      BY DEF TypeInv
    <3>2. DOMAIN lines[f] = 1..Len(lines[f]) /\ Len(lines[f]) \in Nat
      BY <3>1, LenProperties
    <3>3. QED
      BY <2>5, <3>2 DEF ToSet
  <2>7. \A i, k \in 1..Len(lines'[f]) : lines'[f][i] = lines'[f][k] => i = k
    <3>1. SUFFICES ASSUME NEW i \in 1..Len(lines'[f]), NEW k \in 1..Len(lines'[f]),
                          lines'[f][i] = lines'[f][k]
                   PROVE  i = k
      OBVIOUS
    <3>2. /\ i \in 1..Len(lines[f]) \/ i = Len(lines[f]) + 1
          /\ k \in 1..Len(lines[f]) \/ k = Len(lines[f]) + 1
      BY <2>1, <2>6
    <3>3. CASE i \in 1..Len(lines[f]) /\ k \in 1..Len(lines[f])
      BY SMTT(20), <2>1, <3>1, <3>3 DEF LineInv
    <3>4. QED
      BY <2>1, <2>6, <3>1, <3>2, <3>3
  <2>8. \A g \in Files : \A i, k \in 1..Len(lines'[g]) : lines'[g][i] = lines'[g][k] => i = k
    BY <2>1, <2>7 DEF LineInv
  <2>9. InOrder(e, m + 1)'
    <3>1. ASSUME NEW i \in 1..Len(Into[e])
          PROVE  e \in ToSet(lines'[Into[e][i]]) <=> i <= m + 1
      <4>1. Into[e][i] \in Files
        BY <2>4, ElementOfSeq
      <4>2. CASE Into[e][i] = f
        <5>1. i = m + 1
          BY <2>3, <2>4, <4>2 DEF IsInjective
        <5>2. QED
          BY <2>1, <4>2, <5>1
      <4>3. CASE Into[e][i] # f
        <5>1. i # m + 1
          BY <2>3, <4>3
        <5>2. e \in ToSet(lines'[Into[e][i]]) <=> i <= m
          BY <2>1, <2>2, <4>1, <4>3 DEF InOrder
        <5>3. QED
          BY <5>1, <5>2
      <4>4. QED
        BY <4>2, <4>3
    <3>2. ASSUME NEW g \in Files, half'[g] = e PROVE FALSE
      <4>1. g # f
        BY <2>1, <3>2, BatchAssumption
      <4>2. half[g] = e
        BY <2>1, <3>2, <4>1
      <4>3. g = Into[e][m + 1]
        BY <2>2, <4>2 DEF InOrder
      <4>4. QED
        BY <2>3, <4>1, <4>3
    <3>3. QED
      BY <3>1, <3>2 DEF InOrder
  <2>10. ASSUME NEW d \in Events, d # e, NEW n \in 0..Len(Into[d]), InOrder(d, n)
         PROVE  InOrder(d, n)'
    <3>1. \A g \in Files : d \in ToSet(lines'[g]) <=> d \in ToSet(lines[g])
      BY <2>1, <2>10
    <3>2. \A g \in Files : half'[g] = d => half[g] = d
      BY <2>1, <2>10, BatchAssumption
    <3>3. \A i \in 1..Len(Into[d]) : Into[d][i] \in Files
      BY BatchAssumption, ElementOfSeq
    <3>4. QED
      BY <2>10, <3>1, <3>2, <3>3 DEF InOrder
  <2>11. m + 1 \in 0..Len(Into[e])
    BY <2>3, <2>4
  <2>12. ASSUME NEW d \in Events
         PROVE  \E n \in 0..Len(Into[d]) : InOrder(d, n)'
    <3>1. CASE d = e
      BY <2>9, <2>11, <3>1
    <3>2. CASE d # e
      <4>1. PICK n \in 0..Len(Into[d]) : InOrder(d, n)
        BY DEF LineInv
      <4>2. QED
        BY <2>10, <3>2, <4>1
    <3>3. QED
      BY <3>1, <3>2
  <2>13. QED
    BY <2>8, <2>12 DEF LineInv
<1>4. QED
  BY <1>1, <1>2, <1>3, LineSteps

-----------------------------------------------------------------------------
(* An export keeps what it had to find *)

\* While a job runs, the host is not left, so a whole artifact stays whole.
LEMMA WholeStays ==
  ASSUME TypeInv, KeysInv, [Next]_vars, NEW p \in Procs, job[p].at # "idle",
         NEW a \in Artifacts, local[a] = "whole"
  PROVE  local'[a] = "whole"
<1>1. CASE Agents \/ Sync \/ Tick
  <2>1. ASSUME NEW b \in Artifacts, BeginArtifact(b) \/ EndArtifact(b) PROVE local'[a] = "whole"
    <3>1. CASE BeginArtifact(b)
      <4>1. local[b] = None /\ local' = [local EXCEPT ![b] = "torn"]
        BY <3>1 DEF BeginArtifact
      <4>2. b # a
        BY <4>1, BatchAssumption
      <4>3. QED
        BY <4>1, <4>2 DEF TypeInv
    <3>2. CASE EndArtifact(b)
      BY <3>2 DEF EndArtifact, TypeInv
    <3>3. QED
      BY <2>1, <3>1, <3>2
  <2>2. ASSUME UNCHANGED local PROVE local'[a] = "whole"
    BY <2>2
  <2>3. QED
    BY <1>1, <2>1, <2>2 DEF Agents, BeginLine, EndLine, Sync, Bundle, Tick, research
<1>2. CASE NewHost
  BY <1>2 DEF NewHost, Active, At
<1>3. ASSUME NEW q \in Procs, Index(q) PROVE local'[a] = "whole"
  <2>1. CASE Unpack(q)
    <3>1. PICK b \in Artifacts : local' = local \/ (local[b] = None /\ local' = [local EXCEPT ![b] = "torn"])
      BY <2>1, Unpacks
    <3>2. local[a] # None
      BY BatchAssumption
    <3>3. QED
      BY <3>1, <3>2 DEF TypeInv
  <2>2. CASE Restore(q)
    BY <2>2 DEF Restore
  <2>3. CASE local' = local
    BY <2>3
  <2>4. QED
    BY <1>3, <2>1, <2>2, <2>3
       DEF Index, StartIndex, IndexLocal, Fetch, ReadManifest, AppendManifest, research
<1>4. ASSUME NEW q \in Procs, Etl(q) \/ Export(q) \/ Undecodable(q) \/ Kill(q)
      PROVE  local'[a] = "whole"
  BY <1>4, EtlJobs, ExportJobs, StopJobs
<1>5. CASE UNCHANGED vars
  BY <1>5 DEF vars, research
<1>6. QED
  BY <1>1, <1>2, <1>3, <1>4, <1>5 DEF Next

\* An export that goes on finds what it had to find where it was.
LEMMA ExportGoesOn ==
  ASSUME TypeInv, KeysInv, ExportInv, [Next]_vars, NEW p \in Procs, At(p, "export"), job'[p] = job[p]
  PROVE  /\ job'[p].rows["runs"] = job'[p].rows["events"] \cap Completed
         /\ job'[p].rows["events"] \subseteq ToldEvents'
         /\ \A d \in job'[p].due : Exported(job[p], d)'
<1>1. ToldEvents \subseteq ToldEvents'
  BY ToldGrows
<1>2. \A f \in Files : ToSet(lines[f]) \subseteq ToSet(lines'[f])
  BY LinesGrow
<1>3. \A a \in Artifacts : local[a] = "whole" => local'[a] = "whole"
  BY WholeStays DEF At
<1>4. job[p].ledgers \subseteq Files
  BY Kinds DEF Exporting
<1>5. ASSUME NEW d \in job[p].due PROVE Exported(job[p], d)'
  <2>1. Exported(job[p], d)
    BY DEF ExportInv
  <2>2. QED
    BY <1>2, <1>3, <1>4, <2>1 DEF Exported
<1>6. QED
  BY <1>1, <1>5 DEF ExportInv

LEMMA ExportStep ==
  ASSUME TypeInv, KeysInv, ExportInv, [Next]_vars
  PROVE  ExportInv'
<1> DEFINE DbOK(d) == /\ d["runs"] = d["events"] \cap Completed
                      /\ d["events"] \subseteq ToldEvents'
           JobOK(p) == /\ job'[p].rows["runs"] = job'[p].rows["events"] \cap Completed
                       /\ job'[p].rows["events"] \subseteq ToldEvents'
                       /\ \A d \in job'[p].due : Exported(job[p], d)'
<1>1. ToldEvents \subseteq ToldEvents'
  BY ToldGrows
<1>2. DbOK(db) /\ dbDue \subseteq db["events"] \cup db["artifacts"]
  BY <1>1 DEF ExportInv
<1>3. ASSUME NEW p \in Procs, At(p, "export"), job'[p] = job[p] PROVE JobOK(p)
  BY <1>3, ExportGoesOn
<1>4. ASSUME DbOK(db'), dbDue' \subseteq db'["events"] \cup db'["artifacts"],
             \A p \in Procs : job'[p].at = "export" => JobOK(p)
      PROVE  ExportInv'
  BY <1>4 DEF ExportInv, At
<1> HIDE DEF DbOK, JobOK
<1>5. CASE Agents \/ Sync \/ Tick \/ NewHost
  <2>1. UNCHANGED <<job, db, dbDue>>
    BY <1>5, AgentJobs
  <2>2. \A p \in Procs : job'[p].at = "export" => JobOK(p)
    BY <1>3, <2>1 DEF At
  <2>3. QED
    BY <1>2, <1>4, <2>1, <2>2
<1>6. ASSUME NEW p \in Procs, Etl(p) \/ Index(p) \/ Undecodable(p) \/ Kill(p) PROVE ExportInv'
  <2>1. /\ \A q \in Procs : q # p => job'[q] = job[q]
        /\ job'[p].at # "export"
        /\ UNCHANGED <<db, dbDue>>
    BY <1>6, EtlJobs, IndexJobs, StopJobs
  <2>2. \A q \in Procs : job'[q].at = "export" => JobOK(q)
    BY <1>3, <2>1 DEF At
  <2>3. QED
    BY <1>2, <1>4, <2>1, <2>2
<1>7. ASSUME NEW p \in Procs, Export(p) PROVE ExportInv'
  <2>1. /\ \A q \in Procs : q # p => job'[q] = job[q]
        /\ UNCHANGED <<lines, half, local>>
    BY <1>7, ExportJobs
  <2>2. \A q \in Procs : q # p /\ job'[q].at = "export" => JobOK(q)
    BY <1>3, <2>1 DEF At
  <2>3. ToldEvents' = ToldEvents
    BY <2>1 DEF ToldEvents
  <2>4. CASE StartExport(p)
    <3>1. /\ job'[p] \in Exporting /\ job'[p].ledgers = Files
          /\ \A t \in Tables \cup {"manifest"} : job'[p].rows[t] = {}
          /\ job'[p].due = ({d[2] : d \in WholeLines} \ Separated) \cup {a \in Artifacts : local[a] = "whole"}
      BY <2>4, BeginsExport
    <3>2. ASSUME NEW d \in job'[p].due PROVE Exported(job[p], d)'
      <4>1. CASE d \in {x[2] : x \in WholeLines} \ Separated
        <5>1. \E f \in Files : d \in ToSet(lines[f]) \ Separated
          BY <4>1 DEF WholeLines
        <5>2. QED
          BY <2>1, <3>1, <5>1 DEF Exported
      <4>2. CASE d \in Artifacts /\ local[d] = "whole"
        <5>1. Home \in ToSet(Ledgers) /\ Ledgers \in Seq(Ecosystems)
          BY <4>2, BatchAssumption DEF Ecosystems
        <5>2. Files # {}
          BY <5>1, LenProperties DEF ToSet, Files
        <5>3. QED
          BY <2>1, <3>1, <4>2, <5>2 DEF Exported
      <4>3. QED
        BY <3>1, <3>2, <4>1, <4>2
    <3>3. JobOK(p)
      BY <3>1, <3>2 DEF JobOK, Tables
    <3>4. UNCHANGED <<db, dbDue>>
      BY <2>4 DEF StartExport, outputs, ghosts
    <3>5. QED
      BY <1>2, <1>4, <2>2, <3>3, <3>4
  <2>5. CASE ExportLedger(p)
    <3>1. job[p] \in Exporting /\ At(p, "export") /\ job'[p].due = job[p].due
      BY <2>5, ExportsLedger
    <3>2. PICK f \in job[p].ledgers, last \in SUBSET Events :
              /\ last \subseteq {half[f]} \ {None}
              /\ job'[p].ledgers = job[p].ledgers \ {f}
              /\ job'[p].todo = IF job[p].ledgers = {f} THEN Present ELSE {}
              /\ job'[p].rows["events"] = job[p].rows["events"] \cup ((ToSet(lines[f]) \cup last) \ Separated)
              /\ job'[p].rows["runs"] =
                   job[p].rows["runs"] \cup (((ToSet(lines[f]) \cup last) \ Separated) \cap Completed)
              /\ job'[p].rows["artifacts"] = job[p].rows["artifacts"]
      BY <2>5, ExportsLedger
    <3>3. f \in Files
      BY <3>1 DEF Exporting
    <3>4. ToSet(lines[f]) \cup last \subseteq ToldEvents
      BY <3>2, <3>3 DEF ToldEvents
    <3>5. /\ job[p].rows["runs"] = job[p].rows["events"] \cap Completed
          /\ job[p].rows["events"] \subseteq ToldEvents
          /\ \A d \in job[p].due : Exported(job[p], d)
      BY <3>1 DEF ExportInv
    <3>6. ASSUME NEW d \in job[p].due PROVE Exported(job[p], d)'
      <4>1. Exported(job[p], d)
        BY <3>5
      <4>2. CASE d \in job[p].rows["events"] \cup job[p].rows["artifacts"]
        BY <3>2, <4>2 DEF Exported
      <4>3. CASE \E g \in job[p].ledgers : d \in ToSet(lines[g]) \ Separated
        BY <2>1, <3>2, <4>3 DEF Exported
      <4>4. CASE d \in Artifacts /\ local[d] = "whole"
        <5>1. d \in Present
          BY <4>4, BatchAssumption DEF Present
        <5>2. job'[p].ledgers # {} \/ d \in job'[p].todo
          BY <3>2, <5>1
        <5>3. QED
          BY <2>1, <4>4, <5>2 DEF Exported
      <4>5. QED
        BY <4>1, <4>2, <4>3, <4>4 DEF Exported
    <3>7. JobOK(p)
      BY <2>3, <3>1, <3>2, <3>4, <3>5, <3>6 DEF JobOK
    <3>8. UNCHANGED <<db, dbDue>>
      BY <2>5 DEF ExportLedger, outputs, ghosts
    <3>9. QED
      BY <1>2, <1>4, <2>2, <3>7, <3>8
  <2>6. CASE ExportArtifact(p)
    <3>1. /\ job[p] \in Exporting /\ At(p, "export")
          /\ job'[p].due = job[p].due /\ job'[p].ledgers = job[p].ledgers
          /\ job'[p].rows["events"] = job[p].rows["events"]
          /\ job'[p].rows["runs"] = job[p].rows["runs"]
      BY <2>6, ExportsArtifact
    <3>2. PICK a \in job[p].todo :
              /\ job'[p].todo = job[p].todo \ {a}
              /\ job'[p].rows["artifacts"] =
                   IF local[a] = "whole" THEN job[p].rows["artifacts"] \cup {a} ELSE job[p].rows["artifacts"]
      BY <2>6, ExportsArtifact
    <3>3. /\ job[p].rows["runs"] = job[p].rows["events"] \cap Completed
          /\ job[p].rows["events"] \subseteq ToldEvents
          /\ \A d \in job[p].due : Exported(job[p], d)
      BY <3>1 DEF ExportInv
    <3>4. ASSUME NEW d \in job[p].due PROVE Exported(job[p], d)'
      BY <2>1, <3>1, <3>2, <3>3 DEF Exported
    <3>5. JobOK(p)
      BY <2>3, <3>1, <3>3, <3>4 DEF JobOK
    <3>6. UNCHANGED <<db, dbDue>>
      BY <2>6 DEF ExportArtifact, outputs, ghosts
    <3>7. QED
      BY <1>2, <1>4, <2>2, <3>5, <3>6
  <2>7. CASE Commit(p)
    <3>1. /\ At(p, "export") /\ job[p].ledgers = {} /\ job[p].todo = {}
          /\ db' = [t \in DOMAIN db |-> db[t] \cup IF t = "manifest" THEN Readable ELSE job[p].rows[t]]
          /\ dbDue' = dbDue \cup job[p].due
          /\ Becomes(p, Idle)
      BY <2>7 DEF Commit
    <3>2. DOMAIN db = Tables \cup {"manifest"}
      BY DEF TypeInv
    <3>3. \A t \in Tables : db'[t] = db[t] \cup job[p].rows[t]
      BY <3>1, <3>2 DEF Tables
    <3>4. /\ job[p].rows["runs"] = job[p].rows["events"] \cap Completed
          /\ job[p].rows["events"] \subseteq ToldEvents
          /\ \A d \in job[p].due : Exported(job[p], d)
      BY <3>1 DEF ExportInv
    <3>5. job[p].due \subseteq job[p].rows["events"] \cup job[p].rows["artifacts"]
      BY <3>1, <3>4 DEF Exported
    <3>6. /\ db'["events"] = db["events"] \cup job[p].rows["events"]
          /\ db'["runs"] = db["runs"] \cup job[p].rows["runs"]
          /\ db'["artifacts"] = db["artifacts"] \cup job[p].rows["artifacts"]
      BY <3>3 DEF Tables
    <3>7. DbOK(db')
      BY <1>2, <2>3, <3>4, <3>6 DEF DbOK
    <3>8. dbDue' \subseteq db'["events"] \cup db'["artifacts"]
      BY <1>2, <3>1, <3>5, <3>6
    <3>9. job'[p].at = "idle"
      BY <3>1, EndsJob DEF Idle
    <3>10. QED
      BY <1>4, <2>2, <3>7, <3>8, <3>9
  <2>8. QED
    BY <1>7, <2>4, <2>5, <2>6, <2>7 DEF Export
<1>8. CASE UNCHANGED vars
  <2>1. UNCHANGED <<job, db, dbDue>>
    BY <1>8 DEF vars, outputs, ghosts
  <2>2. \A p \in Procs : job'[p].at = "export" => JobOK(p)
    BY <1>3, <2>1 DEF At
  <2>3. QED
    BY <1>2, <1>4, <2>1, <2>2
<1>9. QED
  BY <1>5, <1>6, <1>7, <1>8 DEF Next

\* An export may be killed, be told half a line, or run beside agents that
\* write: what it had to find when it started, which an event is not whose line
\* splitlines() breaks, is in the tables once it has committed, and no later
\* export takes it away.
THEOREM ExportIsKept == Spec => []ExportKept
<1>1. Init => ExportInv
  BY DEF Init, ExportInv, At, Idle, Tables
<1>2. TypeInv /\ KeysInv /\ ExportInv /\ [Next]_vars => ExportInv'
  BY ExportStep
<1>3. ExportInv => ExportKept
  <2>1. ToldEvents \subseteq UNION {ToSet(lines[f]) \cup {half[f]} : f \in Files}
    BY DEF ToldEvents
  <2>2. QED
    BY <2>1 DEF ExportInv, ExportKept
<1>4. QED
  BY <1>1, <1>2, <1>3, TypeCorrect, PTL DEF Spec

-----------------------------------------------------------------------------
(* Directories of batches *)

\* What a step of a batch job does to directories, unless it starts.
LEMMA EtlDirs ==
  ASSUME TypeInv, NEW p \in Procs, Etl(p), ~StartEtl(p)
  PROVE  /\ job[p].id \in DOMAIN dirs
         /\ DOMAIN dirs' = DOMAIN dirs
         /\ \A k \in DOMAIN dirs : dirs'[k].users = dirs[k].users /\ dirs'[k].due = dirs[k].due
         /\ \A k \in DOMAIN dirs : k # job[p].id => dirs'[k] = dirs[k]
         /\ ~InDir(p) => dirs' = dirs
         /\ Report(p) => InDir(p) /\ dirs'[job[p].id].manifest /\ ~InDir(p)'
         /\ ~Report(p) =>
              /\ dirs'[job[p].id].manifest => dirs[job[p].id].manifest
              /\ job'[p].at \in {"unlink", "link"} => ~InDir(p)
         /\ job'[p].at # "idle" => job'[p].id = job[p].id
         /\ InDir(p)' => InDir(p)
         /\ job[p].at \in {"scan", "meta", "report", "unlink", "link"}
<1>1. CASE ScanLine(p)
  <2>1. At(p, "scan") /\ job[p] \in Scanning /\ job[p].file \in Files
    BY <1>1, ScanLineCases
  <2>2. PICK j : (TakesLine(p, j) \/ TakesHalf(p, j) \/ TurnsFile(p, j)) /\ Scans(p, j)
    BY <1>1, ScanLineCases
  <2>3. j \in Scanning /\ j.id = job[p].id /\ j.at = job[p].at
    BY <2>1, <2>2, TakesFacts
  <2> DEFINE full == {t \in {"events", "runs"} : Full(j.buffer, t)}
  <2>4. /\ dirs' = [dirs EXCEPT ![job[p].id] = FlushAll(@, j.buffer, full)]
        /\ Becomes(p, [j EXCEPT !.buffer = Without(@, full)])
    BY <2>2, <2>3 DEF Scans
  <2>5. job[p].at \in {"scan", "meta"}
    BY <2>1 DEF At
  <2> HIDE DEF full
  <2>6. /\ job'[p].at = j.at /\ job'[p].id = j.id
        /\ j.id \in DOMAIN dirs /\ dirs[j.id] \in Dirs
        /\ DOMAIN dirs' = DOMAIN dirs
        /\ dirs'[j.id] = FlushAll(dirs[j.id], j.buffer, full)
        /\ \A i \in DOMAIN dirs : i # j.id => dirs'[i] = dirs[i]
    BY ZenonT(40), <2>3, <2>4, <2>5, BatchStep
  <2>7. j.buffer \in Buffers
    BY <2>3 DEF Scanning
  <2>8. /\ dirs'[j.id].users = dirs[j.id].users /\ dirs'[j.id].due = dirs[j.id].due
        /\ dirs'[j.id].manifest = dirs[j.id].manifest
    BY <2>6, <2>7, FlushAllFacts
  <2>9. ~Report(p)
    BY <2>1 DEF Report, At
  <2>10. QED
    BY <2>1, <2>3, <2>6, <2>8, <2>9 DEF InDir, At
<1>2. CASE ScanEnds(p)
  <2>1. /\ job[p] \in Scanning /\ At(p, "scan")
        /\ job'[p].at = "meta" /\ job'[p].id = job[p].id
        /\ job[p].id \in DOMAIN dirs /\ dirs[job[p].id] \in Dirs
        /\ DOMAIN dirs' = DOMAIN dirs
        /\ dirs'[job[p].id] = FlushAll(dirs[job[p].id], job[p].buffer, {"events", "runs"})
        /\ \A i \in DOMAIN dirs : i # job[p].id => dirs'[i] = dirs[i]
    BY <1>2, EndsScan
  <2>2. job[p].buffer \in Buffers
    BY <2>1 DEF Scanning
  <2>3. /\ dirs'[job[p].id].users = dirs[job[p].id].users /\ dirs'[job[p].id].due = dirs[job[p].id].due
        /\ dirs'[job[p].id].manifest = dirs[job[p].id].manifest
    BY <2>1, <2>2, FlushAllFacts
  <2>4. ~Report(p)
    BY <2>1 DEF Report, At
  <2>5. QED
    BY <2>1, <2>3, <2>4 DEF InDir, At
<1>3. CASE MetaRow(p)
  <2>1. /\ At(p, "meta") /\ job'[p].at = "meta" /\ job'[p].id = job[p].id
        /\ DOMAIN dirs' = DOMAIN dirs
        /\ SameTables(dirs'[job[p].id], dirs[job[p].id])
        /\ dirs'[job[p].id].manifest = dirs[job[p].id].manifest
        /\ \A i \in DOMAIN dirs : i # job[p].id => dirs'[i] = dirs[i]
    BY <1>3, TellsArtifact
  <2>2. job[p].id \in DOMAIN dirs
    BY <2>1 DEF TypeInv, At
  <2>3. ~Report(p)
    BY <2>1 DEF Report, At
  <2>4. QED
    BY <2>1, <2>2, <2>3 DEF InDir, At, SameTables
<1>4. CASE WriteBatchManifest(p)
  <2>1. /\ At(p, "meta") /\ job'[p].at = "report" /\ job'[p].id = job[p].id
        /\ DOMAIN dirs' = DOMAIN dirs
        /\ SameTables(dirs'[job[p].id], dirs[job[p].id])
        /\ dirs'[job[p].id].manifest = FALSE
        /\ \A i \in DOMAIN dirs : i # job[p].id => dirs'[i] = dirs[i]
    BY <1>4, WritesManifest
  <2>2. job[p].id \in DOMAIN dirs
    BY <2>1 DEF TypeInv, At
  <2>3. ~Report(p)
    BY <2>1 DEF Report, At
  <2>4. QED
    BY <2>1, <2>2, <2>3 DEF InDir, At, SameTables
<1>5. CASE Report(p)
  <2>1. /\ At(p, "report") /\ job'[p].at = "unlink" /\ job'[p].id = job[p].id
        /\ job[p].id \in DOMAIN dirs
        /\ DOMAIN dirs' = DOMAIN dirs
        /\ SameTables(dirs'[job[p].id], dirs[job[p].id])
        /\ dirs'[job[p].id].manifest = TRUE
        /\ \A i \in DOMAIN dirs : i # job[p].id => dirs'[i] = dirs[i]
    BY <1>5, Reports
  <2>2. QED
    BY <1>5, <2>1 DEF InDir, At, SameTables
<1>6. CASE Unlink(p) \/ Link(p)
  <2>1. dirs' = dirs /\ job[p].at \in {"unlink", "link"}
    BY <1>6 DEF Unlink, Link, At
  <2>2. \/ job'[p].at = "link" /\ job'[p].id = job[p].id
        \/ job'[p].at = "idle"
    BY <1>6, Links DEF Idle
  <2>3. ~Report(p) /\ ~InDir(p) /\ ~InDir(p)'
    BY <2>1, <2>2 DEF Report, At, InDir
  <2>4. job[p].id \in DOMAIN dirs
    BY <2>1 DEF TypeInv
  <2>5. QED
    BY <2>1, <2>2, <2>3, <2>4
<1>7. QED
  BY <1>1, <1>2, <1>3, <1>4, <1>5, <1>6 DEF Etl

\* Jobs of other kinds leave directories and the jobs in them alone.
LEMMA OtherDirs ==
  ASSUME TypeInv, KeysInv, [Next]_vars, \A p \in Procs : ~Etl(p)
  PROVE  /\ dirs' = dirs /\ latest' = latest
         /\ \A p \in Procs : job'[p].at \in {"scan", "meta", "report", "unlink", "link"} => job'[p] = job[p]
<1>1. CASE Agents \/ Sync \/ Tick \/ NewHost
  BY <1>1, AgentJobs
<1>2. ASSUME NEW p \in Procs, Export(p) \/ Index(p) \/ Undecodable(p) \/ Kill(p)
      PROVE  /\ dirs' = dirs /\ latest' = latest
             /\ \A q \in Procs : job'[q].at \in {"scan", "meta", "report", "unlink", "link"} => job'[q] = job[q]
  <2>1. /\ dirs' = dirs /\ latest' = latest
        /\ \A q \in Procs : q # p => job'[q] = job[q]
        /\ job'[p].at \notin {"scan", "meta", "report", "unlink", "link"}
    BY <1>2, ExportJobs, IndexJobs, StopJobs
  <2>2. QED
    BY <2>1
<1>3. CASE UNCHANGED vars
  BY <1>3 DEF vars, outputs
<1>4. QED
  BY <1>1, <1>2, <1>3 DEF Next

LEMMA UserStep ==
  ASSUME TypeInv, KeysInv, UserInv, [Next]_vars
  PROVE  UserInv'
<1>1. CASE \A p \in Procs : ~Etl(p)
  <2>1. /\ dirs' = dirs /\ latest' = latest
        /\ \A p \in Procs : job'[p].at \in {"scan", "meta", "report", "unlink", "link"} => job'[p] = job[p]
    BY <1>1, OtherDirs
  <2>2. QED
    BY <2>1 DEF UserInv, InDir
<1>2. ASSUME NEW p \in Procs, StartEtl(p) PROVE UserInv'
  <2> DEFINE dir == IF now \in DOMAIN dirs THEN dirs[now] ELSE NewDir
  <2>1. /\ At(p, "idle")
        /\ job'[p].at = "scan" /\ job'[p].id = now
        /\ \A q \in Procs : q # p => job'[q] = job[q]
        /\ DOMAIN dirs' = DOMAIN dirs \cup {now}
        /\ \A k \in DOMAIN dirs : k # now => dirs'[k] = dirs[k]
        /\ dirs'[now].users = dir.users + 1
        /\ dirs'[now].manifest = dir.manifest
    BY <1>2, BeginsEtl
  <2>2. latest' = latest
    BY <1>2 DEF StartEtl
  <2>3. /\ now \in DOMAIN dirs => dirs'[now].users # 1 /\ dirs'[now].manifest = dirs[now].manifest
        /\ now \notin DOMAIN dirs => ~dirs'[now].manifest
        /\ dirs'[now].users >= 1
    <3>1. now \in DOMAIN dirs => dirs[now].users \in Nat /\ dirs[now].users >= 1
      BY DEF UserInv, TypeInv, Dirs
    <3>2. QED
      BY <2>1, <3>1, NewDirFacts
  <2>4. \A q \in Procs : q # p /\ job[q].at \in {"scan", "meta", "report", "unlink", "link"} => job[q].id \in DOMAIN dirs
    BY DEF TypeInv
  <2> HIDE DEF dir
  <2>5. \A k \in DOMAIN dirs' : dirs'[k].users >= 1
    BY <2>1, <2>3 DEF UserInv
  <2>6. \A q \in Procs : q # p => (InDir(q)' <=> InDir(q)) /\ job'[q] = job[q]
    BY <2>1 DEF InDir
  <2>7. \A q, r \in Procs :
          InDir(q)' /\ InDir(r)' /\ q # r /\ job'[q].id = job'[r].id => dirs'[job'[q].id].users # 1
    <3>1. SUFFICES ASSUME NEW q \in Procs, NEW r \in Procs, InDir(q)', InDir(r)', q # r,
                          job'[q].id = job'[r].id
                   PROVE  dirs'[job'[q].id].users # 1
      OBVIOUS
    <3>2. CASE q = p \/ r = p
      <4>1. now \in DOMAIN dirs /\ job'[q].id = now
        BY <2>1, <2>4, <2>6, <3>1, <3>2 DEF InDir
      <4>2. QED
        BY <2>3, <4>1
    <3>3. CASE q # p /\ r # p
      <4>1. dirs[job[q].id].users # 1 /\ job'[q] = job[q]
        BY <2>6, <3>1, <3>3 DEF UserInv
      <4>2. job[q].id \in DOMAIN dirs
        BY <2>4, <2>6, <3>1, <3>3 DEF InDir
      <4>3. QED
        BY <2>1, <2>3, <4>1, <4>2
    <3>4. QED
      BY <3>2, <3>3
  <2>8. \A q \in Procs : InDir(q)' /\ dirs'[job'[q].id].users = 1 => ~dirs'[job'[q].id].manifest
    <3>1. SUFFICES ASSUME NEW q \in Procs, InDir(q)', dirs'[job'[q].id].users = 1
                   PROVE  ~dirs'[job'[q].id].manifest
      OBVIOUS
    <3>2. CASE q = p
      BY <2>1, <2>3, <3>1, <3>2
    <3>3. CASE q # p
      <4>1. job[q].id \in DOMAIN dirs /\ job'[q] = job[q] /\ InDir(q)
        BY <2>4, <2>6, <3>1, <3>3 DEF InDir
      <4>2. dirs'[job[q].id] = dirs[job[q].id]
        BY <2>1, <2>3, <3>1, <4>1
      <4>3. QED
        BY <3>1, <4>1, <4>2 DEF UserInv
    <3>4. QED
      BY <3>2, <3>3
  <2>9. \A q \in Procs :
          job'[q].at \in {"unlink", "link"} /\ dirs'[job'[q].id].users = 1 => dirs'[job'[q].id].manifest
    <3>1. SUFFICES ASSUME NEW q \in Procs, job'[q].at \in {"unlink", "link"},
                          dirs'[job'[q].id].users = 1
                   PROVE  dirs'[job'[q].id].manifest
      OBVIOUS
    <3>2. q # p
      BY <2>1, <3>1
    <3>3. job[q].id \in DOMAIN dirs /\ job'[q] = job[q]
      BY <2>1, <2>4, <3>1, <3>2
    <3>4. dirs'[job[q].id] = dirs[job[q].id]
      BY <2>1, <2>3, <3>1, <3>3
    <3>5. QED
      BY <3>1, <3>3, <3>4 DEF UserInv
  <2>10. latest' # None => latest' \in DOMAIN dirs' /\ (dirs'[latest'].users = 1 => dirs'[latest'].manifest)
    <3>1. SUFFICES ASSUME latest # None
                   PROVE  latest \in DOMAIN dirs' /\ (dirs'[latest].users = 1 => dirs'[latest].manifest)
      BY <2>2
    <3>2. latest \in DOMAIN dirs /\ (dirs[latest].users = 1 => dirs[latest].manifest)
      BY <3>1 DEF UserInv
    <3>3. dirs'[latest].users = 1 => dirs'[latest] = dirs[latest]
      BY <2>1, <2>3, <3>2
    <3>4. QED
      BY <2>1, <3>2, <3>3
  <2>11. QED
    BY <2>5, <2>7, <2>8, <2>9, <2>10 DEF UserInv
<1>3. ASSUME NEW p \in Procs, Etl(p), ~StartEtl(p) PROVE UserInv'
  <2>1. /\ job[p].id \in DOMAIN dirs
        /\ DOMAIN dirs' = DOMAIN dirs
        /\ \A k \in DOMAIN dirs : dirs'[k].users = dirs[k].users
        /\ \A k \in DOMAIN dirs : k # job[p].id => dirs'[k] = dirs[k]
        /\ ~InDir(p) => dirs' = dirs
        /\ Report(p) => InDir(p) /\ dirs'[job[p].id].manifest /\ ~InDir(p)'
        /\ ~Report(p) =>
             /\ dirs'[job[p].id].manifest => dirs[job[p].id].manifest
             /\ job'[p].at \in {"unlink", "link"} => ~InDir(p)
        /\ job'[p].at # "idle" => job'[p].id = job[p].id
        /\ InDir(p)' => InDir(p)
        /\ job[p].at \in {"scan", "meta", "report", "unlink", "link"}
    BY <1>3, EtlDirs
  <2>2. \A q \in Procs : q # p => job'[q] = job[q]
    BY <1>3, EtlJobs
  <2>3. \A q \in Procs : job[q].at \in {"scan", "meta", "report", "unlink", "link"} => job[q].id \in DOMAIN dirs
    BY DEF TypeInv
  <2>4. \A k \in DOMAIN dirs : dirs[k].users = 1 /\ dirs[k].manifest => dirs'[k].manifest
    BY <2>1 DEF UserInv
  <2>5. \A q \in Procs : InDir(q)' => InDir(q) /\ job'[q].id = job[q].id /\ job[q].id \in DOMAIN dirs
    BY <2>1, <2>2, <2>3 DEF InDir
  <2>6. \A k \in DOMAIN dirs' : dirs'[k].users >= 1
    BY <2>1 DEF UserInv
  <2>7. \A q, r \in Procs :
          InDir(q)' /\ InDir(r)' /\ q # r /\ job'[q].id = job'[r].id => dirs'[job'[q].id].users # 1
    BY <2>1, <2>5 DEF UserInv
  <2>8. \A q \in Procs : InDir(q)' /\ dirs'[job'[q].id].users = 1 => ~dirs'[job'[q].id].manifest
    <3>1. SUFFICES ASSUME NEW q \in Procs, InDir(q)', dirs'[job'[q].id].users = 1
                   PROVE  ~dirs'[job'[q].id].manifest
      OBVIOUS
    <3>2. InDir(q) /\ job'[q].id = job[q].id /\ job[q].id \in DOMAIN dirs /\ dirs[job[q].id].users = 1
      BY <2>1, <2>5, <3>1
    <3>3. ~dirs[job[q].id].manifest
      BY <3>2 DEF UserInv
    <3>4. Report(p) => job[q].id # job[p].id
      BY <2>1, <3>1, <3>2 DEF UserInv
    <3>5. QED
      BY <2>1, <3>2, <3>3, <3>4
  <2>9. \A q \in Procs :
          job'[q].at \in {"unlink", "link"} /\ dirs'[job'[q].id].users = 1 => dirs'[job'[q].id].manifest
    <3>1. SUFFICES ASSUME NEW q \in Procs, job'[q].at \in {"unlink", "link"},
                          dirs'[job'[q].id].users = 1
                   PROVE  dirs'[job'[q].id].manifest
      OBVIOUS
    <3>2. CASE q = p
      <4>1. job'[p].id = job[p].id
        BY <2>1, <3>1, <3>2
      <4>2. Report(p) \/ job[p].at \in {"unlink", "link"}
        BY <2>1, <3>1, <3>2 DEF InDir
      <4>3. CASE Report(p)
        BY <2>1, <3>2, <4>1, <4>3
      <4>4. CASE job[p].at \in {"unlink", "link"}
        <5>1. dirs[job[p].id].users = 1 /\ job[p].id \in DOMAIN dirs
          BY <2>1, <3>1, <3>2, <4>1
        <5>2. dirs[job[p].id].manifest
          BY <4>4, <5>1 DEF UserInv
        <5>3. QED
          BY <2>4, <3>2, <4>1, <5>1, <5>2
      <4>5. QED
        BY <4>2, <4>3, <4>4
    <3>3. CASE q # p
      <4>1. job'[q] = job[q]
        BY <2>2, <3>3
      <4>2. job[q].id \in DOMAIN dirs
        BY <2>3, <3>1, <4>1
      <4>3. dirs[job[q].id].users = 1
        BY <2>1, <3>1, <4>1, <4>2
      <4>4. dirs[job[q].id].manifest
        BY <3>1, <4>1, <4>3 DEF UserInv
      <4>5. QED
        BY <2>4, <4>1, <4>2, <4>3, <4>4
    <3>4. QED
      BY <3>2, <3>3
  <2>10. latest' # None => latest' \in DOMAIN dirs' /\ (dirs'[latest'].users = 1 => dirs'[latest'].manifest)
    <3>1. CASE Unlink(p) \/ Link(p)
      <4>1. latest' \in {None, latest, job[p].id} /\ dirs' = dirs /\ job[p].at \in {"unlink", "link"}
        BY <3>1, Links DEF Unlink, Link, At
      <4>2. QED
        BY <2>1, <4>1 DEF UserInv
    <3>2. CASE latest' = latest
      BY <2>1, <2>4, <3>2 DEF UserInv
    <3>3. QED
      BY <1>3, <3>1, <3>2 DEF Etl, ScanLine, ScanEnds, MetaRow, WriteBatchManifest, Report
  <2>11. QED
    BY <2>6, <2>7, <2>8, <2>9, <2>10 DEF UserInv
<1>4. QED
  BY <1>1, <1>2, <1>3

-----------------------------------------------------------------------------
(* A finished batch is complete *)

\* Another row changes nothing for a row; the row itself is there once.
LEMMA OnceAppend ==
  ASSUME NEW s \in Seq(RowSet), NEW x \in RowSet, NEW r
  PROVE  /\ x # r => (Once(s, r) <=> Once(Append(s, x), r))
         /\ x # r => (Absent(s, r) <=> Absent(Append(s, x), r))
         /\ Absent(s, r) => Once(Append(s, r), r)
<1>1. /\ Len(s) \in Nat /\ DOMAIN s = 1..Len(s)
      /\ \A y : /\ DOMAIN Append(s, y) = 1..Len(s) + 1
                /\ \A i \in 1..Len(s) : Append(s, y)[i] = s[i]
                /\ Append(s, y)[Len(s) + 1] = y
  OBVIOUS
<1> DEFINE n == Len(s)
<1> HIDE DEF n
<1>2. n \in Nat /\ DOMAIN s = 1..n
  BY <1>1 DEF n
<1>3. ASSUME NEW y
      PROVE  /\ DOMAIN Append(s, y) = DOMAIN s \cup {n + 1}
             /\ \A i \in DOMAIN s : Append(s, y)[i] = s[i]
             /\ Append(s, y)[n + 1] = y
  BY <1>1, <1>2 DEF n
<1>4. n + 1 \notin DOMAIN s
  BY <1>2
<1>5. ASSUME x # r
      PROVE  (Once(s, r) <=> Once(Append(s, x), r)) /\ (Absent(s, r) <=> Absent(Append(s, x), r))
  <2> DEFINE a == Append(s, x)
  <2>1. DOMAIN a = DOMAIN s \cup {n + 1} /\ (\A i \in DOMAIN s : a[i] = s[i]) /\ a[n + 1] = x
    BY <1>3
  <2> HIDE DEF a
  <2>2. (Once(s, r) <=> Once(a, r)) /\ (Absent(s, r) <=> Absent(a, r))
    BY <1>5, <2>1 DEF Once, Absent
  <2>3. QED
    BY <2>2 DEF a
<1>6. ASSUME Absent(s, r) PROVE Once(Append(s, r), r)
  <2> DEFINE a == Append(s, r)
  <2>1. DOMAIN a = DOMAIN s \cup {n + 1} /\ (\A i \in DOMAIN s : a[i] = s[i]) /\ a[n + 1] = r
    BY <1>3
  <2> HIDE DEF a
  <2>2. Once(a, r)
    BY <1>6, <2>1 DEF Once, Absent
  <2>3. QED
    BY <2>2 DEF a
<1>7. QED
  BY <1>5, <1>6

\* A flush moves a row from the buffer to the part of its ecosystem, or throws
\* a part with the row away, which the count of flushes then tells.
LEMMA FlushHolds ==
  ASSUME NEW b \in Seq(RowSet), NEW parts \in [Ecosystems -> Part], NEW flushes \in [Ecosystems -> Nat],
         NEW r \in RowSet
  PROVE  /\ Held(b, parts[r.eco], flushes[r.eco], r) =>
              Held(<<>>, FlushedParts(parts, b)[r.eco], Counted(flushes, b)[r.eco], r)
         /\ Nowhere(b, parts[r.eco], r) => Nowhere(<<>>, FlushedParts(parts, b)[r.eco], r)
<1>1. r.eco \in Ecosystems
  BY DEF RowSet
<1> DEFINE eco == r.eco
           s == parts[eco]  n == flushes[eco]
           s1 == FlushedParts(parts, b)[eco]  n1 == Counted(flushes, b)[eco]
           o == Of(b, eco)
<1>2. n \in Nat
  BY <1>1
<1>3. /\ HasRow(b, eco) => s1 = o /\ n1 = n + 1
      /\ ~HasRow(b, eco) => s1 = s /\ n1 = n
  BY <1>1 DEF FlushedParts, Counted
<1>4. /\ DOMAIN o = {i \in DOMAIN b : b[i].eco = eco}
      /\ \A i \in DOMAIN o : o[i] = b[i]
  BY OfFacts
<1>5. Absent(<<>>, r) /\ ~Once(<<>>, r)
  BY DEF Absent, Once
<1>6. /\ Once(b, r) => HasRow(b, eco) /\ Once(o, r)
      /\ Absent(b, r) => Absent(o, r)
  <2> HIDE DEF o
  <2>1. Absent(b, r) => Absent(o, r)
    BY <1>4 DEF Absent
  <2>2. ASSUME Once(b, r) PROVE HasRow(b, eco) /\ Once(o, r)
    <3>1. PICK i \in DOMAIN b : b[i] = r /\ \A k \in DOMAIN b : b[k] = r => k = i
      BY <2>2 DEF Once
    <3>2. i \in DOMAIN o /\ HasRow(b, eco)
      BY <1>4, <3>1 DEF HasRow
    <3>3. \A k \in DOMAIN o : k \in DOMAIN b /\ o[k] = b[k]
      BY <1>4
    <3>4. QED
      BY <3>1, <3>2, <3>3 DEF Once
  <2>3. QED
    BY <2>1, <2>2
<1> HIDE DEF o, s, n, s1, n1, eco
<1>7. ASSUME Held(b, s, n, r) PROVE Held(<<>>, s1, n1, r)
  <2>1. CASE HasRow(b, eco)
    <3>1. CASE n = 0
      <4>1. Once(o, r) /\ n1 = 1 /\ s1 = o
        BY <1>3, <1>6, <1>7, <2>1, <3>1 DEF Held
      <4>2. QED
        BY <1>5, <4>1 DEF Held
    <3>2. CASE n # 0
      <4>1. n1 # 0 /\ n1 # 1
        BY <1>2, <1>3, <2>1, <3>2
      <4>2. QED
        BY <4>1 DEF Held
    <3>3. QED
      BY <3>1, <3>2
  <2>2. CASE ~HasRow(b, eco)
    <3>1. ~Once(b, r) /\ s1 = s /\ n1 = n
      BY <1>3, <1>6, <2>2
    <3>2. QED
      BY <1>5, <1>7, <3>1 DEF Held
  <2>3. QED
    BY <2>1, <2>2
<1>8. ASSUME Nowhere(b, s, r) PROVE Nowhere(<<>>, s1, r)
  BY <1>3, <1>5, <1>6, <1>8 DEF Nowhere
<1>9. QED
  BY <1>7, <1>8 DEF s, n, s1, n1, eco

\* The row of a line has its ecosystem, and tells it from other lines.
LEMMA RowOfFacts ==
  ASSUME NEW d \in Files \X Events
  PROVE  /\ RowOf(d) \in RowSet
         /\ RowOf(d).eco = Ledgers[d[1]]
         /\ \A c \in Files \X Events : RowOf(c) = RowOf(d) => c = d
<1>1. \A c \in Files \X Events : RowOf(c) \in RowSet /\ RowOf(c).eco = Ledgers[c[1]]
                                 /\ RowOf(c).id = c[2] /\ RowOf(c).from = c[1]
  <2>1. \A c \in Files \X Events : c[1] \in Files /\ c[2] \in Events /\ Ledgers[c[1]] \in Ecosystems
    BY LedgerType
  <2>2. QED
    BY <2>1, RowType DEF RowOf
<1>2. QED
  BY <1>1

LEMMA FlushTracks ==
  ASSUME NEW j \in Scanning, NEW dir \in Dirs, NEW tables, Tracks(j, dir),
         NEW j1 \in Scanning, j1.buffer = Without(j.buffer, tables),
         j1.file = j.file, j1.line = j.line, j1.skip = j.skip
  PROVE  Tracks(j1, FlushAll(dir, j.buffer, tables))
<1> DEFINE dir1 == FlushAll(dir, j.buffer, tables)
<1>1. j.buffer \in Buffers /\ dir.due \subseteq Files \X Events
  BY DEF Scanning, Dirs
<1>2. /\ dir1.due = dir.due
      /\ \A t \in Tables : dir1.parts[t] =
           IF t \in tables THEN FlushedParts(dir.parts[t], j.buffer[t]) ELSE dir.parts[t]
      /\ \A t \in Tables : dir1.flushes[t] =
           IF t \in tables THEN Counted(dir.flushes[t], j.buffer[t]) ELSE dir.flushes[t]
  BY <1>1, FlushAllFacts
<1>3. \A t \in Tables : j1.buffer[t] = IF t \in tables THEN <<>> ELSE j.buffer[t]
  BY <1>1, WithoutFacts
<1>4. \A d : Passed(j1, d) <=> Passed(j, d)
  BY DEF Passed
<1> HIDE DEF dir1
<1>5. ASSUME NEW d \in dir.due, NEW t \in TablesOf(d[2])
      PROVE  Tracked(j1, dir1, d, t)
  <2>1. Tracked(j, dir, d, t)
    BY <1>5 DEF Tracks
  <2>2. t \in Tables /\ d \in Files \X Events
    BY <1>1 DEF TablesOf, Tables
  <2>3. RowOf(d) \in RowSet /\ RowOf(d).eco = Ledgers[d[1]]
    BY <2>2, RowOfFacts
  <2>4. CASE t \in tables
    <3>1. /\ j.buffer[t] \in Seq(RowSet)
          /\ dir.parts[t] \in [Ecosystems -> Part] /\ dir.flushes[t] \in [Ecosystems -> Nat]
      BY <1>1, <2>2 DEF Buffers, Dirs
    <3>2. /\ dir1.parts[t] = FlushedParts(dir.parts[t], j.buffer[t])
          /\ dir1.flushes[t] = Counted(dir.flushes[t], j.buffer[t])
          /\ j1.buffer[t] = <<>>
      BY <1>2, <1>3, <2>2, <2>4
    <3> DEFINE r == RowOf(d)
    <3> HIDE DEF r
    <3>3. r \in RowSet /\ r.eco = Ledgers[d[1]]
      BY <2>3 DEF r
    <3>4. /\ Held(j.buffer[t], dir.parts[t][r.eco], dir.flushes[t][r.eco], r) =>
               Held(<<>>, FlushedParts(dir.parts[t], j.buffer[t])[r.eco],
                          Counted(dir.flushes[t], j.buffer[t])[r.eco], r)
          /\ Nowhere(j.buffer[t], dir.parts[t][r.eco], r) =>
               Nowhere(<<>>, FlushedParts(dir.parts[t], j.buffer[t])[r.eco], r)
      BY <3>1, <3>3, FlushHolds
    <3>5. CASE Passed(j, d)
      <4>1. Held(j.buffer[t], dir.parts[t][r.eco], dir.flushes[t][r.eco], r)
        BY <2>1, <3>3, <3>5 DEF Tracked, r
      <4>2. Held(j1.buffer[t], dir1.parts[t][r.eco], dir1.flushes[t][r.eco], r)
        BY <3>2, <3>4, <4>1
      <4>3. QED
        BY <1>4, <3>3, <3>5, <4>2 DEF Tracked, r
    <3>6. CASE ~Passed(j, d)
      <4>1. Nowhere(j.buffer[t], dir.parts[t][r.eco], r)
        BY <2>1, <3>3, <3>6 DEF Tracked, r
      <4>2. Nowhere(j1.buffer[t], dir1.parts[t][r.eco], r)
        BY <3>2, <3>4, <4>1
      <4>3. QED
        BY <1>4, <3>3, <3>6, <4>2 DEF Tracked, r
    <3>7. QED
      BY <3>5, <3>6
  <2>5. CASE t \notin tables
    <3>1. /\ dir1.parts[t] = dir.parts[t] /\ dir1.flushes[t] = dir.flushes[t]
          /\ j1.buffer[t] = j.buffer[t]
      BY <1>2, <1>3, <2>2, <2>5
    <3>2. QED
      BY <1>4, <2>1, <3>1 DEF Tracked
  <2>6. QED
    BY <2>4, <2>5
<1>6. Tracks(j1, dir1)
  BY <1>2, <1>4, <1>5 DEF Tracks
<1>7. QED
  BY <1>6 DEF dir1

\* What a job has read of its ledger.
LEMMA ReadTracks ==
  ASSUME TypeInv, LineInv, NEW p \in Procs, job[p] \in Scanning, job[p].file \in Files,
         NEW j, TakesLine(p, j) \/ TakesHalf(p, j) \/ TurnsFile(p, j),
         NEW dir \in Dirs, Tracks(job[p], dir)
  PROVE  Tracks(j, dir)
<1> DEFINE o == job[p]  f == o.file  s == lines[f]
<1>1. /\ o.line \in Nat /\ o.buffer \in Buffers /\ f \in Nat \ {0} /\ Len(Ledgers) \in Nat
      /\ f <= Len(Ledgers) /\ o.skip \in BOOLEAN
  BY LedgerType DEF Scanning, Files
<1>2. s \in Seq(Events) /\ Len(s) \in Nat /\ DOMAIN s = 1..Len(s)
  BY LenProperties DEF TypeInv
<1>3. dir.due \subseteq Files \X Events
  BY DEF Dirs
<1>4. \A d \in dir.due : /\ d[2] \in ToSet(lines[d[1]])
                         /\ \A t \in TablesOf(d[2]) : Tracked(o, dir, d, t)
                         /\ o.skip /\ d[1] = f => Passed(o, d)
  BY DEF Tracks
<1>5. \A i, k \in 1..Len(s) : s[i] = s[k] => i = k
  BY DEF LineInv
<1>6. o \in Scanning /\ f \in Files
  OBVIOUS
<1>7. ASSUME NEW e \in Events, NEW d \in dir.due, d # <<f, e>>, NEW t \in TablesOf(d[2])
      PROVE  /\ Once(o.buffer[t], RowOf(d)) <=> Once(Taken(o, e)[t], RowOf(d))
             /\ Absent(o.buffer[t], RowOf(d)) <=> Absent(Taken(o, e)[t], RowOf(d))
  <2>1. t \in Tables /\ o.buffer[t] \in Seq(RowSet)
    BY <1>1 DEF TablesOf, Tables, Buffers
  <2>2. <<f, e>> \in Files \X Events /\ d \in Files \X Events
    BY <1>3, <1>6
  <2>3. RowOf(<<f, e>>) \in RowSet /\ RowOf(<<f, e>>) # RowOf(d)
    BY <1>7, <2>2, RowOfFacts
  <2>4. Taken(o, e)[t] = IF t \in TablesOf(e) THEN Append(o.buffer[t], RowOf(<<f, e>>)) ELSE o.buffer[t]
    BY <1>6, <2>1, TakenFacts
  <2>5. QED
    BY <2>1, <2>3, <2>4, OnceAppend
<1> HIDE DEF o, f, s
<1>8. ASSUME TakesLine(p, j) PROVE Tracks(j, dir)
  <2> DEFINE n == o.line + 1  e == s[n]
  <2>1. n \in 1..Len(s) /\ e \in Events
    <3>1. n \in 1..Len(s)
      BY <1>1, <1>2, <1>8 DEF TakesLine, o, f, s
    <3>2. QED
      BY <1>2, <3>1, ElementOfSeq
  <2>2. /\ j.file = f /\ j.line = n /\ j.skip = FALSE
        /\ j.buffer = IF o.skip THEN o.buffer ELSE Taken(o, e)
    BY <1>8, TakesFacts DEF o, f, s
  <2>3. ASSUME NEW d \in dir.due
        PROVE  /\ d # <<f, e>> => (Passed(j, d) <=> Passed(o, d))
               /\ d = <<f, e>> => Passed(j, d) /\ (Passed(o, d) => FALSE)
    <3>1. d \in Files \X Events
      BY <1>3
    <3>2. \A i : i \in 1..n <=> i \in 1..o.line \/ i = n
      BY <1>1
    <3>3. d # <<f, e>> => d[1] # f \/ d[2] # e
      BY <3>1
    <3>4. CASE d # <<f, e>>
      <4>1. Passed(j, d) <=> Passed(o, d)
        BY <2>2, <3>2, <3>3, <3>4 DEF Passed, s, f
      <4>2. QED
        BY <3>4, <4>1
    <3>5. CASE d = <<f, e>>
      <4>1. d[1] = f /\ d[2] = e /\ ~(f < f)
        BY <1>1, <3>5
      <4>2. n \in 1..n /\ n <= Len(s) /\ s[n] = e
        BY <2>1
      <4>3. Passed(j, d)
        BY <2>2, <4>1, <4>2 DEF Passed, s
      <4>4. ASSUME Passed(o, d) PROVE FALSE
        <5>1. PICK i \in 1..o.line : i <= Len(s) /\ s[i] = e
          BY <4>1, <4>4 DEF Passed, s, f
        <5>2. i \in 1..Len(s) /\ i # n
          BY <1>1, <1>2, <5>1
        <5>3. QED
          BY <1>5, <2>1, <5>1, <5>2
      <4>5. QED
        BY <3>5, <4>3, <4>4
    <3>6. QED
      BY <3>4, <3>5
  <2> HIDE DEF n, e
  <2>4. ASSUME NEW d \in dir.due, NEW t \in TablesOf(d[2])
        PROVE  Tracked(j, dir, d, t)
    <3>1. Tracked(o, dir, d, t)
      BY <1>4, <2>4
    <3>2. CASE o.skip
      <4>1. Passed(j, d) <=> Passed(o, d)
        <5>1. d = <<f, e>> => Passed(o, d)
          BY <1>4, <3>2
        <5>2. QED
          BY <2>3, <5>1
      <4>2. QED
        BY <2>2, <3>1, <3>2, <4>1 DEF Tracked
    <3>3. CASE ~o.skip /\ d # <<f, e>>
      <4>1. Passed(j, d) <=> Passed(o, d)
        BY <2>3, <3>3
      <4>2. /\ Once(o.buffer[t], RowOf(d)) <=> Once(j.buffer[t], RowOf(d))
            /\ Absent(o.buffer[t], RowOf(d)) <=> Absent(j.buffer[t], RowOf(d))
        BY <1>7, <2>1, <2>2, <2>4, <3>3
      <4>3. QED
        BY <3>1, <4>1, <4>2 DEF Tracked, Held, Nowhere
    <3>4. CASE ~o.skip /\ d = <<f, e>>
      <4>1. Passed(j, d) /\ ~Passed(o, d)
        BY <2>3, <3>4
      <4>2. Absent(o.buffer[t], RowOf(d)) /\ Absent(dir.parts[t][Ledgers[d[1]]], RowOf(d))
        BY <3>1, <4>1 DEF Tracked, Nowhere
      <4>3. t \in Tables /\ o.buffer[t] \in Seq(RowSet) /\ RowOf(d) \in RowSet
        BY <1>1, <1>3, RowOfFacts DEF TablesOf, Tables, Buffers
      <4>4. t \in TablesOf(e)
        BY <2>4, <3>4
      <4>5. j.buffer[t] = Append(o.buffer[t], RowOf(d))
        <5>1. Taken(o, e)[t] = IF t \in TablesOf(e) THEN Append(o.buffer[t], RowOf(<<f, e>>)) ELSE o.buffer[t]
          BY <1>6, <2>1, <4>3, TakenFacts DEF f
        <5>2. j.buffer = Taken(o, e)
          BY <2>2, <3>4
        <5>3. QED
          BY <3>4, <4>4, <5>1, <5>2
      <4>6. Once(j.buffer[t], RowOf(d))
        BY <4>2, <4>3, <4>5, OnceAppend
      <4>7. QED
        BY <4>1, <4>6 DEF Tracked, Held
    <3>5. QED
      BY <3>2, <3>3, <3>4
  <2>5. j.file <= Len(Ledgers) + 1
    BY <1>1, <2>2
  <2>6. QED
    BY <1>4, <2>2, <2>4, <2>5 DEF Tracks
<1>9. ASSUME TakesHalf(p, j) PROVE Tracks(j, dir)
  <2> DEFINE e == half[f]
  <2>1. e \in Events /\ o.line >= Len(s)
    BY <1>6, <1>9 DEF TakesHalf, TypeInv, o, f, s
  <2>2. /\ j.file = f /\ j.line = o.line /\ j.skip = TRUE
        /\ j.buffer \in {o.buffer, Taken(o, e)}
    BY <1>9, TakesFacts DEF o, f
  <2>3. \A d : Passed(j, d) <=> Passed(o, d)
    BY <2>2 DEF Passed, f
  <2>4. \A d \in dir.due : d # <<f, e>>
    <3>1. PICK n \in 0..Len(Into[e]) : InOrder(e, n)
      BY <2>1 DEF LineInv
    <3>2. n < Len(Into[e]) /\ f = Into[e][n + 1]
      BY <1>6, <3>1 DEF InOrder
    <3>3. Len(Into[e]) \in Nat
      BY <2>1, BatchAssumption, LenProperties
    <3>4. n + 1 \in 1..Len(Into[e]) /\ ~(n + 1 <= n)
      BY <3>2, <3>3
    <3>5. e \notin ToSet(lines[f])
      BY <3>1, <3>2, <3>4 DEF InOrder
    <3>6. QED
      BY <1>4, <3>5
  <2> HIDE DEF e
  <2>5. ASSUME NEW d \in dir.due, NEW t \in TablesOf(d[2])
        PROVE  Tracked(j, dir, d, t)
    <3>1. Tracked(o, dir, d, t)
      BY <1>4, <2>5
    <3>2. /\ Once(o.buffer[t], RowOf(d)) <=> Once(j.buffer[t], RowOf(d))
          /\ Absent(o.buffer[t], RowOf(d)) <=> Absent(j.buffer[t], RowOf(d))
      BY <1>7, <2>1, <2>2, <2>4, <2>5
    <3>3. QED
      BY <2>3, <3>1, <3>2 DEF Tracked, Held, Nowhere
  <2>6. ASSUME NEW d \in dir.due, d[1] = f PROVE Passed(o, d)
    <3>1. d[2] \in ToSet(s)
      BY <1>4, <2>6 DEF s
    <3>2. PICK i \in 1..Len(s) : s[i] = d[2]
      BY <1>2, <3>1 DEF ToSet
    <3>3. i \in 1..o.line /\ i <= Len(s)
      BY <1>1, <1>2, <2>1
    <3>4. QED
      BY <2>6, <3>2, <3>3 DEF Passed, s, f
  <2>7. j.file <= Len(Ledgers) + 1
    BY <1>1, <2>2
  <2>8. QED
    BY <1>4, <2>2, <2>3, <2>5, <2>6, <2>7 DEF Tracks
<1>10. ASSUME TurnsFile(p, j) PROVE Tracks(j, dir)
  <2>1. j.file = f + 1 /\ j.line = 0 /\ j.skip = FALSE /\ j.buffer = o.buffer
    BY <1>10, TakesFacts DEF o, f
  <2>2. o.line >= Len(s)
    BY <1>10 DEF TurnsFile, o, f, s
  <2>3. ASSUME NEW d \in dir.due PROVE Passed(j, d) <=> Passed(o, d)
    <3>1. d[1] \in Nat
      BY <1>3 DEF Files
    <3>2. Passed(j, d) <=> d[1] < f + 1
      BY <2>1 DEF Passed
    <3>3. CASE d[1] = f
      <4>1. d[2] \in ToSet(s)
        BY <1>4, <3>3 DEF s
      <4>2. PICK i \in 1..Len(s) : s[i] = d[2]
        BY <1>2, <4>1 DEF ToSet
      <4>3. i \in 1..o.line /\ i <= Len(s)
        BY <1>1, <1>2, <2>2
      <4>4. Passed(o, d)
        BY <3>3, <4>2, <4>3 DEF Passed, s, f
      <4>5. QED
        BY <1>1, <3>2, <3>3, <4>4
    <3>4. CASE d[1] # f
      <4>1. Passed(o, d) <=> d[1] < f
        BY <3>4 DEF Passed, f
      <4>2. QED
        BY <1>1, <3>1, <3>2, <3>4, <4>1
    <3>5. QED
      BY <3>3, <3>4
  <2>4. j.file <= Len(Ledgers) + 1
    BY <1>1, <2>1
  <2>5. ASSUME NEW d \in dir.due, NEW t \in TablesOf(d[2])
        PROVE  Tracked(j, dir, d, t)
    BY <1>4, <2>1, <2>3, <2>5 DEF Tracked
  <2>6. QED
    BY <1>4, <2>1, <2>4, <2>5 DEF Tracks
<1>11. QED
  BY <1>8, <1>9, <1>10

\* Lines that come behind those a job had to read are not taken for them.
LEMMA LinesTrack ==
  ASSUME TypeInv, KeysInv, LineInv', [Next]_vars, NEW j \in Scanning, NEW dir \in Dirs, Tracks(j, dir)
  PROVE  Tracks(j, dir)'
<1>1. dir.due \subseteq Files \X Events
  BY DEF Dirs
<1>2. ASSUME NEW d \in dir.due
      PROVE  d[2] \in ToSet(lines'[d[1]]) /\ (Passed(j, d)' <=> Passed(j, d))
  <2>1. d[1] \in Files
    BY <1>1
  <2> DEFINE f == d[1]
  <2>2. /\ Len(lines[f]) \in Nat /\ Len(lines'[f]) \in Nat
        /\ Len(lines[f]) <= Len(lines'[f])
        /\ \A i \in 1..Len(lines[f]) : lines'[f][i] = lines[f][i]
        /\ ToSet(lines[f]) \subseteq ToSet(lines'[f])
    BY <2>1, LinesGrow
  <2>3. d[2] \in ToSet(lines[f])
    BY <1>2 DEF Tracks
  <2>4. lines[f] \in Seq(Events) /\ DOMAIN lines[f] = 1..Len(lines[f])
    BY <2>1, LenProperties DEF TypeInv
  <2>5. PICK k \in 1..Len(lines[f]) : lines[f][k] = d[2]
    BY <2>3, <2>4 DEF ToSet
  <2>6. \A i \in 1..Len(lines'[f]) : lines'[f][i] = d[2] => i = k
    <3>1. k \in 1..Len(lines'[f]) /\ lines'[f][k] = d[2]
      BY <2>2, <2>5
    <3>2. QED
      BY <2>1, <3>1 DEF LineInv
  <2>7. j.line \in Nat
    BY DEF Scanning
  <2>8. (\E i \in 1..j.line : i <= Len(lines'[f]) /\ lines'[f][i] = d[2])
          <=> (\E i \in 1..j.line : i <= Len(lines[f]) /\ lines[f][i] = d[2])
    <3>1. ASSUME NEW i \in 1..j.line, i <= Len(lines'[f]), lines'[f][i] = d[2]
          PROVE  i <= Len(lines[f]) /\ lines[f][i] = d[2]
      <4>1. i \in 1..Len(lines'[f])
        BY <2>2, <2>7, <3>1
      <4>2. i = k
        BY <2>6, <3>1, <4>1
      <4>3. QED
        BY <2>2, <2>5, <4>2
    <3>2. ASSUME NEW i \in 1..j.line, i <= Len(lines[f]), lines[f][i] = d[2]
          PROVE  i <= Len(lines'[f]) /\ lines'[f][i] = d[2]
      <4>1. i \in 1..Len(lines[f])
        BY <2>2, <2>7, <3>2
      <4>2. QED
        BY <2>2, <3>2, <4>1
    <3>3. QED
      BY <3>1, <3>2
  <2>9. QED
    BY <2>2, <2>3, <2>8 DEF Passed
<1>3. \A d \in dir.due : \A t \in TablesOf(d[2]) : Tracked(j, dir, d, t)'
  BY <1>2 DEF Tracks, Tracked
<1>4. QED
  BY <1>2, <1>3 DEF Tracks

\* A job that stands still is in step with its directory, if that is left alone.
LEMMA TracksGoOn ==
  ASSUME TypeInv, KeysInv, ScanInv, LineInv', [Next]_vars,
         NEW q \in Procs, At(q, "scan"), dirs[job[q].id].users = 1,
         job'[q] = job[q], dirs'[job[q].id] = dirs[job[q].id]
  PROVE  Tracks(job[q], dirs[job[q].id])'
<1>1. PICK j, dir : j = job[q] /\ dir = dirs[job[q].id]
  OBVIOUS
<1>2. j \in Scanning /\ dir \in Dirs
  BY <1>1, Kinds DEF At, TypeInv
<1>3. Tracks(j, dir)
  BY <1>1 DEF ScanInv
<1>4. Tracks(j, dir)'
  BY <1>2, <1>3, LinesTrack
<1>5. job'[q] = j /\ dirs'[job'[q].id] = dir
  BY <1>1
<1>6. QED
  BY <1>4, <1>5

\* A directory is new to the only job that ever used it.
LEMMA FreshDir ==
  ASSUME TypeInv, UserInv, NEW p \in Procs, StartEtl(p), dirs'[now].users = 1
  PROVE  now \notin DOMAIN dirs
<1>1. SUFFICES ASSUME now \in DOMAIN dirs PROVE FALSE
  OBVIOUS
<1>2. dirs[now].users >= 1 /\ dirs[now].users \in Nat
  BY <1>1 DEF UserInv, TypeInv, Dirs
<1>3. dirs'[now].users = dirs[now].users + 1
  BY <1>1, BeginsEtl
<1>4. QED
  BY <1>2, <1>3

LEMMA SameComplete ==
  ASSUME NEW dir, NEW d, SameTables(d, dir), Complete(dir)
  PROVE  Complete(d)
<1>1. ASSUME NEW c \in d.due, NEW t \in TablesOf(c[2]), d.flushes[t][Ledgers[c[1]]] = 1
      PROVE  Once(d.parts[t][Ledgers[c[1]]], RowOf(c))
  <2>1. t \in {"events", "runs"} /\ c \in dir.due
    BY <1>1 DEF TablesOf, SameTables
  <2>2. d.parts[t] = dir.parts[t] /\ d.flushes[t] = dir.flushes[t]
    BY <2>1 DEF SameTables
  <2>3. QED
    BY <1>1, <2>1, <2>2 DEF Complete
<1>2. QED
  BY <1>1 DEF Complete

\* A directory with one user is left alone by the other jobs.
LEMMA AloneIn ==
  ASSUME TypeInv, UserInv, NEW p \in Procs, Etl(p),
         NEW q \in Procs, q # p, InDir(q), dirs'[job[q].id].users = 1
  PROVE  /\ job'[q] = job[q]
         /\ dirs'[job[q].id] = dirs[job[q].id]
         /\ dirs[job[q].id].users = 1
<1>1. job'[q] = job[q]
  BY EtlJobs
<1>2. job[q].id \in DOMAIN dirs
  BY DEF TypeInv, InDir
<1>3. CASE StartEtl(p)
  <2>2. job[q].id # now
    BY <1>2, <1>3, FreshDir
  <2>3. QED
    BY <1>1, <1>2, <1>3, <2>2, BeginsEtl
<1>4. CASE ~StartEtl(p)
  <2>1. /\ dirs'[job[q].id].users = dirs[job[q].id].users
        /\ job[q].id # job[p].id => dirs'[job[q].id] = dirs[job[q].id]
        /\ ~InDir(p) => dirs' = dirs
    BY <1>2, <1>4, EtlDirs
  <2>2. InDir(p) => job[q].id # job[p].id
    BY <2>1 DEF UserInv
  <2>3. QED
    BY <1>1, <2>1, <2>2
<1>5. QED
  BY <1>3, <1>4

LEMMA ScanStep ==
  ASSUME TypeInv, KeysInv, LineInv, UserInv, ScanInv, LineInv', [Next]_vars
  PROVE  ScanInv'
<1>1. CASE \A p \in Procs : ~Etl(p)
  <2>1. /\ dirs' = dirs
        /\ \A p \in Procs : job'[p].at \in {"scan", "meta", "report", "unlink", "link"} => job'[p] = job[p]
    BY <1>1, OtherDirs
  <2>2. SUFFICES ASSUME NEW q \in Procs, job'[q].at = "scan", dirs'[job'[q].id].users = 1
                 PROVE  Tracks(job[q], dirs[job[q].id])'
    BY DEF ScanInv, At
  <2>3. job'[q] = job[q] /\ At(q, "scan") /\ dirs[job[q].id].users = 1
    BY <2>1, <2>2 DEF At
  <2>4. QED
    BY <2>1, <2>3, TracksGoOn
<1>2. ASSUME NEW p \in Procs, Etl(p) PROVE ScanInv'
  <2>1. lines' = lines
    BY <1>2, EtlJobs
  <2>2. SUFFICES ASSUME NEW q \in Procs, job'[q].at = "scan", dirs'[job'[q].id].users = 1
                 PROVE  Tracks(job[q], dirs[job[q].id])'
    BY DEF ScanInv, At
  <2>3. CASE q # p
    <3>1. job'[q] = job[q]
      BY <1>2, <2>3, EtlJobs
    <3>2. At(q, "scan") /\ InDir(q)
      BY <2>2, <3>1 DEF At, InDir
    <3>3. dirs'[job[q].id] = dirs[job[q].id] /\ dirs[job[q].id].users = 1
      BY <1>2, <2>2, <2>3, <3>1, <3>2, AloneIn
    <3>4. QED
      BY <3>1, <3>2, <3>3, TracksGoOn
  <2>4. CASE q = p /\ StartEtl(p)
    <3>1. /\ job'[p].id = now /\ job'[p].file = 1 /\ job'[p].line = 0
          /\ job'[p].skip = FALSE /\ job'[p].buffer = NoRows
          /\ dirs'[now].due = WholeLines
      BY <2>4, BeginsEtl
    <3>2. now \notin DOMAIN dirs
      BY <2>2, <2>4, <3>1, FreshDir
    <3>3. dirs'[now].parts = NewDir.parts
      BY <2>4, <3>2, BeginsEtl
    <3>4. PICK j, dir : j = job'[p] /\ dir = dirs'[now]
      OBVIOUS
    <3>5. ASSUME NEW d \in dir.due PROVE ~Passed(j, d) /\ d[2] \in ToSet(lines[d[1]]) /\ d[1] \in Files
      <4>1. d[1] \in Files /\ d[2] \in ToSet(lines[d[1]])
        BY <3>1, <3>4, <3>5 DEF WholeLines
      <4>2. QED
        BY <3>1, <3>4, <4>1 DEF Passed, Files
    <3>6. ASSUME NEW d \in dir.due, NEW t \in TablesOf(d[2]) PROVE Tracked(j, dir, d, t)
      <4>1. t \in Tables /\ Ledgers[d[1]] \in Ecosystems
        BY <3>5, LedgerType DEF TablesOf, Tables
      <4>2. j.buffer[t] = <<>> /\ dir.parts[t][Ledgers[d[1]]] = <<>>
        BY <3>1, <3>3, <3>4, <4>1, NoRowsFacts, NewDirFacts
      <4>3. QED
        BY <3>5, <4>2 DEF Tracked, Nowhere, Absent
    <3>7. Tracks(j, dir)
      BY <3>1, <3>4, <3>5, <3>6, LedgerType DEF Tracks
    <3>8. Tracks(j, dir)'
      BY <2>1, <3>7 DEF Tracks, Tracked, Passed
    <3>9. QED
      BY <2>4, <3>1, <3>4, <3>8
  <2>5. CASE q = p /\ ~StartEtl(p)
    <3>1. ScanLine(p)
      <4>1. ~ScanEnds(p)
        BY <2>2, <2>5, EndsScan
      <4>2. ~MetaRow(p)
        BY <2>2, <2>5, TellsArtifact
      <4>3. ~WriteBatchManifest(p) /\ ~Report(p)
        BY <2>2, <2>5, WritesManifest, Reports
      <4>4. ~Unlink(p) /\ ~Link(p)
        BY <2>2, <2>5, Links DEF Idle
      <4>5. QED
        BY <1>2, <2>5, <4>1, <4>2, <4>3, <4>4 DEF Etl
    <3>2. At(p, "scan") /\ job[p] \in Scanning /\ job[p].file \in Files
      BY <3>1, ScanLineCases
    <3>3. PICK j : (TakesLine(p, j) \/ TakesHalf(p, j) \/ TurnsFile(p, j)) /\ Scans(p, j)
      BY <3>1, ScanLineCases
    <3>4. j \in Scanning /\ j.id = job[p].id /\ j.at = job[p].at
      BY <3>2, <3>3, TakesFacts
    <3> DEFINE full == {t \in {"events", "runs"} : Full(j.buffer, t)}
    <3>5. /\ dirs' = [dirs EXCEPT ![job[p].id] = FlushAll(@, j.buffer, full)]
          /\ Becomes(p, [j EXCEPT !.buffer = Without(@, full)])
      BY <3>3, <3>4 DEF Scans
    <3>15. job[p].at \in {"scan", "meta"}
      BY <3>2 DEF At
    <3> HIDE DEF full
    <3>16. job'[p] \in Scanning
      BY <3>4, <3>5, <3>15, BatchStep
    <3>19. job'[p].buffer = Without(j.buffer, full)
      <4>1. job'[p] = [j EXCEPT !.buffer = Without(@, full)]
        BY <3>5 DEF Becomes, TypeInv
      <4>2. QED
        BY <3>4, <4>1 DEF Scanning
    <3>20. job'[p].id = j.id /\ job'[p].file = j.file
      BY ZenonT(40), <3>4, <3>5, <3>15, BatchStep
    <3>21. job'[p].line = j.line
      BY <3>4, <3>5, <3>15, BatchStep
    <3>18. job'[p].skip = j.skip
      BY <3>4, <3>5, <3>15, BatchStep
    <3>17. /\ j.id \in DOMAIN dirs /\ dirs[j.id] \in Dirs
           /\ dirs'[j.id] = FlushAll(dirs[j.id], j.buffer, full)
      BY <3>4, <3>5, <3>15, BatchStep
    <3>6. /\ job'[p] \in Scanning
          /\ job'[p].buffer = Without(j.buffer, full)
          /\ job'[p].id = j.id /\ job'[p].file = j.file
          /\ job'[p].line = j.line /\ job'[p].skip = j.skip
          /\ j.id \in DOMAIN dirs /\ dirs[j.id] \in Dirs
          /\ dirs'[j.id] = FlushAll(dirs[j.id], j.buffer, full)
      BY <3>16, <3>17, <3>18, <3>19, <3>20, <3>21
    <3>7. dirs[j.id].users = 1
      <4>1. j.buffer \in Buffers
        BY <3>4 DEF Scanning
      <4>2. QED
        BY <2>2, <2>5, <3>6, <4>1, FlushAllFacts
    <3>8. Tracks(job[p], dirs[j.id])
      BY <3>2, <3>4, <3>7 DEF ScanInv
    <3>9. Tracks(j, dirs[j.id])
      BY <3>2, <3>3, <3>6, <3>8, ReadTracks
    <3>10. PICK j1, dir1 : j1 = job'[p] /\ dir1 = dirs'[j.id]
      OBVIOUS
    <3>11. Tracks(j1, FlushAll(dirs[j.id], j.buffer, full))
      BY <3>4, <3>6, <3>9, <3>10, FlushTracks
    <3>12. Tracks(j1, dir1)
      BY <3>6, <3>10, <3>11
    <3>13. Tracks(j1, dir1)'
      BY <2>1, <3>12 DEF Tracks, Tracked, Passed
    <3>14. QED
      BY <2>5, <3>6, <3>10, <3>13
  <2>6. QED
    BY <2>3, <2>4, <2>5
<1>3. QED
  BY <1>1, <1>2

\* When the ledgers are read and the rest is flushed, the tables are complete.
LEMMA EndsComplete ==
  ASSUME TypeInv, ScanInv, NEW p \in Procs, ScanEnds(p), dirs[job[p].id].users = 1
  PROVE  Complete(dirs'[job[p].id])
<1> DEFINE o == job[p]  dir == dirs[job[p].id]  tables == {"events", "runs"}
           j == [o EXCEPT !.buffer = Without(@, tables)]
           dir1 == FlushAll(dir, o.buffer, tables)
<1>1. /\ o \in Scanning /\ At(p, "scan") /\ o.file \notin Files /\ dir \in Dirs
      /\ dirs'[job[p].id] = dir1
  BY EndsScan
<1>2. o.buffer \in Buffers /\ dir.due \subseteq Files \X Events /\ o.file \in Nat \ {0}
  BY <1>1 DEF Scanning, Dirs
<1>3. Tracks(o, dir)
  BY <1>1 DEF ScanInv
<1>4. Without(o.buffer, tables) \in Buffers /\ \A t \in tables : Without(o.buffer, tables)[t] = <<>>
  BY <1>2, WithoutFacts DEF Tables
<1>5. /\ j \in Scanning /\ j.buffer = Without(o.buffer, tables)
      /\ j.file = o.file /\ j.line = o.line /\ j.skip = o.skip
  BY <1>1, <1>4 DEF Scanning
<1>6. dir1.due = dir.due
  BY <1>1, <1>2, FlushAllFacts
<1> HIDE DEF o, dir, j, tables, dir1
<1>7. Tracks(j, dir1)
  BY <1>1, <1>3, <1>5, FlushTracks DEF dir1
<1>8. ASSUME NEW d \in dir1.due, NEW t \in TablesOf(d[2]), dir1.flushes[t][Ledgers[d[1]]] = 1
      PROVE  Once(dir1.parts[t][Ledgers[d[1]]], RowOf(d))
  <2>1. d[1] \in 1..Len(Ledgers) /\ Len(Ledgers) \in Nat
    BY <1>2, <1>6, <1>8, LedgerType DEF Files
  <2>2. d[1] < j.file
    BY <1>1, <1>2, <1>5, <2>1 DEF Files
  <2>3. Passed(j, d)
    BY <2>2 DEF Passed
  <2>4. Tracked(j, dir1, d, t)
    BY <1>7, <1>8 DEF Tracks
  <2>5. t \in tables
    BY <1>8 DEF TablesOf, tables
  <2>6. j.buffer[t] = <<>>
    BY <1>4, <1>5, <2>5
  <2>7. Held(<<>>, dir1.parts[t][Ledgers[d[1]]], 1, RowOf(d))
    BY <1>8, <2>3, <2>4, <2>6 DEF Tracked
  <2>8. ~Once(<<>>, RowOf(d))
    BY DEF Once
  <2>9. QED
    BY <2>7, <2>8 DEF Held
<1>9. Complete(dir1)
  BY <1>8 DEF Complete
<1>10. QED
  BY <1>1, <1>9

LEMMA FinishedStep ==
  ASSUME TypeInv, KeysInv, UserInv, ScanInv, FinishedInv, [Next]_vars
  PROVE  FinishedInv'
<1>1. CASE \A p \in Procs : ~Etl(p)
  <2>1. /\ dirs' = dirs
        /\ \A p \in Procs : job'[p].at \in {"scan", "meta", "report", "unlink", "link"} => job'[p] = job[p]
    BY <1>1, OtherDirs
  <2>2. QED
    BY <2>1 DEF FinishedInv, At
<1>2. ASSUME NEW p \in Procs, Etl(p) PROVE FinishedInv'
  <2>1. ASSUME NEW q \in Procs, q # p, job'[q].at \in {"meta", "report"}, dirs'[job'[q].id].users = 1
        PROVE  Complete(dirs'[job'[q].id])
    <3>1. job'[q] = job[q]
      BY <1>2, <2>1, EtlJobs
    <3>2. job[q].at \in {"meta", "report"} /\ InDir(q)
      BY <2>1, <3>1 DEF InDir
    <3>3. dirs'[job[q].id] = dirs[job[q].id] /\ dirs[job[q].id].users = 1
      BY <1>2, <2>1, <3>1, <3>2, AloneIn
    <3>4. QED
      BY <3>1, <3>2, <3>3 DEF FinishedInv
  <2>2. CASE StartEtl(p)
    <3>1. /\ job'[p].at = "scan"
          /\ DOMAIN dirs' = DOMAIN dirs \cup {now}
          /\ \A k \in DOMAIN dirs : k # now => dirs'[k] = dirs[k]
      BY <2>2, BeginsEtl
    <3>2. ASSUME dirs'[now].manifest, dirs'[now].users = 1 PROVE FALSE
      <4>2. now \notin DOMAIN dirs
        BY <2>2, <3>2, FreshDir
      <4>3. ~dirs'[now].manifest
        BY <2>2, <4>2, BeginsEtl, NewDirFacts
      <4>4. QED
        BY <3>2, <4>3
    <3>3. \A k \in DOMAIN dirs' : dirs'[k].manifest /\ dirs'[k].users = 1 => Complete(dirs'[k])
      BY <3>1, <3>2 DEF FinishedInv
    <3>4. \A q \in Procs : job'[q].at \in {"meta", "report"} /\ dirs'[job'[q].id].users = 1 => Complete(dirs'[job'[q].id])
      BY <2>1, <3>1
    <3>5. QED
      BY <3>3, <3>4 DEF FinishedInv, At
  <2>3. CASE ~StartEtl(p)
    <3>1. /\ job[p].id \in DOMAIN dirs
          /\ DOMAIN dirs' = DOMAIN dirs
          /\ \A k \in DOMAIN dirs : dirs'[k].users = dirs[k].users
          /\ \A k \in DOMAIN dirs : k # job[p].id => dirs'[k] = dirs[k]
          /\ ~InDir(p) => dirs' = dirs
          /\ ~Report(p) => (dirs'[job[p].id].manifest => dirs[job[p].id].manifest)
          /\ job'[p].at # "idle" => job'[p].id = job[p].id
          /\ InDir(p)' => InDir(p)
      BY <1>2, <2>3, EtlDirs
    <3>2. InDir(p) /\ dirs[job[p].id].users = 1 => ~dirs[job[p].id].manifest
      BY DEF UserInv
    <3>3. job[p].at \in {"meta", "report"} /\ dirs[job[p].id].users = 1 => Complete(dirs[job[p].id])
      BY DEF FinishedInv
    <3>4. ASSUME job'[p].at \in {"meta", "report"}, dirs'[job'[p].id].users = 1
          PROVE  Complete(dirs'[job'[p].id])
      <4>1. job'[p].id = job[p].id /\ dirs[job[p].id].users = 1
        BY <3>1, <3>4
      <4>2. CASE ScanEnds(p)
        BY <4>1, <4>2, EndsComplete
      <4>3. CASE MetaRow(p)
        <5>1. At(p, "meta") /\ SameTables(dirs'[job[p].id], dirs[job[p].id])
          BY <4>3, TellsArtifact
        <5>2. Complete(dirs[job[p].id])
          BY <3>3, <4>1, <5>1 DEF At
        <5>3. QED
          BY <4>1, <5>1, <5>2, SameComplete
      <4>4. ~ScanLine(p)
        <5>1. SUFFICES ASSUME ScanLine(p) PROVE FALSE
          OBVIOUS
        <5>2. At(p, "scan") /\ job[p] \in Scanning /\ job[p].file \in Files
          BY <5>1, ScanLineCases
        <5>3. PICK j : (TakesLine(p, j) \/ TakesHalf(p, j) \/ TurnsFile(p, j)) /\ Scans(p, j)
          BY <5>1, ScanLineCases
        <5>4. j \in Scanning /\ j.id = job[p].id /\ j.at = job[p].at
          BY <5>2, <5>3, TakesFacts
        <5> DEFINE full == {t \in {"events", "runs"} : Full(j.buffer, t)}
        <5>5. /\ dirs' = [dirs EXCEPT ![job[p].id] = FlushAll(@, j.buffer, full)]
              /\ Becomes(p, [j EXCEPT !.buffer = Without(@, full)])
              /\ job[p].at \in {"scan", "meta"}
          BY <5>2, <5>3, <5>4 DEF Scans, At
        <5> HIDE DEF full
        <5>6. job'[p].at = j.at
          BY ZenonT(40), <5>4, <5>5, BatchStep
        <5>7. QED
          BY <3>4, <5>2, <5>4, <5>6 DEF At
      <4>8. CASE WriteBatchManifest(p)
        <5>1. At(p, "meta") /\ SameTables(dirs'[job[p].id], dirs[job[p].id])
          BY <4>8, WritesManifest
        <5>2. Complete(dirs[job[p].id])
          BY <3>3, <4>1, <5>1 DEF At
        <5>3. QED
          BY <4>1, <5>1, <5>2, SameComplete
      <4>5. ~Report(p)
        BY <3>4, Reports
      <4>6. ~Unlink(p) /\ ~Link(p)
        BY <3>4, Links DEF Idle
      <4>7. QED
        BY <1>2, <2>3, <4>2, <4>3, <4>4, <4>5, <4>6, <4>8 DEF Etl
    <3>5. ASSUME NEW k \in DOMAIN dirs', dirs'[k].manifest, dirs'[k].users = 1
          PROVE  Complete(dirs'[k])
      <4>1. CASE dirs'[k] = dirs[k]
        BY <3>1, <3>5, <4>1 DEF FinishedInv
      <4>2. CASE dirs'[k] # dirs[k]
        <5>1. k = job[p].id /\ InDir(p) /\ dirs[k].users = 1
          BY <3>1, <3>5, <4>2
        <5>2. Report(p)
          BY <3>1, <3>2, <3>5, <5>1
        <5>3. At(p, "report") /\ SameTables(dirs'[job[p].id], dirs[job[p].id])
          BY <5>2, Reports
        <5>4. Complete(dirs[k])
          BY <3>3, <5>1, <5>3 DEF At
        <5>5. QED
          BY <5>1, <5>3, <5>4, SameComplete
      <4>3. QED
        BY <4>1, <4>2
    <3>6. \A q \in Procs : job'[q].at \in {"meta", "report"} /\ dirs'[job'[q].id].users = 1 => Complete(dirs'[job'[q].id])
      BY <2>1, <3>4
    <3>7. QED
      BY <3>5, <3>6 DEF FinishedInv, At
  <2>4. QED
    BY <2>2, <2>3
<1>3. QED
  BY <1>1, <1>2

BatchInv == LineInv /\ UserInv /\ ScanInv /\ FinishedInv

\* A batch that was finished by the only job in its directory has the row of
\* every line it had to read, once, in each part that was flushed once, which a
\* part is not whose rows lie on both sides of a flush; and latest does not lead
\* to a directory of one job that did not finish.
THEOREM BatchIsComplete == Spec => []BatchComplete
<1>1. Init => BatchInv
  <2> SUFFICES ASSUME Init PROVE BatchInv
    OBVIOUS
  <2>1. \A p \in Procs : job[p].at = "idle"
    BY DEF Init, Idle
  <2>2. dirs = <<>> /\ latest = None
    BY DEF Init
  <2>3. UserInv /\ ScanInv /\ FinishedInv
    BY <2>1, <2>2 DEF UserInv, ScanInv, FinishedInv, InDir, At
  <2>4. \A f \in Files : lines[f] = <<>> /\ half[f] = None
    BY DEF Init
  <2>5. ASSUME NEW e \in Events PROVE InOrder(e, 0) /\ 0 \in 0..Len(Into[e])
    <3>1. Into[e] \in Seq(Files) /\ Len(Into[e]) \in Nat
      BY BatchAssumption, LenProperties
    <3>2. \A i \in 1..Len(Into[e]) : Into[e][i] \in Files /\ ~(i <= 0)
      BY <3>1, ElementOfSeq
    <3>3. ToSet(<<>>) = {}
      BY DEF ToSet
    <3>4. QED
      BY <2>4, <3>1, <3>2, <3>3, BatchAssumption DEF InOrder
  <2>6. LineInv
    BY <2>4, <2>5 DEF LineInv
  <2>7. QED
    BY <2>3, <2>6 DEF BatchInv
<1>2. TypeInv /\ KeysInv /\ BatchInv /\ [Next]_vars => BatchInv'
  BY LineStep, UserStep, ScanStep, FinishedStep DEF BatchInv
<1>3. TypeInv /\ BatchInv => BatchComplete
  <2> SUFFICES ASSUME TypeInv, BatchInv PROVE BatchComplete
    OBVIOUS
  <2>1. latest # None /\ dirs[latest].users = 1 => dirs[latest].manifest
    BY DEF BatchInv, UserInv
  <2>2. ASSUME NEW k \in DOMAIN dirs, dirs[k].manifest, dirs[k].users = 1, NEW d \in dirs[k].due,
               NEW t \in TablesOf(d[2]), dirs[k].flushes[t][Ledgers[d[1]]] = 1
        PROVE  Once(dirs[k].parts[t][Ledgers[d[1]]], RowOf(d))
    BY <2>2 DEF BatchInv, FinishedInv, Complete
  <2>3. \A s, r : Once(s, r) => Cardinality({i \in DOMAIN s : s[i] = r}) = 1
    <3>1. ASSUME NEW s, NEW r, Once(s, r) PROVE Cardinality({i \in DOMAIN s : s[i] = r}) = 1
      <4>1. PICK i \in DOMAIN s : s[i] = r /\ \A k \in DOMAIN s : s[k] = r => k = i
        BY <3>1 DEF Once
      <4>2. {k \in DOMAIN s : s[k] = r} = {i}
        BY <4>1
      <4>3. Cardinality({i}) = 1
        BY FS_Singleton
      <4>4. QED
        BY <4>2, <4>3
    <3>2. QED
      BY <3>1
  <2>4. \A s, r : Once(s, r) => r \in ToSet(s)
    BY DEF Once, ToSet
  <2>5. \A e : "events" \in TablesOf(e) /\ (e \in Completed => "runs" \in TablesOf(e))
    BY DEF TablesOf
  <2>6. ASSUME NEW k \in DOMAIN dirs, dirs[k].manifest, dirs[k].users = 1, NEW d \in dirs[k].due
        PROVE  /\ dirs[k].flushes["events"][Ledgers[d[1]]] = 1
                    => Cardinality({i \in DOMAIN dirs[k].parts["events"][Ledgers[d[1]]] :
                                      dirs[k].parts["events"][Ledgers[d[1]]][i] = RowOf(d)}) = 1
               /\ d[2] \in Completed /\ dirs[k].flushes["runs"][Ledgers[d[1]]] = 1
                    => RowOf(d) \in ToSet(dirs[k].parts["runs"][Ledgers[d[1]]])
    <3>1. ASSUME dirs[k].flushes["events"][Ledgers[d[1]]] = 1
          PROVE  Once(dirs[k].parts["events"][Ledgers[d[1]]], RowOf(d))
      BY <2>2, <2>5, <2>6, <3>1
    <3>2. ASSUME d[2] \in Completed, dirs[k].flushes["runs"][Ledgers[d[1]]] = 1
          PROVE  Once(dirs[k].parts["runs"][Ledgers[d[1]]], RowOf(d))
      BY <2>2, <2>5, <2>6, <3>2
    <3>3. QED
      BY <2>3, <2>4, <3>1, <3>2
  <2>7. QED
    BY <2>1, <2>6, Zenon DEF BatchComplete, RowOf
<1>4. QED
  BY <1>1, <1>2, <1>3, TypeCorrect, PTL DEF Spec

-----------------------------------------------------------------------------
(* What an index job found is indexed *)

\* Jobs that do not index leave research alone, and index jobs too.
LEMMA NoIndexStep ==
  ASSUME TypeInv, KeysInv, NEW p \in Procs, Etl(p) \/ Export(p) \/ Undecodable(p)
  PROVE  /\ UNCHANGED <<now, local, writing, known, bundles, manifest>>
         /\ UNCHANGED <<indexed, restored, killed, overlapped>>
         /\ \A q \in Procs : IndexJob(q) \/ IndexJob(q)' => job'[q] = job[q]
<1>1. CASE Etl(p)
  BY <1>1, EtlJobs DEF IndexJob
<1>2. CASE Export(p)
  BY <1>2, ExportJobs DEF IndexJob
<1>3. CASE Undecodable(p)
  <2>1. /\ UNCHANGED <<now, local, writing, known, bundles, manifest>>
        /\ UNCHANGED <<indexed, restored, killed, overlapped>>
        /\ job[p].at \in {"scan", "export"}
    BY <1>3 DEF Undecodable, research, outputs, ghosts, At
  <2>2. job'[p].at = "idle" /\ \A q \in Procs : q # p => job'[q] = job[q]
    BY <1>3, StopJobs
  <2>3. QED
    BY <2>1, <2>2 DEF IndexJob
<1>4. QED
  BY <1>1, <1>2, <1>3

\* A bundle takes the place of another one of its agent and second, and the
\* sidecar gets the names of what is in it.
LEMMA Bundles ==
  ASSUME TypeInv, Sync
  PROVE  /\ now' = now /\ job' = job /\ local' = local
         /\ known \subseteq known'
         /\ \E k0 \in Authors \X {now} :
              /\ DOMAIN bundles' = DOMAIN bundles \cup {k0}
              /\ \A k \in DOMAIN bundles : k # k0 => bundles'[k] = bundles[k] /\ WholeIn(k)' = WholeIn(k)
              /\ DOMAIN bundles'[k0] = known' \ known
              /\ WholeIn(k0)' \subseteq known' \ known
              /\ \A a \in known' \ known : Research[a] = k0[1]
<1>1. PICK agent \in Authors : Bundle(agent)
  BY DEF Sync
<1>2. PICK k0 \in Authors \X {now} : k0 = <<agent, now>> /\ k0[1] = agent
  <2>1. <<agent, now>> \in Authors \X {now} /\ <<agent, now>>[1] = agent
    OBVIOUS
  <2>2. QED
    BY <2>1
<1> DEFINE new == Unbundled(agent)
           m == [a \in new |-> local[a]]
<1>3. /\ now' = now /\ job' = job /\ local' = local
      /\ known' = known \cup new
      /\ bundles' = [k \in DOMAIN bundles \cup {k0} |-> IF k = k0 THEN m ELSE bundles[k]]
  BY <1>1, <1>2 DEF Bundle
<1>4. DOMAIN m = new /\ new \cap known = {} /\ \A a \in new : Research[a] = agent
  BY DEF Unbundled
<1> HIDE DEF new, m
<1>5. /\ DOMAIN bundles' = DOMAIN bundles \cup {k0} /\ bundles'[k0] = m
      /\ \A k \in DOMAIN bundles : k # k0 => bundles'[k] = bundles[k]
  BY <1>3
<1>6. \A k \in DOMAIN bundles : k # k0 => WholeIn(k)' = WholeIn(k)
  BY <1>5 DEF WholeIn
<1>7. WholeIn(k0)' \subseteq DOMAIN bundles'[k0]
  BY DEF WholeIn
<1>8. known' \ known = new
  BY <1>3, <1>4
<1>9. QED
  BY <1>2, <1>3, <1>4, <1>5, <1>6, <1>7, <1>8

LEMMA KnownStep ==
  ASSUME TypeInv, KeysInv, KnownInv, [Next]_vars
  PROVE  KnownInv'
<1>1. CASE UNCHANGED <<now, known, bundles>>
  BY <1>1 DEF KnownInv, Listed
<1>2. CASE Sync
  <2>1. \A k \in DOMAIN bundles : k \in Authors \X Nat /\ k[2] <= now
    BY DEF TypeInv
  <2>2. PICK k0 \in Authors \X {now} :
              /\ DOMAIN bundles' = DOMAIN bundles \cup {k0}
              /\ \A k \in DOMAIN bundles : k # k0 => bundles'[k] = bundles[k]
              /\ DOMAIN bundles'[k0] = known' \ known
              /\ \A a \in known' \ known : Research[a] = k0[1]
    BY <1>2, Bundles
  <2>3. now' = now /\ known \subseteq known' /\ now \in Nat
    BY <1>2, Bundles DEF TypeInv
  <2>4. ASSUME NEW k \in DOMAIN bundles', k # k0
        PROVE  /\ \A a \in DOMAIN bundles'[k] : Research[a] = k[1]
               /\ (\E a \in known' : Research[a] = k[1]) => k[2] < now' \/ DOMAIN bundles'[k] \subseteq known'
    <3>1. k \in DOMAIN bundles /\ bundles'[k] = bundles[k]
      BY <2>2, <2>4
    <3>2. CASE k[1] = k0[1]
      <4>1. k[2] # now
        BY <2>1, <2>4, <3>1, <3>2
      <4>2. k[2] < now
        BY <2>1, <2>3, <3>1, <4>1
      <4>3. QED
        BY <2>3, <3>1, <4>2 DEF KnownInv
    <3>3. CASE k[1] # k0[1]
      <4>1. (\E a \in known' : Research[a] = k[1]) => k \in Listed
        BY <2>2, <2>3, <3>1, <3>3 DEF Listed
      <4>2. QED
        BY <2>3, <3>1, <4>1 DEF KnownInv
    <3>4. QED
      BY <3>2, <3>3
  <2>5. /\ \A a \in DOMAIN bundles'[k0] : Research[a] = k0[1]
        /\ DOMAIN bundles'[k0] \subseteq known'
    BY <2>2
  <2>6. QED
    BY <2>4, <2>5 DEF KnownInv, Listed
<1>3. CASE Tick
  <2>1. now' = now + 1 /\ bundles' = bundles
    BY <1>3 DEF Tick, research
  <2>2. \A k \in DOMAIN bundles : k[2] < now'
    <3>1. \A k \in DOMAIN bundles : k[2] \in 0..now
      BY DEF TypeInv
    <3>2. QED
      BY <2>1, <3>1 DEF TypeInv
  <2>3. QED
    BY <2>1, <2>2 DEF KnownInv
<1>4. CASE NewHost
  <2>1. UNCHANGED <<now, bundles>> /\ (known' = known \/ known' = {})
    BY <1>4 DEF NewHost
  <2>2. QED
    BY <2>1 DEF KnownInv, Listed
<1>5. CASE Agents
  BY <1>1, <1>5 DEF Agents, BeginLine, EndLine, BeginArtifact, EndArtifact, research
<1>6. ASSUME NEW p \in Procs, Etl(p) \/ Export(p) \/ Index(p) \/ Undecodable(p) \/ Kill(p)
      PROVE  UNCHANGED <<now, known, bundles>>
  BY <1>6, EtlJobs, ExportJobs, IndexJobs, StopJobs
<1>7. CASE UNCHANGED vars
  BY <1>1, <1>7 DEF vars, research
<1>8. QED
  BY <1>1, <1>2, <1>3, <1>4, <1>5, <1>6, <1>7 DEF Next

\* What FoundInv says of one job.
JobFinds(j) ==
  /\ j.at = "unpack" => j.todo = {}
  /\ j.at \in {"index", "append"} => j.members = <<>>
  /\ j.at = "append" => j.keys = {}
  /\ \A a \in j.here : local[a] = "whole" /\ (a \in j.entries \/ (j.at = "index" /\ a \in j.todo))
  /\ \A a \in j.there : There(a) /\ Found(j, a)

LEMMA FoundIs == FoundInv <=> \A p \in Procs : IndexJob(p) => JobFinds(job[p])
BY DEF FoundInv, JobFinds, At

\* What a job has found stays found while it stands still.
LEMMA FindsGoOn ==
  ASSUME TypeInv, KeysInv, [Next]_vars, NEW p \in Procs, IndexJob(p), job'[p] = job[p],
         JobFinds(job[p])
  PROVE  JobFinds(job[p])'
<1>1. PICK j : j = job[p]
  OBVIOUS
<1>2. j \in Indexing /\ j.keys \subseteq DOMAIN bundles /\ JobFinds(j)
  BY <1>1, Kinds DEF KeysInv
<1>3. \A a \in j.here : local'[a] = "whole"
  <2>1. j.here \subseteq Artifacts /\ \A a \in j.here : local[a] = "whole"
    BY <1>2 DEF Indexing, JobFinds
  <2>2. job[p].at # "idle"
    BY DEF IndexJob
  <2>3. QED
    BY <2>1, <2>2, WholeStays
<1>4. ASSUME NEW a \in j.there PROVE There(a)' /\ Found(j, a)'
  <2>1. There(a) /\ Found(j, a)
    BY <1>2, <1>4 DEF JobFinds
  <2>2. CASE UNCHANGED <<now, known, bundles>>
    BY <2>1, <2>2 DEF There, Found, WholeIn
  <2>3. CASE Sync
    <3>2. PICK k0 \in Authors \X {now} :
            /\ DOMAIN bundles' = DOMAIN bundles \cup {k0}
            /\ \A k \in DOMAIN bundles : k # k0 => bundles'[k] = bundles[k] /\ WholeIn(k)' = WholeIn(k)
            /\ WholeIn(k0)' \subseteq known' \ known
      BY <2>3, Bundles
    <3>1. now' = now /\ known \subseteq known'
      BY <2>3, Bundles
    <3>3. \A k \in DOMAIN bundles : k[2] < now => k # k0
      BY DEF TypeInv
    <3>4. There(a)'
      BY <2>1, <3>1, <3>2, <3>3 DEF There
    <3>5. CASE a \in j.entries \/ (a \in DOMAIN j.members /\ j.members[a] = "whole")
      BY <3>4, <3>5 DEF Found
    <3>6. CASE \E k \in j.keys : k[2] < now /\ a \in WholeIn(k)
      <4>1. PICK k \in j.keys : k[2] < now /\ a \in WholeIn(k)
        BY <3>6
      <4>2. k[2] < now' /\ a \in WholeIn(k)'
        BY <1>2, <3>1, <3>2, <3>3, <4>1
      <4>3. QED
        BY <3>4, <4>1, <4>2 DEF Found
    <3>7. CASE a \in known /\ \A k \in DOMAIN bundles : a \in WholeIn(k) => k \in j.keys
      <4>1. a \in known' /\ a \notin WholeIn(k0)'
        BY <3>1, <3>2, <3>7
      <4>2. \A k \in DOMAIN bundles' : a \in WholeIn(k)' => k \in j.keys
        BY <3>2, <3>7, <4>1
      <4>3. QED
        BY <3>4, <4>1, <4>2 DEF Found
    <3>8. QED
      BY <2>1, <3>5, <3>6, <3>7 DEF Found
  <2>4. CASE Tick
    <3>1. now' = now + 1 /\ UNCHANGED <<known, bundles>> /\ \A k : WholeIn(k)' = WholeIn(k)
      BY <2>4 DEF Tick, research, WholeIn
    <3>2. \A k \in DOMAIN bundles : k[2] < now => k[2] < now'
      <4>1. \A k \in DOMAIN bundles : k[2] \in 0..now
        BY DEF TypeInv
      <4>2. QED
        BY <3>1, <4>1 DEF TypeInv
    <3>3. There(a)'
      BY <2>1, <3>1, <3>2 DEF There
    <3>4. Found(j, a)'
      BY <1>2, <2>1, <3>1, <3>2 DEF Found
    <3>5. QED
      BY <3>3, <3>4
  <2>5. CASE NewHost
    BY <2>5 DEF NewHost, Active, At, IndexJob
  <2>6. CASE Agents
    BY <2>2, <2>6 DEF Agents, BeginLine, EndLine, BeginArtifact, EndArtifact, research
  <2>7. ASSUME NEW q \in Procs, Etl(q) \/ Export(q) \/ Index(q) \/ Undecodable(q) \/ Kill(q)
        PROVE  UNCHANGED <<now, known, bundles>>
    BY <2>7, EtlJobs, ExportJobs, IndexJobs, StopJobs
  <2>8. CASE UNCHANGED vars
    BY <2>2, <2>8 DEF vars, research
  <2>9. QED
    BY <2>2, <2>3, <2>4, <2>5, <2>6, <2>7, <2>8 DEF Next
<1>5. JobFinds(j)'
  BY <1>2, <1>3, <1>4 DEF JobFinds
<1>6. QED
  BY <1>1, <1>5

\* A job that starts has everything still to read.
LEMMA FindsAtFirst ==
  ASSUME TypeInv, KeysInv, KnownInv, NEW p \in Procs, StartIndex(p)
  PROVE  JobFinds(job[p])'
<1>1. PICK j : j = job'[p]
  OBVIOUS
<1>2. /\ j.at = "index" /\ j.todo = Present
      /\ j.keys = {} \/ j.keys = Listed
      /\ j.members = <<>> /\ j.entries = {}
      /\ j.here = {a \in Artifacts : local[a] = "whole"}
      /\ j.there = UNION {WholeIn(k) : k \in j.keys}
  BY <1>1, BeginsIndex
<1>3. UNCHANGED <<now, local, known, bundles>>
  BY DEF StartIndex, research
<1>4. \A a \in j.here : local[a] = "whole" /\ a \in j.todo
  BY <1>2, BatchAssumption DEF Present
<1>5. ASSUME NEW a \in j.there PROVE There(a) /\ Found(j, a)
  <2>1. PICK k \in j.keys : a \in WholeIn(k)
    BY <1>2, <1>5
  <2>2. j.keys = Listed /\ k \in Listed /\ k \in DOMAIN bundles /\ a \in DOMAIN bundles[k]
    BY <1>2, <2>1 DEF WholeIn, Listed
  <2>3. CASE k[2] < now
    BY <2>1, <2>2, <2>3 DEF There, Found
  <2>4. CASE DOMAIN bundles[k] \subseteq known
    <3>1. a \in known
      BY <2>2, <2>4
    <3>2. \A i \in DOMAIN bundles : a \in WholeIn(i) => i \in Listed
      BY <3>1 DEF KnownInv, WholeIn, Listed
    <3>3. QED
      BY <2>2, <3>1, <3>2 DEF There, Found
  <2>5. QED
    BY <2>2, <2>3, <2>4 DEF KnownInv
<1>6. JobFinds(j)
  BY <1>2, <1>4, <1>5 DEF JobFinds
<1>7. JobFinds(j)'
  BY <1>3, <1>6 DEF JobFinds, There, Found, WholeIn
<1>8. QED
  BY <1>1, <1>7

\* A job that goes on finds what it had to find, or has it still to read.
LEMMA FindsOn ==
  ASSUME TypeInv, KeysInv, [Next]_vars, NEW p \in Procs, IndexJob(p), JobFinds(job[p]),
         IndexLocal(p) \/ Fetch(p) \/ Unpack(p) \/ Restore(p) \/ ReadManifest(p)
  PROVE  JobFinds(job[p])'
<1>1. PICK o, j : o = job[p] /\ j = job'[p]
  OBVIOUS
<1>2. o \in Indexing /\ o.keys \subseteq DOMAIN bundles /\ JobFinds(o)
  BY <1>1, Kinds DEF KeysInv
<1>3. UNCHANGED <<now, known, bundles>>
  BY DEF IndexLocal, Fetch, Unpack, Restore, ReadManifest, research
<1>4. \A a \in o.here : local'[a] = "whole"
  <2>1. o.here \subseteq Artifacts /\ \A a \in o.here : local[a] = "whole"
    BY <1>2 DEF Indexing, JobFinds
  <2>2. job[p].at # "idle"
    BY DEF IndexJob
  <2>3. QED
    BY <2>1, <2>2, WholeStays
<1>5. \A a \in o.there : There(a) /\ Found(o, a)
  BY <1>2 DEF JobFinds
<1>6. \A a \in o.here : a \in o.entries \/ (o.at = "index" /\ a \in o.todo)
  BY <1>2 DEF JobFinds
<1>7. ASSUME j.at = "unpack" => j.todo = {},
             j.at \in {"index", "append"} => j.members = <<>>,
             j.at = "append" => j.keys = {},
             j.here = o.here, j.there \subseteq o.there,
             \A a \in o.here : a \in j.entries \/ (j.at = "index" /\ a \in j.todo),
             \A a \in j.there : Found(j, a)
      PROVE  JobFinds(job[p])'
  <2>1. \A a \in j.there : There(a)
    BY <1>5, <1>7 DEF There
  <2>2. \A a \in j.there : There(a)' /\ Found(j, a)'
    BY <1>3, <1>7, <2>1 DEF There, Found, WholeIn
  <2>3. JobFinds(j)'
    BY <1>4, <1>7, <2>2 DEF JobFinds
  <2>4. QED
    BY <1>1, <2>3
<1>8. CASE IndexLocal(p)
  <2>1. /\ o.at = "index" /\ j.at = "index"
        /\ j.keys = o.keys /\ j.members = o.members /\ j.there = o.there /\ j.here = o.here
    BY <1>1, <1>8, IndexesLocal DEF At, SameIndex
  <2>2. PICK a \in o.todo : /\ j.todo = o.todo \ {a}
                            /\ j.entries = IF local[a] = "whole" THEN o.entries \cup {a} ELSE o.entries
    BY <1>1, <1>8, IndexesLocal
  <2>3. o.members = <<>> /\ \A b \in o.here : local[b] = "whole"
    BY <1>2, <2>1 DEF JobFinds
  <2>4. \A b \in j.there : Found(j, b)
    BY <1>5, <2>1, <2>2 DEF Found
  <2>5. \A b \in o.here : b \in j.entries \/ (j.at = "index" /\ b \in j.todo)
    BY <1>6, <2>1, <2>2, <2>3
  <2>6. QED
    BY <1>7, <2>1, <2>3, <2>4, <2>5
<1>9. CASE Fetch(p)
  <2>1. /\ o.at \in {"index", "unpack"} /\ o.members = <<>>
        /\ o.at = "index" => o.todo = {}
        /\ j.at = "unpack" /\ j.todo = o.todo
        /\ j.entries = o.entries /\ j.here = o.here /\ j.there \subseteq o.there
    BY <1>1, <1>2, <1>9, Fetches DEF At, SameIndex
  <2>2. PICK k \in o.keys :
          /\ j.keys = o.keys \ {k}
          /\ \/ j.members = bundles[k] /\ j.there = o.there
             \/ j.members = <<>> /\ j.there = o.there \ WholeIn(k)
    BY <1>1, <1>2, <1>9, Fetches
  <2>3. j.todo = {}
    BY <1>2, <2>1 DEF JobFinds
  <2>4. ASSUME NEW a \in j.there PROVE Found(j, a)
    <3>1. Found(o, a)
      BY <1>5, <2>1, <2>4
    <3>2. a \notin DOMAIN o.members
      BY <2>1
    <3>3. CASE a \in WholeIn(k)
      <4>1. j.members = bundles[k]
        BY <2>2, <2>4, <3>3
      <4>2. QED
        BY <3>3, <4>1 DEF Found, WholeIn
    <3>4. CASE a \notin WholeIn(k)
      BY <2>1, <2>2, <3>1, <3>2, <3>4 DEF Found
    <3>5. QED
      BY <3>3, <3>4
  <2>5. \A a \in o.here : a \in j.entries
    BY <1>6, <2>1
  <2>6. QED
    BY <1>7, <2>1, <2>3, <2>4, <2>5
<1>10. CASE Unpack(p)
  <2>1. /\ o.at = "unpack" /\ j.keys = o.keys /\ j.there = o.there /\ j.here = o.here
    BY <1>1, <1>10, Unpacks DEF At, SameIndex
  <2>2. PICK a \in DOMAIN o.members :
              /\ j.members = Dropped(o.members, a)
              /\ j.entries = IF o.members[a] = "whole" THEN o.entries \cup {a} ELSE o.entries
              /\ \/ j.at = "restore" 
                 \/ j.at = "unpack" /\ j.todo = {}
    BY <1>1, <1>10, Unpacks
  <2>3. o.members \in Members
    BY <1>2 DEF Indexing
  <2>4. /\ DOMAIN j.members = DOMAIN o.members \ {a}
        /\ \A b \in DOMAIN o.members \ {a} : j.members[b] = o.members[b]
    BY <2>2, <2>3, MembersFacts
  <2>5. ASSUME NEW b \in j.there PROVE Found(j, b)
    <3>1. Found(o, b)
      BY <1>5, <2>1, <2>5
    <3>2. CASE b \in DOMAIN o.members /\ o.members[b] = "whole"
      <4>1. b = a => b \in j.entries
        BY <2>2, <3>2
      <4>2. b # a => b \in DOMAIN j.members /\ j.members[b] = "whole"
        BY <2>4, <3>2
      <4>3. QED
        BY <4>1, <4>2 DEF Found
    <3>3. CASE b \in o.entries
      BY <2>2, <3>3 DEF Found
    <3>4. CASE \/ \E k \in o.keys : k[2] < now /\ b \in WholeIn(k)
               \/ b \in known /\ \A k \in DOMAIN bundles : b \in WholeIn(k) => k \in o.keys
      BY <2>1, <3>4 DEF Found
    <3>5. QED
      BY <3>1, <3>2, <3>3, <3>4 DEF Found
  <2>6. \A b \in o.here : b \in j.entries
    BY <1>6, <2>1, <2>2
  <2>7. j.at # "index" /\ j.at # "append"
    BY <2>2
  <2>8. j.at = "unpack" => j.todo = {}
    BY <2>2
  <2>9. QED
    BY <1>7, <2>1, <2>5, <2>6, <2>7, <2>8
<1>11. CASE Restore(p)
  <2>1. /\ o.at = "restore" /\ j.at = "unpack" /\ j.todo = {}
        /\ j.entries = o.entries /\ j.members = o.members
        /\ j.keys = o.keys /\ j.there = o.there /\ j.here = o.here
    BY <1>1, <1>11, Restores DEF At, SameIndex
  <2>2. \A a \in j.there : Found(j, a)
    BY <1>5, <2>1 DEF Found
  <2>3. QED
    BY <1>6, <1>7, <2>1, <2>2
<1>12. CASE ReadManifest(p)
  <2>1. /\ o.at \in {"index", "unpack"} /\ o.todo = {} /\ o.keys = {} /\ o.members = <<>>
        /\ j.at = "append" /\ j.todo = {} /\ j.keys = {}
        /\ j.entries = o.entries /\ j.members = <<>>
        /\ j.there = o.there /\ j.here = o.here
    BY <1>1, <1>12, ReadsManifest DEF SameIndex
  <2>2. \A a \in j.there : Found(j, a)
    BY <1>5, <2>1 DEF Found
  <2>3. QED
    BY <1>6, <1>7, <2>1, <2>2
<1>13. QED
  BY <1>8, <1>9, <1>10, <1>11, <1>12

LEMMA FoundStep ==
  ASSUME TypeInv, KeysInv, KnownInv, FoundInv, [Next]_vars
  PROVE  FoundInv'
<1>1. \A p \in Procs : IndexJob(p) => JobFinds(job[p])
  BY FoundIs
<1>2. SUFFICES ASSUME NEW q \in Procs, IndexJob(q)' PROVE JobFinds(job[q])'
  <2>1. \A p \in Procs : IndexJob(p)' => JobFinds(job[p])'
    BY <1>2
  <2>2. QED
    BY <2>1 DEF FoundInv, JobFinds, At
<1>3. CASE job'[q] = job[q]
  <2>1. IndexJob(q)
    BY <1>2, <1>3 DEF IndexJob
  <2>2. QED
    BY <1>1, <1>3, <2>1, FindsGoOn
<1>4. CASE job'[q] # job[q]
  <2>1. Index(q)
    <3>1. ~(Agents \/ Sync \/ Tick \/ NewHost) /\ ~UNCHANGED vars
      BY <1>4, AgentJobs DEF vars
    <3>2. PICK p \in Procs : Etl(p) \/ Export(p) \/ Index(p) \/ Undecodable(p) \/ Kill(p)
      BY <3>1 DEF Next
    <3>3. ~(Etl(p) \/ Export(p) \/ Undecodable(p))
      BY <1>2, <1>4, NoIndexStep
    <3>4. ~Kill(p)
      BY <1>2, <1>4, StopJobs DEF IndexJob
    <3>5. p = q
      BY <1>4, <3>2, <3>3, <3>4, IndexJobs
    <3>6. QED
      BY <3>2, <3>3, <3>4, <3>5
  <2>2. CASE StartIndex(q)
    BY <2>2, FindsAtFirst
  <2>3. CASE AppendManifest(q)
    BY <1>2, <2>3, EndsJob DEF AppendManifest, IndexJob, Idle
  <2>4. CASE IndexLocal(q) \/ Fetch(q) \/ Unpack(q) \/ Restore(q) \/ ReadManifest(q)
    <3>1. IndexJob(q)
      BY <2>4 DEF IndexLocal, Fetch, Unpack, Restore, ReadManifest, At, IndexJob
    <3>2. QED
      BY <1>1, <2>4, <3>1, FindsOn
  <2>5. QED
    BY <2>1, <2>2, <2>3, <2>4 DEF Index
<1>5. QED
  BY <1>3, <1>4

-----------------------------------------------------------------------------
(* The manifest *)

\* With its last bundle unpacked, a job found all it had to find.
LEMMA FindsAll ==
  ASSUME TypeInv, FoundInv, NEW p \in Procs, At(p, "append")
  PROVE  /\ job[p].here \subseteq job[p].entries
         /\ job[p].there \cap UNION {WholeIn(k) : k \in DOMAIN bundles} \subseteq job[p].entries
<1>1. PICK j : j = job[p]
  OBVIOUS
<1>2. JobFinds(j) /\ j.at = "append"
  BY <1>1, FoundIs DEF At, IndexJob
<1>3. j.members = <<>> /\ j.keys = {}
  BY <1>2 DEF JobFinds
<1>4. j.here \subseteq j.entries
  BY <1>2 DEF JobFinds
<1>5. ASSUME NEW a \in j.there, NEW k \in DOMAIN bundles, a \in WholeIn(k)
      PROVE  a \in j.entries
  <2>1. Found(j, a)
    BY <1>2, <1>5 DEF JobFinds
  <2>2. a \notin DOMAIN j.members
    BY <1>3, NoMembers
  <2>3. QED
    BY <1>3, <1>5, <2>1, <2>2 DEF Found
<1>6. QED
  BY <1>1, <1>4, <1>5

\* Rows take from the manifest what could be read of the lines they garble.
LEMMA GrowsKeeps ==
  ASSUME TypeInv, NEW rows \in Seq(Artifacts), rows # <<>>, Grows(rows, manifest')
  PROVE  Readable \ Garbled(rows) \subseteq Readable'
<1>1. manifest \in Seq(Line)
  BY DEF TypeInv
<1>2. PICK m : m = manifest'
  OBVIOUS
<1>3. /\ m \in Seq(Line) /\ Len(m) = Base + Len(rows)
      /\ \A i \in 1..Base : m[i] = manifest[i]
  BY <1>2 DEF Grows
<1>4. /\ Len(manifest) \in Nat /\ Base \in Nat
      /\ Ended => Base = Len(manifest)
      /\ ~Ended => Len(manifest) = Base + 1 /\ Last(manifest) = manifest[Base + 1]
  BY <1>1, LastLine
<1>5. Garbled(rows) = IF Ended THEN {} ELSE {rows[1], Last(manifest).of}
  BY <1>1, AppendedFacts
<1>6. Len(rows) \in Nat /\ DOMAIN m = 1..Len(m) /\ DOMAIN manifest = 1..Len(manifest)
  BY <1>1, <1>3, LenProperties
<1>7. ASSUME NEW i \in DOMAIN manifest, manifest[i].is \in {"row", "open"}, manifest[i].of \notin Garbled(rows)
      PROVE  i \in DOMAIN m /\ m[i] = manifest[i]
  <2>1. i \in 1..Base
    <3>1. CASE Ended
      BY <1>4, <1>6, <1>7, <3>1
    <3>2. CASE ~Ended
      <4>1. i # Base + 1
        BY <1>4, <1>5, <1>7, <3>2
      <4>2. QED
        BY <1>4, <1>6, <1>7, <3>2, <4>1
    <3>3. QED
      BY <3>1, <3>2
  <2>2. m[i] = manifest[i]
    BY <1>3, <2>1
  <2>3. Len(rows) \in Nat /\ Base \in Nat /\ Len(m) = Base + Len(rows) /\ DOMAIN m = 1..Len(m)
    BY <1>3, <1>4, <1>6
  <2>4. ASSUME NEW n \in Nat, NEW k \in Nat PROVE 1..n \subseteq 1..(n + k)
    OBVIOUS
  <2> DEFINE b == Base  k == Len(rows)
  <2>7. b \in Nat /\ k \in Nat /\ i \in 1..b /\ DOMAIN m = 1..(b + k)
    BY <2>1, <2>3
  <2> HIDE DEF b, k
  <2>5. i \in DOMAIN m
    BY <2>4, <2>7
  <2>6. QED
    BY <2>2, <2>5
<1>8. QED
  BY <1>2, <1>7 DEF Readable

LEMMA GrowsOnce ==
  ASSUME TypeInv, OneRow, NEW rows \in Seq(Artifacts), Grows(rows, manifest'),
         \A i \in 1..Len(rows) : rows[i] \notin Readable,
         \A i, k \in 1..Len(rows) : rows[i] = rows[k] => i = k
  PROVE  OneRow'
<1>1. manifest \in Seq(Line)
  BY DEF TypeInv
<1>2. PICK m : m = manifest'
  OBVIOUS
<1>3. /\ m \in Seq(Line) /\ Len(m) = Base + Len(rows)
      /\ \A i \in 1..Base : m[i] = manifest[i]
      /\ \A i \in 1..Len(rows) : m[Base + i].of = rows[i]
  BY <1>2 DEF Grows
<1>4. Len(manifest) \in Nat /\ Base \in Nat /\ Base <= Len(manifest)
  BY <1>1, LastLine
<1>5. Len(rows) \in Nat /\ DOMAIN m = 1..Len(m) /\ DOMAIN manifest = 1..Len(manifest)
  BY <1>1, <1>3, LenProperties
<1> DEFINE R == {i \in DOMAIN m : m[i].is \in {"row", "open"}}
<1>6. ASSUME NEW i \in R, i <= Base
      PROVE  i \in ReadableAt /\ m[i] = manifest[i] /\ m[i].of \in Readable
  <2>1. i \in 1..Base /\ i \in DOMAIN manifest
    BY <1>3, <1>4, <1>5, <1>6
  <2>2. m[i] = manifest[i]
    BY <1>3, <2>1
  <2>3. QED
    BY <1>6, <2>1, <2>2 DEF ReadableAt, Readable
<1>7. ASSUME NEW i \in R, ~(i <= Base)
      PROVE  i - Base \in 1..Len(rows) /\ m[i].of = rows[i - Base] /\ m[i].of \notin Readable
  <2>1. i - Base \in 1..Len(rows) /\ Base + (i - Base) = i
    BY <1>3, <1>4, <1>5, <1>7
  <2>2. m[Base + (i - Base)].of = rows[i - Base]
    BY <1>3, <2>1
  <2>3. QED
    BY <2>1, <2>2
<1>8. R \subseteq Int
  BY <1>3, <1>4, <1>5
<1> HIDE DEF R
<1>9. ASSUME NEW i \in R, NEW k \in R, m[i].of = m[k].of PROVE i = k
  <2>1. CASE i <= Base /\ k <= Base
    BY <1>6, <1>9, <2>1 DEF OneRow
  <2>2. CASE ~(i <= Base) /\ ~(k <= Base)
    <3>1. i - Base = k - Base
      BY <1>7, <1>9, <2>2
    <3>2. QED
      BY <1>4, <1>8, <1>9, <3>1
  <2>3. CASE (i <= Base) # (k <= Base)
    BY <1>6, <1>7, <1>9, <2>3
  <2>4. QED
    BY <2>1, <2>2, <2>3
<1>10. QED
  BY <1>2, <1>9 DEF OneRow, ReadableAt, R

\* What is appended is in the manifest, unless it is garbled.
LEMMA AppendKeeps ==
  ASSUME TypeInv, FoundInv, ManifestInv, NEW p \in Procs, AppendManifest(p)
  PROVE  /\ indexed' \subseteq Readable'
         /\ OneRow /\ job[p].had = Readable => OneRow'
<1>1. At(p, "append") /\ IsFiniteSet(job[p].entries)
  BY DEF AppendManifest, TypeInv, At
<1>2. PICK rows : rows = NewRows(p)
  OBVIOUS
<1>3. /\ rows \in Seq(Artifacts)
      /\ \A i \in 1..Len(rows) : rows[i] \in job[p].entries \ job[p].had
      /\ \A i, k \in 1..Len(rows) : rows[i] = rows[k] => i = k
      /\ \A a \in job[p].entries \ job[p].had : \E i \in 1..Len(rows) : rows[i] = a
  BY <1>1, <1>2, NewRowsFacts
<1>4. manifest' = Appended(rows)
  BY <1>2 DEF AppendManifest
<1>5. \A a \in indexed' : /\ a \in Readable \/ a \in job[p].entries
                          /\ a \notin Garbled(rows) /\ a \notin Gone(p)
  BY <1>1, <1>2, FindsAll DEF AppendManifest, ManifestInv
<1>6. \A a \in indexed' : a \in Readable \/ \E i \in 1..Len(rows) : rows[i] = a
  BY <1>3, <1>5 DEF Gone
<1>7. CASE rows = <<>>
  <2>1. manifest' = manifest
    BY <1>1, <1>2, <1>4, <1>7, AppendGrows
  <2>2. Readable' = Readable /\ (OneRow <=> OneRow')
    BY <2>1 DEF Readable, OneRow, ReadableAt
  <2>3. \A i \in 1..Len(rows) : FALSE
    BY <1>7
  <2>4. QED
    BY <1>6, <2>2, <2>3
<1>8. CASE rows # <<>>
  <2>1. PICK m : m = manifest'
    OBVIOUS
  <2>2. /\ Grows(rows, m)
        /\ \A i \in 1..Len(rows) : i # 1 \/ Ended => m[Base + i].is = "row"
    BY <1>1, <1>2, <1>4, <1>8, <2>1, AppendGrows
  <2>3. Readable \ Garbled(rows) \subseteq Readable'
    BY <1>3, <1>8, <2>1, <2>2, GrowsKeeps
  <2>4. ASSUME NEW i \in 1..Len(rows), rows[i] \notin Garbled(rows)
        PROVE  rows[i] \in Readable'
    <3>1. manifest \in Seq(Line)
      BY DEF TypeInv
    <3>2. Garbled(rows) = IF Ended THEN {} ELSE {rows[1], Last(manifest).of}
      BY <1>3, <1>8, <3>1, AppendedFacts
    <3>3. m[Base + i].is = "row" /\ m[Base + i].of = rows[i]
      BY <2>2, <2>4, <3>2 DEF Grows
    <3>4. Base + i \in DOMAIN m
      <4>1. m \in Seq(Line) /\ Len(m) = Base + Len(rows)
        BY <2>2 DEF Grows
      <4>2. Base \in Nat /\ Len(rows) \in Nat /\ DOMAIN m = 1..Len(m)
        BY <1>3, <3>1, <4>1, LastLine, LenProperties
      <4>3. QED
        BY <4>1, <4>2
    <3>5. QED
      BY <2>1, <3>3, <3>4 DEF Readable
  <2>5. indexed' \subseteq Readable'
    BY <1>5, <1>6, <2>3, <2>4
  <2>6. ASSUME OneRow, job[p].had = Readable PROVE OneRow'
    BY <1>3, <2>1, <2>2, <2>6, GrowsOnce
  <2>7. QED
    BY <2>5, <2>6
<1>9. QED
  BY <1>7, <1>8

\* What a killed job leaves keeps what it does not garble.
LEMMA KillKeeps ==
  ASSUME TypeInv, ManifestInv, NEW p \in Procs, Kill(p)
  PROVE  /\ indexed' \subseteq Readable'
         /\ OneRow /\ (At(p, "append") => job[p].had = Readable) => OneRow'
<1>1. CASE UNCHANGED <<manifest, indexed>>
  BY <1>1 DEF ManifestInv, Readable, OneRow, ReadableAt
<1>2. CASE /\ At(p, "append")
           /\ \E n \in DOMAIN NewRows(p), cut \in {"half", "open", "row"} :
                LET rows == SubSeq(NewRows(p), 1, n) IN
                IsCut(manifest', rows, cut) /\ indexed' = indexed \ Garbled(rows)
  <2>1. PICK n \in DOMAIN NewRows(p), cut \in {"half", "open", "row"} :
          IsCut(manifest', SubSeq(NewRows(p), 1, n), cut) /\ indexed' = indexed \ Garbled(SubSeq(NewRows(p), 1, n))
    BY <1>2
  <2>2. PICK m, rows : m = manifest' /\ rows = SubSeq(NewRows(p), 1, n)
    OBVIOUS
  <2>3. IsFiniteSet(job[p].entries) /\ At(p, "append")
    BY <1>2 DEF TypeInv, At
  <2>4. IsCut(m, rows, cut)
    BY <2>1, <2>2
  <2>5. rows = SubSeq(NewRows(p), 1, n)
    BY <2>2
  <2>6. Grows(rows, m)
    BY <2>3, <2>4, <2>5, CutGrows, Zenon
  <2>7. AreNew(p, rows)
    BY <2>3, <2>5, CutOnce, Zenon
  <2>8. Readable \ Garbled(rows) \subseteq Readable'
    BY <2>2, <2>6, <2>7, GrowsKeeps DEF AreNew
  <2>9. indexed' \subseteq Readable'
    BY <2>1, <2>5, <2>8 DEF ManifestInv
  <2>10. ASSUME OneRow, job[p].had = Readable PROVE OneRow'
    BY <2>2, <2>6, <2>7, <2>10, GrowsOnce DEF AreNew
  <2>11. QED
    BY <2>3, <2>9, <2>10
<1>3. QED
  BY <1>1, <1>2 DEF Kill, IsCut

\* The jobs that index are those there were, but for one that starts.
LEMMA IndexJobsStay ==
  ASSUME TypeInv, KeysInv, [Next]_vars, ~overlapped'
  PROVE  /\ ~overlapped
         /\ \A p, q \in Procs : IndexJob(p)' /\ ~IndexJob(p) /\ IndexJob(q)' => p = q
<1>1. CASE Agents \/ Sync \/ Tick \/ NewHost
  BY <1>1, AgentJobs DEF IndexJob
<1>2. ASSUME NEW p \in Procs, Etl(p) \/ Export(p) \/ Undecodable(p)
      PROVE  overlapped' = overlapped /\ \A q \in Procs : IndexJob(q)' => IndexJob(q)
  BY <1>2, NoIndexStep DEF IndexJob
<1>3. ASSUME NEW p \in Procs, Kill(p)
      PROVE  overlapped' = overlapped /\ \A q \in Procs : IndexJob(q)' => IndexJob(q)
  BY <1>3, StopJobs DEF IndexJob
<1>4. ASSUME NEW p \in Procs, Index(p), ~StartIndex(p)
      PROVE  overlapped' = overlapped /\ \A q \in Procs : IndexJob(q)' => IndexJob(q)
  <2>1. IndexJob(p)
    BY <1>4 DEF Index, IndexLocal, Fetch, Unpack, Restore, ReadManifest, AppendManifest, At, IndexJob
  <2>2. overlapped' = overlapped
    BY <1>4 DEF Index, IndexLocal, Fetch, Unpack, Restore, ReadManifest, AppendManifest, ghosts
  <2>3. QED
    BY <1>4, <2>1, <2>2, IndexJobs DEF IndexJob
<1>5. ASSUME NEW p \in Procs, StartIndex(p)
      PROVE  ~overlapped /\ \A r, q \in Procs : IndexJob(r)' /\ ~IndexJob(r) /\ IndexJob(q)' => r = q
  <2>1. ~overlapped /\ \A q \in Procs : ~IndexJob(q)
    BY <1>5 DEF StartIndex, IndexJob
  <2>2. \A q \in Procs : q # p => job'[q] = job[q]
    BY <1>5, BeginsIndex
  <2>3. QED
    BY <2>1, <2>2 DEF IndexJob
<1>6. CASE UNCHANGED vars
  BY <1>6 DEF vars, ghosts, IndexJob
<1>7. QED
  BY <1>1, <1>2, <1>3, <1>4, <1>5, <1>6 DEF Next

LEMMA ManifestStep ==
  ASSUME TypeInv, KeysInv, FoundInv, ManifestInv, [Next]_vars
  PROVE  ManifestInv'
<1>1. ASSUME ~overlapped'
      PROVE  /\ ~overlapped /\ OneRow
             /\ \A p, q \in Procs : IndexJob(p)' /\ IndexJob(q)' => p = q
             /\ \A p \in Procs : At(p, "append") => job[p].had = Readable
             /\ \A p, q \in Procs : IndexJob(p) /\ IndexJob(q) => p = q
  BY <1>1, IndexJobsStay DEF ManifestInv
<1>2. ASSUME indexed' \subseteq Readable',
             ~overlapped' => OneRow',
             ~overlapped' => \A p \in Procs : At(p, "append")' => job'[p].had = Readable'
      PROVE  ManifestInv'
  BY <1>1, <1>2 DEF ManifestInv
<1>3. ASSUME UNCHANGED <<manifest, indexed>>,
             \A p \in Procs : At(p, "append")' => job'[p] = job[p] \/ job'[p].had = Readable
      PROVE  ManifestInv'
  <2>1. Readable' = Readable /\ (OneRow' <=> OneRow)
    BY <1>3 DEF Readable, OneRow, ReadableAt
  <2>2. ASSUME ~overlapped', NEW p \in Procs, At(p, "append")' PROVE job'[p].had = Readable'
    BY <1>1, <1>3, <2>1, <2>2 DEF At
  <2>3. indexed' \subseteq Readable'
    BY <1>3, <2>1 DEF ManifestInv
  <2>4. QED
    BY <1>1, <1>2, <2>1, <2>2, <2>3
<1>4. CASE (Agents \/ Sync \/ Tick) /\ ~NewHost
  BY <1>3, <1>4, AgentJobs
<1>5. CASE NewHost
  <2>1. job' = job /\ \A p \in Procs : ~At(p, "append")
    BY <1>5 DEF NewHost, Active, At
  <2>2. CASE UNCHANGED <<manifest, indexed>>
    BY <1>3, <2>1, <2>2
  <2>3. CASE manifest' = <<>> /\ indexed' = {}
    <3>1. OneRow'
      BY <2>3 DEF OneRow, ReadableAt
    <3>2. QED
      BY <1>2, <2>1, <2>3, <3>1 DEF At
  <2>4. QED
    BY <1>5, <2>2, <2>3 DEF NewHost
<1>6. ASSUME NEW p \in Procs, Etl(p) \/ Export(p) \/ Undecodable(p)
      PROVE  ManifestInv'
  <2>1. UNCHANGED <<manifest, indexed>> /\ \A q \in Procs : IndexJob(q)' => job'[q] = job[q]
    BY <1>6, NoIndexStep
  <2>2. \A q \in Procs : At(q, "append")' => IndexJob(q)'
    BY DEF At, IndexJob
  <2>3. QED
    BY <1>3, <2>1, <2>2
<1>7. ASSUME NEW p \in Procs, At(p, "append"), Becomes(p, Idle),
             indexed' \subseteq Readable',
             OneRow /\ job[p].had = Readable => OneRow'
      PROVE  ManifestInv'
  <2>1. job'[p].at = "idle" /\ \A q \in Procs : q # p => job'[q] = job[q]
    BY <1>7, EndsJob DEF Idle
  <2>2. ASSUME ~overlapped', NEW q \in Procs PROVE ~At(q, "append")'
    BY <1>1, <1>7, <2>1, <2>2 DEF At, IndexJob
  <2>3. QED
    BY <1>1, <1>2, <1>7, <2>2
<1>8. ASSUME NEW p \in Procs, Kill(p)
      PROVE  ManifestInv'
  <2>1. CASE At(p, "append")
    <3>1. Becomes(p, Idle)
      BY <1>8 DEF Kill
    <3>2. QED
      BY <1>7, <1>8, <2>1, <3>1, KillKeeps
  <2>2. CASE ~At(p, "append")
    <3>1. UNCHANGED <<manifest, indexed>> /\ job'[p].at = "idle" /\ \A q \in Procs : q # p => job'[q] = job[q]
      BY <1>8, <2>2, StopJobs DEF At
    <3>2. QED
      BY <1>3, <3>1 DEF At
  <2>3. QED
    BY <2>1, <2>2
<1>9. ASSUME NEW p \in Procs, AppendManifest(p)
      PROVE  ManifestInv'
  <2>1. At(p, "append") /\ Becomes(p, Idle)
    BY <1>9 DEF AppendManifest
  <2>2. QED
    BY <1>7, <1>9, <2>1, AppendKeeps
<1>10. ASSUME NEW p \in Procs, Index(p), ~AppendManifest(p)
       PROVE  ManifestInv'
  <2>1. UNCHANGED <<manifest, indexed>>
    BY <1>10 DEF Index, StartIndex, IndexLocal, Fetch, Unpack, Restore, ReadManifest, outputs, ghosts
  <2>2. \A q \in Procs : q # p => job'[q] = job[q]
    BY <1>10, IndexJobs
  <2>3. ASSUME At(p, "append")' PROVE job'[p].had = Readable
    <3>1. CASE ReadManifest(p)
      BY <3>1, ReadsManifest
    <3>2. ~StartIndex(p) /\ ~IndexLocal(p)
      BY <2>3, BeginsIndex, IndexesLocal DEF At
    <3>3. ~Fetch(p) /\ ~Restore(p)
      <4>1. Fetch(p) => job[p].keys \subseteq DOMAIN bundles
        BY DEF Fetch, KeysInv, IndexJob
      <4>2. QED
        BY <2>3, <4>1, Fetches, Restores DEF At
    <3>4. ~Unpack(p)
      BY <2>3, Unpacks DEF At
    <3>5. QED
      BY <1>10, <3>1, <3>2, <3>3, <3>4 DEF Index
  <2>4. QED
    BY <1>3, <2>1, <2>2, <2>3
<1>11. CASE UNCHANGED vars
  BY <1>3, <1>11 DEF vars, outputs, ghosts
<1>12. QED
  BY <1>4, <1>5, <1>6, <1>8, <1>9, <1>10, <1>11 DEF Next

-----------------------------------------------------------------------------
(* What was restored *)

\* What RestoreInv says of one job.
JobRestores(j) ==
  \A a \in j.there \ j.torn :
    /\ local[a] = "torn" => j.at = "restore" /\ a \in j.todo
    /\ a \in j.entries => local[a] # None

LEMMA RestoreIs ==
  RestoreInv <=> (~overlapped =>
    /\ \A a \in restored : local[a] = "whole"
    /\ \A p \in Procs : IndexJob(p) => JobRestores(job[p]))
BY DEF RestoreInv, JobRestores, At

\* A job that goes on leaves no artifact it had to restore in half.
LEMMA RestoresOn ==
  ASSUME TypeInv, KeysInv, NEW p \in Procs, IndexJob(p), JobRestores(job[p]),
         IndexLocal(p) \/ Fetch(p) \/ Unpack(p) \/ Restore(p) \/ ReadManifest(p)
  PROVE  JobRestores(job[p])'
<1>1. PICK o, j : o = job[p] /\ j = job'[p]
  OBVIOUS
<1>2. /\ o \in Indexing
      /\ \A a \in o.there \ o.torn :
           /\ local[a] = "torn" => o.at = "restore" /\ a \in o.todo
           /\ a \in o.entries => local[a] # None
  BY <1>1, Kinds DEF JobRestores
<1>3. o.there \subseteq Artifacts
  BY <1>2 DEF Indexing
<1>4. ASSUME j.torn = o.torn, j.there \subseteq o.there,
             \A a \in o.there \ o.torn :
               /\ local'[a] = "torn" => j.at = "restore" /\ a \in j.todo
               /\ a \in j.entries => local'[a] # None
      PROVE  JobRestores(job[p])'
  BY <1>1, <1>4 DEF JobRestores
<1>5. CASE IndexLocal(p)
  <2>1. o.at = "index" /\ j.torn = o.torn /\ j.there = o.there
    BY <1>1, <1>5, IndexesLocal DEF At, SameIndex
  <2>2. PICK a \in o.todo :
          j.entries = IF local[a] = "whole" THEN o.entries \cup {a} ELSE o.entries
    BY <1>1, <1>5, IndexesLocal
  <2>3. local' = local
    BY <1>5 DEF IndexLocal, research
  <2>4. None # "whole"
    BY BatchAssumption
  <2>5. QED
    BY <1>2, <1>4, <2>1, <2>2, <2>3, <2>4
<1>6. CASE Fetch(p)
  <2>1. job[p].keys \subseteq DOMAIN bundles
    BY DEF KeysInv
  <2>2. /\ o.at \in {"index", "unpack"} /\ j.torn = o.torn /\ j.there \subseteq o.there
        /\ j.entries = o.entries
    BY <1>1, <1>6, <2>1, Fetches DEF SameIndex
  <2>3. local' = local
    BY <1>6 DEF Fetch, research
  <2>4. QED
    BY <1>2, <1>4, <2>2, <2>3
<1>7. CASE Unpack(p)
  <2>1. o.at = "unpack" /\ j.torn = o.torn /\ j.there = o.there
    BY <1>1, <1>7, Unpacks DEF At, SameIndex
  <2>2. PICK a \in DOMAIN o.members :
              /\ a \in Artifacts
              /\ j.entries = IF o.members[a] = "whole" THEN o.entries \cup {a} ELSE o.entries
              /\ IF o.members[a] = "whole" /\ local[a] = None
                 THEN /\ j.at = "restore" /\ j.todo = {a}
                      /\ local' = [local EXCEPT ![a] = "torn"]
                 ELSE local' = local
    BY <1>1, <1>7, Unpacks
  <2>3. None # "torn"
    BY BatchAssumption
  <2>4. CASE o.members[a] = "whole" /\ local[a] = None
    <3>1. /\ j.at = "restore" /\ j.todo = {a} /\ j.entries = o.entries \cup {a}
          /\ \A b \in Artifacts : local'[b] = IF b = a THEN "torn" ELSE local[b]
      BY <2>2, <2>4 DEF TypeInv
    <3>2. QED
      BY <1>2, <1>3, <1>4, <2>1, <2>3, <3>1
  <2>5. CASE ~(o.members[a] = "whole" /\ local[a] = None)
    <3>1. local' = local /\ (j.entries = o.entries \/ (j.entries = o.entries \cup {a} /\ local[a] # None))
      BY <2>2, <2>5
    <3>2. QED
      BY <1>2, <1>4, <2>1, <3>1
  <2>6. QED
    BY <2>4, <2>5
<1>8. CASE Restore(p)
  <2>1. j.torn = o.torn /\ j.there = o.there /\ j.entries = o.entries
    BY <1>1, <1>8, Restores DEF SameIndex
  <2>2. \A a \in Artifacts : local'[a] = IF a \in o.todo THEN "whole" ELSE local[a]
    BY <1>1, <1>8 DEF Restore
  <2>3. None # "whole"
    BY BatchAssumption
  <2>4. QED
    BY <1>2, <1>3, <1>4, <2>1, <2>2, <2>3
<1>9. CASE ReadManifest(p)
  <2>1. /\ o.at \in {"index", "unpack"} /\ j.torn = o.torn /\ j.there = o.there
        /\ j.entries = o.entries
    BY <1>1, <1>9, ReadsManifest DEF SameIndex
  <2>2. local' = local
    BY <1>9 DEF ReadManifest, research
  <2>3. QED
    BY <1>2, <1>4, <2>1, <2>2
<1>10. QED
  BY <1>5, <1>6, <1>7, <1>8, <1>9

\* A restored artifact stays whole on its host.
LEMMA RestoredStays ==
  ASSUME TypeInv, KeysInv, [Next]_vars, ~NewHost, NEW a \in Artifacts, local[a] = "whole"
  PROVE  local'[a] = "whole"
<1>1. ASSUME NEW b \in Artifacts, BeginArtifact(b) \/ EndArtifact(b) PROVE local'[a] = "whole"
  <2>1. CASE BeginArtifact(b)
    <3>1. local[b] = None /\ local' = [local EXCEPT ![b] = "torn"]
      BY <2>1 DEF BeginArtifact
    <3>2. b # a
      BY <3>1, BatchAssumption
    <3>3. QED
      BY <3>1, <3>2 DEF TypeInv
  <2>2. CASE EndArtifact(b)
    BY <2>2 DEF EndArtifact, TypeInv
  <2>3. QED
    BY <1>1, <2>1, <2>2
<1>2. CASE UNCHANGED local
  BY <1>2
<1>3. CASE Agents \/ Sync \/ Tick
  BY <1>1, <1>2, <1>3 DEF Agents, BeginLine, EndLine, Sync, Bundle, Tick, research
<1>4. ASSUME NEW p \in Procs, Etl(p) \/ Export(p) \/ Index(p) \/ Undecodable(p) \/ Kill(p)
      PROVE  local'[a] = "whole"
  <2>1. CASE job[p].at = "idle"
    <3>1. ~Unpack(p) /\ ~Restore(p)
      BY <2>1 DEF Unpack, Restore, At
    <3>2. CASE Index(p)
      BY <1>2, <3>1, <3>2
         DEF Index, StartIndex, IndexLocal, Fetch, ReadManifest, AppendManifest, research
    <3>3. CASE Etl(p) \/ Export(p) \/ Undecodable(p) \/ Kill(p)
      BY <1>2, <3>3, EtlJobs, ExportJobs, StopJobs
    <3>4. QED
      BY <1>4, <3>2, <3>3
  <2>2. CASE job[p].at # "idle"
    BY <2>2, WholeStays
  <2>3. QED
    BY <2>1, <2>2
<1>5. CASE UNCHANGED vars
  BY <1>2, <1>5 DEF vars, research
<1>6. QED
  BY <1>3, <1>4, <1>5 DEF Next

LEMMA RestoreStep ==
  ASSUME TypeInv, KeysInv, FoundInv, ManifestInv, RestoreInv, [Next]_vars
  PROVE  RestoreInv'
<1>1. ASSUME ~overlapped'
      PROVE  /\ ~overlapped
             /\ \A a \in restored : local[a] = "whole"
             /\ \A p \in Procs : IndexJob(p) => JobRestores(job[p])
             /\ \A p, q \in Procs : IndexJob(p) /\ IndexJob(q) => p = q
  BY <1>1, IndexJobsStay, RestoreIs DEF ManifestInv
<1>2. ASSUME ~overlapped' => \A a \in restored' : local'[a] = "whole",
             ~overlapped' => \A p \in Procs : IndexJob(p)' => JobRestores(job[p])'
      PROVE  RestoreInv'
  BY <1>2 DEF RestoreInv, JobRestores, At
<1>3. ASSUME UNCHANGED restored, ~NewHost
      PROVE  ~overlapped' => \A a \in restored' : local'[a] = "whole"
  <2>1. restored \subseteq Artifacts
    BY DEF TypeInv
  <2>2. QED
    BY <1>1, <1>3, <2>1, RestoredStays
<1>4. ASSUME UNCHANGED local, NEW p \in Procs, IndexJob(p), job'[p] = job[p], ~overlapped'
      PROVE  JobRestores(job[p])'
  BY <1>1, <1>4 DEF JobRestores
<1>5. CASE UNCHANGED <<local, restored, job>> /\ ~NewHost
  BY <1>2, <1>3, <1>4, <1>5 DEF IndexJob
<1>6. ASSUME NEW b \in Artifacts, BeginArtifact(b) \/ EndArtifact(b), ~NewHost
      PROVE  RestoreInv'
  <2>1. UNCHANGED <<job, restored>>
    BY <1>6, AgentJobs DEF Agents
  <2>2. ASSUME ~overlapped', NEW p \in Procs, IndexJob(p) PROVE JobRestores(job[p])'
    <3>1. PICK o : o = job[p]
      OBVIOUS
    <3>2. /\ o \in Indexing
          /\ \A a \in o.there \ o.torn :
              /\ local[a] = "torn" => o.at = "restore" /\ a \in o.todo
              /\ a \in o.entries => local[a] # None
      BY <1>1, <2>2, <3>1, Kinds DEF JobRestores
    <3>3. o.there \subseteq Artifacts
      BY <3>2 DEF Indexing
    <3>4. SUFFICES ASSUME NEW a \in o.there \ o.torn
                   PROVE  /\ local'[a] = "torn" => o.at = "restore" /\ a \in o.todo
                          /\ a \in o.entries => local'[a] # None
      BY <2>1, <3>1 DEF JobRestores
    <3>5. CASE BeginArtifact(b)
      <4>1. There(a)
        BY <2>2, <3>1, FoundIs DEF JobFinds
      <4>2. a # b
        BY <3>5, <4>1 DEF BeginArtifact, There
      <4>3. local'[a] = local[a]
        BY <3>3, <3>5, <4>2 DEF BeginArtifact, TypeInv
      <4>4. QED
        BY <3>2, <4>3
    <3>6. CASE EndArtifact(b)
      <4>1. local'[a] = local[a] \/ local'[a] = "whole"
        BY <3>3, <3>6 DEF EndArtifact, TypeInv
      <4>2. None # "whole"
        BY BatchAssumption
      <4>3. QED
        BY <3>2, <4>1, <4>2
    <3>7. QED
      BY <1>6, <3>5, <3>6
  <2>3. QED
    BY <1>2, <1>3, <1>6, <2>1, <2>2 DEF IndexJob
<1>7. CASE NewHost
  <2>1. \A p \in Procs : ~IndexJob(p)
    BY <1>7 DEF NewHost, Active, At, IndexJob
  <2>2. job' = job /\ restored' = {}
    BY <1>7 DEF NewHost
  <2>3. QED
    BY <1>2, <2>1, <2>2 DEF IndexJob
<1>8. ASSUME NEW p \in Procs, Etl(p) \/ Export(p) \/ Undecodable(p), ~NewHost
      PROVE  RestoreInv'
  BY <1>2, <1>3, <1>4, <1>8, NoIndexStep DEF IndexJob
<1>9. ASSUME NEW p \in Procs, Kill(p), ~NewHost
      PROVE  RestoreInv'
  <2>1. UNCHANGED <<local, restored>> /\ job'[p].at = "idle" /\ \A q \in Procs : q # p => job'[q] = job[q]
    BY <1>9, StopJobs
  <2>2. QED
    BY <1>2, <1>3, <1>4, <1>9, <2>1 DEF IndexJob
<1>10. ASSUME NEW p \in Procs, Index(p), ~NewHost
       PROVE  RestoreInv'
  <2>1. \A q \in Procs : q # p => job'[q] = job[q]
    BY <1>10, IndexJobs
  <2>2. ASSUME ~overlapped', NEW q \in Procs, IndexJob(q)' PROVE q = p
    <3>1. IndexJob(p)' \/ IndexJob(p)
      BY <1>10, BeginsIndex DEF Index, IndexLocal, Fetch, Unpack, Restore, ReadManifest, AppendManifest, At, IndexJob
    <3>2. CASE q # p
      <4>1. IndexJob(q)
        BY <2>1, <2>2, <3>2 DEF IndexJob
      <4>2. QED
        BY <1>1, <2>2, <3>1, <3>2, <4>1, IndexJobsStay
    <3>3. QED
      BY <3>2
  <2>3. CASE StartIndex(p)
    <3>1. UNCHANGED <<local, restored>>
      BY <2>3 DEF StartIndex, research
    <3>2. PICK j : j = job'[p]
      OBVIOUS
    <3>3. /\ j \in Indexing /\ j.entries = {}
          /\ j.torn = {a \in Artifacts : local[a] = "torn"}
      BY <2>3, <3>2, BeginsIndex
    <3>4. \A a \in j.there \ j.torn : local[a] # "torn"
      BY <3>3 DEF Indexing
    <3>5. JobRestores(job[p])'
      BY <3>1, <3>2, <3>3, <3>4 DEF JobRestores
    <3>6. QED
      BY <1>2, <1>3, <1>10, <2>2, <3>1, <3>5
  <2>4. CASE IndexLocal(p) \/ Fetch(p) \/ Unpack(p) \/ Restore(p) \/ ReadManifest(p)
    <3>1. UNCHANGED restored
      BY <2>4 DEF IndexLocal, Fetch, Unpack, Restore, ReadManifest, ghosts
    <3>2. IndexJob(p)
      BY <2>4 DEF IndexLocal, Fetch, Unpack, Restore, ReadManifest, At, IndexJob
    <3>3. ~overlapped' => JobRestores(job[p])'
      BY <1>1, <2>4, <3>2, RestoresOn
    <3>4. QED
      BY <1>2, <1>3, <1>10, <2>2, <3>1, <3>3
  <2>5. CASE AppendManifest(p)
    <3>1. At(p, "append") /\ Becomes(p, Idle) /\ local' = local
      BY <2>5 DEF AppendManifest, research
    <3>2. job'[p].at = "idle"
      BY <3>1, EndsJob DEF Idle
    <3>3. PICK j : j = job[p]
      OBVIOUS
    <3>4. j \in Indexing /\ j.at = "append" /\ IndexJob(p)
      BY <3>1, <3>3, Kinds DEF At, IndexJob
    <3>5. restored' = restored \cup ((j.there \cap UNION {WholeIn(k) : k \in DOMAIN bundles}) \ j.torn)
      BY <2>5, <3>3 DEF AppendManifest
    <3>6. j.there \cap UNION {WholeIn(k) : k \in DOMAIN bundles} \subseteq j.entries
      BY <3>1, <3>3, FindsAll
    <3>7. ASSUME ~overlapped', NEW a \in restored' PROVE local'[a] = "whole"
      <4>1. CASE a \in restored
        BY <1>1, <3>1, <3>7, <4>1
      <4>2. CASE a \in j.there \ j.torn /\ a \in j.entries
        <5>1. local[a] # "torn" /\ local[a] # None
          BY <1>1, <3>3, <3>4, <3>7, <4>2 DEF JobRestores
        <5>2. a \in Artifacts
          BY <3>4 , <4>2 DEF Indexing
        <5>3. local[a] \in {"torn", "whole", None}
          BY <5>2 DEF TypeInv, States
        <5>4. QED
          BY <3>1, <5>1, <5>3
      <4>3. QED
        BY <3>5, <3>6, <3>7, <4>1, <4>2
    <3>8. QED
      BY <1>2, <2>2, <3>2, <3>7 DEF IndexJob
  <2>6. QED
    BY <1>10, <2>3, <2>4, <2>5 DEF Index
<1>11. CASE Agents /\ ~NewHost
  <2>1. UNCHANGED <<job, restored>>
    BY <1>11, AgentJobs
  <2>2. CASE UNCHANGED local
    BY <1>5, <1>11, <2>1, <2>2
  <2>3. QED
    BY <1>6, <1>11, <2>2 DEF Agents, BeginLine, EndLine, research
<1>12. CASE (Sync \/ Tick) /\ ~NewHost
  BY <1>5, <1>12, AgentJobs DEF Sync, Bundle, Tick, research
<1>13. CASE UNCHANGED vars /\ ~NewHost
  BY <1>5, <1>13 DEF vars, research, ghosts
<1>14. QED
  BY <1>7, <1>8, <1>9, <1>10, <1>11, <1>12, <1>13 DEF Next

-----------------------------------------------------------------------------
(* Halves of artifacts *)

Restored(a) == \E p \in Procs : At(p, "restore") /\ a \in job[p].todo

LEMMA TornStep ==
  ASSUME TypeInv, KeysInv, TornInv, [Next]_vars
  PROVE  TornInv'
<1>1. ~killed => \A a \in Artifacts : local[a] = "torn" => a \in writing \/ Restored(a)
  BY DEF TornInv, Restored
<1>2. ASSUME ~killed' => \A a \in Artifacts : local'[a] = "torn" => a \in writing' \/ Restored(a)'
      PROVE  TornInv'
  BY <1>2 DEF TornInv, Restored
<1>3. ASSUME NEW a \in Artifacts, Restored(a), job' = job PROVE Restored(a)'
  BY <1>3 DEF Restored, At
<1>4. CASE UNCHANGED <<local, writing, job, killed>>
  BY <1>1, <1>2, <1>3, <1>4
<1>5. ASSUME NEW b \in Artifacts, BeginArtifact(b) PROVE TornInv'
  <2>1. /\ UNCHANGED <<job, killed>> /\ writing' = writing \cup {b}
        /\ \A a \in Artifacts : a # b => local'[a] = local[a]
    BY <1>5 DEF BeginArtifact, ghosts, TypeInv
  <2>2. QED
    BY <1>1, <1>2, <1>3, <2>1
<1>6. ASSUME NEW b \in Artifacts, EndArtifact(b) PROVE TornInv'
  <2>1. job' = job /\ writing' = writing \ {b}
    BY <1>6 DEF EndArtifact
  <2>2. CASE local' = [local EXCEPT ![b] = "whole"] /\ killed' = killed
    <3>1. \A a \in Artifacts : local'[a] = IF a = b THEN "whole" ELSE local[a]
      BY <2>2 DEF TypeInv
    <3>2. QED
      BY <1>1, <1>2, <1>3, <2>1, <2>2, <3>1
  <2>3. CASE killed'
    BY <1>2, <2>3
  <2>4. QED
    BY <1>6, <2>2, <2>3 DEF EndArtifact
<1>7. CASE NewHost
  <2>1. \A a \in Artifacts : local'[a] = None
    BY <1>7 DEF NewHost
  <2>2. None # "torn"
    BY BatchAssumption
  <2>3. QED
    BY <1>2, <2>1, <2>2
<1>8. CASE Agents \/ Sync \/ Tick
  BY <1>4, <1>5, <1>6, <1>8 DEF Agents, BeginLine, EndLine, Sync, Bundle, Tick, research, ghosts
<1>9. ASSUME NEW p \in Procs, UNCHANGED <<local, writing, killed>>, ~At(p, "restore"),
             \A q \in Procs : q # p => job'[q] = job[q]
      PROVE  TornInv'
  <2>1. \A a : Restored(a) => Restored(a)'
    BY <1>9 DEF Restored, At
  <2>2. QED
    BY <1>1, <1>2, <1>9, <2>1
<1>10. ASSUME NEW p \in Procs, Etl(p) \/ Export(p) \/ Undecodable(p) PROVE TornInv'
  <2>1. /\ UNCHANGED <<local, writing, killed>>
        /\ \A q \in Procs : IndexJob(q) => job'[q] = job[q]
    BY <1>10, NoIndexStep
  <2>2. \A a : Restored(a) => Restored(a)'
    BY <2>1 DEF Restored, At, IndexJob
  <2>3. QED
    BY <1>1, <1>2, <2>1, <2>2
<1>11. ASSUME NEW p \in Procs, Kill(p) PROVE TornInv'
  BY <1>2, <1>11 DEF Kill
<1>12. ASSUME NEW p \in Procs, Index(p) PROVE TornInv'
  <2>1. (\A q \in Procs : q # p => job'[q] = job[q]) /\ UNCHANGED <<writing, killed>>
    BY <1>12, IndexJobs
  <2>2. CASE Unpack(p)
    <3>1. ~At(p, "restore")
      BY <2>2 DEF Unpack, At
    <3>2. PICK a \in Artifacts :
            \/ local' = local
            \/ /\ job'[p].at = "restore" /\ job'[p].todo = {a}
               /\ local' = [local EXCEPT ![a] = "torn"]
      BY <2>2, Unpacks
    <3>3. CASE local' = local
      BY <1>9, <2>1, <3>1, <3>3
    <3>4. CASE /\ job'[p].at = "restore" /\ job'[p].todo = {a}
               /\ local' = [local EXCEPT ![a] = "torn"]
      <4>1. Restored(a)' /\ \A b : Restored(b) => Restored(b)'
        BY <2>1, <3>1, <3>4 DEF Restored, At
      <4>2. \A b \in Artifacts : b # a => local'[b] = local[b]
        BY <3>4 DEF TypeInv
      <4>3. QED
        BY <1>1, <1>2, <2>1, <4>1, <4>2
    <3>5. QED
      BY <3>2, <3>3, <3>4
  <2>3. CASE Restore(p)
    <3>1. \A a \in Artifacts : local'[a] = IF a \in job[p].todo THEN "whole" ELSE local[a]
      BY <2>3 DEF Restore
    <3>2. ASSUME NEW a \in Artifacts, Restored(a), a \notin job[p].todo PROVE Restored(a)'
      BY <2>1, <3>2 DEF Restored, At
    <3>3. QED
      BY <1>1, <1>2, <2>1, <3>1, <3>2
  <2>4. CASE ~Unpack(p) /\ ~Restore(p)
    <3>1. ~At(p, "restore") /\ local' = local
      BY <1>12, <2>4 DEF Index, StartIndex, IndexLocal, Fetch, ReadManifest, AppendManifest, At, research
    <3>2. QED
      BY <1>9, <2>1, <3>1
  <2>5. QED
    BY <2>2, <2>3, <2>4
<1>13. CASE UNCHANGED vars
  BY <1>4, <1>13 DEF vars, research, ghosts
<1>14. QED
  BY <1>7, <1>8, <1>10, <1>11, <1>12, <1>13 DEF Next

ResearchInv == KnownInv /\ FoundInv /\ ManifestInv /\ RestoreInv /\ TornInv

\* What an index job had to find stays in the manifest until a row garbles it,
\* once while no two of them overlapped; what it had to restore is whole; and
\* without a kill every half of an artifact is being written or restored.
THEOREM ResearchIsIndexed == Spec => []ResearchIndexed
<1>1. Init => ResearchInv
  <2> SUFFICES ASSUME Init PROVE ResearchInv
    OBVIOUS
  <2>1. \A p \in Procs : ~IndexJob(p)
    BY DEF Init, IndexJob, Idle
  <2>2. known = {} /\ indexed = {} /\ restored = {} /\ manifest = <<>> /\ bundles = <<>>
    BY DEF Init
  <2>3. \A p \in Procs : ~At(p, "append") /\ ~At(p, "restore")
    BY <2>1 DEF At, IndexJob
  <2>4. OneRow
    BY <2>2 DEF OneRow, ReadableAt
  <2>5. \A a \in Artifacts : local[a] # "torn"
    BY BatchAssumption DEF Init
  <2>6. QED
    BY <2>1, <2>2, <2>3, <2>4, <2>5
       DEF ResearchInv, KnownInv, FoundInv, ManifestInv, RestoreInv, TornInv
<1>2. TypeInv /\ KeysInv /\ ResearchInv /\ [Next]_vars => ResearchInv'
  BY KnownStep, FoundStep, ManifestStep, RestoreStep, TornStep DEF ResearchInv
<1>3. ResearchInv => ResearchIndexed
  <2> SUFFICES ASSUME ResearchInv PROVE ResearchIndexed
    OBVIOUS
  <2>1. ASSUME OneRow, NEW a \in Readable
        PROVE  Cardinality({i \in DOMAIN manifest : manifest[i].of = a /\ manifest[i].is \in {"row", "open"}}) = 1
    <3>1. PICK i \in DOMAIN manifest : manifest[i].of = a /\ manifest[i].is \in {"row", "open"}
      BY <2>1 DEF Readable
    <3>2. {k \in DOMAIN manifest : manifest[k].of = a /\ manifest[k].is \in {"row", "open"}} = {i}
      BY <2>1, <3>1 DEF OneRow, ReadableAt
    <3>3. QED
      BY <3>2, FS_Singleton
  <2>2. indexed \subseteq Readable
    BY DEF ResearchInv, ManifestInv
  <2>3. ~overlapped => OneRow /\ \A a \in restored : local[a] = "whole"
    BY DEF ResearchInv, ManifestInv, RestoreInv
  <2>4. QED
    BY <2>1, <2>2, <2>3 DEF ResearchIndexed, ResearchInv, TornInv
<1>4. QED
  BY <1>1, <1>2, <1>3, TypeCorrect, PTL DEF Spec
=============================================================================
