----------------------------- MODULE BatchTools -----------------------------
(***************************************************************************)
(* The batch jobs that copy ledgers and research artifacts to tables and   *)
(* indices: tools/batch_etl.py, export_to_sqlite.py and index_research.py, *)
(* with the bundles of infra/s3_sync.py that index_research restores from. *)
(*                                                                         *)
(* They read files that agents are writing, are started by hand or by cron *)
(* at any time, and may be killed.  A row is the event or artifact it is   *)
(* made from; artifact_bodies.jsonl, which gets a line for each row of     *)
(* artifact_metadata, is left out.  How ledgers and bundles are written is *)
(* in Ledger.tla and S3Sync.tla; a line of two events, which a kill leaves *)
(* that takes the newline of the first, is left out: no job can parse it.  *)
(***************************************************************************)
EXTENDS Integers, Sequences, SequencesExt, FiniteSetsExt

CONSTANTS
  Ledgers,   \* the ecosystem of each ledger file, in the order of their paths
  Into,      \* for each event, the ledgers it is appended to, each once, in this order
  Completed, \* the run.completed events
  Separated, \* the events whose lines have a U+2028 or U+0085 as it is
  Research,  \* for each artifact, its agent
  Home,      \* the ecosystem of these agents: an index job is of one
  ChunkSize,
  Procs, None,
  Budgets    \* bound: starts of each job, events, artifacts, bundles, ticks,
             \* new hosts, kills and failures in a behaviour, and jobs at a time

Files == 1..Len(Ledgers)
Ecosystems == ToSet(Ledgers)
Events == DOMAIN Into
Artifacts == DOMAIN Research
Authors == {Research[a] : a \in Artifacts}
Tables == {"events", "runs", "artifacts"}

ASSUME BatchAssumption ==
  /\ ChunkSize \in Nat \ {0}
  /\ \A e \in Events : Into[e] \in Seq(Files) /\ Into[e] # <<>> /\ IsInjective(Into[e])
  /\ Completed \subseteq Events
  /\ Home \in Ecosystems
  /\ Ledgers \in Seq(Ecosystems)
  /\ None \notin Events \cup {"torn", "whole"}

VARIABLES
  now,       \* seconds
  lines,     \* the whole lines of each ledger
  half,      \* the event whose line a ledger ends with half of, or None
  local,     \* each artifact on this host: None, "torn" or "whole"
  writing,   \* artifacts an executor is writing
  known,     \* the sidecar's research_bundles
  bundles,   \* S3: for each agent and second, whether each member is whole
  job,       \* what each process does
  dirs,      \* etl_warehouse/<second>, or None
  latest,    \* where the symbolic link leads
  manifest,  \* research_manifest.jsonl: [of, is], is "row" or "garbled", or in
             \* the end "half" a row or "open", a row without its newline
  db,        \* the SQLite tables
  indexed,   \* ghost: artifacts an index job had to find and was done with
  restored,  \* ghost: likewise, those it had to restore
  dbDue,     \* ghost: events and artifacts there were when a committed export started
  killed, overlapped, \* ghost: whether a job was killed, or indexed beside another
  left       \* bound: what is left of the budget

sources == <<lines, half>>
research == <<local, writing, known, bundles>>
outputs == <<dirs, latest, manifest, db>>
ghosts == <<indexed, restored, dbDue, killed, overlapped>>
vars == <<now, sources, research, job, outputs, ghosts, left>>

Spend(what) == left[what] > 0 /\ left' = [left EXCEPT ![what] = @ - 1]

Idle == [at |-> "idle"]
At(p, step) == job[p].at = step
Active == {p \in Procs : ~At(p, "idle")}
Becomes(p, r) == job' = [job EXCEPT ![p] = r]

Init ==
  /\ now = 0
  /\ lines = [f \in Files |-> <<>>] /\ half = [f \in Files |-> None]
  /\ local = [a \in Artifacts |-> None] /\ writing = {} /\ known = {}
  /\ bundles = <<>>
  /\ job = [p \in Procs |-> Idle]
  /\ dirs = <<>> /\ latest = None
  /\ manifest = <<>>
  /\ db = [t \in Tables \cup {"manifest"} |-> {}]
  /\ indexed = {} /\ restored = {} /\ dbDue = {}
  /\ killed = FALSE /\ overlapped = FALSE
  /\ left \in Budgets

-----------------------------------------------------------------------------
(* What agents and the archive sync do meanwhile *)

Told(e) == Cardinality({f \in ToSet(Into[e]) : e \in ToSet(lines[f])})

\* append() in two writes; a forum event goes to its ledgers one by one.
BeginLine(e) ==
  /\ Told(e) < Len(Into[e])
  /\ Spend("events")
  /\ LET f == Into[e][Told(e) + 1] IN
       half[f] = None /\ half' = [half EXCEPT ![f] = e]
  /\ UNCHANGED <<now, lines, research, job, outputs, ghosts>>

EndLine(f) ==
  /\ half[f] # None
  /\ lines' = [lines EXCEPT ![f] = Append(@, half[f])]
  /\ half' = [half EXCEPT ![f] = None]
  /\ UNCHANGED <<now, research, job, outputs, ghosts, left>>

\* _write_artifact(): names are not used again.
BeginArtifact(a) ==
  /\ local[a] = None /\ a \notin known
  /\ \A k \in DOMAIN bundles : a \notin DOMAIN bundles[k]
  /\ Spend("artifacts")
  /\ local' = [local EXCEPT ![a] = "torn"] /\ writing' = writing \cup {a}
  /\ UNCHANGED <<now, sources, known, bundles, job, outputs, ghosts>>

EndArtifact(a) ==
  /\ a \in writing
  /\ writing' = writing \ {a}
  /\ \/ local' = [local EXCEPT ![a] = "whole"] /\ UNCHANGED <<killed, left>>
     \/ Spend("kills") /\ killed' = TRUE /\ UNCHANGED local
  /\ UNCHANGED <<now, sources, known, bundles, job, outputs, indexed, restored, dbDue, overlapped>>

\* bundle_and_upload_research() for an agent, in a sync that succeeds.
Unbundled(agent) == {a \in Artifacts \ known : Research[a] = agent /\ local[a] # None}

Bundle(agent) ==
  /\ Spend("bundles")
  /\ LET new == Unbundled(agent) IN
       /\ new # {}
       /\ known' = known \cup new
       /\ bundles' = [k \in DOMAIN bundles \cup {<<agent, now>>} |->
                        IF k = <<agent, now>> THEN [a \in new |-> local[a]] ELSE bundles[k]]
  /\ UNCHANGED <<now, sources, local, writing, job, outputs, ghosts>>

Sync == \E agent \in Authors : Bundle(agent)

Tick ==
  /\ Spend("ticks")
  /\ now' = now + 1
  /\ UNCHANGED <<sources, research, job, outputs, ghosts>>

\* Another host has no research files, and .sync_state if it was copied.
NewHost ==
  /\ Active = {}
  /\ Spend("hosts")
  /\ local' = [a \in Artifacts |-> None] /\ writing' = {} /\ restored' = {}
  /\ \/ UNCHANGED <<known, manifest, indexed>>
     \/ known' = {} /\ manifest' = <<>> /\ indexed' = {}
  /\ UNCHANGED <<now, sources, bundles, job, dirs, latest, db, dbDue, killed, overlapped>>

-----------------------------------------------------------------------------
(* run_batch_etl() *)

Row(id, eco, from) == [id |-> id, eco |-> eco, from |-> from]
NoRows == [t \in Tables |-> <<>>]
NewDir ==
  [parts |-> [t \in Tables |-> [eco \in Ecosystems |-> <<>>]],
   flushes |-> [t \in Tables |-> [eco \in Ecosystems |-> 0]],
   manifest |-> FALSE, users |-> 0, due |-> {}]

\* The _flush functions: part-0 of each ecosystem that has a row is replaced.  A
\* part has its rows at their places in the buffer.
Of(rows, eco) == Restrict(rows, {i \in DOMAIN rows : rows[i].eco = eco})
HasRow(rows, eco) == \E i \in DOMAIN rows : rows[i].eco = eco

FlushedParts(parts, rows) ==
  [eco \in Ecosystems |-> IF HasRow(rows, eco) THEN Of(rows, eco) ELSE parts[eco]]
Counted(flushes, rows) ==
  [eco \in Ecosystems |-> IF HasRow(rows, eco) THEN flushes[eco] + 1 ELSE flushes[eco]]

Full(buffer, table) == Len(buffer[table]) >= ChunkSize

\* The directory, and what is left in the buffers, once the given tables were
\* flushed.
FlushAll(dir, buffer, tables) ==
  [parts |-> [t \in Tables |-> IF t \in tables THEN FlushedParts(dir.parts[t], buffer[t]) ELSE dir.parts[t]],
   flushes |-> [t \in Tables |-> IF t \in tables THEN Counted(dir.flushes[t], buffer[t]) ELSE dir.flushes[t]],
   manifest |-> dir.manifest, users |-> dir.users, due |-> dir.due]
Without(buffer, tables) == [t \in Tables |-> IF t \in tables THEN <<>> ELSE buffer[t]]

Present == {a \in Artifacts : local[a] # None}
WholeLines == UNION {{<<f, e>> : e \in ToSet(lines[f])} : f \in Files}

StartEtl(p) ==
  /\ At(p, "idle")
  /\ Cardinality(Active) < left.width
  /\ Spend("etls")
  /\ LET dir == IF now \in DOMAIN dirs THEN dirs[now] ELSE NewDir IN
       dirs' = [k \in DOMAIN dirs \cup {now} |->
                  IF k = now THEN [dir EXCEPT !.users = @ + 1, !.due = WholeLines] ELSE dirs[k]]
  /\ Becomes(p, [at |-> "scan", id |-> now, file |-> 1, line |-> 0, skip |-> FALSE,
                 buffer |-> NoRows, todo |-> {}])
  /\ UNCHANGED <<now, sources, research, latest, manifest, db, ghosts>>

Taken(j, e) ==
  LET r == Row(e, Ledgers[j.file], j.file) IN
  [j.buffer EXCEPT !["events"] = Append(@, r),
                   !["runs"] = IF e \in Completed THEN Append(@, r) ELSE @]

\* The job goes on as j, after it flushed what is full.
Scans(p, j) ==
  LET full == {t \in {"events", "runs"} : Full(j.buffer, t)}
  IN /\ dirs' = [dirs EXCEPT ![j.id] = FlushAll(@, j.buffer, full)]
     /\ Becomes(p, [j EXCEPT !.buffer = Without(@, full)])

\* One line of a ledger.  The half of one can be parsed if only the newline is
\* missing; the other half is taken for a line of its own.
ScanLine(p) ==
  /\ At(p, "scan")
  /\ job[p].file \in Files
  /\ LET j == job[p]  f == j.file IN
     IF j.line < Len(lines[f])
     THEN Scans(p, [j EXCEPT !.line = @ + 1, !.skip = FALSE,
                      !.buffer = IF j.skip THEN @ ELSE Taken(j, lines[f][j.line + 1])])
     ELSE IF half[f] # None /\ ~j.skip
     THEN \/ Scans(p, [j EXCEPT !.skip = TRUE])
          \/ Scans(p, [j EXCEPT !.skip = TRUE, !.buffer = Taken(j, half[f])])
     ELSE Scans(p, [j EXCEPT !.file = @ + 1, !.line = 0, !.skip = FALSE])
  /\ UNCHANGED <<now, sources, research, latest, manifest, db, ghosts, left>>

ScanEnds_slip(p) ==
  /\ At(p, "scan")
  /\ job[p].file \notin Files
  /\ dirs' = [dirs EXCEPT ![job[p].id] = FlushAll(@, job[p].buffer, {"runs"})]
  /\ Becomes(p, [job[p] EXCEPT !.at = "meta", !.todo = Present, !.buffer = NoRows])
  /\ UNCHANGED <<now, sources, research, latest, manifest, db, ghosts, left>>

ScanEnds(p) ==
  /\ At(p, "scan")
  /\ job[p].file \notin Files
  /\ dirs' = [dirs EXCEPT ![job[p].id] = FlushAll(@, job[p].buffer, {"events", "runs"})]
  /\ Becomes(p, [job[p] EXCEPT !.at = "meta", !.todo = Present, !.buffer = NoRows])
  /\ UNCHANGED <<now, sources, research, latest, manifest, db, ghosts, left>>

MetaRow(p) ==
  /\ At(p, "meta")
  /\ \E a \in job[p].todo :
       LET buffer == IF local[a] # "whole" THEN job[p].buffer
                     ELSE [job[p].buffer EXCEPT !["artifacts"] = Append(@, Row(a, Home, a))]
           full == {t \in {"artifacts"} : Full(buffer, t)}
       IN /\ dirs' = [dirs EXCEPT ![job[p].id] = FlushAll(@, buffer, full)]
          /\ Becomes(p, [job[p] EXCEPT !.todo = @ \ {a}, !.buffer = Without(buffer, full)])
  /\ UNCHANGED <<now, sources, research, latest, manifest, db, ghosts, left>>

\* The last flush; write_text() empties batch_manifest.json, which another job
\* may have written in the same directory, before it writes it.
WriteBatchManifest(p) ==
  /\ At(p, "meta")
  /\ job[p].todo = {}
  /\ dirs' = [dirs EXCEPT ![job[p].id] = [FlushAll(@, job[p].buffer, {"artifacts"}) EXCEPT !.manifest = FALSE]]
  /\ Becomes(p, [at |-> "report", id |-> job[p].id])
  /\ UNCHANGED <<now, sources, research, latest, manifest, db, ghosts, left>>

Report(p) ==
  /\ At(p, "report")
  /\ dirs' = [dirs EXCEPT ![job[p].id].manifest = TRUE]
  /\ Becomes(p, [at |-> "unlink", id |-> job[p].id])
  /\ UNCHANGED <<now, sources, research, latest, manifest, db, ghosts, left>>

\* exists() and unlink(): the job gives up on the link if another one unlinked
\* it in between.
Unlink(p) ==
  /\ At(p, "unlink")
  /\ latest' = None
  /\ \/ Becomes(p, [at |-> "link", id |-> job[p].id])
     \/ latest = None /\ (\E q \in Procs : At(q, "link")) /\ Becomes(p, Idle)
  /\ UNCHANGED <<now, sources, research, dirs, manifest, db, ghosts, left>>

\* symlink_to(), which fails if there is one.
Link(p) ==
  /\ At(p, "link")
  /\ latest' = IF latest = None THEN job[p].id ELSE latest
  /\ Becomes(p, Idle)
  /\ UNCHANGED <<now, sources, research, dirs, manifest, db, ghosts, left>>

-----------------------------------------------------------------------------
(* export(): one transaction, which starts with the first row. *)

StartExport(p) ==
  /\ At(p, "idle")
  /\ \A q \in Procs : ~At(q, "export")
  /\ Cardinality(Active) < left.width
  /\ Spend("exports")
  /\ Becomes(p, [at |-> "export", ledgers |-> Files, todo |-> {}, rows |-> [t \in DOMAIN db |-> {}],
                 due |-> ({d[2] : d \in WholeLines} \ Separated) \cup {a \in Artifacts : local[a] = "whole"}])
  /\ UNCHANGED <<now, sources, research, outputs, ghosts>>

\* INSERT OR IGNORE: an event has one row, however many ledgers tell it.
\* splitlines() breaks a line at its separators, and no piece can be parsed.
ExportLedger(p) ==
  /\ At(p, "export")
  /\ \E f \in job[p].ledgers :
       \E last \in SUBSET ({half[f]} \ {None}) :
         LET events == (ToSet(lines[f]) \cup last) \ Separated IN
         Becomes(p, [job[p] EXCEPT !.ledgers = @ \ {f}, !.todo = IF job[p].ledgers = {f} THEN Present ELSE {},
                       !.rows["events"] = @ \cup events,
                       !.rows["runs"] = @ \cup (events \cap Completed)])
  /\ UNCHANGED <<now, sources, research, outputs, ghosts, left>>

ExportArtifact(p) ==
  /\ At(p, "export")
  /\ \E a \in job[p].todo :
       Becomes(p, [job[p] EXCEPT !.todo = @ \ {a},
                     !.rows["artifacts"] = IF local[a] = "whole" THEN @ \cup {a} ELSE @])
  /\ UNCHANGED <<now, sources, research, outputs, ghosts, left>>

\* _ingest_manifest() and the commit.
Readable == {manifest[i].of : i \in {i \in DOMAIN manifest : manifest[i].is \in {"row", "open"}}}

Commit_slip(p) ==
  /\ At(p, "export")
  /\ job[p].ledgers = {} /\ job[p].todo = {}
  /\ db' = [job[p].rows EXCEPT !["manifest"] = Readable]
  /\ dbDue' = dbDue \cup job[p].due
  /\ Becomes(p, Idle)
  /\ UNCHANGED <<now, sources, research, dirs, latest, manifest, indexed, restored, killed, overlapped, left>>

Commit(p) ==
  /\ At(p, "export")
  /\ job[p].ledgers = {} /\ job[p].todo = {}
  /\ db' = [t \in DOMAIN db |-> db[t] \cup IF t = "manifest" THEN Readable ELSE job[p].rows[t]]
  /\ dbDue' = dbDue \cup job[p].due
  /\ Becomes(p, Idle)
  /\ UNCHANGED <<now, sources, research, dirs, latest, manifest, indexed, restored, killed, overlapped, left>>

-----------------------------------------------------------------------------
(* index_research: the local artifacts, those of the bundles, the manifest *)

WholeIn(k) == {a \in DOMAIN bundles[k] : bundles[k][a] = "whole"}

\* The bundles of an agent are only listed if the sidecar names one of its
\* artifacts; those that are put while the job works are left out.
Listed == {k \in DOMAIN bundles : \E a \in known : Research[a] = k[1]}

StartIndex(p) ==
  /\ At(p, "idle")
  /\ Cardinality(Active) < left.width
  /\ Spend("indices")
  /\ \E fromS3 \in BOOLEAN :
       LET keys == IF fromS3 THEN Listed ELSE {}
           there == UNION {WholeIn(k) : k \in keys}
       IN Becomes(p, [at |-> "index", todo |-> Present, keys |-> keys, members |-> <<>>, entries |-> {},
                      had |-> {}, here |-> {a \in Artifacts : local[a] = "whole"}, there |-> there,
                      torn |-> {a \in Artifacts : local[a] = "torn"}])
  /\ overlapped' = (overlapped \/ \E q \in Procs : job[q].at \in {"index", "unpack", "restore", "append"})
  /\ UNCHANGED <<now, sources, research, outputs, indexed, restored, dbDue, killed>>

\* index_local_artifacts()
IndexLocal(p) ==
  /\ At(p, "index")
  /\ \E a \in job[p].todo :
       Becomes(p, [job[p] EXCEPT !.todo = @ \ {a},
                     !.entries = IF local[a] = "whole" THEN @ \cup {a} ELSE @])
  /\ UNCHANGED <<now, sources, research, outputs, ghosts, left>>

\* get_object() of a bundle; one that cannot be had is passed over.
Fetch(p) ==
  /\ job[p].at \in {"index", "unpack"}
  /\ At(p, "index") => job[p].todo = {}
  /\ job[p].members = <<>>
  /\ \E k \in job[p].keys :
       \/ /\ Becomes(p, [job[p] EXCEPT !.at = "unpack", !.keys = @ \ {k}, !.members = bundles[k]])
          /\ UNCHANGED left
       \/ /\ Spend("faults")
          /\ Becomes(p, [job[p] EXCEPT !.at = "unpack", !.keys = @ \ {k}, !.there = @ \ WholeIn(k)])
  /\ UNCHANGED <<now, sources, research, outputs, ghosts>>

Dropped(f, a) == [b \in DOMAIN f \ {a} |-> f[b]]

Unpack_slip(p) ==
  /\ At(p, "unpack")
  /\ \E a \in DOMAIN job[p].members :
       LET whole == job[p].members[a] = "whole"
       IN /\ local' = [local EXCEPT ![a] = IF @ = None THEN job[p].members[a] ELSE @]
          /\ Becomes(p, [job[p] EXCEPT !.members = Dropped(@, a),
                           !.entries = IF whole THEN @ \cup {a} ELSE @])
  /\ UNCHANGED <<now, sources, writing, known, bundles, outputs, ghosts, left>>

\* _unpack_tar_bundle(): a member that cannot be parsed is passed over, and a
\* file that there is, whatever is in it, is left alone.
Unpack(p) ==
  /\ At(p, "unpack")
  /\ \E a \in DOMAIN job[p].members :
       LET whole == job[p].members[a] = "whole"
           missing == whole /\ local[a] = None
       IN /\ local' = IF missing THEN [local EXCEPT ![a] = "torn"] ELSE local
          /\ job' = [job EXCEPT ![p].members = Dropped(@, a),
                       ![p].entries = IF whole THEN @ \cup {a} ELSE @,
                       ![p].at = IF missing THEN "restore" ELSE @,
                       ![p].todo = IF missing THEN {a} ELSE {}]
  /\ UNCHANGED <<now, sources, writing, known, bundles, outputs, ghosts, left>>

Restore(p) ==
  /\ At(p, "restore")
  /\ local' = [a \in Artifacts |-> IF a \in job[p].todo THEN "whole" ELSE local[a]]
  /\ Becomes(p, [job[p] EXCEPT !.at = "unpack", !.todo = {}])
  /\ UNCHANGED <<now, sources, writing, known, bundles, outputs, ghosts, left>>

\* write_manifest() reads the hashes it has
ReadManifest(p) ==
  /\ job[p].at \in {"index", "unpack"}
  /\ job[p].todo = {} /\ job[p].keys = {} /\ job[p].members = <<>>
  /\ Becomes(p, [job[p] EXCEPT !.at = "append", !.had = Readable])
  /\ UNCHANGED <<now, sources, research, outputs, ghosts, left>>

\* and appends the others.  The first comes behind a line that was not ended,
\* and neither can be read.
Ended == manifest = <<>> \/ Last(manifest).is \in {"row", "garbled"}

Appended(rows) ==
  LET new == [i \in DOMAIN rows |-> [of |-> rows[i], is |-> "row"]] IN
  IF rows = <<>> \/ Ended THEN manifest \o new
  ELSE Front(manifest) \o <<[of |-> rows[1], is |-> "garbled"]>> \o Tail(new)

Garbled(rows) == IF rows = <<>> \/ Ended THEN {} ELSE {rows[1], Last(manifest).of}

NewRows(p) == SetToSeq(job[p].entries \ job[p].had)

\* Rows the job had seen, which another job garbled since.
Gone(p) == job[p].had \ Readable

AppendManifest(p) ==
  /\ At(p, "append")
  /\ manifest' = Appended(NewRows(p))
  /\ LET there == job[p].there \cap UNION {WholeIn(k) : k \in DOMAIN bundles} IN
       /\ indexed' = (indexed \cup job[p].here \cup there) \ (Garbled(NewRows(p)) \cup Gone(p))
       /\ restored' = restored \cup (there \ job[p].torn)
  /\ Becomes(p, Idle)
  /\ UNCHANGED <<now, sources, research, dirs, latest, db, dbDue, killed, overlapped, left>>

-----------------------------------------------------------------------------
\* A ledger ends in the middle of a character: UnicodeDecodeError is no
\* JSONDecodeError.
Undecodable(p) ==
  /\ \/ At(p, "scan") /\ job[p].file \in Files /\ half[job[p].file] # None
     \/ At(p, "export") /\ \E f \in job[p].ledgers : half[f] # None
  /\ Becomes(p, Idle)
  /\ UNCHANGED <<now, sources, research, outputs, ghosts, left>>

\* A job is killed, the append to the manifest at any place.
Kill(p) ==
  /\ p \in Active
  /\ Spend("kills")
  /\ killed' = TRUE
  /\ \/ UNCHANGED <<manifest, indexed>>
     \/ /\ At(p, "append")
        /\ \E n \in DOMAIN NewRows(p), cut \in {"half", "open", "row"} :
             LET rows == SubSeq(NewRows(p), 1, n) IN
             /\ manifest' = [Appended(rows) EXCEPT ![Len(Appended(rows))].is =
                               IF @ = "row" THEN cut ELSE @]
             /\ indexed' = indexed \ Garbled(rows)
  /\ Becomes(p, Idle)
  /\ UNCHANGED <<now, sources, research, dirs, latest, db, restored, dbDue, overlapped>>

Agents ==
  \/ \E e \in Events : BeginLine(e)
  \/ \E f \in Files : EndLine(f)
  \/ \E a \in Artifacts : BeginArtifact(a) \/ EndArtifact(a)
Etl(p) == StartEtl(p) \/ ScanLine(p) \/ ScanEnds(p) \/ MetaRow(p)
          \/ WriteBatchManifest(p) \/ Report(p) \/ Unlink(p) \/ Link(p)
Export(p) == StartExport(p) \/ ExportLedger(p) \/ ExportArtifact(p) \/ Commit(p)
Index(p) == StartIndex(p) \/ IndexLocal(p) \/ Fetch(p) \/ Unpack(p) \/ Restore(p)
            \/ ReadManifest(p) \/ AppendManifest(p)

Next ==
  \/ Agents \/ Sync \/ Tick \/ NewHost
  \/ \E p \in Procs : Etl(p) \/ Export(p) \/ Index(p) \/ Undecodable(p) \/ Kill(p)

Spec == Init /\ [][Next]_vars

-----------------------------------------------------------------------------
(* Properties *)

\* If no other job had the second it is named by, the batch that latest leads to
\* was finished, and a batch that was finished has every event that was in a
\* ledger when it started, once for each ledger, in each part that was flushed
\* once.  A part that is flushed again loses the rows of the flush before: the
\* buffer is filled by all ecosystems, so that of one with few rows is as soon as
\* they lie on both sides of a flush.
BatchComplete ==
  /\ latest # None /\ dirs[latest].users = 1 => dirs[latest].manifest
  /\ \A k \in DOMAIN dirs :
       LET dir == dirs[k] IN
       dir.manifest /\ dir.users = 1 =>
         \A d \in dir.due :
           LET eco == Ledgers[d[1]]  r == Row(d[2], eco, d[1]) IN
           /\ dir.flushes["events"][eco] = 1
                => Cardinality({i \in DOMAIN dir.parts["events"][eco] : dir.parts["events"][eco][i] = r}) = 1
           /\ d[2] \in Completed /\ dir.flushes["runs"][eco] = 1
                => r \in ToSet(dir.parts["runs"][eco])

\* What an export had to find is in its tables and stays there, although ledgers
\* and artifacts were being written, and another export found less of them: the
\* whole artifacts, and the events of whole lines but for those whose lines
\* splitlines() breaks, which no export finds.
ExportKept ==
  /\ dbDue \subseteq db["events"] \cup db["artifacts"]
  /\ db["runs"] = db["events"] \cap Completed
  /\ db["events"] \subseteq UNION {ToSet(lines[f]) \cup {half[f]} : f \in Files}

\* What an index job had to find, here or in a bundle that nothing replaced
\* meanwhile, of an agent of which the sidecar names an artifact, is in the
\* manifest until it is garbled by the row behind it or in front of it, which
\* another job may do between the reading and the appending; it is there once
\* unless jobs overlap; what it had to restore is whole; and only a kill leaves
\* an artifact in half with nobody to write the rest, although bundles have
\* halves of artifacts that were bundled too early.
ResearchIndexed ==
  /\ indexed \subseteq Readable
  /\ ~overlapped =>
       /\ \A a \in Readable : Cardinality({i \in DOMAIN manifest : manifest[i].of = a /\ manifest[i].is \in {"row", "open"}}) = 1
       /\ \A a \in restored : local[a] = "whole"
  /\ ~killed =>
       \A a \in Artifacts : local[a] = "torn" =>
         a \in writing \/ \E p \in Procs : At(p, "restore") /\ a \in job[p].todo
=============================================================================
