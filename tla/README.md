# Formal verification of stateful-indecision

TLA+ models of the agent runtime in this repository, model-checked with TLC and,
for what matters most, proved with TLAPS. `PROJECT.json` is the index: which definition
models which lines, what each run checks, which mutated definition each property
must catch.

## 1. The system

A run is one Python process (`agent/runner.py`) that takes `max_decisions`
decisions for one agent of an ecosystem. It has no memory but its files; several
agents of one ecosystem, each in its own process, share some of them. A
supervisor (`infra/entrypoint_supervisor.py`) starts the run in a container, and a
sync (`infra/s3_sync.py`) copies the files to S3.

| component | state | operations | talks to |
|---|---|---|---|
| Chain writer, verifier, canonical JSON (`core/`) | one JSONL file per ledger; a flock | `append`, `verify_chain` | every component that logs |
| Run lock (`infra/storage.py`) | `.run.lock.<agent_id>` with a pid | `acquire_run_lock` | runner |
| Runner and decision loop (`agent/runner.py`, `agent/decision.py`) | position in the run, `run_config.json` | start, boundary checks, first run, `step`, summary, four exits | all of the below |
| Executor, notebook, constitution (`agent/`) | research artifacts, notebook ledger, `constitution.md` | one effect per leaf action, `append_revision`, `set_field_chosen` | ledgers, forums, model |
| Policy, state builder, prompts (`agent/`) | none | pure functions of the files | runner |
| Forums (`forums/`) | commons, roundtable and townhall ledgers | visit, speak, leave, convene, broadcast, respond, adjourn, each a write to two ledgers | executor, runner |
| Kill switch, firewalls (`safety/`) | evaluation ledger | `arm`, `evaluate`; path checks | runner |
| S3 sync (`infra/s3_sync.py`) | sidecar with cursors; S3 objects | `sync_ecosystem_once` | reads every file while others write it |
| Sync scheduling (runner threads, supervisor) | daemon thread, subprocess, signals | periodic, final and shutdown sync | S3 sync |
| Shared knowledge (`infra/shared_knowledge*.py`, `tools/`) | candidates, promotions, grants, snapshots | append, promote, materialise, publish, ingest | state builder |
| Beta loop, run config (`tools/run_beta_loop.py`) | config and vocabulary files, hashes | wave, tune, sync hashes | starts runs |
| Batch tools (`tools/batch_etl.py`, `export_to_sqlite.py`, `index_research.py`, ...) | warehouse directories, SQLite tables, research manifest | scan, flush, export, index, restore from bundles | read ledgers and artifacts while agents write them |
| Model client, embeddings, vector and object store, adapters, workloads | external services | calls | executor |

What is hard in it:

- processes that append to one file, readers that take no lock, and writers that
  are killed in the middle of a line (SIGTERM has no handler in the agent);
- a writer that fails or is interrupted gives the lock back before its file is closed,
  and `close()` writes what is still buffered;
- one operation that consists of several writes: forum events, artifact and event,
  constitution and event, `run.completed` and the new `config_version`;
- a sync that reads, modifies and writes remote objects, of which three may overlap,
  and that saves its cursors only at its end;
- a lock file that is checked and written in two steps and recognises its owner by
  a pid;
- files replaced in place with `write_text` (sidecar, lock, first constitution,
  `run_config.json`, `grant_state.json`, `action_vocabulary.json`);
- sessions of several runs that interleave in one forum ledger, each with an object
  that knows nothing of the others;
- jobs and operators that may run at any time beside agents and beside each other,
  append to one file without a lock, and name what they make by the second.

`PROJECT.json` lists these hazards by line, with the properties aimed at each.

## 2. Modules

| module | models | state |
|---|---|---|
| `Ledger` | `ChainWriter.append` step by step under the flock, `verify_chain`, kill, interrupt, OSError with the late `close()`, power loss | the file as pieces, what is fsynced, the flock, each process's position and where it writes |
| `AppendOnlyLog` | the abstract promise of a ledger | a log and the set of committed events |
| `S3Sync` | `sync_ecosystem_once`, get and put by put, while the files grow | files, S3 objects, sidecar, each syncer's memory |
| `SyncLifecycle` | EXTENDS `S3Sync` with who syncs when: periodic thread, final sync, supervisor, two signals | agent process, supervisor and its handlers |
| `RunLock` | `acquire_run_lock`, with stale, torn and vanished files, pid reuse | the lock file, the runs, the live pids |
| `AgentRun` | whole runs of several agents, from `load_run_config` to the exit | events told, files, position in the run |
| `Forums` | `townhall.py`, `roundtable.py`, the visitor the runner injects and the state builder reports | forum ledgers, the objects of each session |
| `SharedKnowledge` | the tools that index, promote, publish, ingest and materialise, the access decision | JSONL files as pieces of lines, grant state, S3 snapshots and HEAD, the jobs |
| `BetaLoop` | waves, checkpoints and tuning, the runs' load and write-back of configs, the hash tool | vocabulary, configs, loop, runs, tool |
| `BatchTools` | `batch_etl`, `export_to_sqlite`, `index_research`, beside agents and the archive sync | ledgers, artifacts, bundles, warehouse, tables, manifest, the jobs |
| `LedgerProofs` | theorems about `Ledger`, and that it implements `AppendOnlyLog` | |
| `SyncLifecycleProofs` | theorems about `S3Sync` and `SyncLifecycle`; the second build on the first | |
| `RunLockProofs`, `AgentRunProofs`, `ForumsProofs`, `SharedKnowledgeProofs`, `BetaLoopProofs`, `BatchToolsProofs` | theorems about the module of that name | |
| `MC...` | TLC instances; a cfg is named after its module and run | |

They stand in this relation. `AgentRun` uses one `append` as one action; `Ledger`
is what justifies that as long as no tip is read before a failed `append` has closed its file,
which the modules above it leave out; what a killed `append` leaves (a torn line, behind
which nothing is ever appended) is taken from there. `RunLock` is why an agent has one
run at a time in `AgentRun`. `SyncLifecycle` composes `S3Sync` with the processes
that call it. `Forums` takes a session's events one append at a time, where `AgentRun`
looks at one agent's operations; `BetaLoop` takes a run as what it does to its config;
`BatchTools` repeats in a few actions what `Ledger` and `S3Sync` say in detail: a line
comes in two halves, a sync bundles what it finds.

### How state and actions correspond to the code

*Ledger.* A piece is an envelope and how much of its line is in the file: part of
the JSON, all of it, or the newline too. The SHA-256 of an envelope is its id, as
envelopes carry a fresh uuid4. Payloads have three kinds, which differ in what
canonical JSON and `str.splitlines()` do to them: plain, with a raw U+2028 or the
like, and with a float that is read back as another number. Actions: `Call`,
`Acquire` (flock), `BuildEnvelope` or `RaiseCorruption` (reading the tip),
`Buffer` (`write()` behind the end, whose place `at` keeps), `WriteStart` and `WriteMore`
(`flush()`: the line arrives in pieces), `Fsync`, `Return`; `Verify` at any time, without the
lock; faults. `_exclusive_lock` unlocks in its `finally`, before the file is closed: an
exception (`WriteFails`, `Interrupt`) of a process with buffered text takes its lock and leaves
it at its position, and its `close()` goes on with `WriteStart` and `WriteMore`, without the
lock and at the old place, or fails once more (`CloseFails`, after an OSError only). If another
line is there by then, the text replaces it or mixes with it (`Overlay`; such a piece is
"damaged"). `exposed` records that a tip was read while somebody was in such a `close()`.

*S3Sync.* Cursors are byte offsets, and a chunk goes from the cursor to the last newline. A
ledger is a sequence of pieces of lines, `LineEnds` are the pieces that end one, and an
offset counts pieces. A cursor is saved behind a newline, but if the ledger is replaced by
an older copy and grows again, lines of other lengths may put it inside a line. One
`SyncStep` is one access to the disk or to S3. The sidecar is truncated and written in two
steps.

*SyncLifecycle.* `child` and `sup[Sup]` are the program counters of the agent process and
the supervisor; `sup[Again]` is that of the handler of a second signal, which Python runs on
top of whatever the supervisor is waiting for: the sync the first handler waits for goes on
as its own process, while the first handler itself only goes on when the second one has
returned (`Runs`). `join(timeout=5)` may give up at any moment,
`subprocess.run(timeout=...)` once. `RunEnds` is a run that completes or that the model's
client ends; `RunAborts` one that ends with `ChainCorruptionError` or `FirewallError`, for
which there is no final sync.

*RunLock.* `exists`, `read_text`, the two halves of `write_text`, `unlink` are one
action each. `reused` records pids that the kernel has given out a second time, `foreign` live
ones of another user, which `_pid_alive` takes for dead as `os.kill` raises `PermissionError`.

*AgentRun.* A run is a script of operations, translated from the order of the calls in the
source: `Startup`, `FirstRun`, `Deciding`, `Effects(leaf)`, `Executed`, `Closing`. The
operations are actions: `AppendEvent`, `ReadFiles`, `VerifyBoundary`, `Revise`,
`WriteArtifact`, `BumpConfig` and so on; `ReadCrashes` is what reading a torn file raises,
in `VerifyBoundary` too if a line is cut inside a character. `Effects(leaf)` is a set, since
what a leaf does depends on the model's answer. Events are counted, not stored: the
properties compare how many there are with what the files hold. Leaves with equal effects
share a name. An exception goes to the handler that the source gives it, and from there, or
from outside the `try`, to the end of the process.

*Forums.* A session is a script of calls on an object, as `executor.py` and the runner
write it; a second user, the host, calls its objects in any order that their checks
allow, as `tests/test_forums.py` does. A call is two actions: `Write` appends to the
forum's ledger, `Mirror` to the public one and only then changes the object, as
`_dual_write` comes before the assignments. `Inject` reads the ledger to its end and
makes the visitor's script; `Message` is what `_latest_external_visitor_briefing` finds.

*SharedKnowledge.* A tool is a job with the lines it still has to write in memory. A
write arrives whole or in two parts, and another job's line may come between
(`Piece`, `Rows`): readers skip what cannot be parsed. A checksum is the content it is
taken of, a snapshot id a tick of the clock.

*BetaLoop.* The vocabulary stands for all files that a config pins, its hash is its
content, weights are hundredths. A process loads its config before it takes the run lock
(`starting`, `Load`, `Lock`), so that one may wait with a copy while another runs. `Load` and
`Use` are two reads of the vocabulary, as in the code. `Complete` appends `run.completed`,
which tells the version; the last verification and evaluation follow, in which the run may
still end (`Fail`, remembered in `cut`); then `Truncate` and `WriteBack` replace the file with
the copy the run has held since it was loaded.

*BatchTools.* A row is the event or artifact it is made from. `ScanLine`, `MetaRow`,
`ExportLedger`, `Fetch`, `Unpack` are one access to a file or an object each. `FlushedParts`
does what `write_to_dataset` does with `basename_template="part-{i}.parquet"`: part-0 of each
ecosystem that has a row is replaced; a part keeps its rows at their places in the buffer.
`Commit` adds to the tables at once what the job gathered, as nothing is visible before.
`WriteBatchManifest` empties `batch_manifest.json`, `Report` fills it. The export drops the
lines of `Separated` events, which `splitlines()` breaks. Bundles are made for each agent
(`Bundle`), and an index job lists those of the agents that the sidecar names (`Listed`).

## 3. Runs

Runs that must pass:

- `ledger_faults`: `ChainLinked`, `AckedDurable`, `DamageOnlyAtEnd`, `StuckIsFinal`,
  `PassedChecksStand`, `AppendReturns` and the refinement `ImplementsLog`.
  Two processes are enough to race for the tip; three envelopes let damage lie
  before the last line; one fault of every kind at every step, an interrupt and an OSError
  with the late `close()` among them. All but `PassedChecksStand`, which speaks of behaviours
  without a fault, and `AppendReturns`, which holds in any case, hold until `exposed`.
- `s3_faulty`: one syncer and one fault of any kind at any step (a failing get or put, a
  kill, two bundles in one second, a malformed line, a restored ledger). Three lines of one,
  two and one pieces, so that an object can be extended twice and the cursor of a restored
  ledger can point into a line; two artifacts, so that a second bundle can replace the
  first; a constitution, whose failing put loses the cursor of the ledger before it.
- `lifecycle_exit`: the four syncers of one container (periodic thread, final sync, and
  the syncs of two handlers), one ledger of one line, and one out of a failing put, a
  spoiled line, a timeout of `subprocess.run` and a second signal. One line is enough for
  what is asked here: whether the sync that a container stops with has seen the last one.
- `runlock_serial`: three runs, three pids, four starts: a stale lock, its pid taken by
  another process, of this user or another, or by another run, a refused start behind it.
  Processes are interchangeable and there is no liveness property, so symmetry is sound.
- `agentrun_faults`: two agents, one in enforce and one in warn mode, two runs (two of
  one agent, or one of each), one decision each, four leaves that cover a retried call
  of the model, an artifact, a forum visit, an amendment and a notebook entry; one
  kill, interrupt or failing call at any operation. A second run of an agent is what
  meets the files that a first one left.
- `forums_sessions`: three runs of two agents that check and tell briefings; two runs with
  a session of their own and a fault; a host's session of five calls and a fault; and
  the host's calls while a run tells its briefing. Five calls are a round or an answer,
  a repetition and the close.
- `shared_jobs`: one job after the other (a write cut in two, a failure; grants that are
  given, narrowed, revoked, outdated), two at a time (with grants, racing for HEAD, with a
  cut write), and the way of an artifact to the prompt. Two artifacts share a content, as
  that is where the first candidate decides.
- `beta_waves`: three waves of two agents with a checkpoint after each, either two calls of
  the hash tool, or one, a fault and a loop that is started again. A config has at most one
  process before the run lock and one with it, which is enough for a copy loaded too early.
  The vocabulary has one leaf for each tuning rule: one without the category that the rule
  shifts to, and little enough of the heaviest left in another that a rule meets its end.
- `batch_jobs`: nine budgets, each a mix of warehouse, export and index jobs, one after the
  other or two at a time; one has three index jobs, two at a time, and a kill. Two rows are a
  chunk, so that a full chunk, a rest and an ecosystem with two flushes all happen, also one
  of two events that the other ecosystem's rows divide; three ledgers, of which two belong to
  one ecosystem and share an event, as a forum event does; an event whose line `splitlines()`
  breaks; two agents of one ecosystem, of which the sidecar may name one.

What the properties say (each is stated in full above its definition):

| run | property | in short |
|---|---|---|
| ledger | `ChainLinked` | racing, failing and killed writers never fork the chain (this row to `StuckIsFinal`: until a tip is read before a failed append has closed its file) |
| | `AckedDurable` | no fault removes an event whose `append` returned |
| | `DamageOnlyAtEnd`, `StuckIsFinal` | only the last line is ever unreadable, and nothing is written behind it |
| | `PassedChecksStand` | a verification that passed stays true whatever is appended |
| | `ImplementsLog` | the file is an append-only log, with the same end of its promise |
| | `AppendReturns` | every `append` returns or raises, and the flock is given back |
| sync | `ArchiveVerifiesUnfailed` | without faults an object is a prefix of its ledger at every moment |
| | `CursorsSurvive`, `BundledIsArchived` | what the sidecar says is in S3 is in S3 |
| | `OnlyRecordsArchived` | no unfinished or malformed line reaches S3, and none without its beginning unless a ledger was restored |
| | `NoGap` | failed syncs repeat lines but leave none out |
| | `EverythingArchived` | the periodic sync catches up |
| lifecycle | `CleanExitArchived`, `SignalStops` | an undisturbed run is archived when its container stops; a signal stops it |
| lock | `OneRun`, `LockNamesTheRun`, `RefusedOnlyIfActive` | mutual exclusion, and no start refused for nothing |
| agent run | `OneOrphanPerRun` | per run cut short, at most one revision, artifact, forum event or field that the public ledger does not tell, and never one it tells that is not there |
| | `DecisionsAccounted`, `VersionsAccounted` | decisions, evaluations, completions and config versions agree up to runs cut short |
| | `FieldChosenOnce`, `OutsideCommons` | no decision without a field, none inside the commons, unless a run was cut short |
| | `TornStopsRuns`, `RunsEnd` | behind a torn public ledger no new run begins its work; every run ends |
| forums | `BriefingAttribution` | a prompt attributes to the visitor the visitor's words, unless another session was convened before and spoke after |
| | `RepeatsOverlap` | a briefing is told twice in a row only by runs that checked before either told it |
| | `RoundsAccounted` | each round and adjourn counts exactly who spoke and answered, whichever append fails |
| shared | `HeadSound` | what HEAD names is there and matches its checksums |
| | `RevocationTimely` | nobody retrieves after a revocation by more than the age limit and the time a job held its copy |
| | `PublishExact` | no content is promoted twice, none without a good artifact, and a publication has all there is |
| beta | `RunsAsPinned` | a run samples from the vocabulary it pins, unless two loops overlap |
| | `TunedLoads` | no sequence of tunings makes a vocabulary that cannot be loaded |
| | `ConfigsKept` | unless a config was written while another process held a copy: a version is told twice only after a run that ended between telling and writing it, and no corrected hash is undone |
| batch | `BatchComplete` | in directories of one job: `latest` leads to a finished batch, which has each event there was, once, in the parts flushed once |
| | `ExportKept` | the tables have all a committed export had to find, lines that `splitlines()` breaks excepted, and keep it |
| | `ResearchIndexed` | the manifest has all an index job had to find, once, bundles of agents that the sidecar does not name excepted; what it restored is whole |

The bounds `MaxEvents`, `MaxLength`, `MaxVersion`, `MaxStarts`, `MaxRuns`, `MaxDecisions`
and `MaxFaults` are guards of the actions that would exceed them. `MaxDecisions` is
the program's own parameter. Deadlock is not checked where the bound ends every
behaviour (`RunLock`, `AgentRun`): all runs may be over.

Runs that must find a violation: each shows one disagreement between the code and what
the repository says of it. `PROJECT.json` quotes the sentence.

- `lifecycle_overlap`: periodic and shutdown sync overlap; a saved cursor runs ahead of S3,
  without any fault.
- `runlock_race`: two starts at the same time both run.
- `beta_tuned`: the first tuning makes every config pin a vocabulary that is no more, all
  runs are refused, and a loop that should run until 1.0.0 aborts.

### Other disagreements and known weaknesses

These were met while modelling. The models contain them, and the properties are stated so
that they allow for exactly these cases.

Ledgers and runs:

- No run can append behind a partial line; README.md:162 says "the next run can tolerate"
  it (`core/writer.py:68`).
- An event with U+0085, U+2028 or U+2029 in a string is acknowledged and unreadable, as
  `str.splitlines()` breaks lines there (`core/writer.py:62`).
- `append` gives the flock back before it closes its file (`core/writer.py:44-45`, `:105`). After
  an interrupt between `write` and `flush`, or a flush that failed for a moment, `close()`
  writes the line without the lock, at the old end of the file: another writer that has read
  the tip forks the chain, and one that has appended loses the line it was told is safe. What
  holds until then is proved; `exposed` says when it no longer does.
- A writer killed between its JSON and the newline gets the next event on its own line,
  which makes an acknowledged event unreadable.
- Without a fault, a run dies of a line that another agent is writing to a shared ledger
  (`agent/state_builder.py:235`); README.md:162 calls each append atomic.
- `agent.shutdown` and `agent.error` are appended after the last sync of their container.
- A container whose run has the pid of the killed one before it is refused because of
  itself. A run of another user is taken for dead (`infra/storage.py:42-47`), so that a
  second one of its agent starts beside it: `OneRun` is of the runs of one user. SIGTERM
  leaves the lock file. `READ` without `web.search` leaves no `tool.blocked` marker.

Archive:

- A failing `get_object` is taken for an empty object, and the upload replaces the archive
  by its new lines (`infra/s3_sync.py:187`; `_plans/s3_data_offload_design.md:120` calls the
  cursor's bytes "durably committed").
- A failed put loses the cursors of all surfaces before it, whose lines the next sync
  appends a second time (`infra/s3_sync.py:364`; the design's line 143 promises a continuous
  chain after a restore).
- `record_hash` is never compared, so a restored ledger is spliced onto the archive of its
  former self, and if the old cursor points into a line of it, a fragment is uploaded, as
  only the last line of a chunk is parsed (`infra/s3_sync.py:102-118`, `:154-166`;
  `_plans/s3_data_offload_design.md:128` and `:144` say it cannot be). A torn sidecar stops
  syncing for good. A malformed last line keeps the sound lines before it out of S3.
- An artifact that is bundled while it is written is never sent again: the archive keeps
  its half. Two bundles of one second are one object.

Forums:

- The docstring at `agent/runner.py:75-79` wants the visitor once for all agents of a wave.
  The ledger is checked without its lock, so that runs which start together each tell the
  briefing.
- The first broadcasts behind the visitor's convene are taken for the visitor's, also if
  they belong to another session.
- When the append to the public ledger fails, the forum's ledger keeps an event that the
  object does not count.

Shared knowledge:

- Two publications of one second share a snapshot id, and the HEAD of the first names
  objects that do not match its checksums.
- The first candidate with a content decides on its quality for good. A row that is
  appended behind half a line is lost with it.

Beta loop:

- `tools/README-Level1-Adaptation.md:12-15` leaves it to the operator to run the hash tool;
  the loop does not, hence `beta_tuned`.
- `_bump_patch` never carries over, so that no number of runs leads to the hard stop 1.0.0.
- A run that completes undoes what the hash tool wrote meanwhile, and a process that loaded its
  config before it got the run lock what the run before it wrote.
- A run that ends between `run.completed` and the write of its config (`agent/runner.py:897`,
  `:928`) has the next run tell its version again.

Batch tools:

- `batch_etl.py:7` promises one row per event. The buffer is one for all ecosystems and is
  flushed when it has a chunk (50,000 rows by default), each flush replaces part-0 of every
  ecosystem in it: one whose rows lie on both sides of a flush, however few, loses those of
  the flush before, while `batch_manifest.json` counts all rows.
- The export breaks lines with a raw U+2028 or U+0085 and passes over their pieces, so that a
  whole, acknowledged event is in no table (`tools/export_to_sqlite.py:91-97`).
- A ledger that ends in the middle of a character kills a warehouse job and an export: the
  readers catch `JSONDecodeError`, not `UnicodeDecodeError`.
- `index_research --from-s3` finds only bundles of agents that the sidecar of this host names
  (`tools/index_research.py:90`), none without a sidecar, and leaves a torn
  local file as it is, though a bundle has the whole.
- The row behind a manifest line without its newline garbles both. An index job that had read
  the first of them before does not write it again, so that its artifact is in no row until
  the next job.

## 4. Fairness

- `Ledger`: a process inside `append()` keeps running (weak), and `flock()` queues its
  waiters (strong, for `Acquire` only). Nothing is assumed of who calls `append()`.
- `S3Sync`: the periodic thread starts syncs again and again and each of its steps ends.
  Faults are not fair, and each happens at most once.
- `SyncLifecycle`: the main thread, the supervisor and a writer inside a line go on. The
  periodic thread is not fair, as its S3 calls may hang: `SignalStops` holds without it,
  because `join` and `subprocess.run` have timeouts, and also when a second signal
  interrupts the first handler. The end of the run is not fair.
- `AgentRun`: a started run takes its steps; model calls return or raise. Starting
  a run is not fair.
- `Forums`, `SharedKnowledge`, `BetaLoop` and `BatchTools` have safety properties only:
  nothing in the code obliges anybody to start a run, a job or a tool.

## 5. What is proved

Every theorem holds for all values of the constants that the module's `ASSUME` admits: any
number of agents, files, jobs and syncs, any bounds. TLC evaluates each assumption on its
instances. `PROJECT.json` lists the theorems; this is how they are argued. None of the
properties is inductive; each section names what its invariant adds.

*Ledger* (`LedgerProofs`): `TypeOK`, `ChainLinked`, `AckedDurable`, `DamageOnlyAtEnd`,
`StuckIsFinal`, `PassedChecksStand`, and `Spec => ImplementsLog`. `IInv` adds `LockInv`:
whoever is between the reading of the tip and the fsync holds the flock, unless it is in the
`close()` of a failed append. Nothing else can be kept once a tip was read beside such a
`close()`; until then (`~exposed`) `OrderInv` holds: one process at a time has an envelope
that is not in the file or not finished there (`Exclusive`); it is linked to the tip, with
its place at the end, before it is written, and is the last piece afterwards, with the end
its position says (`WriterInv`); ids in the file grow (`IdsGrow`), so that an id names one
event. A late `close()` before the next reading of the tip is such a process without a lock,
and so extends the log as an append that did not fail. `PassedChecksStand` needs `CleanTail`
besides: as long as nothing has failed, a line without its newline at the end belongs to a
process that is inside its write, so that what a passed check covered is never written into.
The refinement maps `intact` to `~exposed` and the file to the ids of its complete
envelopes: completing the JSON is `Extend`, `Return` is `Commit`, a power loss is `Lose`, an
early reading of the tip is `Break`, everything else stutters.

*Run lock* (`RunLockProofs`): `TypeOK` and `RefusedOnlyIfActive` for starts that overlap as
they like: a pid in the file that nobody got a second time is that of the run which wrote it,
and pids of live runs differ (`HolderInv`). `OneRun` and `LockNamesTheRun` under the assumption
that starts do not overlap (`Serial`); `runlock_race` shows that it is needed. `OwnInv` adds
that nobody is about to write while a run is active, and that an open lock file is still
linked while it is filled.

*Agent run* (`AgentRunProofs`): `TypeOK`, `OneOrphanPerRun`, `DecisionsAccounted`,
`VersionsAccounted`, `FieldChosenOnce`, `OutsideCommons` and `TornStopsRuns`, for any agents,
leaves, tools, faults and bounds. A run is a script, so the invariant is about what is left of
it. `Rules` holds of every rest of every script that the source's branches make: what the
public ledger has to tell is told by the next operation (`Paired`), a decision's operations
keep their order (`InOrder`), and what was begun is still to be ended (`Follows`). `RunInv`
then ties each file to the script: `OrphanInv` (what is there and untold is owed by the head of
the script, or was left by a run that was cut short), `DecisionInv` and `VersionInv` (likewise for
evaluations and config versions), `FieldInv`, `CommonsInv`. Without the script none of them is
inductive, as the counts of a run in its middle differ from those at its end. `TornStopsRuns`
is an action property, from: behind a torn line no run is past its `agent.run.started`
(`Stopped`).

*Archive sync* (`SyncLifecycleProofs`). For any number of overlapping syncs and all faults:
`OnlyRecordsArchived`, as every part of the way (what was read, what was downloaded, what
is about to be put) ends with a record and holds no malformed line (`CleanInv`), and, until a
ledger is restored, begins with one, as every cursor stands between two lines of its ledger
(`AlignedInv`); and `BundledIsArchived`, as whatever a
syncer or the sidecar calls bundled is in some bundle already (`BundleInv`). Under
`[]Serial`, one sync at a time: `CursorsSurvive`, `NoGap` and `ArchiveVerifiesUnfailed`.
`Good` says of each position of a sync how cursor, object and ledger stand to each other:
the cursor is never ahead of the object's last record, and what is about to be put extends
the object by what follows the cursor. After survivable faults the object may run ahead of
the saved cursor, which is why `ArchiveVerifiesUnfailed` has an invariant of its own
(`ExactInv`: cursor and object agree to the line). `Serial` is needed: `lifecycle_overlap`
shows two syncs that break `CursorsSurvive` without any fault.

*Sync scheduling* (the same module). No lock makes the syncs of a container take turns.
`UndisturbedIsSerial` proves that they do if the periodic thread was joined in time and no
signal came: the final sync begins behind the join, the supervisor's behind the end of the
process (`TurnInv`). In such a container the sync invariants above hold, and from them
follows `CleanExitArchived`: the last sync found each ledger whole (`WholeInv`, nobody
writes any more), and has sent all it found (`FinalInv`). `OnlyRecordsArchived` and
`BundledIsArchived` hold in every container.

*Shared knowledge* (`SharedKnowledgeProofs`): `HeadSound`, as objects are put before the
HEAD that names them and are not replaced unless two publications share a second
(`SnapInv`), and a grant state is torn only inside a write, which another job meets only
when jobs overlap (`AloneInv`). `RevocationTimely`: each copy of the grant state, in a job
or in the file, is what the ledger granted at some moment between its `readAt` and its
`stamp` (`GrantInv`). It has the hypothesis `MaxAge # 0`, as an age limit of 0 turns the
check off in the code. `PublishExact`: whatever jobs overlap, every promotion is what a good
artifact says (`LineInv`). As long as none has, a content has one line at most, in the file
or in the memory of the job (`RepeatInv`), and a job that found whole files has each
artifact it found in the candidates, then its content in the promotions, then in what it
publishes, unless the exemplar is not good (`FoundInv`). Of a job that met half a line
nothing is promised: its first row is lost with it.

*Beta loop* (`BetaLoopProofs`): `RunsAsPinned`, as the loop tunes only when the runs it
waits for have ended (`OwnInv`); `ConfigsKept`, which needs that as long as
nobody wrote beside another's copy, the file and all copies of a config, in a starting process,
a run or the tool, have one version (`Agreed`), which is the one told last only while the run
that told it closes or after it was cut short, and have the present hash once it was set right
(`Right`); and `TunedLoads` if the first vocabulary loads. For that `ShiftKeepsTotal`
proves that a shift keeps the sum of a leaf's weights, whatever the amount and whether or
not the target was there. The sum is a fold over a set; what it computes is proved without
an induction scheme, from a smallest subset for which it would be wrong (`SmallestSubset`,
from the well-foundedness of strict inclusion).

*Forums* (`ForumsProofs`): `BriefingIsAttributed` and `OnlyOverlapsRepeat`, for any number
of agents, topics and sessions. What remains of a session's script tells what the
townhall's ledger holds of that session (`SessionInv`): a visitor's session is at most a
convene, a broadcast behind it and an adjourn, of one object. A topic is told twice in a
row only by a run that had read the ledger before the other one convened.
`RoundsAreAccounted`: what an object has counted is what its public events tell, and an event
that only the forum's ledger has is the last of its object and agrees with its count
(`CountInv`). It speaks of whole ledgers, and is inductive because an append moves
one event of one object. The host is
assumed not to be one of the agents: the name stands for the objects of a program that
hosts a session for members, which are in no agent's run.

*Batch tools* (`BatchToolsProofs`): `ExportKept`, `BatchComplete`, `ResearchIndexed`, for
any ledgers, events, artifacts, chunk size and number of jobs at a time. `ExportKept`:
whatever an export had to find is among its rows, in a ledger it has not read, or a whole
artifact still to be read (`ExportInv`); a whole artifact stays whole while a job runs.
`BatchComplete`: an event is told to its ledgers in order, and to each once (`LineInv`), so
that a job which has passed its line has exactly one row of it, in the buffer or, behind one
flush, in the part (`Tracks`, `Held`); what a job took for a line behind half of one cannot
hide a line that was there when it started. How many jobs ever used a directory tells
whether one is alone in it and whether its manifest is empty or about to be filled
(`UserInv`), and a finished directory stays as it is (`FinishedInv`). `ExportKept` leaves
out the `Separated` events on both sides: none is due and none is in a row.
`ResearchIndexed`: a bundle holds its agent's artifacts, and one that is listed and can
still be replaced only what the sidecar knows (`KnownInv`), so that what a job had to find
there is found, in a bundle it will read, or in no bundle any more (`FoundInv`); while no
index jobs overlapped, what a job has read of the manifest is what the manifest says
(`ManifestInv`), and what it unpacks is torn only between its two writes (`RestoreInv`,
`TornInv`). The attempt showed that the property was false beyond the bounds TLC had: a job
that read a row does not write it again if an overlapping job garbles it. The property now
says so, and a budget of the run shows it.

Only model-checked, for good: every liveness property (`AppendReturns`, `EverythingArchived`,
`SignalStops`, `RunsEnd`), as fairness and ENABLED are out of the prover's reach. The three
runs that find a violation show what the theorems' hypotheses exclude (`Serial`, one sync at a
time) or what nothing in the code promises (`beta_tuned`).

## 6. Not modelled

- Policy sampling, prompts, schemas, firewalls: pure functions or declarations.
- Model client, adapters, embeddings, stores: I/O of external services.
- The state builder, except for what it reads and may die of (`AgentRun`), the visitor's
  briefing (`Forums`) and the access decision (`SharedKnowledge`): it formats and caps text.
- Options of a run that are off by default: retrieval, peer context, `pi_reason`; a run
  without a run_config.
- `AgentRun` abstracts a killed `append()` to a torn line; the line without its newline is
  in `Ledger`, and so is the late `close()` of a failed append. `BatchTools` leaves out
  lines of two events, which no job can parse, pieces of a broken line that happen to be
  JSON themselves, and bundles that are put while an index job lists them. It takes
  `max_decisions` to be positive: with 0 and verifier_mode "enforce" the kill switch refuses
  the end of the run.
- A second signal of another kind than the first, a third one, a restart of the
  container, `research_mode` per object.
- The uploads at a checkpoint of the beta loop; `check_run_config_hashes`, which only reads.
- `grant_version`, the optional objects of a snapshot, and
  `run_shared_knowledge_batch.py`, which imports a function that does not exist.
- `merge_chains` (repairs files of one machine at fixed paths), `consolidate_notebook` (run
  once by hand), `export_trajectories`, `notebook_novelty` (report what they read),
  `artifact_bodies.jsonl` of `batch_etl` (a line for each row of the metadata).

## 7. What could follow

Modelled, checked and proved: section 5 states every safety invariant and action property of
the passing runs as a theorem. Not done:

1. An abstract specification above `BatchTools` or `SharedKnowledge` (a table that only grows, a
   pipeline as one step), as `AppendOnlyLog` is one of `Ledger`.
2. A refinement from `AgentRun` to `Ledger`, which would replace the argument of section 2 that
   one `append` may be taken as one action.
3. The notebook tools and `merge_chains`, should they be run beside agents one day.
