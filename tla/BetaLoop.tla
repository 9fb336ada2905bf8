------------------------------ MODULE BetaLoop ------------------------------
(***************************************************************************)
(* tools/run_beta_loop.py: waves of runs, one for each run_config file, and *)
(* at every checkpoint a tuning of seeds/action_vocabulary.json.           *)
(*                                                                         *)
(* A run_config pins the files a run depends on by their hashes.  A run    *)
(* refuses to start if one has another hash, fills in the hashes that are  *)
(* missing, and when it completes writes its copy of the config back with  *)
(* the next version.  tools/sync_run_config_hashes.py, which an operator   *)
(* runs, writes the same files.  Here the vocabulary stands for all pinned *)
(* files, as only the loop changes it, and its hash is its content.  What  *)
(* a run does otherwise is AgentRun.tla.                                   *)
(***************************************************************************)
EXTENDS Integers, Sequences, FiniteSetsExt

CONSTANTS
  Configs,         \* run_config files, each of an agent of its own
  Versions,        \* config_versions they may start with
  Vocabulary,      \* leaf_category_weights, in hundredths
  CheckpointWaves, \* --checkpoint-waves
  MaxWaves,        \* --max-waves, or None
  None, Torn,
  Budgets          \* bound: tool calls, failures and kills, starts of the loop

Categories ==
  {"RESEARCH", "RIFF", "PRACTICE"}
    \cup (UNION {DOMAIN Vocabulary[leaf] : leaf \in DOMAIN Vocabulary})

\* A leaf weighs some of the categories.
Weights == UNION {[among -> Nat] : among \in SUBSET Categories}
Hashes == [DOMAIN Vocabulary -> Weights] \cup {None, Torn}

ASSUME BetaAssumption ==
  /\ Vocabulary = [leaf \in DOMAIN Vocabulary |-> Vocabulary[leaf]]
  /\ \A leaf \in DOMAIN Vocabulary : Vocabulary[leaf] \in [DOMAIN Vocabulary[leaf] -> Nat]
  /\ IsFiniteSet(Categories)
  /\ Torn \notin [version : Nat \X Nat \X Nat, hash : Hashes]
  /\ CheckpointWaves \in Nat \ {0}
  /\ MaxWaves \in Nat \cup {None}
  /\ Versions \subseteq Nat \X Nat \X Nat
  /\ Budgets \subseteq [tools : Nat, faults : Nat, loops : Nat]

VARIABLES
  vocab,   \* action_vocabulary.json, Torn after a kill
  conf,    \* each run_config file: [version, hash], or Torn
  loop,    \* the loop process
  starting, \* the process of each config that has not taken the run lock
  run,     \* the run of each config, which holds the lock of its agent
  tool,    \* sync_config() of each config: what it read, and is to write
  told,    \* ghost: the version in the last run.completed of each config
  cut,     \* ghost: the configs whose run ended between telling and writing
  fixed,   \* ghost: the configs written with the hash of the present vocabulary
  crossed, \* ghost: the configs written while another process had a copy
  faulty,  \* ghost: whether anything was made to fail or killed
  left     \* bound: what is left of the budget

vars == <<vocab, conf, loop, starting, run, tool, told, cut, fixed, crossed, faulty, left>>
ghosts == <<told, cut, fixed, crossed, faulty>>

Spend(what) == left[what] > 0 /\ left' = [left EXCEPT ![what] = @ - 1]

-----------------------------------------------------------------------------
(* Versions and weights *)

HardStop == <<1, 0, 0>>

\* version_gte()
Gte(l, r) ==
  \/ l[1] > r[1]
  \/ l[1] = r[1] /\ l[2] > r[2]
  \/ l[1] = r[1] /\ l[2] = r[2] /\ l[3] >= r[3]

Bump_slip(v) == [v EXCEPT ![3] = IF @ > 201 THEN 0 ELSE @ + 1]

\* _bump_patch(): a patch never carries over to the minor version.
Bump(v) == [v EXCEPT ![3] = @ + 1]

Heaviest(w, among) == CHOOSE k \in among : \A j \in among : w[k] >= w[j]

\* A target that is missing is added.
WithTarget(w, target) == [k \in DOMAIN w \cup {target} |-> IF k \in DOMAIN w THEN w[k] ELSE 0]

Donors(w, target) == {k \in DOMAIN w \ {target} : w[k] > 0}

ShiftWeight_slip(w, target, amount) ==
  LET out == WithTarget(w, target)  donor == Heaviest(out, Donors(out, target))
  IN IF Donors(out, target) = {} THEN out
     ELSE [out EXCEPT ![donor] = @ - amount, ![target] = @ + amount]

\* shift_weight(); normalize() divides by the total, which stays 100.
ShiftWeight(w, target, amount) ==
  LET out == WithTarget(w, target)
      donor == Heaviest(out, Donors(out, target))
      delta == Min({amount, out[donor]})
  IN IF Donors(out, target) = {} THEN out
     ELSE [out EXCEPT ![donor] = @ - delta, ![target] = @ + delta]

\* tune_action_vocabulary(), given what the ledgers say: notebooks are rich,
\* the commons is quiet, no skill was authored.
Tuned(v, index, rich, quiet, unskilled) ==
  [leaf \in DOMAIN v |->
     CASE rich /\ leaf \in {"SELF_REFLECT", "THINK_DEEPLY", "DEEP_PATTERN_RECOGNITION"}
            -> ShiftWeight(v[leaf], "RESEARCH", 5)
       [] quiet /\ leaf \in {"VISIT_COMMONS", "VISIT_ROUNDTABLE", "SHARE_IDEA"}
            -> ShiftWeight(v[leaf], "RIFF", 6)
       [] index >= 3 /\ unskilled /\ leaf = "WRITE"
            -> ShiftWeight(v[leaf], "PRACTICE", 8)
       [] OTHER -> v[leaf]]

\* ActionVocabulary.load() accepts it, and no weight is negative.
Loads(v) ==
  \A leaf \in DOMAIN v :
    /\ MapThenSumSet(LAMBDA k : v[leaf][k], DOMAIN v[leaf]) = 100
    /\ \A k \in DOMAIN v[leaf] : v[leaf][k] >= 0

-----------------------------------------------------------------------------
Ended(why) == [at |-> why, wave |-> 0, index |-> 0, failures |-> 0,
               waits |-> {}, ok |-> FALSE]
NoProcess == [at |-> "idle", own |-> FALSE, copy |-> None]
NoRun == [at |-> "idle", own |-> FALSE, copy |-> None, used |-> None]

Init ==
  /\ vocab = Vocabulary
  /\ conf \in [Configs -> [version : Versions, hash : {None, Vocabulary}]]
  /\ loop = Ended("not started")
  /\ starting = [c \in Configs |-> NoProcess]
  /\ run = [c \in Configs |-> NoRun]
  /\ tool = [c \in Configs |-> None]
  /\ told = [c \in Configs |-> None]
  /\ cut = {} /\ fixed = {} /\ crossed = {} /\ faulty = FALSE
  /\ left \in Budgets

(* The loop *)

LoopAt(step) == loop.at = step
Stopped == {"not started", "done", "max waves", "aborted", "crashed"}

StartLoop ==
  /\ loop.at \in Stopped
  /\ Spend("loops")
  /\ loop' = Ended("top")
  /\ UNCHANGED <<vocab, conf, starting, run, tool, ghosts>>

\* The top of the loop: which configs are active, and a wave of them.  A config
\* may still have a process of a loop that was killed (bound: one before it has
\* the lock, and one that has it).
Wave ==
  /\ LoopAt("top")
  /\ LET active == {c \in Configs : ~Gte(conf[c].version, HardStop)} IN
     IF \E c \in Configs : conf[c] = Torn
     THEN loop' = Ended("crashed") /\ UNCHANGED starting
     ELSE IF active = {} THEN loop' = Ended("done") /\ UNCHANGED starting
     ELSE IF MaxWaves # None /\ loop.wave >= MaxWaves
     THEN loop' = Ended("max waves") /\ UNCHANGED starting
     ELSE LET starts == {c \in active : starting[c].at = "idle"} IN
          /\ loop' = [loop EXCEPT !.at = "wave", !.wave = @ + 1, !.waits = starts, !.ok = FALSE]
          /\ starting' =
               [c \in Configs |-> IF c \in starts
                                  THEN [NoProcess EXCEPT !.at = "load", !.own = TRUE]
                                  ELSE starting[c]]
  /\ UNCHANGED <<vocab, conf, run, tool, ghosts, left>>

\* All runs of the wave have exited.
WaveEnds ==
  /\ LoopAt("wave")
  /\ loop.waits = {}
  /\ LET failures == IF loop.ok THEN 0 ELSE loop.failures + 1 IN
       loop' = IF failures >= 3 THEN Ended("aborted")
               ELSE [loop EXCEPT !.failures = failures,
                      !.at = IF loop.wave % CheckpointWaves = 0 THEN "checkpoint" ELSE "top"]
  /\ UNCHANGED <<vocab, conf, starting, run, tool, ghosts, left>>

\* The vocabulary is rewritten in place; configs that pin another are not.
Tune ==
  /\ LoopAt("checkpoint")
  /\ loop' = [loop EXCEPT !.at = "top", !.index = @ + 1]
  /\ vocab # Torn
  /\ \E rich, quiet, unskilled \in BOOLEAN :
       vocab' = Tuned(vocab, loop.index + 1, rich, quiet, unskilled)
  /\ fixed' = IF vocab' = vocab THEN fixed ELSE {}
  /\ UNCHANGED <<conf, starting, run, tool, told, cut, crossed, faulty, left>>

\* The vocabulary, or a ledger, cannot be parsed, or the analysis fails.
TuneFails ==
  /\ LoopAt("checkpoint")
  /\ loop' = Ended("crashed")
  /\ IF vocab = Torn THEN UNCHANGED <<left, faulty>> ELSE Spend("faults") /\ faulty' = TRUE
  /\ UNCHANGED <<vocab, conf, starting, run, tool, told, cut, fixed, crossed>>

\* A kill leaves the runs of a wave to themselves, and half a vocabulary if it
\* was being written.
KillLoop ==
  /\ loop.at \notin Stopped
  /\ Spend("faults")
  /\ faulty' = TRUE
  /\ loop' = Ended("crashed")
  /\ starting' = [c \in Configs |-> [starting[c] EXCEPT !.own = FALSE]]
  /\ run' = [c \in Configs |-> [run[c] EXCEPT !.own = FALSE]]
  /\ \/ UNCHANGED <<vocab, fixed>>
     \/ LoopAt("checkpoint") /\ vocab' = Torn /\ fixed' = {}
  /\ UNCHANGED <<conf, tool, told, cut, crossed>>

-----------------------------------------------------------------------------
(* Runs *)

RunAt(c, step) == run[c].at = step

\* A process exits with code 0 or another; the loop may wait for it.
Reaped(c, own, ok) ==
  loop' = IF own THEN [loop EXCEPT !.waits = @ \ {c}, !.ok = @ \/ ok] ELSE loop

\* One that has not taken the run lock exits.
Quit(c) ==
  /\ starting' = [starting EXCEPT ![c] = NoProcess]
  /\ Reaped(c, starting[c].own, FALSE)

\* A run exits, and its lock is released.
Exit(c, ok) ==
  /\ run' = [run EXCEPT ![c] = NoRun]
  /\ Reaped(c, run[c].own, ok)

Refused_slip(c) ==
  \/ conf[c] = Torn
  \/ Gte(conf[c].version, HardStop)

\* load_run_config() or main() raises.
Refused(c) ==
  \/ conf[c] = Torn
  \/ conf[c].hash \notin {None, vocab}
  \/ Gte(conf[c].version, HardStop)

\* The config is read before the run lock is taken.
Load(c) ==
  /\ starting[c].at = "load"
  /\ IF Refused(c) THEN Quit(c)
     ELSE /\ starting' = [starting EXCEPT ![c].at = "lock",
                            ![c].copy = [conf[c] EXCEPT !.hash = IF @ = None THEN vocab ELSE @]]
          /\ UNCHANGED loop
  /\ UNCHANGED <<vocab, conf, run, tool, ghosts, left>>

\* acquire_run_lock() refuses an agent that has a run.
Lock(c) ==
  /\ starting[c].at = "lock"
  /\ IF ~RunAt(c, "idle") THEN Quit(c) /\ UNCHANGED run
     ELSE /\ run' = [run EXCEPT ![c] = [at |-> "start", own |-> starting[c].own,
                                        copy |-> starting[c].copy, used |-> None]]
          /\ starting' = [starting EXCEPT ![c] = NoProcess]
          /\ UNCHANGED loop
  /\ UNCHANGED <<vocab, conf, tool, ghosts, left>>

\* The vocabulary is read again after it was hashed.
Use(c) ==
  /\ RunAt(c, "start")
  /\ IF vocab = Torn \/ ~Loads(vocab) THEN Exit(c, FALSE)
     ELSE /\ run' = [run EXCEPT ![c].at = "decide", ![c].used = vocab]
          /\ UNCHANGED loop
  /\ UNCHANGED <<vocab, conf, starting, tool, ghosts, left>>

\* run.completed tells the version; the last verification and evaluation follow.
Complete(c) ==
  /\ RunAt(c, "decide")
  /\ told' = [told EXCEPT ![c] = run[c].copy.version]
  /\ cut' = cut \ {c}
  /\ run' = [run EXCEPT ![c].at = "close"]
  /\ UNCHANGED <<vocab, conf, loop, starting, tool, fixed, crossed, faulty, left>>

\* write_text() truncates the file first.
Truncate(c) ==
  /\ RunAt(c, "close")
  /\ conf' = [conf EXCEPT ![c] = Torn]
  /\ run' = [run EXCEPT ![c].at = "write"]
  /\ crossed' = IF tool[c] # None \/ starting[c].at = "lock" THEN crossed \cup {c} ELSE crossed
  /\ UNCHANGED <<vocab, loop, starting, tool, told, cut, fixed, faulty, left>>

WriteBack(c) ==
  /\ RunAt(c, "write")
  /\ conf' = [conf EXCEPT ![c] = [run[c].copy EXCEPT !.version = Bump(@)]]
  /\ fixed' = IF run[c].copy.hash = vocab THEN fixed \cup {c} ELSE fixed
  /\ Exit(c, TRUE)
  /\ UNCHANGED <<vocab, starting, tool, told, cut, crossed, faulty, left>>

\* A model that fails, a torn ledger, a kill; an interrupt exits with code 0.
Fail(c) ==
  /\ ~RunAt(c, "idle")
  /\ Spend("faults")
  /\ faulty' = TRUE
  /\ \E ok \in BOOLEAN : Exit(c, ok)
  /\ cut' = IF RunAt(c, "close") THEN cut \cup {c} ELSE cut
  /\ UNCHANGED <<vocab, conf, starting, tool, told, fixed, crossed>>

\* A kill or an interrupt before the run.
StartFails(c) ==
  /\ starting[c].at # "idle"
  /\ Spend("faults")
  /\ faulty' = TRUE
  /\ Quit(c)
  /\ UNCHANGED <<vocab, conf, run, tool, told, cut, fixed, crossed>>

-----------------------------------------------------------------------------
(* sync_config() of one run_config file *)

\* It writes only if a hash differs; a torn vocabulary has a hash too.
Synced(c) == [conf[c] EXCEPT !.hash = vocab]

ToolReads(c) ==
  /\ tool[c] = None
  /\ Spend("tools")
  /\ conf[c] # Torn
  /\ IF Synced(c) = conf[c] THEN UNCHANGED tool
     ELSE tool' = [tool EXCEPT ![c] = [new |-> Synced(c), half |-> FALSE]]
  /\ UNCHANGED <<vocab, conf, loop, starting, run, ghosts>>

ToolTruncates(c) ==
  /\ tool[c] # None
  /\ ~tool[c].half
  /\ conf' = [conf EXCEPT ![c] = Torn]
  /\ tool' = [tool EXCEPT ![c].half = TRUE]
  /\ UNCHANGED <<vocab, loop, starting, run, ghosts, left>>

ToolWrites(c) ==
  /\ tool[c] # None
  /\ tool[c].half
  /\ conf' = [conf EXCEPT ![c] = tool[c].new]
  /\ tool' = [tool EXCEPT ![c] = None]
  /\ crossed' = IF ~RunAt(c, "idle") \/ starting[c].at = "lock" THEN crossed \cup {c} ELSE crossed
  /\ fixed' = IF tool[c].new.hash = vocab THEN fixed \cup {c} ELSE fixed
  /\ UNCHANGED <<vocab, loop, starting, run, told, cut, faulty, left>>

LoopStep == StartLoop \/ Wave \/ WaveEnds \/ Tune \/ TuneFails \/ KillLoop
StartStep(c) == Load(c) \/ Lock(c) \/ StartFails(c)
RunStep(c) == Use(c) \/ Complete(c) \/ Truncate(c) \/ WriteBack(c) \/ Fail(c)
ToolStep(c) == ToolReads(c) \/ ToolTruncates(c) \/ ToolWrites(c)

Next == LoopStep \/ \E c \in Configs : StartStep(c) \/ RunStep(c) \/ ToolStep(c)

Spec == Init /\ [][Next]_vars

-----------------------------------------------------------------------------
(* Properties *)

\* A run samples its actions from the vocabulary whose hash run.completed will
\* tell: the file is hashed and then read again, and nothing tunes it in
\* between unless the loop was killed and another one tunes beside its runs.
RunsAsPinned ==
  \A c \in Configs :
    RunAt(c, "decide") /\ run[c].used # run[c].copy.hash => ~run[c].own

\* However often a vocabulary is tuned, a run can load it.
TunedLoads == vocab = Torn \/ Loads(vocab)

\* Unless a config is written while another process holds a copy of it, a run
\* or the tool, a version that was told is told again only if the run that told
\* it ended before it wrote the config; and a hash that was set right stays
\* right in every later version, until the vocabulary changes.
ConfigsKept ==
  \A c \in {d \in Configs \ crossed : conf[d] # Torn} :
    /\ told[c] # None =>
         /\ Gte(conf[c].version, told[c])
         /\ conf[c].version = told[c] => RunAt(c, "close") \/ c \in cut
    /\ c \in fixed => conf[c].hash = vocab

\* What the help text of --max-waves says: without it the loop runs until the
\* hard stop.
RunsUntilStopped == MaxWaves = None /\ LoopAt("aborted") => faulty
=============================================================================
