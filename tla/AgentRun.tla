------------------------------ MODULE AgentRun ------------------------------
(***************************************************************************)
(* agent/runner.py with agent/decision.py and agent/executor.py: the runs  *)
(* of several agents of one ecosystem, from load_run_config() to the exit, *)
(* with everything a run leaves behind: events in the shared ledgers, and  *)
(* files of the agent's own.  RunLock.tla keeps two runs of one agent      *)
(* apart; here an agent has one run at a time.                             *)
(*                                                                         *)
(* A run is a script: the operations that it still has to do before it     *)
(* decides what to do next.  An operation is atomic except for what a kill *)
(* in the middle of it leaves, a torn line (Ledger.tla) or a torn file, and*)
(* for readers that take no lock and see a line that is half written.      *)
(*                                                                         *)
(* Every run has a run_config.  Optional features that are off by default  *)
(* (retrieval, peer context, pi_reason, the external visitor) are left out.*)
(***************************************************************************)
EXTENDS Integers, Sequences, FiniteSets

CONSTANTS
  Agents,
  SubActions,   \* the leaves that the policy does not mask
  Tools,        \* the allowlist
  Enforcing,    \* the agents whose verifier_mode is "enforce", not "warn"
  MaxDecisions, \* max_decisions of every run
  Faults,       \* subset of {"kill", "interrupt", "llm"}
  MaxRuns,      \* bound: runs started
  MaxFaults     \* bound: faults

\* Leaves with the same effects have one name here: THINK stands for all that
\* end in a notebook entry, WRITE for those that store an artifact, INNOVATE
\* for those that do both, and TALK for those that do nothing but answer.
Leaves == {"DISCOVER", "READ", "ANALYZE", "ANNOTATE", "VISIT_COMMONS",
           "VISIT_ROUNDTABLE", "CALL_TOWNHALL", "SELF_REFLECT", "THINK",
           "WRITE", "INNOVATE", "VENT", "TALK"}

ASSUME RunAssumption ==
  /\ SubActions \subseteq Leaves /\ SubActions # {}
  /\ Enforcing \subseteq Agents
  /\ MaxDecisions \in Nat \ {0} /\ MaxRuns \in Nat /\ MaxFaults \in Nat

Forums == {"commons", "roundtable", "townhall"}
Ledgers == {"public", "evaluation", "notebook"} \cup Forums

\* config_version of a run_config.json whose text is cut off.
Unreadable == -1

\* Events that are in a forum's own ledger and in the public one.
ForumKinds == {"visited", "utterance", "left", "convened", "completed_round",
               "adjourned", "broadcast"}

\* The kinds of public and evaluation events that the properties count; an
\* event of ForumKinds in the public ledger counts as "forum".
Counted == {"started", "chosen", "taken", "executed", "revised", "stored",
            "forum", "completed", "evaluated"}

VARIABLES
  tally,        \* how many events of each counted kind an agent has
  said,         \* how many events it has in the forums' own ledgers
  inCommons,    \* its last commons event in the public ledger is a visit
  constitution, \* constitution.md: whether it is there, and its frontmatter
  artifacts,    \* how many files its research directory holds
  config,       \* config_version in its run_config.json, or Unreadable
  torn,         \* ledgers whose last line is malformed
  phase,        \* where its run is
  script,       \* what the run does before its next choice
  decided,      \* decisions of this run
  sound,        \* the last boundary check passed
  ended,        \* how its last run ended
  cut,          \* how many of its runs ended before their end
  runs, faults  \* bounds

disk == <<tally, said, inCommons, constitution, artifacts, config>>
vars == <<disk, torn, phase, script, decided, sound, ended, cut, runs, faults>>

Constitutions == [file : {"absent", "torn", "whole"}, revisions : Nat, chosen : BOOLEAN]
Blank(file) == [file |-> file, revisions |-> 0, chosen |-> FALSE]

-----------------------------------------------------------------------------
(* Operations *)

\* ChainWriter.append() of an event of this kind.
Event(ledger, kind) == [do |-> "append", ledger |-> ledger, kind |-> kind]
Do(what) == [do |-> what, ledger |-> "none", kind |-> "none"]

\* ForumBase._dual_write(): the forum's ledger first, then the public one.
DualWrite(forum, kind) == <<Event(forum, kind), Event("public", kind)>>

Startup_slip == <<Do("verify"), Event("evaluation", "boundary"), Do("gate")>>

\* _run_inner() before its try: boundary check, masks, allowlist, arm().
Startup ==
  <<Do("verify"), Event("evaluation", "boundary"), Do("gate"),
    Event("public", "started"), Event("public", "allowlist"),
    Event("evaluation", "armed")>>

\* What the first run of an agent does before its decisions.
FirstRun ==
  <<Do("initialize"), Event("public", "instantiated"), Event("public", "offered"),
    Do("llm"), Do("choose"), Event("public", "chosen")>>

\* step(): snapshot, proposal and sample, and the call of the model.
Deciding ==
  <<Do("build"), Event("public", "snapshotted"), Event("public", "proposed"),
    Event("public", "taken"), Do("respond")>>

Executed_slip == <<Event("public", "executed")>>

\* step() ends with action.executed, and the runner evaluates the step.
Executed == <<Event("public", "executed"), Event("evaluation", "evaluated")>>

Closing_slip ==
  <<Do("bump"), Do("summary"), Event("public", "completed"), Do("verify"),
    Event("evaluation", "boundary"), Do("gate"), Event("evaluation", "evaluated"),
    Do("sync")>>

\* _log_run_summary(), boundary check, evaluate(), config_version, final sync.
Closing ==
  <<Do("summary"), Event("public", "completed"), Do("verify"),
    Event("evaluation", "boundary"), Do("gate"), Event("evaluation", "evaluated"),
    Do("bump"), Do("sync")>>

-----------------------------------------------------------------------------
(* Executor.execute(): what each leaf does after the model's answer *)

Search == IF "web.search" \in Tools
          THEN <<Event("public", "search"), Event("public", "results")>> ELSE <<>>
Fetch == IF "web.fetch" \in Tools
         THEN <<Event("public", "fetch"), Event("public", "fetched")>> ELSE <<>>
Note == <<Event("notebook", "note")>>

Artifact_slip == <<Event("public", "stored"), Do("artifact")>>

\* _write_artifact(), then agent.artifact.stored or agent.skill.authored.
Artifact == <<Do("artifact"), Event("public", "stored")>>

Leaving_slip == <<>>
Leaving == DualWrite("commons", "left")

Revision == <<Do("revise"), Event("public", "revised")>>

\* The set of what it may do: results or none, a first answer that parses or
\* a second call, an amendment or none, a text that the notebook has already,
\* an empty answer that is not uttered.
Effects(leaf) ==
  CASE leaf = "DISCOVER" -> {Search}
    [] leaf = "READ"     -> {Search, IF Search = <<>> THEN <<>> ELSE Search \o Fetch}
    [] leaf = "ANALYZE"  -> {retry \o Search \o Artifact : retry \in {<<>>, <<Do("llm")>>}}
    [] leaf = "ANNOTATE" -> {Artifact, Search \o Artifact, <<Do("llm")>>,
                             <<Do("llm")>> \o Artifact, <<Do("llm")>> \o Search \o Artifact}
    [] leaf = "VISIT_COMMONS" ->
         {DualWrite("commons", "visited") \o <<Do("view")>> \o words \o Leaving
           : words \in {<<>>, DualWrite("commons", "utterance")}}
    [] leaf = "VISIT_ROUNDTABLE" ->
         {DualWrite("roundtable", "convened") \o words
           \o DualWrite("roundtable", "completed_round") \o DualWrite("roundtable", "adjourned")
           : words \in {<<>>, DualWrite("roundtable", "utterance")}}
    [] leaf = "CALL_TOWNHALL" ->
         {DualWrite("townhall", "convened") \o words \o DualWrite("townhall", "adjourned")
           : words \in {<<>>, DualWrite("townhall", "broadcast")}}
    [] leaf = "SELF_REFLECT" -> {amendment \o note : amendment \in {<<>>, Revision},
                                                     note \in {<<>>, Note}}
    [] leaf = "THINK"    -> {<<>>, Note}
    [] leaf = "WRITE"    -> {Artifact}
    [] leaf = "INNOVATE" -> {Artifact, Note \o Artifact}
    [] leaf = "VENT"     -> {note \o <<Event("public", "requested"), Event("public", "responded")>>
                              : note \in {<<>>, Note}}
    [] leaf = "TALK"     -> {<<>>}

-----------------------------------------------------------------------------
Init ==
  /\ tally = [a \in Agents |-> [k \in Counted |-> 0]]
  /\ said = [a \in Agents |-> 0]
  /\ inCommons = [a \in Agents |-> FALSE]
  /\ constitution = [a \in Agents |-> Blank("absent")]
  /\ artifacts = [a \in Agents |-> 0]
  /\ config = [a \in Agents |-> 0]
  /\ torn = {}
  /\ phase = [a \in Agents |-> "off"]
  /\ script = [a \in Agents |-> <<>>]
  /\ decided = [a \in Agents |-> 0]
  /\ sound = [a \in Agents |-> TRUE]
  /\ ended = [a \in Agents |-> "never"]
  /\ cut = [a \in Agents |-> 0]
  /\ runs = 0
  /\ faults = 0

-----------------------------------------------------------------------------
(* The run *)

Running(a, what) == script[a] # <<>> /\ Head(script[a]).do = what

\* The statements inside the try of _run_inner().
InTry == {"first", "deciding", "closing"}

Advance(a) == script' = [script EXCEPT ![a] = Tail(@)]

\* The process ends; all but a completed run are cut short.
End(a, how) ==
  /\ phase' = [phase EXCEPT ![a] = "off"]
  /\ script' = [script EXCEPT ![a] = <<>>]
  /\ decided' = [decided EXCEPT ![a] = 0]
  /\ sound' = [sound EXCEPT ![a] = TRUE]
  /\ ended' = [ended EXCEPT ![a] = how]
  /\ cut' = [cut EXCEPT ![a] = @ + (IF how = "completed" THEN 0 ELSE 1)]

\* except KeyboardInterrupt and except LLMError.
Handle(a, how) ==
  /\ phase' = [phase EXCEPT ![a] = "handler"]
  /\ script' = [script EXCEPT ![a] = <<Do("sync"), Event("public", "stopped")>>]
  /\ ended' = [ended EXCEPT ![a] = how]
  /\ UNCHANGED <<decided, sound, cut>>

RaiseCorruption_slip(a) == UNCHANGED <<phase, script, decided, sound, ended, cut>>

\* ChainCorruptionError: exit code 2 inside the try, a traceback elsewhere.
RaiseCorruption(a) == End(a, IF phase[a] \in InTry THEN "corrupt" ELSE "crashed")

Fault(kind) ==
  /\ kind \in Faults
  /\ faults < MaxFaults
  /\ faults' = faults + 1

\* load_run_config() does not get past a torn file.
Start(a) ==
  /\ phase[a] = "off"
  /\ config[a] # Unreadable
  /\ runs < MaxRuns
  /\ runs' = runs + 1
  /\ phase' = [phase EXCEPT ![a] = "starting"]
  /\ script' = [script EXCEPT ![a] = Startup]
  /\ UNCHANGED <<disk, torn, decided, sound, ended, cut, faults>>

IsFirstRun_slip(a) == TRUE

\* The constitution file does not exist.
IsFirstRun(a) == constitution[a].file = "absent"

EnterTry(a) ==
  /\ phase[a] = "starting"
  /\ script[a] = <<>>
  /\ phase' = [phase EXCEPT ![a] = "first"]
  /\ script' = [script EXCEPT ![a] = IF IsFirstRun(a) THEN FirstRun ELSE <<>>]
  /\ UNCHANGED <<disk, torn, decided, sound, ended, cut, runs, faults>>

DecisionsLeft_slip(a) == decided[a] <= MaxDecisions
DecisionsLeft(a) == decided[a] < MaxDecisions

Decide(a) ==
  /\ phase[a] \in {"first", "deciding"}
  /\ script[a] = <<>>
  /\ DecisionsLeft(a)
  /\ decided' = [decided EXCEPT ![a] = @ + 1]
  /\ phase' = [phase EXCEPT ![a] = "deciding"]
  /\ script' = [script EXCEPT ![a] = Deciding]
  /\ UNCHANGED <<disk, torn, sound, ended, cut, runs, faults>>

Close(a) ==
  /\ phase[a] \in {"first", "deciding"}
  /\ script[a] = <<>>
  /\ ~DecisionsLeft(a)
  /\ phase' = [phase EXCEPT ![a] = "closing"]
  /\ script' = [script EXCEPT ![a] = Closing]
  /\ UNCHANGED <<disk, torn, decided, sound, ended, cut, runs, faults>>

Exit(a) ==
  /\ phase[a] \in {"closing", "handler"}
  /\ script[a] = <<>>
  /\ End(a, IF phase[a] = "closing" THEN "completed" ELSE ended[a])
  /\ UNCHANGED <<disk, torn, runs, faults>>

-----------------------------------------------------------------------------
(* Its operations *)

\* The file of a ledger; notebooks are the agents' own.
File(a, ledger) == IF ledger = "notebook" THEN <<ledger, a>> ELSE <<ledger>>

\* What ChainWriter.append() of this event adds to the counts.
Adds(op, kind) ==
  \/ op.kind = kind /\ kind # "forum"
  \/ kind = "forum" /\ op.ledger = "public" /\ op.kind \in ForumKinds

AppendEvent(a) ==
  /\ Running(a, "append")
  /\ LET op == Head(script[a]) IN
       /\ File(a, op.ledger) \notin torn
       /\ tally' = [tally EXCEPT ![a] =
                      [k \in Counted |-> @[k] + (IF Adds(op, k) THEN 1 ELSE 0)]]
       /\ said' = [said EXCEPT ![a] = @ + (IF op.ledger \in Forums THEN 1 ELSE 0)]
       /\ inCommons' = [inCommons EXCEPT ![a] =
            IF op.ledger = "public" /\ op.kind \in {"visited", "left"}
            THEN op.kind = "visited" ELSE @]
  /\ Advance(a)
  /\ UNCHANGED <<constitution, artifacts, config, torn, phase, decided, sound,
                 ended, cut, runs, faults>>

\* Behind a torn line append() raises ChainCorruptionError, or ChainWriteError if
\* it is cut inside a character; Notebook.append() parses the whole notebook
\* first, which raises JSONDecodeError.
AppendRefused(a) ==
  /\ Running(a, "append")
  /\ File(a, Head(script[a]).ledger) \in torn
  /\ \/ End(a, "crashed")
     \/ Head(script[a]).ledger # "notebook" /\ RaiseCorruption(a)
  /\ UNCHANGED <<disk, torn, runs, faults>>

\* The ledgers that each operation reads and parses, without a lock.
ReadBy == [build   |-> {"public", "notebook", "townhall"},
           view    |-> {"commons"},
           summary |-> {"public"}]

\* Another agent is writing to this ledger at the moment.
MidWrite(a, ledger) ==
  \E b \in Agents \ {a} :
    /\ Running(b, "append")
    /\ Head(script[b]).ledger = ledger
    /\ ledger # "notebook"

ReadFiles(a) ==
  /\ \E what \in DOMAIN ReadBy :
       /\ Running(a, what)
       /\ \A ledger \in ReadBy[what] : File(a, ledger) \notin torn
       /\ what # "view" => constitution[a].file # "torn"
  /\ Advance(a)
  /\ UNCHANGED <<disk, torn, phase, decided, sound, ended, cut, runs, faults>>

\* json.loads() of a torn line, or of one that is being written, or a
\* constitution without frontmatter: nobody catches it, nor, in verify_chain(),
\* the UnicodeDecodeError of a line that is cut inside a character.
ReadCrashes(a) ==
  /\ \/ \E what \in DOMAIN ReadBy :
          /\ Running(a, what)
          /\ \/ \E ledger \in ReadBy[what] :
                  File(a, ledger) \in torn \/ MidWrite(a, ledger)
             \/ what # "view" /\ constitution[a].file = "torn"
     \/ /\ Running(a, "verify")
        /\ File(a, "public") \in torn \/ MidWrite(a, "public")
  /\ End(a, "crashed")
  /\ UNCHANGED <<disk, torn, runs, faults>>

\* verify_chain() of the public ledger reports a line that is no JSON.
VerifyBoundary(a) ==
  /\ Running(a, "verify")
  /\ \E seen \in BOOLEAN :
       /\ seen => File(a, "public") \notin torn
       /\ ~seen => File(a, "public") \in torn \/ MidWrite(a, "public")
       /\ sound' = [sound EXCEPT ![a] = seen]
  /\ Advance(a)
  /\ UNCHANGED <<disk, torn, phase, decided, ended, cut, runs, faults>>

\* verifier_mode "enforce": the failed check ends the run.
Gate(a) ==
  /\ Running(a, "gate")
  /\ IF a \in Enforcing /\ ~sound[a]
     THEN RaiseCorruption(a)
     ELSE Advance(a) /\ UNCHANGED <<phase, decided, sound, ended, cut>>
  /\ UNCHANGED <<disk, torn, runs, faults>>

\* ConstitutionManager.initialize().
Initialize(a) ==
  /\ Running(a, "initialize")
  /\ constitution' = [constitution EXCEPT ![a] = Blank("whole")]
  /\ Advance(a)
  /\ UNCHANGED <<tally, said, inCommons, artifacts, config, torn, phase, decided,
                 sound, ended, cut, runs, faults>>

\* set_field_chosen().
ChooseField(a) ==
  /\ Running(a, "choose")
  /\ constitution' = [constitution EXCEPT ![a].chosen = TRUE]
  /\ Advance(a)
  /\ UNCHANGED <<tally, said, inCommons, artifacts, config, torn, phase, decided,
                 sound, ended, cut, runs, faults>>

\* append_revision().
Revise(a) ==
  /\ Running(a, "revise")
  /\ constitution' = [constitution EXCEPT ![a].revisions = @ + 1]
  /\ Advance(a)
  /\ UNCHANGED <<tally, said, inCommons, artifacts, config, torn, phase, decided,
                 sound, ended, cut, runs, faults>>

WriteArtifact(a) ==
  /\ Running(a, "artifact")
  /\ artifacts' = [artifacts EXCEPT ![a] = @ + 1]
  /\ Advance(a)
  /\ UNCHANGED <<tally, said, inCommons, constitution, config, torn, phase, decided,
                 sound, ended, cut, runs, faults>>

\* _bump_patch().
Bumped(version) == version + 1

\* run_config_file.write_text() with the bumped config_version.
BumpConfig(a) ==
  /\ Running(a, "bump")
  /\ config' = [config EXCEPT ![a] = Bumped(@)]
  /\ Advance(a)
  /\ UNCHANGED <<tally, said, inCommons, constitution, artifacts, torn, phase,
                 decided, sound, ended, cut, runs, faults>>

\* The answer is in; the leaf that was sampled says what follows.
Respond(a) ==
  /\ Running(a, "respond")
  /\ \E leaf \in SubActions : \E effects \in Effects(leaf) :
       script' = [script EXCEPT ![a] = effects \o Executed]
  /\ UNCHANGED <<disk, torn, phase, decided, sound, ended, cut, runs, faults>>

\* Calls of the model for other purposes, and _try_s3_sync() (SyncLifecycle).
Proceed(a) ==
  /\ Running(a, "llm") \/ Running(a, "sync")
  /\ Advance(a)
  /\ UNCHANGED <<disk, torn, phase, decided, sound, ended, cut, runs, faults>>

-----------------------------------------------------------------------------
(* Faults *)

LlmFails(a) ==
  /\ Fault("llm")
  /\ Running(a, "llm") \/ Running(a, "respond")
  /\ Handle(a, "error")
  /\ UNCHANGED <<disk, torn, runs>>

\* KeyboardInterrupt, between two operations.
Interrupt(a) ==
  /\ Fault("interrupt")
  /\ phase[a] # "off"
  /\ IF phase[a] \in InTry THEN Handle(a, "interrupted") ELSE End(a, "interrupted")
  /\ UNCHANGED <<disk, torn, runs>>

\* The process is killed, or an OSError ends it: between two operations, ...
Kill(a) ==
  /\ Fault("kill")
  /\ phase[a] # "off"
  /\ End(a, "killed")
  /\ UNCHANGED <<disk, torn, runs>>

\* ... or in the middle of one.
KillInAppend(a) ==
  /\ Fault("kill")
  /\ Running(a, "append")
  /\ torn' = torn \cup {File(a, Head(script[a]).ledger)}
  /\ End(a, "killed")
  /\ UNCHANGED <<disk, runs>>

KillInWrite(a) ==
  /\ Fault("kill")
  /\ \/ /\ Running(a, "initialize")
        /\ constitution' = [constitution EXCEPT ![a] = Blank("torn")]
        /\ UNCHANGED <<artifacts, config>>
     \/ /\ Running(a, "artifact")
        /\ artifacts' = [artifacts EXCEPT ![a] = @ + 1]
        /\ UNCHANGED <<constitution, config>>
     \/ /\ Running(a, "bump")
        /\ config' = [config EXCEPT ![a] = Unreadable]
        /\ UNCHANGED <<constitution, artifacts>>
  /\ End(a, "killed")
  /\ UNCHANGED <<tally, said, inCommons, torn, runs>>

-----------------------------------------------------------------------------
Step(a) ==
  \/ EnterTry(a) \/ Decide(a) \/ Close(a) \/ Exit(a)
  \/ AppendEvent(a) \/ AppendRefused(a) \/ ReadFiles(a) \/ ReadCrashes(a)
  \/ VerifyBoundary(a) \/ Gate(a) \/ Initialize(a) \/ ChooseField(a) \/ Revise(a)
  \/ WriteArtifact(a) \/ BumpConfig(a) \/ Respond(a) \/ Proceed(a)

Next ==
  \E a \in Agents :
    \/ Start(a) \/ Step(a)
    \/ LlmFails(a) \/ Interrupt(a) \/ Kill(a) \/ KillInAppend(a) \/ KillInWrite(a)

Spec == Init /\ [][Next]_vars

\* A run that is not over goes on: calls of the model return or raise.
FairSpec == Spec /\ \A a \in Agents : WF_vars(Step(a))

-----------------------------------------------------------------------------
(* Properties *)

Kinds == (Counted \ {"forum"}) \cup ForumKinds \cup
         {"boundary", "armed", "allowlist", "instantiated", "offered", "snapshotted", "proposed",
          "search", "results", "fetch", "fetched", "note", "requested", "responded", "stopped"}

Ops == [do : {"append", "verify", "gate", "initialize", "llm", "choose", "build",
              "respond", "summary", "bump", "sync", "view", "revise", "artifact"},
        ledger : Ledgers \cup {"none"}, kind : Kinds \cup {"none"}]

\* Type invariant.
TypeOK ==
  /\ tally \in [Agents -> [Counted -> Nat]]
  /\ said \in [Agents -> Nat]
  /\ inCommons \in [Agents -> BOOLEAN]
  /\ constitution \in [Agents -> Constitutions]
  /\ artifacts \in [Agents -> Nat]
  /\ config \in [Agents -> Nat \cup {Unreadable}]
  /\ torn \subseteq {File(a, ledger) : a \in Agents, ledger \in Ledgers}
  /\ phase \in [Agents -> {"off", "starting", "handler"} \cup InTry]
  /\ script \in [Agents -> Seq(Ops)]
  /\ decided \in [Agents -> 0..MaxDecisions]
  /\ sound \in [Agents -> BOOLEAN]
  /\ ended \in [Agents -> {"never", "completed", "interrupted", "error", "corrupt",
                           "crashed", "killed"}]
  /\ cut \in [Agents -> Nat] /\ runs \in Nat /\ faults \in Nat

\* The runs of an agent that may have left something half done: those cut
\* short and the one that is going on.
Unfinished(a) == cut[a] + (IF phase[a] = "off" THEN 0 ELSE 1)

\* What an agent's files and the forums' ledgers have and its events in the
\* public ledger do not tell: revisions, artifacts, forum events, the field.
Orphans(a) ==
  [revision |-> constitution[a].revisions - tally[a]["revised"],
   artifact |-> artifacts[a] - tally[a]["stored"],
   forum    |-> said[a] - tally[a]["forum"],
   field    |-> (IF constitution[a].chosen THEN 1 ELSE 0) - tally[a]["chosen"]]

\* The public ledger never tells of a revision, artifact, forum event or field
\* that is not there, and a run that is killed, interrupted, refused by a torn
\* ledger or crashed leaves at most one of them untold, never two.
OneOrphanPerRun ==
  \A a \in Agents :
    LET o == Orphans(a) IN
      /\ o.revision >= 0 /\ o.artifact >= 0 /\ o.forum >= 0 /\ o.field >= 0
      /\ o.revision + o.artifact + o.forum + o.field <= Unfinished(a)

\* A run cut short leaves at most one decision without its action.executed, or
\* one step or completion without the kill switch's evaluation, not both.
DecisionsAccounted ==
  \A a \in Agents :
    LET t == tally[a] IN
      /\ t["executed"] <= t["taken"]
      /\ t["evaluated"] <= t["executed"] + t["completed"]
      /\ t["taken"] + t["completed"] - t["evaluated"] <= Unfinished(a)

\* A config_version counts runs that told of their completion: it is never
\* ahead of the run.completed events, and each run that was cut short after
\* its own leaves it one more behind.
VersionsAccounted ==
  \A a \in Agents : config[a] # Unreadable =>
    /\ config[a] <= tally[a]["completed"]
    /\ tally[a]["completed"] - config[a] <= Unfinished(a)

\* An agent chooses its field once in its life, and none of its decisions is
\* taken without a field unless its first run was cut short.
FieldChosenOnce ==
  \A a \in Agents :
    /\ tally[a]["chosen"] <= 1
    /\ phase[a] = "deciding" => constitution[a].chosen \/ cut[a] > 0

\* VISIT_COMMONS ends with the agent outside: a snapshot that has it in the
\* commons is that of an agent one of whose visits was cut short.
OutsideCommons ==
  \A a \in Agents : inCommons[a] /\ Running(a, "build") => cut[a] > 0

\* Once a line of the public ledger is torn, no run that starts afterwards gets
\* beyond its start, whatever its verifier_mode: it takes no decision and
\* touches none of the agent's files.
TornStopsRuns ==
  \A a \in Agents :
    [](<<"public">> \in torn /\ phase[a] = "off" => [](phase[a] \notin InTry))

\* Every run ends, whatever fails and however long others keep the ledgers
\* busy.
RunsEnd == \A a \in Agents : phase[a] # "off" ~> phase[a] = "off"
=============================================================================
