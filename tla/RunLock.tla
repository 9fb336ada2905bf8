------------------------------ MODULE RunLock ------------------------------
(***************************************************************************)
(* EcosystemStorage.acquire_run_lock(agent_id): the lock file              *)
(* .run.lock.<agent_id> of one agent, taken by checking and then writing   *)
(* it, and given up by unlinking whatever has its name.  The runs of an    *)
(* agent are one user's.                                                   *)
(***************************************************************************)
EXTENDS Integers, FiniteSets

CONSTANTS
  Runs,         \* agent processes that are started for one agent
  Pids,         \* process ids of their pid namespace
  NoPid,
  Hazards,      \* subset of {"overlap", "kill", "other"}
  MaxStarts     \* bound: processes ever started

ASSUME RunLockAssumption ==
  /\ NoPid \notin Pids
  /\ {"absent", "torn"} \cap Pids = {}
  /\ MaxStarts \in Nat

(***************************************************************************)
(* What the lock file can be.  write_text() creates or truncates it and    *)
(* then fills it; in between it is Torn, which is no JSON.                 *)
(***************************************************************************)
Absent == "absent"
Torn == "torn"
Contents == {Absent, Torn} \cup Pids

VARIABLES
  file,         \* the lock file
  pc,           \* where each run is
  pid,          \* its process id
  linked,       \* runs whose open handle is still the file of that name
  outcome,      \* how its last acquire_run_lock() went
  used,         \* pids given out before
  reused,       \* pids given out again
  others,       \* pids of live processes that are not runs of this agent
  foreign,      \* those of them that another user owns
  starts        \* bound

vars == <<file, pc, pid, linked, outcome, used, reused, others, foreign, starts>>

Init ==
  /\ file = Absent
  /\ pc = [r \in Runs |-> "off"]
  /\ pid = [r \in Runs |-> NoPid]
  /\ linked = {}
  /\ outcome = [r \in Runs |-> "none"]
  /\ used = {}
  /\ reused = {}
  /\ others = {}
  /\ foreign = {}
  /\ starts = 0

Goto(r, label) == pc' = [pc EXCEPT ![r] = label]

\* The process ends, in whatever way.
End(r, how) ==
  /\ Goto(r, "off")
  /\ pid' = [pid EXCEPT ![r] = NoPid]
  /\ outcome' = [outcome EXCEPT ![r] = how]

Live == others \cup ({pid[r] : r \in Runs} \ {NoPid})

\* Between the start of a run and the moment its pid is in the file.
Starting == {"exists", "read", "write", "fill"}

PidAlive_slip1(p) == p \in others
PidAlive_slip2(p) == TRUE

\* os.kill(pid, 0): another user's process refuses it (PermissionError), which
\* counts as dead.
PidAlive(p) == p \in Live \ foreign

-----------------------------------------------------------------------------
TakePid(p) ==
  /\ used' = used \cup {p}
  /\ reused' = reused \cup ({p} \cap used)

\* Without "overlap" nobody starts a run while another one is starting.
Spawn(r) ==
  /\ pc[r] = "off"
  /\ starts < MaxStarts
  /\ "overlap" \notin Hazards => \A q \in Runs : pc[q] \notin Starting
  /\ \E p \in Pids \ Live :
       /\ TakePid(p)
       /\ pid' = [pid EXCEPT ![r] = p]
  /\ starts' = starts + 1
  /\ Goto(r, "exists")
  /\ outcome' = [outcome EXCEPT ![r] = "none"]
  /\ UNCHANGED <<file, linked, others, foreign>>

CheckExists(r) ==
  /\ pc[r] = "exists"
  /\ Goto(r, IF file = Absent THEN "write" ELSE "read")
  /\ UNCHANGED <<file, pid, linked, outcome, used, reused, others, foreign, starts>>

\* read_text() and json.loads(): no JSON, or a pid that is dead, lets it pass.
ReadStale(r) ==
  /\ pc[r] = "read"
  /\ \/ file = Torn
     \/ file \in Pids /\ ~PidAlive(file)
  /\ Goto(r, "write")
  /\ UNCHANGED <<file, pid, linked, outcome, used, reused, others, foreign, starts>>

Refuse(r) ==
  /\ pc[r] = "read"
  /\ file \in Pids /\ PidAlive(file)
  /\ End(r, "refused")
  /\ UNCHANGED <<file, linked, used, reused, others, foreign, starts>>

\* The file went away after exists(): FileNotFoundError is not caught.
ReadVanished(r) ==
  /\ pc[r] = "read"
  /\ file = Absent
  /\ End(r, "crashed")
  /\ UNCHANGED <<file, linked, used, reused, others, foreign, starts>>

Truncate(r) ==
  /\ pc[r] = "write"
  /\ file' = Torn
  /\ linked' = linked \cup {r}
  /\ Goto(r, "fill")
  /\ UNCHANGED <<pid, outcome, used, reused, others, foreign, starts>>

\* The lock data lack the pid.
Fill_slip(r) ==
  /\ pc[r] = "fill"
  /\ file' = IF r \in linked THEN NoPid ELSE file
  /\ linked' = linked \ {r}
  /\ Goto(r, "running")
  /\ outcome' = [outcome EXCEPT ![r] = "acquired"]
  /\ UNCHANGED <<pid, used, reused, others, foreign, starts>>

\* The text goes to the file that was opened, which may have been unlinked.
Fill(r) ==
  /\ pc[r] = "fill"
  /\ file' = IF r \in linked THEN pid[r] ELSE file
  /\ linked' = linked \ {r}
  /\ Goto(r, "running")
  /\ outcome' = [outcome EXCEPT ![r] = "acquired"]
  /\ UNCHANGED <<pid, used, reused, others, foreign, starts>>

\* finally: if lock_path.exists(): lock_path.unlink().
RunEnds(r) ==
  /\ pc[r] = "running"
  /\ IF file = Absent
     THEN End(r, "released")
     ELSE Goto(r, "unlink") /\ UNCHANGED <<pid, outcome>>
  /\ UNCHANGED <<file, linked, used, reused, others, foreign, starts>>

Unlink(r) ==
  /\ pc[r] = "unlink"
  /\ file' = Absent
  /\ linked' = {}
  /\ End(r, IF file = Absent THEN "crashed" ELSE "released")
  /\ UNCHANGED <<used, reused, others, foreign, starts>>

\* SIGKILL, or SIGTERM: the agent has no handler for it and no finally runs.
Kill(r) ==
  /\ "kill" \in Hazards
  /\ pc[r] # "off"
  /\ End(r, "killed")
  /\ linked' = linked \ {r}
  /\ UNCHANGED <<file, used, reused, others, foreign, starts>>

\* Processes that have nothing to do with the agent.
OtherProcess ==
  /\ "other" \in Hazards
  /\ \/ \E p \in Pids \ Live :
          /\ TakePid(p)
          /\ others' = others \cup {p}
          /\ foreign' \in {foreign, foreign \cup {p}}
     \/ \E p \in others :
          /\ others' = others \ {p}
          /\ foreign' = foreign \ {p}
          /\ UNCHANGED <<used, reused>>
  /\ UNCHANGED <<file, pc, pid, linked, outcome, starts>>

LockStep(r) ==
  \/ CheckExists(r) \/ ReadStale(r) \/ Refuse(r) \/ ReadVanished(r)
  \/ Truncate(r) \/ Fill(r) \/ Unlink(r)

Next ==
  \/ \E r \in Runs : Spawn(r) \/ LockStep(r) \/ RunEnds(r) \/ Kill(r)
  \/ OtherProcess

Spec == Init /\ [][Next]_vars

-----------------------------------------------------------------------------
(* Properties *)

Active == {"running", "unlink"}

\* Type invariant.
TypeOK ==
  /\ file \in Contents
  /\ pc \in [Runs -> {"off"} \cup Starting \cup Active]
  /\ pid \in [Runs -> Pids \cup {NoPid}]
  /\ \A r \in Runs : pid[r] = NoPid <=> pc[r] = "off"
  /\ linked \subseteq {r \in Runs : pc[r] = "fill"}
  /\ outcome \in [Runs -> {"none", "acquired", "refused", "crashed", "released",
                           "killed"}]
  /\ used \subseteq Pids
  /\ reused \subseteq used
  /\ foreign \subseteq others /\ others \subseteq used
  /\ starts \in Nat

\* One run per agent at a time.
OneRun ==
  \A r, q \in Runs : pc[r] \in Active /\ pc[q] \in Active => r = q

\* The file names the run that is active: whoever starts now is refused, and
\* the run that ends unlinks its own file.
LockNamesTheRun == \A r \in Runs : pc[r] \in Active => file = pid[r]

\* A run is refused only while another one is active: a stale lock is no
\* obstacle, unless the pid in it has been given out again.
RefusedOnlyIfActive ==
  [][\A r \in Runs : Refuse(r) /\ file \notin reused =>
                    \E q \in Runs \ {r} : pc[q] \in Active]_vars
=============================================================================
