--------------------------- MODULE RunLockProofs ---------------------------
(***************************************************************************)
(* The run lock keeps the runs of an agent apart as long as nobody starts  *)
(* one while another one is starting: for any number of runs and pids,     *)
(* killed runs, stale lock files and reused pids.  What a run is refused   *)
(* for does not depend on that.                                            *)
(***************************************************************************)
EXTENDS RunLock, TLAPS

\* A pid in the file that nobody got a second time is that of the run that
\* wrote it, and while that process lives the run is active.
HolderInv ==
  /\ TypeOK
  /\ \A r, q \in Runs : pid[r] = pid[q] /\ pid[r] # NoPid => r = q
  /\ others \cap {pid[r] : r \in Runs} = {}
  /\ Live \subseteq used
  /\ file \in Pids => file \in used
  /\ file \in Live \ reused => \E q \in Runs : pid[q] = file /\ pc[q] \in Active

LEMMA HolderInit == Init => HolderInv
  BY RunLockAssumption DEF Init, HolderInv, TypeOK, Contents, Absent, Starting, Active, Live

LEMMA HolderStep == HolderInv /\ [Next]_vars => HolderInv'
<1> SUFFICES ASSUME HolderInv, [Next]_vars
             PROVE  HolderInv'
  OBVIOUS
<1> USE RunLockAssumption DEF HolderInv, TypeOK, Contents, Absent, Torn, Starting,
        Active, Goto, Live
<1>1. ASSUME NEW r \in Runs, Spawn(r)
      PROVE  HolderInv'
  BY <1>1 DEF Spawn, TakePid
<1>2. ASSUME NEW r \in Runs, CheckExists(r) \/ ReadStale(r)
      PROVE  HolderInv'
  BY <1>2 DEF CheckExists, ReadStale
<1>3. ASSUME NEW r \in Runs, pc[r] \notin Active, NEW how, End(r, how),
             how \in {"refused", "crashed", "released", "killed"},
             UNCHANGED <<file, used, reused, others, foreign, starts>>, linked' = linked \ {r}
      PROVE  HolderInv'
  BY <1>3 DEF End
<1>4. ASSUME NEW r \in Runs, Refuse(r) \/ ReadVanished(r)
      PROVE  HolderInv'
  <2>1. linked' = linked \ {r}
    BY <1>4 DEF Refuse, ReadVanished
  <2>2. QED
    BY <1>3, <1>4, <2>1 DEF Refuse, ReadVanished
<1>5. ASSUME NEW r \in Runs, Truncate(r)
      PROVE  HolderInv'
  BY <1>5 DEF Truncate
<1>6. ASSUME NEW r \in Runs, Fill(r)
      PROVE  HolderInv'
  BY <1>6 DEF Fill
<1>7. ASSUME NEW r \in Runs, RunEnds(r)
      PROVE  HolderInv'
  BY <1>7 DEF RunEnds, End
<1>8. ASSUME NEW r \in Runs, Unlink(r)
      PROVE  HolderInv'
  BY <1>8 DEF Unlink, End
<1>9. ASSUME NEW r \in Runs, Kill(r)
      PROVE  HolderInv'
  BY <1>9 DEF Kill, End
<1>10. CASE OtherProcess
  BY <1>10 DEF OtherProcess, TakePid
<1>11. CASE UNCHANGED vars
  BY <1>11 DEF vars
<1>12. QED
  BY <1>1, <1>2, <1>4, <1>5, <1>6, <1>7, <1>8, <1>9, <1>10, <1>11 DEF Next, LockStep

LEMMA HolderInvariant == Spec => []HolderInv
  BY HolderInit, HolderStep, PTL DEF Spec

\* The lock file and every state variable keep their types.
THEOREM TypeCorrect == Spec => []TypeOK
<1>1. HolderInv => TypeOK
  BY DEF HolderInv
<1>2. QED
  BY <1>1, HolderInvariant, PTL

\* Also when starts overlap: a run is refused because of an active run, or of
\* a pid that the kernel has given out again.
THEOREM RefusedForARun == Spec => RefusedOnlyIfActive
<1>1. HolderInv /\ [Next]_vars =>
        [\A r \in Runs : Refuse(r) /\ file \notin reused =>
                          \E q \in Runs \ {r} : pc[q] \in Active]_vars
  BY DEF HolderInv, Refuse, PidAlive, Active
<1>2. QED
  BY <1>1, HolderInvariant, PTL DEF Spec, RefusedOnlyIfActive

-----------------------------------------------------------------------------
Serial == "overlap" \notin Hazards

\* A run that is about to write the file has seen that nobody is active, and
\* nobody can become active before it.
OwnInv ==
  /\ \A r, q \in Runs : pc[r] \in Starting /\ pc[q] \in Starting => r = q
  /\ \A r \in Runs : pc[r] \in {"write", "fill"} => \A q \in Runs : pc[q] \notin Active
  /\ \A r \in Runs : pc[r] = "fill" => r \in linked
  /\ OneRun
  /\ LockNamesTheRun

LEMMA OwnInit == Init => OwnInv
  BY RunLockAssumption DEF Init, OwnInv, OneRun, LockNamesTheRun, Starting, Active

LEMMA OwnStep == Serial /\ HolderInv /\ OwnInv /\ [Next]_vars => OwnInv'
<1> SUFFICES ASSUME Serial, TypeOK, OwnInv, [Next]_vars,
                    \A r, q \in Runs : pid[r] = pid[q] /\ pid[r] # NoPid => r = q,
                    others \cap {pid[r] : r \in Runs} = {}
             PROVE  OwnInv'
  BY DEF HolderInv
<1> USE RunLockAssumption DEF OwnInv, TypeOK, OneRun, LockNamesTheRun, Contents,
        Absent, Torn, Starting, Active, Goto
<1>1. ASSUME NEW r \in Runs, Spawn(r)
      PROVE  OwnInv'
  BY <1>1 DEF Spawn, Serial, Live, TakePid
<1>2. ASSUME NEW r \in Runs, CheckExists(r)
      PROVE  OwnInv'
  BY <1>2 DEF CheckExists
<1>3. ASSUME NEW r \in Runs, ReadStale(r)
      PROVE  OwnInv'
  BY <1>3 DEF ReadStale, PidAlive, Live
<1>4. ASSUME NEW r \in Runs, Refuse(r)
      PROVE  OwnInv'
  <2>1. End(r, "refused") /\ UNCHANGED <<file, linked, used, reused, others, foreign, starts>>
        /\ pc[r] = "read"
    BY <1>4 DEF Refuse
  <2>2. QED
    BY <2>1 DEF End
<1>5. ASSUME NEW r \in Runs, ReadVanished(r)
      PROVE  OwnInv'
  BY <1>5 DEF ReadVanished, End
<1>6. ASSUME NEW r \in Runs, Truncate(r)
      PROVE  OwnInv'
  BY <1>6 DEF Truncate
<1>7. ASSUME NEW r \in Runs, Fill(r)
      PROVE  OwnInv'
  BY <1>7 DEF Fill
<1>8. ASSUME NEW r \in Runs, RunEnds(r)
      PROVE  OwnInv'
  BY <1>8 DEF RunEnds, End
<1>9. ASSUME NEW r \in Runs, Unlink(r)
      PROVE  OwnInv'
  BY <1>9 DEF Unlink, End
<1>10. ASSUME NEW r \in Runs, Kill(r)
       PROVE  OwnInv'
  BY <1>10 DEF Kill, End
<1>11. CASE OtherProcess
  BY <1>11 DEF OtherProcess, Live, TakePid
<1>12. CASE UNCHANGED vars
  BY <1>12 DEF vars
<1>13. QED
  BY <1>1, <1>2, <1>3, <1>4, <1>5, <1>6, <1>7, <1>8, <1>9, <1>10, <1>11, <1>12
  DEF Next, LockStep

LEMMA Invariant ==
  ASSUME Serial
  PROVE  Spec => []OwnInv
<1>1. HolderInv /\ OwnInv /\ [Next]_vars => OwnInv'
  BY OwnStep
<1>2. QED
  BY <1>1, OwnInit, HolderInvariant, PTL DEF Spec

\* Without overlapping starts an agent has one run at a time.
THEOREM OneRunAtATime ==
  ASSUME Serial
  PROVE  Spec => []OneRun
<1>1. OwnInv => OneRun
  BY DEF OwnInv
<1>2. QED
  BY <1>1, Invariant, PTL

\* Without overlapping starts the lock file names the active run.
THEOREM LockIsTheRuns ==
  ASSUME Serial
  PROVE  Spec => []LockNamesTheRun
<1>1. OwnInv => LockNamesTheRun
  BY DEF OwnInv
<1>2. QED
  BY <1>1, Invariant, PTL
=============================================================================
