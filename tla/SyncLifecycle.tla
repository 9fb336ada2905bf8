--------------------------- MODULE SyncLifecycle ---------------------------
(***************************************************************************)
(* Who runs sync_ecosystem_once() and when: the periodic daemon thread and *)
(* the main thread of agent/runner.py, and the subprocess that             *)
(* infra/entrypoint_supervisor.py starts on a signal or after the run.     *)
(* One container: one supervisor, one run.  Nothing in the code keeps two  *)
(* of the three apart but the order of events here.                        *)
(***************************************************************************)
EXTENDS S3Sync

CONSTANTS
  Thread, Main, \* the syncers of the agent process
  Sup, Again    \* the supervisor's, and that of a signal which interrupts it

Handlers == {Sup, Again}

ASSUME LifecycleAssumption ==
  /\ Syncers = {Thread, Main} \cup Handlers
  /\ Cardinality(Syncers) = 4
  /\ Budgeted = Handlers

VARIABLES
  child,        \* where the agent process is
  how,          \* how its run ended
  late,         \* join(timeout=5) gave up on the periodic thread
  sup,          \* where the supervisor is, and where a second handler on top of it
  signal        \* the signal that each handler has

life == <<child, how, late, sup, signal>>
files == <<local, remote, state, pc, at, mem, buf, faults>>
lifecycleVars == <<vars, life>>

\* No handler runs: the supervisor waits for its child.
Returned == [h \in Handlers |-> IF h = Sup THEN "waiting" ELSE "none"]

LifeInit ==
  /\ Init
  /\ child = "running"
  /\ how = "none"
  /\ late = FALSE
  /\ sup = Returned
  /\ signal = [h \in Handlers |-> "none"]

-----------------------------------------------------------------------------
(* The agent process *)

Run ==
  /\ child = "running"
  /\ LocalStep
  /\ UNCHANGED life

\* _PeriodicSyncThread._loop: once _stop is set no further sync begins.
PeriodicSync ==
  /\ child # "exited"
  /\ child # "running" => pc[Thread] # "off"
  /\ SyncStep(Thread) \/ SyncFault(Thread)
  /\ UNCHANGED life

\* The run is over, or LLMError ends it: periodic_sync.stop() sets _stop.
RunEnds ==
  /\ child = "running"
  /\ unfinished = {}
  /\ how' \in {"completed", "error"}
  /\ child' = "joining"
  /\ UNCHANGED <<files, late, sup, signal>>

\* ChainCorruptionError and FirewallError end the run with periodic_sync.stop()
\* and no final sync; other exceptions end the process.
RunAborts ==
  /\ child = "running"
  /\ how' = "aborted"
  /\ child' \in {"joining", "leaving"}
  /\ UNCHANGED <<files, late, sup, signal>>

AfterJoin == IF how = "aborted" THEN "leaving" ELSE "sync"

Joined ==
  /\ child = "joining"
  /\ pc[Thread] = "off"
  /\ child' = AfterJoin
  /\ UNCHANGED <<files, how, late, sup, signal>>

JoinTimesOut ==
  /\ child = "joining"
  /\ pc[Thread] # "off"
  /\ late' = TRUE
  /\ child' = AfterJoin
  /\ UNCHANGED <<files, how, sup, signal>>

AfterSync_slip1(now, before, after) == before
AfterSync_slip2(now, before, after) == after

\* _try_s3_sync() returns when its one sync has ended, well or not.
AfterSync(now, before, after) == IF now = "off" THEN after ELSE before

MainSyncBegins ==
  /\ child = "sync"
  /\ \/ Load(Main) /\ child' = "uploading"
     \/ LoadFails(Main) /\ child' = "epilogue"
  /\ UNCHANGED <<how, late, sup, signal>>

MainSync ==
  /\ child = "uploading"
  /\ pc[Main] # "off"
  /\ SyncStep(Main)
  /\ UNCHANGED life

MainSyncReturns ==
  /\ child = "uploading"
  /\ child' = AfterSync(pc[Main], "uploading", "epilogue")
  /\ UNCHANGED <<files, how, late, sup, signal>>

\* agent.shutdown or agent.error, appended after the sync: refused with
\* ChainCorruptionError behind a malformed line, which ends the process.
AppendTerminalEvent ==
  /\ child = "epilogue"
  /\ how # "completed"
  /\ IF Spoiled(1)
     THEN UNCHANGED <<disk, written>>
     ELSE \E e \in LineEnds : AppendLine(1, e)
  /\ child' = "leaving"
  /\ UNCHANGED <<unfinished, constitution, research, remote, state, pc, at, mem,
                 buf, faults, how, late, sup, signal>>

\* The process ends and its daemon thread with it.
Exit ==
  /\ child' = "exited"
  /\ Stop({Thread, Main})
  /\ UNCHANGED <<local, remote, state, faults, late>>

ChildExits ==
  /\ \/ child = "leaving"
     \/ child = "epilogue" /\ how = "completed"
  /\ Exit
  /\ UNCHANGED <<how, sup, signal>>

-----------------------------------------------------------------------------
(* The supervisor *)

\* What a handler, or the supervisor after the child, does next.
Goes(h, step) == sup' = [sup EXCEPT ![h] = step]

\* A handler that is interrupted goes on when the other one returns; the sync it
\* waits for goes on all the same.
Runs(h) == h = Sup => sup[Again] = "none"

\* _on_term runs its sync to the end before it forwards the signal.
SignalArrives ==
  /\ sup[Sup] = "waiting"
  /\ signal[Sup] = "none"
  /\ signal' \in {[signal EXCEPT ![Sup] = s] : s \in {"TERM", "INT"}}
  /\ Goes(Sup, "shutdown")
  /\ UNCHANGED <<files, child, how, late>>

\* A second signal interrupts whatever the supervisor waits for.  (Bound: it is
\* the first one again.)
SecondSignal ==
  /\ Fault("signal")
  /\ sup[Sup] # "exited"
  /\ \E s \in {"TERM", "INT"} :
       /\ \/ signal[Sup] = s
          \/ signal[Sup] = "none" /\ sup[Sup] # "waiting"
       /\ signal' = [signal EXCEPT ![Again] = s]
  /\ Goes(Again, "shutdown")
  /\ UNCHANGED <<local, remote, state, pc, at, mem, buf, child, how, late>>

SupSyncBegins(h) ==
  /\ Runs(h)
  /\ \/ sup[h] = "shutdown" /\ Load(h) /\ Goes(h, "shutdown_upload")
     \/ sup[h] = "shutdown" /\ LoadFails(h) /\ Goes(h, "forward")
     \/ sup[h] = "final" /\ Load(h) /\ Goes(h, "final_upload")
     \/ sup[h] = "final" /\ LoadFails(h) /\ Goes(h, "exited")
  /\ UNCHANGED <<child, how, late, signal>>

AfterUpload == [shutdown_upload |-> "forward", final_upload |-> "exited"]

SupSync(h) ==
  /\ sup[h] \in DOMAIN AfterUpload
  /\ pc[h] # "off"
  /\ SyncStep(h)
  /\ UNCHANGED life

SupSyncReturns(h) ==
  /\ sup[h] \in DOMAIN AfterUpload
  /\ Runs(h)
  /\ Goes(h, AfterSync(pc[h], sup[h], AfterUpload[sup[h]]))
  /\ UNCHANGED <<files, child, how, late, signal>>

\* subprocess.run(timeout=budget + 5) kills the sync.
SupSyncTimesOut(h) ==
  /\ sup[h] \in DOMAIN AfterUpload
  /\ Runs(h)
  /\ Fault("timeout")
  /\ Stop({h})
  /\ Goes(h, AfterUpload[sup[h]])
  /\ UNCHANGED <<local, remote, state, child, how, late, signal>>

\* SIGTERM ends the agent process where it is.
ForwardTerm(h) ==
  /\ sup[h] = "forward" /\ Runs(h)
  /\ signal[h] = "TERM"
  /\ Goes(h, Returned[h])
  /\ IF child = "exited" THEN UNCHANGED <<files, child, how, late>>
     ELSE Exit /\ how' = "killed"
  /\ UNCHANGED signal

\* SIGINT raises KeyboardInterrupt; its handler stops the thread, syncs and
\* appends agent.shutdown.  Outside the try block, or in that handler, it ends
\* the process.
ForwardInt(h) ==
  /\ sup[h] = "forward" /\ Runs(h)
  /\ signal[h] = "INT"
  /\ Goes(h, Returned[h])
  /\ \/ /\ child \in {"running", "joining", "sync", "uploading"}
        /\ how \in {"none", "completed"}
        /\ unfinished = {}
        /\ how' = "interrupt"
        /\ child' = "joining"
        /\ Stop({Main})
        /\ UNCHANGED <<local, remote, state, faults, late>>
     \/ /\ child \in {"epilogue", "leaving"} \/ how \in {"error", "aborted", "interrupt"}
        /\ child # "exited"
        /\ Exit
        /\ UNCHANGED how
     \/ /\ child = "exited"
        /\ UNCHANGED <<files, child, how, late>>
  /\ UNCHANGED signal

\* child.wait() returns: a final sync only if there was no signal.
Reap ==
  /\ sup = Returned
  /\ child = "exited"
  /\ Goes(Sup, IF signal = [h \in Handlers |-> "none"] THEN "final" ELSE "exited")
  /\ UNCHANGED <<files, child, how, late, signal>>

Stopped == sup[Sup] = "exited" /\ UNCHANGED lifecycleVars

-----------------------------------------------------------------------------
CallFails ==
  /\ \E s \in {Main} \cup Handlers : SyncFault(s)
  /\ UNCHANGED life

ChildStep ==
  \/ Joined \/ JoinTimesOut \/ MainSyncBegins
  \/ MainSync \/ MainSyncReturns
  \/ AppendTerminalEvent \/ ChildExits

SupStep ==
  \/ Reap
  \/ \E h \in Handlers :
       \/ SupSyncBegins(h) \/ SupSync(h) \/ SupSyncReturns(h)
       \/ ForwardTerm(h) \/ ForwardInt(h)

LifeNext ==
  \/ Run \/ PeriodicSync \/ RunEnds \/ RunAborts \/ ChildStep \/ CallFails
  \/ SignalArrives \/ SecondSignal \/ SupStep \/ Stopped
  \/ \E h \in Handlers : SupSyncTimesOut(h)

LifeSpec == LifeInit /\ [][LifeNext]_lifecycleVars

\* The main thread, the supervisor and a writer in the middle of a line make
\* progress; nothing is assumed of the periodic thread, whose S3 calls may
\* hang, nor of when the run ends.
FairLifeSpec ==
  /\ LifeSpec
  /\ WF_lifecycleVars(ChildStep)
  /\ WF_lifecycleVars(SupStep)
  /\ \A l \in Ledgers : WF_lifecycleVars(Run /\ FinishLine(l))

-----------------------------------------------------------------------------
(* Properties *)

\* A run that completes, is not signalled and whose periodic thread stops in
\* time leaves all its records in S3 when the container stops, even if the
\* supervisor's own sync runs out of its budget.
CleanExitArchived ==
  (/\ sup[Sup] = "exited"
   /\ how = "completed"
   /\ signal[Sup] = "none"
   /\ ~late
   /\ faults = {}) => \A l \in Ledgers : archive[l] = disk[l]

\* A signal stops the container, whatever the run, its periodic thread or a
\* hanging S3 call of that thread are doing, and although a second signal
\* interrupts the handler of the first.
SignalStops == (\E h \in Handlers : signal[h] # "none") ~> sup[Sup] = "exited"
=============================================================================
