------------------------ MODULE SharedKnowledgeProofs ------------------------
(***************************************************************************)
(* Proofs about SharedKnowledge, for any artifacts, grants, readers, jobs  *)
(* and budgets: jobs may overlap, fail and cut their writes without bound. *)
(* First HEAD and the grants, then what is promoted and published.         *)
(***************************************************************************)
EXTENDS SharedKnowledge, SequenceTheorems, FiniteSetTheorems, TLAPS

Grants == [upto : Nat, readAt : Nat, stamp : Nat]

\* Phases in which a job has touched neither the grant state nor S3.
EarlyPhases == {"idle", "collect", "candidates", "promote", "promotions", "grants"}
PutPhases == {"putPromoted", "putGrants", "putHead"}
Phases == EarlyPhases \cup {"truncate", "write", "bytes"} \cup PutPhases

IsJob(j) ==
  /\ j = [at |-> j.at, tool |-> j.tool, todo |-> j.todo, found |-> j.found, clean |-> j.clean,
          upto |-> j.upto, readAt |-> j.readAt, stamp |-> j.stamp, promoted |-> j.promoted,
          grants |-> j.grants, snap |-> j.snap]
  /\ j.at \in Phases
  /\ j.upto \in Nat /\ j.readAt \in Nat /\ j.stamp \in Nat /\ j.snap \in Nat

TypeInv ==
  /\ clock \in Nat
  /\ ledger \in Seq([row : GrantRows, at : Nat])
  /\ state \in Grants \cup {None, Torn}
  /\ job = [p \in Jobs |-> job[p]]
  /\ \A p \in Jobs : IsJob(job[p])
  /\ overlapped \in BOOLEAN

\* What a job has read of the ledger, and what a grant state was made of, is
\* what the ledger was at a time not later than the stamp.
GrantInv ==
  /\ \A i \in 1..Len(ledger) : ledger[i].at <= clock
  /\ \A p \in Jobs :
       /\ job[p].at \in {"truncate", "write"} =>
            job[p].readAt <= clock /\ job[p].upto \in LengthsAt(job[p].readAt)
       /\ job[p].at = "write" => job[p].readAt <= job[p].stamp /\ job[p].stamp <= clock
  /\ state \notin {None, Torn} =>
       /\ state.readAt <= state.stamp /\ state.stamp <= clock
       /\ state.upto \in LengthsAt(state.readAt)

Publishing(p) == job[p].at \in PutPhases

\* A second that one snapshot took belongs to one job, or to HEAD when that
\* job is done; what the job has put so far is there.
SnapInv ==
  /\ \A s \in DOMAIN taken : s \in Nat /\ taken[s] \in Nat \ {0}
  /\ \A s \in DOMAIN objects :
       objects[s] = [promoted |-> objects[s].promoted, grants |-> objects[s].grants]
  /\ \A p \in Jobs : Publishing(p) =>
       /\ job[p].snap \in DOMAIN taken
       /\ taken[job[p].snap] = 1 =>
            /\ job[p].at \in {"putGrants", "putHead"} =>
                 /\ job[p].snap \in DOMAIN objects
                 /\ objects[job[p].snap].promoted = job[p].promoted
            /\ job[p].at = "putHead" => objects[job[p].snap].grants = job[p].grants
            /\ \A q \in Jobs : Publishing(q) /\ job[q].snap = job[p].snap => q = p
            /\ head # None => head.snap # job[p].snap
  /\ head # None =>
       /\ head.snap \in DOMAIN taken
       /\ taken[head.snap] = 1 =>
            /\ head.snap \in DOMAIN objects
            /\ objects[head.snap] = [promoted |-> head.promoted, grants |-> head.grants]

\* One job at a time leaves no torn state behind its own writing of it.
AloneInv ==
  ~overlapped =>
    /\ \A p, q \in Jobs : job[p].at # "idle" /\ job[q].at # "idle" => p = q
    /\ \A p \in Jobs : /\ job[p].at = "write" => state = Torn
                       /\ job[p].at = "bytes" => state # Torn
                       /\ Publishing(p) => job[p].grants # Torn
    /\ head # None => head.grants # Torn

SharedInv == TypeInv /\ GrantInv /\ SnapInv /\ AloneInv

-----------------------------------------------------------------------------
(* What the steps do *)

LEMMA IdleIsJob == IsJob(Idle) /\ Idle.at = "idle"
  BY DEF IsJob, Idle, Phases, EarlyPhases

\* A job with one field replaced is a job.
LEMMA SetAt ==
  ASSUME NEW j, IsJob(j), NEW x \in Phases
  PROVE  /\ IsJob([j EXCEPT !.at = x]) /\ [j EXCEPT !.at = x].at = x
         /\ [j EXCEPT !.at = x].upto = j.upto
         /\ [j EXCEPT !.at = x].readAt = j.readAt
  BY DEF IsJob

LEMMA SetTool ==
  ASSUME NEW j, IsJob(j), NEW x
  PROVE  /\ IsJob([j EXCEPT !.tool = x]) /\ [j EXCEPT !.tool = x].tool = x
         /\ [j EXCEPT !.tool = x].at = j.at
  BY DEF IsJob

LEMMA SetTodo ==
  ASSUME NEW j, IsJob(j), NEW x
  PROVE  /\ IsJob([j EXCEPT !.todo = x]) /\ [j EXCEPT !.todo = x].todo = x
         /\ [j EXCEPT !.todo = x].at = j.at
  BY DEF IsJob

LEMMA SetFound ==
  ASSUME NEW j, IsJob(j), NEW x
  PROVE  /\ IsJob([j EXCEPT !.found = x]) /\ [j EXCEPT !.found = x].found = x
         /\ [j EXCEPT !.found = x].at = j.at
  BY DEF IsJob

LEMMA SetClean ==
  ASSUME NEW j, IsJob(j), NEW x
  PROVE  /\ IsJob([j EXCEPT !.clean = x]) /\ [j EXCEPT !.clean = x].clean = x
         /\ [j EXCEPT !.clean = x].at = j.at
  BY DEF IsJob

LEMMA SetUpto ==
  ASSUME NEW j, IsJob(j), NEW x \in Nat
  PROVE  /\ IsJob([j EXCEPT !.upto = x]) /\ [j EXCEPT !.upto = x].upto = x
         /\ [j EXCEPT !.upto = x].at = j.at
  BY DEF IsJob

LEMMA SetReadAt ==
  ASSUME NEW j, IsJob(j), NEW x \in Nat
  PROVE  /\ IsJob([j EXCEPT !.readAt = x]) /\ [j EXCEPT !.readAt = x].readAt = x
         /\ [j EXCEPT !.readAt = x].at = j.at
         /\ [j EXCEPT !.readAt = x].upto = j.upto
  BY DEF IsJob

LEMMA SetStamp ==
  ASSUME NEW j, IsJob(j), NEW x \in Nat
  PROVE  /\ IsJob([j EXCEPT !.stamp = x]) /\ [j EXCEPT !.stamp = x].stamp = x
         /\ [j EXCEPT !.stamp = x].at = j.at
         /\ [j EXCEPT !.stamp = x].upto = j.upto
         /\ [j EXCEPT !.stamp = x].readAt = j.readAt
  BY DEF IsJob

LEMMA SetPromoted ==
  ASSUME NEW j, IsJob(j), NEW x
  PROVE  /\ IsJob([j EXCEPT !.promoted = x]) /\ [j EXCEPT !.promoted = x].promoted = x
         /\ [j EXCEPT !.promoted = x].at = j.at
  BY DEF IsJob

LEMMA SetGrants ==
  ASSUME NEW j, IsJob(j), NEW x
  PROVE  /\ IsJob([j EXCEPT !.grants = x]) /\ [j EXCEPT !.grants = x].grants = x
         /\ [j EXCEPT !.grants = x].at = j.at
  BY DEF IsJob

LEMMA SetSnap ==
  ASSUME NEW j, IsJob(j), NEW x \in Nat
  PROVE  /\ IsJob([j EXCEPT !.snap = x]) /\ [j EXCEPT !.snap = x].snap = x
         /\ [j EXCEPT !.snap = x].at = j.at
         /\ [j EXCEPT !.snap = x].grants = j.grants
  BY DEF IsJob

LEMMA BecomesFacts ==
  ASSUME job = [p \in Jobs |-> job[p]], NEW p \in Jobs, NEW new, IsJob(new), Becomes(p, new)
  PROVE  /\ job' = [q \in Jobs |-> job'[q]]
         /\ \A q \in Jobs : q # p => job'[q] = job[q]
         /\ job'[p] = IF new.at = "idle" THEN Idle ELSE new
         /\ IsJob(job'[p]) /\ job'[p].at = new.at
<1>1. job' = [job EXCEPT ![p] = IF new.at = "idle" THEN Idle ELSE new]
  BY DEF Becomes
<1>2. DOMAIN job = Jobs
  OBVIOUS
<1>3. /\ job' = [q \in Jobs |-> job'[q]]
      /\ \A q \in Jobs : q # p => job'[q] = job[q]
      /\ job'[p] = IF new.at = "idle" THEN Idle ELSE new
  BY <1>1, <1>2
<1>4. QED
  BY <1>3, IdleIsJob

JobsKept(p) ==
  /\ job' = [q \in Jobs |-> job'[q]]
  /\ \A q \in Jobs : q # p => job'[q] = job[q]
  /\ IsJob(job'[p])

\* The steps of a job before it reads the grants, and its failure.
LEMMA EarlySteps ==
  ASSUME TypeInv, NEW p \in Jobs,
         \/ Start(p) \/ Collect(p) \/ AppendCandidates(p) \/ Promote(p) \/ AppendPromotions(p)
         \/ Fails(p)
  PROVE  /\ UNCHANGED <<clock, ledger, state, objects, head, taken>>
         /\ JobsKept(p) /\ job'[p].at \in EarlyPhases
         /\ Start(p) \/ (job[p].at # "idle" /\ UNCHANGED overlapped)
<1> DEFINE Goal == /\ UNCHANGED <<clock, ledger, state, objects, head, taken>>
                   /\ JobsKept(p) /\ job'[p].at \in EarlyPhases
                   /\ Start(p) \/ (job[p].at # "idle" /\ UNCHANGED overlapped)
<1>1. IsJob(job[p])
  BY DEF TypeInv
<1>2. ASSUME NEW new, IsJob(new), Becomes(p, new), new.at \in EarlyPhases
      PROVE  JobsKept(p) /\ job'[p].at \in EarlyPhases
  BY <1>2, BecomesFacts DEF TypeInv, JobsKept
<1>3. ASSUME Start(p)
      PROVE  Goal
  <2>1. PICK tool \in Tools :
          Becomes(p, [Idle EXCEPT !.at = Phase(tool), !.tool = tool,
                       !.clean = Ended(candidates, Len(candidates)) /\ Ended(promoted, Len(promoted))])
    BY <1>3 DEF Start
  <2> DEFINE new == [Idle EXCEPT !.at = Phase(tool), !.tool = tool,
                      !.clean = Ended(candidates, Len(candidates)) /\ Ended(promoted, Len(promoted))]
  <2>2. Phase(tool) \in EarlyPhases /\ Phase(tool) \in Phases
    BY DEF Phase, Tools, EarlyPhases, Phases
  <2>3. IsJob(new) /\ new.at \in EarlyPhases
    <3> DEFINE j1 == [Idle EXCEPT !.at = Phase(tool)]
               j2 == [j1 EXCEPT !.tool = tool]
               x == Ended(candidates, Len(candidates)) /\ Ended(promoted, Len(promoted))
    <3>1. IsJob(j1) /\ j1.at = Phase(tool)
      BY <2>2, IdleIsJob, SetAt
    <3>2. new = [j2 EXCEPT !.clean = x]
      OBVIOUS
    <3> HIDE DEF new, x, j1
    <3>3. IsJob(j2) /\ j2.at = j1.at
      BY <3>1, SetTool
    <3> HIDE DEF j2
    <3>4. IsJob([j2 EXCEPT !.clean = x]) /\ [j2 EXCEPT !.clean = x].at = j2.at
      BY <3>3, SetClean
    <3>5. QED
      BY <2>2, <3>1, <3>2, <3>3, <3>4
  <2>4. QED
    BY <1>2, <1>3, <2>1, <2>3 DEF Start, files
<1>4. ASSUME Collect(p)
      PROVE  Goal
  <2> DEFINE new == [job[p] EXCEPT !.at = "candidates", !.todo = Lines(NewCandidates, p),
                                   !.found = artifacts]
  <2>1. IsJob(new) /\ new.at \in EarlyPhases
    <3> DEFINE j0 == job[p]
               j1 == [j0 EXCEPT !.at = "candidates"]
               j2 == [j1 EXCEPT !.todo = Lines(NewCandidates, p)]
               j3 == [j2 EXCEPT !.found = artifacts]
    <3>1. IsJob(j0) /\ "candidates" \in Phases
      BY <1>1 DEF Phases, EarlyPhases, PutPhases
    <3>2. new = j3
      OBVIOUS
    <3> HIDE DEF new, j0
    <3>3. IsJob(j1) /\ j1.at = "candidates"
      BY <3>1, SetAt
    <3> HIDE DEF j1
    <3>4. IsJob(j2) /\ j2.at = j1.at
      BY <3>3, SetTodo
    <3> HIDE DEF j2
    <3>5. IsJob(j3) /\ j3.at = j2.at
      BY <3>4, SetFound
    <3> HIDE DEF j3
    <3>6. QED
      BY <3>1, <3>2, <3>3, <3>4, <3>5 DEF j0, EarlyPhases
  <2>2. QED
    BY <1>2, <1>4, <2>1 DEF Collect, Local, files, At
<1>5. ASSUME Promote(p)
      PROVE  Goal
  <2> DEFINE new == [job[p] EXCEPT !.at = "promotions", !.todo = Lines(NewPromotions, p)]
  <2>1. IsJob(new) /\ new.at \in EarlyPhases
    <3> DEFINE j0 == job[p]
               j1 == [j0 EXCEPT !.at = "promotions"]
               j2 == [j1 EXCEPT !.todo = Lines(NewPromotions, p)]
    <3>1. IsJob(j0) /\ "promotions" \in Phases
      BY <1>1 DEF Phases, EarlyPhases, PutPhases
    <3>2. new = j2
      OBVIOUS
    <3> HIDE DEF new, j0
    <3>3. IsJob(j1) /\ j1.at = "promotions"
      BY <3>1, SetAt
    <3> HIDE DEF j1
    <3>4. IsJob(j2) /\ j2.at = j1.at
      BY <3>3, SetTodo
    <3> HIDE DEF j2
    <3>5. QED
      BY <3>1, <3>2, <3>3, <3>4 DEF j0, EarlyPhases
  <2>2. QED
    BY <1>2, <1>5, <2>1 DEF Promote, Local, files, At
<1>6. ASSUME NEW file, NEW file2, NEW next \in EarlyPhases, Flush(p, file, file2, next),
             job[p].at \in EarlyPhases
      PROVE  JobsKept(p) /\ job'[p].at \in EarlyPhases
  <2>1. CASE Becomes(p, [job[p] EXCEPT !.at = next, !.todo = <<>>])
    <3> DEFINE new == [job[p] EXCEPT !.at = next, !.todo = <<>>]
    <3>1. IsJob(new) /\ new.at \in EarlyPhases
      <4> DEFINE j0 == job[p]
                 j1 == [j0 EXCEPT !.at = next]
                 j2 == [j1 EXCEPT !.todo = <<>>]
      <4>1. IsJob(j0) /\ next \in Phases
        BY <1>1, <1>6 DEF Phases, EarlyPhases, PutPhases
      <4>2. new = j2
        OBVIOUS
      <4> HIDE DEF new, j0
      <4>3. IsJob(j1) /\ j1.at = next
        BY <4>1, SetAt
      <4> HIDE DEF j1
      <4>4. IsJob(j2) /\ j2.at = j1.at
        BY <4>3, SetTodo
      <4> HIDE DEF j2
      <4>5. QED
        BY <1>6, <4>1, <4>2, <4>3, <4>4
    <3>2. QED
      BY <1>2, <2>1, <3>1
  <2>2. ASSUME NEW todo, Becomes(p, [job[p] EXCEPT !.todo = todo])
        PROVE  JobsKept(p) /\ job'[p].at \in EarlyPhases
    <3> DEFINE new == [job[p] EXCEPT !.todo = todo]
    <3>1. IsJob(new) /\ new.at \in EarlyPhases
      BY <1>1, <1>6 DEF IsJob
    <3>2. QED
      BY <1>2, <2>2, <3>1
  <2>3. QED
    BY <1>6, <2>1, <2>2 DEF Flush
<1>7. ASSUME AppendCandidates(p)
      PROVE  Goal
  <2>1. Goto(p, "promote", "index") \in EarlyPhases
    BY DEF Goto, EarlyPhases
  <2>2. QED
    BY <1>6, <1>7, <2>1 DEF AppendCandidates, Local, At, EarlyPhases
<1>8. ASSUME AppendPromotions(p)
      PROVE  Goal
  <2>1. Goto(p, "grants", "promote") \in EarlyPhases
    BY DEF Goto, EarlyPhases
  <2>2. QED
    BY <1>6, <1>8, <2>1 DEF AppendPromotions, Local, At, EarlyPhases
<1>9. ASSUME Fails(p)
      PROVE  Goal
  <2>1. "idle" \in EarlyPhases
    BY DEF EarlyPhases
  <2>2. QED
    BY <1>2, <1>9, <2>1, IdleIsJob DEF Fails, Local, files
<1>10. QED
  BY <1>3, <1>4, <1>5, <1>7, <1>8, <1>9

\* The other steps of a job.
LEMMA LateSteps ==
  ASSUME TypeInv, NEW p \in Jobs
  PROVE  /\ ReadGrants(p) =>
              /\ UNCHANGED <<clock, ledger, state, objects, head, taken, overlapped>>
              /\ JobsKept(p) /\ job[p].at = "grants" /\ job'[p].at = "truncate"
              /\ job'[p].upto = Len(ledger) /\ job'[p].readAt = clock
         /\ Truncate(p) =>
              /\ UNCHANGED <<clock, ledger, objects, head, taken, overlapped>>
              /\ state' = Torn
              /\ JobsKept(p) /\ job[p].at = "truncate" /\ job'[p].at = "write"
              /\ job'[p].upto = job[p].upto /\ job'[p].readAt = job[p].readAt
              /\ job'[p].stamp = clock
         /\ WriteState(p) =>
              /\ UNCHANGED <<clock, ledger, objects, head, taken, overlapped>>
              /\ \/ state' = [upto |-> job[p].upto, readAt |-> job[p].readAt, stamp |-> job[p].stamp]
                 \/ state # Torn /\ state' = Torn
              /\ JobsKept(p) /\ job[p].at = "write" /\ job'[p].at \in {"bytes", "idle"}
         /\ ReadBytes(p) =>
              /\ UNCHANGED <<clock, ledger, state, objects, head, overlapped>>
              /\ taken' = [s \in DOMAIN taken \cup {clock} |->
                   (IF s \in DOMAIN taken THEN taken[s] ELSE 0) + (IF s = clock THEN 1 ELSE 0)]
              /\ JobsKept(p) /\ job[p].at = "bytes" /\ job'[p].at = "putPromoted"
              /\ job'[p].grants = state /\ job'[p].snap = clock
         /\ PutPromoted(p) =>
              /\ UNCHANGED <<clock, ledger, state, head, taken, overlapped>>
              /\ objects' = With(job[p].snap, "promoted", job[p].promoted)
              /\ JobsKept(p) /\ job[p].at = "putPromoted"
              /\ job'[p] = [job[p] EXCEPT !.at = "putGrants"]
         /\ PutGrants(p) =>
              /\ UNCHANGED <<clock, ledger, state, head, taken, overlapped>>
              /\ objects' = With(job[p].snap, "grants", job[p].grants)
              /\ JobsKept(p) /\ job[p].at = "putGrants"
              /\ job'[p] = [job[p] EXCEPT !.at = "putHead"]
         /\ PutHead(p) =>
              /\ UNCHANGED <<clock, ledger, state, objects, taken, overlapped>>
              /\ head' = [snap |-> job[p].snap, promoted |-> job[p].promoted, grants |-> job[p].grants]
              /\ JobsKept(p) /\ job[p].at = "putHead" /\ job'[p].at = "idle"
<1>1. IsJob(job[p]) /\ clock \in Nat /\ Len(ledger) \in Nat
  BY LenProperties DEF TypeInv
<1>2. ASSUME NEW new, IsJob(new), Becomes(p, new)
      PROVE  JobsKept(p) /\ job'[p].at = new.at /\ (new.at # "idle" => job'[p] = new)
  BY <1>2, BecomesFacts DEF TypeInv, JobsKept
<1>3. ASSUME ReadGrants(p)
      PROVE  /\ UNCHANGED <<clock, ledger, state, objects, head, taken, overlapped>>
             /\ JobsKept(p) /\ job[p].at = "grants" /\ job'[p].at = "truncate"
             /\ job'[p].upto = Len(ledger) /\ job'[p].readAt = clock
  <2> DEFINE new == [job[p] EXCEPT !.at = "truncate", !.upto = Len(ledger), !.readAt = clock]
  <2>1. IsJob(new) /\ new.at = "truncate" /\ new.upto = Len(ledger) /\ new.readAt = clock
    <3> DEFINE j0 == job[p]
               j1 == [j0 EXCEPT !.at = "truncate"]
               j2 == [j1 EXCEPT !.upto = Len(ledger)]
               j3 == [j2 EXCEPT !.readAt = clock]
    <3>1. IsJob(j0) /\ "truncate" \in Phases
      BY <1>1 DEF Phases, EarlyPhases, PutPhases
    <3>2. new = j3
      OBVIOUS
    <3> HIDE DEF new, j0
    <3>3. IsJob(j1) /\ j1.at = "truncate"
      BY <3>1, SetAt
    <3> HIDE DEF j1
    <3>4. IsJob(j2) /\ j2.at = j1.at /\ j2.upto = Len(ledger)
      BY <1>1, <3>3, SetUpto
    <3> HIDE DEF j2
    <3>5. IsJob(j3) /\ j3.at = j2.at /\ j3.readAt = clock /\ j3.upto = j2.upto
      BY <1>1, <3>4, SetReadAt
    <3> HIDE DEF j3
    <3>6. QED
      BY <3>1, <3>2, <3>3, <3>4, <3>5 DEF j0
  <2>2. QED
    BY <1>2, <1>3, <2>1 DEF ReadGrants, Local, files, At
<1>4. ASSUME Truncate(p)
      PROVE  /\ UNCHANGED <<clock, ledger, objects, head, taken, overlapped>>
             /\ state' = Torn
             /\ JobsKept(p) /\ job[p].at = "truncate" /\ job'[p].at = "write"
             /\ job'[p].upto = job[p].upto /\ job'[p].readAt = job[p].readAt
             /\ job'[p].stamp = clock
  <2> DEFINE new == [job[p] EXCEPT !.at = "write", !.stamp = clock]
  <2>1. /\ IsJob(new) /\ new.at = "write" /\ new.upto = job[p].upto
        /\ new.readAt = job[p].readAt /\ new.stamp = clock
    <3> DEFINE j0 == job[p]
               j1 == [j0 EXCEPT !.at = "write"]
               j2 == [j1 EXCEPT !.stamp = clock]
    <3>1. IsJob(j0) /\ "write" \in Phases
      BY <1>1 DEF Phases, EarlyPhases, PutPhases
    <3>2. new = j2
      OBVIOUS
    <3> HIDE DEF new, j0
    <3>3. IsJob(j1) /\ j1.at = "write" /\ j1.upto = j0.upto /\ j1.readAt = j0.readAt
      BY <3>1, SetAt
    <3> HIDE DEF j1
    <3>4. IsJob(j2) /\ j2.at = j1.at /\ j2.stamp = clock /\ j2.upto = j1.upto /\ j2.readAt = j1.readAt
      BY <1>1, <3>3, SetStamp
    <3> HIDE DEF j2
    <3>5. QED
      BY <3>1, <3>2, <3>3, <3>4 DEF j0
  <2>2. QED
    BY <1>2, <1>4, <2>1 DEF Truncate, Local, At
<1>5. ASSUME WriteState(p)
      PROVE  /\ UNCHANGED <<clock, ledger, objects, head, taken, overlapped>>
             /\ \/ state' = [upto |-> job[p].upto, readAt |-> job[p].readAt, stamp |-> job[p].stamp]
                \/ state # Torn /\ state' = Torn
             /\ JobsKept(p) /\ job[p].at = "write" /\ job'[p].at \in {"bytes", "idle"}
  <2> DEFINE new == [job[p] EXCEPT !.at = Goto(p, "bytes", "grants")]
  <2>1. IsJob(new) /\ new.at \in {"bytes", "idle"}
    BY <1>1 DEF IsJob, Phases, EarlyPhases, Goto
  <2>2. QED
    BY <1>2, <1>5, <2>1 DEF WriteState, Local, At
<1>6. ASSUME ReadBytes(p)
      PROVE  /\ UNCHANGED <<clock, ledger, state, objects, head, overlapped>>
             /\ taken' = [s \in DOMAIN taken \cup {clock} |->
                  (IF s \in DOMAIN taken THEN taken[s] ELSE 0) + (IF s = clock THEN 1 ELSE 0)]
             /\ JobsKept(p) /\ job[p].at = "bytes" /\ job'[p].at = "putPromoted"
             /\ job'[p].grants = state /\ job'[p].snap = clock
  <2> DEFINE new == [job[p] EXCEPT !.at = "putPromoted", !.promoted = promoted,
                                   !.grants = state, !.snap = clock]
  <2>1. IsJob(new) /\ new.at = "putPromoted" /\ new.grants = state /\ new.snap = clock
    <3> DEFINE j0 == job[p]
               j1 == [j0 EXCEPT !.at = "putPromoted"]
               j2 == [j1 EXCEPT !.promoted = promoted]
               j3 == [j2 EXCEPT !.grants = state]
               j4 == [j3 EXCEPT !.snap = clock]
    <3>1. IsJob(j0) /\ "putPromoted" \in Phases
      BY <1>1 DEF Phases, EarlyPhases, PutPhases
    <3>2. new = j4
      OBVIOUS
    <3> HIDE DEF new, j0
    <3>3. IsJob(j1) /\ j1.at = "putPromoted"
      BY <3>1, SetAt
    <3> HIDE DEF j1
    <3>4. IsJob(j2) /\ j2.at = j1.at
      BY <3>3, SetPromoted
    <3> HIDE DEF j2
    <3>5. IsJob(j3) /\ j3.at = j2.at /\ j3.grants = state
      BY <3>4, SetGrants
    <3> HIDE DEF j3
    <3>6. IsJob(j4) /\ j4.at = j3.at /\ j4.snap = clock /\ j4.grants = j3.grants
      BY <1>1, <3>5, SetSnap
    <3> HIDE DEF j4
    <3>7. QED
      BY <3>1, <3>2, <3>3, <3>4, <3>5, <3>6 DEF j0
  <2>2. QED
    BY <1>2, <1>6, <2>1 DEF ReadBytes, files, At
<1>7. ASSUME PutPromoted(p)
      PROVE  /\ UNCHANGED <<clock, ledger, state, head, taken, overlapped>>
             /\ objects' = With(job[p].snap, "promoted", job[p].promoted)
             /\ JobsKept(p) /\ job[p].at = "putPromoted"
             /\ job'[p] = [job[p] EXCEPT !.at = "putGrants"]
  <2> DEFINE new == [job[p] EXCEPT !.at = "putGrants"]
  <2>1. IsJob(new) /\ new.at = "putGrants"
    BY <1>1 DEF IsJob, Phases, PutPhases
  <2>2. QED
    BY <1>2, <1>7, <2>1 DEF PutPromoted, Put, files, At
<1>8. ASSUME PutGrants(p)
      PROVE  /\ UNCHANGED <<clock, ledger, state, head, taken, overlapped>>
             /\ objects' = With(job[p].snap, "grants", job[p].grants)
             /\ JobsKept(p) /\ job[p].at = "putGrants"
             /\ job'[p] = [job[p] EXCEPT !.at = "putHead"]
  <2> DEFINE new == [job[p] EXCEPT !.at = "putHead"]
  <2>1. IsJob(new) /\ new.at = "putHead"
    BY <1>1 DEF IsJob, Phases, PutPhases
  <2>2. QED
    BY <1>2, <1>8, <2>1 DEF PutGrants, Put, files, At
<1>9. ASSUME PutHead(p)
      PROVE  /\ UNCHANGED <<clock, ledger, state, objects, taken, overlapped>>
             /\ head' = [snap |-> job[p].snap, promoted |-> job[p].promoted, grants |-> job[p].grants]
             /\ JobsKept(p) /\ job[p].at = "putHead" /\ job'[p].at = "idle"
  BY <1>2, <1>9, IdleIsJob DEF PutHead, files, At
<1>10. QED
  BY <1>3, <1>4, <1>5, <1>6, <1>7, <1>8, <1>9

\* The steps of everybody else.
LEMMA OtherSteps ==
  ASSUME Research \/ AppendGrant \/ Ingest \/ Tick \/ UNCHANGED vars
  PROVE  /\ UNCHANGED <<state, objects, head, job, taken, overlapped>>
         /\ \/ UNCHANGED <<clock, ledger>>
            \/ clock' = clock + 1 /\ UNCHANGED ledger
            \/ /\ UNCHANGED clock
               /\ \E row \in GrantRows : ledger' = Append(ledger, [row |-> row, at |-> clock])
  BY DEF Research, AppendGrant, Ingest, Tick, vars, files, Local

LEMMA SharedTypeStep == TypeInv /\ [Next]_vars => TypeInv'
<1> SUFFICES ASSUME TypeInv, [Next]_vars PROVE TypeInv'
  OBVIOUS
<1>1. ASSUME Research \/ AppendGrant \/ Ingest \/ Tick \/ UNCHANGED vars
      PROVE  TypeInv'
  <2>1. /\ UNCHANGED <<state, job, overlapped>>
        /\ \/ UNCHANGED <<clock, ledger>>
           \/ clock' = clock + 1 /\ UNCHANGED ledger
           \/ /\ UNCHANGED clock
              /\ \E row \in GrantRows : ledger' = Append(ledger, [row |-> row, at |-> clock])
    BY <1>1, OtherSteps
  <2>2. \A row \in GrantRows :
          Append(ledger, [row |-> row, at |-> clock]) \in Seq([row : GrantRows, at : Nat])
    BY AppendProperties DEF TypeInv
  <2>3. clock' \in Nat
    <3>1. clock' = clock \/ clock' = clock + 1
      BY <2>1, Zenon
    <3>2. QED
      BY <3>1 DEF TypeInv
  <2>4. ledger' \in Seq([row : GrantRows, at : Nat])
    <3>1. \/ UNCHANGED ledger
          \/ \E row \in GrantRows : ledger' = Append(ledger, [row |-> row, at |-> clock])
      BY <2>1, Zenon
    <3>2. QED
      BY <2>2, <3>1 DEF TypeInv
  <2>5. QED
    BY <2>1, <2>3, <2>4 DEF TypeInv
<1>2. ASSUME NEW p \in Jobs, JobsKept(p), UNCHANGED <<clock, ledger>>,
             overlapped' \in BOOLEAN, state' \in Grants \cup {None, Torn}
      PROVE  TypeInv'
  BY <1>2 DEF TypeInv, JobsKept
<1>3. ASSUME NEW p \in Jobs, \/ Start(p) \/ Collect(p) \/ AppendCandidates(p) \/ Promote(p)
                             \/ AppendPromotions(p) \/ Fails(p)
      PROVE  TypeInv'
  <2>1. /\ UNCHANGED <<clock, ledger, state>>
        /\ JobsKept(p) /\ (Start(p) \/ UNCHANGED overlapped)
    BY <1>3, EarlySteps
  <2>2. overlapped' \in BOOLEAN
    BY <2>1 DEF Start, TypeInv
  <2>3. QED
    BY <1>2, <2>1, <2>2 DEF TypeInv
<1>4. ASSUME NEW p \in Jobs, ReadGrants(p) \/ ReadBytes(p) \/ PutPromoted(p) \/ PutGrants(p) \/ PutHead(p)
      PROVE  TypeInv'
  <2>1. UNCHANGED <<clock, ledger, state, overlapped>> /\ JobsKept(p)
    BY <1>4, LateSteps
  <2>2. QED
    BY <1>2, <2>1 DEF TypeInv
<1>5. ASSUME NEW p \in Jobs, Truncate(p) \/ WriteState(p)
      PROVE  TypeInv'
  <2>1. UNCHANGED <<clock, ledger, overlapped>> /\ JobsKept(p)
    BY <1>5, LateSteps
  <2>2. IsJob(job[p])
    BY DEF TypeInv
  <2>3. [upto |-> job[p].upto, readAt |-> job[p].readAt, stamp |-> job[p].stamp] \in Grants
    BY <2>2 DEF IsJob, Grants
  <2>4. state' \in Grants \cup {None, Torn}
    BY <1>5, <2>3, LateSteps
  <2>5. QED
    BY <1>2, <2>1, <2>4 DEF TypeInv
<1>6. QED
  BY <1>1, <1>3, <1>4, <1>5 DEF Next, JobStep

-----------------------------------------------------------------------------
(* Revocations *)

\* What the ledger was at a time, it still was when rows are added later.
LEMMA LengthsKept ==
  ASSUME TypeInv, NEW t \in Nat, t <= clock, NEW n \in LengthsAt(t),
         \/ UNCHANGED ledger
         \/ \E row \in GrantRows : ledger' = Append(ledger, [row |-> row, at |-> clock])
  PROVE  n \in LengthsAt(t)'
<1>1. CASE UNCHANGED ledger
  BY <1>1 DEF LengthsAt
<1>2. ASSUME NEW row \in GrantRows, ledger' = Append(ledger, [row |-> row, at |-> clock])
      PROVE  n \in LengthsAt(t)'
  <2> DEFINE x == [row |-> row, at |-> clock]
  <2>1. /\ ledger \in Seq([row : GrantRows, at : Nat]) /\ Len(ledger) \in Nat
        /\ x \in [row : GrantRows, at : Nat]
    BY LenProperties DEF TypeInv
  <2>2. /\ Len(ledger') = Len(ledger) + 1
        /\ \A i \in 1..Len(ledger) : ledger'[i] = ledger[i]
        /\ ledger'[Len(ledger) + 1] = x
    <3> HIDE DEF x
    <3>1. /\ Len(Append(ledger, x)) = Len(ledger) + 1
          /\ \A i \in 1..Len(ledger) : Append(ledger, x)[i] = ledger[i]
          /\ Append(ledger, x)[Len(ledger) + 1] = x
      BY <2>1, AppendProperties
    <3>2. QED
      BY <1>2, <3>1 DEF x
  <2>3. n \in 0..Len(ledger) /\ n \in Nat /\ (n = 0 \/ n \in 1..Len(ledger))
    BY <2>1 DEF LengthsAt
  <2>4. n = 0 \/ ledger'[n].at <= t
    BY <2>2, <2>3 DEF LengthsAt
  <2>5. ledger'[n+1].at >= t
    <3>1. CASE n = Len(ledger)
      BY <2>2, <3>1 DEF TypeInv
    <3>2. CASE n # Len(ledger)
      <4>1. n + 1 \in 1..Len(ledger) /\ ledger[n+1].at >= t
        BY <2>1, <2>3, <3>2 DEF LengthsAt
      <4>2. QED
        BY <2>2, <4>1
    <3>3. QED
      BY <3>1, <3>2
  <2>6. n \in 0..Len(ledger')
    BY <2>1, <2>2, <2>3
  <2>7. QED
    BY <2>4, <2>5, <2>6 DEF LengthsAt
<1>3. QED
  BY <1>1, <1>2

LEMMA LedgerTimes ==
  ASSUME TypeInv, NEW i \in 1..Len(ledger)
  PROVE  ledger[i].at \in Nat
<1> DEFINE Row == [row : GrantRows, at : Nat]
<1>1. ledger \in Seq(Row)
  BY DEF TypeInv
<1>2. \A x \in Row : x.at \in Nat
  OBVIOUS
<1> HIDE DEF Row
<1>3. ledger[i] \in Row
  BY <1>1, ElementOfSeq
<1>4. QED
  BY <1>2, <1>3

LEMMA GrantStep == TypeInv /\ GrantInv /\ [Next]_vars => GrantInv'
<1> SUFFICES ASSUME TypeInv, GrantInv, [Next]_vars PROVE GrantInv'
  OBVIOUS
<1>0. /\ \A p \in Jobs : IsJob(job[p])
      /\ \A p \in Jobs : job[p].readAt \in Nat /\ job[p].upto \in Nat /\ job[p].stamp \in Nat
      /\ clock \in Nat /\ TypeInv'
      /\ state \notin {None, Torn} => state.readAt \in Nat /\ state.stamp \in Nat
  BY SharedTypeStep DEF TypeInv, IsJob, Grants
<1>1. ASSUME Research \/ AppendGrant \/ Ingest \/ Tick \/ UNCHANGED vars
      PROVE  GrantInv'
  <2>1. /\ UNCHANGED <<state, job>> /\ clock' \in Nat /\ clock <= clock'
        /\ \/ UNCHANGED ledger
           \/ \E row \in GrantRows : ledger' = Append(ledger, [row |-> row, at |-> clock])
    <3>1. /\ UNCHANGED <<state, job>>
          /\ \/ UNCHANGED <<clock, ledger>>
             \/ clock' = clock + 1 /\ UNCHANGED ledger
             \/ /\ UNCHANGED clock
                /\ \E row \in GrantRows : ledger' = Append(ledger, [row |-> row, at |-> clock])
      BY <1>1, OtherSteps
    <3>2. /\ clock' = clock \/ clock' = clock + 1
          /\ \/ UNCHANGED ledger
             \/ \E row \in GrantRows : ledger' = Append(ledger, [row |-> row, at |-> clock])
      BY <3>1, Zenon
    <3>3. clock' \in Nat /\ clock <= clock'
      <4>1. clock' = clock \/ clock' = clock + 1
        BY <3>2
      <4>2. QED
        BY <1>0, <4>1
    <3>4. QED
      BY <3>1, <3>2, <3>3, Zenon
  <2>2. \A t \in Nat : \A n : t <= clock /\ n \in LengthsAt(t) => n \in LengthsAt(t)'
    BY <2>1, LengthsKept
  <2>3. \A i \in 1..Len(ledger') : ledger'[i].at <= clock'
    <3>1. CASE UNCHANGED ledger
      <4>1. ASSUME NEW i \in 1..Len(ledger)
            PROVE  ledger[i].at \in Nat
        BY LedgerTimes
      <4>2. QED
        BY <1>0, <2>1, <3>1, <4>1 DEF GrantInv
    <3>2. ASSUME NEW row \in GrantRows, ledger' = Append(ledger, [row |-> row, at |-> clock])
          PROVE  \A i \in 1..Len(ledger') : ledger'[i].at <= clock'
      <4> DEFINE x == [row |-> row, at |-> clock]
      <4>1. /\ ledger \in Seq([row : GrantRows, at : Nat]) /\ Len(ledger) \in Nat
            /\ x \in [row : GrantRows, at : Nat]
        BY LenProperties DEF TypeInv
      <4>2. /\ Len(ledger') = Len(ledger) + 1
            /\ \A i \in 1..Len(ledger) : ledger'[i] = ledger[i]
            /\ ledger'[Len(ledger) + 1] = x
        <5> HIDE DEF x
        <5>1. /\ Len(Append(ledger, x)) = Len(ledger) + 1
              /\ \A i \in 1..Len(ledger) : Append(ledger, x)[i] = ledger[i]
              /\ Append(ledger, x)[Len(ledger) + 1] = x
          BY <4>1, AppendProperties
        <5>2. QED
          BY <3>2, <5>1 DEF x
      <4>3. ASSUME NEW i \in 1..Len(ledger')
            PROVE  ledger'[i].at <= clock'
        <5>1. CASE i = Len(ledger) + 1
          BY <1>0, <2>1, <4>2, <5>1
        <5>2. CASE i # Len(ledger) + 1
          <6>1. i \in 1..Len(ledger)
            BY <4>1, <4>2, <5>2
          <6>2. ledger[i].at \in Nat /\ ledger[i].at <= clock
            BY <6>1, LedgerTimes DEF GrantInv
          <6>3. QED
            BY <1>0, <2>1, <4>2, <6>1, <6>2
        <5>3. QED
          BY <5>1, <5>2
      <4>4. QED
        BY <4>3
    <3>3. QED
      BY <2>1, <3>1, <3>2
  <2>4. \A p \in Jobs :
          /\ job'[p].at \in {"truncate", "write"} =>
               job'[p].readAt <= clock' /\ (job'[p].upto \in LengthsAt(job[p].readAt)')
          /\ job'[p].at = "write" => job'[p].readAt <= job'[p].stamp /\ job'[p].stamp <= clock'
    BY <1>0, <2>1, <2>2 DEF GrantInv
  <2>5. QED
    BY <1>0, <2>1, <2>2, <2>3, <2>4 DEF GrantInv
<1>2. ASSUME NEW p \in Jobs, JobsKept(p), UNCHANGED <<clock, ledger>>,
             job'[p].at \in {"truncate", "write"} =>
               job'[p].readAt <= clock /\ job'[p].upto \in LengthsAt(job'[p].readAt),
             job'[p].at = "write" => job'[p].readAt <= job'[p].stamp /\ job'[p].stamp <= clock,
             state' \notin {None, Torn} =>
               /\ state'.readAt <= state'.stamp /\ state'.stamp <= clock
               /\ state'.upto \in LengthsAt(state'.readAt)
      PROVE  GrantInv'
  <2>2. \A q \in Jobs : q # p => job'[q] = job[q]
    BY <1>2 DEF JobsKept
  <2>3. QED
    BY <1>2, <2>2 DEF GrantInv, LengthsAt
<1>3. ASSUME NEW p \in Jobs, \/ Start(p) \/ Collect(p) \/ AppendCandidates(p) \/ Promote(p)
                             \/ AppendPromotions(p) \/ Fails(p)
      PROVE  GrantInv'
  <2>1. UNCHANGED <<clock, ledger, state>> /\ JobsKept(p) /\ job'[p].at \in EarlyPhases
    BY <1>3, EarlySteps
  <2>2. job'[p].at \notin {"truncate", "write"}
    BY <2>1 DEF EarlyPhases
  <2>3. QED
    BY <1>2, <2>1, <2>2 DEF GrantInv
<1>4. ASSUME NEW p \in Jobs, ReadGrants(p)
      PROVE  GrantInv'
  <2>1. /\ UNCHANGED <<clock, ledger, state>> /\ JobsKept(p) /\ job'[p].at = "truncate"
        /\ job'[p].upto = Len(ledger) /\ job'[p].readAt = clock
    BY <1>4, LateSteps
  <2>2. Len(ledger) \in LengthsAt(clock)
    <3>1. Len(ledger) \in Nat
      BY LenProperties DEF TypeInv
    <3>2. QED
      BY <3>1 DEF LengthsAt, GrantInv
  <2>3. QED
    BY <1>0, <1>2, <2>1, <2>2 DEF GrantInv
<1>5. ASSUME NEW p \in Jobs, Truncate(p)
      PROVE  GrantInv'
  <2>1. /\ UNCHANGED <<clock, ledger>> /\ state' = Torn /\ JobsKept(p) /\ job[p].at = "truncate"
        /\ job'[p].upto = job[p].upto /\ job'[p].readAt = job[p].readAt /\ job'[p].stamp = clock
    BY <1>5, LateSteps
  <2>2. QED
    BY <1>0, <1>2, <2>1 DEF GrantInv
<1>6. ASSUME NEW p \in Jobs, WriteState(p)
      PROVE  GrantInv'
  <2>1. /\ UNCHANGED <<clock, ledger>> /\ JobsKept(p) /\ job[p].at = "write"
        /\ job'[p].at \in {"bytes", "idle"}
        /\ \/ state' = [upto |-> job[p].upto, readAt |-> job[p].readAt, stamp |-> job[p].stamp]
           \/ state' = Torn
    BY <1>6, LateSteps
  <2>2. QED
    BY <1>2, <2>1 DEF GrantInv
<1>7. ASSUME NEW p \in Jobs, ReadBytes(p) \/ PutPromoted(p) \/ PutGrants(p) \/ PutHead(p)
      PROVE  GrantInv'
  <2>1. /\ UNCHANGED <<clock, ledger, state>> /\ JobsKept(p)
        /\ job'[p].at \in {"putPromoted", "putGrants", "putHead", "idle"}
    <3>1. job[p] = [at |-> job[p].at, tool |-> job[p].tool, todo |-> job[p].todo,
          found |-> job[p].found, clean |-> job[p].clean,
          upto |-> job[p].upto, readAt |-> job[p].readAt, stamp |-> job[p].stamp,
          promoted |-> job[p].promoted, grants |-> job[p].grants, snap |-> job[p].snap]
      BY <1>0 DEF IsJob
    <3>2. \A x : [job[p] EXCEPT !.at = x].at = x
      BY <3>1
    <3>3. QED
      BY <1>7, <3>2, LateSteps
  <2>2. QED
    BY <1>2, <2>1 DEF GrantInv
<1>8. QED
  BY <1>1, <1>3, <1>4, <1>5, <1>6, <1>7 DEF Next, JobStep

-----------------------------------------------------------------------------
(* Snapshots *)

\* A job that goes on to its next put has the same content to put.
LEMMA NextPut ==
  ASSUME NEW j, IsJob(j), NEW x, NEW k, k = [j EXCEPT !.at = x]
  PROVE  k.at = x /\ k.snap = j.snap /\ k.promoted = j.promoted /\ k.grants = j.grants
  BY DEF IsJob

\* The objects new once a job put content as the object name of snapshot snap:
\* the other object of it, and the other snapshots, are left.
IsPut(new, snap, name, content) ==
  /\ DOMAIN new = DOMAIN objects \cup {snap}
  /\ \A s \in DOMAIN objects : s # snap => new[s] = objects[s]
  /\ \A s \in DOMAIN new : new[s] = [promoted |-> new[s].promoted, grants |-> new[s].grants]
  /\ new[snap][name] = content
  /\ name = "grants" /\ snap \in DOMAIN objects => new[snap].promoted = objects[snap].promoted

\* With puts one object.
LEMMA WithFacts ==
  ASSUME SnapInv, NEW snap, NEW content, NEW name \in {"promoted", "grants"},
         NEW new, new = With(snap, name, content)
  PROVE  IsPut(new, snap, name, content)
<1> DEFINE old(s) == IF s \in DOMAIN objects THEN objects[s] ELSE [promoted |-> None, grants |-> None]
<1>1. new = [s \in DOMAIN objects \cup {snap} |->
               IF s = snap THEN [old(s) EXCEPT ![name] = content] ELSE old(s)]
  BY DEF With
<1>2. \A s : old(s) = [promoted |-> old(s).promoted, grants |-> old(s).grants]
  BY DEF SnapInv
<1>3. DOMAIN new = DOMAIN objects \cup {snap}
  BY <1>1
<1>4. \A s \in DOMAIN new : new[s] = IF s = snap THEN [old(s) EXCEPT ![name] = content] ELSE old(s)
  BY <1>1
<1> DEFINE o == old(snap)
<1>5. new[snap] = [o EXCEPT ![name] = content] /\ snap \in DOMAIN new
  BY <1>3, <1>4
<1>6. o = [promoted |-> o.promoted, grants |-> o.grants]
  BY <1>2
<1>7. snap \in DOMAIN objects => o = objects[snap]
  OBVIOUS
<1>8. \A s \in DOMAIN objects : s # snap => new[s] = objects[s]
  BY <1>3, <1>4
<1>9. \A s \in DOMAIN new : s # snap => new[s] = [promoted |-> new[s].promoted, grants |-> new[s].grants]
  BY <1>2, <1>4
<1> HIDE DEF o, old
<1>10. CASE name = "promoted"
  <2>1. new[snap] = [promoted |-> content, grants |-> o.grants]
    BY <1>5, <1>6, <1>10
  <2>2. QED
    BY <1>3, <1>8, <1>9, <1>10, <2>1 DEF IsPut
<1>11. CASE name = "grants"
  <2>1. new[snap] = [promoted |-> o.promoted, grants |-> content]
    BY <1>5, <1>6, <1>11
  <2>2. QED
    BY <1>3, <1>7, <1>8, <1>9, <1>11, <2>1 DEF IsPut
<1>12. QED
  BY <1>10, <1>11

LEMMA SnapStep == TypeInv /\ SnapInv /\ [Next]_vars => SnapInv'
<1> SUFFICES ASSUME TypeInv, SnapInv, [Next]_vars PROVE SnapInv'
  OBVIOUS
<1>0. clock \in Nat /\ \A p \in Jobs : IsJob(job[p])
  BY DEF TypeInv
<1>1. ASSUME Research \/ AppendGrant \/ Ingest \/ Tick \/ UNCHANGED vars
      PROVE  SnapInv'
  <2>1. UNCHANGED <<objects, head, job, taken>>
    BY <1>1, OtherSteps
  <2>2. QED
    BY <2>1 DEF SnapInv, Publishing
<1>2. ASSUME NEW p \in Jobs, JobsKept(p), UNCHANGED <<objects, head, taken>>,
             job'[p].at \notin PutPhases
      PROVE  SnapInv'
  BY <1>2 DEF SnapInv, Publishing, JobsKept
<1>3. ASSUME NEW p \in Jobs, \/ Start(p) \/ Collect(p) \/ AppendCandidates(p) \/ Promote(p)
                             \/ AppendPromotions(p) \/ Fails(p)
      PROVE  SnapInv'
  <2>1. UNCHANGED <<objects, head, taken>> /\ JobsKept(p) /\ job'[p].at \in EarlyPhases
    BY <1>3, EarlySteps
  <2>2. job'[p].at \notin PutPhases
    BY <2>1 DEF EarlyPhases, PutPhases
  <2>3. QED
    BY <1>2, <2>1, <2>2
<1>4. ASSUME NEW p \in Jobs, ReadGrants(p) \/ Truncate(p) \/ WriteState(p)
      PROVE  SnapInv'
  <2>1. /\ UNCHANGED <<objects, head, taken>> /\ JobsKept(p)
        /\ job'[p].at \in {"truncate", "write", "bytes", "idle"}
    BY <1>4, LateSteps
  <2>2. job'[p].at \notin PutPhases
    BY <2>1 DEF PutPhases
  <2>3. QED
    BY <1>2, <2>1, <2>2
<1>5. ASSUME NEW p \in Jobs, ReadBytes(p)
      PROVE  SnapInv'
  <2>1. /\ UNCHANGED <<objects, head>> /\ JobsKept(p)
        /\ taken' = [s \in DOMAIN taken \cup {clock} |->
                (IF s \in DOMAIN taken THEN taken[s] ELSE 0) + (IF s = clock THEN 1 ELSE 0)]
        /\ job'[p].at = "putPromoted" /\ job'[p].snap = clock
    BY <1>5, LateSteps
  <2>2. DOMAIN taken' = DOMAIN taken \cup {clock}
    BY <2>1
  <2>3. \A s \in DOMAIN taken' :
          taken'[s] = (IF s \in DOMAIN taken THEN taken[s] ELSE 0) + (IF s = clock THEN 1 ELSE 0)
    BY <2>1
  <2>4. \A s \in DOMAIN taken' : s \in Nat /\ taken'[s] \in Nat \ {0}
    BY <1>0, <2>2, <2>3 DEF SnapInv
  <2>5. \A s \in DOMAIN taken : taken'[s] = 1 => taken[s] = 1 /\ s # clock
    BY <2>2, <2>3 DEF SnapInv
  <2>6. ASSUME NEW q \in Jobs, q # p, Publishing(q)
        PROVE  /\ job[q].snap \in DOMAIN taken'
               /\ taken'[job[q].snap] = 1 =>
                    /\ job[q].at \in {"putGrants", "putHead"} =>
                         /\ job[q].snap \in DOMAIN objects
                         /\ objects[job[q].snap].promoted = job[q].promoted
                    /\ job[q].at = "putHead" => objects[job[q].snap].grants = job[q].grants
                    /\ job[q].snap # clock
                    /\ \A r \in Jobs : r # p /\ Publishing(r) /\ job[r].snap = job[q].snap => r = q
                    /\ head # None => head.snap # job[q].snap
    BY <2>2, <2>5, <2>6 DEF SnapInv
  <2>7. clock \in DOMAIN taken' /\ (taken'[clock] = 1 => clock \notin DOMAIN taken)
    BY <2>2, <2>5
  <2>8. \A q \in Jobs : q # p => job'[q] = job[q]
    BY <2>1 DEF JobsKept
  <2>9. \A q \in Jobs : q # p => (Publishing(q)' <=> Publishing(q))
    BY <2>8 DEF Publishing
  <2>10. \A q \in Jobs : q # p /\ Publishing(q) => job[q].snap \in DOMAIN taken
    BY DEF SnapInv
  <2>11. head # None => head.snap \in DOMAIN taken
    BY DEF SnapInv
  <2>12. ASSUME NEW q \in Jobs, Publishing(q)'
         PROVE  /\ job'[q].snap \in DOMAIN taken'
                /\ taken'[job'[q].snap] = 1 =>
                     /\ job'[q].at \in {"putGrants", "putHead"} =>
                          /\ job'[q].snap \in DOMAIN objects
                          /\ objects[job'[q].snap].promoted = job'[q].promoted
                     /\ job'[q].at = "putHead" => objects[job'[q].snap].grants = job'[q].grants
                     /\ \A r \in Jobs : Publishing(r)' /\ job'[r].snap = job'[q].snap => r = q
                     /\ head # None => head.snap # job'[q].snap
    <3>1. CASE q = p
      <4>1. \A r \in Jobs : r # p /\ Publishing(r)' => job'[r].snap \in DOMAIN taken
        BY <2>8, <2>9, <2>10
      <4>2. QED
        BY <2>1, <2>7, <2>11, <3>1, <4>1
    <3>2. CASE q # p
      <4>1. Publishing(q) /\ job'[q] = job[q]
        BY <2>8, <2>9, <2>12, <3>2
      <4>2. \A r \in Jobs : Publishing(r)' /\ job'[r].snap = job[q].snap =>
              r = p \/ (Publishing(r) /\ job[r].snap = job[q].snap)
        BY <2>8, <2>9
      <4>3. QED
        BY <2>1, <2>6, <3>2, <4>1, <4>2
    <3>3. QED
      BY <3>1, <3>2
  <2>13. head # None =>
           /\ head.snap \in DOMAIN taken'
           /\ taken'[head.snap] = 1 =>
                /\ head.snap \in DOMAIN objects
                /\ objects[head.snap] = [promoted |-> head.promoted, grants |-> head.grants]
    BY <2>2, <2>5 DEF SnapInv
  <2>14. \A s \in DOMAIN objects :
           objects[s] = [promoted |-> objects[s].promoted, grants |-> objects[s].grants]
    BY DEF SnapInv
  <2>15. QED
    BY <2>1, <2>4, <2>12, <2>13, <2>14 DEF SnapInv
<1>6. ASSUME NEW p \in Jobs, NEW name \in {"promoted", "grants"}, NEW next,
             /\ UNCHANGED <<head, taken>> /\ JobsKept(p) /\ Publishing(p) /\ Publishing(p)'
             /\ objects' = With(job[p].snap, name, job[p][name])
             /\ job'[p] = [job[p] EXCEPT !.at = next],
             \/ name = "promoted" /\ next = "putGrants"
             \/ name = "grants" /\ next = "putHead" /\ job[p].at = "putGrants"
      PROVE  SnapInv'
  <2> DEFINE snap == job[p].snap
             k == job'[p]
  <2>1. /\ DOMAIN objects' = DOMAIN objects \cup {snap}
        /\ \A s \in DOMAIN objects : s # snap => objects'[s] = objects[s]
        /\ \A s \in DOMAIN objects' :
             objects'[s] = [promoted |-> objects'[s].promoted, grants |-> objects'[s].grants]
        /\ objects'[snap][name] = job[p][name]
        /\ name = "grants" /\ snap \in DOMAIN objects => objects'[snap].promoted = objects[snap].promoted
    <3>1. PICK s0, c0, n0 : s0 = snap /\ c0 = job[p][name] /\ n0 = objects'
      OBVIOUS
    <3>2. IsPut(n0, s0, name, c0)
      BY <1>6, <3>1, WithFacts
    <3>3. QED
      BY <3>1, <3>2 DEF IsPut
  <2>2. k.at = next /\ k.snap = snap /\ k.promoted = job[p].promoted /\ k.grants = job[p].grants
    BY <1>0, <1>6, NextPut
  <2>3. \A q \in Jobs : q # p => job'[q] = job[q]
    BY <1>6 DEF JobsKept
  <2>4. \A q \in Jobs : /\ Publishing(q)' <=> Publishing(q)
                        /\ job'[q].snap = job[q].snap
    BY <1>6, <2>2, <2>3 DEF Publishing
  <2>5. ASSUME NEW q \in Jobs, Publishing(q)
        PROVE  /\ job[q].snap \in DOMAIN taken
               /\ taken[job[q].snap] = 1 =>
                    /\ \A r \in Jobs : Publishing(r)' /\ job'[r].snap = job[q].snap => r = q
                    /\ head # None => head.snap # job[q].snap
    BY <2>4, <2>5 DEF SnapInv
  <2>6. ASSUME NEW q \in Jobs, Publishing(q), taken[job[q].snap] = 1
        PROVE  /\ job'[q].at \in {"putGrants", "putHead"} =>
                    /\ job[q].snap \in DOMAIN objects'
                    /\ objects'[job[q].snap].promoted = job'[q].promoted
               /\ job'[q].at = "putHead" => objects'[job[q].snap].grants = job'[q].grants
    <3>1. CASE q = p
      <4>1. CASE name = "promoted" /\ next = "putGrants"
        BY <2>1, <2>2, <3>1, <4>1
      <4>2. CASE name = "grants" /\ next = "putHead" /\ job[p].at = "putGrants"
        <5>1. snap \in DOMAIN objects /\ objects[snap].promoted = job[p].promoted
          BY <2>6, <3>1, <4>2 DEF SnapInv
        <5>2. QED
          BY <2>1, <2>2, <3>1, <4>2, <5>1
      <4>3. QED
        BY <1>6, <4>1, <4>2
    <3>2. CASE q # p
      <4>1. job[q].snap # snap /\ job'[q] = job[q]
        BY <1>6, <2>3, <2>6, <3>2 DEF SnapInv
      <4>2. /\ job[q].at \in {"putGrants", "putHead"} =>
                 /\ job[q].snap \in DOMAIN objects
                 /\ objects[job[q].snap].promoted = job[q].promoted
            /\ job[q].at = "putHead" => objects[job[q].snap].grants = job[q].grants
        BY <2>6 DEF SnapInv
      <4>3. QED
        BY <2>1, <4>1, <4>2
    <3>3. QED
      BY <3>1, <3>2
  <2>7. ASSUME head # None
        PROVE  /\ head.snap \in DOMAIN taken
               /\ taken[head.snap] = 1 =>
                    /\ head.snap \in DOMAIN objects'
                    /\ objects'[head.snap] = [promoted |-> head.promoted, grants |-> head.grants]
    <3>1. taken[head.snap] = 1 => head.snap # snap
      BY <1>6, <2>7 DEF SnapInv
    <3>2. QED
      BY <2>1, <2>7, <3>1 DEF SnapInv
  <2>8. \A s \in DOMAIN taken : s \in Nat /\ taken[s] \in Nat \ {0}
    BY DEF SnapInv
  <2>9. UNCHANGED <<head, taken>>
    BY <1>6
  <2>10. \A q \in Jobs : Publishing(q)' =>
       /\ job'[q].snap \in DOMAIN taken
       /\ taken[job'[q].snap] = 1 =>
            /\ job'[q].at \in {"putGrants", "putHead"} =>
                 /\ job'[q].snap \in DOMAIN objects'
                 /\ objects'[job'[q].snap].promoted = job'[q].promoted
            /\ job'[q].at = "putHead" => objects'[job'[q].snap].grants = job'[q].grants
            /\ \A r \in Jobs : Publishing(r)' /\ job'[r].snap = job'[q].snap => r = q
            /\ head # None => head.snap # job'[q].snap
    BY <2>4, <2>5, <2>6
  <2>11. QED
    BY <2>1, <2>7, <2>8, <2>9, <2>10 DEF SnapInv
<1>7. ASSUME NEW p \in Jobs, PutPromoted(p) \/ PutGrants(p)
      PROVE  SnapInv'
  <2>1. CASE PutPromoted(p)
    <3>1. /\ UNCHANGED <<head, taken>> /\ JobsKept(p) /\ job[p].at = "putPromoted"
          /\ objects' = With(job[p].snap, "promoted", job[p].promoted)
          /\ job'[p] = [job[p] EXCEPT !.at = "putGrants"]
      BY <2>1, LateSteps
    <3>2. job'[p].at = "putGrants"
      BY <1>0, <3>1, NextPut
    <3>3. QED
      BY <1>6, <3>1, <3>2 DEF Publishing, PutPhases
  <2>2. CASE PutGrants(p)
    <3>1. /\ UNCHANGED <<head, taken>> /\ JobsKept(p) /\ job[p].at = "putGrants"
          /\ objects' = With(job[p].snap, "grants", job[p].grants)
          /\ job'[p] = [job[p] EXCEPT !.at = "putHead"]
      BY <2>2, LateSteps
    <3>2. job'[p].at = "putHead"
      BY <1>0, <3>1, NextPut
    <3>3. QED
      BY <1>6, <3>1, <3>2 DEF Publishing, PutPhases
  <2>3. QED
    BY <1>7, <2>1, <2>2
<1>8. ASSUME NEW p \in Jobs, PutHead(p)
      PROVE  SnapInv'
  <2>1. /\ UNCHANGED <<objects, taken>> /\ JobsKept(p) /\ job[p].at = "putHead" /\ job'[p].at = "idle"
        /\ head' = [snap |-> job[p].snap, promoted |-> job[p].promoted, grants |-> job[p].grants]
    BY <1>8, LateSteps
  <2>2. \A q \in Jobs : q # p => job'[q] = job[q]
    BY <2>1 DEF JobsKept
  <2>3. ~Publishing(p)' /\ Publishing(p) /\ \A q \in Jobs : Publishing(q)' => q # p /\ Publishing(q)
    BY <2>1, <2>2 DEF Publishing, PutPhases
  <2>4. head'.snap \in DOMAIN taken
    BY <2>1, <2>3 DEF SnapInv
  <2>5. ASSUME taken[head'.snap] = 1
        PROVE  /\ head'.snap \in DOMAIN objects
               /\ objects[head'.snap] = [promoted |-> head'.promoted, grants |-> head'.grants]
    <3>1. /\ job[p].snap \in DOMAIN objects
          /\ objects[job[p].snap].promoted = job[p].promoted
          /\ objects[job[p].snap].grants = job[p].grants
      BY <2>1, <2>3, <2>5 DEF SnapInv
    <3>2. objects[job[p].snap] = [promoted |-> objects[job[p].snap].promoted,
                                  grants |-> objects[job[p].snap].grants]
      BY <3>1 DEF SnapInv
    <3>3. QED
      BY <2>1, <3>1, <3>2
  <2>6. \A q \in Jobs : Publishing(q)' /\ taken[job'[q].snap] = 1 => head'.snap # job'[q].snap
    BY <2>1, <2>2, <2>3 DEF SnapInv
  <2>7. QED
    BY <2>1, <2>2, <2>3, <2>4, <2>5, <2>6 DEF SnapInv
<1>9. QED
  BY <1>1, <1>3, <1>4, <1>5, <1>7, <1>8 DEF Next, JobStep

LEMMA AloneStep == TypeInv /\ AloneInv /\ [Next]_vars => AloneInv'
<1> SUFFICES ASSUME TypeInv, AloneInv, [Next]_vars, ~overlapped' PROVE AloneInv'
  BY DEF AloneInv
<1>0. \A p \in Jobs : IsJob(job[p])
  BY DEF TypeInv
<1>1. ASSUME Research \/ AppendGrant \/ Ingest \/ Tick \/ UNCHANGED vars
      PROVE  AloneInv'
  <2>1. UNCHANGED <<state, head, job, overlapped>>
    BY <1>1, OtherSteps
  <2>2. QED
    BY <2>1 DEF AloneInv, Publishing
<1>2. ASSUME NEW p \in Jobs, JobsKept(p), \A q \in Jobs : q # p => job[q].at = "idle",
             job'[p].at = "write" => state' = Torn,
             job'[p].at = "bytes" => state' # Torn,
             Publishing(p)' => job'[p].grants # Torn,
             head' # None => head'.grants # Torn
      PROVE  AloneInv'
  <2>1. \A q \in Jobs : q # p => job'[q] = job[q] /\ job'[q].at = "idle"
    BY <1>2 DEF JobsKept
  <2>2. QED
    BY <1>2, <2>1 DEF AloneInv, Publishing, PutPhases
<1>3. ASSUME NEW p \in Jobs, job[p].at # "idle", UNCHANGED overlapped
      PROVE  /\ \A q \in Jobs : q # p => job[q].at = "idle"
             /\ job[p].at = "write" => state = Torn
             /\ job[p].at = "bytes" => state # Torn
             /\ Publishing(p) => job[p].grants # Torn
             /\ head # None => head.grants # Torn
  BY <1>3 DEF AloneInv
<1>4. ASSUME NEW p \in Jobs, \/ Start(p) \/ Collect(p) \/ AppendCandidates(p) \/ Promote(p)
                             \/ AppendPromotions(p) \/ Fails(p)
      PROVE  AloneInv'
  <2>1. /\ UNCHANGED <<head, state>> /\ JobsKept(p) /\ job'[p].at \in EarlyPhases
        /\ Start(p) \/ (job[p].at # "idle" /\ UNCHANGED overlapped)
    BY <1>4, EarlySteps
  <2>2. job'[p].at \notin {"write", "bytes"} /\ ~Publishing(p)'
    BY <2>1 DEF EarlyPhases, PutPhases, Publishing
  <2>3. \A q \in Jobs : q # p => job[q].at = "idle"
    BY <1>3, <2>1 DEF Start
  <2>4. ~overlapped
    BY <2>1 DEF Start, TypeInv
  <2>5. QED
    BY <1>2, <2>1, <2>2, <2>3, <2>4 DEF AloneInv
<1>5. ASSUME NEW p \in Jobs, ReadGrants(p) \/ Truncate(p)
      PROVE  AloneInv'
  <2>1. /\ UNCHANGED <<head, overlapped>> /\ JobsKept(p) /\ job[p].at # "idle"
        /\ \/ job'[p].at = "truncate"
           \/ job'[p].at = "write" /\ state' = Torn
    BY <1>5, LateSteps
  <2>2. ~Publishing(p)'
    BY <2>1 DEF PutPhases, Publishing
  <2>3. QED
    BY <1>2, <1>3, <2>1, <2>2
<1>6. ASSUME NEW p \in Jobs, WriteState(p)
      PROVE  AloneInv'
  <2>1. /\ UNCHANGED <<head, overlapped>> /\ JobsKept(p) /\ job[p].at = "write"
        /\ job'[p].at \in {"bytes", "idle"}
        /\ \/ state' = [upto |-> job[p].upto, readAt |-> job[p].readAt, stamp |-> job[p].stamp]
           \/ state # Torn /\ state' = Torn
    BY <1>6, LateSteps
  <2>2. state = Torn
    BY <1>3, <2>1
  <2>3. [upto |-> job[p].upto, readAt |-> job[p].readAt, stamp |-> job[p].stamp]
          \in [upto : Nat, readAt : Nat, stamp : Nat]
    BY <1>0 DEF IsJob
  <2>4. state' # Torn
    BY <2>1, <2>2, <2>3, SharedAssumption
  <2>5. ~Publishing(p)'
    BY <2>1 DEF PutPhases, Publishing
  <2>6. QED
    BY <1>2, <1>3, <2>1, <2>4, <2>5
<1>7. ASSUME NEW p \in Jobs, ReadBytes(p)
      PROVE  AloneInv'
  <2>1. /\ UNCHANGED <<head, state, overlapped>> /\ JobsKept(p) /\ job[p].at = "bytes"
        /\ job'[p].at = "putPromoted" /\ job'[p].grants = state
    BY <1>7, LateSteps
  <2>2. QED
    BY <1>2, <1>3, <2>1
<1>8. ASSUME NEW p \in Jobs, PutPromoted(p) \/ PutGrants(p)
      PROVE  AloneInv'
  <2>1. /\ UNCHANGED <<head, state, overlapped>> /\ JobsKept(p)
        /\ job[p].at \in {"putPromoted", "putGrants"}
        /\ \E x \in {"putGrants", "putHead"} : job'[p] = [job[p] EXCEPT !.at = x]
    BY <1>8, LateSteps
  <2>2. job'[p].grants = job[p].grants /\ job'[p].at \in {"putGrants", "putHead"}
    BY <1>0, <2>1, NextPut
  <2>3. Publishing(p)
    BY <2>1 DEF Publishing, PutPhases
  <2>4. QED
    BY <1>2, <1>3, <2>1, <2>2, <2>3
<1>9. ASSUME NEW p \in Jobs, PutHead(p)
      PROVE  AloneInv'
  <2>1. /\ UNCHANGED <<state, overlapped>> /\ JobsKept(p) /\ job[p].at = "putHead" /\ job'[p].at = "idle"
        /\ head' = [snap |-> job[p].snap, promoted |-> job[p].promoted, grants |-> job[p].grants]
    BY <1>9, LateSteps
  <2>2. Publishing(p) /\ ~Publishing(p)'
    BY <2>1 DEF Publishing, PutPhases
  <2>3. QED
    BY <1>2, <1>3, <2>1, <2>2
<1>10. QED
  BY <1>1, <1>4, <1>5, <1>6, <1>7, <1>8, <1>9 DEF Next, JobStep

LEMMA InitSharedInv == Init => SharedInv
<1> SUFFICES ASSUME Init PROVE SharedInv
  OBVIOUS
<1>1. <<>> \in Seq([row : GrantRows, at : Nat]) /\ Len(<<>>) = 0
  BY EmptySeq
<1>2. \A p \in Jobs : job[p] = Idle /\ job[p].at = "idle"
  BY IdleIsJob DEF Init
<1>3. TypeInv
  BY <1>1, IdleIsJob DEF Init, TypeInv
<1>4. GrantInv
  BY <1>1, <1>2 DEF Init, GrantInv
<1>5. SnapInv
  BY <1>2 DEF Init, SnapInv, Publishing, PutPhases
<1>6. AloneInv
  BY <1>2 DEF Init, AloneInv, Publishing, PutPhases
<1>7. QED
  BY <1>3, <1>4, <1>5, <1>6 DEF SharedInv

LEMMA SharedInvariant == Spec => []SharedInv
<1>1. SharedInv /\ [Next]_vars => SharedInv'
  BY SharedTypeStep, GrantStep, SnapStep, AloneStep DEF SharedInv
<1>2. QED
  BY <1>1, InitSharedInv, PTL DEF Spec

\* HEAD names a snapshot whose objects are there and match its checksums,
\* however publications race, unless one second named two of them; and jobs
\* that do not overlap never publish a torn grant state.
THEOREM HeadIsSound == Spec => []HeadSound
<1>1. SharedInv => HeadSound
  BY DEF SharedInv, SnapInv, AloneInv, HeadSound
<1>2. QED
  BY <1>1, SharedInvariant, PTL

\* A revocation takes effect in time, whatever jobs overlap and fail, if the
\* check of the age is on: shared_knowledge_grant_max_age_sec = 0 turns it off.
THEOREM RevocationIsTimely == MaxAge # 0 => (Spec => []RevocationTimely)
<1>1. MaxAge # 0 /\ SharedInv => RevocationTimely
  <2> SUFFICES ASSUME MaxAge # 0, SharedInv, NEW r \in Readers, Decision(r) = "grant_match"
               PROVE  \E t \in (state.readAt)..clock :
                        /\ clock - t <= MaxAge + (state.stamp - state.readAt)
                        /\ \E n \in LengthsAt(t) : Matches(Granted(n), r)
    BY DEF RevocationTimely
  <2>1. /\ state \notin {None, Torn}
        /\ ~(MaxAge > 0 /\ clock - state.stamp > MaxAge)
        /\ Matches(Granted(state.upto), r)
    BY DEF Decision
  <2>2. /\ state.readAt \in Nat /\ state.stamp \in Nat /\ clock \in Nat /\ MaxAge \in Nat
        /\ state.readAt <= state.stamp /\ state.stamp <= clock
        /\ state.upto \in LengthsAt(state.readAt)
    BY <2>1, SharedAssumption DEF SharedInv, TypeInv, GrantInv, Grants
  <2>3. /\ state.readAt \in (state.readAt)..clock
        /\ clock - state.readAt <= MaxAge + (state.stamp - state.readAt)
    BY <2>1, <2>2
  <2>4. QED
    BY <2>1, <2>2, <2>3
<1>2. QED
  <2>1. SUFFICES ASSUME MaxAge # 0 PROVE Spec => []RevocationTimely
    OBVIOUS
  <2>2. SharedInv => RevocationTimely
    BY <1>1, <2>1
  <2>3. QED
    BY <2>2, SharedInvariant, PTL

-----------------------------------------------------------------------------
(* Functions that are sequences *)

LEMMA SeqOfFun ==
  ASSUME NEW S, NEW n \in Nat, NEW f \in [1..n -> S]
  PROVE  f \in Seq(S) /\ Len(f) = n
<1>1. f \in Seq(S)
  BY SeqDef
<1>2. DOMAIN f = 1..n
  OBVIOUS
<1>3. QED
  BY <1>1, <1>2, LenProperties


LEMMA LeastExists ==
  ASSUME NEW P, P \subseteq Nat, P # {}
  PROVE  \E m \in P : \A k \in P : m <= k
<1>1. PICK m \in P : \A k \in P : <<k, m>> \notin OpToRel(<, Nat)
  BY NatLessThanWellFounded, WFMin
<1>2. \A k \in P : ~(k < m)
  BY <1>1 DEF OpToRel
<1>3. QED
  BY <1>2
-----------------------------------------------------------------------------
(* Lists of numbers in order *)

\* The least numbers of a finite set, up to each of its members, count them.
LEMMA RankFacts ==
  ASSUME NEW S, S \subseteq Nat, IsFiniteSet(S)
  PROVE  \E rank \in Bijection(S, 1..Cardinality(S)) :
           \A i, k \in S : i < k => rank[i] < rank[k]
<1> DEFINE upto(i) == {j \in S : j <= i}
           n == Cardinality(S)
           rank == [i \in S |-> Cardinality(upto(i))]
<1>1. n \in Nat
  BY FS_CardinalityType
<1>2. ASSUME NEW i \in S
      PROVE  IsFiniteSet(upto(i)) /\ rank[i] \in 1..n
  <2>1. upto(i) \in SUBSET S /\ i \in upto(i)
    OBVIOUS
  <2>2. IsFiniteSet(upto(i)) /\ Cardinality(upto(i)) <= n
    BY <2>1, FS_Subset
  <2>3. Cardinality(upto(i)) \in Nat /\ Cardinality(upto(i)) # 0
    BY <2>1, <2>2, FS_CardinalityType, FS_EmptySet
  <2>4. QED
    BY <1>1, <2>2, <2>3
<1>3. ASSUME NEW i \in S, NEW k \in S, i < k
      PROVE  rank[i] < rank[k]
  <2>0. i \in Nat /\ k \in Nat /\ ~(k <= i) /\ \A j \in S : j \in Nat /\ (j <= i => j <= k)
    BY <1>3
  <2>1. upto(i) \in SUBSET upto(k) /\ k \in upto(k) /\ k \notin upto(i)
    <3>1. upto(i) \in SUBSET upto(k)
      BY <2>0
    <3>2. k <= k
      BY <2>0
    <3>3. QED
      BY <2>0, <3>1, <3>2
  <2>2. Cardinality(upto(i)) <= Cardinality(upto(k)) /\ Cardinality(upto(i)) # Cardinality(upto(k))
    BY <1>2, <2>1, FS_Subset
  <2>3. rank[i] \in Nat /\ rank[k] \in Nat
    BY <1>1, <1>2
  <2>4. QED
    BY <2>2, <2>3
<1>4. rank \in Injection(S, 1..n)
  <2>1. rank \in [S -> 1..n]
    BY <1>2
  <2>2. \A i, k \in S : rank[i] = rank[k] => i = k
    <3>1. SUFFICES ASSUME NEW i \in S, NEW k \in S, rank[i] = rank[k], i # k
                   PROVE  FALSE
      OBVIOUS
    <3>2. rank[i] \in Nat /\ rank[k] \in Nat /\ (i < k \/ k < i)
      BY <1>1, <1>2, <3>1
    <3>3. QED
      BY <1>3, <3>1, <3>2
  <2> HIDE DEF rank
  <2>3. QED
    BY <2>1, <2>2 DEF Injection, IsInjective
<1>5. rank \in Surjection(S, 1..n)
  <2>1. IsFiniteSet(1..n) /\ Cardinality(1..n) = n
    BY <1>1, FS_Interval
  <2>2. QED
    BY <1>4, <2>1, FS_Injection
<1>6. rank \in Bijection(S, 1..n)
  BY <1>4, <1>5 DEF Bijection
<1>7. \A i, k \in S : i < k => rank[i] < rank[k]
  BY <1>3
<1>8. QED
  BY <1>6, <1>7

\* InOrder lists each member once.
LEMMA InOrderFacts ==
  ASSUME NEW S, S \subseteq Nat, IsFiniteSet(S)
  PROVE  /\ Cardinality(S) \in Nat
         /\ InOrder(S) \in [1..Cardinality(S) -> S]
         /\ \A i, k \in 1..Cardinality(S) : InOrder(S)[i] = InOrder(S)[k] => i = k
         /\ \A x \in S : \E i \in 1..Cardinality(S) : InOrder(S)[i] = x
<1> DEFINE n == Cardinality(S)
           Sorted(s) == \A i, k \in 1..n : i < k => s[i] < s[k]
<1>1. n \in Nat
  BY FS_CardinalityType
<1>2. PICK rank \in Bijection(S, 1..n) : \A i, k \in S : i < k => rank[i] < rank[k]
  BY RankFacts
<1>3. /\ rank \in [S -> 1..n]
      /\ \A k \in 1..n : \E i \in S : rank[i] = k
  BY <1>2 DEF Bijection, Surjection
<1> DEFINE t == [k \in 1..n |-> CHOOSE i \in S : rank[i] = k]
<1>4. \A k \in 1..n : t[k] \in S /\ rank[t[k]] = k
  BY <1>3
<1>5. t \in [1..n -> S] /\ Sorted(t)
  <2>1. t \in [1..n -> S]
    BY <1>4
  <2>2. ASSUME NEW i \in 1..n, NEW k \in 1..n, i < k, ~(t[i] < t[k])
        PROVE  FALSE
    <3> HIDE DEF t
    <3>0. t[i] \in Nat /\ t[k] \in Nat
      BY <1>4
    <3>1. t[k] = t[i] \/ t[k] < t[i]
      BY <2>2, <3>0
    <3>2. rank[t[k]] = k /\ rank[t[i]] = i
      BY <1>4
    <3>3. t[k] < t[i] => k < i
      BY <1>2, <1>4, <3>2
    <3>4. QED
      BY <1>1, <2>2, <3>1, <3>2, <3>3
  <2>3. QED
    BY <2>1, <2>2
<1>6. InOrder(S) \in [1..n -> S] /\ Sorted(InOrder(S))
  <2> HIDE DEF t, n
  <2>1. InOrder(S) = CHOOSE s \in [1..n -> S] : Sorted(s)
    BY DEF InOrder, n
  <2> HIDE DEF Sorted
  <2>2. QED
    BY <1>5, <2>1
<1> DEFINE s == InOrder(S)
<1> HIDE DEF s
<1>7. s \in [1..n -> S] /\ Sorted(s)
  BY <1>6 DEF s
<1>8. ASSUME NEW i \in 1..n, NEW k \in 1..n, s[i] = s[k], i # k
      PROVE  FALSE
  <2>1. s[i] \in Nat
    BY <1>7
  <2>2. i < k \/ k < i
    BY <1>8
  <2>3. QED
    BY <1>7, <1>8, <2>1, <2>2
<1>9. s \in Injection(1..n, S)
  BY <1>7, <1>8 DEF Injection, IsInjective
<1>10. s \in Surjection(1..n, S)
  <2>1. IsFiniteSet(1..n) /\ Cardinality(1..n) = n
    BY <1>1, FS_Interval
  <2>2. QED
    BY <1>9, <2>1, FS_Injection
<1>11. \A x \in S : \E i \in 1..n : s[i] = x
  BY <1>10 DEF Surjection
<1>12. QED
  BY <1>1, <1>7, <1>8, <1>11 DEF s

-----------------------------------------------------------------------------
(* Files that jobs append to *)

Parts == {"whole", "start", "json", "rest"}
Pieces(S) == [row : S, part : Parts, by : Jobs]
ToWrite(S, p) == [row : S, part : {"whole", "rest"}, by : {p}]

\* Only the first of what a job has to write may be the rest of a line.
Lined(todo) == \A k \in 1..Len(todo) : k > 1 => todo[k].part = "whole"

Whole(file) == Ended(file, Len(file))
RowsIn(todo) == {todo[k].row : k \in 1..Len(todo)}

\* A job has begun the last piece of the file and is about to write its rest.
Continued(file, todo) ==
  /\ Len(todo) > 0 /\ todo[1].part = "rest" /\ Len(file) > 0
  /\ file[Len(file)].row = todo[1].row
  /\ file[Len(file)].part \in {"start", "json"}
  /\ file[Len(file)].by = todo[1].by

\* Everything a job has to write can be read when it is written.
Ready(file, todo) ==
  \/ Whole(file) /\ (Len(todo) > 0 => todo[1].part # "rest")
  \/ Continued(file, todo) /\ Ended(file, Len(file) - 1)

Unique(file) == \A i, k \in Rows(file) : file[i].row = file[k].row => i = k

\* What a job has to write is new to the file.
Adds(file, todo) ==
  /\ \A i, k \in 1..Len(todo) : todo[i].row = todo[k].row => i = k
  /\ \A k \in 1..Len(todo) : todo[k].part = "rest" => Continued(file, todo)
  /\ \A i \in Rows(file) : \A k \in 1..Len(todo) :
       file[i].row = todo[k].row => i = Len(file) /\ todo[k].part = "rest"

\* The new file is the old one with out behind it.
Longer(file, out, new) ==
  /\ Len(file) \in Nat /\ Len(out) \in Nat /\ Len(new) = Len(file) + Len(out)
  /\ \A i \in 1..Len(file) : new[i] = file[i]
  /\ \A k \in 1..Len(out) : new[Len(file) + k] = out[k]

\* A job has written the first n lines and part of the next.
Written(todo, n, part, p, out) ==
  /\ Len(out) = n + 1
  /\ \A k \in 1..n : out[k] = todo[k]
  /\ out[n+1] = Piece(todo[n+1].row, part, p)
Remains(todo, n, p, todo2) ==
  /\ Len(todo2) = Len(todo) - n
  /\ todo2[1] = Piece(todo[n+1].row, "rest", p)
  /\ \A k \in 1..Len(todo2) : k > 1 => todo2[k] = todo[n + k]

\* No row is in a longer file that was not in the file before, but those that
\* are written, and a last one whose rest is written.
LEMMA NewRows ==
  ASSUME NEW file, NEW out, NEW new, Longer(file, out, new),
         \A k \in 1..Len(out) : k > 1 => out[k].part # "rest",
         NEW i \in Rows(new)
  PROVE  \/ i \in Rows(file)
         \/ i = Len(file) /\ i > 0 /\ Len(out) > 0 /\ out[1].part = "rest"
         \/ i - Len(file) \in 1..Len(out) /\ out[i - Len(file)].part # "rest"
<1> DEFINE L == Len(file)
<1>1. /\ L \in Nat /\ Len(out) \in Nat /\ Len(new) = L + Len(out)
      /\ \A k \in 1..L : new[k] = file[k]
      /\ \A k \in 1..Len(out) : new[L+k] = out[k]
  BY DEF Longer
<1>2. i \in 1..Len(new) /\ IsRow(new, i)
  BY DEF Rows
<1> HIDE DEF L
<1>3. CASE i < L
  <2>1. new[i] = file[i] /\ new[i+1] = file[i+1] /\ (i - 1 = 0 \/ new[i-1] = file[i-1])
    BY <1>1, <1>2, <1>3
  <2>2. Ended(file, i - 1)
    BY <1>2, <2>1 DEF IsRow, Ended
  <2>3. i < Len(new) /\ i < Len(file) /\ i # Len(new)
    BY <1>1, <1>2, <1>3 DEF L
  <2>4. IsRow(file, i)
    BY <1>2, <2>1, <2>2, <2>3 DEF IsRow
  <2>5. QED
    BY <1>2, <2>3, <2>4 DEF Rows
<1>4. CASE i = L
  <2>1. new[i] = file[i] /\ (i - 1 = 0 \/ new[i-1] = file[i-1]) /\ i > 0
    BY <1>1, <1>2, <1>4
  <2>2. Ended(file, i - 1)
    BY <1>2, <2>1 DEF IsRow, Ended
  <2>3. CASE i < Len(new) /\ new[i+1].part = "rest"
    <3>1. Len(out) > 0 /\ new[i+1] = out[1]
      BY <1>1, <1>4, <2>3
    <3>2. QED
      BY <1>4, <2>1, <2>3, <3>1 DEF L
  <2>4. CASE ~(i < Len(new) /\ new[i+1].part = "rest")
    <3>1. file[i].part = "whole" \/ (file[i].part = "json" /\ i = Len(file))
      BY <1>2, <1>4, <2>1, <2>4 DEF IsRow, L
    <3>2. IsRow(file, i) /\ i \in 1..Len(file)
      BY <1>2, <1>4, <2>2, <3>1 DEF IsRow, L
    <3>3. QED
      BY <3>2 DEF Rows
  <2>5. QED
    BY <2>3, <2>4
<1>5. CASE i > L
  <2>1. i - L \in 1..Len(out) /\ new[i] = out[i - L]
    <3>1. i - L \in 1..Len(out) /\ L + (i - L) = i
      BY <1>1, <1>2, <1>5
    <3>2. QED
      BY <1>1, <3>1
  <2>2. new[i].part # "rest"
    BY <1>2 DEF IsRow
  <2>3. QED
    BY <2>1, <2>2 DEF L
<1>6. QED
  BY <1>1, <1>2, <1>3, <1>4, <1>5

\* Every row stays, and every line can be read, if the job is ready to write it.
LEMMA GrownRows ==
  ASSUME NEW file, NEW out, NEW new, Longer(file, out, new),
         Len(out) > 0 => Ready(file, out)
  PROVE  /\ Rows(file) \subseteq Rows(new)
         /\ Holds(file) \subseteq Holds(new)
         /\ \A k \in 1..Len(out) :
              (out[1].part \in {"whole", "rest"} /\ \A m \in 1..k : m > 1 => out[m].part = "whole")
                => out[k].row \in Holds(new)
<1> DEFINE L == Len(file)
<1>1. /\ L \in Nat /\ Len(out) \in Nat /\ Len(new) = L + Len(out)
      /\ \A k \in 1..L : new[k] = file[k]
      /\ \A k \in 1..Len(out) : new[L+k] = out[k]
  BY DEF Longer
<1> HIDE DEF L
<1>2. Rows(file) \subseteq Rows(new)
  <2> SUFFICES ASSUME NEW i \in Rows(file) PROVE i \in Rows(new)
    OBVIOUS
  <2>1. i \in 1..L /\ IsRow(file, i) /\ i \in 1..Len(new)
    BY <1>1 DEF Rows, L
  <2>2. new[i] = file[i] /\ (i - 1 = 0 \/ new[i-1] = file[i-1])
    BY <1>1, <2>1
  <2>3. Ended(new, i - 1)
    BY <2>1, <2>2 DEF IsRow, Ended
  <2>4. CASE i < L
    <3>1. new[i+1] = file[i+1] /\ i < Len(new) /\ i # Len(file)
      BY <1>1, <2>1, <2>4 DEF L
    <3>2. IsRow(new, i)
      BY <2>1, <2>2, <2>3, <3>1 DEF IsRow
    <3>3. QED
      BY <2>1, <3>2 DEF Rows
  <2>5. CASE i = L
    <3>1. CASE Len(out) = 0
      <4>1. Len(new) = Len(file)
        BY <1>1, <3>1 DEF L
      <4>2. file[i].part = "whole" \/ (file[i].part = "json" /\ i = Len(new))
        BY <1>1, <2>1, <2>5, <4>1 DEF IsRow, L
      <4>3. IsRow(new, i)
        BY <2>2, <2>3, <4>2 DEF IsRow
      <4>4. QED
        BY <2>1, <4>3 DEF Rows
    <3>2. CASE Len(out) > 0
      <4>1. new[i+1] = out[1] /\ i < Len(new) /\ i > 0
        BY <1>1, <2>1, <2>5, <3>2
      <4>2. CASE Whole(file)
        <5>1. file[i].part \in {"whole", "rest"}
          BY <2>5, <4>1, <4>2 DEF Whole, Ended, L
        <5>2. file[i].part # "rest"
          BY <2>1 DEF IsRow
        <5>3. IsRow(new, i)
          BY <2>2, <2>3, <5>1, <5>2 DEF IsRow
        <5>4. QED
          BY <2>1, <5>3 DEF Rows
      <4>3. CASE Continued(file, out)
        <5>1. IsRow(new, i)
          BY <2>2, <2>3, <2>5, <4>1, <4>3 DEF IsRow, Continued, L
        <5>2. QED
          BY <2>1, <5>1 DEF Rows
      <4>4. QED
        BY <3>2, <4>2, <4>3 DEF Ready
    <3>3. QED
      BY <1>1, <3>1, <3>2
  <2>6. QED
    BY <1>1, <2>1, <2>4, <2>5
<1>3. Holds(file) \subseteq Holds(new)
  <2> SUFFICES ASSUME NEW i \in Rows(file) PROVE file[i].row \in Holds(new)
    BY DEF Holds
  <2>1. i \in Rows(new) /\ new[i] = file[i]
    BY <1>1, <1>2 DEF Rows, L
  <2>2. QED
    BY <2>1 DEF Holds
<1>4. ASSUME NEW k \in 1..Len(out), out[1].part \in {"whole", "rest"},
             \A m \in 1..k : m > 1 => out[m].part = "whole"
      PROVE  out[k].row \in Holds(new)
  <2>0. k \in Nat /\ k > 0 /\ Len(out) > 0 /\ Ready(file, out) /\ new[L+k] = out[k] /\ L + k \in 1..Len(new)
    BY <1>1, <1>4
  <2>1. CASE out[k].part = "rest"
    <3>1. k = 1
      BY <1>4, <2>0, <2>1
    <3>2. Continued(file, out) /\ Ended(file, L - 1)
      BY <2>0, <2>1, <3>1 DEF Ready, L
    <3>3. L > 0 /\ new[L] = file[L] /\ (L - 1 = 0 \/ new[L-1] = file[L-1]) /\ L < Len(new) /\ L \in 1..Len(new)
      <4>1. L > 0
        BY <3>2 DEF Continued, L
      <4>2. L \in 1..L /\ (L - 1 = 0 \/ L - 1 \in 1..L) /\ L < Len(new) /\ L \in 1..Len(new)
        BY <1>1, <2>0, <4>1
      <4>3. QED
        BY <1>1, <4>1, <4>2
    <3>4. Ended(new, L - 1)
      BY <3>2, <3>3 DEF Ended
    <3>5. IsRow(new, L) /\ new[L].row = out[k].row
      BY <2>0, <3>1, <3>2, <3>3, <3>4 DEF IsRow, Continued, L
    <3>6. QED
      BY <3>3, <3>5 DEF Holds, Rows
  <2>2. CASE out[k].part = "whole"
    <3>1. Ended(new, L + k - 1)
      <4>1. CASE k = 1
        <5>1. Whole(file)
          BY <2>0, <2>2, <4>1 DEF Ready, Continued
        <5>2. L = 0 \/ new[L] = file[L]
          BY <1>1
        <5>3. L + k - 1 = L
          BY <1>1, <4>1
        <5>4. QED
          BY <5>1, <5>2, <5>3 DEF Whole, Ended, L
      <4>2. CASE k # 1
        <5>1. k - 1 \in 1..Len(out) /\ L + (k - 1) = L + k - 1
          BY <1>1, <2>0, <4>2
        <5>2. new[L + k - 1] = out[k-1]
          BY <1>1, <5>1
        <5>3. out[k-1].part \in {"whole", "rest"}
          <6>1. CASE k - 1 = 1
            BY <1>4, <6>1
          <6>2. CASE k - 1 # 1
            <7>1. k - 1 \in 1..k /\ k - 1 > 1
              BY <2>0, <4>2, <6>2
            <7>2. QED
              BY <1>4, <7>1
          <6>3. QED
            BY <6>1, <6>2
        <5>4. QED
          BY <5>2, <5>3 DEF Ended
      <4>3. QED
        BY <4>1, <4>2
    <3>2. IsRow(new, L + k)
      <4>1. L + k - 1 = (L + k) - 1
        BY <1>1, <2>0
      <4>2. QED
        BY <2>0, <2>2, <3>1, <4>1 DEF IsRow
    <3>3. QED
      BY <2>0, <3>2 DEF Holds, Rows
  <2>3. out[k].part \in {"whole", "rest"}
    <3>1. k = 1 \/ (k > 1 /\ k \in 1..k)
      BY <2>0
    <3>2. QED
      BY <1>4, <3>1
  <2>4. QED
    BY <2>1, <2>2, <2>3
<1>5. QED
  BY <1>2, <1>3, <1>4

LEMMA Joined ==
  ASSUME NEW S, NEW a \in Seq(S), NEW b \in Seq(S)
  PROVE  a \o b \in Seq(S) /\ Longer(a, b, a \o b)
<1>1. /\ a \o b \in Seq(S) /\ Len(a \o b) = Len(a) + Len(b)
      /\ \A i \in 1..Len(a) + Len(b) : (a \o b)[i] = IF i <= Len(a) THEN a[i] ELSE b[i - Len(a)]
  BY ConcatProperties
<1>2. Len(a) \in Nat /\ Len(b) \in Nat
  OBVIOUS
<1>3. \A i \in 1..Len(a) : (a \o b)[i] = a[i]
  BY <1>1, <1>2
<1>4. ASSUME NEW k \in 1..Len(b) PROVE (a \o b)[Len(a) + k] = b[k]
  <2>1. /\ Len(a) + k \in 1..Len(a) + Len(b) /\ ~(Len(a) + k <= Len(a))
        /\ Len(a) + k - Len(a) = k
    BY <1>2
  <2>2. QED
    BY <1>1, <2>1
<1>5. QED
  BY <1>1, <1>2, <1>3, <1>4 DEF Longer

\* A job wrote some of its lines and part of one, and todo2 is left.
CutShort(file, todo, new, todo2, p) ==
  \E n \in 0..Len(todo)-1, part \in {"start", "json"} : \E out :
    /\ todo[n+1].part = "whole"
    /\ Written(todo, n, part, p, out) /\ Longer(file, out, new) /\ Remains(todo, n, p, todo2)

\* What a flush writes, and what is left to write.
LEMMA FlushFacts ==
  ASSUME NEW S, NEW file \in Seq(Pieces(S)), NEW p \in Jobs, NEW todo \in Seq(ToWrite(S, p)),
         Lined(todo), todo = job[p].todo, NEW new, NEW next, Flush(p, file, new, next)
  PROVE  /\ new \in Seq(Pieces(S))
         /\ \/ /\ Longer(file, todo, new)
               /\ Becomes(p, [job[p] EXCEPT !.at = next, !.todo = <<>>])
            \/ \E todo2 \in Seq(ToWrite(S, p)) :
                 /\ CutShort(file, todo, new, todo2, p) /\ Lined(todo2)
                 /\ Becomes(p, [job[p] EXCEPT !.todo = todo2])
<1>1. /\ Len(todo) \in Nat /\ Len(file) \in Nat
      /\ \A k \in 1..Len(todo) : todo[k] \in ToWrite(S, p) /\ todo[k] \in Pieces(S)
  <2>1. Len(todo) \in Nat /\ Len(file) \in Nat /\ \A k \in 1..Len(todo) : todo[k] \in ToWrite(S, p)
    OBVIOUS
  <2>2. ToWrite(S, p) \subseteq Pieces(S)
    BY DEF ToWrite, Pieces, Parts
  <2>3. QED
    BY <2>1, <2>2
<1>2. ASSUME NEW out \in Seq(Pieces(S))
      PROVE  file \o out \in Seq(Pieces(S)) /\ Longer(file, out, file \o out)
  BY Joined
<1>3. CASE /\ new = file \o todo
           /\ Becomes(p, [job[p] EXCEPT !.at = next, !.todo = <<>>])
  <2>1. todo \in Seq(Pieces(S))
    <3>1. \A k \in 1..Len(todo) : todo[k] \in Pieces(S)
      BY <1>1
    <3>2. QED
      BY <3>1, ElementOfSeq, SeqDef
  <2>2. QED
    BY <1>2, <1>3, <2>1
<1>4. ASSUME NEW n \in 0..Len(todo)-1, NEW part \in {"start", "json"},
             todo[n+1].part = "whole", new = Cut(file, todo, n, part, p),
             Becomes(p, [job[p] EXCEPT !.todo = Uncut(todo, n, p)])
      PROVE  /\ new \in Seq(Pieces(S))
             /\ \E todo2 \in Seq(ToWrite(S, p)) :
                  /\ CutShort(file, todo, new, todo2, p) /\ Lined(todo2)
                  /\ Becomes(p, [job[p] EXCEPT !.todo = todo2])
  <2> DEFINE a == SubSeq(todo, 1, n)
             b == <<Piece(todo[n+1].row, part, p)>>
             c == <<Piece(todo[n+1].row, "rest", p)>>
             d == SubSeq(todo, n + 2, Len(todo))
             out == a \o b
             todo2 == c \o d
  <2>0. n \in Nat /\ n + 1 \in 1..Len(todo)
    BY <1>1
  <2>1. todo[n+1].row \in S
    BY <1>1, <2>0 DEF ToWrite
  <2>2. /\ a \in Seq(Pieces(S)) /\ Len(a) = n
        /\ \A k \in 1..n : a[k] = todo[k]
    <3>1. \A k \in 1..n : todo[k] \in Pieces(S)
      BY <1>1, <2>0
    <3>2. /\ a \in Seq(Pieces(S)) /\ Len(a) = (IF 1 <= n THEN n - 1 + 1 ELSE 0)
          /\ \A k \in 1..n-1+1 : a[k] = todo[1+k-1]
      BY <2>0, <3>1, SubSeqProperties
    <3>3. \A k \in 1..n : a[k] = todo[k]
      <4>1. \A k \in 1..n : k \in 1..n-1+1 /\ 1+k-1 = k
        BY <2>0
      <4>2. QED
        BY <3>2, <4>1
    <3>4. QED
      BY <2>0, <3>2, <3>3
  <2>3. b \in Seq(Pieces(S)) /\ Len(b) = 1 /\ b[1] = Piece(todo[n+1].row, part, p)
    BY <2>1 DEF Piece, Pieces, Parts
  <2>4. c \in Seq(ToWrite(S, p)) /\ Len(c) = 1 /\ c[1] = Piece(todo[n+1].row, "rest", p)
    BY <2>1 DEF Piece, ToWrite
  <2>5. /\ d \in Seq(ToWrite(S, p)) /\ Len(d) = Len(todo) - n - 1
        /\ \A k \in 1..Len(todo) - n - 1 : d[k] = todo[n + 1 + k]
    <3>1. \A k \in n+2..Len(todo) : todo[k] \in ToWrite(S, p)
      BY <1>1, <2>0
    <3>2. n + 2 \in Int /\ Len(todo) \in Int
      BY <1>1, <2>0
    <3>3. /\ d \in Seq(ToWrite(S, p))
          /\ Len(d) = (IF n + 2 <= Len(todo) THEN Len(todo) - (n + 2) + 1 ELSE 0)
          /\ \A k \in 1..Len(todo)-(n+2)+1 : d[k] = todo[(n+2)+k-1]
      BY <3>1, <3>2, SubSeqProperties
    <3>4. \A k \in 1..Len(todo) - n - 1 : k \in 1..Len(todo)-(n+2)+1 /\ (n+2)+k-1 = n + 1 + k
      BY <1>1, <2>0
    <3>5. QED
      BY <1>1, <2>0, <3>3, <3>4
  <2>6. /\ out \in Seq(Pieces(S)) /\ Len(out) = n + 1
        /\ \A k \in 1..n : out[k] = todo[k]
        /\ out[n+1] = Piece(todo[n+1].row, part, p)
    <3> HIDE DEF a, b
    <3>1. a \o b \in Seq(Pieces(S)) /\ Longer(a, b, a \o b)
      BY <2>2, <2>3, Joined
    <3>2. QED
      BY <2>2, <2>3, <3>1 DEF Longer
  <2>7. /\ todo2 \in Seq(ToWrite(S, p)) /\ Len(todo2) = Len(todo) - n
        /\ todo2[1] = Piece(todo[n+1].row, "rest", p)
        /\ \A k \in 1..Len(todo2) : k > 1 => todo2[k] = todo[n + k]
    <3> HIDE DEF c, d
    <3> DEFINE e == c \o d
    <3>1. e \in Seq(ToWrite(S, p)) /\ Longer(c, d, e)
      BY <2>4, <2>5, Joined
    <3> HIDE DEF e
    <3>2. Len(e) = Len(todo) - n /\ e[1] = c[1]
      BY <1>1, <2>0, <2>4, <2>5, <3>1 DEF Longer
    <3>3. ASSUME NEW k \in 1..Len(todo)-n, k > 1 PROVE e[k] = todo[n + k]
      <4>1. k - 1 \in 1..Len(todo) - n - 1 /\ 1 + (k - 1) = k /\ n + 1 + (k - 1) = n + k
        BY <1>1, <2>0, <3>3
      <4>2. e[k] = d[k-1]
        BY <2>4, <2>5, <3>1, <4>1 DEF Longer
      <4>3. QED
        BY <2>5, <4>1, <4>2
    <3>4. QED
      BY <2>4, <3>1, <3>2, <3>3 DEF e
  <2>8. new = file \o out /\ Uncut(todo, n, p) = todo2
    <3> HIDE DEF a, b
    <3>1. (file \o a) \o b = file \o (a \o b)
      BY <2>2, <2>3, ConcatAssociative, SMTT(40)
    <3>2. QED
      BY <1>4, <3>1 DEF Cut, Uncut, a, b
  <2> HIDE DEF out, todo2
  <2>9. \A k \in 1..Len(todo2) : k > 1 => todo2[k].part = "whole"
    <3>1. ASSUME NEW k \in 1..Len(todo2), k > 1 PROVE todo[n+k].part = "whole"
      <4>1. n + k \in 1..Len(todo) /\ n + k > 1
        BY <1>1, <2>0, <2>7, <3>1
      <4>2. QED
        BY <4>1 DEF Lined
    <3>2. QED
      BY <2>7, <3>1
  <2>10. new \in Seq(Pieces(S)) /\ Longer(file, out, new)
    BY <1>2, <2>6, <2>8
  <2>11. CutShort(file, todo, new, todo2, p) /\ Lined(todo2)
    <3>1. Written(todo, n, part, p, out) /\ Remains(todo, n, p, todo2) /\ Lined(todo2)
      BY <2>6, <2>7, <2>9 DEF Written, Remains, Lined
    <3>2. QED
      BY <1>4, <2>10, <3>1 DEF CutShort
  <2>12. Becomes(p, [job[p] EXCEPT !.todo = todo2])
    BY <1>4, <2>8
  <2>13. QED
    BY <2>7, <2>10, <2>11, <2>12
<1>5. QED
  <2>1. \/ /\ new = file \o todo
           /\ Becomes(p, [job[p] EXCEPT !.at = next, !.todo = <<>>])
        \/ \E n \in 0..Len(todo)-1 : \E part \in {"start", "json"} :
             /\ todo[n+1].part = "whole" /\ new = Cut(file, todo, n, part, p)
             /\ Becomes(p, [job[p] EXCEPT !.todo = Uncut(todo, n, p)])
    BY DEF Flush
  <2>2. QED
    BY <1>3, <1>4, <2>1

\* Whether lines are written whole or cut, the rows that are new stay apart.
LEMMA AddedRows ==
  ASSUME NEW file, NEW todo, NEW out, NEW new, Longer(file, out, new), Lined(todo),
         Unique(file), Adds(file, todo), Len(todo) \in Nat, Len(out) <= Len(todo),
         \A k \in 1..Len(out) : /\ out[k].row = todo[k].row
                                /\ out[k].part = "rest" <=> todo[k].part = "rest"
  PROVE  /\ Unique(new)
         /\ \A i \in Rows(new) : \A m \in 1..Len(todo) : new[i].row = todo[m].row =>
              \/ m \in 1..Len(out) /\ i = Len(file) + m /\ todo[m].part # "rest"
              \/ i = Len(file) /\ todo[m].part = "rest"
<1> DEFINE L == Len(file)
<1>1. /\ L \in Nat /\ Len(out) \in Nat /\ Len(new) = L + Len(out)
      /\ \A k \in 1..L : new[k] = file[k]
      /\ \A k \in 1..Len(out) : new[L+k] = out[k]
  BY DEF Longer
<1>2. \A k \in 1..Len(out) : k \in 1..Len(todo)
  BY <1>1
<1>3. \A k \in 1..Len(out) : k > 1 => out[k].part # "rest"
  BY <1>2 DEF Lined
<1>4. \A i \in Rows(file) : new[i] = file[i]
  BY <1>1 DEF Rows
<1>5. ASSUME NEW i \in Rows(new)
      PROVE  \/ i \in Rows(file)
             \/ /\ 1 \in 1..Len(todo) /\ i = L /\ new[i].row = todo[1].row
                /\ todo[1].part = "rest"
             \/ \E k \in 1..Len(out) : i = L + k /\ new[i].row = todo[k].row /\ todo[k].part # "rest"
  <2>1. CASE i = L /\ i > 0 /\ Len(out) > 0 /\ out[1].part = "rest"
    <3>1. 1 \in 1..Len(out) /\ 1 \in 1..Len(todo) /\ new[i] = file[L]
      BY <1>1, <1>2, <2>1
    <3>2. todo[1].part = "rest"
      BY <2>1, <3>1
    <3>3. Continued(file, todo)
      BY <3>1, <3>2 DEF Adds
    <3>4. QED
      BY <2>1, <3>1, <3>2, <3>3 DEF Continued
  <2>2. CASE i - L \in 1..Len(out) /\ out[i - L].part # "rest"
    <3>1. i \in 1..Len(new)
      BY DEF Rows
    <3>2. PICK k \in 1..Len(out) : k = i - L
      BY <2>2
    <3>3. i = L + k
      BY <1>1, <3>1, <3>2
    <3>4. new[i] = out[k] /\ out[k].part # "rest"
      BY <1>1, <2>2, <3>2, <3>3
    <3>5. i = L + k /\ new[i].row = todo[k].row /\ todo[k].part # "rest"
      BY <3>3, <3>4
    <3>6. QED
      BY <3>5
  <2>3. QED
    BY <1>3, <2>1, <2>2, NewRows
<1> HIDE DEF L
<1>6. ASSUME NEW i \in Rows(new), NEW m \in 1..Len(todo), new[i].row = todo[m].row
      PROVE  \/ m \in 1..Len(out) /\ i = L + m /\ todo[m].part # "rest"
             \/ i = L /\ todo[m].part = "rest"
  <2>1. CASE i \in Rows(file)
    BY <1>4, <1>6, <2>1 DEF Adds, L
  <2>2. CASE /\ 1 \in 1..Len(todo) /\ i = L /\ new[i].row = todo[1].row
             /\ todo[1].part = "rest"
    <3>1. m = 1
      BY <1>6, <2>2 DEF Adds
    <3>2. QED
      BY <2>2, <3>1
  <2>3. ASSUME NEW k \in 1..Len(out), i = L + k, new[i].row = todo[k].row, todo[k].part # "rest"
        PROVE  m \in 1..Len(out) /\ i = L + m /\ todo[m].part # "rest"
    <3>1. m = k
      BY <1>2, <1>6, <2>3 DEF Adds
    <3>2. QED
      BY <2>3, <3>1
  <2>4. QED
    BY <1>5, <2>1, <2>2, <2>3
<1>7. ASSUME NEW i \in Rows(new), NEW k \in Rows(new), new[i].row = new[k].row
      PROVE  i = k
  <2>1. CASE i \in Rows(file) /\ k \in Rows(file)
    BY <1>4, <1>7, <2>1 DEF Unique
  <2>2. ASSUME NEW m \in 1..Len(todo), new[i].row = todo[m].row PROVE i = k
    BY <1>6, <1>7, <2>2
  <2>3. ASSUME NEW m \in 1..Len(todo), new[k].row = todo[m].row PROVE i = k
    BY <1>6, <1>7, <2>3
  <2>4. i \in Rows(file) \/ \E m \in 1..Len(todo) : new[i].row = todo[m].row
    BY <1>2, <1>5
  <2>5. k \in Rows(file) \/ \E m \in 1..Len(todo) : new[k].row = todo[m].row
    BY <1>2, <1>5
  <2>6. QED
    BY <2>1, <2>2, <2>3, <2>4, <2>5
<1>8. QED
  BY <1>6, <1>7 DEF Unique, L

LEMMA AddedWhole ==
  ASSUME NEW file, NEW todo, NEW new, Longer(file, todo, new), Lined(todo), Unique(file), Adds(file, todo)
  PROVE  Unique(new)
<1>1. Len(todo) \in Nat /\ Len(todo) <= Len(todo)
  BY DEF Longer
<1>2. QED
  BY <1>1, AddedRows

LEMMA AddedCut ==
  ASSUME NEW file, NEW todo, NEW out, NEW new, NEW todo2, NEW p, Len(todo) \in Nat,
         NEW n \in 0..Len(todo)-1, NEW part \in {"start", "json"}, todo[n+1].part = "whole",
         Longer(file, out, new), Lined(todo), Unique(file), Adds(file, todo),
         Written(todo, n, part, p, out), Remains(todo, n, p, todo2)
  PROVE  Unique(new) /\ Adds(new, todo2)
<1> DEFINE L == Len(file)
<1>1. /\ n \in Nat /\ n + 1 \in 1..Len(todo) /\ Len(out) = n + 1 /\ Len(out) <= Len(todo)
      /\ \A k \in 1..n : out[k] = todo[k]
      /\ out[n+1].row = todo[n+1].row /\ out[n+1].part = part /\ out[n+1].by = p
  BY DEF Written, Piece
<1>2. ASSUME NEW k \in 1..Len(out)
      PROVE  out[k].row = todo[k].row /\ (out[k].part = "rest" <=> todo[k].part = "rest")
  <2>1. k \in 1..n \/ k = n + 1
    BY <1>1
  <2>2. QED
    BY <1>1, <2>1
<1>3. /\ Unique(new)
      /\ \A i \in Rows(new) : \A m \in 1..Len(todo) : new[i].row = todo[m].row =>
           \/ m \in 1..Len(out) /\ i = L + m /\ todo[m].part # "rest"
           \/ i = L /\ todo[m].part = "rest"
  BY <1>1, <1>2, AddedRows
<1>4. /\ Len(todo2) = Len(todo) - n
      /\ todo2[1].row = todo[n+1].row /\ todo2[1].part = "rest" /\ todo2[1].by = p
      /\ \A k \in 1..Len(todo2) : k > 1 => todo2[k] = todo[n + k]
  BY DEF Remains, Piece
<1>5. \A k \in 1..Len(todo2) :
        /\ n + k \in 1..Len(todo) /\ n + k \in Nat /\ k \in Nat
        /\ todo2[k].row = todo[n+k].row
        /\ k = 1 \/ (k > 1 /\ todo2[k] = todo[n+k] /\ n + k > 1)
  BY <1>1, <1>4
<1>6. ASSUME NEW i \in 1..Len(todo2), NEW k \in 1..Len(todo2), todo2[i].row = todo2[k].row
      PROVE  i = k
  <2>1. n + i = n + k
    BY <1>5, <1>6 DEF Adds
  <2>2. QED
    BY <1>1, <1>5, <2>1
<1>7. ASSUME NEW k \in 1..Len(todo2), todo2[k].part = "rest"
      PROVE  k = 1 /\ Continued(new, todo2)
  <2>1. k = 1
    BY <1>5, <1>7 DEF Lined
  <2>2. L \in Nat /\ Len(new) = L + (n + 1) /\ new[L + (n + 1)] = out[n+1]
    BY <1>1 DEF Longer
  <2>3. Len(todo2) > 0 /\ Len(new) > 0
    BY <1>1, <1>4, <2>2
  <2>4. QED
    BY <1>1, <1>4, <2>1, <2>2, <2>3 DEF Continued
<1>8. ASSUME NEW i \in Rows(new), NEW k \in 1..Len(todo2), new[i].row = todo2[k].row
      PROVE  i = Len(new) /\ todo2[k].part = "rest"
  <2>1. /\ n + k \in 1..Len(todo)
        /\ \/ n + k \in 1..Len(out) /\ i = L + (n + k) /\ todo[n+k].part # "rest"
           \/ i = L /\ todo[n+k].part = "rest"
    BY <1>3, <1>5, <1>8
  <2>2. todo[n+k].part # "rest"
    <3>1. CASE k = 1
      BY <3>1
    <3>2. CASE k > 1
      BY <1>5, <3>2 DEF Lined
    <3>3. QED
      BY <1>5, <3>1, <3>2
  <2>3. k = 1 /\ i = L + (n + 1)
    BY <1>1, <1>5, <2>1, <2>2
  <2>4. Len(new) = L + (n + 1)
    BY <1>1 DEF Longer
  <2>5. QED
    BY <1>4, <2>3, <2>4
<1>9. QED
  BY <1>3, <1>6, <1>7, <1>8 DEF Adds

\* A job that is ready to write loses nothing that it found or has to write.
LEMMA ReadyWhole ==
  ASSUME NEW S, NEW p, NEW file, NEW todo \in Seq(ToWrite(S, p)), NEW new, Longer(file, todo, new),
         Lined(todo), Ready(file, todo)
  PROVE  Holds(file) \subseteq Holds(new) /\ RowsIn(todo) \subseteq Holds(new)
<1>1. ASSUME NEW k \in 1..Len(todo)
      PROVE  todo[1].part \in {"whole", "rest"} /\ \A m \in 1..k : m > 1 => todo[m].part = "whole"
  <2>1. Len(todo) \in Nat /\ 1 \in 1..Len(todo) /\ \A m \in 1..k : m \in 1..Len(todo)
    OBVIOUS
  <2>2. todo[1] \in ToWrite(S, p)
    BY <2>1
  <2>3. QED
    BY <2>1, <2>2 DEF Lined, ToWrite
<1>2. QED
  BY <1>1, GrownRows DEF RowsIn

LEMMA ReadyCut ==
  ASSUME NEW S, NEW file, NEW p, NEW todo \in Seq(ToWrite(S, p)), NEW out, NEW new, NEW todo2,
         NEW n \in 0..Len(todo)-1, NEW part \in {"start", "json"}, todo[n+1].part = "whole",
         Longer(file, out, new), Lined(todo), Ready(file, todo),
         Written(todo, n, part, p, out), Remains(todo, n, p, todo2)
  PROVE  /\ Holds(file) \subseteq Holds(new)
         /\ RowsIn(todo) \subseteq Holds(new) \cup RowsIn(todo2)
         /\ Ready(new, todo2)
<1> DEFINE L == Len(file)
<1>0. /\ Len(todo) \in Nat /\ L \in Nat /\ n \in Nat /\ n + 1 \in 1..Len(todo) /\ 1 \in 1..Len(todo)
      /\ \A k \in 1..Len(todo) : todo[k] \in ToWrite(S, p)
  BY DEF Longer
<1>1. /\ Len(out) = n + 1
      /\ \A k \in 1..n : out[k] = todo[k]
      /\ out[n+1].row = todo[n+1].row /\ out[n+1].part = part /\ out[n+1].by = p
      /\ Len(new) = L + (n + 1)
      /\ \A i \in 1..L : new[i] = file[i]
      /\ \A k \in 1..n+1 : new[L+k] = out[k]
  BY DEF Written, Piece, Longer
<1>2. todo[1].part = "rest" => n > 0
  BY <1>0
<1>3. Len(out) > 0 => Ready(file, out)
  <2>1. CASE Whole(file) /\ (Len(todo) > 0 => todo[1].part # "rest")
    <3>1. out[1].part # "rest"
      <4>1. CASE n = 0
        BY <1>1, <4>1
      <4>2. CASE n > 0
        BY <1>0, <1>1, <2>1, <4>2
      <4>3. QED
        BY <1>0, <4>1, <4>2
    <3>2. QED
      BY <2>1, <3>1 DEF Ready
  <2>2. CASE Continued(file, todo) /\ Ended(file, Len(file) - 1)
    <3>1. n > 0 /\ out[1] = todo[1]
      BY <1>0, <1>1, <1>2, <2>2 DEF Continued
    <3>2. Continued(file, out)
      BY <1>0, <1>1, <2>2, <3>1 DEF Continued
    <3>3. QED
      BY <2>2, <3>2 DEF Ready
  <2>3. QED
    BY <2>1, <2>2 DEF Ready
<1>4. ASSUME NEW k \in 1..n
      PROVE  todo[k].row \in Holds(new)
  <2>1. k \in 1..Len(out) /\ out[k] = todo[k] /\ 1 \in 1..n /\ out[1] = todo[1]
    BY <1>0, <1>1
  <2>2. out[1].part \in {"whole", "rest"}
    BY <1>0, <2>1 DEF ToWrite
  <2>3. ASSUME NEW m \in 1..k, m > 1 PROVE out[m].part = "whole"
    <3>1. m \in 1..n /\ m \in 1..Len(todo)
      BY <1>0
    <3>2. QED
      BY <1>1, <2>3, <3>1 DEF Lined
  <2>4. QED
    BY <1>3, <2>1, <2>2, <2>3, GrownRows
<1>5. Holds(file) \subseteq Holds(new)
  BY <1>3, GrownRows
<1>6. /\ Len(todo2) = Len(todo) - n
      /\ todo2[1].row = todo[n+1].row /\ todo2[1].part = "rest" /\ todo2[1].by = p
      /\ \A k \in 1..Len(todo2) : k > 1 => todo2[k] = todo[n + k]
  BY DEF Remains, Piece
<1>7. ASSUME NEW k \in 1..Len(todo)
      PROVE  todo[k].row \in Holds(new) \cup RowsIn(todo2)
  <2>1. CASE k <= n
    BY <1>4, <2>1
  <2>2. CASE k = n + 1
    <3>1. 1 \in 1..Len(todo2)
      BY <1>0, <1>6
    <3>2. QED
      BY <1>6, <2>2, <3>1 DEF RowsIn
  <2>3. CASE k > n + 1
    <3>1. k - n \in 1..Len(todo2) /\ k - n > 1 /\ n + (k - n) = k
      BY <1>0, <1>6, <2>3
    <3>2. todo2[k - n] = todo[k]
      BY <1>6, <3>1
    <3>3. QED
      BY <3>1, <3>2 DEF RowsIn
  <2>4. QED
    BY <1>0, <2>1, <2>2, <2>3
<1>8. Continued(new, todo2)
  <2>1. Len(todo2) > 0 /\ Len(new) > 0 /\ new[Len(new)] = out[n+1]
    BY <1>0, <1>1, <1>6
  <2>2. QED
    BY <1>1, <1>6, <2>1 DEF Continued
<1>9. Ended(new, Len(new) - 1)
  <2>1. Len(new) - 1 = L + n
    BY <1>0, <1>1
  <2>2. CASE n = 0
    <3>1. Whole(file)
      BY <1>2, <2>2 DEF Ready, Continued
    <3>2. L = 0 \/ new[L] = file[L]
      <4>1. L = 0 \/ L \in 1..L
        BY <1>0
      <4>2. QED
        BY <1>1, <4>1
    <3>3. L + n = L
      BY <1>0, <2>2
    <3>4. QED
      BY <2>1, <3>1, <3>2, <3>3 DEF Whole, Ended
  <2>3. CASE n > 0
    <3>1. n \in 1..n+1 /\ n \in 1..n /\ n \in 1..Len(todo)
      BY <1>0, <2>3
    <3>2. new[L + n] = todo[n]
      BY <1>1, <3>1
    <3>3. todo[n].part \in {"whole", "rest"}
      BY <1>0, <3>1 DEF ToWrite
    <3>4. QED
      BY <2>1, <3>2, <3>3 DEF Ended
  <2>4. QED
    BY <1>0, <2>2, <2>3
<1>10. QED
  BY <1>5, <1>7, <1>8, <1>9 DEF RowsIn, Ready

-----------------------------------------------------------------------------
(* What is written, promoted and published *)

\* What a good artifact says.
Promotable == {Artifacts[i].content : i \in {k \in artifacts : Artifacts[k].good}}

\* Every row names an artifact, and every promotion what a good one says.
LineInv ==
  /\ artifacts \subseteq 1..Len(Artifacts)
  /\ candidates \in Seq(Pieces(artifacts)) /\ promoted \in Seq(Pieces(Promotable))
  /\ store \subseteq Promotable
  /\ \A p \in Jobs :
       /\ job[p].at = "candidates" =>
            job[p].todo \in Seq(ToWrite(artifacts, p)) /\ Lined(job[p].todo)
       /\ job[p].at = "promotions" =>
            job[p].todo \in Seq(ToWrite(Promotable, p)) /\ Lined(job[p].todo)

\* A job that is alone adds only what is not promoted yet.
RepeatInv ==
  ~overlapped =>
    /\ Unique(promoted)
    /\ \A p \in Jobs : job[p].at = "promotions" => Adds(promoted, job[p].todo)

\* The exemplar of an artifact's content is not good or is among these.
Tells(i, published) ==
  \A k \in Exemplars :
    Artifact(k).content = Artifacts[i].content /\ Artifact(k).good
      => Artifacts[i].content \in published

\* What a job that is alone and found whole files still needs for what it found
\* to be indexed, promoted and published.
Complete(j) ==
  /\ j.at = "collect" => Whole(candidates)
  /\ j.at \in {"collect", "candidates", "promote"} => Whole(promoted)
  /\ j.at = "candidates" => Ready(candidates, j.todo)
  /\ j.at = "promotions" => Ready(promoted, j.todo)
  /\ \A i \in j.found :
       /\ j.at # "candidates" => i \in Holds(candidates)
       /\ j.at = "candidates" => i \in Holds(candidates) \cup RowsIn(j.todo)
       /\ j.at = "promotions" => Tells(i, Holds(promoted) \cup RowsIn(j.todo))
       /\ j.at \in {"grants", "truncate", "write", "bytes"} => Tells(i, Holds(promoted))
       /\ j.at \in PutPhases => Tells(i, Holds(j.promoted))

FoundInv ==
  ~overlapped => \A p \in Jobs : job[p].clean /\ job[p].at # "idle" => Complete(job[p])

\* The lines a job writes about the candidates it found.
LEMMA CollectFacts ==
  ASSUME LineInv, NEW p \in Jobs
  PROVE  LET todo == Lines(NewCandidates, p) IN
         /\ todo \in Seq(ToWrite(artifacts, p))
         /\ \A k \in 1..Len(todo) : todo[k].part = "whole"
         /\ \A i \in artifacts : i \in Holds(candidates) \cup RowsIn(todo)
<1> DEFINE S == artifacts \ Holds(candidates)
           s == NewCandidates
           n == Cardinality(S)
           todo == Lines(s, p)
<1>1. S \subseteq Nat /\ IsFiniteSet(S) /\ S \subseteq artifacts
  <2>1. Len(Artifacts) \in Nat
    BY SharedAssumption
  <2>2. S \subseteq 1..Len(Artifacts) /\ S \in SUBSET (1..Len(Artifacts))
    BY DEF LineInv
  <2>3. IsFiniteSet(1..Len(Artifacts))
    BY <2>1, FS_Interval
  <2>4. QED
    BY <2>1, <2>2, <2>3, FS_Subset
<1>2. /\ n \in Nat /\ s \in [1..n -> S]
      /\ \A x \in S : \E i \in 1..n : s[i] = x
  BY <1>1, InOrderFacts DEF NewCandidates
<1> HIDE DEF s, n
<1>3. Len(s) = n
  BY <1>2, SeqOfFun
<1>4. todo = [k \in 1..n |-> Piece(s[k], "whole", p)]
  BY <1>3 DEF Lines
<1>5. \A k \in 1..n : s[k] \in artifacts /\ Piece(s[k], "whole", p) \in ToWrite(artifacts, p)
  BY <1>1, <1>2 DEF Piece, ToWrite
<1>6. todo \in Seq(ToWrite(artifacts, p)) /\ Len(todo) = n /\ \A k \in 1..n : todo[k] = Piece(s[k], "whole", p)
  <2>1. todo \in [1..n -> ToWrite(artifacts, p)]
    BY <1>4, <1>5
  <2>2. QED
    BY <1>2, <1>4, <2>1, SeqOfFun
<1> HIDE DEF todo
<1>7. \A k \in 1..Len(todo) : todo[k].part = "whole" /\ todo[k].row = s[k]
  BY <1>6 DEF Piece
<1>8. ASSUME NEW i \in artifacts, i \notin Holds(candidates)
      PROVE  i \in RowsIn(todo)
  <2>1. PICK k \in 1..n : s[k] = i
    BY <1>2, <1>8
  <2>2. QED
    BY <1>6, <1>7, <2>1 DEF RowsIn
<1>9. QED
  BY <1>6, <1>7, <1>8 DEF todo, s

\* The lines a job writes about what it promotes.
LEMMA PromoteFacts ==
  ASSUME LineInv, NEW p \in Jobs
  PROVE  LET todo == Lines(NewPromotions, p) IN
         /\ todo \in Seq(ToWrite(Promotable, p))
         /\ \A k \in 1..Len(todo) : todo[k].part = "whole" /\ todo[k].row \notin Holds(promoted)
         /\ \A i, k \in 1..Len(todo) : todo[i].row = todo[k].row => i = k
         /\ \A k \in Exemplars : Artifact(k).good =>
              Artifact(k).content \in Holds(promoted) \cup RowsIn(todo)
<1> DEFINE S == {i \in Exemplars : Artifact(i).good /\ Artifact(i).content \notin Holds(promoted)}
           s == InOrder(S)
           n == Cardinality(S)
           said == [k \in DOMAIN s |-> Artifact(s[k]).content]
           todo == Lines(said, p)
<1>0. NewPromotions = said
  BY DEF NewPromotions, Promotions
<1>1. S \subseteq Nat /\ IsFiniteSet(S)
  <2>1. Len(candidates) \in Nat
    BY DEF LineInv
  <2>2. S \in SUBSET (1..Len(candidates))
    BY DEF Exemplars, Rows
  <2>3. IsFiniteSet(1..Len(candidates))
    BY <2>1, FS_Interval
  <2>4. IsFiniteSet(S)
    BY <2>2, <2>3, FS_Subset
  <2>5. QED
    BY <2>1, <2>2, <2>4
<1>2. /\ n \in Nat /\ s \in [1..n -> S]
      /\ \A i, k \in 1..n : s[i] = s[k] => i = k
      /\ \A x \in S : \E i \in 1..n : s[i] = x
  BY <1>1, InOrderFacts
<1>3. \A i \in S : /\ i \in Exemplars /\ i \in Nat /\ Artifact(i).content \notin Holds(promoted)
                   /\ Artifact(i).content \in Promotable
  <2> SUFFICES ASSUME NEW i \in S PROVE Artifact(i).content \in Promotable
    BY <1>1
  <2>1. i \in 1..Len(candidates) /\ Artifact(i).good
    BY DEF Exemplars, Rows
  <2>2. candidates[i].row \in artifacts
    <3>1. candidates \in Seq(Pieces(artifacts))
      BY DEF LineInv
    <3>2. candidates[i] \in Pieces(artifacts)
      BY <2>1, <3>1, ElementOfSeq
    <3>3. QED
      BY <3>2 DEF Pieces
  <2>3. QED
    BY <2>1, <2>2 DEF Artifact, Promotable
<1>4. \A x \in Exemplars : Artifact(x).good => Artifact(x).content \in Holds(promoted) \/ x \in S
  OBVIOUS
<1>5. \A i, k \in S : Artifact(i).content = Artifact(k).content => i = k
  <2> SUFFICES ASSUME NEW i \in S, NEW k \in S, Artifact(i).content = Artifact(k).content, i # k
               PROVE  FALSE
    OBVIOUS
  <2>1. i \in Exemplars /\ k \in Exemplars /\ i \in Nat /\ k \in Nat
    BY <1>3
  <2>2. i < k \/ k < i
    BY <2>1
  <2>3. QED
    BY <2>1, <2>2 DEF Exemplars
<1> HIDE DEF S, s, n
<1>6. DOMAIN s = 1..n /\ said = [k \in 1..n |-> Artifact(s[k]).content]
  BY <1>2
<1>7. said \in [1..n -> Promotable] /\ \A k \in 1..n : said[k] = Artifact(s[k]).content
  BY <1>2, <1>3, <1>6
<1> HIDE DEF said
<1>8. Len(said) = n
  BY <1>2, <1>7, SeqOfFun
<1>9. \A k \in 1..n : Piece(said[k], "whole", p) \in ToWrite(Promotable, p)
  BY <1>7 DEF Piece, ToWrite
<1>10. todo = [k \in 1..n |-> Piece(said[k], "whole", p)]
  BY <1>8 DEF Lines
<1>11. /\ todo \in Seq(ToWrite(Promotable, p)) /\ Len(todo) = n
       /\ \A k \in 1..n : todo[k] = Piece(said[k], "whole", p)
  <2>1. todo \in [1..n -> ToWrite(Promotable, p)]
    BY <1>9, <1>10
  <2>2. QED
    BY <1>2, <1>10, <2>1, SeqOfFun
<1> HIDE DEF todo
<1>12. \A k \in 1..Len(todo) : /\ todo[k].part = "whole" /\ todo[k].row = Artifact(s[k]).content
                               /\ s[k] \in S
  BY <1>2, <1>7, <1>11 DEF Piece
<1>13. \A k \in 1..Len(todo) : todo[k].part = "whole" /\ todo[k].row \notin Holds(promoted)
  BY <1>3, <1>12
<1>14. \A i, k \in 1..Len(todo) : todo[i].row = todo[k].row => i = k
  BY <1>2, <1>5, <1>11, <1>12
<1>15. ASSUME NEW x \in Exemplars, Artifact(x).good, Artifact(x).content \notin Holds(promoted)
       PROVE  Artifact(x).content \in RowsIn(todo)
  <2>1. PICK k \in 1..n : s[k] = x
    BY <1>2, <1>4, <1>15
  <2>2. QED
    BY <1>11, <1>12, <2>1 DEF RowsIn
<1>16. QED
  BY <1>0, <1>11, <1>13, <1>14, <1>15 DEF todo

-----------------------------------------------------------------------------
(* The steps again: what a job has found, has to write and has published *)

Shape(j, at, todo, found, clean, published) ==
  /\ j.at = at /\ j.todo = todo /\ j.found = found /\ j.clean = clean
  /\ j.promoted = published

OthersKept(p) == \A q \in Jobs : q # p => job'[q] = job[q]

LEMMA SetTodoShape ==
  ASSUME NEW j, IsJob(j), NEW x
  PROVE  Shape([j EXCEPT !.todo = x], j.at, x, j.found, j.clean, j.promoted)
  BY DEF IsJob, Shape

LEMMA SetAtShape ==
  ASSUME NEW j, IsJob(j), NEW a
  PROVE  Shape([j EXCEPT !.at = a], a, j.todo, j.found, j.clean, j.promoted)
  BY DEF IsJob, Shape

LEMMA SetAtTodoShape ==
  ASSUME NEW j, IsJob(j), NEW a, NEW x
  PROVE  Shape([j EXCEPT !.at = a, !.todo = x], a, x, j.found, j.clean, j.promoted)
  BY DEF IsJob, Shape

LEMMA SetCollectShape ==
  ASSUME NEW j, IsJob(j), NEW a, NEW x, NEW y
  PROVE  Shape([j EXCEPT !.at = a, !.todo = x, !.found = y], a, x, y, j.clean, j.promoted)
  BY DEF IsJob, Shape

LEMMA SetStartShape ==
  ASSUME NEW a, NEW x, NEW y
  PROVE  Shape([Idle EXCEPT !.at = a, !.tool = x, !.clean = y], a, <<>>, {}, y, <<>>)
  BY DEF Idle, Shape

LEMMA SetReadShape ==
  ASSUME NEW j, IsJob(j), NEW a, NEW x, NEW y
  PROVE  Shape([j EXCEPT !.at = a, !.upto = x, !.readAt = y], a, j.todo, j.found, j.clean, j.promoted)
  BY DEF IsJob, Shape

LEMMA SetStampShape ==
  ASSUME NEW j, IsJob(j), NEW a, NEW x
  PROVE  Shape([j EXCEPT !.at = a, !.stamp = x], a, j.todo, j.found, j.clean, j.promoted)
  BY DEF IsJob, Shape

LEMMA SetBytesShape ==
  ASSUME NEW j, IsJob(j), NEW a, NEW x, NEW y, NEW z
  PROVE  Shape([j EXCEPT !.at = a, !.promoted = x, !.grants = y, !.snap = z],
               a, j.todo, j.found, j.clean, x)
  BY DEF IsJob, Shape

LEMMA Turning ==
  ASSUME TypeInv, NEW p \in Jobs, NEW new, Becomes(p, new),
         NEW at, NEW todo, NEW found, NEW clean, NEW published,
         Shape(new, at, todo, found, clean, published)
  PROVE  /\ OthersKept(p)
         /\ at = "idle" => job'[p].at = "idle"
         /\ at # "idle" => Shape(job'[p], at, todo, found, clean, published)
<1>1. job' = [job EXCEPT ![p] = IF new.at = "idle" THEN Idle ELSE new] /\ DOMAIN job = Jobs
  BY DEF Becomes, TypeInv
<1>2. OthersKept(p) /\ job'[p] = IF new.at = "idle" THEN Idle ELSE new
  BY <1>1 DEF OthersKept
<1>3. new.at = at
  BY DEF Shape
<1>4. QED
  BY <1>2, <1>3, IdleIsJob

\* The steps of a job that only turn to its next phase.
LEMMA TurnSteps ==
  ASSUME TypeInv, NEW p \in Jobs
  PROVE  /\ Start(p) =>
              /\ OthersKept(p) /\ job[p].at = "idle"
              /\ \E at \in {"collect", "promote", "grants"} :
                   Shape(job'[p], at, <<>>, {}, Whole(candidates) /\ Whole(promoted), <<>>)
         /\ Collect(p) =>
              /\ OthersKept(p) /\ job[p].at = "collect"
              /\ Shape(job'[p], "candidates", Lines(NewCandidates, p), artifacts, job[p].clean,
                       job[p].promoted)
         /\ Promote(p) =>
              /\ OthersKept(p) /\ job[p].at = "promote"
              /\ Shape(job'[p], "promotions", Lines(NewPromotions, p), job[p].found, job[p].clean,
                       job[p].promoted)
         /\ ReadGrants(p) \/ Truncate(p) \/ WriteState(p) =>
              /\ OthersKept(p) /\ job[p].at \in {"grants", "truncate", "write"}
              /\ \/ job'[p].at = "idle"
                 \/ \E at \in {"truncate", "write", "bytes"} :
                      Shape(job'[p], at, job[p].todo, job[p].found, job[p].clean, job[p].promoted)
         /\ ReadBytes(p) =>
              /\ OthersKept(p) /\ job[p].at = "bytes"
              /\ Shape(job'[p], "putPromoted", job[p].todo, job[p].found, job[p].clean, promoted)
         /\ PutPromoted(p) \/ PutGrants(p) =>
              /\ OthersKept(p) /\ job[p].at \in {"putPromoted", "putGrants"}
              /\ \E at \in {"putGrants", "putHead"} :
                   Shape(job'[p], at, job[p].todo, job[p].found, job[p].clean, job[p].promoted)
         /\ PutHead(p) \/ Fails(p) => OthersKept(p) /\ job[p].at # "idle" /\ job'[p].at = "idle"
<1> DEFINE j == job[p]
<1>1. IsJob(j)
  BY DEF TypeInv
<1>2. ASSUME Start(p)
      PROVE  /\ OthersKept(p) /\ j.at = "idle"
             /\ \E at \in {"collect", "promote", "grants"} :
                  Shape(job'[p], at, <<>>, {}, Whole(candidates) /\ Whole(promoted), <<>>)
  <2> DEFINE clean == Ended(candidates, Len(candidates)) /\ Ended(promoted, Len(promoted))
  <2>1. PICK tool \in Tools : Becomes(p, [Idle EXCEPT !.at = Phase(tool), !.tool = tool, !.clean = clean])
    BY <1>2 DEF Start
  <2>2. Shape([Idle EXCEPT !.at = Phase(tool), !.tool = tool, !.clean = clean],
              Phase(tool), <<>>, {}, clean, <<>>)
    BY SetStartShape
  <2>3. Phase(tool) \in {"collect", "promote", "grants"}
    BY DEF Phase, Tools
  <2>4. clean = (Whole(candidates) /\ Whole(promoted))
    BY DEF Whole
  <2> HIDE DEF clean
  <2>5. OthersKept(p) /\ Shape(job'[p], Phase(tool), <<>>, {}, clean, <<>>)
    BY <2>1, <2>2, <2>3, Turning
  <2>6. j.at = "idle"
    BY <1>2 DEF Start, At
  <2>7. QED
    BY <2>3, <2>4, <2>5, <2>6
<1>3. ASSUME Collect(p)
      PROVE  /\ OthersKept(p) /\ j.at = "collect"
             /\ Shape(job'[p], "candidates", Lines(NewCandidates, p), artifacts, j.clean, j.promoted)
  <2>1. Becomes(p, [j EXCEPT !.at = "candidates", !.todo = Lines(NewCandidates, p), !.found = artifacts])
    BY <1>3 DEF Collect
  <2>2. j.at = "collect"
    BY <1>3 DEF Collect, At
  <2>3. Shape([j EXCEPT !.at = "candidates", !.todo = Lines(NewCandidates, p), !.found = artifacts],
              "candidates", Lines(NewCandidates, p), artifacts, j.clean, j.promoted)
    BY <1>1, SetCollectShape
  <2>4. OthersKept(p) /\ Shape(job'[p], "candidates", Lines(NewCandidates, p), artifacts, j.clean, j.promoted)
    BY <2>1, <2>3, Turning
  <2>5. QED
    BY <2>2, <2>4
<1>4. ASSUME Promote(p)
      PROVE  /\ OthersKept(p) /\ j.at = "promote"
             /\ Shape(job'[p], "promotions", Lines(NewPromotions, p), j.found, j.clean, j.promoted)
  <2>1. Becomes(p, [j EXCEPT !.at = "promotions", !.todo = Lines(NewPromotions, p)])
    BY <1>4 DEF Promote
  <2>2. j.at = "promote"
    BY <1>4 DEF Promote, At
  <2>3. Shape([j EXCEPT !.at = "promotions", !.todo = Lines(NewPromotions, p)],
              "promotions", Lines(NewPromotions, p), j.found, j.clean, j.promoted)
    BY <1>1, SetAtTodoShape
  <2>4. OthersKept(p) /\ Shape(job'[p], "promotions", Lines(NewPromotions, p), j.found, j.clean, j.promoted)
    BY <2>1, <2>3, Turning
  <2>5. QED
    BY <2>2, <2>4
<1>5. ASSUME ReadGrants(p) \/ Truncate(p) \/ WriteState(p)
      PROVE  /\ OthersKept(p) /\ j.at \in {"grants", "truncate", "write"}
             /\ \/ job'[p].at = "idle"
                \/ \E at \in {"truncate", "write", "bytes"} :
                     Shape(job'[p], at, j.todo, j.found, j.clean, j.promoted)
  <2>1. CASE ReadGrants(p)
    <3>1. Becomes(p, [j EXCEPT !.at = "truncate", !.upto = Len(ledger), !.readAt = clock])
      BY <2>1 DEF ReadGrants
    <3>2. Shape([j EXCEPT !.at = "truncate", !.upto = Len(ledger), !.readAt = clock],
                "truncate", j.todo, j.found, j.clean, j.promoted)
      BY <1>1, SetReadShape
    <3>3. OthersKept(p) /\ Shape(job'[p], "truncate", j.todo, j.found, j.clean, j.promoted)
      BY <3>1, <3>2, Turning
    <3>4. QED
      BY <2>1, <3>3 DEF ReadGrants, At
  <2>2. CASE Truncate(p)
    <3>1. Becomes(p, [j EXCEPT !.at = "write", !.stamp = clock])
      BY <2>2 DEF Truncate
    <3>2. Shape([j EXCEPT !.at = "write", !.stamp = clock],
                "write", j.todo, j.found, j.clean, j.promoted)
      BY <1>1, SetStampShape
    <3>3. OthersKept(p) /\ Shape(job'[p], "write", j.todo, j.found, j.clean, j.promoted)
      BY <3>1, <3>2, Turning
    <3>4. QED
      BY <2>2, <3>3 DEF Truncate, At
  <2>3. CASE WriteState(p)
    <3> DEFINE a == Goto(p, "bytes", "grants")
    <3>1. Becomes(p, [j EXCEPT !.at = a])
      BY <2>3 DEF WriteState
    <3>2. a \in {"bytes", "idle"}
      BY DEF Goto
    <3> HIDE DEF a
    <3>3. /\ OthersKept(p)
          /\ a = "idle" => job'[p].at = "idle"
          /\ a # "idle" => Shape(job'[p], a, j.todo, j.found, j.clean, j.promoted)
      BY <1>1, <3>1, SetAtShape, Turning
    <3>4. QED
      BY <2>3, <3>2, <3>3 DEF WriteState, At
  <2>4. QED
    BY <1>5, <2>1, <2>2, <2>3
<1>6. ASSUME ReadBytes(p)
      PROVE  /\ OthersKept(p) /\ j.at = "bytes"
             /\ Shape(job'[p], "putPromoted", j.todo, j.found, j.clean, promoted)
  <2>1. Becomes(p, [j EXCEPT !.at = "putPromoted", !.promoted = promoted, !.grants = state, !.snap = clock])
    BY <1>6 DEF ReadBytes
  <2>2. j.at = "bytes"
    BY <1>6 DEF ReadBytes, At
  <2>3. Shape([j EXCEPT !.at = "putPromoted", !.promoted = promoted, !.grants = state, !.snap = clock],
              "putPromoted", j.todo, j.found, j.clean, promoted)
    BY <1>1, SetBytesShape
  <2>4. OthersKept(p) /\ Shape(job'[p], "putPromoted", j.todo, j.found, j.clean, promoted)
    BY <2>1, <2>3, Turning
  <2>5. QED
    BY <2>2, <2>4
<1>7. ASSUME PutPromoted(p) \/ PutGrants(p)
      PROVE  /\ OthersKept(p) /\ j.at \in {"putPromoted", "putGrants"}
             /\ \E at \in {"putGrants", "putHead"} :
                  Shape(job'[p], at, j.todo, j.found, j.clean, j.promoted)
  <2>1. PICK at \in {"putGrants", "putHead"} :
          Becomes(p, [j EXCEPT !.at = at]) /\ j.at \in {"putPromoted", "putGrants"}
    BY <1>7 DEF PutPromoted, PutGrants, Put, At
  <2>2. QED
    BY <1>1, <2>1, SetAtShape, Turning
<1>8. ASSUME PutHead(p) \/ Fails(p)
      PROVE  OthersKept(p) /\ j.at # "idle" /\ job'[p].at = "idle"
  <2>1. Becomes(p, Idle) /\ j.at # "idle"
    BY <1>8 DEF PutHead, Fails, At
  <2>2. Shape(Idle, "idle", Idle.todo, Idle.found, Idle.clean, Idle.promoted)
    BY IdleIsJob DEF Shape
  <2>3. QED
    BY <2>1, <2>2, Turning
<1>9. QED
  BY <1>2, <1>3, <1>4, <1>5, <1>6, <1>7, <1>8

\* What they leave alone.
LEMMA TurnsKeep ==
  ASSUME NEW p \in Jobs,
         \/ Start(p) \/ Collect(p) \/ Promote(p) \/ ReadGrants(p) \/ Truncate(p) \/ WriteState(p)
         \/ ReadBytes(p) \/ PutPromoted(p) \/ PutGrants(p) \/ PutHead(p) \/ Fails(p)
  PROVE  /\ UNCHANGED <<artifacts, candidates, promoted, store>>
         /\ ~Start(p) => UNCHANGED overlapped
  BY DEF Start, Collect, Promote, ReadGrants, Truncate, WriteState, ReadBytes, PutPromoted, PutGrants,
         Put, PutHead, Fails, Local, files

LEMMA FlushStep ==
  ASSUME TypeInv, NEW S, NEW file \in Seq(Pieces(S)), NEW p \in Jobs,
         NEW todo \in Seq(ToWrite(S, p)), Lined(todo), todo = job[p].todo, job[p].at # "idle",
         NEW new, NEW next, Flush(p, file, new, next)
  PROVE  /\ new \in Seq(Pieces(S)) /\ OthersKept(p)
         /\ \/ /\ Longer(file, todo, new)
               /\ \/ job'[p].at = "idle"
                  \/ Shape(job'[p], next, <<>>, job[p].found, job[p].clean, job[p].promoted)
            \/ \E todo2 \in Seq(ToWrite(S, p)) :
                 /\ CutShort(file, todo, new, todo2, p) /\ Lined(todo2)
                 /\ Shape(job'[p], job[p].at, todo2, job[p].found, job[p].clean, job[p].promoted)
<1> DEFINE j == job[p]
<1>1. IsJob(j)
  BY DEF TypeInv
<1>2. /\ new \in Seq(Pieces(S))
      /\ \/ /\ Longer(file, todo, new)
            /\ Becomes(p, [j EXCEPT !.at = next, !.todo = <<>>])
         \/ \E todo2 \in Seq(ToWrite(S, p)) :
              /\ CutShort(file, todo, new, todo2, p) /\ Lined(todo2)
              /\ Becomes(p, [j EXCEPT !.todo = todo2])
  BY FlushFacts
<1>3. CASE Longer(file, todo, new) /\ Becomes(p, [j EXCEPT !.at = next, !.todo = <<>>])
  <2>1. Shape([j EXCEPT !.at = next, !.todo = <<>>], next, <<>>, j.found, j.clean, j.promoted)
    BY <1>1, SetAtTodoShape
  <2>2. /\ OthersKept(p)
        /\ next = "idle" => job'[p].at = "idle"
        /\ next # "idle" => Shape(job'[p], next, <<>>, j.found, j.clean, j.promoted)
    BY <1>3, <2>1, Turning
  <2>3. QED
    BY <1>2, <1>3, <2>2
<1>4. ASSUME NEW todo2 \in Seq(ToWrite(S, p)), Becomes(p, [j EXCEPT !.todo = todo2])
      PROVE  OthersKept(p) /\ Shape(job'[p], j.at, todo2, j.found, j.clean, j.promoted)
  <2>1. Shape([j EXCEPT !.todo = todo2], j.at, todo2, j.found, j.clean, j.promoted)
    BY <1>1, SetTodoShape
  <2>2. OthersKept(p) /\ Shape(job'[p], j.at, todo2, j.found, j.clean, j.promoted)
    BY <1>4, <2>1, Turning
  <2>3. QED
    BY <2>2
<1>5. QED
  BY <1>2, <1>3, <1>4

LEMMA AppendSteps ==
  ASSUME TypeInv, LineInv, NEW p \in Jobs
  PROVE  /\ AppendCandidates(p) =>
              /\ UNCHANGED <<artifacts, promoted, store, overlapped>>
              /\ candidates' \in Seq(Pieces(artifacts)) /\ OthersKept(p)
              /\ job[p].at = "candidates"
              /\ \/ /\ Longer(candidates, job[p].todo, candidates')
                    /\ \/ job'[p].at = "idle"
                       \/ Shape(job'[p], "promote", <<>>, job[p].found, job[p].clean, job[p].promoted)
                 \/ \E todo2 \in Seq(ToWrite(artifacts, p)) :
                      /\ CutShort(candidates, job[p].todo, candidates', todo2, p) /\ Lined(todo2)
                      /\ Shape(job'[p], "candidates", todo2, job[p].found, job[p].clean, job[p].promoted)
         /\ AppendPromotions(p) =>
              /\ UNCHANGED <<artifacts, candidates, store, overlapped>>
              /\ promoted' \in Seq(Pieces(Promotable)) /\ OthersKept(p)
              /\ job[p].at = "promotions"
              /\ \/ /\ Longer(promoted, job[p].todo, promoted')
                    /\ \/ job'[p].at = "idle"
                       \/ Shape(job'[p], "grants", <<>>, job[p].found, job[p].clean, job[p].promoted)
                 \/ \E todo2 \in Seq(ToWrite(Promotable, p)) :
                      /\ CutShort(promoted, job[p].todo, promoted', todo2, p) /\ Lined(todo2)
                      /\ Shape(job'[p], "promotions", todo2, job[p].found, job[p].clean, job[p].promoted)
<1> DEFINE j == job[p]
<1>1. ASSUME AppendCandidates(p)
      PROVE  /\ UNCHANGED <<artifacts, promoted, store, overlapped>>
             /\ candidates' \in Seq(Pieces(artifacts)) /\ OthersKept(p)
             /\ j.at = "candidates"
             /\ \/ /\ Longer(candidates, j.todo, candidates')
                   /\ \/ job'[p].at = "idle"
                      \/ Shape(job'[p], "promote", <<>>, j.found, j.clean, j.promoted)
                \/ \E todo2 \in Seq(ToWrite(artifacts, p)) :
                     /\ CutShort(candidates, j.todo, candidates', todo2, p) /\ Lined(todo2)
                     /\ Shape(job'[p], "candidates", todo2, j.found, j.clean, j.promoted)
  <2> DEFINE next == Goto(p, "promote", "index")
  <2>1. /\ UNCHANGED <<artifacts, promoted, store, overlapped>> /\ j.at = "candidates"
        /\ Flush(p, candidates, candidates', next)
    BY <1>1 DEF AppendCandidates, Local, At
  <2>2. next = "promote" \/ next = "idle"
    BY DEF Goto
  <2>3. candidates \in Seq(Pieces(artifacts)) /\ j.todo \in Seq(ToWrite(artifacts, p)) /\ Lined(j.todo)
    BY <2>1 DEF LineInv
  <2> HIDE DEF next
  <2>4. /\ candidates' \in Seq(Pieces(artifacts)) /\ OthersKept(p)
        /\ \/ /\ Longer(candidates, j.todo, candidates')
              /\ \/ job'[p].at = "idle"
                 \/ Shape(job'[p], next, <<>>, j.found, j.clean, j.promoted)
           \/ \E todo2 \in Seq(ToWrite(artifacts, p)) :
                /\ CutShort(candidates, j.todo, candidates', todo2, p) /\ Lined(todo2)
                /\ Shape(job'[p], j.at, todo2, j.found, j.clean, j.promoted)
    BY <2>1, <2>3, FlushStep
  <2>5. next = "idle" /\ Shape(job'[p], next, <<>>, j.found, j.clean, j.promoted) => job'[p].at = "idle"
    BY DEF Shape
  <2>6. QED
    BY <2>1, <2>2, <2>4, <2>5
<1>2. ASSUME AppendPromotions(p)
      PROVE  /\ UNCHANGED <<artifacts, candidates, store, overlapped>>
             /\ promoted' \in Seq(Pieces(Promotable)) /\ OthersKept(p)
             /\ j.at = "promotions"
             /\ \/ /\ Longer(promoted, j.todo, promoted')
                   /\ \/ job'[p].at = "idle"
                      \/ Shape(job'[p], "grants", <<>>, j.found, j.clean, j.promoted)
                \/ \E todo2 \in Seq(ToWrite(Promotable, p)) :
                     /\ CutShort(promoted, j.todo, promoted', todo2, p) /\ Lined(todo2)
                     /\ Shape(job'[p], "promotions", todo2, j.found, j.clean, j.promoted)
  <2> DEFINE next == Goto(p, "grants", "promote")
  <2>1. /\ UNCHANGED <<artifacts, candidates, store, overlapped>> /\ j.at = "promotions"
        /\ Flush(p, promoted, promoted', next)
    BY <1>2 DEF AppendPromotions, Local, At
  <2>2. next = "grants" \/ next = "idle"
    BY DEF Goto
  <2>3. promoted \in Seq(Pieces(Promotable)) /\ j.todo \in Seq(ToWrite(Promotable, p)) /\ Lined(j.todo)
    BY <2>1 DEF LineInv
  <2> HIDE DEF next
  <2>4. /\ promoted' \in Seq(Pieces(Promotable)) /\ OthersKept(p)
        /\ \/ /\ Longer(promoted, j.todo, promoted')
              /\ \/ job'[p].at = "idle"
                 \/ Shape(job'[p], next, <<>>, j.found, j.clean, j.promoted)
           \/ \E todo2 \in Seq(ToWrite(Promotable, p)) :
                /\ CutShort(promoted, j.todo, promoted', todo2, p) /\ Lined(todo2)
                /\ Shape(job'[p], j.at, todo2, j.found, j.clean, j.promoted)
    BY <2>1, <2>3, FlushStep
  <2>5. next = "idle" /\ Shape(job'[p], next, <<>>, j.found, j.clean, j.promoted) => job'[p].at = "idle"
    BY DEF Shape
  <2>6. QED
    BY <2>1, <2>2, <2>4, <2>5
<1>3. QED
  BY <1>1, <1>2

LEMMA HeldRows ==
  ASSUME NEW S, NEW file \in Seq(Pieces(S))
  PROVE  Holds(file) \subseteq S
<1>1. \A i \in Rows(file) : file[i] \in Pieces(S)
  BY ElementOfSeq DEF Rows
<1>2. QED
  BY <1>1 DEF Holds, Pieces

LEMMA MoreKnown ==
  ASSUME NEW S, NEW T, S \subseteq T
  PROVE  /\ \A file \in Seq(Pieces(S)) : file \in Seq(Pieces(T))
         /\ \A p : \A todo \in Seq(ToWrite(S, p)) : todo \in Seq(ToWrite(T, p))
<1>1. Pieces(S) \subseteq Pieces(T) /\ \A p : ToWrite(S, p) \subseteq ToWrite(T, p)
  BY DEF Pieces, ToWrite
<1>2. QED
  BY <1>1, SeqMonotonic

LEMMA LineStep == TypeInv /\ LineInv /\ [Next]_vars => LineInv'
<1> SUFFICES ASSUME TypeInv, LineInv, [Next]_vars PROVE LineInv'
  OBVIOUS
<1>1. ASSUME UNCHANGED <<artifacts, candidates, promoted, store, job>>
      PROVE  LineInv'
  BY <1>1 DEF LineInv, Promotable
<1>2. ASSUME NEW p \in Jobs, UNCHANGED <<artifacts, store>>, OthersKept(p),
             candidates' \in Seq(Pieces(artifacts)), promoted' \in Seq(Pieces(Promotable)),
             job'[p].at = "candidates" => job'[p].todo \in Seq(ToWrite(artifacts, p)) /\ Lined(job'[p].todo),
             job'[p].at = "promotions" => job'[p].todo \in Seq(ToWrite(Promotable, p)) /\ Lined(job'[p].todo)
      PROVE  LineInv'
  <2>1. Promotable' = Promotable
    BY <1>2 DEF Promotable
  <2>2. \A q \in Jobs :
       /\ job'[q].at = "candidates" =>
            job'[q].todo \in Seq(ToWrite(artifacts, q)) /\ Lined(job'[q].todo)
       /\ job'[q].at = "promotions" =>
            job'[q].todo \in Seq(ToWrite(Promotable, q)) /\ Lined(job'[q].todo)
    BY <1>2 DEF LineInv, OthersKept
  <2>3. artifacts' = artifacts /\ store' = store /\ artifacts \subseteq 1..Len(Artifacts)
        /\ store \subseteq Promotable
    BY <1>2 DEF LineInv
  <2>4. QED
    BY <1>2, <2>1, <2>2, <2>3 DEF LineInv
<1>3. ASSUME NEW p \in Jobs, UNCHANGED <<artifacts, candidates, promoted, store>>, OthersKept(p),
             job'[p].at \notin {"candidates", "promotions"}
      PROVE  LineInv'
  <2>1. candidates' \in Seq(Pieces(artifacts)) /\ promoted' \in Seq(Pieces(Promotable))
    BY <1>3 DEF LineInv
  <2>2. QED
    BY <1>2, <1>3, <2>1
<1>4. ASSUME NEW p \in Jobs, \/ Start(p) \/ ReadGrants(p) \/ Truncate(p) \/ WriteState(p)
                             \/ ReadBytes(p) \/ PutPromoted(p) \/ PutGrants(p) \/ PutHead(p) \/ Fails(p)
      PROVE  LineInv'
  <2>1. UNCHANGED <<artifacts, candidates, promoted, store>>
    BY <1>4, TurnsKeep
  <2>2. OthersKept(p) /\ job'[p].at \notin {"candidates", "promotions"}
    BY <1>4, TurnSteps DEF Shape
  <2>3. QED
    BY <1>3, <2>1, <2>2
<1>5. ASSUME NEW p \in Jobs, Collect(p)
      PROVE  LineInv'
  <2> DEFINE todo == Lines(NewCandidates, p)
  <2>1. UNCHANGED <<artifacts, candidates, promoted, store>>
    BY <1>5, TurnsKeep
  <2>2. OthersKept(p) /\ job'[p].at = "candidates" /\ job'[p].todo = todo
    BY <1>5, TurnSteps DEF Shape
  <2>3. todo \in Seq(ToWrite(artifacts, p)) /\ Lined(todo)
    BY CollectFacts DEF Lined
  <2> HIDE DEF todo
  <2>4. candidates' \in Seq(Pieces(artifacts)) /\ promoted' \in Seq(Pieces(Promotable))
    BY <2>1 DEF LineInv
  <2>5. QED
    BY <1>2, <2>1, <2>2, <2>3, <2>4
<1>6. ASSUME NEW p \in Jobs, Promote(p)
      PROVE  LineInv'
  <2> DEFINE todo == Lines(NewPromotions, p)
  <2>1. UNCHANGED <<artifacts, candidates, promoted, store>>
    BY <1>6, TurnsKeep
  <2>2. OthersKept(p) /\ job'[p].at = "promotions" /\ job'[p].todo = todo
    BY <1>6, TurnSteps DEF Shape
  <2>3. todo \in Seq(ToWrite(Promotable, p)) /\ Lined(todo)
    BY PromoteFacts DEF Lined
  <2> HIDE DEF todo
  <2>4. candidates' \in Seq(Pieces(artifacts)) /\ promoted' \in Seq(Pieces(Promotable))
    BY <2>1 DEF LineInv
  <2>5. QED
    BY <1>2, <2>1, <2>2, <2>3, <2>4
<1>7. ASSUME NEW p \in Jobs, AppendCandidates(p)
      PROVE  LineInv'
  <2>1. /\ UNCHANGED <<artifacts, promoted, store>> /\ OthersKept(p)
        /\ candidates' \in Seq(Pieces(artifacts))
        /\ \/ job'[p].at \in {"idle", "promote"}
           \/ /\ job'[p].at = "candidates"
              /\ job'[p].todo \in Seq(ToWrite(artifacts, p)) /\ Lined(job'[p].todo)
    BY <1>7, AppendSteps DEF Shape
  <2>2. promoted' \in Seq(Pieces(Promotable))
    BY <2>1 DEF LineInv
  <2>3. QED
    BY <1>2, <2>1, <2>2
<1>8. ASSUME NEW p \in Jobs, AppendPromotions(p)
      PROVE  LineInv'
  <2>1. /\ UNCHANGED <<artifacts, candidates, store>> /\ OthersKept(p)
        /\ promoted' \in Seq(Pieces(Promotable))
        /\ \/ job'[p].at \in {"idle", "grants"}
           \/ /\ job'[p].at = "promotions"
              /\ job'[p].todo \in Seq(ToWrite(Promotable, p)) /\ Lined(job'[p].todo)
    BY <1>8, AppendSteps DEF Shape
  <2>2. candidates' \in Seq(Pieces(artifacts))
    BY <2>1 DEF LineInv
  <2>3. QED
    BY <1>2, <2>1, <2>2
<1>9. ASSUME Research
      PROVE  LineInv'
  <2>1. /\ UNCHANGED <<candidates, promoted, store, job>>
        /\ artifacts \subseteq artifacts' /\ artifacts' \subseteq 1..Len(Artifacts)
    BY <1>9 DEF Research, files, LineInv
  <2>2. Promotable \subseteq Promotable'
    BY <2>1 DEF Promotable
  <2>3. candidates \in Seq(Pieces(artifacts')) /\ promoted \in Seq(Pieces(Promotable'))
    BY <2>1, <2>2, MoreKnown DEF LineInv
  <2>4. ASSUME NEW p \in Jobs
        PROVE  /\ job[p].at = "candidates" =>
                    job[p].todo \in Seq(ToWrite(artifacts', p)) /\ Lined(job[p].todo)
               /\ job[p].at = "promotions" =>
                    job[p].todo \in Seq(ToWrite(Promotable', p)) /\ Lined(job[p].todo)
    BY <2>1, <2>2, MoreKnown DEF LineInv
  <2>5. store \subseteq Promotable'
    BY <2>2 DEF LineInv
  <2>6. QED
    BY <2>1, <2>3, <2>4, <2>5 DEF LineInv
<1>10. ASSUME Ingest
       PROVE  LineInv'
  <2>1. UNCHANGED <<artifacts, candidates, promoted, job>> /\ store' = store \cup Holds(promoted)
    BY <1>10 DEF Ingest, files
  <2>2. Holds(promoted) \subseteq Promotable
    BY HeldRows DEF LineInv
  <2>3. Promotable' = Promotable
    BY <2>1 DEF Promotable
  <2>4. store' \subseteq Promotable'
    BY <2>1, <2>2, <2>3 DEF LineInv
  <2>5. QED
    BY <2>1, <2>3, <2>4 DEF LineInv
<1>11. ASSUME AppendGrant \/ Tick \/ UNCHANGED vars
       PROVE  LineInv'
  <2>1. UNCHANGED <<artifacts, candidates, promoted, store, job>>
    BY <1>11 DEF AppendGrant, Tick, vars, files, Local
  <2>2. QED
    BY <1>1, <2>1
<1>12. QED
  BY <1>4, <1>5, <1>6, <1>7, <1>8, <1>9, <1>10, <1>11 DEF Next, JobStep

\* While no jobs have overlapped, the job that makes a step is alone.
LEMMA AloneNow ==
  ASSUME TypeInv, LineInv, AloneInv, NEW p \in Jobs, JobStep(p), ~overlapped'
  PROVE  ~overlapped /\ OthersKept(p) /\ \A q \in Jobs : q # p => job[q].at = "idle" /\ job'[q].at = "idle"
<1>1. OthersKept(p)
  BY TurnSteps, AppendSteps DEF JobStep
<1>2. CASE Start(p)
  BY <1>1, <1>2 DEF Start, TypeInv, OthersKept
<1>3. CASE ~Start(p)
  <2>1. UNCHANGED overlapped
    BY <1>3, TurnsKeep, AppendSteps DEF JobStep
  <2>2. job[p].at # "idle"
    <3>1. CASE AppendCandidates(p) \/ AppendPromotions(p)
      BY <3>1, AppendSteps
    <3>2. CASE ~(AppendCandidates(p) \/ AppendPromotions(p))
      BY <1>3, <3>2, TurnSteps DEF JobStep
    <3>3. QED
      BY <3>1, <3>2
  <2>3. QED
    BY <1>1, <2>1, <2>2 DEF AloneInv, OthersKept
<1>4. QED
  BY <1>2, <1>3

LEMMA RepeatStep ==
  TypeInv /\ LineInv /\ AloneInv /\ RepeatInv /\ [Next]_vars => RepeatInv'
<1> SUFFICES ASSUME TypeInv, LineInv, AloneInv, RepeatInv, [Next]_vars, ~overlapped' PROVE RepeatInv'
  BY DEF RepeatInv
<1>1. ASSUME UNCHANGED <<promoted, job, overlapped>>
      PROVE  RepeatInv'
  BY <1>1 DEF RepeatInv
<1>2. ASSUME NEW p \in Jobs, JobStep(p), Unique(promoted'),
             job'[p].at = "promotions" => Adds(promoted', job'[p].todo)
      PROVE  RepeatInv'
  BY <1>2, AloneNow DEF RepeatInv
<1>3. ASSUME NEW p \in Jobs, JobStep(p), UNCHANGED promoted, job'[p].at # "promotions"
      PROVE  RepeatInv'
  <2>1. Unique(promoted)
    BY <1>3, AloneNow DEF RepeatInv
  <2>2. QED
    BY <1>2, <1>3, <2>1
<1>4. ASSUME NEW p \in Jobs, \/ Start(p) \/ Collect(p) \/ ReadGrants(p) \/ Truncate(p) \/ WriteState(p)
                             \/ ReadBytes(p) \/ PutPromoted(p) \/ PutGrants(p) \/ PutHead(p) \/ Fails(p)
      PROVE  RepeatInv'
  <2>1. UNCHANGED promoted
    BY <1>4, TurnsKeep
  <2>2. job'[p].at # "promotions"
    BY <1>4, TurnSteps DEF Shape
  <2>3. QED
    BY <1>3, <1>4, <2>1, <2>2 DEF JobStep
<1>5. ASSUME NEW p \in Jobs, AppendCandidates(p)
      PROVE  RepeatInv'
  <2>1. UNCHANGED promoted /\ job'[p].at # "promotions"
    BY <1>5, AppendSteps DEF Shape
  <2>2. QED
    BY <1>3, <1>5, <2>1 DEF JobStep
<1>6. ASSUME NEW p \in Jobs, Promote(p)
      PROVE  RepeatInv'
  <2> DEFINE todo == Lines(NewPromotions, p)
  <2>1. UNCHANGED promoted /\ job'[p].todo = todo
    BY <1>6, TurnSteps, TurnsKeep DEF Shape
  <2>2. /\ \A k \in 1..Len(todo) : todo[k].part = "whole" /\ todo[k].row \notin Holds(promoted)
        /\ \A i, k \in 1..Len(todo) : todo[i].row = todo[k].row => i = k
    BY PromoteFacts
  <2> HIDE DEF todo
  <2>3. Adds(promoted, todo)
    BY <2>2 DEF Adds, Holds
  <2>4. Unique(promoted)
    BY <1>6, AloneNow DEF RepeatInv, JobStep
  <2>5. QED
    BY <1>2, <1>6, <2>1, <2>3, <2>4 DEF JobStep
<1>7. ASSUME NEW p \in Jobs, AppendPromotions(p)
      PROVE  RepeatInv'
  <2> DEFINE todo == job[p].todo
  <2>1. /\ job[p].at = "promotions"
        /\ \/ Longer(promoted, todo, promoted') /\ job'[p].at # "promotions"
           \/ CutShort(promoted, todo, promoted', job'[p].todo, p)
    BY <1>7, AppendSteps DEF Shape
  <2>2. Unique(promoted) /\ Adds(promoted, todo)
    BY <1>7, <2>1, AloneNow DEF RepeatInv, JobStep
  <2>3. Lined(todo) /\ Len(todo) \in Nat
    BY <2>1 DEF LineInv
  <2> HIDE DEF todo
  <2>4. CASE Longer(promoted, todo, promoted') /\ job'[p].at # "promotions"
    <3>1. Unique(promoted')
      BY <2>2, <2>3, <2>4, AddedWhole
    <3>2. QED
      BY <1>2, <1>7, <2>4, <3>1 DEF JobStep
  <2>5. CASE CutShort(promoted, todo, promoted', job'[p].todo, p)
    <3>1. PICK n \in 0..Len(todo)-1, part \in {"start", "json"} : \E out :
            /\ todo[n+1].part = "whole"
            /\ Written(todo, n, part, p, out) /\ Longer(promoted, out, promoted')
            /\ Remains(todo, n, p, job'[p].todo)
      BY <2>5 DEF CutShort
    <3>2. Unique(promoted') /\ Adds(promoted', job'[p].todo)
      BY <2>2, <2>3, <3>1, AddedCut
    <3>3. QED
      BY <1>2, <1>7, <3>2 DEF JobStep
  <2>6. QED
    BY <2>1, <2>4, <2>5
<1>8. ASSUME Research \/ AppendGrant \/ Ingest \/ Tick \/ UNCHANGED vars
      PROVE  RepeatInv'
  <2>1. UNCHANGED <<promoted, job, overlapped>>
    BY <1>8 DEF Research, AppendGrant, Ingest, Tick, vars, files, Local
  <2>2. QED
    BY <1>1, <2>1
<1>9. QED
  BY <1>4, <1>5, <1>6, <1>7, <1>8 DEF Next, JobStep

LEMMA FoundStep ==
  TypeInv /\ LineInv /\ AloneInv /\ FoundInv /\ [Next]_vars => FoundInv'
<1> SUFFICES ASSUME TypeInv, LineInv, AloneInv, FoundInv, [Next]_vars, ~overlapped' PROVE FoundInv'
  BY DEF FoundInv
<1>1. ASSUME UNCHANGED <<candidates, promoted, job, overlapped>>
      PROVE  FoundInv'
  <2>1. \A p \in Jobs : Complete(job[p])' = Complete(job[p])
    BY <1>1 DEF Complete, Tells, Exemplars, Artifact
  <2>2. QED
    BY <1>1, <2>1 DEF FoundInv
<1>2. ASSUME NEW p \in Jobs, JobStep(p), job'[p].clean /\ job'[p].at # "idle" => Complete(job[p])'
      PROVE  FoundInv'
  BY <1>2, AloneNow DEF FoundInv
<1>3. ASSUME NEW p \in Jobs, JobStep(p), job[p].at # "idle", job[p].clean
      PROVE  Complete(job[p])
  BY <1>3, AloneNow DEF FoundInv
<1>4. ASSUME UNCHANGED candidates
      PROVE  Exemplars' = Exemplars /\ \A k : Artifact(k)' = Artifact(k)
  BY <1>4 DEF Exemplars, Artifact
<1>5. ASSUME NEW p \in Jobs, Start(p)
      PROVE  FoundInv'
  <2>1. UNCHANGED <<candidates, promoted>>
    BY <1>5, TurnsKeep
  <2>2. /\ job'[p].at \in {"collect", "promote", "grants"} /\ job'[p].found = {}
        /\ job'[p].clean = (Whole(candidates) /\ Whole(promoted))
    BY <1>5, TurnSteps DEF Shape
  <2>3. job'[p].clean => Complete(job[p])'
    BY <2>1, <2>2 DEF Complete
  <2>4. QED
    BY <1>2, <1>5, <2>3 DEF JobStep
<1>6. ASSUME NEW p \in Jobs, Collect(p)
      PROVE  FoundInv'
  <2> DEFINE todo == Lines(NewCandidates, p)
  <2>1. UNCHANGED <<candidates, promoted>>
    BY <1>6, TurnsKeep
  <2>2. /\ job[p].at = "collect" /\ job'[p].at = "candidates" /\ job'[p].todo = todo
        /\ job'[p].found = artifacts /\ job'[p].clean = job[p].clean
    BY <1>6, TurnSteps DEF Shape
  <2>3. /\ Len(todo) \in Nat
        /\ \A k \in 1..Len(todo) : todo[k].part = "whole"
        /\ \A i \in artifacts : i \in Holds(candidates) \cup RowsIn(todo)
    BY CollectFacts
  <2> HIDE DEF todo
  <2>4. ASSUME job'[p].clean PROVE Complete(job[p])'
    <3>1. Whole(candidates) /\ Whole(promoted)
      BY <1>3, <1>6, <2>2, <2>4 DEF Complete, JobStep
    <3>2. Ready(candidates, todo)
      BY <2>3, <3>1 DEF Ready
    <3>3. QED
      BY <2>1, <2>2, <2>3, <3>1, <3>2 DEF Complete, PutPhases
  <2>5. QED
    BY <1>2, <1>6, <2>4 DEF JobStep
<1>7. ASSUME NEW p \in Jobs, AppendCandidates(p)
      PROVE  FoundInv'
  <2> DEFINE todo == job[p].todo
             left2 == job'[p].todo
  <2>1. /\ job[p].at = "candidates" /\ UNCHANGED promoted
        /\ todo \in Seq(ToWrite(artifacts, p)) /\ Lined(todo)
    BY <1>7, AppendSteps DEF LineInv
  <2>2. \/ Longer(candidates, todo, candidates')
           /\ (job'[p].at = "idle" \/ (/\ job'[p].at = "promote" /\ job'[p].found = job[p].found
                                       /\ job'[p].clean = job[p].clean))
        \/ /\ CutShort(candidates, todo, candidates', left2, p)
           /\ job'[p].at = "candidates" /\ job'[p].found = job[p].found
           /\ job'[p].clean = job[p].clean
    BY <1>7, AppendSteps DEF Shape
  <2>3. ASSUME job'[p].clean, job'[p].at # "idle" PROVE Complete(job[p])'
    <3>1. job[p].clean
      BY <2>2, <2>3
    <3>2. /\ Ready(candidates, todo) /\ Whole(promoted)
          /\ job[p].found \subseteq Holds(candidates) \cup RowsIn(todo)
      BY <1>3, <1>7, <2>1, <3>1 DEF Complete, JobStep
    <3> HIDE DEF todo, left2
    <3>3. CASE Longer(candidates, todo, candidates') /\ job'[p].at = "promote" /\ job'[p].found = job[p].found
      <4>1. job[p].found \subseteq Holds(candidates')
        BY <2>1, <3>2, <3>3, ReadyWhole
      <4>2. QED
        BY <2>1, <3>2, <3>3, <4>1 DEF Complete, PutPhases
    <3>4. CASE /\ CutShort(candidates, todo, candidates', left2, p)
               /\ job'[p].at = "candidates" /\ job'[p].found = job[p].found
      <4>1. /\ Holds(candidates) \subseteq Holds(candidates')
            /\ RowsIn(todo) \subseteq Holds(candidates') \cup RowsIn(left2)
            /\ Ready(candidates', left2)
        BY <2>1, <3>2, <3>4, ReadyCut DEF CutShort
      <4>2. job[p].found \subseteq Holds(candidates') \cup RowsIn(left2)
        BY <3>2, <4>1
      <4>3. QED
        BY <2>1, <3>2, <3>4, <4>1, <4>2 DEF Complete, PutPhases, left2
    <3>5. QED
      BY <2>2, <2>3, <3>3, <3>4
  <2>4. QED
    BY <1>2, <1>7, <2>3 DEF JobStep
<1>8. ASSUME NEW p \in Jobs, Promote(p)
      PROVE  FoundInv'
  <2> DEFINE todo == Lines(NewPromotions, p)
  <2>1. UNCHANGED <<candidates, promoted>>
    BY <1>8, TurnsKeep
  <2>2. /\ job[p].at = "promote" /\ job'[p].at = "promotions" /\ job'[p].todo = todo
        /\ job'[p].found = job[p].found /\ job'[p].clean = job[p].clean
    BY <1>8, TurnSteps DEF Shape
  <2>3. /\ Len(todo) \in Nat
        /\ \A k \in 1..Len(todo) : todo[k].part = "whole"
        /\ \A k \in Exemplars : Artifact(k).good =>
             Artifact(k).content \in Holds(promoted) \cup RowsIn(todo)
    BY PromoteFacts
  <2> HIDE DEF todo
  <2>4. ASSUME job'[p].clean PROVE Complete(job[p])'
    <3>1. Whole(promoted) /\ job[p].found \subseteq Holds(candidates)
      BY <1>3, <1>8, <2>2, <2>4 DEF Complete, JobStep
    <3>2. Ready(promoted, todo)
      BY <2>3, <3>1 DEF Ready
    <3>3. \A i \in job'[p].found : Tells(i, Holds(promoted) \cup RowsIn(job[p].todo))'
      BY <1>4, <2>1, <2>2, <2>3 DEF Tells
    <3>4. QED
      BY <2>1, <2>2, <3>1, <3>2, <3>3 DEF Complete, PutPhases
  <2>5. QED
    BY <1>2, <1>8, <2>4 DEF JobStep
<1>9. ASSUME NEW p \in Jobs, AppendPromotions(p)
      PROVE  FoundInv'
  <2> DEFINE todo == job[p].todo
             left2 == job'[p].todo
  <2>1. /\ job[p].at = "promotions" /\ UNCHANGED candidates
        /\ todo \in Seq(ToWrite(Promotable, p)) /\ Lined(todo)
    BY <1>9, AppendSteps DEF LineInv
  <2>2. \/ Longer(promoted, todo, promoted')
           /\ (job'[p].at = "idle" \/ (/\ job'[p].at = "grants" /\ job'[p].found = job[p].found
                                       /\ job'[p].clean = job[p].clean))
        \/ /\ CutShort(promoted, todo, promoted', left2, p)
           /\ job'[p].at = "promotions" /\ job'[p].found = job[p].found
           /\ job'[p].clean = job[p].clean
    BY <1>9, AppendSteps DEF Shape
  <2>3. ASSUME job'[p].clean, job'[p].at # "idle" PROVE Complete(job[p])'
    <3>1. job[p].clean
      BY <2>2, <2>3
    <3>2. /\ Ready(promoted, todo)
          /\ \A i \in job[p].found : i \in Holds(candidates) /\ Tells(i, Holds(promoted) \cup RowsIn(todo))
      BY <1>3, <1>9, <2>1, <3>1 DEF Complete, JobStep
    <3>3. job'[p].found = job[p].found
      BY <2>2, <2>3
    <3>4. \A i \in job'[p].found : i \in Holds(candidates')
      BY <2>1, <3>2, <3>3
    <3> HIDE DEF todo, left2
    <3>5. CASE Longer(promoted, todo, promoted') /\ job'[p].at = "grants"
      <4>1. Holds(promoted) \cup RowsIn(todo) \subseteq Holds(promoted')
        BY <2>1, <3>2, <3>5, ReadyWhole
      <4>2. \A i \in job'[p].found : Tells(i, Holds(promoted))'
        BY <1>4, <2>1, <3>2, <3>3, <4>1 DEF Tells
      <4>3. QED
        BY <3>4, <3>5, <4>2 DEF Complete, PutPhases
    <3>6. CASE CutShort(promoted, todo, promoted', left2, p) /\ job'[p].at = "promotions"
      <4>1. /\ Holds(promoted) \subseteq Holds(promoted')
            /\ RowsIn(todo) \subseteq Holds(promoted') \cup RowsIn(left2)
            /\ Ready(promoted', left2)
        BY <2>1, <3>2, <3>6, ReadyCut DEF CutShort
      <4>2. \A i \in job'[p].found : Tells(i, Holds(promoted) \cup RowsIn(job[p].todo))'
        <5>1. Holds(promoted) \cup RowsIn(todo) \subseteq Holds(promoted') \cup RowsIn(left2)
          BY <4>1
        <5>2. QED
          BY <1>4, <2>1, <3>2, <3>3, <5>1 DEF Tells, left2
      <4>3. QED
        BY <3>4, <3>6, <4>1, <4>2 DEF Complete, PutPhases, left2
    <3>7. QED
      BY <2>2, <2>3, <3>5, <3>6
  <2>4. QED
    BY <1>2, <1>9, <2>3 DEF JobStep
<1>10. ASSUME NEW p \in Jobs, ReadGrants(p) \/ Truncate(p) \/ WriteState(p)
       PROVE  FoundInv'
  <2>1. UNCHANGED <<candidates, promoted>>
    BY <1>10, TurnsKeep
  <2>2. /\ job[p].at \in {"grants", "truncate", "write"}
        /\ \/ job'[p].at = "idle"
           \/ /\ job'[p].at \in {"truncate", "write", "bytes"}
              /\ job'[p].found = job[p].found /\ job'[p].clean = job[p].clean
    BY <1>10, TurnSteps DEF Shape
  <2>3. ASSUME job'[p].clean, job'[p].at # "idle" PROVE Complete(job[p])'
    <3>1. \A i \in job[p].found : i \in Holds(candidates) /\ Tells(i, Holds(promoted))
      BY <1>3, <1>10, <2>2, <2>3 DEF Complete, JobStep
    <3>2. \A i \in job'[p].found : i \in Holds(candidates') /\ Tells(i, Holds(promoted))'
      BY <1>4, <2>1, <2>2, <2>3, <3>1 DEF Tells
    <3>3. QED
      BY <2>2, <2>3, <3>2 DEF Complete, PutPhases
  <2>4. QED
    BY <1>2, <1>10, <2>3 DEF JobStep
<1>11. ASSUME NEW p \in Jobs, ReadBytes(p)
       PROVE  FoundInv'
  <2>1. UNCHANGED <<candidates, promoted>>
    BY <1>11, TurnsKeep
  <2>2. /\ job[p].at = "bytes" /\ job'[p].at = "putPromoted" /\ job'[p].promoted = promoted
        /\ job'[p].found = job[p].found /\ job'[p].clean = job[p].clean
    BY <1>11, TurnSteps DEF Shape
  <2>3. ASSUME job'[p].clean PROVE Complete(job[p])'
    <3>1. \A i \in job[p].found : i \in Holds(candidates) /\ Tells(i, Holds(promoted))
      BY <1>3, <1>11, <2>2, <2>3 DEF Complete, JobStep
    <3>2. \A i \in job'[p].found : i \in Holds(candidates') /\ Tells(i, Holds(job[p].promoted))'
      BY <1>4, <2>1, <2>2, <3>1 DEF Tells
    <3>3. QED
      BY <2>2, <3>2 DEF Complete, PutPhases
  <2>4. QED
    BY <1>2, <1>11, <2>3 DEF JobStep
<1>12. ASSUME NEW p \in Jobs, PutPromoted(p) \/ PutGrants(p)
       PROVE  FoundInv'
  <2>1. UNCHANGED <<candidates, promoted>>
    BY <1>12, TurnsKeep
  <2>2. /\ job[p].at \in {"putPromoted", "putGrants"} /\ job'[p].at \in {"putGrants", "putHead"}
        /\ job'[p].promoted = job[p].promoted
        /\ job'[p].found = job[p].found /\ job'[p].clean = job[p].clean
    BY <1>12, TurnSteps DEF Shape
  <2>3. ASSUME job'[p].clean PROVE Complete(job[p])'
    <3>1. \A i \in job[p].found : i \in Holds(candidates) /\ Tells(i, Holds(job[p].promoted))
      BY <1>3, <1>12, <2>2, <2>3 DEF Complete, JobStep, PutPhases
    <3>2. \A i \in job'[p].found : i \in Holds(candidates') /\ Tells(i, Holds(job[p].promoted))'
      BY <1>4, <2>1, <2>2, <3>1 DEF Tells
    <3>3. QED
      BY <2>2, <3>2 DEF Complete, PutPhases
  <2>4. QED
    BY <1>2, <1>12, <2>3 DEF JobStep
<1>13. ASSUME NEW p \in Jobs, PutHead(p) \/ Fails(p)
       PROVE  FoundInv'
  <2>1. job'[p].at = "idle"
    BY <1>13, TurnSteps
  <2>2. QED
    BY <1>2, <1>13, <2>1 DEF JobStep
<1>14. ASSUME Research \/ AppendGrant \/ Ingest \/ Tick \/ UNCHANGED vars
       PROVE  FoundInv'
  <2>1. UNCHANGED <<candidates, promoted, job, overlapped>>
    BY <1>14 DEF Research, AppendGrant, Ingest, Tick, vars, files, Local
  <2>2. QED
    BY <1>1, <2>1
<1>15. QED
  BY <1>5, <1>6, <1>7, <1>8, <1>9, <1>10, <1>11, <1>12, <1>13, <1>14 DEF Next, JobStep

LEMMA LinesInit == Init => LineInv /\ RepeatInv /\ FoundInv
<1> SUFFICES ASSUME Init PROVE LineInv /\ RepeatInv /\ FoundInv
  OBVIOUS
<1>1. \A p \in Jobs : job[p].at = "idle"
  BY IdleIsJob DEF Init
<1>2. candidates = <<>> /\ promoted = <<>> /\ artifacts = {} /\ store = {}
  BY DEF Init
<1>3. LineInv
  BY <1>1, <1>2, EmptySeq DEF LineInv
<1>4. Rows(<<>>) = {}
  BY EmptySeq DEF Rows
<1>5. RepeatInv
  BY <1>1, <1>2, <1>4 DEF RepeatInv, Unique
<1>6. FoundInv
  BY <1>1 DEF FoundInv
<1>7. QED
  BY <1>3, <1>5, <1>6

\* Nobody retrieves what no good artifact says, whatever jobs overlap and
\* fail; and as long as none has overlapped, a content is promoted once, and
\* what a job publishes that found whole files has each content it found whose
\* exemplar is good, however many jobs failed and were cut before it.
THEOREM PublishIsExact == Spec => []PublishExact
<1> DEFINE Inv == SharedInv /\ LineInv /\ RepeatInv /\ FoundInv
<1>1. Init => Inv
  BY InitSharedInv, LinesInit
<1>2. Inv /\ [Next]_vars => Inv'
  BY SharedTypeStep, GrantStep, SnapStep, AloneStep, LineStep, RepeatStep, FoundStep DEF SharedInv
<1>3. Inv => PublishExact
  <2> SUFFICES ASSUME SharedInv, LineInv, RepeatInv, FoundInv PROVE PublishExact
    OBVIOUS
  <2>1. ASSUME NEW r \in Readers, NEW c \in Retrieved(r)
        PROVE  \E i \in artifacts : Artifacts[i].content = c /\ Artifacts[i].good
    BY DEF Retrieved, LineInv, Promotable
  <2>2. ~overlapped => \A i, k \in Rows(promoted) : promoted[i].row = promoted[k].row => i = k
    BY DEF RepeatInv, Unique
  <2>3. ASSUME ~overlapped, NEW p \in Jobs, job[p].clean, job[p].at \in PutPhases, NEW i \in job[p].found
        PROVE  \E k \in Exemplars :
                 /\ Artifact(k).content = Artifacts[i].content
                 /\ Artifact(k).good => Artifacts[i].content \in Holds(job[p].promoted)
    <3>1. i \in Holds(candidates) /\ Tells(i, Holds(job[p].promoted))
      BY <2>3 DEF FoundInv, Complete, PutPhases
    <3> DEFINE P == {k \in Rows(candidates) : Artifact(k).content = Artifacts[i].content}
    <3>2. P \subseteq Nat /\ P # {}
      <4>1. PICK k \in Rows(candidates) : candidates[k].row = i
        BY <3>1 DEF Holds
      <4>2. k \in P
        BY <4>1 DEF Artifact
      <4>3. P \subseteq Nat
        BY DEF Rows
      <4>4. QED
        BY <4>2, <4>3
    <3>3. PICK k \in P : \A m \in P : k <= m
      BY <3>2, LeastExists
    <3>4. k \in Exemplars
      <4>1. ASSUME NEW m \in Rows(candidates), m < k, Artifact(m).content = Artifact(k).content
            PROVE  FALSE
        <5>1. m \in P
          BY <4>1
        <5>2. k <= m /\ k \in Nat /\ m \in Nat
          BY <3>2, <3>3, <5>1
        <5>3. QED
          BY <4>1, <5>2
      <4>2. QED
        BY <4>1 DEF Exemplars
    <3>5. QED
      BY <3>1, <3>4 DEF Tells
  <2>4. QED
    BY <2>1, <2>2, <2>3 DEF PublishExact, PutPhases
<1>4. QED
  BY <1>1, <1>2, <1>3, PTL DEF Spec
=============================================================================
