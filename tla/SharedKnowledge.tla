-------------------------- MODULE SharedKnowledge --------------------------
(***************************************************************************)
(* The shared knowledge of a family of ecosystems: tools/index_, promote_, *)
(* publish_, ingest_shared_knowledge.py and materialize_shared_grants.py   *)
(* write it, infra/shared_knowledge.py and agent/state_builder.py decide   *)
(* which agent may read it.                                                *)
(*                                                                         *)
(* The tools are batch jobs that nothing keeps from running at the same    *)
(* time.  They append to candidates.jsonl and promoted.jsonl without a     *)
(* lock, replace grant_state.json in place, and put a snapshot and then    *)
(* HEAD.json, which names the snapshot with its checksums, to S3.  Reads   *)
(* of one job that follow each other are one step.  The optional copies    *)
(* of the candidates and of the grant ledger in a snapshot are left out;   *)
(* a checksum is the content it is taken of.                               *)
(***************************************************************************)
EXTENDS Integers, Sequences, FiniteSets

CONSTANTS
  Artifacts, \* the research artifacts of the family in the order of their
             \* paths: [content, good], good if the quality score suffices
  GrantRows, \* rows an operator may append to the grant ledger: [id, revoked,
             \* enabled, profile, ecosystems, agents]; id None if it is garbled
  Readers,   \* agents that may retrieve: [ecosystem, agent, profile]
  Star,       \* "*" in a list of ecosystems or agents
  MaxAge,    \* shared_knowledge_grant_max_age_sec, in ticks of the clock
  Jobs,      \* processes that run the tools
  None, Torn,
  Budgets    \* bound: starts of jobs, ledger rows, ticks, faults, cut writes, new
             \* artifacts and ingests in a behaviour, and jobs at a time

ASSUME SharedAssumption ==
  /\ MaxAge \in Nat
  /\ Torn \notin [upto : Nat, readAt : Nat, stamp : Nat]
  /\ Len(Artifacts) \in Nat
  /\ \A i \in 1..Len(Artifacts) : Artifacts[i].good \in BOOLEAN
  /\ Budgets \subseteq [starts : Nat, rows : Nat, ticks : Nat, faults : Nat, cuts : Nat,
                 research : Nat, ingests : Nat, width : Nat]

VARIABLES
  clock,      \* seconds
  artifacts,  \* indices of the research artifacts there are
  candidates, \* candidates.jsonl, the pieces of lines in it
  promoted,   \* promoted.jsonl, likewise
  ledger,     \* grant_ledger.jsonl: [row, at], at the time it was appended
  state,      \* grant_state.json: None, Torn, or [upto, readAt, stamp], made
              \* from the first upto rows of the ledger
  objects,    \* S3: the snapshot's objects for each second
  head,       \* S3: HEAD.json
  store,      \* promotions in the vector store
  job,        \* what each job has in memory
  taken,      \* ghost: how many snapshots took a second for their id
  overlapped, \* ghost: whether a job ever started while another was active
  left        \* bound: what is left of the budget

files == <<candidates, promoted, ledger, state>>
vars == <<clock, artifacts, files, objects, head, store, job, taken, overlapped, left>>

Spend(what) == left[what] > 0 /\ left' = [left EXCEPT ![what] = @ - 1]

-----------------------------------------------------------------------------
(* JSONL files that several jobs append to.  A line arrives whole, or its    *)
(* beginning (all but the newline if the part is "json") before its rest.    *)

Piece(row, part, p) == [row |-> row, part |-> part, by |-> p]

Ended(file, i) == i = 0 \/ file[i].part \in {"whole", "rest"}

\* A line is read if nothing else is in it; readers skip what they cannot parse.
IsRow(file, i) ==
  /\ Ended(file, i - 1)
  /\ \/ file[i].part = "whole"
     \/ /\ file[i].part \in {"start", "json"}
        /\ i < Len(file)
        /\ file[i+1].part = "rest" /\ file[i+1].by = file[i].by
     \/ file[i].part = "json" /\ i = Len(file)

Rows(file) == {i \in 1..Len(file) : IsRow(file, i)}

Holds(file) == {file[i].row : i \in Rows(file)}

\* The file after a job wrote n of the lines it has to write, and one more up
\* to the given part; and what it still has to write.
Cut(file, todo, n, part, p) ==
  file \o SubSeq(todo, 1, n) \o <<Piece(todo[n+1].row, part, p)>>
Uncut(todo, n, p) ==
  <<Piece(todo[n+1].row, "rest", p)>> \o SubSeq(todo, n + 2, Len(todo))

Lines(rows, p) == [k \in 1..Len(rows) |-> Piece(rows[k], "whole", p)]

-----------------------------------------------------------------------------
(* Candidates, promotions and grants *)

\* The members of a finite set of numbers, in order.
InOrder(S) ==
  CHOOSE s \in [1..Cardinality(S) -> S] :
    \A i, k \in 1..Cardinality(S) : i < k => s[i] < s[k]

\* collect_candidates() and what append_candidates() has not seen.
NewCandidates == InOrder(artifacts \ Holds(candidates))

Artifact(i) == Artifacts[candidates[i].row]

\* The first row with a content decides for all of them.
Exemplars ==
  {i \in Rows(candidates) :
     \A k \in Rows(candidates) : k < i => Artifact(k).content # Artifact(i).content}

\* promote_candidates(), but for what is done.
Promotions(done) ==
  LET at == InOrder({i \in Exemplars : Artifact(i).good /\ Artifact(i).content \notin done})
  IN [k \in DOMAIN at |-> Artifact(at[k]).content]

NewPromotions_slip == Promotions({})

NewPromotions == Promotions(Holds(promoted))

\* materialize_grant_state(): the grants after the first n rows.
Granted(n) ==
  {ledger[i].row : i \in {i \in 1..n :
     /\ ledger[i].row.id # None
     /\ ~ledger[i].row.revoked
     /\ \A k \in i+1..n : ledger[k].row.id # ledger[i].row.id}}

\* The loop of evaluate_access().
Matches(grants, r) ==
  \E g \in grants :
    /\ g.enabled
    /\ g.profile = r.profile
    /\ g.ecosystems \cap {Star, r.ecosystem} # {}
    /\ g.agents = {} \/ g.agents \cap {Star, r.agent} # {}

Decision_slip(r) ==
  IF state \in {None, Torn} THEN "grant_state_error"
  ELSE IF Matches(Granted(state.upto), r) THEN "grant_match"
  ELSE "no_matching_grant"

\* load_grant_state() and evaluate_access(): the reason in the audit event.
Decision(r) ==
  IF state \in {None, Torn} THEN "grant_state_error"
  ELSE IF MaxAge > 0 /\ clock - state.stamp > MaxAge THEN "stale_grant_state"
  ELSE IF Matches(Granted(state.upto), r) THEN "grant_match"
  ELSE "no_matching_grant"

\* _retrieve_shared_context(): what can get into the prompt of an agent.
Retrieved(r) == IF Decision(r) = "grant_match" THEN store ELSE {}

-----------------------------------------------------------------------------
(* The jobs.  Each tool runs some of the phases of publish_snapshot(). *)

Idle == [at |-> "idle", tool |-> None, todo |-> <<>>, found |-> {}, clean |-> TRUE,
         upto |-> 0, readAt |-> 0, stamp |-> 0, promoted |-> <<>>, grants |-> None, snap |-> 0]

Tools == {"index", "promote", "grants", "publish"}
Phase(tool) == CASE tool \in {"index", "publish"} -> "collect"
                 [] tool = "promote" -> "promote"
                 [] tool = "grants" -> "grants"

Init ==
  /\ clock = 0
  /\ artifacts = {}
  /\ candidates = <<>> /\ promoted = <<>> /\ ledger = <<>>
  /\ state = None
  /\ objects = [s \in {} |-> None]
  /\ head = None
  /\ store = {}
  /\ job = [p \in Jobs |-> Idle]
  /\ taken = [s \in {} |-> 0]
  /\ overlapped = FALSE
  /\ left \in Budgets

At(p, phase) == job[p].at = phase
Becomes(p, new) == job' = [job EXCEPT ![p] = IF new.at = "idle" THEN Idle ELSE new]
\* The next phase, or the end of the tool.
Goto(p, phase, last) == IF job[p].tool = last THEN "idle" ELSE phase

Start(p) ==
  /\ At(p, "idle")
  /\ Cardinality({q \in Jobs : job[q].at # "idle"}) < left.width
  /\ Spend("starts")
  /\ \E tool \in Tools :
       Becomes(p, [Idle EXCEPT !.at = Phase(tool), !.tool = tool,
                    !.clean = Ended(candidates, Len(candidates)) /\ Ended(promoted, Len(promoted))])
  /\ overlapped' = (overlapped \/ \E q \in Jobs \ {p} : job[q].at # "idle")
  /\ UNCHANGED <<clock, artifacts, files, objects, head, store, taken>>

Local == <<clock, artifacts, objects, head, store, taken, overlapped>>

Collect(p) ==
  /\ At(p, "collect")
  /\ Becomes(p, [job[p] EXCEPT !.at = "candidates", !.todo = Lines(NewCandidates, p),
                               !.found = artifacts])
  /\ UNCHANGED <<Local, files, left>>

Promote(p) ==
  /\ At(p, "promote")
  /\ Becomes(p, [job[p] EXCEPT !.at = "promotions", !.todo = Lines(NewPromotions, p)])
  /\ UNCHANGED <<Local, files, left>>

\* handle.write() of the rows: one write when the file is closed, or one for
\* each full buffer, which ends anywhere.
Flush(p, file, new, next) ==
  \/ /\ new = file \o job[p].todo
     /\ Becomes(p, [job[p] EXCEPT !.at = next, !.todo = <<>>])
     /\ UNCHANGED left
  \/ /\ Spend("cuts")
     /\ \E n \in 0..Len(job[p].todo)-1 : \E part \in {"start", "json"} :
          /\ job[p].todo[n+1].part = "whole"
          /\ new = Cut(file, job[p].todo, n, part, p)
          /\ Becomes(p, [job[p] EXCEPT !.todo = Uncut(job[p].todo, n, p)])

AppendCandidates(p) ==
  /\ At(p, "candidates")
  /\ Flush(p, candidates, candidates', Goto(p, "promote", "index"))
  /\ UNCHANGED <<Local, promoted, ledger, state>>

AppendPromotions(p) ==
  /\ At(p, "promotions")
  /\ Flush(p, promoted, promoted', Goto(p, "grants", "promote"))
  /\ UNCHANGED <<Local, candidates, ledger, state>>

ReadGrants(p) ==
  /\ At(p, "grants")
  /\ Becomes(p, [job[p] EXCEPT !.at = "truncate", !.upto = Len(ledger), !.readAt = clock])
  /\ UNCHANGED <<Local, files, left>>

Truncate(p) ==
  /\ At(p, "truncate")
  /\ state' = Torn
  /\ Becomes(p, [job[p] EXCEPT !.at = "write", !.stamp = clock])
  /\ UNCHANGED <<Local, candidates, promoted, ledger, left>>

\* A longer text that another job wrote since the truncation shows behind.
WriteState(p) ==
  /\ At(p, "write")
  /\ \/ state' = [upto |-> job[p].upto, readAt |-> job[p].readAt, stamp |-> job[p].stamp]
     \/ state # Torn /\ state' = Torn
  /\ Becomes(p, [job[p] EXCEPT !.at = Goto(p, "bytes", "grants")])
  /\ UNCHANGED <<Local, candidates, promoted, ledger, left>>

\* The bytes to publish, and the second that names the snapshot.
ReadBytes(p) ==
  /\ At(p, "bytes")
  /\ Becomes(p, [job[p] EXCEPT !.at = "putPromoted", !.promoted = promoted,
                               !.grants = state, !.snap = clock])
  /\ taken' = [s \in DOMAIN taken \cup {clock} |->
                 (IF s \in DOMAIN taken THEN taken[s] ELSE 0) + (IF s = clock THEN 1 ELSE 0)]
  /\ UNCHANGED <<clock, artifacts, files, objects, head, store, overlapped, left>>

\* The objects of a snapshot once this one is put.
With(snap, name, content) ==
  [s \in DOMAIN objects \cup {snap} |->
     LET old == IF s \in DOMAIN objects THEN objects[s] ELSE [promoted |-> None, grants |-> None]
     IN IF s = snap THEN [old EXCEPT ![name] = content] ELSE old]

Put(p, phase, name, next) ==
  /\ At(p, phase)
  /\ objects' = With(job[p].snap, name, job[p][name])
  /\ Becomes(p, [job[p] EXCEPT !.at = next])
  /\ UNCHANGED <<clock, artifacts, files, head, store, taken, overlapped, left>>

PutPromoted_slip(p) == Put(p, "putPromoted", "promoted", "putHead")
PutPromoted(p) == Put(p, "putPromoted", "promoted", "putGrants")
PutGrants(p) == Put(p, "putGrants", "grants", "putHead")

PutHead(p) ==
  /\ At(p, "putHead")
  /\ head' = [snap |-> job[p].snap, promoted |-> job[p].promoted, grants |-> job[p].grants]
  /\ Becomes(p, Idle)
  /\ UNCHANGED <<clock, artifacts, files, objects, store, taken, overlapped, left>>

\* A put that raises, no S3 configured, a kill: the job ends where it is.
Fails(p) ==
  /\ job[p].at # "idle"
  /\ Spend("faults")
  /\ Becomes(p, Idle)
  /\ UNCHANGED <<Local, files>>

JobStep(p) ==
  \/ Start(p) \/ Collect(p) \/ AppendCandidates(p) \/ Promote(p) \/ AppendPromotions(p)
  \/ ReadGrants(p) \/ Truncate(p) \/ WriteState(p) \/ ReadBytes(p)
  \/ PutPromoted(p) \/ PutGrants(p) \/ PutHead(p) \/ Fails(p)

-----------------------------------------------------------------------------
(* Everybody else *)

Research ==
  /\ Spend("research")
  /\ \E i \in 1..Len(Artifacts) \ artifacts : artifacts' = artifacts \cup {i}
  /\ UNCHANGED <<clock, files, objects, head, store, job, taken, overlapped>>

AppendGrant ==
  /\ Spend("rows")
  /\ \E row \in GrantRows : ledger' = Append(ledger, [row |-> row, at |-> clock])
  /\ UNCHANGED <<Local, candidates, promoted, state, job>>

\* ingest_promotions() upserts by promotion_id.
Ingest ==
  /\ Spend("ingests")
  /\ store' = store \cup Holds(promoted)
  /\ UNCHANGED <<clock, artifacts, files, objects, head, job, taken, overlapped>>

Tick ==
  /\ Spend("ticks")
  /\ clock' = clock + 1
  /\ UNCHANGED <<artifacts, files, objects, head, store, job, taken, overlapped>>

Next == (\E p \in Jobs : JobStep(p)) \/ Research \/ AppendGrant \/ Ingest \/ Tick

Spec == Init /\ [][Next]_vars

-----------------------------------------------------------------------------
(* Properties *)

\* Once HEAD names a snapshot, both objects are there and match its checksums,
\* unless another publication took the same second for its id; and the grant
\* state in it can be parsed unless jobs overlapped.
HeadSound ==
  head # None =>
    /\ taken[head.snap] = 1 =>
         objects[head.snap] = [promoted |-> head.promoted, grants |-> head.grants]
    /\ ~overlapped => head.grants # Torn

\* How many rows the ledger may have had at a time.
LengthsAt(t) ==
  {n \in 0..Len(ledger) : /\ n = 0 \/ ledger[n].at <= t
                          /\ n = Len(ledger) \/ ledger[n+1].at >= t}

\* An agent gets shared knowledge only if the operator's ledger granted it not
\* longer ago than MaxAge and the time the job held what it had read of the
\* ledger: a revocation takes effect by then, whatever fails or overlaps.
RevocationTimely ==
  \A r \in Readers :
    Decision(r) = "grant_match" =>
      \E t \in (state.readAt)..clock :
        /\ clock - t <= MaxAge + (state.stamp - state.readAt)
        /\ \E n \in LengthsAt(t) : Matches(Granted(n), r)

\* Jobs that do not overlap promote a content once.  What such a job publishes
\* has every content it found whose exemplar is good, however many jobs failed
\* before it, unless the last of them left half a line for its rows to hide in.
\* In any case no agent retrieves what no good artifact says.
PublishExact ==
  /\ \A r \in Readers : \A c \in Retrieved(r) :
       \E i \in artifacts : Artifacts[i].content = c /\ Artifacts[i].good
  /\ ~overlapped =>
       /\ \A i, k \in Rows(promoted) : promoted[i].row = promoted[k].row => i = k
       /\ \A p \in Jobs :
            job[p].tool = "publish" /\ job[p].clean
              /\ job[p].at \in {"putPromoted", "putGrants", "putHead"} =>
              \A i \in job[p].found : \E k \in Exemplars :
                /\ Artifact(k).content = Artifacts[i].content
                /\ Artifact(k).good => Artifacts[i].content \in Holds(job[p].promoted)
=============================================================================
