------------------------------- MODULE Forums -------------------------------
(***************************************************************************)
(* forums/townhall.py and forums/roundtable.py, and the external visitor   *)
(* that agent/runner.py injects and agent/state_builder.py reports.        *)
(*                                                                         *)
(* The sessions of an ecosystem share one townhall ledger and one          *)
(* roundtable ledger, but each session has a forum object of its own, which*)
(* knows nothing of the others.  Here several runs hold the sessions that  *)
(* the runner and the executor script for them, while one more pair of     *)
(* objects, the host's, is called by several members in any legal order,   *)
(* as tests/test_forums.py does.  Every event takes two appends, in the    *)
(* forum's ledger and in the public one, and other sessions come between.  *)
(* Single appends and torn lines are Ledger.tla and AgentRun.tla.          *)
(***************************************************************************)
EXTENDS Integers, Sequences, SequencesExt, FiniteSets

CONSTANTS
  Agents,     \* agents that have runs, at most one at a time
  Members,    \* who calls the host's objects; the participants of its roundtable
  Topics,     \* topics of townhall_visitor in some agent's run_config
  None,       \* no topic: no townhall_visitor in the run_config
  Budgets     \* bound: how many runs, sessions that agents decide for, calls
              \* of the host's objects, and faults there are in a behaviour

Host == "host"

ASSUME ForumsAssumption ==
  /\ None \notin Topics
  /\ Host \notin Agents
  /\ Budgets \subseteq [runs : Nat, visits : Nat, calls : Nat, faults : Nat]

Visitor == "external-expert"
Speakers == Agents \cup Members \cup {Visitor}
Users == Agents \cup {Host}

VARIABLES
  ledger,  \* for each forum the events of its own ledger
  object,  \* the state of each user's forum objects
  half,    \* the event that is in the forum's ledger only, for the moment
  running, \* the agents that have a run
  script,  \* the calls that a run's session still has to make
  seen,    \* how much of the townhall ledger it read before it injected
  sessions,\* how many forum objects the runs made
  left     \* bound: what is left of the budget

vars == <<ledger, object, half, running, script, seen, sessions, left>>

Halls == {"townhall", "roundtable"}

-----------------------------------------------------------------------------
(* Calls and the events they write *)

Call(hall, does, by) == [hall |-> hall, does |-> does, by |-> by, topic |-> None]
Convene(by, t) == [Call("townhall", "convened", by) EXCEPT !.topic = t]

\* _maybe_inject_external_townhall_visitor() and the two leaves of execute();
\* an empty answer is not said.
VisitorSession(t) == <<Convene(Visitor, t), Call("townhall", "broadcast", Visitor),
                       Call("townhall", "adjourned", Visitor)>>
CallTownhall(a) ==
  {<<Convene(a, None)>> \o words \o <<Call("townhall", "adjourned", a)>>
     : words \in {<<>>, <<Call("townhall", "broadcast", a)>>}}
VisitRoundtable(a) ==
  {<<Call("roundtable", "convened", a)>> \o words
     \o <<Call("roundtable", "round", a), Call("roundtable", "adjourned", a)>>
     : words \in {<<>>, <<Call("roundtable", "utterance", a)>>}}

\* A new Townhall or Roundtable; its id tells its events from the others'.
Fresh(id) == [id |-> id, speaker |-> "nobody", respondents |-> {}, spoken |-> {}]

Participants(u) == IF u = Host THEN Members ELSE {u}

\* The checks of broadcast(), adjourn(), respond() and speak().
Allowed(u, c) ==
  /\ c.does = "broadcast" => c.by = object[u].speaker
  /\ c.does = "adjourned" /\ c.hall = "townhall" => c.by = object[u].speaker
  /\ c.does = "response" => c.by \notin object[u].respondents
  /\ c.does = "utterance" => /\ c.by \notin object[u].spoken
                             /\ c.by \in Participants(u)

\* `told` is speakers_this_round of a round, respondent_count of an adjourn.
Written(u, c) ==
  [hall |-> c.hall, does |-> c.does, by |-> c.by, topic |-> c.topic,
   obj |-> object[u].id, seen |-> IF c.by = Visitor THEN seen[u] ELSE 0,
   told |-> IF c.does = "round" THEN object[u].spoken
            ELSE IF c.does = "adjourned" /\ c.hall = "townhall" THEN object[u].respondents
            ELSE {},
   public |-> FALSE]

After_slip(o, e) ==
  CASE e.does = "convened" /\ e.hall = "townhall" -> [o EXCEPT !.speaker = e.by, !.respondents = {}]
    [] e.does = "response"  -> [o EXCEPT !.respondents = @ \cup {e.by}]
    [] e.does = "utterance" -> [o EXCEPT !.spoken = @ \cup {e.by}]
    [] OTHER -> o

\* What the object changes once both appends are done.
After(o, e) ==
  CASE e.does = "convened" /\ e.hall = "townhall" -> [o EXCEPT !.speaker = e.by, !.respondents = {}]
    [] e.does = "response"  -> [o EXCEPT !.respondents = @ \cup {e.by}]
    [] e.does = "utterance" -> [o EXCEPT !.spoken = @ \cup {e.by}]
    [] e.does = "round"     -> [o EXCEPT !.spoken = {}]
    [] OTHER -> o

-----------------------------------------------------------------------------
(* The readers of the townhall ledger *)

IsVisit(e) == e.does = "convened" /\ e.topic # None

\* Index of the last event of a visitor's convene, 0 if there is none.
LastVisit(log) == SelectLastInSeq(log, IsVisit)

AlreadyTold_slip(log, t) == \E i \in {Len(log)} : i > 0 /\ log[i].topic = t

\* The check of the injection.
AlreadyTold(log, t) == LastVisit(log) > 0 /\ log[LastVisit(log)].topic = t

BriefingEnd_slip(log) == Len(log) + 1

\* Where _latest_external_visitor_briefing() stops to look for a message.
BriefingEnd(log) ==
  LET stops == {i \in LastVisit(log)+1..Len(log) : log[i].does \in {"adjourned", "convened"}}
  IN IF stops = {} THEN Len(log) + 1 ELSE CHOOSE i \in stops : \A j \in stops : i <= j

\* The object whose broadcast it reports as the visitor's message, 0 if none.
Message(log) ==
  LET said == {i \in LastVisit(log)+1..BriefingEnd(log)-1 : log[i].does = "broadcast"}
  IN IF said = {} THEN 0 ELSE log[CHOOSE i \in said : \A j \in said : j <= i].obj

-----------------------------------------------------------------------------
Init ==
  /\ ledger = [h \in Halls |-> <<>>]
  /\ object = [u \in Users |-> Fresh(0)]
  /\ half = [u \in Users |-> <<>>]
  /\ running = {}
  /\ script = [a \in Agents |-> <<>>]
  /\ seen = [u \in Users |-> 0]
  /\ sessions = 0
  /\ left \in Budgets

End(a) ==
  /\ running' = running \ {a}
  /\ script' = [script EXCEPT ![a] = <<>>]
  /\ half' = [half EXCEPT ![a] = <<>>]
  /\ seen' = [seen EXCEPT ![a] = 0]
  /\ object' = [object EXCEPT ![a] = Fresh(0)]

Spend(what) == left[what] > 0 /\ left' = [left EXCEPT ![what] = @ - 1]

\* A session begins with an object of its own.
Begin(a, session) ==
  /\ sessions' = sessions + 1
  /\ object' = [object EXCEPT ![a] = Fresh(sessions + 1)]
  /\ script' = [script EXCEPT ![a] = session]

\* A run checks the ledger for the topic of its run_config, and only then, and
\* not under the ledger's lock, begins the visitor's session.
Inject(a) ==
  /\ a \notin running
  /\ Spend("runs")
  /\ running' = running \cup {a}
  /\ \E topic \in Topics \cup {None} :
       IF topic = None \/ AlreadyTold(ledger["townhall"], topic)
       THEN UNCHANGED <<object, script, seen, sessions>>
       ELSE /\ Begin(a, VisitorSession(topic))
            /\ seen' = [seen EXCEPT ![a] = Len(ledger["townhall"])]
  /\ UNCHANGED <<ledger, half>>

Idle(a) == a \in running /\ script[a] = <<>> /\ half[a] = <<>>

\* A decision for CALL_TOWNHALL or VISIT_ROUNDTABLE.
Visit(a) ==
  /\ Idle(a)
  /\ Spend("visits")
  /\ \E session \in CallTownhall(a) \cup VisitRoundtable(a) : Begin(a, session)
  /\ UNCHANGED <<ledger, half, running, seen>>

Finish(a) ==
  /\ Idle(a)
  /\ End(a)
  /\ UNCHANGED <<ledger, sessions, left>>

\* The first append of _dual_write().
Write(u, c) ==
  /\ half[u] = <<>>
  /\ Allowed(u, c)
  /\ ledger' = [ledger EXCEPT ![c.hall] = Append(@, Written(u, c))]
  /\ half' = [half EXCEPT ![u] = <<c.hall, Len(ledger[c.hall]) + 1>>]
  /\ seen' = [seen EXCEPT ![u] = 0]
  /\ UNCHANGED <<object, running, sessions>>

Step(a) ==
  /\ script[a] # <<>>
  /\ Write(a, Head(script[a]))
  /\ script' = [script EXCEPT ![a] = Tail(@)]
  /\ UNCHANGED left

HostCall ==
  /\ Spend("calls")
  /\ \E m \in Members :
       \/ \E does \in {"convened", "broadcast", "response", "adjourned"} :
            Write(Host, Call("townhall", does, m))
       \/ \E does \in {"convened", "utterance", "round", "adjourned"} :
            Write(Host, Call("roundtable", does, m))
  /\ UNCHANGED script

\* The second append; only then does the object take note of the call.
Mirror(u) ==
  /\ half[u] # <<>>
  /\ LET h == half[u][1]  i == half[u][2] IN
       /\ ledger' = [ledger EXCEPT ![h][i].public = TRUE]
       /\ object' = [object EXCEPT ![u] = After(@, ledger[h][i])]
  /\ half' = [half EXCEPT ![u] = <<>>]
  /\ UNCHANGED <<running, script, seen, sessions, left>>

\* The second append raises: a run ends, the host's objects stay in use.
MirrorFails(u) ==
  /\ half[u] # <<>>
  /\ Spend("faults")
  /\ IF u = Host
     THEN /\ half' = [half EXCEPT ![u] = <<>>]
          /\ UNCHANGED <<object, running, script, seen>>
     ELSE End(u)
  /\ UNCHANGED <<ledger, sessions>>

Kill(a) ==
  /\ a \in running
  /\ Spend("faults")
  /\ End(a)
  /\ UNCHANGED <<ledger, sessions>>

Next ==
  \/ \E a \in Agents : Inject(a) \/ Visit(a) \/ Step(a) \/ Finish(a) \/ Kill(a)
  \/ HostCall
  \/ \E u \in Users : Mirror(u) \/ MirrorFails(u)

Spec == Init /\ [][Next]_vars

-----------------------------------------------------------------------------
(* Properties *)

Townhall == ledger["townhall"]

\* A visitor's session that was adjourned before anything else came between
\* is told whole: whatever sessions follow, every later prompt attributes its
\* own message to the visitor, and no other.  Otherwise the words can only be
\* those of a session that convened before the visitor's did.
BriefingAttribution ==
  LET c == LastVisit(Townhall)  m == Message(Townhall) IN
    c > 0 =>
      /\ (/\ Len(Townhall) >= c + 2
          /\ \A i \in c..c+2 : Townhall[i].obj = Townhall[c].obj)
         => m = Townhall[c].obj
      /\ m \notin {0, Townhall[c].obj}
         => \E i \in 1..c-1 : Townhall[i].obj = m /\ Townhall[i].does = "convened"

\* The same topic is told twice in a row only by runs that checked before the
\* first of them convened: later runs of any agent skip it.
RepeatsOverlap ==
  \A i, j \in 1..Len(Townhall) :
    (/\ i < j
     /\ IsVisit(Townhall[i]) /\ IsVisit(Townhall[j])
     /\ Townhall[i].topic = Townhall[j].topic
     /\ \A k \in i+1..j-1 : ~IsVisit(Townhall[k]))
    => Townhall[j].seen < i

\* Who did this among the events of a session before n that are in both
\* ledgers, behind the last one that begins the count anew.
Since(log, obj, n, does, reset) ==
  LET whole == {i \in 1..n-1 : log[i].public /\ log[i].obj = obj}
      from == {i \in whole : log[i].does = reset}
  IN {log[i].by : i \in {k \in whole : log[k].does = does /\ \A r \in from : r < k}}

\* Each total names exactly those, and nobody does it twice.
Accounted(log, does, reset, total) ==
  \A n \in 1..Len(log) : log[n].public =>
    LET since == Since(log, log[n].obj, n, does, reset) IN
      /\ log[n].does = total => log[n].told = since
      /\ log[n].does = does => log[n].by \notin since

\* Of the events in both ledgers, each round names exactly those who spoke in
\* it, each adjourn counts exactly those who responded since the convene, and
\* nobody does so twice, even when appends to the public ledger fail.
RoundsAccounted ==
  /\ Accounted(ledger["roundtable"], "utterance", "round", "round")
  /\ Accounted(Townhall, "response", "convened", "adjourned")
=============================================================================
