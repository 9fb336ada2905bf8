---------------------------- MODULE ForumsProofs ----------------------------
(***************************************************************************)
(* What the townhall ledger tells of visitors, and what a round or a       *)
(* session counts, for any agents, topics and sessions that interleave in  *)
(* a ledger, killed runs and failing appends.                              *)
(***************************************************************************)
EXTENDS Forums, WellFoundedInduction, TLAPS

Deeds == {"convened", "broadcast", "adjourned", "response", "utterance", "round"}
Calls == [hall : Halls, does : Deeds, by : Speakers, topic : Topics \cup {None}]
Events == [hall : Halls, does : Deeds, by : Speakers, topic : Topics \cup {None},
           obj : Nat, seen : Nat, told : SUBSET Speakers, public : BOOLEAN]
Objects == [id : Nat, speaker : Speakers \cup {"nobody"},
            respondents : SUBSET Speakers, spoken : SUBSET Speakers]

TypeInv ==
  /\ ledger \in [Halls -> Seq(Events)]
  /\ object \in [Users -> Objects]
  /\ half = [u \in Users |-> half[u]]
  /\ \A u \in Users : half[u] # <<>> =>
       half[u][1] \in Halls /\ half[u][2] \in 1..Len(ledger[half[u][1]])
  /\ running \subseteq Agents
  /\ script \in [Agents -> Seq(Calls)]
  /\ seen \in [Users -> Nat]
  /\ sessions \in Nat

\* An object belongs to one session, and what is in the ledger is of a session
\* that began.
IdInv ==
  /\ object[Host].id = 0
  /\ \A a \in Agents : /\ object[a].id <= sessions
                       /\ script[a] # <<>> => object[a].id > 0
  /\ \A a, b \in Agents : object[a].id = object[b].id /\ object[a].id > 0 => a = b
  /\ \A i \in 1..Len(Townhall) : Townhall[i].obj <= sessions

-----------------------------------------------------------------------------
(* A log of the townhall, and the rest s of the script of a session whose    *)
(* object is o and which had read n events before it began.                  *)

Convened(log, o) == \E i \in 1..Len(log) : log[i].obj = o /\ log[i].does = "convened"

\* Nobody speaks in a session before it is convened.
Opened(log, s, o) ==
  \A n \in 1..Len(s) : s[n].does = "broadcast" =>
    \/ Convened(log, o)
    \/ \E k \in 1..n-1 : s[k].does = "convened" /\ s[k].hall = "townhall"

\* The last visit among the first n events had another topic.
Untold(log, n, t) ==
  /\ n <= Len(log)
  /\ \A i \in 1..n : IsVisit(log[i]) /\ (\A k \in i+1..n : ~IsVisit(log[k])) => log[i].topic # t

\* A visitor's session at its three calls, and a session of anybody else.
AboutToVisit(log, s, o, n) ==
  /\ \E t \in Topics : s = VisitorSession(t) /\ Untold(log, n, t)
  /\ \A i \in 1..Len(log) : log[i].obj # o
AboutToSpeak(log, s, o) ==
  /\ s = Tail(VisitorSession(None))
  /\ \A i \in 1..Len(log) : IsVisit(log[i]) /\ log[i].obj = o =>
       \A k \in i+1..Len(log) : log[k].obj # o
AboutToAdjourn(log, s, o) ==
  /\ s = Tail(Tail(VisitorSession(None)))
  /\ \A i \in 1..Len(log) : IsVisit(log[i]) /\ log[i].obj = o =>
       \E k \in i+1..Len(log) : log[k].obj = o
WithoutVisit(log, s, o) ==
  /\ \A n \in 1..Len(s) : s[n].topic = None
  /\ \A i \in 1..Len(log) : log[i].obj = o => ~IsVisit(log[i])

InSession(log, s, o, n) ==
  \/ s = <<>>
  \/ /\ Opened(log, s, o)
     /\ \/ AboutToVisit(log, s, o, n)
        \/ AboutToSpeak(log, s, o)
        \/ AboutToAdjourn(log, s, o)
        \/ WithoutVisit(log, s, o)

SessionInv == \A a \in Agents : InSession(Townhall, script[a], object[a].id, seen[a])

\* A broadcast of a session comes after its convene.
ConvenedFirst(log) ==
  \A i \in 1..Len(log) :
    log[i].does = "broadcast" /\ log[i].obj > 0 =>
      \E j \in 1..i-1 : log[j].obj = log[i].obj /\ log[j].does = "convened"

\* A visitor's session is a convene, a broadcast and an adjourn.
VisitsInOrder(log) ==
  \A i \in 1..Len(log) : IsVisit(log[i]) =>
    /\ log[i].obj > 0
    /\ \A j \in i+1..Len(log) : log[j].obj = log[i].obj =>
         log[j].does = IF \A k \in i+1..j-1 : log[k].obj # log[i].obj
                       THEN "broadcast" ELSE "adjourned"

RepeatsLate(log) ==
  \A i, j \in 1..Len(log) :
    (/\ i < j
     /\ IsVisit(log[i]) /\ IsVisit(log[j])
     /\ log[i].topic = log[j].topic
     /\ \A k \in i+1..j-1 : ~IsVisit(log[k]))
    => log[j].seen < i

Sound(log) == ConvenedFirst(log) /\ VisitsInOrder(log) /\ RepeatsLate(log)

ForumInv == TypeInv /\ IdInv /\ SessionInv /\ Sound(Townhall)

-----------------------------------------------------------------------------
(* How the townhall ledger changes *)

\* What the readers see of an event stays.
Kept(log, new) ==
  /\ Len(log) <= Len(new)
  /\ \A i \in 1..Len(log) :
       /\ new[i].does = log[i].does /\ new[i].topic = log[i].topic
       /\ new[i].obj = log[i].obj /\ new[i].seen = log[i].seen

Added(log, new, e) == Kept(log, new) /\ Len(new) = Len(log) + 1 /\ new[Len(new)] = e
Same(log, new) == Kept(log, new) /\ Len(new) = Len(log)

LEMMA KeptVisits ==
  ASSUME NEW log, NEW new, Kept(log, new), NEW i \in 1..Len(log)
  PROVE  IsVisit(new[i]) <=> IsVisit(log[i])
  BY DEF Kept, IsVisit

LEMMA KeptOpened ==
  ASSUME NEW log \in Seq(Events), NEW new \in Seq(Events), Kept(log, new),
         NEW s, NEW o, Opened(log, s, o)
  PROVE  Opened(new, s, o)
<1>1. Convened(log, o) => Convened(new, o)
  <2>1. 1..Len(log) \subseteq 1..Len(new)
    BY DEF Kept
  <2>2. QED
    BY <2>1 DEF Convened, Kept
<1>2. QED
  BY <1>1 DEF Opened

LEMMA KeptUntold ==
  ASSUME NEW log \in Seq(Events), NEW new \in Seq(Events), Kept(log, new),
         NEW n \in Nat, NEW t, Untold(log, n, t)
  PROVE  Untold(new, n, t)
<1>1. \A i \in 1..Len(log) : IsVisit(new[i]) <=> IsVisit(log[i])
  BY KeptVisits
<1>2. n <= Len(log) /\ n <= Len(new)
  BY DEF Kept, Untold
<1>3. SUFFICES ASSUME NEW i \in 1..n, IsVisit(new[i]), \A k \in i+1..n : ~IsVisit(new[k])
               PROVE  new[i].topic # t
  BY <1>2 DEF Untold
<1>4. i \in 1..Len(log) /\ \A k \in i+1..n : k \in 1..Len(log)
  BY <1>2
<1>5. IsVisit(log[i]) /\ \A k \in i+1..n : ~IsVisit(log[k])
  BY <1>1, <1>3, <1>4
<1>6. log[i].topic # t
  BY <1>5 DEF Untold
<1>7. QED
  BY <1>4, <1>6 DEF Kept

LEMMA SameSession ==
  ASSUME NEW log \in Seq(Events), NEW new \in Seq(Events), Same(log, new),
         NEW s, NEW o, NEW n \in Nat, InSession(log, s, o, n)
  PROVE  InSession(new, s, o, n)
<1>1. \A i \in 1..Len(log) : IsVisit(new[i]) <=> IsVisit(log[i])
  BY KeptVisits DEF Same
<1>2. Opened(log, s, o) => Opened(new, s, o)
  BY KeptOpened DEF Same
<1>3. AboutToVisit(log, s, o, n) => AboutToVisit(new, s, o, n)
  BY KeptUntold DEF AboutToVisit, Same, Kept
<1>4. AboutToSpeak(log, s, o) => AboutToSpeak(new, s, o)
  BY <1>1 DEF AboutToSpeak, Same, Kept
<1>5. AboutToAdjourn(log, s, o) => AboutToAdjourn(new, s, o)
  <2>1. Len(new) = Len(log) /\ \A i \in 1..Len(log) : new[i].obj = log[i].obj
    BY DEF Same, Kept
  <2>2. ASSUME AboutToAdjourn(log, s, o), NEW i \in 1..Len(log), IsVisit(new[i]), new[i].obj = o
        PROVE  \E k \in i+1..Len(new) : new[k].obj = o
    <3>1. PICK k \in i+1..Len(log) : log[k].obj = o
      BY <1>1, <2>1, <2>2 DEF AboutToAdjourn
    <3>2. k \in 1..Len(log)
      OBVIOUS
    <3>3. QED
      BY <2>1, <3>1, <3>2
  <2>3. QED
    BY <2>1, <2>2 DEF AboutToAdjourn
<1>6. WithoutVisit(log, s, o) => WithoutVisit(new, s, o)
  BY <1>1 DEF WithoutVisit, Same, Kept
<1>7. QED
  BY <1>2, <1>3, <1>4, <1>5, <1>6 DEF InSession

\* An event of another session is nothing to a session.
LEMMA OthersSession ==
  ASSUME NEW log \in Seq(Events), NEW new \in Seq(Events), NEW e, Added(log, new, e),
         NEW s, NEW o, NEW n \in Nat, e.obj # o, InSession(log, s, o, n)
  PROVE  InSession(new, s, o, n)
<1>1. \A i \in 1..Len(log) : IsVisit(new[i]) <=> IsVisit(log[i])
  BY KeptVisits DEF Added
<1>2. Opened(log, s, o) => Opened(new, s, o)
  BY KeptOpened DEF Added
<1>3. AboutToVisit(log, s, o, n) => AboutToVisit(new, s, o, n)
  <2>1. ASSUME \A i \in 1..Len(log) : log[i].obj # o
        PROVE  \A i \in 1..Len(new) : new[i].obj # o
    BY <2>1 DEF Added, Kept
  <2>2. QED
    BY <2>1, KeptUntold DEF AboutToVisit, Added
<1>4. AboutToSpeak(log, s, o) => AboutToSpeak(new, s, o)
  BY <1>1 DEF AboutToSpeak, Added, Kept
<1>5. AboutToAdjourn(log, s, o) => AboutToAdjourn(new, s, o)
  BY <1>1 DEF AboutToAdjourn, Added, Kept
<1>6. WithoutVisit(log, s, o) => WithoutVisit(new, s, o)
  BY <1>1 DEF WithoutVisit, Added, Kept
<1>7. QED
  BY <1>2, <1>3, <1>4, <1>5, <1>6 DEF InSession


LEMMA TailFacts ==
  ASSUME NEW S, NEW s \in Seq(S), s # <<>>
  PROVE  /\ Tail(s) \in Seq(S) /\ Head(s) \in S /\ Head(s) = s[1]
         /\ Len(s) \in Nat /\ Len(s) > 0 /\ Len(Tail(s)) = Len(s) - 1
         /\ \A n \in 1..Len(Tail(s)) : Tail(s)[n] = s[n+1]
  OBVIOUS

LEMMA VisitorFacts ==
  ASSUME NEW t
  PROVE  LET s == VisitorSession(t) IN
         /\ s # <<>> /\ Tail(s) # <<>> /\ Tail(Tail(s)) # <<>> /\ Tail(Tail(Tail(s))) = <<>>
         /\ Tail(s) = Tail(VisitorSession(None))
         /\ Head(s) = Convene(Visitor, t)
         /\ Head(Tail(s)) = Call("townhall", "broadcast", Visitor)
         /\ Head(Tail(Tail(s))) = Call("townhall", "adjourned", Visitor)
         /\ Len(s) = 3
  BY DEF VisitorSession

LEMMA CallFacts ==
  ASSUME NEW h, NEW d, NEW b, NEW t
  PROVE  /\ Call(h, d, b).hall = h /\ Call(h, d, b).does = d /\ Call(h, d, b).by = b
         /\ Call(h, d, b).topic = None
         /\ Convene(b, t).hall = "townhall" /\ Convene(b, t).does = "convened"
         /\ Convene(b, t).by = b /\ Convene(b, t).topic = t
  BY DEF Call, Convene

\* A session makes its next call.
Makes(s, o, e) == e.obj = o /\ e.does = Head(s).does /\ e.topic = Head(s).topic

LEMMA OpenedTail ==
  ASSUME NEW log \in Seq(Events), NEW new \in Seq(Events), NEW s \in Seq(Calls), s # <<>>,
         NEW o, NEW e, Added(log, new, e), Makes(s, o, e), Opened(log, s, o)
  PROVE  Opened(new, Tail(s), o)
<1> USE TailFacts
<1>1. SUFFICES ASSUME NEW n \in 1..Len(Tail(s)), Tail(s)[n].does = "broadcast"
               PROVE  \/ Convened(new, o)
                      \/ \E k \in 1..n-1 : Tail(s)[k].does = "convened" /\ Tail(s)[k].hall = "townhall"
  BY DEF Opened
<1>2. Convened(log, o) => Convened(new, o)
  BY DEF Convened, Added, Kept
<1>3. ASSUME NEW k \in 1..n, s[k].does = "convened", s[k].hall = "townhall"
      PROVE  \/ Convened(new, o)
             \/ \E j \in 1..n-1 : Tail(s)[j].does = "convened" /\ Tail(s)[j].hall = "townhall"
  <2>1. CASE k = 1
    BY <1>3, <2>1 DEF Convened, Added, Kept, Makes
  <2>2. CASE k # 1
    <3>1. k-1 \in 1..n-1 /\ k-1 \in 1..Len(Tail(s)) /\ Tail(s)[k-1] = s[k]
      BY <2>2
    <3>2. QED
      BY <1>3, <3>1
  <2>3. QED
    BY <2>1, <2>2
<1>4. n+1 \in 1..Len(s) /\ s[n+1].does = "broadcast" /\ n+1-1 = n
  BY <1>1
<1>5. Convened(log, o) \/ \E k \in 1..n+1-1 : s[k].does = "convened" /\ s[k].hall = "townhall"
  BY <1>4 DEF Opened
<1>6. Convened(log, o) \/ \E k \in 1..n : s[k].does = "convened" /\ s[k].hall = "townhall"
  BY <1>4, <1>5
<1>7. QED
  BY <1>2, <1>3, <1>6, Zenon

LEMMA OwnSession ==
  ASSUME NEW log \in Seq(Events), NEW new \in Seq(Events), NEW s \in Seq(Calls), s # <<>>,
         NEW o, NEW n \in Nat, NEW m \in Nat, NEW e,
         Added(log, new, e), Makes(s, o, e), InSession(log, s, o, n)
  PROVE  InSession(new, Tail(s), o, m)
<1>1. \A i \in 1..Len(log) : IsVisit(new[i]) <=> IsVisit(log[i])
  BY KeptVisits DEF Added
<1>2. Opened(new, Tail(s), o)
  BY OpenedTail DEF InSession
<1>3. CASE AboutToVisit(log, s, o, n)
  <2>1. PICK t \in Topics : s = VisitorSession(t)
    BY <1>3 DEF AboutToVisit
  <2>2. Tail(s) = Tail(VisitorSession(None))
    BY <2>1, VisitorFacts
  <2>3. \A i \in 1..Len(log) : new[i].obj # o
    BY <1>3 DEF AboutToVisit, Added, Kept
  <2>4. \A i \in 1..Len(new) : IsVisit(new[i]) /\ new[i].obj = o =>
          \A k \in i+1..Len(new) : new[k].obj # o
    BY <2>3 DEF Added
  <2>5. AboutToSpeak(new, Tail(s), o)
    BY <2>2, <2>4 DEF AboutToSpeak
  <2>6. QED
    BY <1>2, <2>5 DEF InSession
<1>4. CASE AboutToSpeak(log, s, o)
  <2>1. Head(s) = Call("townhall", "broadcast", Visitor)
        /\ Tail(s) = Tail(Tail(VisitorSession(None)))
    BY <1>4, VisitorFacts DEF AboutToSpeak
  <2>2. ~IsVisit(e)
    BY <2>1, CallFacts DEF Makes, IsVisit
  <2>3. AboutToAdjourn(new, Tail(s), o)
    <3>1. ASSUME NEW i \in 1..Len(new), IsVisit(new[i]), new[i].obj = o
          PROVE  \E k \in i+1..Len(new) : new[k].obj = o
      <4>1. i \in 1..Len(log)
        BY <2>2, <3>1 DEF Added
      <4>2. Len(new) \in i+1..Len(new) /\ new[Len(new)].obj = o
        BY <4>1 DEF Added, Makes
      <4>3. QED
        BY <4>2
    <3>2. QED
      BY <2>1, <3>1 DEF AboutToAdjourn
  <2>4. QED
    BY <1>2, <2>3 DEF InSession
<1>5. CASE AboutToAdjourn(log, s, o)
  BY <1>5, VisitorFacts DEF AboutToAdjourn, InSession
<1>6. CASE WithoutVisit(log, s, o)
  <2>1. ~IsVisit(e)
    BY <1>6, TailFacts DEF WithoutVisit, Makes, IsVisit
  <2>2. WithoutVisit(new, Tail(s), o)
    <3>1. \A k \in 1..Len(Tail(s)) : Tail(s)[k].topic = None
      BY <1>6, TailFacts DEF WithoutVisit
    <3>2. \A i \in 1..Len(new) : new[i].obj = o => ~IsVisit(new[i])
      BY <1>1, <1>6, <2>1 DEF WithoutVisit, Added, Kept
    <3>3. QED
      BY <3>1, <3>2 DEF WithoutVisit
  <2>3. QED
    BY <1>2, <2>2 DEF InSession
<1>7. QED
  BY <1>3, <1>4, <1>5, <1>6 DEF InSession

\* A call at the roundtable leaves the townhall alone.
LEMMA Elsewhere ==
  ASSUME NEW log \in Seq(Events), NEW new \in Seq(Events), NEW s \in Seq(Calls), s # <<>>,
         NEW o, NEW n \in Nat, NEW m \in Nat,
         Same(log, new), Head(s).hall = "roundtable", InSession(log, s, o, n)
  PROVE  InSession(new, Tail(s), o, m)
<1>1. ~AboutToVisit(log, s, o, n) /\ ~AboutToSpeak(log, s, o) /\ ~AboutToAdjourn(log, s, o)
  <2>1. \A t : Head(VisitorSession(t)).hall = "townhall"
    BY VisitorFacts, CallFacts
  <2>2. /\ Head(Tail(VisitorSession(None))).hall = "townhall"
        /\ Head(Tail(Tail(VisitorSession(None)))).hall = "townhall"
    BY VisitorFacts, CallFacts
  <2>3. QED
    BY <2>1, <2>2 DEF AboutToVisit, AboutToSpeak, AboutToAdjourn
<1>2. Opened(log, s, o) /\ WithoutVisit(log, s, o)
  BY <1>1 DEF InSession
<1>3. Opened(log, Tail(s), o)
  <2> USE TailFacts
  <2>1. SUFFICES ASSUME NEW i \in 1..Len(Tail(s)), Tail(s)[i].does = "broadcast", ~Convened(log, o)
                 PROVE  \E k \in 1..i-1 : Tail(s)[k].does = "convened" /\ Tail(s)[k].hall = "townhall"
    BY DEF Opened
  <2>2. PICK k \in 1..i+1-1 : s[k].does = "convened" /\ s[k].hall = "townhall"
    BY <1>2, <2>1 DEF Opened
  <2>3. k # 1
    BY <2>2
  <2>4. k-1 \in 1..i-1 /\ Tail(s)[k-1] = s[k]
    BY <2>3
  <2>5. QED
    BY <2>2, <2>4
<1>4. WithoutVisit(log, Tail(s), o)
  BY <1>2, TailFacts DEF WithoutVisit
<1>5. InSession(log, Tail(s), o, m)
  BY <1>3, <1>4 DEF InSession
<1>6. QED
  BY <1>5, SameSession

-----------------------------------------------------------------------------
(* What the townhall ledger keeps *)

LEMMA SameSound ==
  ASSUME NEW log \in Seq(Events), NEW new \in Seq(Events), Same(log, new), Sound(log)
  PROVE  Sound(new)
<1>1. \A i \in 1..Len(log) : IsVisit(new[i]) <=> IsVisit(log[i])
  BY KeptVisits DEF Same
<1>2. ConvenedFirst(new)
  <2>1. SUFFICES ASSUME NEW i \in 1..Len(new), new[i].does = "broadcast", new[i].obj > 0
                 PROVE  \E j \in 1..i-1 : new[j].obj = new[i].obj /\ new[j].does = "convened"
    BY DEF ConvenedFirst
  <2>2. i \in 1..Len(log) /\ new[i].obj = log[i].obj /\ log[i].does = "broadcast"
    BY <2>1 DEF Same, Kept
  <2>3. PICK j \in 1..i-1 : log[j].obj = log[i].obj /\ log[j].does = "convened"
    BY <2>1, <2>2 DEF Sound, ConvenedFirst
  <2>4. j \in 1..Len(log)
    BY <2>2
  <2>5. QED
    BY <2>2, <2>3, <2>4 DEF Same, Kept
<1>3. VisitsInOrder(new)
  BY <1>1 DEF Sound, VisitsInOrder, Same, Kept
<1>4. RepeatsLate(new)
  BY <1>1 DEF Sound, RepeatsLate, Same, Kept
<1>5. QED
  BY <1>2, <1>3, <1>4 DEF Sound

\* An event that is added fits in if it fits behind the others.
LEMMA AddedSound ==
  ASSUME NEW log \in Seq(Events), NEW new \in Seq(Events), NEW e \in Events, Added(log, new, e), Sound(log),
         e.does = "broadcast" /\ e.obj > 0 => Convened(log, e.obj),
         IsVisit(e) => e.obj > 0,
         \A i \in 1..Len(log) : IsVisit(log[i]) /\ log[i].obj = e.obj =>
           e.does = IF \A k \in i+1..Len(log) : log[k].obj # log[i].obj
                    THEN "broadcast" ELSE "adjourned",
         \A i \in 1..Len(log) :
           /\ IsVisit(e) /\ IsVisit(log[i]) /\ log[i].topic = e.topic
           /\ \A k \in i+1..Len(log) : ~IsVisit(log[k])
           => e.seen < i
  PROVE  Sound(new)
<1> DEFINE N == Len(new)
<1>1. \A i \in 1..Len(log) : IsVisit(new[i]) <=> IsVisit(log[i])
  BY KeptVisits DEF Added
<1>2. N \in Nat /\ N = Len(log) + 1 /\ new[N] = e
  BY DEF Added
<1>3. ConvenedFirst(new)
  <2>1. SUFFICES ASSUME NEW i \in 1..N, new[i].does = "broadcast", new[i].obj > 0
                 PROVE  \E j \in 1..i-1 : new[j].obj = new[i].obj /\ new[j].does = "convened"
    BY DEF ConvenedFirst
  <2>2. CASE i = N
    BY <1>2, <2>1, <2>2 DEF Convened, Added, Kept
  <2>3. CASE i # N
    BY <1>2, <2>1, <2>3 DEF Sound, ConvenedFirst, Added, Kept
  <2>4. QED
    BY <2>2, <2>3
<1>4. VisitsInOrder(new)
  <2>1. SUFFICES ASSUME NEW i \in 1..N, IsVisit(new[i])
                 PROVE  /\ new[i].obj > 0
                        /\ \A j \in i+1..N : new[j].obj = new[i].obj =>
                             new[j].does = IF \A k \in i+1..j-1 : new[k].obj # new[i].obj
                                           THEN "broadcast" ELSE "adjourned"
    BY DEF VisitsInOrder
  <2>2. CASE i = N
    BY <1>2, <2>1, <2>2
  <2>3. CASE i # N
    <3>1. i \in 1..Len(log) /\ IsVisit(log[i]) /\ new[i].obj = log[i].obj
      BY <1>1, <1>2, <2>1, <2>3 DEF Added, Kept
    <3>2. new[i].obj > 0
      BY <3>1 DEF Sound, VisitsInOrder
    <3>3. SUFFICES ASSUME NEW j \in i+1..N, new[j].obj = new[i].obj
                   PROVE  new[j].does = IF \A k \in i+1..j-1 : new[k].obj # new[i].obj
                                        THEN "broadcast" ELSE "adjourned"
      BY <3>2
    <3>4. CASE j = N
      BY <1>2, <3>1, <3>3, <3>4 DEF Added, Kept
    <3>5. CASE j # N
      <4>1. j \in i+1..Len(log) /\ log[j].obj = log[i].obj /\ new[j].does = log[j].does
        <5>1. j \in i+1..Len(log) /\ j \in 1..Len(log)
          BY <1>2, <3>1, <3>5
        <5>2. QED
          BY <3>1, <3>3, <5>1 DEF Added, Kept
      <4>2. log[j].does = IF \A k \in i+1..j-1 : log[k].obj # log[i].obj
                          THEN "broadcast" ELSE "adjourned"
        BY <3>1, <4>1 DEF Sound, VisitsInOrder
      <4>3. \A k \in i+1..j-1 : new[k].obj = log[k].obj
        BY <4>1 DEF Added, Kept
      <4>4. QED
        BY <3>1, <4>1, <4>2, <4>3
    <3>6. QED
      BY <3>4, <3>5
  <2>4. QED
    BY <2>2, <2>3
<1>5. RepeatsLate(new)
  <2>1. SUFFICES ASSUME NEW i \in 1..N, NEW j \in 1..N, i < j, IsVisit(new[i]), IsVisit(new[j]),
                        new[i].topic = new[j].topic, \A k \in i+1..j-1 : ~IsVisit(new[k])
                 PROVE  new[j].seen < i
    BY DEF RepeatsLate
  <2>2. i \in 1..Len(log) /\ IsVisit(log[i]) /\ log[i].topic = new[j].topic
    BY <1>1, <1>2, <2>1 DEF Added, Kept
  <2>3. CASE j = N
    BY <1>1, <1>2, <2>1, <2>2, <2>3
  <2>4. CASE j # N
    <3>1. /\ j \in 1..Len(log) /\ IsVisit(log[j]) /\ log[j].topic = new[j].topic
          /\ log[j].seen = new[j].seen
      BY <1>1, <1>2, <2>1, <2>4 DEF Added, Kept
    <3>2. \A k \in i+1..j-1 : ~IsVisit(log[k])
      BY <1>1, <2>1, <2>2, <3>1
    <3>3. QED
      BY <2>1, <2>2, <3>1, <3>2 DEF Sound, RepeatsLate
  <2>5. QED
    BY <2>3, <2>4
<1>6. QED
  BY <1>3, <1>4, <1>5 DEF Sound

\* The next call of a session fits in.
LEMMA NextFits ==
  ASSUME NEW log \in Seq(Events), NEW s \in Seq(Calls), s # <<>>, NEW o \in Nat, o > 0,
         NEW n \in Nat, NEW e \in Events, Makes(s, o, e), InSession(log, s, o, n),
         e.by = Head(s).by, e.by = Visitor => e.seen = n
  PROVE  /\ e.does = "broadcast" => Convened(log, o)
         /\ \A i \in 1..Len(log) : IsVisit(log[i]) /\ log[i].obj = o =>
              e.does = IF \A k \in i+1..Len(log) : log[k].obj # log[i].obj
                       THEN "broadcast" ELSE "adjourned"
         /\ \A i \in 1..Len(log) :
              /\ IsVisit(e) /\ IsVisit(log[i]) /\ log[i].topic = e.topic
              /\ \A k \in i+1..Len(log) : ~IsVisit(log[k])
              => e.seen < i
<1>1. e.does = "broadcast" => Convened(log, o)
  BY TailFacts DEF InSession, Opened, Makes
<1>2. CASE AboutToVisit(log, s, o, n)
  <2>1. PICK t \in Topics : s = VisitorSession(t) /\ Untold(log, n, t)
    BY <1>2 DEF AboutToVisit
  <2>2. Head(s) = Convene(Visitor, t)
    BY <2>1, VisitorFacts
  <2>3. e.topic = t /\ e.seen = n
    BY <2>2, CallFacts DEF Makes
  <2>4. ASSUME NEW i \in 1..Len(log), IsVisit(log[i]), log[i].topic = t,
               \A k \in i+1..Len(log) : ~IsVisit(log[k])
        PROVE  n < i
    <3>1. SUFFICES ASSUME i <= n PROVE FALSE
      OBVIOUS
    <3>2. i \in 1..n /\ n <= Len(log)
      BY <2>1, <3>1 DEF Untold
    <3>3. \A k \in i+1..n : ~IsVisit(log[k])
      BY <2>4, <3>2
    <3>4. QED
      BY <2>1, <2>4, <3>2, <3>3 DEF Untold
  <2>5. \A i \in 1..Len(log) : log[i].obj # o
    BY <1>2 DEF AboutToVisit
  <2>6. QED
    BY <1>1, <2>3, <2>4, <2>5
<1>3. CASE AboutToSpeak(log, s, o)
  <2>1. Head(s) = Call("townhall", "broadcast", Visitor)
    BY <1>3, VisitorFacts DEF AboutToSpeak
  <2>2. e.does = "broadcast" /\ ~IsVisit(e)
    BY <2>1, CallFacts DEF Makes, IsVisit
  <2>3. QED
    BY <1>1, <1>3, <2>2 DEF AboutToSpeak
<1>4. CASE AboutToAdjourn(log, s, o)
  <2>1. Head(s) = Call("townhall", "adjourned", Visitor)
    BY <1>4, VisitorFacts DEF AboutToAdjourn
  <2>2. e.does = "adjourned" /\ ~IsVisit(e)
    BY <2>1, CallFacts DEF Makes, IsVisit
  <2>3. QED
    BY <1>1, <1>4, <2>2 DEF AboutToAdjourn
<1>5. CASE WithoutVisit(log, s, o)
  <2>1. ~IsVisit(e)
    BY <1>5, TailFacts DEF WithoutVisit, Makes, IsVisit
  <2>2. QED
    BY <1>1, <1>5, <2>1 DEF WithoutVisit
<1>6. QED
  BY <1>2, <1>3, <1>4, <1>5 DEF InSession

-----------------------------------------------------------------------------
(* The first and the last of some positions *)

LEMMA LeastExists ==
  ASSUME NEW P, P \subseteq Nat, P # {}
  PROVE  \E m \in P : \A k \in P : m <= k
<1>1. PICK m \in P : \A k \in P : <<k, m>> \notin OpToRel(<, Nat)
  BY NatLessThanWellFounded, WFMin
<1>2. \A k \in P : ~(k < m)
  BY <1>1 DEF OpToRel
<1>3. QED
  BY <1>2

LEMMA LastExists ==
  ASSUME NEW n \in Nat, NEW P, P \subseteq 0..n, P # {}
  PROVE  \E m \in P : \A k \in P : k <= m
<1> DEFINE Q == {d \in Nat : n - d \in P}
<1>1. Q # {}
  <2>1. PICK k \in P : TRUE
    OBVIOUS
  <2>2. n - k \in Nat /\ n - (n - k) = k
    BY <2>1
  <2>3. QED
    BY <2>1, <2>2
<1>2. PICK d \in Q : \A k \in Q : d <= k
  BY <1>1, LeastExists
<1>3. \A k \in P : n - k \in Q
  OBVIOUS
<1>4. \A k \in P : k <= n - d
  BY <1>2, <1>3
<1>5. QED
  BY <1>2, <1>4

LEMMA LastVisitFacts ==
  ASSUME NEW log \in Seq(Events)
  PROVE  /\ LastVisit(log) \in 0..Len(log)
         /\ LastVisit(log) > 0 => IsVisit(log[LastVisit(log)])
         /\ \A i \in LastVisit(log)+1..Len(log) : ~IsVisit(log[i])
<1> DEFINE I == {i \in 1..Len(log) : IsVisit(log[i])}
<1>1. LastVisit(log) = IF I # {} THEN Max(I) ELSE 0
  BY DEF LastVisit, SelectLastInSeq
<1>2. CASE I = {}
  BY <1>1, <1>2
<1>3. CASE I # {}
  <2>1. \E m \in I : \A k \in I : k <= m
    <3>1. I \subseteq 0..Len(log) /\ Len(log) \in Nat
      OBVIOUS
    <3> HIDE DEF I
    <3>2. QED
      BY <1>3, <3>1, LastExists
  <2>2. Max(I) \in I /\ \A k \in I : k <= Max(I)
    BY <2>1 DEF Max
  <2>3. LastVisit(log) \in I /\ \A k \in I : k <= LastVisit(log)
    BY <1>1, <1>3, <2>2
  <2>4. QED
    BY <2>3
<1>4. QED
  BY <1>2, <1>3

\* A topic that is not the last one told.
LEMMA NotToldIsUntold ==
  ASSUME NEW log \in Seq(Events), NEW t, ~AlreadyTold(log, t)
  PROVE  Untold(log, Len(log), t)
<1>1. ASSUME NEW i \in 1..Len(log), IsVisit(log[i]), \A k \in i+1..Len(log) : ~IsVisit(log[k])
      PROVE  log[i].topic # t
  <2>1. LastVisit(log) = i
    BY <1>1, LastVisitFacts
  <2>2. QED
    BY <1>1, <2>1 DEF AlreadyTold
<1>2. QED
  BY <1>1 DEF Untold

-----------------------------------------------------------------------------
(* What the state builder finds in a sound log *)

\* It stops at the first convene or adjourn behind the visitor's convene.
LEMMA BriefingEndFacts ==
  ASSUME NEW log \in Seq(Events), NEW c \in Nat, c = LastVisit(log), c <= Len(log)
  PROVE  /\ BriefingEnd(log) \in c+1..Len(log)+1
         /\ \A i \in c+1..BriefingEnd(log)-1 : log[i].does \notin {"adjourned", "convened"}
         /\ BriefingEnd(log) <= Len(log) =>
              log[BriefingEnd(log)].does \in {"adjourned", "convened"}
<1> DEFINE Stops == {i \in c+1..Len(log) : log[i].does \in {"adjourned", "convened"}}
<1>1. BriefingEnd(log) = IF Stops = {} THEN Len(log) + 1
                         ELSE CHOOSE i \in Stops : \A j \in Stops : i <= j
  BY DEF BriefingEnd
<1>2. CASE Stops = {}
  BY <1>1, <1>2
<1>3. CASE Stops # {}
  <2>1. \E m \in Stops : \A k \in Stops : m <= k
    <3>1. Stops \subseteq Nat
      OBVIOUS
    <3> HIDE DEF Stops
    <3>2. QED
      BY <1>3, <3>1, LeastExists
  <2>2. BriefingEnd(log) \in Stops /\ \A k \in Stops : BriefingEnd(log) <= k
    BY <1>1, <1>3, <2>1
  <2>3. QED
    BY <2>2
<1>4. QED
  BY <1>2, <1>3

\* The message m is that of the last broadcast before the end.
Reported(log, c, end, m) ==
  \/ /\ m = 0
     /\ \A i \in c+1..end-1 : log[i].does # "broadcast"
  \/ \E k \in c+1..end-1 :
       /\ m = log[k].obj /\ log[k].does = "broadcast"
       /\ \A i \in k+1..end-1 : log[i].does # "broadcast"

LEMMA MessageFacts ==
  ASSUME NEW log \in Seq(Events), NEW c \in Nat, c = LastVisit(log), c <= Len(log),
         NEW end \in c+1..Len(log)+1, end = BriefingEnd(log)
  PROVE  Reported(log, c, end, Message(log))
<1> DEFINE Said == {i \in c+1..end-1 : log[i].does = "broadcast"}
<1>1. Message(log) = IF Said = {} THEN 0
                     ELSE log[CHOOSE i \in Said : \A j \in Said : j <= i].obj
  BY DEF Message
<1>2. CASE Said = {}
  BY <1>1, <1>2 DEF Reported
<1>3. CASE Said # {}
  <2>1. \E m \in Said : \A k \in Said : k <= m
    <3>1. Said \subseteq 0..Len(log) /\ Len(log) \in Nat
      OBVIOUS
    <3> HIDE DEF Said
    <3>2. QED
      BY <1>3, <3>1, LastExists
  <2>2. PICK k : k = CHOOSE i \in Said : \A j \in Said : j <= i
    OBVIOUS
  <2>3. k \in Said /\ \A j \in Said : j <= k
    BY <2>1, <2>2
  <2>4. Message(log) = log[k].obj
    BY <1>1, <1>3, <2>2
  <2>5. \A i \in k+1..end-1 : log[i].does # "broadcast"
    BY <2>3
  <2>6. QED
    BY <2>3, <2>4, <2>5 DEF Reported
<1>4. QED
  BY <1>2, <1>3

LEMMA SoundAttributes ==
  ASSUME TypeInv, Sound(Townhall)
  PROVE  BriefingAttribution
<1> DEFINE log == Townhall  c == LastVisit(log)  m == Message(log)  end == BriefingEnd(log)
<1>1. log \in Seq(Events)
  BY DEF TypeInv, Townhall, Halls
<1>2. SUFFICES ASSUME c > 0
               PROVE  /\ (/\ Len(log) >= c + 2
                          /\ \A i \in c..c+2 : log[i].obj = log[c].obj)
                         => m = log[c].obj
                      /\ m \notin {0, log[c].obj}
                         => \E i \in 1..c-1 : log[i].obj = m /\ log[i].does = "convened"
  BY DEF BriefingAttribution
<1>3. c \in 1..Len(log) /\ IsVisit(log[c])
  BY <1>1, <1>2, LastVisitFacts
<1>4. /\ end \in c+1..Len(log)+1
      /\ \A i \in c+1..end-1 : log[i].does \notin {"adjourned", "convened"}
      /\ end <= Len(log) => log[end].does \in {"adjourned", "convened"}
  BY <1>1, <1>3, BriefingEndFacts
<1>5. /\ c = LastVisit(log) /\ m = Message(log) /\ end = BriefingEnd(log)
      /\ c \in Nat /\ c <= Len(log) /\ Sound(log)
  BY <1>1, <1>3
<1> HIDE DEF log, c, m, end
<1>6. Reported(log, c, end, m)
  BY <1>1, <1>4, <1>5, MessageFacts
<1>7. ASSUME Len(log) >= c + 2, \A i \in c..c+2 : log[i].obj = log[c].obj
      PROVE  m = log[c].obj
  <2>1. log[c+1].does = "broadcast" /\ log[c+2].does = "adjourned"
    <3>1. /\ c+1 \in c+1..Len(log) /\ c+2 \in c+1..Len(log)
          /\ log[c+1].obj = log[c].obj /\ log[c+2].obj = log[c].obj
      BY <1>1, <1>3, <1>7
    <3>2. /\ \A k \in c+1..c+1-1 : log[k].obj # log[c].obj
          /\ c+1 \in c+1..c+2-1
      BY <1>3
    <3>3. ASSUME NEW j \in c+1..Len(log), log[j].obj = log[c].obj
          PROVE  log[j].does = IF \A k \in c+1..j-1 : log[k].obj # log[c].obj
                               THEN "broadcast" ELSE "adjourned"
      BY <1>3, <1>5, <3>3 DEF Sound, VisitsInOrder
    <3>4. log[c+1].does = "broadcast"
      BY <3>1, <3>2, <3>3
    <3>5. log[c+2].does = "adjourned"
      <4>1. PICK j \in c+1..Len(log) : j = c+2 /\ log[j].obj = log[c].obj
        BY <3>1
      <4>2. log[j].does = IF \A k \in c+1..j-1 : log[k].obj # log[c].obj
                          THEN "broadcast" ELSE "adjourned"
        BY <3>3, <4>1, Zenon
      <4>3. ~ \A k \in c+1..j-1 : log[k].obj # log[c].obj
        <5>1. c+1 \in c+1..j-1
          BY <1>3, <4>1
        <5>2. log[c+1].obj = log[c].obj
          BY <3>1
        <5>3. QED
          BY <5>1, <5>2
      <4>4. QED
        BY <4>1, <4>2, <4>3
    <3>6. QED
      BY <3>4, <3>5
  <2>2. end = c+2
    BY <1>1, <1>3, <1>4, <1>7, <2>1
  <2>3. m = log[c+1].obj
    BY <1>3, <1>6, <2>1, <2>2 DEF Reported
  <2>4. QED
    BY <1>3, <1>7, <2>3
<1>8. ASSUME m # 0, m # log[c].obj
      PROVE  \E i \in 1..c-1 : log[i].obj = m /\ log[i].does = "convened"
  <2>1. PICK k \in c+1..end-1 : m = log[k].obj /\ log[k].does = "broadcast"
    BY <1>6, <1>8 DEF Reported
  <2>2. k \in 1..Len(log) /\ log[k].obj > 0
    <3>1. k \in 1..Len(log)
      BY <1>1, <1>3, <1>4
    <3>2. log[k] \in Events
      BY <1>1, <3>1
    <3>3. log[k].obj \in Nat
      BY <3>2 DEF Events
    <3>4. QED
      BY <1>8, <2>1, <3>1, <3>3
  <2>3. PICK j \in 1..k-1 : log[j].obj = m /\ log[j].does = "convened"
    BY <1>5, <2>1, <2>2 DEF Sound, ConvenedFirst
  <2>4. j \notin c+1..end-1 /\ j # c
    BY <1>4, <1>8, <2>3
  <2>5. QED
    BY <1>3, <1>4, <2>1, <2>3, <2>4
<1>9. QED
  BY <1>7, <1>8

-----------------------------------------------------------------------------
(* Types *)

LEMMA UserFacts ==
  /\ Host \in Users /\ Agents \subseteq Users
  /\ \A u \in Users : u # Host => u \in Agents
  /\ Host \notin Agents
  BY ForumsAssumption DEF Users

LEMMA FreshTyped == ASSUME NEW id \in Nat PROVE Fresh(id) \in Objects /\ Fresh(id).id = id
  BY DEF Fresh, Objects

LEMMA CallTyped ==
  ASSUME NEW h \in Halls, NEW d \in Deeds, NEW b \in Speakers, NEW t \in Topics
  PROVE  Call(h, d, b) \in Calls /\ Convene(b, t) \in Calls /\ Convene(b, None) \in Calls
  BY DEF Call, Convene, Calls, Halls, Deeds

LEMMA VisitorTyped ==
  ASSUME NEW t \in Topics PROVE VisitorSession(t) \in Seq(Calls)
<1>1. Visitor \in Speakers /\ "townhall" \in Halls
  BY DEF Speakers, Halls
<1>2. /\ Convene(Visitor, t) \in Calls
      /\ Call("townhall", "broadcast", Visitor) \in Calls
      /\ Call("townhall", "adjourned", Visitor) \in Calls
  BY <1>1, CallTyped DEF Deeds
<1>3. QED
  BY <1>2 DEF VisitorSession

\* A session that an agent decides for: at first its convene, no topic, and
\* nothing but calls of the agent.
LEMMA OwnTyped ==
  ASSUME NEW a \in Agents, NEW s \in CallTownhall(a) \cup VisitRoundtable(a)
  PROVE  /\ s \in Seq(Calls) /\ s # <<>>
         /\ \A n \in 1..Len(s) : s[n].topic = None
         /\ \A n \in 1..Len(s) : s[n].does = "broadcast" =>
              \E k \in 1..n-1 : s[k].does = "convened" /\ s[k].hall = "townhall"
<1>0. a \in Speakers /\ {"townhall", "roundtable"} = Halls
  BY DEF Speakers, Halls
<1>1. CASE s \in CallTownhall(a)
  <2> DEFINE c1 == Convene(a, None)  c2 == Call("townhall", "broadcast", a)
             c3 == Call("townhall", "adjourned", a)
  <2>1. /\ c1.topic = None /\ c2.topic = None /\ c3.topic = None
        /\ c1.does = "convened" /\ c1.hall = "townhall" /\ c3.does = "adjourned"
    BY CallFacts
  <2>2. c1 \in Calls /\ c2 \in Calls /\ c3 \in Calls
    BY <1>0 DEF Call, Convene, Calls, Halls, Deeds
  <2>3. s = <<c1, c3>> \/ s = <<c1, c2, c3>>
    BY <1>1 DEF CallTownhall
  <2> HIDE DEF c1, c2, c3
  <2>4. CASE s = <<c1, c3>>
    BY <2>1, <2>2, <2>4
  <2>5. CASE s = <<c1, c2, c3>>
    BY <2>1, <2>2, <2>5
  <2>6. QED
    BY <2>3, <2>4, <2>5
<1>2. CASE s \in VisitRoundtable(a)
  <2> DEFINE c1 == Call("roundtable", "convened", a)  c2 == Call("roundtable", "utterance", a)
             c3 == Call("roundtable", "round", a)  c4 == Call("roundtable", "adjourned", a)
  <2>1. /\ c1.topic = None /\ c2.topic = None /\ c3.topic = None /\ c4.topic = None
        /\ c1.does # "broadcast" /\ c2.does # "broadcast"
        /\ c3.does # "broadcast" /\ c4.does # "broadcast"
    BY CallFacts
  <2>2. c1 \in Calls /\ c2 \in Calls /\ c3 \in Calls /\ c4 \in Calls
    BY <1>0 DEF Call, Calls, Halls, Deeds
  <2>3. s = <<c1, c3, c4>> \/ s = <<c1, c2, c3, c4>>
    BY <1>2 DEF VisitRoundtable
  <2> HIDE DEF c1, c2, c3, c4
  <2>4. CASE s = <<c1, c3, c4>>
    BY <2>1, <2>2, <2>4
  <2>5. CASE s = <<c1, c2, c3, c4>>
    BY <2>1, <2>2, <2>5
  <2>6. QED
    BY <2>3, <2>4, <2>5
<1>3. QED
  BY <1>1, <1>2

\* What an object becomes by an event keeps its id.
LEMMA AfterTyped ==
  ASSUME NEW o \in Objects, NEW e \in Events
  PROVE  After(o, e) \in Objects /\ After(o, e).id = o.id
<1>1. /\ e.by \in Speakers
      /\ o.respondents \subseteq Speakers /\ o.spoken \subseteq Speakers
  BY DEF Events, Objects
<1>2. /\ [o EXCEPT !.speaker = e.by, !.respondents = {}] \in Objects
      /\ [o EXCEPT !.speaker = e.by, !.respondents = {}].id = o.id
  BY <1>1 DEF Objects
<1>3. /\ [o EXCEPT !.respondents = @ \cup {e.by}] \in Objects
      /\ [o EXCEPT !.respondents = @ \cup {e.by}].id = o.id
  BY <1>1 DEF Objects
<1>4. /\ [o EXCEPT !.spoken = @ \cup {e.by}] \in Objects
      /\ [o EXCEPT !.spoken = @ \cup {e.by}].id = o.id
  BY <1>1 DEF Objects
<1>5. [o EXCEPT !.spoken = {}] \in Objects /\ [o EXCEPT !.spoken = {}].id = o.id
  BY DEF Objects
<1>6. QED
  BY <1>2, <1>3, <1>4, <1>5 DEF After

LEMMA WrittenTyped ==
  ASSUME TypeInv, NEW u \in Users, NEW c \in Calls
  PROVE  LET e == Written(u, c) IN
         /\ e \in Events
         /\ e.does = c.does /\ e.topic = c.topic /\ e.by = c.by /\ e.obj = object[u].id
         /\ c.by = Visitor => e.seen = seen[u]
<1>1. object[u] \in Objects /\ seen[u] \in Nat
  BY DEF TypeInv
<1>2. /\ object[u].id \in Nat /\ object[u].spoken \subseteq Speakers
      /\ object[u].respondents \subseteq Speakers
  BY <1>1 DEF Objects
<1>3. c.hall \in Halls /\ c.does \in Deeds /\ c.by \in Speakers /\ c.topic \in Topics \cup {None}
  BY DEF Calls
<1>4. QED
  BY <1>1, <1>2, <1>3 DEF Written, Events

-----------------------------------------------------------------------------
(* What the steps do to the variables *)

LEMMA WriteFacts ==
  ASSUME TypeInv, NEW u \in Users, NEW c \in Calls, Write(u, c)
  PROVE  /\ ledger' \in [Halls -> Seq(Events)]
         /\ half' = [v \in Users |-> half'[v]]
         /\ \A v \in Users : half'[v] # <<>> =>
              half'[v][1] \in Halls /\ half'[v][2] \in 1..Len(ledger'[half'[v][1]])
         /\ seen' \in [Users -> Nat]
         /\ \A v \in Users : v # u => seen'[v] = seen[v]
         /\ object' = object /\ running' = running /\ sessions' = sessions
         /\ c.hall = "townhall" => Added(Townhall, Townhall', Written(u, c))
         /\ c.hall = "roundtable" => Same(Townhall, Townhall')
<1> DEFINE e == Written(u, c)
<1>1. e \in Events /\ c.hall \in Halls
  BY WrittenTyped DEF Calls
<1>2. ledger \in [Halls -> Seq(Events)] /\ ledger["townhall"] \in Seq(Events)
  BY DEF TypeInv, Halls
<1>3. ledger' = [ledger EXCEPT ![c.hall] = Append(ledger[c.hall], e)]
  BY DEF Write
<1> HIDE DEF e
<1>4. /\ Append(ledger[c.hall], e) \in Seq(Events)
      /\ Len(Append(ledger[c.hall], e)) = Len(ledger[c.hall]) + 1
      /\ Append(ledger[c.hall], e)[Len(ledger[c.hall]) + 1] = e
      /\ \A i \in 1..Len(ledger[c.hall]) : Append(ledger[c.hall], e)[i] = ledger[c.hall][i]
      /\ Len(ledger[c.hall]) \in Nat
  BY <1>1, <1>2
<1>5. ledger' \in [Halls -> Seq(Events)]
  BY <1>1, <1>2, <1>3, <1>4
<1>6. \A h \in Halls : Len(ledger[h]) \in Nat /\ Len(ledger[h]) <= Len(ledger'[h])
  BY <1>1, <1>2, <1>3, <1>4
<1>7. Len(ledger'[c.hall]) = Len(ledger[c.hall]) + 1
  BY <1>1, <1>2, <1>3, <1>4
<1>8. half' = [half EXCEPT ![u] = <<c.hall, Len(ledger[c.hall]) + 1>>] /\ half = [v \in Users |-> half[v]]
  BY DEF Write, TypeInv
<1>9. half' = [v \in Users |-> half'[v]]
  BY <1>8
<1>10. ASSUME NEW v \in Users, half'[v] # <<>>
       PROVE  half'[v][1] \in Halls /\ half'[v][2] \in 1..Len(ledger'[half'[v][1]])
  <2>1. CASE v = u
    BY <1>1, <1>6, <1>7, <1>8, <2>1
  <2>2. CASE v # u
    <3>1. half'[v] = half[v]
      BY <1>8, <2>2
    <3>2. half[v][1] \in Halls /\ half[v][2] \in 1..Len(ledger[half[v][1]])
      BY <1>10, <3>1 DEF TypeInv
    <3>3. half[v][2] \in 1..Len(ledger'[half[v][1]])
      BY <1>5, <1>6, <3>2
    <3>4. QED
      BY <3>1, <3>2, <3>3
  <2>3. QED
    BY <2>1, <2>2
<1>11. seen' \in [Users -> Nat] /\ \A v \in Users : v # u => seen'[v] = seen[v]
  BY DEF Write, TypeInv
<1>12. object' = object /\ running' = running /\ sessions' = sessions
  BY DEF Write
<1>13. ASSUME c.hall = "townhall"
       PROVE  Added(Townhall, Townhall', Written(u, c))
  <2>1. Townhall' = Append(Townhall, e)
    BY <1>2, <1>3, <1>13 DEF Townhall, Halls
  <2>2. Added(Townhall, Townhall', e)
    BY <1>1, <1>2, <1>4, <1>13, <2>1 DEF Added, Kept, Townhall
  <2>3. QED
    BY <2>2 DEF e
<1>14. ASSUME c.hall = "roundtable"
       PROVE  Same(Townhall, Townhall')
  <2>1. Townhall' = Townhall
    BY <1>2, <1>3, <1>14 DEF Townhall, Halls
  <2>2. QED
    BY <1>2, <2>1 DEF Same, Kept, Townhall
<1>15. QED
  BY <1>5, <1>9, <1>10, <1>11, <1>12, <1>13, <1>14

LEMMA SameIfUnchanged ==
  ASSUME TypeInv, ledger' = ledger
  PROVE  Same(Townhall, Townhall')
<1>1. Townhall \in Seq(Events) /\ Townhall' = Townhall
  BY DEF TypeInv, Townhall, Halls
<1>2. QED
  BY <1>1 DEF Same, Kept

\* An event that is mirrored only becomes public.
LEMMA MirrorFacts ==
  ASSUME TypeInv, NEW u \in Users, Mirror(u)
  PROVE  TypeInv' /\ Same(Townhall, Townhall') /\ \A v \in Users : object'[v].id = object[v].id
<1> DEFINE h == half[u][1]  i == half[u][2]  e == ledger[h][i]
<1>1. h \in Halls /\ i \in 1..Len(ledger[h])
  BY DEF Mirror, TypeInv
<1>2. ledger \in [Halls -> Seq(Events)] /\ object \in [Users -> Objects]
  BY DEF TypeInv
<1>3. ledger' = [ledger EXCEPT ![h] = [ledger[h] EXCEPT ![i] = [e EXCEPT !.public = TRUE]]]
  BY <1>1, <1>2 DEF Mirror
<1>4. object' = [object EXCEPT ![u] = After(object[u], e)] /\ half' = [half EXCEPT ![u] = <<>>]
      /\ UNCHANGED <<running, script, seen, sessions>>
  BY DEF Mirror
<1>5. e \in Events
  BY <1>1, <1>2
<1> HIDE DEF h, i, e
<1>6. LET f == [e EXCEPT !.public = TRUE] IN
      /\ f \in Events
      /\ f.does = e.does /\ f.topic = e.topic /\ f.obj = e.obj /\ f.seen = e.seen
  BY <1>5 DEF Events
<1> DEFINE f == [e EXCEPT !.public = TRUE]  new == [ledger[h] EXCEPT ![i] = f]
<1> HIDE DEF f
<1>7. f \in Events /\ f.does = e.does /\ f.topic = e.topic /\ f.obj = e.obj /\ f.seen = e.seen
  BY <1>6 DEF f
<1>8. ledger[h] \in Seq(Events)
  BY <1>1, <1>2
<1>9. /\ new \in Seq(Events) /\ Len(new) = Len(ledger[h])
      /\ \A k \in 1..Len(new) : new[k] = IF k = i THEN f ELSE ledger[h][k]
  BY <1>1, <1>7, <1>8
<1>10. ledger' = [ledger EXCEPT ![h] = new]
  BY <1>3 DEF f
<1> HIDE DEF new
<1>11. ledger' \in [Halls -> Seq(Events)] /\ \A g \in Halls : Len(ledger'[g]) = Len(ledger[g])
  BY <1>1, <1>2, <1>9, <1>10
<1>12. Same(Townhall, Townhall')
  <2>1. CASE h = "townhall"
    <3>1. Townhall' = new /\ Townhall = ledger[h] /\ e = ledger[h][i]
      BY <1>1, <1>2, <1>10, <2>1 DEF Townhall, e
    <3>2. QED
      BY <1>7, <1>8, <1>9, <3>1 DEF Same, Kept
  <2>2. CASE h # "townhall"
    <3>1. Townhall' = Townhall /\ Townhall \in Seq(Events)
      BY <1>2, <1>10, <2>2 DEF Townhall, Halls
    <3>2. QED
      BY <3>1 DEF Same, Kept
  <2>3. QED
    BY <2>1, <2>2
<1>13. \A v \in Users : object'[v] \in Objects /\ object'[v].id = object[v].id
  BY <1>2, <1>4, <1>5, AfterTyped
<1>14. object' \in [Users -> Objects]
  BY <1>2, <1>4, <1>13
<1>15. half' = [v \in Users |-> half'[v]] /\ \A v \in Users : half'[v] # <<>> => half'[v] = half[v]
  BY <1>4 DEF TypeInv
<1>16. \A v \in Users : half'[v] # <<>> =>
         half'[v][1] \in Halls /\ half'[v][2] \in 1..Len(ledger'[half'[v][1]])
  BY <1>11, <1>15 DEF TypeInv
<1>17. TypeInv'
  BY <1>4, <1>11, <1>14, <1>15, <1>16 DEF TypeInv
<1>18. QED
  BY <1>12, <1>13, <1>17

LEMMA EndFacts ==
  ASSUME TypeInv, NEW a \in Agents, End(a), ledger' = ledger, sessions' = sessions
  PROVE  /\ TypeInv'
         /\ script'[a] = <<>> /\ object'[a].id = 0
         /\ \A u \in Users : u # a => object'[u] = object[u] /\ seen'[u] = seen[u]
         /\ \A b \in Agents : b # a => script'[b] = script[b]
<1>1. a \in Users /\ Fresh(0) \in Objects /\ Fresh(0).id = 0
  BY UserFacts, FreshTyped
<1>2. /\ object' \in [Users -> Objects] /\ object'[a].id = 0
      /\ \A u \in Users : u # a => object'[u] = object[u]
  BY <1>1 DEF End, TypeInv
<1>3. /\ seen' \in [Users -> Nat] /\ script' \in [Agents -> Seq(Calls)]
      /\ script'[a] = <<>>
      /\ \A u \in Users : u # a => seen'[u] = seen[u]
      /\ \A b \in Agents : b # a => script'[b] = script[b]
  BY <1>1 DEF End, TypeInv
<1>4. /\ half' = [v \in Users |-> half'[v]]
      /\ \A v \in Users : half'[v] # <<>> => half'[v] = half[v]
      /\ running' \subseteq Agents
  BY <1>1 DEF End, TypeInv
<1>5. TypeInv'
  BY <1>2, <1>3, <1>4 DEF TypeInv
<1>6. QED
  BY <1>2, <1>3, <1>5

LEMMA BeginFacts ==
  ASSUME TypeInv, NEW a \in Agents, NEW s \in Seq(Calls), Begin(a, s)
  PROVE  /\ object' \in [Users -> Objects] /\ script' \in [Agents -> Seq(Calls)]
         /\ sessions' = sessions + 1 /\ sessions' \in Nat
         /\ script'[a] = s /\ object'[a].id = sessions + 1
         /\ \A u \in Users : u # a => object'[u] = object[u]
         /\ \A b \in Agents : b # a => script'[b] = script[b]
<1>1. a \in Users /\ sessions + 1 \in Nat
  BY UserFacts DEF TypeInv
<1>2. Fresh(sessions + 1) \in Objects /\ Fresh(sessions + 1).id = sessions + 1
  BY <1>1, FreshTyped
<1>3. QED
  BY <1>1, <1>2 DEF Begin, TypeInv

-----------------------------------------------------------------------------
(* The steps preserve the invariant *)

\* A session goes on as it was, or ends.
Stays(b) == script'[b] = script[b] /\ object'[b].id = object[b].id /\ seen'[b] = seen[b]
Ends(b) == script'[b] = <<>> /\ object'[b].id = 0

\* A step that tells the townhall nothing and begins no session.
LEMMA CalmStep ==
  ASSUME ForumInv, TypeInv', Same(Townhall, Townhall'), sessions' = sessions,
         object'[Host].id = object[Host].id, \A b \in Agents : Stays(b) \/ Ends(b)
  PROVE  ForumInv'
<1>1. Townhall \in Seq(Events) /\ Townhall' \in Seq(Events)
  BY DEF ForumInv, TypeInv, Townhall, Halls
<1>2. \A b \in Agents : seen[b] \in Nat /\ object[b].id \in Nat
  BY UserFacts DEF ForumInv, TypeInv, Objects
<1>3. IdInv'
  <2>1. \A b \in Agents : object'[b].id = object[b].id \/ object'[b].id = 0
    BY DEF Stays, Ends
  <2>2. \A b \in Agents : /\ object'[b].id <= sessions'
                          /\ script'[b] # <<>> => object'[b].id > 0
    <3>1. ForumInv => /\ sessions \in Nat
                      /\ \A b \in Agents : object[b].id <= sessions
                      /\ \A b \in Agents : script[b] # <<>> => object[b].id > 0
      BY DEF ForumInv, TypeInv, IdInv
    <3>2. QED
      BY <1>2, <3>1 DEF Stays, Ends
  <2>3. \A i \in 1..Len(Townhall') : Townhall'[i].obj <= sessions'
    BY DEF ForumInv, IdInv, Same, Kept
  <2>4. \A a, b \in Agents : object'[a].id = object'[b].id /\ object'[a].id > 0 => a = b
    BY <1>2, <2>1 DEF ForumInv, IdInv
  <2>5. object'[Host].id = 0
    BY DEF ForumInv, IdInv
  <2>6. QED
    BY <2>2, <2>3, <2>4, <2>5 DEF IdInv
<1>4. SessionInv'
  <2>1. ASSUME NEW b \in Agents
        PROVE  InSession(Townhall', script'[b], object'[b].id, seen'[b])
    <3>1. CASE Stays(b)
      <4>1. InSession(Townhall, script[b], object[b].id, seen[b])
        BY DEF ForumInv, SessionInv
      <4>2. QED
        BY <1>1, <1>2, <3>1, <4>1, SameSession DEF Stays
    <3>2. CASE Ends(b)
      BY <3>2 DEF Ends, InSession
    <3>3. QED
      BY <3>1, <3>2
  <2>2. QED
    BY <2>1 DEF SessionInv
<1>5. Sound(Townhall')
  BY <1>1, SameSound DEF ForumInv
<1>6. QED
  BY <1>3, <1>4, <1>5 DEF ForumInv

\* A session begins that fits the ledger.
LEMMA BeginStep ==
  ASSUME ForumInv, TypeInv', ledger' = ledger, NEW a \in Agents, NEW s \in Seq(Calls), s # <<>>, Begin(a, s),
         \A b \in Agents : b # a => seen'[b] = seen[b],
         (\A i \in 1..Len(Townhall) : Townhall[i].obj # sessions + 1)
           => InSession(Townhall, s, sessions + 1, seen'[a])
  PROVE  ForumInv'
<1>1. Townhall \in Seq(Events) /\ Townhall' = Townhall
  BY DEF ForumInv, TypeInv, Townhall, Halls
<1>2. /\ \A b \in Agents : object[b].id \in Nat
      /\ sessions \in Nat /\ \A i \in 1..Len(Townhall) : Townhall[i].obj <= sessions
  BY UserFacts DEF ForumInv, TypeInv, IdInv, Objects
<1>3. /\ sessions' = sessions + 1
      /\ script'[a] = s /\ object'[a].id = sessions + 1
      /\ \A u \in Users : u # a => object'[u] = object[u]
      /\ \A b \in Agents : b # a => script'[b] = script[b]
  BY BeginFacts DEF ForumInv
<1>4. \A b \in Agents : b # a => object'[b] = object[b]
  BY <1>3, UserFacts
<1>5. \A i \in 1..Len(Townhall) : Townhall[i].obj \in Nat /\ Townhall[i].obj # sessions + 1
  <2>1. \A i \in 1..Len(Townhall) : Townhall[i] \in Events
    BY <1>1
  <2>2. \A i \in 1..Len(Townhall) : Townhall[i].obj \in Nat
    BY <2>1 DEF Events
  <2>3. QED
    BY <1>2, <2>2
<1>6. IdInv'
  <2>1. object'[Host].id = 0
    BY <1>3, UserFacts DEF ForumInv, IdInv
  <2>2. \A b \in Agents : /\ object'[b].id <= sessions'
                          /\ script'[b] # <<>> => object'[b].id > 0
    BY <1>2, <1>3, <1>4 DEF ForumInv, IdInv
  <2>3. \A b, d \in Agents : object'[b].id = object'[d].id /\ object'[b].id > 0 => b = d
    BY <1>2, <1>3, <1>4 DEF ForumInv, IdInv
  <2>4. \A i \in 1..Len(Townhall') : Townhall'[i].obj <= sessions'
    BY <1>1, <1>2, <1>3, <1>5
  <2>5. QED
    BY <2>1, <2>2, <2>3, <2>4 DEF IdInv
<1>7. SessionInv'
  <2>1. ASSUME NEW b \in Agents
        PROVE  InSession(Townhall', script'[b], object'[b].id, seen'[b])
    <3>1. CASE b = a
      BY <1>1, <1>3, <1>5, <3>1
    <3>2. CASE b # a
      BY <1>1, <1>3, <1>4, <3>2 DEF ForumInv, SessionInv
    <3>3. QED
      BY <3>1, <3>2
  <2>2. QED
    BY <2>1 DEF SessionInv
<1>8. QED
  BY <1>1, <1>6, <1>7 DEF ForumInv

\* The visitor's session, and an agent's own.
LEMMA VisitorBegins ==
  ASSUME NEW log \in Seq(Events), NEW t \in Topics, ~AlreadyTold(log, t), NEW o,
         \A i \in 1..Len(log) : log[i].obj # o
  PROVE  InSession(log, VisitorSession(t), o, Len(log))
<1>1. Untold(log, Len(log), t)
  BY NotToldIsUntold
<1>2. AboutToVisit(log, VisitorSession(t), o, Len(log))
  BY <1>1 DEF AboutToVisit
<1>3. Opened(log, VisitorSession(t), o)
  <2>1. VisitorSession(t)[1].does = "convened" /\ VisitorSession(t)[1].hall = "townhall"
    BY CallFacts DEF VisitorSession
  <2>2. \A n \in 1..Len(VisitorSession(t)) : VisitorSession(t)[n].does = "broadcast" => 1 \in 1..n-1
    BY <2>1, VisitorFacts
  <2>3. QED
    BY <2>1, <2>2 DEF Opened
<1>4. QED
  BY <1>2, <1>3 DEF InSession

LEMMA OwnBegins ==
  ASSUME NEW log \in Seq(Events), NEW a \in Agents, NEW s \in CallTownhall(a) \cup VisitRoundtable(a),
         NEW o, NEW n, \A i \in 1..Len(log) : log[i].obj # o
  PROVE  InSession(log, s, o, n)
<1>1. WithoutVisit(log, s, o)
  BY OwnTyped DEF WithoutVisit
<1>2. Opened(log, s, o)
  BY OwnTyped DEF Opened
<1>3. QED
  BY <1>1, <1>2 DEF InSession

\* A call that is written: by a session, then by the host.
LEMMA SessionWrites ==
  ASSUME ForumInv, TypeInv', NEW a \in Agents, script[a] # <<>>, Write(a, Head(script[a])),
         script' = [script EXCEPT ![a] = Tail(@)]
  PROVE  ForumInv'
<1> DEFINE s == script[a]  c == Head(s)  o == object[a].id  n == seen[a]  e == Written(a, c)
<1>1. /\ Townhall \in Seq(Events) /\ Townhall' \in Seq(Events)
      /\ s \in Seq(Calls) /\ c \in Calls /\ a \in Users /\ n \in Nat /\ seen'[a] \in Nat
  BY TailFacts, UserFacts DEF ForumInv, TypeInv, Townhall, Halls
<1>2. /\ object' = object /\ sessions' = sessions
      /\ \A v \in Users : v # a => seen'[v] = seen[v]
      /\ c.hall = "townhall" => Added(Townhall, Townhall', e)
      /\ c.hall = "roundtable" => Same(Townhall, Townhall')
  BY <1>1, WriteFacts DEF ForumInv
<1>3. /\ e \in Events /\ e.does = c.does /\ e.topic = c.topic /\ e.by = c.by /\ e.obj = o
      /\ c.by = Visitor => e.seen = n
  BY <1>1, WrittenTyped DEF ForumInv
<1>4. /\ script'[a] = Tail(s)
      /\ \A b \in Agents : b # a => script'[b] = script[b] /\ seen'[b] = seen[b] /\ seen[b] \in Nat
  BY <1>2, UserFacts DEF ForumInv, TypeInv
<1>5. /\ o \in Nat /\ o > 0 /\ o <= sessions
      /\ \A b \in Agents : object[b].id \in Nat
  BY <1>1, UserFacts DEF ForumInv, TypeInv, IdInv, Objects
<1>6. InSession(Townhall, s, o, n) /\ Makes(s, o, e)
  BY <1>3 DEF ForumInv, SessionInv, Makes
<1>7. s # <<>> /\ ForumInv
  OBVIOUS
<1>8. c.hall = "townhall" \/ c.hall = "roundtable"
  BY <1>1 DEF Calls, Halls
<1>9. c = Head(s) /\ \A b \in Agents : b # a => object[b].id # o
  BY <1>5, <1>7 DEF ForumInv, IdInv
<1> HIDE DEF s, c, o, n, e
<1>10. \A i \in 1..Len(Townhall') : Townhall'[i].obj <= sessions'
  BY <1>1, <1>2, <1>3, <1>5, <1>7, <1>8 DEF ForumInv, IdInv, Added, Same, Kept
<1>11. IdInv'
  <2>1. \A b \in Agents : script'[b] # <<>> => object'[b].id > 0
    BY <1>2, <1>4, <1>5, <1>7 DEF ForumInv, IdInv, o
  <2>2. QED
    BY <1>2, <1>7, <1>10, <2>1 DEF ForumInv, IdInv
<1>12. ASSUME NEW b \in Agents
       PROVE  InSession(Townhall', script'[b], object'[b].id, seen'[b])
  <2>1. CASE b = a
    <3>1. InSession(Townhall', Tail(s), o, seen'[a])
      <4>1. CASE c.hall = "townhall"
        BY <1>1, <1>2, <1>6, <1>7, <4>1, OwnSession
      <4>2. CASE c.hall = "roundtable"
        BY <1>1, <1>2, <1>6, <1>7, <1>9, <4>2, Elsewhere
      <4>3. QED
        BY <1>8, <4>1, <4>2
    <3>2. QED
      BY <1>2, <1>4, <2>1, <3>1 DEF o
  <2>2. CASE b # a
    <3>1. InSession(Townhall, script[b], object[b].id, seen[b])
      BY <1>7 DEF ForumInv, SessionInv
    <3>2. InSession(Townhall', script[b], object[b].id, seen[b])
      <4>1. CASE c.hall = "townhall"
        <5>1. e.obj # object[b].id
          BY <1>3, <1>9, <2>2
        <5>2. QED
          BY <1>1, <1>2, <1>4, <2>2, <3>1, <4>1, <5>1, OthersSession
      <4>2. CASE c.hall = "roundtable"
        BY <1>1, <1>2, <1>4, <2>2, <3>1, <4>2, SameSession
      <4>3. QED
        BY <1>8, <4>1, <4>2
    <3>3. QED
      BY <1>2, <1>4, <2>2, <3>2
  <2>3. QED
    BY <2>1, <2>2
<1>13. Sound(Townhall')
  <2>1. CASE c.hall = "townhall"
    <3>1. Added(Townhall, Townhall', e) /\ Sound(Townhall)
      BY <1>2, <1>7, <2>1 DEF ForumInv
    <3>2. /\ e.does = "broadcast" => Convened(Townhall, o)
          /\ \A i \in 1..Len(Townhall) : IsVisit(Townhall[i]) /\ Townhall[i].obj = o =>
               e.does = IF \A k \in i+1..Len(Townhall) : Townhall[k].obj # Townhall[i].obj
                        THEN "broadcast" ELSE "adjourned"
          /\ \A i \in 1..Len(Townhall) :
               /\ IsVisit(e) /\ IsVisit(Townhall[i]) /\ Townhall[i].topic = e.topic
               /\ \A k \in i+1..Len(Townhall) : ~IsVisit(Townhall[k])
               => e.seen < i
      BY <1>1, <1>3, <1>5, <1>6, <1>7, <1>9, NextFits
    <3>3. e.obj = o
      BY <1>3
    <3>4. QED
      BY <1>1, <1>3, <1>5, <3>1, <3>2, <3>3, AddedSound
  <2>2. CASE c.hall = "roundtable"
    BY <1>1, <1>2, <1>7, <2>2, SameSound DEF ForumInv
  <2>3. QED
    BY <1>8, <2>1, <2>2
<1>14. QED
  BY <1>11, <1>12, <1>13 DEF ForumInv, SessionInv

LEMMA HostWrites ==
  ASSUME ForumInv, TypeInv', NEW c \in Calls, c.topic = None, Write(Host, c), script' = script
  PROVE  ForumInv'
<1> DEFINE e == Written(Host, c)
<1>1. Host \in Users /\ Host \notin Agents /\ Agents \subseteq Users
  BY UserFacts
<1>2. /\ object' = object /\ sessions' = sessions
      /\ \A v \in Users : v # Host => seen'[v] = seen[v]
      /\ c.hall = "townhall" => Added(Townhall, Townhall', e)
      /\ c.hall = "roundtable" => Same(Townhall, Townhall')
  BY <1>1, WriteFacts DEF ForumInv
<1>3. e \in Events /\ e.topic = None /\ e.obj = 0
  BY <1>1, WrittenTyped DEF ForumInv, IdInv
<1>4. /\ Townhall \in Seq(Events) /\ Townhall' \in Seq(Events)
      /\ sessions \in Nat /\ \A b \in Agents : seen[b] \in Nat
  BY <1>1 DEF ForumInv, TypeInv, Townhall, Halls
<1>5. c.hall = "townhall" \/ c.hall = "roundtable"
  BY DEF Calls, Halls
<1>6. \A b \in Agents : Stays(b)
  BY <1>1, <1>2 DEF Stays
<1>7. CASE c.hall = "roundtable"
  BY <1>2, <1>6, <1>7, CalmStep
<1>8. CASE c.hall = "townhall"
  <2>1. Added(Townhall, Townhall', e)
    BY <1>2, <1>8
  <2>2. ~IsVisit(e)
    BY <1>3 DEF IsVisit
  <2> HIDE DEF e
  <2>3. \A i \in 1..Len(Townhall') : Townhall'[i].obj <= sessions'
    BY <1>2, <1>3, <1>4, <2>1 DEF ForumInv, IdInv, Added, Kept
  <2>4. IdInv'
    BY <1>2, <2>3 DEF ForumInv, IdInv
  <2>5. ASSUME NEW b \in Agents
        PROVE  InSession(Townhall', script'[b], object'[b].id, seen'[b])
    <3>1. InSession(Townhall, script[b], object[b].id, seen[b])
      BY DEF ForumInv, SessionInv
    <3>2. CASE script[b] = <<>>
      BY <3>2 DEF InSession
    <3>3. CASE script[b] # <<>>
      <4>1. e.obj # object[b].id
        BY <1>3, <3>3 DEF ForumInv, IdInv
      <4>2. InSession(Townhall', script[b], object[b].id, seen[b])
        BY <1>4, <2>1, <3>1, <4>1, OthersSession
      <4>3. QED
        BY <1>2, <1>6, <4>2 DEF Stays
    <3>4. QED
      BY <3>2, <3>3
  <2>6. Sound(Townhall')
    <3>1. Sound(Townhall)
      BY DEF ForumInv
    <3>2. \A i \in 1..Len(Townhall) : IsVisit(Townhall[i]) => Townhall[i].obj > 0
      BY <3>1 DEF Sound, VisitsInOrder
    <3>3. ~(e.obj > 0) /\ \A i \in 1..Len(Townhall) : IsVisit(Townhall[i]) => Townhall[i].obj # e.obj
      BY <1>3, <3>2
    <3>4. QED
      BY <1>3, <1>4, <2>1, <2>2, <3>1, <3>3, AddedSound
  <2>7. QED
    BY <2>4, <2>5, <2>6 DEF ForumInv, SessionInv
<1>9. QED
  BY <1>5, <1>7, <1>8

LEMMA InjectStep ==
  ASSUME ForumInv, NEW a \in Agents, Inject(a)
  PROVE  ForumInv'
<1>1. /\ Townhall \in Seq(Events) /\ Townhall = ledger["townhall"] /\ a \in Users
      /\ ledger' = ledger /\ half' = half /\ running' = running \cup {a}
  BY UserFacts DEF ForumInv, TypeInv, Townhall, Halls, Inject
<1>2. PICK topic \in Topics \cup {None} :
        IF topic = None \/ AlreadyTold(ledger["townhall"], topic)
        THEN UNCHANGED <<object, script, seen, sessions>>
        ELSE /\ Begin(a, VisitorSession(topic))
             /\ seen' = [seen EXCEPT ![a] = Len(ledger["townhall"])]
  BY DEF Inject
<1>3. CASE UNCHANGED <<object, script, seen, sessions>>
  <2>1. TypeInv'
    BY <1>1, <1>3 DEF ForumInv, TypeInv
  <2>2. \A b \in Agents : Stays(b)
    BY <1>3 DEF Stays
  <2>3. QED
    BY <1>1, <1>3, <2>1, <2>2, CalmStep, SameIfUnchanged DEF ForumInv
<1>4. ASSUME topic \in Topics, ~AlreadyTold(Townhall, topic), Begin(a, VisitorSession(topic)),
             seen' = [seen EXCEPT ![a] = Len(Townhall)]
      PROVE  ForumInv'
  <2> DEFINE s == VisitorSession(topic)
  <2>1. s \in Seq(Calls) /\ s # <<>>
    BY <1>4, VisitorTyped, VisitorFacts
  <2>2. /\ seen' \in [Users -> Nat] /\ seen'[a] = Len(Townhall)
        /\ \A b \in Users : b # a => seen'[b] = seen[b]
    BY <1>1, <1>4 DEF ForumInv, TypeInv
  <2>3. Begin(a, s)
    BY <1>4
  <2>4. (\A i \in 1..Len(Townhall) : Townhall[i].obj # sessions + 1)
          => InSession(Townhall, s, sessions + 1, seen'[a])
    BY <1>1, <1>4, <2>2, VisitorBegins
  <2> HIDE DEF s
  <2>5. TypeInv'
    BY <1>1, <2>1, <2>2, <2>3, BeginFacts DEF ForumInv, TypeInv
  <2>6. \A b \in Agents : b # a => seen'[b] = seen[b]
    BY <2>2, UserFacts
  <2>7. QED
    BY <1>1, <2>1, <2>3, <2>4, <2>5, <2>6, BeginStep
<1>5. QED
  BY <1>1, <1>2, <1>3, <1>4

LEMMA VisitStep ==
  ASSUME ForumInv, NEW a \in Agents, Visit(a)
  PROVE  ForumInv'
<1>1. PICK s \in CallTownhall(a) \cup VisitRoundtable(a) : Begin(a, s)
  BY DEF Visit
<1>2. s \in Seq(Calls) /\ s # <<>>
  BY OwnTyped
<1>3. /\ ledger' = ledger /\ half' = half /\ running' = running /\ seen' = seen
      /\ Townhall \in Seq(Events)
  BY DEF Visit, ForumInv, TypeInv, Townhall, Halls
<1>4. TypeInv'
  BY <1>1, <1>2, <1>3, BeginFacts DEF ForumInv, TypeInv
<1>5. (\A i \in 1..Len(Townhall) : Townhall[i].obj # sessions + 1)
        => InSession(Townhall, s, sessions + 1, seen'[a])
  BY <1>3, OwnBegins
<1>6. QED
  BY <1>1, <1>2, <1>3, <1>4, <1>5, BeginStep

LEMMA StepStep ==
  ASSUME ForumInv, NEW a \in Agents, Step(a)
  PROVE  ForumInv'
<1>1. /\ script[a] # <<>> /\ Write(a, Head(script[a]))
      /\ script' = [script EXCEPT ![a] = Tail(@)] /\ script[a] \in Seq(Calls)
  BY DEF Step, ForumInv, TypeInv
<1>2. Head(script[a]) \in Calls /\ Tail(script[a]) \in Seq(Calls) /\ a \in Users
  BY <1>1, TailFacts, UserFacts
<1>3. script' \in [Agents -> Seq(Calls)]
  BY <1>1, <1>2 DEF ForumInv, TypeInv
<1>4. TypeInv'
  BY <1>1, <1>2, <1>3, WriteFacts DEF ForumInv, TypeInv
<1>5. QED
  BY <1>1, <1>4, SessionWrites

LEMMA HostStep ==
  ASSUME ForumInv, HostCall
  PROVE  ForumInv'
<1>1. script' = script
  BY DEF HostCall
<1>2. PICK m \in Members :
        \/ \E does \in {"convened", "broadcast", "response", "adjourned"} :
             Write(Host, Call("townhall", does, m))
        \/ \E does \in {"convened", "utterance", "round", "adjourned"} :
             Write(Host, Call("roundtable", does, m))
  BY DEF HostCall
<1>3. PICK h \in Halls, d \in Deeds : Write(Host, Call(h, d, m))
  BY <1>2 DEF Halls, Deeds
<1>4. Call(h, d, m) \in Calls /\ Call(h, d, m).topic = None
  BY DEF Call, Calls, Speakers
<1>5. TypeInv'
  BY <1>1, <1>3, <1>4, UserFacts, WriteFacts DEF ForumInv, TypeInv
<1>6. QED
  BY <1>1, <1>3, <1>4, <1>5, HostWrites

\* The end of a run leaves the other sessions alone.
LEMMA EndStep ==
  ASSUME ForumInv, NEW a \in Agents, End(a), ledger' = ledger, sessions' = sessions
  PROVE  ForumInv'
<1>1. /\ TypeInv' /\ script'[a] = <<>> /\ object'[a].id = 0
      /\ \A u \in Users : u # a => object'[u] = object[u] /\ seen'[u] = seen[u]
      /\ \A b \in Agents : b # a => script'[b] = script[b]
  BY EndFacts DEF ForumInv
<1>2. Same(Townhall, Townhall')
  BY SameIfUnchanged DEF ForumInv
<1>3. \A b \in Agents : Stays(b) \/ Ends(b)
  BY <1>1, UserFacts DEF Stays, Ends
<1>4. object'[Host].id = object[Host].id
  BY <1>1, UserFacts
<1>5. QED
  BY <1>1, <1>2, <1>3, <1>4, CalmStep

LEMMA MirrorStep ==
  ASSUME ForumInv, NEW u \in Users, Mirror(u)
  PROVE  ForumInv'
<1>1. TypeInv' /\ Same(Townhall, Townhall') /\ \A v \in Users : object'[v].id = object[v].id
  BY MirrorFacts DEF ForumInv
<1>2. \A b \in Agents : Stays(b)
  BY <1>1, UserFacts DEF Stays, Mirror
<1>3. sessions' = sessions
  BY DEF Mirror
<1>4. QED
  BY <1>1, <1>2, <1>3, UserFacts, CalmStep

LEMMA MirrorFailsStep ==
  ASSUME ForumInv, NEW u \in Users, MirrorFails(u)
  PROVE  ForumInv'
<1>1. ledger' = ledger /\ sessions' = sessions
  BY DEF MirrorFails
<1>2. CASE u # Host
  BY <1>1, <1>2, EndStep, UserFacts DEF MirrorFails
<1>3. CASE u = Host
  <2>1. half' = [half EXCEPT ![Host] = <<>>] /\ UNCHANGED <<object, running, script, seen>>
    BY <1>3 DEF MirrorFails
  <2>2. TypeInv'
    BY <1>1, <2>1, UserFacts DEF ForumInv, TypeInv
  <2>3. \A b \in Agents : Stays(b)
    BY <2>1 DEF Stays
  <2>4. QED
    BY <1>1, <2>1, <2>2, <2>3, CalmStep, SameIfUnchanged DEF ForumInv
<1>4. QED
  BY <1>2, <1>3

LEMMA ForumStep == ForumInv /\ [Next]_vars => ForumInv'
<1> SUFFICES ASSUME ForumInv, [Next]_vars
             PROVE  ForumInv'
  OBVIOUS
<1>1. CASE UNCHANGED vars
  <2>1. TypeInv' /\ \A b \in Agents : Stays(b)
    BY <1>1 DEF ForumInv, TypeInv, vars, Stays
  <2>2. QED
    BY <1>1, <2>1, CalmStep, SameIfUnchanged DEF vars, ForumInv
<1>2. ASSUME NEW a \in Agents, Inject(a) PROVE ForumInv'
  BY <1>2, InjectStep
<1>3. ASSUME NEW a \in Agents, Visit(a) PROVE ForumInv'
  BY <1>3, VisitStep
<1>4. ASSUME NEW a \in Agents, Step(a) PROVE ForumInv'
  BY <1>4, StepStep
<1>5. ASSUME NEW a \in Agents, Finish(a) PROVE ForumInv'
  BY <1>5, EndStep DEF Finish
<1>6. ASSUME NEW a \in Agents, Kill(a) PROVE ForumInv'
  BY <1>6, EndStep DEF Kill
<1>7. CASE HostCall
  BY <1>7, HostStep
<1>8. ASSUME NEW u \in Users, Mirror(u) PROVE ForumInv'
  BY <1>8, MirrorStep
<1>9. ASSUME NEW u \in Users, MirrorFails(u) PROVE ForumInv'
  BY <1>9, MirrorFailsStep
<1>10. QED
  BY <1>1, <1>2, <1>3, <1>4, <1>5, <1>6, <1>7, <1>8, <1>9 DEF Next

LEMMA ForumInit == Init => ForumInv
<1> SUFFICES ASSUME Init PROVE ForumInv
  OBVIOUS
<1>1. /\ <<>> \in Seq(Events) /\ Len(<<>>) = 0 /\ <<>> \in Seq(Calls)
      /\ Fresh(0) \in Objects /\ Fresh(0).id = 0
  BY FreshTyped
<1>2. TypeInv
  BY <1>1 DEF Init, TypeInv
<1>3. Townhall = <<>> /\ Len(Townhall) = 0
  BY <1>1 DEF Init, Townhall, Halls
<1>4. IdInv
  BY <1>1, <1>3, UserFacts DEF Init, IdInv
<1>5. SessionInv
  BY DEF Init, SessionInv, InSession
<1>6. Sound(Townhall)
  BY <1>3 DEF Sound, ConvenedFirst, VisitsInOrder, RepeatsLate
<1>7. QED
  BY <1>2, <1>4, <1>5, <1>6 DEF ForumInv

LEMMA ForumInvariant == Spec => []ForumInv
  BY ForumInit, ForumStep, PTL DEF Spec

-----------------------------------------------------------------------------
\* However sessions interleave in the townhall, whoever is killed and whatever
\* append fails: a briefing that nobody broke into is reported as the visitor's,
\* and words of anybody else only if their session was convened before.
THEOREM BriefingIsAttributed == Spec => []BriefingAttribution
<1>1. ForumInv => BriefingAttribution
  BY SoundAttributes DEF ForumInv
<1>2. QED
  BY <1>1, ForumInvariant, PTL

\* A topic is told twice in a row only by runs that had read the ledger before
\* the first of them convened.
THEOREM OnlyOverlapsRepeat == Spec => []RepeatsOverlap
<1>1. ForumInv => RepeatsOverlap
  BY DEF ForumInv, Sound, RepeatsLate, RepeatsOverlap
<1>2. QED
  BY <1>1, ForumInvariant, PTL

-----------------------------------------------------------------------------
(* Rounds and answers: what a forum object has counted is what its events in *)
(* both ledgers tell.                                                        *)

\* The calls of each forum.
Fits(c) ==
  \/ c.hall = "townhall" /\ c.does \in {"convened", "broadcast", "response", "adjourned"}
  \/ c.hall = "roundtable" /\ c.does \in {"convened", "utterance", "round", "adjourned"}

InUse(u) == u = Host \/ object[u].id > 0

Table == ledger["roundtable"]
Spoke(u) == Since(Table, object[u].id, Len(Table) + 1, "utterance", "round")
Answered(u) == Since(Townhall, object[u].id, Len(Townhall) + 1, "response", "convened")
Counts(u) == Spoke(u) = object[u].spoken /\ Answered(u) = object[u].respondents

\* The event that is about to be mirrored is the last of its object, and agrees
\* with what the object has counted.
Agrees(e, o) ==
  /\ e.hall = "roundtable" => /\ e.does = "round" => e.told = o.spoken
                              /\ e.does = "utterance" => e.by \notin o.spoken
  /\ e.hall = "townhall" => /\ e.does = "adjourned" => e.told = o.respondents
                            /\ e.does = "response" => e.by \notin o.respondents
Pending(log, h, i, o) ==
  LET e == log[i] IN
  /\ Fits(e) /\ e.hall = h /\ e.obj = o.id /\ ~e.public
  /\ \A k \in i+1..Len(log) : log[k].obj # o.id
  /\ Agrees(e, o)

Mirrors(u) == Pending(ledger[half[u][1]], half[u][1], half[u][2], object[u])

SessionsInv ==
  /\ \A h \in Halls : \A i \in 1..Len(ledger[h]) : ledger[h][i].obj <= sessions
  /\ \A a \in Agents :
       /\ a \notin running => script[a] = <<>> /\ half[a] = <<>>
       /\ half[a] # <<>> => object[a].id > 0
       /\ \A n \in 1..Len(script[a]) : Fits(script[a][n])

CountInv ==
  /\ RoundsAccounted
  /\ SessionsInv
  /\ \A u \in Users :
       /\ InUse(u) => Counts(u)
       /\ half[u] # <<>> => Mirrors(u)

-----------------------------------------------------------------------------
(* Two changes of a log: an event comes behind the others, in one ledger     *)
(* only; and the last event of its object comes to be in both.               *)

LEMMA SinceHas ==
  ASSUME NEW log, NEW o, NEW n, NEW does, NEW reset, NEW b
  PROVE  b \in Since(log, o, n, does, reset) <=>
           \E i \in 1..n-1 :
             /\ log[i].public /\ log[i].obj = o /\ log[i].does = does /\ log[i].by = b
             /\ \A r \in 1..n-1 : log[r].public /\ log[r].obj = o /\ log[r].does = reset => r < i
  BY DEF Since

\* Two logs that agree on the object's public events before n.
LEMMA SinceSame ==
  ASSUME NEW log, NEW new, NEW o, NEW n \in Nat, NEW does, NEW reset,
         \A i \in 1..n-1 : (log[i].public /\ log[i].obj = o) <=> (new[i].public /\ new[i].obj = o),
         \A i \in 1..n-1 : log[i].public /\ log[i].obj = o =>
            new[i].does = log[i].does /\ new[i].by = log[i].by
  PROVE  Since(new, o, n, does, reset) = Since(log, o, n, does, reset)
<1>1. ASSUME NEW b
      PROVE  b \in Since(new, o, n, does, reset) <=> b \in Since(log, o, n, does, reset)
  BY SinceHas
<1>2. QED
  BY <1>1

\* Behind the last public event of an object there is nothing more to count.
LEMMA SinceLater ==
  ASSUME NEW log, NEW o, NEW n \in Nat, NEW m \in Nat, n <= m, NEW does, NEW reset,
         \A k \in n..m-1 : ~(log[k].public /\ log[k].obj = o)
  PROVE  Since(log, o, m, does, reset) = Since(log, o, n, does, reset)
<1>1. ASSUME NEW b
      PROVE  b \in Since(log, o, m, does, reset) <=> b \in Since(log, o, n, does, reset)
  <2>1. \A i \in 1..m-1 : log[i].public /\ log[i].obj = o => i \in 1..n-1
    OBVIOUS
  <2>2. \A i \in 1..n-1 : i \in 1..m-1
    OBVIOUS
  <2>3. QED
    BY <2>1, <2>2, SinceHas
<1>2. QED
  BY <1>1

\* An event comes behind the others.
Behind(log, new, e) ==
  /\ Len(new) = Len(log) + 1 /\ new[Len(log) + 1] = e
  /\ \A i \in 1..Len(log) : new[i] = log[i]

LEMMA AppendedCount ==
  ASSUME NEW log, Len(log) \in Nat, NEW e, ~e.public, NEW new, Behind(log, new, e),
         NEW does, NEW reset, NEW total
  PROVE  /\ \A o : Since(new, o, Len(new) + 1, does, reset) = Since(log, o, Len(log) + 1, does, reset)
         /\ Accounted(log, does, reset, total) => Accounted(new, does, reset, total)
<1> DEFINE N == Len(log)
<1>1. N \in Nat /\ Len(new) = N + 1 /\ new[N+1] = e /\ \A i \in 1..N : new[i] = log[i]
  BY DEF Behind
<1> HIDE DEF N
<1>2. \A o : \A n \in 1..N+1 : Since(new, o, n, does, reset) = Since(log, o, n, does, reset)
  <2>1. ASSUME NEW o, NEW n \in 1..N+1
        PROVE  Since(new, o, n, does, reset) = Since(log, o, n, does, reset)
    <3>1. n \in Nat /\ \A i \in 1..n-1 : new[i] = log[i]
      BY <1>1
    <3>2. /\ \A i \in 1..n-1 : (log[i].public /\ log[i].obj = o) <=> (new[i].public /\ new[i].obj = o)
          /\ \A i \in 1..n-1 : new[i].does = log[i].does /\ new[i].by = log[i].by
      BY <3>1
    <3>3. QED
      BY <3>1, <3>2, SinceSame
  <2>2. QED
    BY <2>1
<1>3. ASSUME NEW o PROVE Since(new, o, Len(new) + 1, does, reset) = Since(log, o, N + 1, does, reset)
  <2>1. /\ \A k \in N+1..(N+2)-1 : ~(new[k].public /\ new[k].obj = o)
        /\ N+1 \in Nat /\ N+2 \in Nat /\ N+1 <= N+2
    BY <1>1
  <2>2. Since(new, o, N+2, does, reset) = Since(new, o, N+1, does, reset)
    BY <2>1, SinceLater
  <2>3. Len(new) + 1 = N + 2
    BY <1>1
  <2>4. QED
    BY <1>1, <1>2, <2>2, <2>3
<1>4. ASSUME Accounted(log, does, reset, total) PROVE Accounted(new, does, reset, total)
  <2>1. ASSUME NEW n \in 1..Len(new), new[n].public
        PROVE  LET since == Since(new, new[n].obj, n, does, reset) IN
               /\ new[n].does = total => new[n].told = since
               /\ new[n].does = does => new[n].by \notin since
    <3>1. n \in 1..N /\ n \in 1..N+1 /\ new[n] = log[n]
      BY <1>1, <2>1
    <3>2. QED
      BY <1>2, <1>4, <2>1, <3>1 DEF Accounted, N
  <2>2. QED
    BY <2>1 DEF Accounted
<1>5. QED
  BY <1>3, <1>4 DEF N

\* Event i of a log is e; now it is public.
Published(log, new, i, e) ==
  /\ i \in 1..Len(log) /\ Len(new) = Len(log) /\ e = log[i] /\ ~e.public
  /\ \A k \in i+1..Len(log) : log[k].obj # e.obj
  /\ \A k \in 1..Len(log) : k # i => new[k] = log[k]
  /\ new[i].public /\ new[i].obj = e.obj /\ new[i].does = e.does
  /\ new[i].by = e.by /\ new[i].told = e.told

\* What is counted behind event e, if it was S before.
Counting(e, does, reset, S) ==
  IF e.does = reset THEN {} ELSE IF e.does = does THEN S \cup {e.by} ELSE S

LEMMA PublishedCount ==
  ASSUME NEW log, Len(log) \in Nat, NEW new, NEW i, NEW e, Published(log, new, i, e),
         NEW does, NEW reset, does # reset
  PROVE  /\ \A o : o # e.obj => Since(new, o, Len(new) + 1, does, reset)
                                 = Since(log, o, Len(log) + 1, does, reset)
         /\ Since(new, e.obj, Len(new) + 1, does, reset)
              = Counting(e, does, reset, Since(log, e.obj, Len(log) + 1, does, reset))
<1> DEFINE N == Len(log)
<1>1. N \in Nat /\ i \in 1..N /\ Len(new) = N
  BY DEF Published
<1>2. ASSUME NEW o, o # e.obj PROVE Since(new, o, N+1, does, reset) = Since(log, o, N+1, does, reset)
  <2>1. \A k \in 1..N : k # i => new[k] = log[k]
    BY DEF Published
  <2>2. log[i].obj # o /\ new[i].obj # o
    BY <1>2 DEF Published
  <2>3. (N+1)-1 = N /\ N+1 \in Nat
    BY <1>1
  <2>4. \A k \in 1..N : (log[k].public /\ log[k].obj = o) <=> (new[k].public /\ new[k].obj = o)
    BY <2>1, <2>2
  <2>5. \A k \in 1..N : log[k].public /\ log[k].obj = o => new[k].does = log[k].does /\ new[k].by = log[k].by
    BY <2>1, <2>2
  <2>6. QED
    BY <2>3, <2>4, <2>5, SinceSame
<1>3. ASSUME NEW b
      PROVE  b \in Since(new, e.obj, N+1, does, reset) <=>
               b \in (IF e.does = reset THEN {}
                      ELSE IF e.does = does THEN Since(log, e.obj, N+1, does, reset) \cup {e.by}
                      ELSE Since(log, e.obj, N+1, does, reset))
  <2> DEFINE Has(f, k) == f[k].public /\ f[k].obj = e.obj
             In(f) == \E k \in 1..N : /\ Has(f, k) /\ f[k].does = does /\ f[k].by = b
                                      /\ \A r \in 1..N : Has(f, r) /\ f[r].does = reset => r < k
  <2>1. (N+1)-1 = N
    BY <1>1
  <2>2. b \in Since(log, e.obj, N+1, does, reset) <=> In(log)
    BY <2>1, SinceHas
  <2>3. b \in Since(new, e.obj, N+1, does, reset) <=> In(new)
    BY <2>1, SinceHas
  <2>4. /\ \A k \in 1..N : k # i => new[k] = log[k]
        /\ \A k \in 1..N : Has(new, k) => k <= i
        /\ Has(new, i) /\ ~Has(log, i) /\ new[i].does = e.does /\ new[i].by = e.by
    BY <1>1 DEF Published
  <2>5. CASE e.does = reset
    <3>1. ~In(new)
      BY <1>1, <2>4, <2>5
    <3>2. QED
      BY <2>3, <2>5, <3>1
  <2>6. CASE e.does # reset
    <3>1. \A r \in 1..N : (Has(new, r) /\ new[r].does = reset) <=> (Has(log, r) /\ log[r].does = reset)
      BY <2>4, <2>6
    <3>2. \A k \in 1..N : k # i => (Has(new, k) <=> Has(log, k)) /\ new[k] = log[k]
      BY <2>4
    <3>3. \A r \in 1..N : Has(new, r) /\ new[r].does = reset => r < i
      BY <1>1, <2>4, <2>6
    <3> HIDE DEF Has
    <3>4. In(log) => In(new)
      BY <2>4, <3>1, <3>2
    <3>5. ASSUME In(new) PROVE In(log) \/ (e.does = does /\ e.by = b)
      <4>1. PICK k \in 1..N : /\ Has(new, k) /\ new[k].does = does /\ new[k].by = b
                              /\ \A r \in 1..N : Has(new, r) /\ new[r].does = reset => r < k
        BY <3>5
      <4>2. \A r \in 1..N : Has(log, r) /\ log[r].does = reset => r < k
        BY <3>1, <4>1
      <4>3. CASE k = i
        BY <2>4, <4>1, <4>3
      <4>4. CASE k # i
        BY <3>2, <4>1, <4>2, <4>4
      <4>5. QED
        BY <4>3, <4>4
    <3>6. e.does = does /\ e.by = b => In(new)
      BY <1>1, <2>4, <3>3
    <3>7. QED
      BY <2>2, <2>3, <2>6, <3>4, <3>5, <3>6
  <2>7. QED
    BY <2>5, <2>6
<1>4. Since(new, e.obj, N+1, does, reset)
        = Counting(e, does, reset, Since(log, e.obj, N+1, does, reset))
  BY <1>3 DEF Counting
<1>5. QED
  BY <1>1, <1>2, <1>4

LEMMA PublishedAccounted ==
  ASSUME NEW log, Len(log) \in Nat, NEW new, NEW i, NEW e, Published(log, new, i, e),
         NEW does, NEW reset, NEW total, Accounted(log, does, reset, total),
         e.does = total => e.told = Since(log, e.obj, Len(log) + 1, does, reset),
         e.does = does => e.by \notin Since(log, e.obj, Len(log) + 1, does, reset)
  PROVE  Accounted(new, does, reset, total)
<1> DEFINE N == Len(log)
<1>1. N \in Nat /\ i \in 1..N /\ Len(new) = N /\ \A k \in 1..N : k # i => new[k] = log[k]
  BY DEF Published
<1>2. Since(log, e.obj, N+1, does, reset) = Since(log, e.obj, i, does, reset)
  <2>1. \A k \in i..(N+1)-1 : ~(log[k].public /\ log[k].obj = e.obj)
    BY <1>1 DEF Published
  <2>2. QED
    BY <1>1, <2>1, SinceLater
<1>3. \A o : \A n \in 1..N : n <= i \/ o # e.obj =>
        Since(new, o, n, does, reset) = Since(log, o, n, does, reset)
  <2>1. ASSUME NEW o, NEW n \in 1..N, n <= i \/ o # e.obj
        PROVE  Since(new, o, n, does, reset) = Since(log, o, n, does, reset)
    <3>1. \A k \in 1..n-1 : k \in 1..N
      BY <1>1
    <3>2. \A k \in 1..n-1 : (log[k].public /\ log[k].obj = o) <=> (new[k].public /\ new[k].obj = o)
      BY <1>1, <2>1, <3>1 DEF Published
    <3>3. \A k \in 1..n-1 : log[k].public /\ log[k].obj = o => new[k].does = log[k].does /\ new[k].by = log[k].by
      BY <1>1, <2>1, <3>1 DEF Published
    <3>4. QED
      BY <1>1, <3>2, <3>3, SinceSame
  <2>2. QED
    BY <2>1
<1>4. ASSUME NEW n \in 1..Len(new), new[n].public
      PROVE  LET since == Since(new, new[n].obj, n, does, reset) IN
             /\ new[n].does = total => new[n].told = since
             /\ new[n].does = does => new[n].by \notin since
  <2>1. CASE n = i
    <3>1. new[n].obj = e.obj /\ new[n].does = e.does /\ new[n].by = e.by /\ new[n].told = e.told
      BY <2>1 DEF Published
    <3>2. Since(new, e.obj, n, does, reset) = Since(log, e.obj, N+1, does, reset)
      BY <1>1, <1>2, <1>3, <2>1
    <3>3. QED
      BY <3>1, <3>2
  <2>2. CASE n # i
    <3>1. n \in 1..N /\ new[n] = log[n]
      BY <1>1, <1>4, <2>2
    <3>2. n <= i \/ log[n].obj # e.obj
      BY <1>1, <3>1 DEF Published
    <3>3. Since(new, log[n].obj, n, does, reset) = Since(log, log[n].obj, n, does, reset)
      BY <1>3, <3>1, <3>2
    <3>4. QED
      BY <1>4, <3>1, <3>3 DEF Accounted
  <2>3. QED
    BY <2>1, <2>2
<1>5. QED
  BY <1>4 DEF Accounted

-----------------------------------------------------------------------------
(* The steps *)

LEMMA AgentCalls ==
  ASSUME NEW a \in Agents, NEW s \in CallTownhall(a) \cup VisitRoundtable(a)
  PROVE  \A n \in 1..Len(s) : Fits(s[n])
<1>1. CASE s \in CallTownhall(a)
  <2> DEFINE c1 == Convene(a, None)  c2 == Call("townhall", "broadcast", a)
             c3 == Call("townhall", "adjourned", a)
  <2>1. Fits(c1) /\ Fits(c2) /\ Fits(c3)
    BY CallFacts DEF Fits
  <2>2. s = <<c1, c3>> \/ s = <<c1, c2, c3>>
    BY <1>1 DEF CallTownhall
  <2> HIDE DEF c1, c2, c3
  <2>3. QED
    BY <2>1, <2>2
<1>2. CASE s \in VisitRoundtable(a)
  <2> DEFINE c1 == Call("roundtable", "convened", a)  c2 == Call("roundtable", "utterance", a)
             c3 == Call("roundtable", "round", a)  c4 == Call("roundtable", "adjourned", a)
  <2>1. Fits(c1) /\ Fits(c2) /\ Fits(c3) /\ Fits(c4)
    BY CallFacts DEF Fits
  <2>2. s = <<c1, c3, c4>> \/ s = <<c1, c2, c3, c4>>
    BY <1>2 DEF VisitRoundtable
  <2> HIDE DEF c1, c2, c3, c4
  <2>3. QED
    BY <2>1, <2>2
<1>3. QED
  BY <1>1, <1>2

LEMMA VisitorCalls ==
  ASSUME NEW t PROVE \A n \in 1..Len(VisitorSession(t)) : Fits(VisitorSession(t)[n])
<1> DEFINE c1 == Convene(Visitor, t)  c2 == Call("townhall", "broadcast", Visitor)
           c3 == Call("townhall", "adjourned", Visitor)
<1>1. Fits(c1) /\ Fits(c2) /\ Fits(c3)
  BY CallFacts DEF Fits
<1>2. VisitorSession(t) = <<c1, c2, c3>>
  BY DEF VisitorSession
<1> HIDE DEF c1, c2, c3
<1>3. QED
  BY <1>1, <1>2

\* Users' objects differ by their ids, but for those that are not in use.
LEMMA OwnObject ==
  ASSUME ForumInv, NEW u \in Users, NEW v \in Users, InUse(u), object[v].id = object[u].id, InUse(v)
  PROVE  v = u
<1>1. object[Host].id = 0 /\ \A w \in Users : object[w].id \in Nat
  BY UserFacts DEF ForumInv, IdInv, TypeInv, Objects
<1>2. QED
  BY <1>1, UserFacts DEF ForumInv, IdInv, InUse

\* A step that writes to no ledger: an object and what it is about to mirror
\* stay, or a mirror is given up, or the run ends, or a session begins.
Rests(u) == object'[u] = object[u] /\ half'[u] \in {half[u], <<>>}
Leaves(u) == u \in Agents /\ object'[u].id = 0 /\ half'[u] = <<>>
Starts(u) == u \in Agents /\ object'[u] = Fresh(sessions + 1) /\ half'[u] = <<>> /\ sessions' = sessions + 1

LEMMA RestStep ==
  ASSUME ForumInv, CountInv, ledger' = ledger, sessions' \in Nat, sessions <= sessions',
         \A u \in Users : Rests(u) \/ Leaves(u) \/ Starts(u),
         \A a \in Agents :
           /\ a \notin running' => script'[a] = <<>> /\ half'[a] = <<>>
           /\ \A n \in 1..Len(script'[a]) : Fits(script'[a][n])
  PROVE  CountInv'
<1>1. /\ sessions \in Nat /\ ledger \in [Halls -> Seq(Events)]
      /\ \A u \in Users : object[u] \in Objects
      /\ "townhall" \in Halls /\ "roundtable" \in Halls
      /\ Townhall' = Townhall /\ Table' = Table
  BY DEF ForumInv, TypeInv, Halls, Townhall, Table
<1>2. \A h \in Halls : \A i \in 1..Len(ledger[h]) : ledger[h][i].obj \in Nat /\ ledger[h][i].obj <= sessions
  <2>1. \A h \in Halls : \A i \in 1..Len(ledger[h]) : ledger[h][i] \in Events
    BY <1>1
  <2>2. QED
    BY <2>1 DEF Events, CountInv, SessionsInv
<1>3. RoundsAccounted'
  BY <1>1 DEF CountInv, RoundsAccounted, Table
<1>4. ASSUME NEW u \in Users, InUse(u)'
      PROVE  Counts(u)'
  <2>1. CASE Rests(u)
    <3>1. InUse(u) /\ object'[u] = object[u]
      BY <1>4, <2>1 DEF InUse, Rests
    <3>2. Counts(u)
      BY <3>1 DEF CountInv
    <3>3. QED
      BY <1>1, <3>1, <3>2 DEF Counts, Spoke, Answered
  <2>2. CASE Leaves(u)
    BY <1>4, <2>2, UserFacts DEF Leaves, InUse
  <2>3. CASE Starts(u)
    <3>1. /\ object'[u].id = sessions + 1 /\ object'[u].spoken = {} /\ object'[u].respondents = {}
      BY <2>3 DEF Starts, Fresh
    <3>2. /\ \A i \in 1..Len(Table) : Table[i].obj # sessions + 1
          /\ \A i \in 1..Len(Townhall) : Townhall[i].obj # sessions + 1
          /\ Len(Table) \in Nat /\ Len(Townhall) \in Nat
      <4>1. \A h \in Halls : /\ \A i \in 1..Len(ledger[h]) : ledger[h][i].obj # sessions + 1
                              /\ Len(ledger[h]) \in Nat
        BY <1>1, <1>2
      <4>2. QED
        BY <1>1, <4>1 DEF Table, Townhall
    <3>3. Since(Table, sessions + 1, Len(Table) + 1, "utterance", "round") = {}
      BY <3>2, SinceHas
    <3>4. Since(Townhall, sessions + 1, Len(Townhall) + 1, "response", "convened") = {}
      BY <3>2, SinceHas
    <3>5. QED
      BY <1>1, <3>1, <3>3, <3>4 DEF Counts, Spoke, Answered
  <2>4. QED
    BY <2>1, <2>2, <2>3
<1>5. ASSUME NEW u \in Users, half'[u] # <<>>
      PROVE  Mirrors(u)'
  <2>1. half'[u] = half[u] /\ object'[u] = object[u]
    BY <1>5 DEF Rests, Leaves, Starts
  <2>2. Mirrors(u)
    BY <1>5, <2>1 DEF CountInv
  <2>3. QED
    BY <2>1, <2>2 DEF Mirrors
<1>6. ASSUME NEW a \in Agents, half'[a] # <<>> PROVE object'[a].id > 0
  <2>1. half'[a] = half[a] /\ object'[a] = object[a]
    BY <1>6, UserFacts DEF Rests, Leaves, Starts
  <2>2. QED
    BY <1>6, <2>1 DEF CountInv, SessionsInv
<1>7. SessionsInv'
  <2>1. \A h \in Halls : \A i \in 1..Len(ledger'[h]) : ledger'[h][i].obj <= sessions'
    BY <1>1, <1>2
  <2>2. QED
    BY <1>6, <2>1 DEF SessionsInv
<1>8. QED
  BY <1>3, <1>4, <1>5, <1>7 DEF CountInv

\* The end of a run.
LEMMA EndCounts ==
  ASSUME ForumInv, CountInv, NEW a \in Agents, End(a), ledger' = ledger, sessions' = sessions
  PROVE  CountInv'
<1>1. /\ TypeInv /\ TypeInv' /\ a \in Users /\ sessions \in Nat
      /\ script'[a] = <<>> /\ object'[a].id = 0
      /\ \A u \in Users : u # a => object'[u] = object[u]
      /\ \A b \in Agents : b # a => script'[b] = script[b]
  BY EndFacts, UserFacts DEF ForumInv, TypeInv
<1>2. /\ half'[a] = <<>> /\ \A u \in Users : u # a => half'[u] = half[u]
      /\ running' = running \ {a}
  BY <1>1 DEF End, TypeInv
<1>3. \A u \in Users : Rests(u) \/ Leaves(u)
  BY <1>1, <1>2 DEF Rests, Leaves
<1>4. \A b \in Agents :
        /\ b \notin running' => script'[b] = <<>> /\ half'[b] = <<>>
        /\ \A n \in 1..Len(script'[b]) : Fits(script'[b][n])
  BY <1>1, <1>2, UserFacts DEF CountInv, SessionsInv
<1>5. QED
  BY <1>1, <1>3, <1>4, RestStep

LEMMA BeginCounts ==
  ASSUME ForumInv, CountInv, NEW a \in Agents, NEW s \in Seq(Calls), Begin(a, s),
         \A n \in 1..Len(s) : Fits(s[n]), ledger' = ledger, half' = half, half[a] = <<>>,
         running \subseteq running', a \in running'
  PROVE  CountInv'
<1>1. /\ sessions' = sessions + 1 /\ sessions \in Nat /\ sessions' \in Nat
      /\ script'[a] = s
      /\ \A u \in Users : u # a => object'[u] = object[u]
      /\ \A b \in Agents : b # a => script'[b] = script[b]
  BY BeginFacts DEF ForumInv, TypeInv
<1>2. object'[a] = Fresh(sessions + 1)
  BY UserFacts DEF Begin, ForumInv, TypeInv
<1>3. \A u \in Users : Rests(u) \/ Starts(u)
  BY <1>1, <1>2 DEF Rests, Starts
<1>4. \A b \in Agents :
        /\ b \notin running' => script'[b] = <<>> /\ half'[b] = <<>>
        /\ \A n \in 1..Len(script'[b]) : Fits(script'[b][n])
  BY <1>1 DEF CountInv, SessionsInv
<1>5. QED
  BY <1>1, <1>3, <1>4, RestStep

LEMMA InjectCounts ==
  ASSUME ForumInv, CountInv, NEW a \in Agents, Inject(a)
  PROVE  CountInv'
<1>1. /\ ledger' = ledger /\ half' = half /\ running' = running \cup {a} /\ half[a] = <<>>
      /\ sessions \in Nat
  BY DEF Inject, CountInv, SessionsInv, ForumInv, TypeInv
<1>2. PICK topic \in Topics \cup {None} :
        IF topic = None \/ AlreadyTold(ledger["townhall"], topic)
        THEN UNCHANGED <<object, script, seen, sessions>>
        ELSE Begin(a, VisitorSession(topic))
  BY DEF Inject
<1>3. CASE UNCHANGED <<object, script, seen, sessions>>
  <2>1. \A u \in Users : Rests(u)
    BY <1>1, <1>3 DEF Rests
  <2>2. \A b \in Agents :
          /\ b \notin running' => script'[b] = <<>> /\ half'[b] = <<>>
          /\ \A n \in 1..Len(script'[b]) : Fits(script'[b][n])
    BY <1>1, <1>3 DEF CountInv, SessionsInv
  <2>3. QED
    BY <1>1, <1>3, <2>1, <2>2, RestStep
<1>4. CASE topic \in Topics /\ Begin(a, VisitorSession(topic))
  BY <1>1, <1>4, VisitorTyped, VisitorCalls, BeginCounts
<1>5. QED
  BY <1>2, <1>3, <1>4

LEMMA VisitCounts ==
  ASSUME ForumInv, CountInv, NEW a \in Agents, Visit(a)
  PROVE  CountInv'
<1>1. PICK s \in CallTownhall(a) \cup VisitRoundtable(a) : Begin(a, s)
  BY DEF Visit
<1>2. /\ ledger' = ledger /\ half' = half /\ running' = running /\ half[a] = <<>> /\ a \in running
  BY DEF Visit, Idle
<1>3. QED
  BY <1>1, <1>2, OwnTyped, AgentCalls, BeginCounts

LEMMA GivenUpCounts ==
  ASSUME ForumInv, CountInv, NEW u \in Users, MirrorFails(u)
  PROVE  CountInv'
<1>1. ledger' = ledger /\ sessions' = sessions /\ sessions \in Nat
  BY DEF MirrorFails, ForumInv, TypeInv
<1>2. CASE u # Host
  BY <1>1, <1>2, EndCounts, UserFacts DEF MirrorFails
<1>3. CASE u = Host
  <2>1. half' = [half EXCEPT ![Host] = <<>>] /\ UNCHANGED <<object, running, script, seen>>
    BY <1>3 DEF MirrorFails
  <2>2. \A v \in Users : Rests(v)
    BY <2>1 DEF Rests, ForumInv, TypeInv
  <2>3. \A b \in Agents :
          /\ b \notin running' => script'[b] = <<>> /\ half'[b] = <<>>
          /\ \A n \in 1..Len(script'[b]) : Fits(script'[b][n])
    BY <2>1, <2>2, UserFacts DEF CountInv, SessionsInv, Rests
  <2>4. QED
    BY <1>1, <2>2, <2>3, RestStep
<1>4. QED
  BY <1>2, <1>3

\* A call is written to the forum's own ledger.
LEMMA WriteCounts ==
  ASSUME ForumInv, TypeInv', CountInv, NEW u \in Users, NEW c \in Calls, Fits(c), Write(u, c), InUse(u),
         \A a \in Agents : \A n \in 1..Len(script'[a]) : Fits(script'[a][n]),
         \A a \in Agents : a \notin running => script'[a] = <<>> /\ a # u
  PROVE  CountInv'
<1> DEFINE e == Written(u, c)  o == object[u].id  g == c.hall  N == Len(ledger[g])
<1>1. /\ sessions \in Nat /\ ledger \in [Halls -> Seq(Events)] /\ half = [v \in Users |-> half[v]]
      /\ \A v \in Users : object[v] \in Objects /\ object[v].id \in Nat /\ object[v].id <= sessions
      /\ "townhall" \in Halls /\ "roundtable" \in Halls /\ g \in Halls
  <2>1. /\ sessions \in Nat /\ ledger \in [Halls -> Seq(Events)] /\ half = [v \in Users |-> half[v]]
        /\ \A v \in Users : object[v] \in Objects
        /\ "townhall" \in Halls /\ "roundtable" \in Halls /\ g \in Halls
    BY DEF ForumInv, TypeInv, Halls, Calls
  <2>2. \A v \in Users : object[v].id \in Nat
    BY <2>1 DEF Objects
  <2>3. \A v \in Users : object[v].id <= sessions
    BY <2>1, UserFacts DEF ForumInv, IdInv
  <2>4. QED
    BY <2>1, <2>2, <2>3
<1>2. /\ e \in Events /\ e.does = c.does /\ e.by = c.by /\ e.obj = o
      /\ e.hall = g /\ ~e.public
      /\ e.told = IF c.does = "round" THEN object[u].spoken
                  ELSE IF c.does = "adjourned" /\ c.hall = "townhall" THEN object[u].respondents
                  ELSE {}
  BY WrittenTyped DEF ForumInv, Written
<1>3. /\ ledger' = [ledger EXCEPT ![g] = Append(ledger[g], e)]
      /\ half' = [half EXCEPT ![u] = <<g, N + 1>>]
      /\ object' = object /\ running' = running /\ sessions' = sessions /\ Allowed(u, c)
  BY DEF Write
<1>4. Agrees(e, object[u])
  BY <1>2, <1>3 DEF Agrees, Allowed
<1>5. Fits(e)
  BY <1>2 DEF Fits
<1>6. o \in Nat /\ o <= sessions
  BY <1>1
<1> HIDE DEF e, o
<1>7. /\ ledger[g] \in Seq(Events) /\ N \in Nat /\ N = Len(ledger[g])
      /\ ledger'[g] = Append(ledger[g], e) /\ Len(ledger'[g]) = N + 1 /\ ledger'[g][N+1] = e
      /\ \A i \in 1..N : ledger'[g][i] = ledger[g][i]
      /\ \A h \in Halls : h # g => ledger'[h] = ledger[h]
  BY <1>1, <1>2, <1>3
<1> HIDE DEF N
<1>8. ASSUME NEW h \in Halls, NEW does, NEW reset, NEW total
      PROVE  /\ \A q : Since(ledger'[h], q, Len(ledger'[h]) + 1, does, reset)
                       = Since(ledger[h], q, Len(ledger[h]) + 1, does, reset)
             /\ Accounted(ledger[h], does, reset, total) => Accounted(ledger'[h], does, reset, total)
  <2>1. CASE h = g
    <3>1. Len(ledger[h]) \in Nat /\ Behind(ledger[h], ledger'[h], e) /\ ~e.public
      BY <1>2, <1>7, <2>1 DEF Behind
    <3>2. QED
      BY <3>1, AppendedCount
  <2>2. CASE h # g
    BY <1>7, <2>2
  <2>3. QED
    BY <2>1, <2>2
<1>9. RoundsAccounted'
  BY <1>1, <1>8 DEF CountInv, RoundsAccounted, Townhall
<1>10. ASSUME NEW v \in Users, InUse(v)' PROVE Counts(v)'
  <2>1. Counts(v)
    BY <1>3, <1>10 DEF InUse, CountInv
  <2>2. Spoke(v)' = Spoke(v) /\ Answered(v)' = Answered(v)
    <3>1. Since(Table', object[v].id, Len(Table') + 1, "utterance", "round")
            = Since(Table, object[v].id, Len(Table) + 1, "utterance", "round")
      <4>1. \A q : Since(ledger'["roundtable"], q, Len(ledger'["roundtable"]) + 1, "utterance", "round")
                    = Since(ledger["roundtable"], q, Len(ledger["roundtable"]) + 1, "utterance", "round")
        BY <1>1, <1>8
      <4>2. QED
        BY <4>1, Zenon DEF Table
    <3>2. Since(Townhall', object[v].id, Len(Townhall') + 1, "response", "convened")
            = Since(Townhall, object[v].id, Len(Townhall) + 1, "response", "convened")
      <4>1. \A q : Since(ledger'["townhall"], q, Len(ledger'["townhall"]) + 1, "response", "convened")
                    = Since(ledger["townhall"], q, Len(ledger["townhall"]) + 1, "response", "convened")
        BY <1>1, <1>8
      <4>2. QED
        BY <4>1, Zenon DEF Townhall
    <3>3. QED
      BY <1>3, <3>1, <3>2 DEF Spoke, Answered
  <2>3. QED
    BY <1>3, <2>1, <2>2 DEF Counts
<1>11. ASSUME NEW v \in Users, half'[v] # <<>> PROVE Mirrors(v)'
  <2>1. CASE v = u
    <3>1. half'[v][1] = g /\ half'[v][2] = N + 1 /\ object'[v] = object[u]
      BY <1>1, <1>3, <2>1
    <3>2. Pending(ledger'[g], g, N + 1, object[u])
      <4>1. \A k \in (N+1)+1..Len(ledger'[g]) : FALSE
        BY <1>7
      <4>2. e.obj = object[u].id
        BY <1>2 DEF o
      <4>3. QED
        BY <1>2, <1>4, <1>5, <1>7, <4>1, <4>2 DEF Pending
    <3>3. QED
      BY <3>1, <3>2 DEF Mirrors
  <2>2. CASE v # u
    <3> DEFINE h == half[v][1]  i == half[v][2]
    <3>1. half'[v] = half[v] /\ object'[v] = object[v] /\ half[v] # <<>>
      BY <1>1, <1>3, <1>11, <2>2
    <3>2. h \in Halls /\ i \in 1..Len(ledger[h]) /\ Pending(ledger[h], h, i, object[v])
      BY <3>1 DEF CountInv, Mirrors, ForumInv, TypeInv
    <3>3. InUse(v)
      BY <3>1, UserFacts DEF CountInv, SessionsInv, InUse
    <3>4. object[v].id # o
      BY <2>2, <3>3, OwnObject DEF o
    <3> HIDE DEF h, i
    <3>5. Pending(ledger'[h], h, i, object[v])
      <4>1. CASE h = g
        <5>1. i \in 1..N /\ ledger'[h][i] = ledger[h][i]
          BY <1>7, <3>2, <4>1
        <5>2. ASSUME NEW k \in i+1..Len(ledger'[h]) PROVE ledger'[h][k].obj # object[v].id
          <6>1. CASE k = N + 1
            BY <1>2, <1>7, <3>4, <4>1, <6>1
          <6>2. CASE k # N + 1
            <7>1. k \in i+1..N /\ k \in 1..N
              BY <1>7, <4>1, <5>1, <5>2, <6>2
            <7>2. QED
              BY <1>7, <3>2, <4>1, <7>1 DEF Pending
          <6>3. QED
            BY <6>1, <6>2
        <5>3. QED
          BY <3>2, <5>1, <5>2 DEF Pending
      <4>2. CASE h # g
        BY <1>7, <3>2, <4>2
      <4>3. QED
        BY <4>1, <4>2
    <3>6. QED
      BY <3>1, <3>5 DEF Mirrors, h, i
  <2>3. QED
    BY <2>1, <2>2
<1>12. SessionsInv'
  <2>1. ASSUME NEW h \in Halls, NEW i \in 1..Len(ledger'[h]) PROVE ledger'[h][i].obj <= sessions'
    <3>1. CASE h = g /\ i = N + 1
      BY <1>2, <1>3, <1>6, <1>7, <3>1
    <3>2. CASE ~(h = g /\ i = N + 1)
      <4>1. i \in 1..Len(ledger[h]) /\ ledger'[h][i] = ledger[h][i]
        BY <1>7, <3>2
      <4>2. QED
        BY <1>3, <4>1 DEF CountInv, SessionsInv
    <3>3. QED
      BY <3>1, <3>2
  <2>2. ASSUME NEW a \in Agents
        PROVE  /\ a \notin running' => script'[a] = <<>> /\ half'[a] = <<>>
               /\ half'[a] # <<>> => object'[a].id > 0
    <3>1. a \in Users /\ a # Host
      BY UserFacts
    <3>2. a # u => half'[a] = half[a]
      BY <1>1, <1>3, <3>1
    <3>3. a = u => object[a].id > 0
      BY <3>1 DEF InUse
    <3>4. QED
      BY <1>3, <3>2, <3>3 DEF CountInv, SessionsInv
  <2>3. QED
    BY <2>1, <2>2 DEF SessionsInv
<1>13. QED
  BY <1>9, <1>10, <1>11, <1>12 DEF CountInv

\* What an object counts when its event is in both ledgers.
LEMMA AfterCounts ==
  ASSUME NEW x \in Objects, NEW e \in Events, Fits(e)
  PROVE  /\ After(x, e).id = x.id
         /\ After(x, e).spoken = IF e.hall = "roundtable"
                                 THEN Counting(e, "utterance", "round", x.spoken) ELSE x.spoken
         /\ After(x, e).respondents = IF e.hall = "townhall"
                                      THEN Counting(e, "response", "convened", x.respondents)
                                      ELSE x.respondents
<1>1. x = [id |-> x.id, speaker |-> x.speaker, respondents |-> x.respondents, spoken |-> x.spoken]
  BY DEF Objects
<1>2. CASE e.hall = "townhall" /\ e.does = "convened"
  BY <1>1, <1>2 DEF After, Counting
<1>3. CASE e.does = "response" /\ e.hall = "townhall"
  BY <1>1, <1>3 DEF After, Counting
<1>4. CASE e.does = "utterance" /\ e.hall = "roundtable"
  BY <1>1, <1>4 DEF After, Counting
<1>5. CASE e.does = "round" /\ e.hall = "roundtable"
  BY <1>1, <1>5 DEF After, Counting
<1>6. CASE e.does \in {"broadcast", "adjourned"} \/ (e.hall = "roundtable" /\ e.does = "convened")
  BY <1>1, <1>6 DEF After, Counting
<1>7. QED
  BY <1>2, <1>3, <1>4, <1>5, <1>6 DEF Fits

LEMMA MirrorCounts ==
  ASSUME ForumInv, CountInv, NEW u \in Users, Mirror(u)
  PROVE  CountInv'
<1> DEFINE g == half[u][1]  i == half[u][2]  e == ledger[g][i]  log == ledger[g]
           new == [log EXCEPT ![i].public = TRUE]
<1>1. /\ ledger \in [Halls -> Seq(Events)] /\ object \in [Users -> Objects]
      /\ half = [v \in Users |-> half[v]]
      /\ "townhall" \in Halls /\ "roundtable" \in Halls
      /\ g \in Halls /\ i \in 1..Len(log) /\ log \in Seq(Events) /\ e \in Events /\ Len(log) \in Nat
  BY DEF Mirror, ForumInv, TypeInv, Halls
<1>2. /\ ledger' = [ledger EXCEPT ![g] = new]
      /\ object' = [object EXCEPT ![u] = After(object[u], e)]
      /\ half' = [half EXCEPT ![u] = <<>>]
      /\ UNCHANGED <<running, script, sessions>>
  BY <1>1 DEF Mirror
<1>3. Pending(log, g, i, object[u])
  BY DEF Mirror, CountInv, Mirrors
<1>4. Fits(e) /\ e.hall = g /\ e.obj = object[u].id /\ ~e.public /\ Agrees(e, object[u])
  BY <1>3 DEF Pending
<1>5. /\ Len(new) = Len(log) /\ \A k \in 1..Len(log) : k # i => new[k] = log[k]
      /\ new[i] = [e EXCEPT !.public = TRUE]
  BY <1>1
<1>6. Published(log, new, i, e)
  <2>1. LET f == [e EXCEPT !.public = TRUE] IN
        /\ f.public /\ f.obj = e.obj /\ f.does = e.does /\ f.by = e.by /\ f.told = e.told
    BY <1>1 DEF Events
  <2>2. QED
    BY <1>1, <1>3, <1>5, <2>1 DEF Published, Pending
<1>7. InUse(u)
  BY UserFacts DEF Mirror, CountInv, SessionsInv, InUse
<1>8. Counts(u)
  BY <1>7 DEF CountInv
<1> HIDE DEF new
<1>9. ledger'[g] = new /\ \A h \in Halls : h # g => ledger'[h] = ledger[h]
  BY <1>1, <1>2
<1> DEFINE x == object[u]
<1>10. x \in Objects /\ object'[u] = After(x, e) /\ \A v \in Users : v # u => object'[v] = object[v]
  BY <1>1, <1>2
<1>11. After(x, e).id = x.id
  BY <1>1, <1>4, <1>10, AfterCounts
<1> HIDE DEF g, i, e, log, x
<1>12. \A v \in Users : object'[v].id = object[v].id
  BY <1>10, <1>11 DEF x
<1>13. RoundsAccounted'
  <2>1. CASE g = "roundtable"
    <3>1. Accounted(new, "utterance", "round", "round")
      <4>1. Spoke(u) = x.spoken /\ log = Table /\ e.obj = x.id
        BY <1>4, <1>8, <2>1 DEF Counts, Table, log, x
      <4>2. Since(log, e.obj, Len(log) + 1, "utterance", "round") = x.spoken
        BY <4>1 DEF Spoke, x
      <4>3. Accounted(log, "utterance", "round", "round")
        BY <4>1 DEF CountInv, RoundsAccounted, Table
      <4>4. /\ e.does = "round" => e.told = x.spoken
            /\ e.does = "utterance" => e.by \notin x.spoken
        BY <1>4, <2>1 DEF Agrees, x
      <4>5. QED
        BY <1>1, <1>6, <4>2, <4>3, <4>4, PublishedAccounted
    <3>2. Townhall' = Townhall /\ ledger'["roundtable"] = new
      BY <1>1, <1>9, <2>1 DEF Townhall
    <3>3. QED
      BY <3>1, <3>2 DEF CountInv, RoundsAccounted
  <2>2. CASE g = "townhall"
    <3>1. Accounted(new, "response", "convened", "adjourned")
      <4>1. Answered(u) = x.respondents /\ log = Townhall /\ e.obj = x.id
        BY <1>4, <1>8, <2>2 DEF Counts, Townhall, log, x
      <4>2. Since(log, e.obj, Len(log) + 1, "response", "convened") = x.respondents
        BY <4>1 DEF Answered, x
      <4>3. Accounted(log, "response", "convened", "adjourned")
        BY <4>1 DEF CountInv, RoundsAccounted
      <4>4. /\ e.does = "adjourned" => e.told = x.respondents
            /\ e.does = "response" => e.by \notin x.respondents
        BY <1>4, <2>2 DEF Agrees, x
      <4>5. QED
        BY <1>1, <1>6, <4>2, <4>3, <4>4, PublishedAccounted
    <3>2. Townhall' = new /\ ledger'["roundtable"] = ledger["roundtable"]
      BY <1>1, <1>9, <2>2 DEF Townhall
    <3>3. QED
      BY <3>1, <3>2 DEF CountInv, RoundsAccounted
  <2>3. QED
    BY <1>1, <2>1, <2>2 DEF Halls
<1>14. ASSUME NEW v \in Users, InUse(v)' PROVE Counts(v)'
  <2>1. InUse(v) /\ Counts(v) /\ object'[v].id = object[v].id
    BY <1>12, <1>14 DEF InUse, CountInv
  <2>2. v # u => object[v].id # e.obj
    BY <1>4, <1>7, <2>1, OwnObject
  <2>3. e.obj = x.id /\ (v = u => object[v] = x)
    BY <1>4 DEF x
  <2> DEFINE before(f, does, reset) == Since(f, object[v].id, Len(f) + 1, does, reset)
  <2>4. ASSUME NEW does, NEW reset, does # reset
        PROVE  before(new, does, reset) =
                 IF v # u THEN before(log, does, reset)
                 ELSE Counting(e, does, reset, before(log, does, reset))
    <3>1. Len(log) \in Nat /\ Published(log, new, i, e) /\ does # reset
      BY <1>1, <1>6, <2>4 DEF log
    <3>2. \A o : o # e.obj => Since(new, o, Len(new) + 1, does, reset)
                            = Since(log, o, Len(log) + 1, does, reset)
      BY <3>1, PublishedCount
    <3>3. Since(new, e.obj, Len(new) + 1, does, reset)
            = Counting(e, does, reset, Since(log, e.obj, Len(log) + 1, does, reset))
      BY <3>1, PublishedCount
    <3>4. QED
      <4>1. CASE v # u
        BY <2>2, <3>2, <4>1
      <4>2. CASE v = u
        BY <2>3, <3>3, <4>2
      <4>3. QED
        BY <4>1, <4>2
  <2>5. before(new, "utterance", "round") =
          IF v # u THEN before(log, "utterance", "round")
          ELSE Counting(e, "utterance", "round", before(log, "utterance", "round"))
    BY <2>4
  <2>6. before(new, "response", "convened") =
          IF v # u THEN before(log, "response", "convened")
          ELSE Counting(e, "response", "convened", before(log, "response", "convened"))
    BY <2>4
  <2> DEFINE spoken == before(Table, "utterance", "round")
             answered == before(Townhall, "response", "convened")
  <2>7. spoken = object[v].spoken /\ answered = object[v].respondents
    BY <2>1 DEF Counts, Spoke, Answered
  <2>8. /\ Spoke(v)' = before(Table', "utterance", "round")
        /\ Answered(v)' = before(Townhall', "response", "convened")
    BY <2>1 DEF Spoke, Answered
  <2>9. /\ g = "roundtable" => Table = log /\ Table' = new /\ Townhall' = Townhall
        /\ g = "townhall" => Townhall = log /\ Townhall' = new /\ Table' = Table
        /\ g \in {"roundtable", "townhall"} /\ e.hall = g
    BY <1>1, <1>4, <1>9 DEF Table, Townhall, Halls, log
  <2>10. /\ v = u => object'[v] = After(x, e) /\ object[v] = x
         /\ v # u => object'[v] = object[v]
    BY <1>10 DEF x
  <2> HIDE DEF before
  <2>11. CASE v # u
    BY <2>5, <2>6, <2>7, <2>8, <2>9, <2>10, <2>11 DEF Counts
  <2>12. CASE v = u
    <3>1. /\ After(x, e).spoken = IF e.hall = "roundtable"
                                  THEN Counting(e, "utterance", "round", x.spoken) ELSE x.spoken
          /\ After(x, e).respondents = IF e.hall = "townhall"
                                       THEN Counting(e, "response", "convened", x.respondents)
                                       ELSE x.respondents
      BY <1>1, <1>4, <1>10, AfterCounts
    <3>2. Spoke(v)' = object'[v].spoken
      BY <2>5, <2>7, <2>8, <2>9, <2>10, <2>12, <3>1
    <3>3. Answered(v)' = object'[v].respondents
      BY <2>6, <2>7, <2>8, <2>9, <2>10, <2>12, <3>1
    <3>4. QED
      BY <3>2, <3>3 DEF Counts
  <2>13. QED
    BY <2>11, <2>12
<1>15. ASSUME NEW v \in Users, half'[v] # <<>> PROVE Mirrors(v)'
  <2> DEFINE h == half[v][1]  j == half[v][2]
  <2>1. v # u /\ half'[v] = half[v] /\ half[v] # <<>> /\ object'[v] = object[v]
    BY <1>1, <1>2, <1>10, <1>15
  <2>2. /\ h \in Halls /\ j \in 1..Len(ledger[h]) /\ Pending(ledger[h], h, j, object[v])
    BY <2>1 DEF CountInv, Mirrors, ForumInv, TypeInv
  <2>3. InUse(v)
    BY <2>1, UserFacts DEF CountInv, SessionsInv, InUse
  <2>4. object[v].id # e.obj
    BY <1>4, <1>7, <2>1, <2>3, OwnObject
  <2> HIDE DEF h, j
  <2>5. Pending(ledger'[h], h, j, object[v])
    <3>1. CASE h = g
      <4>1. ledger[h] = log /\ ledger'[h] = new /\ log[i] = e /\ log[j].obj = object[v].id
        BY <1>9, <2>2, <3>1 DEF log, e, Pending
      <4>2. j # i /\ new[j] = log[j] /\ Len(new) = Len(log)
        BY <1>5, <2>2, <2>4, <4>1
      <4>3. ASSUME NEW k \in j+1..Len(new) PROVE new[k].obj # object[v].id
        <5>1. k \in 1..Len(log) /\ k \in j+1..Len(log) /\ log[k].obj # object[v].id
          BY <2>2, <4>1, <4>2 DEF Pending
        <5>2. new[k].obj = log[k].obj
          <6>1. CASE k = i
            BY <1>6, <6>1 DEF Published
          <6>2. CASE k # i
            BY <1>5, <5>1, <6>2
          <6>3. QED
            BY <6>1, <6>2
        <5>3. QED
          BY <5>1, <5>2
      <4>4. QED
        BY <2>2, <4>1, <4>2, <4>3 DEF Pending
    <3>2. CASE h # g
      BY <1>9, <2>2, <3>2
    <3>3. QED
      BY <3>1, <3>2
  <2>6. QED
    BY <2>1, <2>5 DEF Mirrors, h, j
<1>16. SessionsInv'
  <2>1. ASSUME NEW h \in Halls, NEW k \in 1..Len(ledger'[h]) PROVE ledger'[h][k].obj <= sessions'
    <3>1. CASE h = g
      <4>1. ledger[h] = log /\ ledger'[h] = new /\ Len(new) = Len(log) /\ new[k].obj = log[k].obj
        BY <1>5, <1>6, <1>9, <3>1 DEF Published, log
      <4>2. QED
        BY <1>2, <4>1 DEF CountInv, SessionsInv
    <3>2. CASE h # g
      BY <1>2, <1>9, <3>2 DEF CountInv, SessionsInv
    <3>3. QED
      BY <3>1, <3>2
  <2>2. \A a \in Agents : half'[a] \in {half[a], <<>>}
    BY <1>1, <1>2, UserFacts
  <2>3. QED
    BY <1>2, <1>12, <2>1, <2>2, UserFacts DEF CountInv, SessionsInv
<1>17. QED
  BY <1>13, <1>14, <1>15, <1>16 DEF CountInv

LEMMA StepCounts ==
  ASSUME ForumInv, TypeInv', CountInv, NEW a \in Agents, Step(a)
  PROVE  CountInv'
<1>1. /\ script[a] # <<>> /\ Write(a, Head(script[a])) /\ script[a] \in Seq(Calls)
      /\ script' = [script EXCEPT ![a] = Tail(script[a])]
      /\ script \in [Agents -> Seq(Calls)] /\ a \in running
  BY DEF Step, ForumInv, TypeInv, CountInv, SessionsInv
<1>2. /\ Head(script[a]) \in Calls /\ Fits(Head(script[a])) /\ a \in Users
      /\ \A n \in 1..Len(Tail(script[a])) : Fits(Tail(script[a])[n])
  <2>1. \A n \in 1..Len(script[a]) : Fits(script[a][n])
    BY DEF CountInv, SessionsInv
  <2>2. QED
    BY <1>1, <2>1, TailFacts, UserFacts
<1>3. InUse(a)
  BY <1>1 DEF InUse, ForumInv, IdInv
<1>4. \A b \in Agents : script'[b] = IF b = a THEN Tail(script[a]) ELSE script[b]
  BY <1>1
<1>5. \A b \in Agents : \A n \in 1..Len(script'[b]) : Fits(script'[b][n])
  BY <1>2, <1>4 DEF CountInv, SessionsInv
<1>6. \A b \in Agents : b \notin running => script'[b] = <<>> /\ b # a
  BY <1>1, <1>4 DEF CountInv, SessionsInv
<1>7. QED
  BY <1>1, <1>2, <1>3, <1>5, <1>6, WriteCounts

LEMMA HostCounts ==
  ASSUME ForumInv, TypeInv', CountInv, HostCall
  PROVE  CountInv'
<1>1. script' = script
  BY DEF HostCall
<1>2. PICK m \in Members :
        \/ \E does \in {"convened", "broadcast", "response", "adjourned"} :
             Write(Host, Call("townhall", does, m))
        \/ \E does \in {"convened", "utterance", "round", "adjourned"} :
             Write(Host, Call("roundtable", does, m))
  BY DEF HostCall
<1>3. PICK c \in Calls : Write(Host, c) /\ Fits(c)
  <2>1. ASSUME NEW h \in Halls, NEW d \in Deeds
        PROVE  Call(h, d, m) \in Calls /\ Call(h, d, m).hall = h /\ Call(h, d, m).does = d
    BY DEF Call, Calls, Speakers
  <2>2. QED
    BY <1>2, <2>1 DEF Fits, Halls, Deeds
<1>4. \A b \in Agents : b \notin running => script'[b] = <<>> /\ b # Host
  BY <1>1, UserFacts DEF CountInv, SessionsInv
<1>5. \A b \in Agents : \A n \in 1..Len(script'[b]) : Fits(script'[b][n])
  BY <1>1 DEF CountInv, SessionsInv
<1>6. QED
  BY <1>3, <1>4, <1>5, UserFacts, WriteCounts DEF InUse

LEMMA CountStep == ForumInv /\ ForumInv' /\ CountInv /\ [Next]_vars => CountInv'
<1> SUFFICES ASSUME ForumInv, ForumInv', CountInv, [Next]_vars
             PROVE  CountInv'
  OBVIOUS
<1>1. TypeInv'
  BY DEF ForumInv
<1>2. CASE UNCHANGED vars
  <2>1. \A u \in Users : Rests(u)
    BY <1>2 DEF Rests, vars
  <2>2. /\ ledger' = ledger /\ sessions' = sessions /\ script' = script
        /\ half' = half /\ running' = running /\ sessions \in Nat
    BY <1>2 DEF vars, ForumInv, TypeInv
  <2>3. \A a \in Agents :
          /\ a \notin running' => script'[a] = <<>> /\ half'[a] = <<>>
          /\ \A n \in 1..Len(script'[a]) : Fits(script'[a][n])
    BY <2>2 DEF CountInv, SessionsInv
  <2>4. QED
    BY <2>1, <2>2, <2>3, RestStep
<1>3. ASSUME NEW a \in Agents, Inject(a) PROVE CountInv'
  BY <1>3, InjectCounts
<1>4. ASSUME NEW a \in Agents, Visit(a) PROVE CountInv'
  BY <1>4, VisitCounts
<1>5. ASSUME NEW a \in Agents, Step(a) PROVE CountInv'
  BY <1>1, <1>5, StepCounts
<1>6. ASSUME NEW a \in Agents, Finish(a) PROVE CountInv'
  BY <1>6, EndCounts DEF Finish
<1>7. ASSUME NEW a \in Agents, Kill(a) PROVE CountInv'
  BY <1>7, EndCounts DEF Kill
<1>8. CASE HostCall
  BY <1>1, <1>8, HostCounts
<1>9. ASSUME NEW u \in Users, Mirror(u) PROVE CountInv'
  BY <1>9, MirrorCounts
<1>10. ASSUME NEW u \in Users, MirrorFails(u) PROVE CountInv'
  BY <1>10, GivenUpCounts
<1>11. QED
  BY <1>2, <1>3, <1>4, <1>5, <1>6, <1>7, <1>8, <1>9, <1>10 DEF Next

LEMMA CountInit == Init => CountInv
<1> SUFFICES ASSUME Init PROVE CountInv
  OBVIOUS
<1>1. /\ Table = <<>> /\ Townhall = <<>> /\ Len(<<>>) = 0
      /\ \A h \in Halls : ledger[h] = <<>>
      /\ \A u \in Users : object[u] = Fresh(0) /\ half[u] = <<>>
      /\ \A a \in Agents : script[a] = <<>>
  BY DEF Init, Table, Townhall, Halls
<1>2. RoundsAccounted
  BY <1>1 DEF RoundsAccounted, Accounted, Table
<1>3. \A o, does, reset : Since(<<>>, o, Len(<<>>) + 1, does, reset) = {}
  BY <1>1, SinceHas
<1>4. ASSUME NEW u \in Users PROVE Counts(u)
  <2>1. object[u].spoken = {} /\ object[u].respondents = {}
    BY <1>1 DEF Fresh
  <2>2. Spoke(u) = {} /\ Answered(u) = {}
    BY <1>1, <1>3 DEF Spoke, Answered
  <2>3. QED
    BY <2>1, <2>2 DEF Counts
<1>5. SessionsInv
  BY <1>1, UserFacts DEF SessionsInv
<1>6. QED
  BY <1>1, <1>2, <1>4, <1>5 DEF CountInv

\* Roundtable.complete_round() and Townhall.adjourn() report what the object
\* counted, which is what the two ledgers tell: for any members and sessions,
\* and although other sessions, kills and failing appends come between.
THEOREM RoundsAreAccounted == Spec => []RoundsAccounted
<1>1. Init => ForumInv /\ CountInv
  BY ForumInit, CountInit
<1>2. (ForumInv /\ CountInv) /\ [Next]_vars => (ForumInv /\ CountInv)'
  BY ForumStep, CountStep
<1>3. CountInv => RoundsAccounted
  BY DEF CountInv
<1>4. QED
  BY <1>1, <1>2, <1>3, PTL DEF Spec
=============================================================================
