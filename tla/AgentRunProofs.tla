--------------------------- MODULE AgentRunProofs ---------------------------
(***************************************************************************)
(* What the runs of any number of agents leave behind, for any choice of   *)
(* leaves, tools, faults and bounds.  Everything follows from the order of *)
(* the operations in what a run still has to do: each of them is told when *)
(* it is done, before the next one, and nothing is told that was not done. *)
(***************************************************************************)
EXTENDS AgentRun, SequenceTheorems, TLAPS

\* What an operation is called here: an event of a forum's own ledger is
\* "said", another event has its kind, everything else the operator's name.
Name(op) == IF op.do # "append" THEN op.do
            ELSE IF op.ledger \in Forums THEN "said" ELSE op.kind

Acts == {"verify", "gate", "initialize", "llm", "choose", "build", "respond",
         "summary", "bump", "sync", "view", "revise", "artifact"}

\* The ledgers and kinds that are used together.
Known(op) ==
  /\ op \in Ops
  /\ op.do = "append" =>
       /\ op.ledger \in Ledgers /\ op.kind \in Kinds
       /\ op.kind \in ForumKinds => op.ledger \in Forums \cup {"public"}
       /\ op.ledger \in Forums => op.kind \in ForumKinds
       /\ op.kind = "started" => op.ledger = "public"

\* The operations of which the public ledger has to tell, and those that do.
Makes(op) == CASE Name(op) = "revise" -> "revision" [] Name(op) = "artifact" -> "artifact"
               [] Name(op) = "said" -> "forum"      [] Name(op) = "choose" -> "field"
               [] OTHER -> "nothing"
Tells(op) == CASE Name(op) = "revised" -> "revision" [] Name(op) = "stored" -> "artifact"
               [] Name(op) \in ForumKinds -> "forum" [] Name(op) = "chosen" -> "field"
               [] OTHER -> "nothing"

Has(s, name) == \E i \in 1..Len(s) : Name(s[i]) = name

\* Each operation that is to be told is told next.
Paired(s) ==
  /\ \A i \in 1..Len(s) : Makes(s[i]) # "nothing" =>
       i < Len(s) /\ Tells(s[i + 1]) = Makes(s[i])
  /\ \A i \in 2..Len(s) : Tells(s[i]) # "nothing" => Makes(s[i - 1]) = Tells(s[i])

\* A decision from its choice to its evaluation, and the end of a run.
Rank(name) == CASE name = "taken" -> 1     [] name = "respond" -> 2
                [] name = "executed" -> 3  [] name = "completed" -> 4
                [] name = "evaluated" -> 5 [] name = "bump" -> 6
                [] OTHER -> 0

InOrder(s) == \A i, j \in 1..Len(s) :
  i < j /\ Rank(Name(s[i])) > 0 /\ Rank(Name(s[j])) > 0 => Rank(Name(s[i])) < Rank(Name(s[j]))

Follows(s, first, then) == \A i \in 1..Len(s) :
  Name(s[i]) = first => \E j \in i+1..Len(s) : Name(s[j]) = then

\* What holds of every rest of a script.
Rules(s) ==
  /\ s \in Seq(Ops)
  /\ \A i \in 1..Len(s) : Known(s[i])
  /\ Paired(s)
  /\ InOrder(s)
  /\ Follows(s, "taken", "respond")
  /\ Follows(s, "completed", "evaluated") /\ Follows(s, "completed", "bump")
  /\ Follows(s, "visited", "left") /\ Follows(s, "initialize", "choose")
  /\ \A i, j \in 1..Len(s) : Name(s[i]) = "choose" /\ Name(s[j]) = "choose" => i = j
  /\ \A i \in 2..Len(s) : Name(s[i]) # "initialize"
  /\ Has(s, "respond") => /\ ~Has(s, "completed") /\ ~Has(s, "bump")
                          /\ ~Has(s, "choose") /\ ~Has(s, "left")
  /\ ~(Has(s, "left") /\ Has(s, "build"))

\* What a run does before its try and in the handlers behind it.
Outer == {"verify", "boundary", "gate", "started", "allowlist", "armed", "sync", "stopped"}

ScriptInv(a) ==
  /\ Rules(script[a])
  /\ phase[a] # "first" => ~Has(script[a], "initialize") /\ ~Has(script[a], "choose")
  /\ phase[a] = "off" => script[a] = <<>>
  /\ phase[a] = "handler" => ended[a] # "completed"
  /\ phase[a] \notin InTry => \A i \in 1..Len(script[a]) : Name(script[a][i]) \in Outer

-----------------------------------------------------------------------------
\* What a run in its handler still owes is owed until its end.
Late(a) == phase[a] = "handler"
One(p) == IF p THEN 1 ELSE 0

Owes(a, what) == script[a] # <<>> /\ Tells(script[a][1]) = what
OwesAny(a) == script[a] # <<>> /\ Tells(script[a][1]) # "nothing"

OrphanInv(a) ==
  LET o == Orphans(a) IN
    /\ o.revision >= One(Owes(a, "revision")) /\ o.artifact >= One(Owes(a, "artifact"))
    /\ o.forum >= One(Owes(a, "forum")) /\ o.field >= One(Owes(a, "field"))
    /\ o.revision + o.artifact + o.forum + o.field <= cut[a] + One(Late(a) \/ OwesAny(a))

OwesExecution(s) == (Has(s, "respond") \/ Has(s, "executed")) /\ ~Has(s, "taken")
OwesEvaluation(s) ==
  (Has(s, "respond") \/ Has(s, "evaluated")) /\ ~Has(s, "taken") /\ ~Has(s, "completed")
OnlyEvaluation(s) == OwesEvaluation(s) /\ ~Has(s, "respond") /\ ~Has(s, "executed")

DecisionInv(a) ==
  LET s == script[a]  t == tally[a] IN
    /\ t["executed"] + One(OwesExecution(s)) <= t["taken"]
    /\ t["evaluated"] + One(OnlyEvaluation(s)) <= t["executed"] + t["completed"]
    /\ t["taken"] + t["completed"] - t["evaluated"] <= cut[a] + One(Late(a) \/ OwesEvaluation(s))

OwesVersion(s) == Has(s, "bump") /\ ~Has(s, "completed")

VersionInv(a) ==
  LET s == script[a]  completed == tally[a]["completed"] IN
    IF config[a] = Unreadable THEN phase[a] = "off"
    ELSE /\ config[a] + One(OwesVersion(s)) <= completed
         /\ completed - config[a] <= cut[a] + One(Late(a) \/ OwesVersion(s))

\* The constitution is there as soon as initialize() is behind, and has a
\* field when the first decision comes.
FieldInv(a) ==
  LET s == script[a] IN
    /\ Has(s, "initialize") => constitution[a].file = "absent"
    /\ Has(s, "choose") => ~constitution[a].chosen
    /\ constitution[a].file = "absent" => constitution[a] = Blank("absent")
    /\ phase[a] \in InTry /\ ~Has(s, "initialize") => constitution[a].file # "absent"
    /\ constitution[a].file # "absent" =>
         constitution[a].chosen \/ cut[a] > 0 \/ Late(a) \/ Has(s, "choose")

CommonsInv(a) == inCommons[a] => cut[a] > 0 \/ Late(a) \/ Has(script[a], "left")

AgentInv(a) ==
  ScriptInv(a) /\ OrphanInv(a) /\ DecisionInv(a) /\ VersionInv(a) /\ FieldInv(a) /\ CommonsInv(a)

RunInv == TypeOK /\ \A a \in Agents : AgentInv(a)

\* The public ledger is torn, and no run has passed its start since then.
Stopped(a) ==
  /\ <<"public">> \in torn
  /\ phase[a] \in {"off", "starting"}
  /\ phase[a] = "starting" => Has(script[a], "started")

-----------------------------------------------------------------------------
(* Scripts *)

LEMMA EmptyScript ==
  /\ <<>> \in Seq(Ops) /\ Len(<<>>) = 0 /\ Rules(<<>>)
  /\ \A name : ~Has(<<>>, name)
<1>1. <<>> \in Seq(Ops) /\ Len(<<>>) = 0 /\ 1..0 = {} /\ 2..0 = {}
  OBVIOUS
<1>2. QED
  BY <1>1 DEF Rules, Has, Paired, InOrder, Follows

LEMMA ScriptFacts ==
  ASSUME NEW s \in Seq(Ops), s # <<>>
  PROVE  /\ Len(s) \in Nat \ {0}
         /\ Head(s) = s[1] /\ s[1] \in Ops
         /\ Tail(s) \in Seq(Ops)
         /\ Len(Tail(s)) = Len(s) - 1
         /\ \A i \in 1..Len(Tail(s)) : Tail(s)[i] = s[i + 1]
<1>1. /\ Len(s) \in Nat \ {0} /\ Head(s) = s[1]
      /\ Tail(s) \in Seq(Ops) /\ Len(Tail(s)) = Len(s) - 1
      /\ \A i \in 1..Len(Tail(s)) : Tail(s)[i] = s[i + 1]
  BY EmptySeq, LenProperties, HeadTailProperties
<1>2. s[1] \in Ops
  BY <1>1, ElementOfSeq
<1>3. QED
  BY <1>1, <1>2

\* What is at the head is not in the rest, which begins with what tells of it.
LEMMA HasTail ==
  ASSUME NEW s \in Seq(Ops), s # <<>>
  PROVE  \A name : Has(s, name) <=> Name(s[1]) = name \/ Has(Tail(s), name)
<1> DEFINE t == Tail(s)
<1>1. /\ Len(s) \in Nat \ {0} /\ Len(t) = Len(s) - 1
      /\ \A i \in 1..Len(t) : t[i] = s[i + 1]
  BY ScriptFacts
<1> HIDE DEF t
<1>2. ASSUME NEW name, Has(t, name)
      PROVE  Has(s, name)
  BY <1>1, <1>2 DEF Has
<1>3. ASSUME NEW name, Name(s[1]) = name
      PROVE  Has(s, name)
  BY <1>1, <1>3 DEF Has
<1>4. ASSUME NEW name, Has(s, name), Name(s[1]) # name
      PROVE  Has(t, name)
  <2>1. PICK i \in 1..Len(s) : Name(s[i]) = name
    BY <1>4 DEF Has
  <2>2. i - 1 \in 1..Len(t) /\ t[i - 1] = s[i]
    BY <1>1, <1>4, <2>1
  <2>3. QED
    BY <2>1, <2>2 DEF Has
<1>5. QED
  BY <1>2, <1>3, <1>4 DEF t

LEMMA HeadRules ==
  ASSUME NEW s, Rules(s), s # <<>>, NEW t, t = Tail(s)
  PROVE  /\ Known(s[1])
         /\ Makes(s[1]) # "nothing" => t # <<>> /\ Tells(t[1]) = Makes(s[1])
         /\ t # <<>> /\ Tells(t[1]) # "nothing" => Makes(s[1]) = Tells(t[1])
         /\ \A name : Rank(Name(s[1])) > 0 /\ Rank(name) > 0 /\ Has(t, name)
                        => Rank(Name(s[1])) < Rank(name)
         /\ Name(s[1]) = "taken" => Has(t, "respond")
         /\ Name(s[1]) = "completed" => Has(t, "evaluated") /\ Has(t, "bump")
         /\ Name(s[1]) = "visited" => Has(t, "left")
         /\ Name(s[1]) = "initialize" => Has(t, "choose")
         /\ Name(s[1]) = "choose" => ~Has(t, "choose")
         /\ ~Has(t, "initialize")
<1>1. /\ s \in Seq(Ops) /\ Len(s) \in Nat \ {0} /\ Len(t) = Len(s) - 1
      /\ \A i \in 1..Len(t) : t[i] = s[i + 1]
  BY ScriptFacts DEF Rules
<1>2. t = <<>> <=> Len(t) = 0
  BY ScriptFacts, EmptySeq DEF Rules
<1>3. /\ Known(s[1])
      /\ Makes(s[1]) # "nothing" => t # <<>> /\ Tells(t[1]) = Makes(s[1])
      /\ t # <<>> /\ Tells(t[1]) # "nothing" => Makes(s[1]) = Tells(t[1])
  BY <1>1, <1>2 DEF Rules, Paired
<1>4. ASSUME NEW name, Has(t, name)
      PROVE  \E j \in 2..Len(s) : Name(s[j]) = name
  <2>1. PICK i \in 1..Len(t) : Name(t[i]) = name
    BY <1>4 DEF Has
  <2>2. i + 1 \in 2..Len(s) /\ t[i] = s[i + 1]
    BY <1>1, <2>1
  <2>3. QED
    BY <2>1, <2>2
<1>5. ASSUME NEW name, NEW first, Follows(s, first, name), Name(s[1]) = first
      PROVE  Has(t, name)
  <2>1. PICK j \in 2..Len(s) : Name(s[j]) = name
    BY <1>1, <1>5 DEF Follows
  <2>2. j - 1 \in 1..Len(t) /\ t[j - 1] = s[j]
    BY <1>1, <2>1
  <2>3. QED
    BY <2>1, <2>2 DEF Has
<1>6. ASSUME NEW name, Rank(Name(s[1])) > 0, Rank(name) > 0, Has(t, name)
      PROVE  Rank(Name(s[1])) < Rank(name)
  <2>1. PICK j \in 2..Len(s) : Name(s[j]) = name
    BY <1>4, <1>6
  <2>2. 1 \in 1..Len(s) /\ j \in 1..Len(s) /\ 1 < j
    BY <1>1, <2>1
  <2>3. QED
    BY <1>6, <2>1, <2>2 DEF Rules, InOrder
<1>7. ~Has(t, "initialize")
  BY <1>4 DEF Rules
<1>8. Name(s[1]) = "choose" => ~Has(t, "choose")
  <2>1. \A j \in 2..Len(s) : 1 \in 1..Len(s) /\ j \in 1..Len(s) /\ j # 1
    BY <1>1
  <2>2. QED
    BY <1>4, <2>1 DEF Rules
<1>9. QED
  BY <1>3, <1>5, <1>6, <1>7, <1>8 DEF Rules

LEMMA TailRules ==
  ASSUME NEW s, Rules(s), s # <<>>
  PROVE  Rules(Tail(s))
<1> DEFINE t == Tail(s)
<1>1. /\ s \in Seq(Ops) /\ t \in Seq(Ops) /\ Len(s) \in Nat \ {0} /\ Len(t) = Len(s) - 1
      /\ \A i \in 1..Len(t) : i + 1 \in 2..Len(s) /\ i + 1 \in 1..Len(s) /\ t[i] = s[i + 1]
  BY ScriptFacts DEF Rules
<1> HIDE DEF t
<1>2. (\A i \in 1..Len(t) : Known(t[i])) /\ \A i \in 2..Len(t) : Name(t[i]) # "initialize"
  BY <1>1 DEF Rules
<1>3. Paired(t)
  <2>1. ASSUME NEW i \in 1..Len(t), Makes(t[i]) # "nothing"
        PROVE  i < Len(t) /\ Tells(t[i + 1]) = Makes(t[i])
    <3>1. i + 1 < Len(s) /\ Tells(s[i + 1 + 1]) = Makes(s[i + 1])
      BY <1>1, <2>1 DEF Rules, Paired
    <3>2. i + 1 \in 1..Len(t)
      BY <1>1, <3>1
    <3>3. QED
      BY <1>1, <3>1, <3>2
  <2>2. ASSUME NEW i \in 2..Len(t), Tells(t[i]) # "nothing"
        PROVE  Makes(t[i - 1]) = Tells(t[i])
    <3>1. i \in 1..Len(t) /\ i - 1 \in 1..Len(t) /\ i + 1 \in 2..Len(s) /\ i + 1 - 1 = i - 1 + 1
      BY <1>1
    <3>2. QED
      BY <1>1, <2>2, <3>1 DEF Rules, Paired
  <2>3. QED
    BY <2>1, <2>2 DEF Paired
<1>4. InOrder(t)
  BY <1>1 DEF Rules, InOrder
<1>5. ASSUME NEW first, NEW then, Follows(s, first, then)
      PROVE  Follows(t, first, then)
  <2>1. SUFFICES ASSUME NEW i \in 1..Len(t), Name(t[i]) = first
                 PROVE  \E j \in i+1..Len(t) : Name(t[j]) = then
    BY DEF Follows
  <2>2. PICK j \in i+1+1..Len(s) : Name(s[j]) = then
    BY <1>1, <1>5, <2>1 DEF Follows
  <2>3. j - 1 \in i+1..Len(t) /\ j - 1 \in 1..Len(t) /\ j - 1 + 1 = j
    BY <1>1, <2>2
  <2>4. QED
    BY <1>1, <2>2, <2>3
<1>6. \A i, j \in 1..Len(t) : Name(t[i]) = "choose" /\ Name(t[j]) = "choose" => i = j
  BY <1>1 DEF Rules
<1>7. \A name : Has(t, name) => Has(s, name)
  BY <1>1 DEF Has
<1>8. QED
  BY <1>1, <1>2, <1>3, <1>4, <1>5, <1>6, <1>7 DEF Rules, t

-----------------------------------------------------------------------------
(* The scripts that a run begins with *)

LEMMA DoFacts ==
  ASSUME NEW what \in Acts
  PROVE  Known(Do(what)) /\ Name(Do(what)) = what
  BY DEF Do, Known, Name, Ops, Acts, Ledgers, Forums

LEMMA EventFacts ==
  ASSUME NEW ledger \in Ledgers, NEW kind \in Kinds,
         kind \in ForumKinds => ledger \in Forums \cup {"public"},
         ledger \in Forums => kind \in ForumKinds,
         kind = "started" => ledger = "public"
  PROVE  /\ Known(Event(ledger, kind))
         /\ Name(Event(ledger, kind)) = IF ledger \in Forums THEN "said" ELSE kind
  BY DEF Event, Known, Name, Ops

\* Names that no rule speaks of.
Plain(name) ==
  /\ Rank(name) = 0
  /\ name \notin {"revise", "artifact", "said", "choose", "revised", "stored", "chosen",
                  "visited", "left", "initialize", "build"} \cup ForumKinds

LEMMA PlainTells ==
  ASSUME NEW op, Plain(Name(op))
  PROVE  Makes(op) = "nothing" /\ Tells(op) = "nothing"
  BY DEF Plain, Makes, Tells

LEMMA PlainRules ==
  ASSUME NEW s \in Seq(Ops), \A i \in 1..Len(s) : Known(s[i]) /\ Plain(Name(s[i]))
  PROVE  Rules(s)
<1>1. Len(s) \in Nat /\ \A i \in 2..Len(s) : i \in 1..Len(s)
  BY LenProperties
<1>2. \A i \in 1..Len(s) : Makes(s[i]) = "nothing" /\ Tells(s[i]) = "nothing"
  BY PlainTells
<1>3. \A i \in 1..Len(s) : /\ Rank(Name(s[i])) = 0
                           /\ Name(s[i]) \notin {"choose", "visited", "left", "initialize", "build"}
  BY DEF Plain
<1>4. Rank("taken") = 1 /\ Rank("respond") = 2 /\ Rank("completed") = 4
  BY DEF Rank
<1>5. \A i \in 1..Len(s) : Name(s[i]) \notin {"taken", "completed", "respond"}
  BY <1>3, <1>4
<1>6. Paired(s)
  BY <1>1, <1>2 DEF Paired
<1>7. InOrder(s)
  BY <1>3 DEF InOrder
<1>8. QED
  BY <1>1, <1>3, <1>5, <1>6, <1>7 DEF Rules, Follows, Has

LEMMA OuterPlain == \A name \in Outer : Plain(name)
  BY DEF Outer, Plain, Rank, ForumKinds

LEMMA StartupRules ==
  /\ Rules(Startup) /\ Has(Startup, "started")
  /\ \A i \in 1..Len(Startup) : Name(Startup[i]) \in Outer
<1> DEFINE s == Startup
<1>1. /\ s \in Seq(Ops) /\ Len(s) = 6
      /\ s[1] = Do("verify") /\ s[2] = Event("evaluation", "boundary") /\ s[3] = Do("gate")
      /\ s[4] = Event("public", "started") /\ s[5] = Event("public", "allowlist")
      /\ s[6] = Event("evaluation", "armed")
  BY DEF Startup, Ops, Do, Event, Ledgers, Kinds, ForumKinds, Counted
<1> HIDE DEF s
<1>2. /\ Known(s[1]) /\ Name(s[1]) = "verify" /\ Known(s[2]) /\ Name(s[2]) = "boundary"
      /\ Known(s[3]) /\ Name(s[3]) = "gate" /\ Known(s[4]) /\ Name(s[4]) = "started"
      /\ Known(s[5]) /\ Name(s[5]) = "allowlist" /\ Known(s[6]) /\ Name(s[6]) = "armed"
  BY <1>1 DEF Known, Name, Do, Event, Ops, Ledgers, Forums, Acts, ForumKinds, Kinds, Counted
<1>3. \A i \in 1..Len(s) : i \in {1, 2, 3, 4, 5, 6}
  BY <1>1
<1>4. \A i \in 1..Len(s) : Known(s[i]) /\ Name(s[i]) \in Outer
  BY <1>2, <1>3 DEF Outer
<1>5. Rules(s)
  BY <1>1, <1>4, OuterPlain, PlainRules
<1>6. QED
  BY <1>1, <1>2, <1>4, <1>5 DEF Has, s

Stopping == <<Do("sync"), Event("public", "stopped")>>

LEMMA StoppingRules ==
  Rules(Stopping) /\ \A i \in 1..Len(Stopping) : Name(Stopping[i]) \in Outer
<1> DEFINE s == Stopping
<1>1. /\ s \in Seq(Ops) /\ Len(s) = 2
      /\ s[1] = Do("sync") /\ s[2] = Event("public", "stopped")
  BY DEF Stopping, Ops, Do, Event, Ledgers, Kinds, ForumKinds, Counted
<1> HIDE DEF s
<1>2. Known(s[1]) /\ Name(s[1]) = "sync" /\ Known(s[2]) /\ Name(s[2]) = "stopped"
  BY <1>1 DEF Known, Name, Do, Event, Ops, Ledgers, Forums, Acts, ForumKinds, Kinds, Counted
<1>3. \A i \in 1..Len(s) : i \in {1, 2}
  BY <1>1
<1>4. \A i \in 1..Len(s) : Known(s[i]) /\ Name(s[i]) \in Outer
  BY <1>2, <1>3 DEF Outer
<1>5. QED
  BY <1>1, <1>4, OuterPlain, PlainRules DEF s

LEMMA OuterHas ==
  ASSUME NEW s, \A i \in 1..Len(s) : Name(s[i]) \in Outer
  PROVE  \A name \in {"initialize", "choose", "taken", "respond", "executed", "evaluated",
                      "completed", "bump", "left", "build"} : ~Has(s, name)
  BY DEF Has, Outer

LEMMA FirstRunRules ==
  /\ Rules(FirstRun) /\ FirstRun # <<>> /\ Tells(FirstRun[1]) = "nothing"
  /\ Has(FirstRun, "initialize") /\ Has(FirstRun, "choose")
  /\ \A name \in {"taken", "respond", "executed", "evaluated", "completed", "bump", "left"} :
       ~Has(FirstRun, name)
<1> DEFINE s == FirstRun
<1>1. /\ s \in Seq(Ops) /\ Len(s) = 6 /\ s # <<>>
      /\ s[1] = Do("initialize") /\ s[2] = Event("public", "instantiated")
      /\ s[3] = Event("public", "offered") /\ s[4] = Do("llm")
      /\ s[5] = Do("choose") /\ s[6] = Event("public", "chosen")
  BY DEF FirstRun, Ops, Do, Event, Ledgers, Kinds, ForumKinds, Counted
<1> HIDE DEF s
<1>2. /\ Known(s[1]) /\ Name(s[1]) = "initialize" /\ Known(s[2]) /\ Name(s[2]) = "instantiated"
      /\ Known(s[3]) /\ Name(s[3]) = "offered" /\ Known(s[4]) /\ Name(s[4]) = "llm"
      /\ Known(s[5]) /\ Name(s[5]) = "choose" /\ Known(s[6]) /\ Name(s[6]) = "chosen"
  BY <1>1 DEF Known, Name, Do, Event, Ops, Ledgers, Forums, Acts, ForumKinds, Kinds, Counted
<1>3. (\A i \in 1..Len(s) : i \in {1, 2, 3, 4, 5, 6}) /\ \A i \in 2..Len(s) : i \in {2, 3, 4, 5, 6}
  BY <1>1
<1>4. \A i \in 1..Len(s) :
        /\ Known(s[i]) /\ Rank(Name(s[i])) = 0
        /\ Name(s[i]) \in {"initialize", "instantiated", "offered", "llm", "choose", "chosen"}
  BY <1>2, <1>3 DEF Rank
<1>5. /\ Makes(s[1]) = "nothing" /\ Tells(s[1]) = "nothing" /\ Makes(s[2]) = "nothing"
      /\ Tells(s[2]) = "nothing" /\ Makes(s[3]) = "nothing" /\ Tells(s[3]) = "nothing"
      /\ Makes(s[4]) = "nothing" /\ Tells(s[4]) = "nothing" /\ Makes(s[5]) = "field"
      /\ Tells(s[5]) = "nothing" /\ Makes(s[6]) = "nothing" /\ Tells(s[6]) = "field"
  BY <1>2 DEF Makes, Tells, ForumKinds
<1>6. Paired(s)
  BY <1>1, <1>3, <1>5 DEF Paired
<1>7. InOrder(s)
  BY <1>4 DEF InOrder
<1>8. Follows(s, "initialize", "choose")
  <2>1. ASSUME NEW i \in 1..Len(s), Name(s[i]) = "initialize"
        PROVE  \E j \in i+1..Len(s) : Name(s[j]) = "choose"
    <3>1. i = 1
      BY <1>2, <1>3, <2>1
    <3>2. 5 \in i+1..Len(s)
      BY <1>1, <3>1
    <3>3. QED
      BY <1>2, <3>2
  <2>2. QED
    BY <2>1 DEF Follows
<1>9. \A i, j \in 1..Len(s) : Name(s[i]) = "choose" /\ Name(s[j]) = "choose" => i = j
  BY <1>2, <1>3
<1>10. \A i \in 2..Len(s) : Name(s[i]) # "initialize"
  BY <1>2, <1>3
<1>11. Rules(s)
  BY <1>1, <1>4, <1>6, <1>7, <1>8, <1>9, <1>10 DEF Rules, Follows, Has
<1>12. QED
  BY <1>1, <1>2, <1>4, <1>5, <1>11 DEF Has, s

LEMMA DecidingRules ==
  /\ Rules(Deciding) /\ Deciding # <<>> /\ Tells(Deciding[1]) = "nothing"
  /\ Has(Deciding, "taken")
  /\ \A name \in {"initialize", "choose", "executed", "evaluated", "completed", "bump", "left"} :
       ~Has(Deciding, name)
<1> DEFINE s == Deciding
<1>1. /\ s \in Seq(Ops) /\ Len(s) = 5 /\ s # <<>>
      /\ s[1] = Do("build") /\ s[2] = Event("public", "snapshotted")
      /\ s[3] = Event("public", "proposed") /\ s[4] = Event("public", "taken")
      /\ s[5] = Do("respond")
  BY DEF Deciding, Ops, Do, Event, Ledgers, Kinds, ForumKinds, Counted
<1> HIDE DEF s
<1>2. /\ Known(s[1]) /\ Name(s[1]) = "build" /\ Known(s[2]) /\ Name(s[2]) = "snapshotted"
      /\ Known(s[3]) /\ Name(s[3]) = "proposed" /\ Known(s[4]) /\ Name(s[4]) = "taken"
      /\ Known(s[5]) /\ Name(s[5]) = "respond"
  BY <1>1 DEF Known, Name, Do, Event, Ops, Ledgers, Forums, Acts, ForumKinds, Kinds, Counted
<1>3. (\A i \in 1..Len(s) : i \in {1, 2, 3, 4, 5}) /\ \A i \in 2..Len(s) : i \in {2, 3, 4, 5}
  BY <1>1
<1>4. \A i \in 1..Len(s) :
        Known(s[i]) /\ Name(s[i]) \in {"build", "snapshotted", "proposed", "taken", "respond"}
  BY <1>2, <1>3
<1>5. \A i \in 1..Len(s) : Makes(s[i]) = "nothing" /\ Tells(s[i]) = "nothing"
  BY <1>4 DEF Makes, Tells, ForumKinds
<1>6. Paired(s)
  BY <1>3, <1>5 DEF Paired
<1>7. InOrder(s)
  <2>1. /\ Rank(Name(s[1])) = 0 /\ Rank(Name(s[2])) = 0 /\ Rank(Name(s[3])) = 0
        /\ Rank(Name(s[4])) = 1 /\ Rank(Name(s[5])) = 2
    BY <1>2 DEF Rank
  <2>2. \A i \in 1..Len(s) : Rank(Name(s[i])) > 0 => i \in {4, 5}
    BY <1>3, <2>1
  <2>3. QED
    BY <2>1, <2>2 DEF InOrder
<1>8. Follows(s, "taken", "respond")
  <2>1. ASSUME NEW i \in 1..Len(s), Name(s[i]) = "taken"
        PROVE  \E j \in i+1..Len(s) : Name(s[j]) = "respond"
    <3>1. 5 \in i+1..Len(s)
      BY <1>1, <1>2, <1>3, <2>1
    <3>2. QED
      BY <1>2, <3>1
  <2>2. QED
    BY <2>1 DEF Follows
<1>9. \A i \in 1..Len(s) : Name(s[i]) \notin {"completed", "visited", "initialize", "choose", "left"}
  BY <1>4
<1>10. \A i \in 2..Len(s) : Name(s[i]) # "initialize"
  BY <1>2, <1>3
<1>11. Rules(s)
  BY <1>1, <1>4, <1>6, <1>7, <1>8, <1>9, <1>10 DEF Rules, Follows, Has
<1>12. QED
  BY <1>1, <1>2, <1>4, <1>5, <1>11 DEF Has, s

LEMMA ClosingRules ==
  /\ Rules(Closing) /\ Closing # <<>> /\ Tells(Closing[1]) = "nothing"
  /\ Has(Closing, "completed")
  /\ \A name \in {"initialize", "choose", "taken", "respond", "executed", "left"} :
       ~Has(Closing, name)
<1> DEFINE s == Closing
<1>1. /\ s \in Seq(Ops) /\ Len(s) = 8 /\ s # <<>>
      /\ s[1] = Do("summary") /\ s[2] = Event("public", "completed") /\ s[3] = Do("verify")
      /\ s[4] = Event("evaluation", "boundary") /\ s[5] = Do("gate")
      /\ s[6] = Event("evaluation", "evaluated") /\ s[7] = Do("bump") /\ s[8] = Do("sync")
  BY DEF Closing, Ops, Do, Event, Ledgers, Kinds, ForumKinds, Counted
<1> HIDE DEF s
<1>2. /\ Known(s[1]) /\ Name(s[1]) = "summary" /\ Known(s[2]) /\ Name(s[2]) = "completed"
      /\ Known(s[3]) /\ Name(s[3]) = "verify" /\ Known(s[4]) /\ Name(s[4]) = "boundary"
      /\ Known(s[5]) /\ Name(s[5]) = "gate" /\ Known(s[6]) /\ Name(s[6]) = "evaluated"
      /\ Known(s[7]) /\ Name(s[7]) = "bump" /\ Known(s[8]) /\ Name(s[8]) = "sync"
  BY <1>1 DEF Known, Name, Do, Event, Ops, Ledgers, Forums, Acts, ForumKinds, Kinds, Counted
<1>3. /\ \A i \in 1..Len(s) : i \in {1, 2, 3, 4, 5, 6, 7, 8}
      /\ \A i \in 2..Len(s) : i \in {2, 3, 4, 5, 6, 7, 8}
  BY <1>1
<1>4. \A i \in 1..Len(s) :
        /\ Known(s[i])
        /\ Name(s[i]) \in {"summary", "completed", "verify", "boundary", "gate", "evaluated",
                           "bump", "sync"}
  BY <1>2, <1>3
<1>5. \A i \in 1..Len(s) : Makes(s[i]) = "nothing" /\ Tells(s[i]) = "nothing"
  BY <1>4 DEF Makes, Tells, ForumKinds
<1>6. Paired(s)
  BY <1>3, <1>5 DEF Paired
<1>7. InOrder(s)
  <2>1. /\ Rank(Name(s[1])) = 0 /\ Rank(Name(s[2])) = 4 /\ Rank(Name(s[3])) = 0
        /\ Rank(Name(s[4])) = 0 /\ Rank(Name(s[5])) = 0 /\ Rank(Name(s[6])) = 5
        /\ Rank(Name(s[7])) = 6 /\ Rank(Name(s[8])) = 0
    BY <1>2 DEF Rank
  <2>2. \A i \in 1..Len(s) : Rank(Name(s[i])) > 0 => i \in {2, 6, 7}
    BY <1>3, <2>1
  <2>3. QED
    BY <2>1, <2>2 DEF InOrder
<1>8. Follows(s, "completed", "evaluated") /\ Follows(s, "completed", "bump")
  <2>1. ASSUME NEW i \in 1..Len(s), Name(s[i]) = "completed"
        PROVE  6 \in i+1..Len(s) /\ 7 \in i+1..Len(s)
    BY <1>1, <1>2, <1>3, <2>1
  <2>2. QED
    BY <1>2, <2>1 DEF Follows
<1>9. \A i \in 1..Len(s) : Name(s[i]) \notin {"taken", "visited", "initialize", "choose", "left"}
  BY <1>4
<1>10. \A i \in 2..Len(s) : Name(s[i]) # "initialize"
  BY <1>2, <1>3
<1>11. Rules(s)
  BY <1>1, <1>4, <1>6, <1>7, <1>8, <1>9, <1>10 DEF Rules, Follows, Has
<1>12. QED
  BY <1>1, <1>2, <1>4, <1>5, <1>11 DEF Has, s

-----------------------------------------------------------------------------
(* The scripts that follow an answer of the model *)

\* What a leaf may do: whole pairs, and no visit of the commons without a
\* departure behind it.
Whole(s) ==
  /\ s \in Seq(Ops)
  /\ \A i \in 1..Len(s) : Known(s[i]) /\ Rank(Name(s[i])) = 0
                          /\ Name(s[i]) \notin {"initialize", "choose", "build"}
  /\ Paired(s)
  /\ Len(s) > 0 => Tells(s[1]) = "nothing"

Clean(s) == Whole(s) /\ Follows(s, "visited", "left")

LEMMA CleanEmpty == Clean(<<>>)
  BY EmptyScript, 1..0 = {} DEF Clean, Whole, Paired, Follows

\* What holds of every place of a concatenation.
LEMMA CatFacts ==
  ASSUME NEW s \in Seq(Ops), NEW t \in Seq(Ops), NEW m, m = Len(s), NEW n, n = Len(t),
         NEW c, c = s \o t
  PROVE  /\ m \in Nat /\ n \in Nat
         /\ c \in Seq(Ops) /\ Len(c) = m + n
         /\ \A i \in 1..m : c[i] = s[i]
         /\ \A i \in 1..n : c[m + i] = t[i]
         /\ \A i \in 1..m+n : i > m => i - m \in 1..n /\ c[i] = t[i - m]
<1>1. m \in Nat /\ n \in Nat /\ c \in Seq(Ops) /\ Len(c) = m + n
  BY LenProperties, ConcatProperties
<1>2. \A i \in 1..m+n : c[i] = IF i <= m THEN s[i] ELSE t[i - m]
  BY ConcatProperties
<1>3. QED
  BY <1>1, <1>2

LEMMA PairedCat ==
  ASSUME NEW s \in Seq(Ops), NEW t \in Seq(Ops), Paired(s), Paired(t),
         Len(t) > 0 => Tells(t[1]) = "nothing"
  PROVE  Paired(s \o t)
<1> DEFINE c == s \o t
           m == Len(s)
           n == Len(t)
<1>1. /\ m = Len(s) /\ n = Len(t) /\ m \in Nat /\ n \in Nat /\ Len(c) = m + n
      /\ \A i \in 1..m : c[i] = s[i]
      /\ \A i \in 1..n : c[m + i] = t[i]
      /\ \A i \in 1..m+n : i > m => i - m \in 1..n /\ c[i] = t[i - m]
  BY CatFacts
<1> HIDE DEF c, m, n
<1>2. ASSUME NEW i \in 1..m+n, Makes(c[i]) # "nothing"
      PROVE  i < m + n /\ Tells(c[i + 1]) = Makes(c[i])
  <2>1. CASE i <= m
    BY <1>1, <1>2, <2>1 DEF Paired
  <2>2. CASE i > m
    <3>1. PICK k \in 1..n : k = i - m /\ i = m + k /\ c[i] = t[k]
      BY <1>1, <2>2
    <3>2. k < n /\ Tells(t[k + 1]) = Makes(t[k])
      BY <1>1, <1>2, <3>1 DEF Paired
    <3>3. k + 1 \in 1..n /\ m + (k + 1) = i + 1
      <4> m \in Nat /\ n \in Nat /\ k \in Nat /\ 1 <= k /\ k < n /\ i = m + k
        BY <1>1, <3>1, <3>2
      <4> QED
        OBVIOUS
    <3>4. c[i + 1] = t[k + 1]
      BY <1>1, <3>3
    <3>5. i < m + n
      BY <1>1, <3>1, <3>2
    <3>6. QED
      BY <3>1, <3>2, <3>4, <3>5
  <2>3. QED
    BY <1>1, <2>1, <2>2
<1>3. ASSUME NEW i \in 2..m+n, Tells(c[i]) # "nothing"
      PROVE  Makes(c[i - 1]) = Tells(c[i])
  <2>1. CASE i <= m
    BY <1>1, <1>3, <2>1 DEF Paired
  <2>2. CASE i > m
    <3>1. PICK k \in 1..n : k = i - m /\ i = m + k /\ c[i] = t[k]
      <4>1. i \in 1..m+n /\ i > m
        BY <1>1, <2>2
      <4>2. i - m \in 1..n /\ c[i] = t[i - m] /\ i = m + (i - m)
        BY <1>1, <4>1
      <4>3. QED
        BY <4>2
    <3>2. k # 1
      BY <1>1, <1>3, <3>1
    <3>3. k \in 2..n /\ k - 1 \in 1..n /\ m + (k - 1) = i - 1
      <4> m \in Nat /\ n \in Nat /\ k \in Nat /\ 1 <= k /\ k <= n /\ k # 1 /\ i = m + k
        BY <1>1, <3>1, <3>2
      <4> QED
        OBVIOUS
    <3>4. c[i - 1] = t[k - 1]
      BY <1>1, <3>3
    <3>5. QED
      BY <1>1, <1>3, <3>1, <3>3, <3>4 DEF Paired
  <2>3. QED
    BY <1>1, <2>1, <2>2
<1>4. QED
  BY <1>1, <1>2, <1>3 DEF Paired, c, m, n

LEMMA FollowsCat ==
  ASSUME NEW s \in Seq(Ops), NEW t \in Seq(Ops), NEW first, NEW then,
         Follows(s, first, then) \/ Has(t, then), Follows(t, first, then)
  PROVE  Follows(s \o t, first, then)
<1> DEFINE c == s \o t
           m == Len(s)
           n == Len(t)
<1>1. /\ m = Len(s) /\ n = Len(t) /\ m \in Nat /\ n \in Nat /\ Len(c) = m + n
      /\ \A i \in 1..m : c[i] = s[i]
      /\ \A i \in 1..n : c[m + i] = t[i]
      /\ \A i \in 1..m+n : i > m => i - m \in 1..n /\ c[i] = t[i - m]
  BY CatFacts
<1> HIDE DEF c, m, n
<1>2. SUFFICES ASSUME NEW i \in 1..m+n, Name(c[i]) = first
               PROVE  \E j \in i+1..m+n : Name(c[j]) = then
  BY <1>1 DEF Follows, c, m, n
<1>3. CASE i <= m /\ Follows(s, first, then)
  <2>1. i \in 1..m /\ c[i] = s[i]
    BY <1>1, <1>3
  <2>2. PICK j \in i+1..m : Name(s[j]) = then
    BY <1>1, <1>2, <1>3, <2>1 DEF Follows
  <2>3. j \in 1..m /\ j \in i+1..m+n
    BY <1>1, <2>1, <2>2
  <2>4. QED
    BY <1>1, <2>2, <2>3
<1>4. CASE i <= m /\ Has(t, then)
  <2>1. PICK j \in 1..n : Name(t[j]) = then
    BY <1>1, <1>4 DEF Has
  <2>2. m + j \in i+1..m+n /\ c[m + j] = t[j]
    BY <1>1, <1>4, <2>1
  <2>3. QED
    BY <2>1, <2>2
<1>5. CASE i > m
  <2>1. PICK j \in i-m+1..n : Name(t[j]) = then
    BY <1>1, <1>2, <1>5 DEF Follows
  <2>2. j \in 1..n /\ m + j \in i+1..m+n /\ c[m + j] = t[j]
    BY <1>1, <1>5, <2>1
  <2>3. QED
    BY <2>1, <2>2
<1>6. i <= m \/ i > m
  BY <1>1
<1>7. QED
  BY <1>3, <1>4, <1>5, <1>6

LEMMA WholeCat ==
  ASSUME NEW s, NEW t, Whole(s), Whole(t)
  PROVE  Whole(s \o t)
<1> DEFINE c == s \o t
           m == Len(s)
           n == Len(t)
<1>1. /\ s \in Seq(Ops) /\ t \in Seq(Ops)
      /\ m = Len(s) /\ n = Len(t) /\ m \in Nat /\ n \in Nat /\ c \in Seq(Ops) /\ Len(c) = m + n
      /\ \A i \in 1..m : c[i] = s[i]
      /\ \A i \in 1..n : c[m + i] = t[i]
      /\ \A i \in 1..m+n : i > m => i - m \in 1..n /\ c[i] = t[i - m]
  BY CatFacts DEF Whole
<1>2. Paired(c)
  BY <1>1, PairedCat DEF Whole
<1> HIDE DEF c, m, n
<1>3. \A i \in 1..Len(c) : Known(c[i]) /\ Rank(Name(c[i])) = 0
                           /\ Name(c[i]) \notin {"initialize", "choose", "build"}
  <2>1. TAKE i \in 1..Len(c)
  <2>2. CASE i <= m
    BY <1>1, <2>2 DEF Whole
  <2>3. CASE i > m
    <3>1. i - m \in 1..n /\ c[i] = t[i - m]
      BY <1>1, <2>3
    <3>2. QED
      BY <1>1, <3>1 DEF Whole
  <2>4. QED
    BY <1>1, <2>2, <2>3
<1>4. Len(c) > 0 => Tells(c[1]) = "nothing"
  BY <1>1 DEF Whole
<1>5. QED
  BY <1>1, <1>2, <1>3, <1>4 DEF Whole, c, m, n

LEMMA CleanCat ==
  ASSUME NEW s, NEW t, Clean(s), Clean(t)
  PROVE  Clean(s \o t)
  BY WholeCat, FollowsCat DEF Clean, Whole

\* An operation that nothing need be told of, and one with what tells of it.
LEMMA CleanOne ==
  ASSUME NEW op, Known(op), Plain(Name(op))
  PROVE  Clean(<<op>>)
<1> DEFINE s == <<op>>
<1>1. s \in Seq(Ops) /\ Len(s) = 1 /\ s[1] = op /\ 1..1 = {1} /\ 2..1 = {}
  BY DEF Known
<1> HIDE DEF s
<1>2. Makes(op) = "nothing" /\ Tells(op) = "nothing"
  BY PlainTells
<1>3. Paired(s)
  BY <1>1, <1>2 DEF Paired
<1>4. QED
  BY <1>1, <1>2, <1>3 DEF Clean, Whole, Follows, Plain, s

LEMMA WholePair ==
  ASSUME NEW op, NEW told, Known(op), Known(told), Rank(Name(op)) = 0, Rank(Name(told)) = 0,
         Name(op) \notin {"initialize", "choose", "build"},
         Name(told) \notin {"initialize", "choose", "build"},
         Makes(op) = Tells(told), Tells(op) = "nothing", Makes(told) = "nothing"
  PROVE  Whole(<<op, told>>)
<1> DEFINE s == <<op, told>>
<1>1. s \in Seq(Ops) /\ Len(s) = 2 /\ s[1] = op /\ s[2] = told /\ 1..2 = {1, 2} /\ 2..2 = {2}
  BY DEF Known
<1> HIDE DEF s
<1>2. Paired(s)
  BY <1>1 DEF Paired
<1>3. QED
  BY <1>1, <1>2 DEF Whole, s

LEMMA CleanPair ==
  ASSUME NEW op, NEW told, Whole(<<op, told>>), Name(op) # "visited", Name(told) # "visited"
  PROVE  Clean(<<op, told>>)
<1> DEFINE s == <<op, told>>
<1>1. Len(s) = 2 /\ s[1] = op /\ s[2] = told /\ 1..2 = {1, 2}
  OBVIOUS
<1> HIDE DEF s
<1>2. Follows(s, "visited", "left")
  BY <1>1 DEF Follows
<1>3. QED
  BY <1>2 DEF Clean, s

LEMMA CleanDo ==
  ASSUME NEW what \in {"llm", "view"}
  PROVE  Clean(<<Do(what)>>)
<1>1. Known(Do(what)) /\ Name(Do(what)) = what
  BY DoFacts DEF Acts
<1>2. Plain(what)
  BY DEF Plain, Rank, ForumKinds
<1>3. QED
  BY <1>1, <1>2, CleanOne

LEMMA CleanEvent ==
  ASSUME NEW ledger \in {"public", "notebook"},
         NEW kind \in {"search", "results", "fetch", "fetched", "note", "requested", "responded"}
  PROVE  Clean(<<Event(ledger, kind)>>)
<1>1. Known(Event(ledger, kind)) /\ Name(Event(ledger, kind)) = kind
  BY EventFacts DEF Ledgers, Forums, Kinds, ForumKinds
<1>2. Plain(kind)
  BY DEF Plain, Rank, ForumKinds
<1>3. QED
  BY <1>1, <1>2, CleanOne

LEMMA CleanEvents ==
  ASSUME NEW x \in {"search", "fetch", "requested"}, NEW y \in {"results", "fetched", "responded"}
  PROVE  Clean(<<Event("public", x), Event("public", y)>>)
<1>1. /\ Known(Event("public", x)) /\ Name(Event("public", x)) = x
      /\ Known(Event("public", y)) /\ Name(Event("public", y)) = y
  BY EventFacts DEF Ledgers, Forums, Kinds, ForumKinds
<1>2. Plain(x) /\ Plain(y)
  BY DEF Plain, Rank, ForumKinds
<1>3. QED
  BY <1>1, <1>2, PlainTells, WholePair, CleanPair DEF Plain

LEMMA ForumFacts ==
  ASSUME NEW forum \in Forums, NEW kind \in ForumKinds
  PROVE  /\ Known(Event(forum, kind)) /\ Name(Event(forum, kind)) = "said"
         /\ Known(Event("public", kind)) /\ Name(Event("public", kind)) = kind
  BY EventFacts DEF Ledgers, Forums, Kinds, ForumKinds

LEMMA WholeDualWrite ==
  ASSUME NEW forum \in Forums, NEW kind \in ForumKinds
  PROVE  Whole(DualWrite(forum, kind))
<1> DEFINE own == Event(forum, kind)
           told == Event("public", kind)
<1>1. Known(own) /\ Name(own) = "said" /\ Known(told) /\ Name(told) = kind
  BY ForumFacts
<1>2. Rank("said") = 0 /\ Rank(kind) = 0 /\ kind \notin {"initialize", "choose", "build"}
  BY DEF Rank, ForumKinds
<1>3. Makes(own) = "forum" /\ Tells(own) = "nothing" /\ Tells(told) = "forum" /\ Makes(told) = "nothing"
  BY <1>1 DEF Makes, Tells, ForumKinds
<1> HIDE DEF own, told
<1>4. Whole(<<own, told>>)
  BY <1>1, <1>2, <1>3, WholePair
<1>5. QED
  BY <1>4 DEF DualWrite, own, told

LEMMA CleanDualWrite ==
  ASSUME NEW forum \in Forums, NEW kind \in ForumKinds, kind # "visited"
  PROVE  Clean(DualWrite(forum, kind))
  BY WholeDualWrite, ForumFacts, CleanPair DEF DualWrite

\* A visit of the commons, whatever is said there.
LEMMA CleanVisit ==
  ASSUME NEW words, Clean(words)
  PROVE  Clean(DualWrite("commons", "visited") \o <<Do("view")>> \o words \o Leaving)
<1> DEFINE visit == DualWrite("commons", "visited")
           view == <<Do("view")>>
           leaving == Leaving
<1>1. Clean(leaving) /\ Clean(view)
  BY CleanDualWrite, CleanDo DEF Leaving, Forums, ForumKinds
<1>2. Whole(visit)
  BY WholeDualWrite DEF Forums, ForumKinds
<1>3. Has(leaving, "left")
  <2>1. Len(leaving) = 2 /\ leaving[2] = Event("public", "left")
    BY DEF Leaving, DualWrite
  <2>2. Name(leaving[2]) = "left"
    BY <2>1, ForumFacts DEF Forums, ForumKinds
  <2>3. QED
    BY <2>1, <2>2 DEF Has
<1> HIDE DEF visit, view, leaving
<1>4. Whole(visit \o view)
  BY <1>1, <1>2, WholeCat DEF Clean
<1>5. Whole(visit \o view \o words)
  BY <1>4, WholeCat DEF Clean
<1> DEFINE before == visit \o view \o words
<1> HIDE DEF before
<1>6. Whole(before) /\ Whole(leaving)
  BY <1>1, <1>5 DEF Clean, before
<1>7. Follows(before \o leaving, "visited", "left")
  BY <1>1, <1>3, <1>6, FollowsCat DEF Clean, Whole
<1>8. Clean(before \o leaving)
  BY <1>6, <1>7, WholeCat DEF Clean
<1>9. QED
  BY <1>8 DEF before, visit, view, leaving

\* Whatever a leaf does, it does in whole pairs.
LEMMA EffectsClean ==
  ASSUME NEW leaf \in Leaves, NEW effects \in Effects(leaf)
  PROVE  Clean(effects)
<1>1. Clean(<<>>) /\ Clean(<<Do("llm")>>) /\ Clean(Note)
  BY CleanEmpty, CleanDo, CleanEvent DEF Note
<1>2. Clean(Search) /\ Clean(Fetch)
  BY CleanEmpty, CleanEvents DEF Search, Fetch
<1>3. Clean(Artifact) /\ Clean(Revision)
  <2>1. /\ Known(Do("artifact")) /\ Name(Do("artifact")) = "artifact"
        /\ Known(Do("revise")) /\ Name(Do("revise")) = "revise"
    BY DoFacts DEF Acts
  <2>2. /\ Known(Event("public", "stored")) /\ Name(Event("public", "stored")) = "stored"
        /\ Known(Event("public", "revised")) /\ Name(Event("public", "revised")) = "revised"
    BY EventFacts DEF Ledgers, Forums, Kinds, ForumKinds, Counted
  <2>3. /\ Makes(Do("artifact")) = "artifact" /\ Tells(Do("artifact")) = "nothing"
        /\ Makes(Do("revise")) = "revision" /\ Tells(Do("revise")) = "nothing"
    BY <2>1 DEF Makes, Tells, ForumKinds
  <2>4. /\ Makes(Event("public", "stored")) = "nothing"
        /\ Tells(Event("public", "stored")) = "artifact"
        /\ Makes(Event("public", "revised")) = "nothing"
        /\ Tells(Event("public", "revised")) = "revision"
    BY <2>2 DEF Makes, Tells, ForumKinds
  <2>5. Rank("artifact") = 0 /\ Rank("revise") = 0 /\ Rank("stored") = 0 /\ Rank("revised") = 0
    BY DEF Rank
  <2>6. Clean(<<Do("artifact"), Event("public", "stored")>>)
    BY <2>1, <2>2, <2>3, <2>4, <2>5, WholePair, CleanPair
  <2>7. Clean(<<Do("revise"), Event("public", "revised")>>)
    BY <2>1, <2>2, <2>3, <2>4, <2>5, WholePair, CleanPair
  <2>8. QED
    BY <2>6, <2>7 DEF Artifact, Revision
<1>4. \A forum \in Forums : \A kind \in ForumKinds \ {"visited"} : Clean(DualWrite(forum, kind))
  BY CleanDualWrite
<1>5. \A s, t : Clean(s) /\ Clean(t) => Clean(s \o t)
  BY CleanCat
<1>6. CASE leaf = "DISCOVER"
  BY <1>2, <1>6 DEF Effects
<1>7. CASE leaf = "READ"
  <2>1. \/ effects = Search
        \/ effects = IF Search = <<>> THEN <<>> ELSE Search \o Fetch
    BY <1>7 DEF Effects
  <2>2. Clean(Search \o Fetch)
    BY <1>2, <1>5
  <2>3. QED
    BY <1>1, <1>2, <2>1, <2>2
<1>8. CASE leaf = "ANALYZE"
  <2>1. PICK retry \in {<<>>, <<Do("llm")>>} : effects = retry \o Search \o Artifact
    BY <1>8 DEF Effects
  <2>2. Clean(retry \o Search)
    BY <1>1, <1>2, <1>5
  <2>3. QED
    BY <1>3, <1>5, <2>1, <2>2
<1>9. CASE leaf = "ANNOTATE"
  <2>1. /\ Clean(Search \o Artifact) /\ Clean(<<Do("llm")>> \o Artifact)
        /\ Clean(<<Do("llm")>> \o Search)
    BY <1>1, <1>2, <1>3, <1>5
  <2>2. Clean(<<Do("llm")>> \o Search \o Artifact)
    BY <1>3, <1>5, <2>1
  <2>3. \/ effects = Artifact \/ effects = Search \o Artifact
        \/ effects = <<Do("llm")>> \/ effects = <<Do("llm")>> \o Artifact
        \/ effects = <<Do("llm")>> \o Search \o Artifact
    <3>1. Effects("ANNOTATE") = {Artifact, Search \o Artifact, <<Do("llm")>>,
                                 <<Do("llm")>> \o Artifact, <<Do("llm")>> \o Search \o Artifact}
      BY DEF Effects
    <3>2. QED
      BY <1>9, <3>1
  <2>4. QED
    BY <1>1, <1>3, <2>1, <2>2, <2>3, Zenon
<1>10. CASE leaf = "VISIT_COMMONS"
  <2>1. PICK words \in {<<>>, DualWrite("commons", "utterance")} :
          effects = DualWrite("commons", "visited") \o <<Do("view")>> \o words \o Leaving
    BY <1>10 DEF Effects
  <2>2. Clean(words)
    BY <1>1, <1>4 DEF Forums, ForumKinds
  <2>3. QED
    BY <2>1, <2>2, CleanVisit
<1>11. CASE leaf = "VISIT_ROUNDTABLE"
  <2>1. PICK words \in {<<>>, DualWrite("roundtable", "utterance")} :
          effects = DualWrite("roundtable", "convened") \o words
                    \o DualWrite("roundtable", "completed_round") \o DualWrite("roundtable", "adjourned")
    <3>1. Effects("VISIT_ROUNDTABLE") =
            {DualWrite("roundtable", "convened") \o words
             \o DualWrite("roundtable", "completed_round") \o DualWrite("roundtable", "adjourned")
             : words \in {<<>>, DualWrite("roundtable", "utterance")}}
      BY DEF Effects
    <3>2. QED
      BY <1>11, <3>1
  <2>2. /\ Clean(words) /\ Clean(DualWrite("roundtable", "convened"))
        /\ Clean(DualWrite("roundtable", "completed_round")) /\ Clean(DualWrite("roundtable", "adjourned"))
    BY <1>1, <1>4 DEF Forums, ForumKinds
  <2>3. Clean(DualWrite("roundtable", "convened") \o words)
    BY <1>5, <2>2
  <2>4. Clean(DualWrite("roundtable", "convened") \o words \o DualWrite("roundtable", "completed_round"))
    BY <1>5, <2>2, <2>3
  <2>5. QED
    BY <1>5, <2>1, <2>2, <2>4
<1>12. CASE leaf = "CALL_TOWNHALL"
  <2>1. PICK words \in {<<>>, DualWrite("townhall", "broadcast")} :
          effects = DualWrite("townhall", "convened") \o words \o DualWrite("townhall", "adjourned")
    BY <1>12 DEF Effects
  <2>2. /\ Clean(words) /\ Clean(DualWrite("townhall", "convened"))
        /\ Clean(DualWrite("townhall", "adjourned"))
    BY <1>1, <1>4 DEF Forums, ForumKinds
  <2>3. Clean(DualWrite("townhall", "convened") \o words)
    BY <1>5, <2>2
  <2>4. QED
    BY <1>5, <2>1, <2>2, <2>3
<1>13. CASE leaf = "SELF_REFLECT"
  <2>1. PICK amendment \in {<<>>, Revision}, note \in {<<>>, Note} : effects = amendment \o note
    BY <1>13 DEF Effects
  <2>2. QED
    BY <1>1, <1>3, <1>5, <2>1
<1>14. CASE leaf = "THINK"
  BY <1>1, <1>14 DEF Effects
<1>15. CASE leaf = "WRITE"
  BY <1>3, <1>15 DEF Effects
<1>16. CASE leaf = "INNOVATE"
  <2>1. effects = Artifact \/ effects = Note \o Artifact
    BY <1>16 DEF Effects
  <2>2. QED
    BY <1>1, <1>3, <1>5, <2>1, Zenon
<1>17. CASE leaf = "VENT"
  <2>1. PICK note \in {<<>>, Note} :
          effects = note \o <<Event("public", "requested"), Event("public", "responded")>>
    BY <1>17 DEF Effects
  <2>2. QED
    BY <1>1, <1>5, <2>1, CleanEvents
<1>18. CASE leaf = "TALK"
  BY <1>1, <1>18 DEF Effects
<1>19. QED
  BY <1>6, <1>7, <1>8, <1>9, <1>10, <1>11, <1>12, <1>13, <1>14, <1>15, <1>16, <1>17, <1>18
     DEF Leaves

\* The script behind an answer of the model.
LEMMA RespondRules ==
  ASSUME NEW e, Clean(e), NEW s, s = e \o Executed
  PROVE  /\ Rules(s) /\ s # <<>> /\ Tells(s[1]) = "nothing"
         /\ Has(s, "executed") /\ Has(s, "evaluated")
         /\ \A name \in {"initialize", "choose", "taken", "respond", "completed", "bump"} :
              ~Has(s, name)
<1> DEFINE m == Len(e)
           x == Executed
<1>1. /\ x \in Seq(Ops) /\ Len(x) = 2
      /\ x[1] = Event("public", "executed") /\ x[2] = Event("evaluation", "evaluated")
  BY DEF Executed, Ops, Event, Ledgers, Kinds, ForumKinds, Counted
<1> HIDE DEF x
<1>2. /\ Known(x[1]) /\ Name(x[1]) = "executed" /\ Known(x[2]) /\ Name(x[2]) = "evaluated"
  BY <1>1 DEF Known, Name, Event, Ops, Ledgers, Forums, ForumKinds, Kinds, Counted
<1>3. /\ Makes(x[1]) = "nothing" /\ Tells(x[1]) = "nothing"
      /\ Makes(x[2]) = "nothing" /\ Tells(x[2]) = "nothing"
  BY <1>2 DEF Makes, Tells, ForumKinds
<1>4. \A i \in 1..Len(x) : i \in {1, 2}
  BY <1>1
<1>5. /\ e \in Seq(Ops) /\ m \in Nat /\ s \in Seq(Ops) /\ Len(s) = m + 2
      /\ \A i \in 1..m : s[i] = e[i]
      /\ s[m + 1] = x[1] /\ s[m + 2] = x[2]
  <2>1. /\ e \in Seq(Ops) /\ m \in Nat /\ s \in Seq(Ops) /\ Len(s) = m + 2
        /\ \A i \in 1..m : s[i] = e[i]
        /\ \A i \in 1..2 : s[m + i] = x[i]
    <3>1. e \in Seq(Ops) /\ s = e \o x
      BY DEF Clean, Whole, x
    <3>2. /\ m \in Nat /\ e \o x \in Seq(Ops) /\ Len(e \o x) = m + Len(x)
          /\ \A i \in 1..m+Len(x) : (e \o x)[i] = IF i <= m THEN e[i] ELSE x[i - m]
      BY <1>1, <3>1, ConcatProperties, LenProperties
    <3> HIDE DEF m
    <3>3. \A i \in 1..2 : (e \o x)[m + i] = x[i]
      <4>1. TAKE i \in 1..2
      <4>2. m + i \in 1..m+Len(x) /\ ~(m + i <= m) /\ m + i - m = i
        BY <1>1, <3>2
      <4>3. QED
        BY <3>2, <4>2
    <3>4. \A i \in 1..m : (e \o x)[i] = e[i]
      BY <1>1, <3>2
    <3>5. QED
      BY <1>1, <3>1, <3>2, <3>3, <3>4
  <2> HIDE DEF m
  <2>2. QED
    BY <2>1
<1>6. Paired(x) /\ Follows(x, "visited", "left")
  <2>1. \A i \in 2..Len(x) : i \in 1..Len(x)
    BY <1>1
  <2>2. QED
    BY <1>2, <1>3, <1>4, <2>1 DEF Paired, Follows
<1>7. Paired(s) /\ Follows(s, "visited", "left")
  BY <1>1, <1>3, <1>5, <1>6, PairedCat, FollowsCat DEF Clean, Whole, x
<1> HIDE DEF m
<1>8. \A i \in 1..Len(s) : i \in 1..m \/ i = m + 1 \/ i = m + 2
  BY <1>5
<1>9. \A i \in 1..m : /\ Known(s[i]) /\ Rank(Name(s[i])) = 0
                      /\ Name(s[i]) \notin {"initialize", "choose", "build"}
  BY <1>5 DEF Clean, Whole, m
<1>10. /\ Rank("taken") = 1 /\ Rank("respond") = 2 /\ Rank("executed") = 3
       /\ Rank("completed") = 4 /\ Rank("evaluated") = 5 /\ Rank("bump") = 6
  BY DEF Rank
<1>11. \A i \in 1..Len(s) :
         /\ Known(s[i])
         /\ Name(s[i]) \notin {"initialize", "choose", "build", "taken", "respond", "completed", "bump"}
  <2>1. TAKE i \in 1..Len(s)
  <2>2. CASE i \in 1..m
    BY <1>9, <1>10, <2>2
  <2>3. CASE i = m + 1 \/ i = m + 2
    BY <1>2, <1>5, <2>3
  <2>4. QED
    BY <1>8, <2>2, <2>3
<1>12. InOrder(s)
  <2>1. \A i \in 1..Len(s) : Rank(Name(s[i])) > 0 => i \in {m + 1, m + 2}
    BY <1>8, <1>9
  <2>2. Rank(Name(s[m + 1])) = 3 /\ Rank(Name(s[m + 2])) = 5
    BY <1>2, <1>5, <1>10
  <2>3. \A i, j \in {m + 1, m + 2} : i < j => i = m + 1 /\ j = m + 2
    BY <1>5
  <2>4. ASSUME NEW i \in 1..Len(s), NEW j \in 1..Len(s), i < j,
               Rank(Name(s[i])) > 0, Rank(Name(s[j])) > 0
        PROVE  Rank(Name(s[i])) < Rank(Name(s[j]))
    <3>1. i = m + 1 /\ j = m + 2
      BY <2>1, <2>3, <2>4
    <3>2. QED
      BY <2>2, <3>1
  <2>5. QED
    BY <2>4 DEF InOrder
<1>13. \A i \in 2..Len(s) : i \in 1..Len(s)
  BY <1>5
<1>14. Rules(s)
  BY <1>5, <1>7, <1>11, <1>12, <1>13 DEF Rules, Follows, Has
<1>15. m + 1 \in 1..Len(s) /\ m + 2 \in 1..Len(s) /\ s # <<>>
  BY <1>5, EmptySeq
<1>16. Tells(s[1]) = "nothing"
  <2>1. m = 0 \/ (m > 0 /\ 1 \in 1..m)
    BY <1>5
  <2>2. CASE m = 0
    BY <1>3, <1>5, <2>2
  <2>3. CASE m > 0 /\ 1 \in 1..m
    BY <1>5, <2>3 DEF Clean, Whole, m
  <2>4. QED
    BY <2>1, <2>2, <2>3
<1>17. QED
  BY <1>2, <1>5, <1>11, <1>14, <1>15, <1>16 DEF Has

-----------------------------------------------------------------------------
(* One operation of a run *)

\* What the operation at the head of a script changes of what its agent has.
Done(a) ==
  LET op == script[a][1]  c == constitution[a] IN
    /\ script[a] # <<>> /\ Name(op) # "respond"
    /\ script'[a] = Tail(script[a])
    /\ phase'[a] = phase[a] /\ ended'[a] = ended[a] /\ cut'[a] = cut[a]
    /\ \A k \in Counted : tally'[a][k] = tally[a][k] +
         One(IF k = "forum" THEN Name(op) \in ForumKinds ELSE Name(op) = k)
    /\ said'[a] = said[a] + One(Name(op) = "said")
    /\ artifacts'[a] = artifacts[a] + One(Name(op) = "artifact")
    /\ config'[a] = config[a] + One(Name(op) = "bump")
    /\ inCommons'[a] = IF Name(op) \in {"visited", "left"} THEN Name(op) = "visited"
                       ELSE inCommons[a]
    /\ constitution'[a] = CASE Name(op) = "initialize" -> Blank("whole")
                            [] Name(op) = "choose" -> [c EXCEPT !.chosen = TRUE]
                            [] Name(op) = "revise" -> [c EXCEPT !.revisions = @ + 1]
                            [] OTHER -> c

LEMMA TypeFacts ==
  ASSUME TypeOK, NEW a \in Agents
  PROVE  /\ said[a] \in Nat /\ artifacts[a] \in Nat /\ cut[a] \in Nat /\ config[a] \in Int
         /\ \A k \in Counted : tally[a][k] \in Nat
         /\ script[a] \in Seq(Ops)
         /\ constitution[a] \in Constitutions /\ constitution[a].revisions \in Nat
         /\ constitution[a].chosen \in BOOLEAN
         /\ constitution[a].file \in {"absent", "torn", "whole"}
         /\ inCommons[a] \in BOOLEAN
  BY DEF TypeOK, Unreadable, Constitutions

\* The whole of what an agent has depends on its own variables alone.
LEMMA Untouched ==
  ASSUME NEW a \in Agents, AgentInv(a),
         tally'[a] = tally[a], said'[a] = said[a], inCommons'[a] = inCommons[a],
         constitution'[a] = constitution[a], artifacts'[a] = artifacts[a],
         config'[a] = config[a], phase'[a] = phase[a], script'[a] = script[a],
         ended'[a] = ended[a], cut'[a] = cut[a]
  PROVE  AgentInv(a)'
<1>1. ScriptInv(a)' /\ CommonsInv(a)'
  BY DEF AgentInv, ScriptInv, CommonsInv, Late
<1>2. OrphanInv(a)'
  BY DEF AgentInv, OrphanInv, Orphans, Owes, OwesAny, Late
<1>3. DecisionInv(a)' /\ VersionInv(a)' /\ FieldInv(a)'
  BY DEF AgentInv, DecisionInv, VersionInv, FieldInv, Late
<1>4. QED
  BY <1>1, <1>2, <1>3 DEF AgentInv

LEMMA ScriptStep ==
  ASSUME NEW a \in Agents, ScriptInv(a), Done(a)
  PROVE  ScriptInv(a)'
<1> DEFINE s == script[a]
           t == Tail(s)
<1>1. s # <<>> /\ t = script'[a] /\ s \in Seq(Ops) /\ Rules(s)
  BY DEF Done, ScriptInv, Rules
<1>2. Rules(t)
  BY <1>1, TailRules
<1>3. \A name : Has(t, name) => Has(s, name)
  BY <1>1, HasTail
<1>4. \A i \in 1..Len(t) : i + 1 \in 1..Len(s) /\ t[i] = s[i + 1]
  BY <1>1, ScriptFacts
<1> HIDE DEF t
<1>5. phase'[a] = phase[a] /\ ended'[a] = ended[a]
  BY DEF Done
<1>6. phase[a] # "off"
  BY <1>1 DEF ScriptInv
<1>7. phase[a] \notin InTry => \A i \in 1..Len(t) : Name(t[i]) \in Outer
  BY <1>4 DEF ScriptInv
<1>8. QED
  BY <1>1, <1>2, <1>3, <1>5, <1>6, <1>7 DEF ScriptInv

\* What the run is about to do, in its try or not.
LEMMA HeadFacts ==
  ASSUME NEW a \in Agents, ScriptInv(a), script[a] # <<>>
  PROVE  /\ script[a] \in Seq(Ops) /\ Rules(script[a]) /\ Known(script[a][1])
         /\ Head(script[a]) = script[a][1]
         /\ phase[a] # "off"
         /\ phase[a] \notin InTry => Name(script[a][1]) \in Outer
<1>1. script[a] \in Seq(Ops) /\ Rules(script[a])
  BY DEF ScriptInv, Rules
<1>2. 1 \in 1..Len(script[a]) /\ Head(script[a]) = script[a][1]
  BY <1>1, ScriptFacts
<1>3. QED
  BY <1>1, <1>2 DEF ScriptInv, Rules

\* An operation makes one thing, tells of one, or neither.
LEMMA MakesFacts ==
  ASSUME NEW op
  PROVE  /\ Makes(op) = "revision" <=> Name(op) = "revise"
         /\ Makes(op) = "artifact" <=> Name(op) = "artifact"
         /\ Makes(op) = "forum" <=> Name(op) = "said"
         /\ Makes(op) = "field" <=> Name(op) = "choose"
         /\ Makes(op) \in {"revision", "artifact", "forum", "field", "nothing"}
         /\ Tells(op) = "revision" <=> Name(op) = "revised"
         /\ Tells(op) = "artifact" <=> Name(op) = "stored"
         /\ Tells(op) = "forum" <=> Name(op) \in ForumKinds
         /\ Tells(op) = "field" <=> Name(op) = "chosen"
         /\ Tells(op) \in {"revision", "artifact", "forum", "field", "nothing"}
         /\ Makes(op) = "nothing" \/ Tells(op) = "nothing"
  BY DEF Makes, Tells, ForumKinds

LEMMA OrphanStep ==
  ASSUME NEW a \in Agents, TypeOK, ScriptInv(a), FieldInv(a), OrphanInv(a), Done(a)
  PROVE  OrphanInv(a)'
<1> DEFINE s == script[a]
           t == Tail(s)
           op == s[1]
           n == Name(op)
<1>1. s # <<>> /\ t = script'[a] /\ s \in Seq(Ops) /\ Rules(s)
  BY DEF Done, ScriptInv, Rules
<1>2. /\ Makes(op) # "nothing" => t # <<>> /\ Tells(t[1]) = Makes(op)
      /\ t # <<>> /\ Tells(t[1]) # "nothing" => Makes(op) = Tells(t[1])
  BY <1>1, HeadRules
<1>3. \A what \in {"revision", "artifact", "forum", "field"} :
        /\ Owes(a, what)' <=> Makes(op) = what
        /\ Owes(a, what) <=> Tells(op) = what
  BY <1>1, <1>2 DEF Owes
<1>4. /\ OwesAny(a)' <=> Makes(op) # "nothing"
      /\ OwesAny(a) <=> Tells(op) # "nothing"
  BY <1>1, <1>2 DEF OwesAny
<1>5. /\ artifacts[a] \in Nat /\ said[a] \in Nat /\ cut[a] \in Nat
      /\ \A k \in Counted : tally[a][k] \in Nat
      /\ constitution[a] \in Constitutions /\ constitution[a].revisions \in Nat
      /\ constitution[a].chosen \in BOOLEAN
  BY TypeFacts
<1>6. constitution'[a].revisions = constitution[a].revisions + One(n = "revise")
  <2>1. CASE n = "initialize"
    <3>1. constitution[a] = Blank("absent")
      BY <1>1, <2>1, HasTail DEF FieldInv
    <3>2. QED
      BY <2>1, <3>1 DEF Done, Blank, One
  <2>2. CASE n = "revise"
    BY <1>5, <2>2 DEF Done, One, Constitutions
  <2>3. CASE n \notin {"initialize", "revise"}
    BY <1>5, <2>3 DEF Done, One, Constitutions
  <2>4. QED
    BY <2>1, <2>2, <2>3
<1>7. One(constitution'[a].chosen) = One(constitution[a].chosen) + One(n = "choose")
  <2>1. CASE n = "initialize"
    <3>1. constitution[a] = Blank("absent")
      BY <1>1, <2>1, HasTail DEF FieldInv
    <3>2. QED
      BY <2>1, <3>1 DEF Done, Blank, One
  <2>2. CASE n = "choose"
    <3>1. ~constitution[a].chosen
      BY <1>1, <2>2, HasTail DEF FieldInv
    <3>2. QED
      BY <1>5, <2>2, <3>1 DEF Done, One, Constitutions
  <2>3. CASE n \notin {"initialize", "choose"}
    BY <1>5, <2>3 DEF Done, One, Constitutions
  <2>4. QED
    BY <2>1, <2>2, <2>3
<1>8. /\ tally'[a]["revised"] = tally[a]["revised"] + One(n = "revised")
      /\ tally'[a]["stored"] = tally[a]["stored"] + One(n = "stored")
      /\ tally'[a]["forum"] = tally[a]["forum"] + One(n \in ForumKinds)
      /\ tally'[a]["chosen"] = tally[a]["chosen"] + One(n = "chosen")
      /\ artifacts'[a] = artifacts[a] + One(n = "artifact")
      /\ said'[a] = said[a] + One(n = "said")
      /\ cut'[a] = cut[a] /\ phase'[a] = phase[a]
  BY DEF Done, Counted
<1>9. Late(a) => Makes(op) = "nothing" /\ Tells(op) = "nothing"
  <2>1. Late(a) => n \in Outer
    BY <1>1, HeadFacts DEF Late, InTry
  <2>2. QED
    BY <2>1, OuterPlain, PlainTells
<1>10. \A p : One(p) \in {0, 1} /\ (One(p) = 1 <=> p)
  BY DEF One
<1> DEFINE c == cut[a]
           late == Late(a)
           o == Orphans(a)
           p == Orphans(a)'
<1>11. /\ p.revision = o.revision + One(Makes(op) = "revision") - One(Tells(op) = "revision")
       /\ p.artifact = o.artifact + One(Makes(op) = "artifact") - One(Tells(op) = "artifact")
       /\ p.forum = o.forum + One(Makes(op) = "forum") - One(Tells(op) = "forum")
       /\ p.field = o.field + One(Makes(op) = "field") - One(Tells(op) = "field")
       /\ o.revision \in Int /\ o.artifact \in Int /\ o.forum \in Int /\ o.field \in Int
  <2>1. /\ o.revision = constitution[a].revisions - tally[a]["revised"]
        /\ o.artifact = artifacts[a] - tally[a]["stored"]
        /\ o.forum = said[a] - tally[a]["forum"]
        /\ o.field = One(constitution[a].chosen) - tally[a]["chosen"]
        /\ p.revision = constitution'[a].revisions - tally'[a]["revised"]
        /\ p.artifact = artifacts'[a] - tally'[a]["stored"]
        /\ p.forum = said'[a] - tally'[a]["forum"]
        /\ p.field = One(constitution'[a].chosen) - tally'[a]["chosen"]
    BY DEF Orphans, One
  <2>2. /\ One(Makes(op) = "revision") = One(n = "revise")
        /\ One(Makes(op) = "artifact") = One(n = "artifact")
        /\ One(Makes(op) = "forum") = One(n = "said")
        /\ One(Makes(op) = "field") = One(n = "choose")
        /\ One(Tells(op) = "revision") = One(n = "revised")
        /\ One(Tells(op) = "artifact") = One(n = "stored")
        /\ One(Tells(op) = "forum") = One(n \in ForumKinds)
        /\ One(Tells(op) = "field") = One(n = "chosen")
    BY MakesFacts DEF One
  <2>3. {"revised", "stored", "forum", "chosen"} \subseteq Counted
    BY DEF Counted
  <2>4. /\ constitution[a].revisions \in Nat /\ tally[a]["revised"] \in Nat
        /\ tally[a]["stored"] \in Nat /\ tally[a]["forum"] \in Nat
        /\ tally[a]["chosen"] \in Nat
        /\ One(constitution[a].chosen) \in Nat /\ One(n = "choose") \in Nat
        /\ One(n = "revise") \in Nat /\ One(n = "artifact") \in Nat /\ One(n = "said") \in Nat
        /\ One(n = "revised") \in Nat /\ One(n = "stored") \in Nat
        /\ One(n = "chosen") \in Nat /\ One(n \in ForumKinds) \in Nat
    BY <1>5, <2>3 DEF One
  <2> HIDE DEF o, p, op, n
  <2>5. /\ p.revision = o.revision + One(Makes(op) = "revision") - One(Tells(op) = "revision")
        /\ o.revision \in Int
    BY <1>6, <1>8, <2>1, <2>2, <2>4
  <2>6. /\ p.artifact = o.artifact + One(Makes(op) = "artifact") - One(Tells(op) = "artifact")
        /\ o.artifact \in Int
    BY <1>5, <1>8, <2>1, <2>2, <2>4
  <2>7. /\ p.forum = o.forum + One(Makes(op) = "forum") - One(Tells(op) = "forum")
        /\ o.forum \in Int
    BY <1>5, <1>8, <2>1, <2>2, <2>4
  <2>8. /\ p.field = o.field + One(Makes(op) = "field") - One(Tells(op) = "field")
        /\ o.field \in Int
    BY <1>7, <1>8, <2>1, <2>2, <2>4
  <2>9. QED
    BY <2>5, <2>6, <2>7, <2>8
<1>12. /\ o.revision >= One(Tells(op) = "revision") /\ o.artifact >= One(Tells(op) = "artifact")
       /\ o.forum >= One(Tells(op) = "forum") /\ o.field >= One(Tells(op) = "field")
       /\ o.revision + o.artifact + o.forum + o.field <= c + One(late \/ Tells(op) # "nothing")
  <2> HIDE DEF o, op, late
  <2>1. QED
    BY <1>3, <1>4 DEF OrphanInv, One, o, late
<1>13. /\ Makes(op) \in {"revision", "artifact", "forum", "field", "nothing"}
       /\ Tells(op) \in {"revision", "artifact", "forum", "field", "nothing"}
       /\ Makes(op) = "nothing" \/ Tells(op) = "nothing"
  BY MakesFacts
<1>14. late' = late /\ c' = c /\ c \in Nat
  BY <1>5, <1>8 DEF Late
<1> HIDE DEF o, p, op, late, c
<1>15. /\ p.revision >= One(Makes(op) = "revision") /\ p.artifact >= One(Makes(op) = "artifact")
       /\ p.forum >= One(Makes(op) = "forum") /\ p.field >= One(Makes(op) = "field")
  BY <1>10, <1>11, <1>12
<1>16. p.revision + p.artifact + p.forum + p.field <= c + One(late \/ Makes(op) # "nothing")
  <2>1. CASE Makes(op) # "nothing"
    BY <1>9, <1>10, <1>11, <1>12, <1>13, <1>14, <2>1 DEF One, late
  <2>2. CASE Tells(op) # "nothing"
    BY <1>9, <1>10, <1>11, <1>12, <1>13, <1>14, <2>2 DEF One, late
  <2>3. CASE Makes(op) = "nothing" /\ Tells(op) = "nothing"
    BY <1>10, <1>11, <1>12, <1>13, <1>14, <2>3 DEF One
  <2>4. QED
    BY <2>1, <2>2, <2>3
<1>17. QED
  BY <1>3, <1>4, <1>14, <1>15, <1>16 DEF OrphanInv, One, p, late, c

LEMMA DecisionStep ==
  ASSUME NEW a \in Agents, TypeOK, ScriptInv(a), DecisionInv(a), Done(a)
  PROVE  DecisionInv(a)'
<1> DEFINE s == script[a]
           t == Tail(s)
           n == Name(s[1])
           T(name) == Has(t, name)
<1>1. s # <<>> /\ t = script'[a] /\ s \in Seq(Ops) /\ Rules(s)
  BY DEF Done, ScriptInv, Rules
<1>2. \A name : Has(s, name) <=> n = name \/ T(name)
  BY <1>1, HasTail
<1>3. /\ Rank("taken") = 1 /\ Rank("respond") = 2 /\ Rank("executed") = 3
      /\ Rank("completed") = 4 /\ Rank("evaluated") = 5 /\ Rank("bump") = 6
  BY DEF Rank
<1>4. /\ \A name : Rank(n) > 0 /\ Rank(name) > 0 /\ T(name) => Rank(n) < Rank(name)
      /\ n = "taken" => T("respond")
      /\ n = "completed" => T("evaluated") /\ T("bump")
  BY <1>1, HeadRules
<1>5. Has(s, "respond") => ~Has(s, "completed") /\ ~Has(s, "bump")
  BY <1>1 DEF Rules
<1>6. n \in {"taken", "respond", "executed", "completed", "evaluated"} => ~Late(a)
  BY <1>1, HeadFacts DEF Late, InTry, Outer
<1> DEFINE taken == tally[a]["taken"]
           executed == tally[a]["executed"]
           completed == tally[a]["completed"]
           evaluated == tally[a]["evaluated"]
<1>7. /\ taken \in Nat /\ executed \in Nat /\ completed \in Nat /\ evaluated \in Nat
      /\ cut[a] \in Nat
  BY TypeFacts DEF Counted
<1>8. /\ taken' = taken + One(n = "taken") /\ executed' = executed + One(n = "executed")
      /\ completed' = completed + One(n = "completed")
      /\ evaluated' = evaluated + One(n = "evaluated")
      /\ cut'[a] = cut[a] /\ (Late(a)' <=> Late(a))
  BY DEF Done, Counted, Late
<1> DEFINE execution == OwesExecution(s)
           evaluation == OwesEvaluation(s)
           only == OnlyEvaluation(s)
<1>9. /\ executed + One(execution) <= taken
      /\ evaluated + One(only) <= executed + completed
      /\ taken + completed - evaluated <= cut[a] + One(Late(a) \/ evaluation)
  BY DEF DecisionInv
<1>10. /\ execution <=> /\ n = "executed" \/ T("respond") \/ T("executed")
                       /\ n # "taken" /\ ~T("taken")
       /\ evaluation <=> /\ n = "evaluated" \/ T("respond") \/ T("evaluated")
                        /\ n \notin {"taken", "completed"} /\ ~T("taken") /\ ~T("completed")
       /\ only <=> evaluation /\ ~T("respond") /\ n # "executed" /\ ~T("executed")
  BY <1>2 DEF Done, OwesExecution, OwesEvaluation, OnlyEvaluation
<1>11. /\ execution' <=> (T("respond") \/ T("executed")) /\ ~T("taken")
       /\ evaluation' <=> (T("respond") \/ T("evaluated")) /\ ~T("taken") /\ ~T("completed")
       /\ only' <=> evaluation' /\ ~T("respond") /\ ~T("executed")
  BY <1>1 DEF OwesExecution, OwesEvaluation, OnlyEvaluation
<1>12. SUFFICES /\ executed' + One(execution') <= taken'
                /\ evaluated' + One(only') <= executed' + completed'
                /\ taken' + completed' - evaluated' <= cut[a] + One(Late(a) \/ evaluation')
  BY <1>8 DEF DecisionInv, One
<1>13. n \notin {"taken", "executed", "completed", "evaluated"} =>
         /\ execution' <=> execution
         /\ evaluation' <=> evaluation
         /\ only' <=> only
  BY <1>10, <1>11
<1>14. n = "taken" =>
         ~execution /\ ~evaluation /\ ~only /\ execution' /\ evaluation' /\ ~only' /\ ~Late(a)
  BY <1>2, <1>3, <1>4, <1>5, <1>6, <1>10, <1>11
<1>15. n = "executed" => execution /\ ~execution' /\ ~only /\ (evaluation' <=> evaluation)
  BY <1>3, <1>4, <1>10, <1>11
<1>16. n = "completed" =>
         ~execution /\ ~execution' /\ ~evaluation /\ evaluation' /\ ~only /\ ~Late(a)
  BY <1>3, <1>4, <1>6, <1>10, <1>11
<1>17. n = "evaluated" =>
         ~execution /\ ~execution' /\ evaluation /\ ~evaluation' /\ only /\ ~only' /\ ~Late(a)
  BY <1>3, <1>4, <1>6, <1>10, <1>11
<1> DEFINE executionNow == execution'
           evaluationNow == evaluation'
           onlyNow == only'
<1> HIDE DEF n, execution, evaluation, only, executionNow, evaluationNow, onlyNow
<1>18. CASE n \notin {"taken", "executed", "completed", "evaluated"}
  BY <1>7, <1>8, <1>9, <1>13, <1>18 DEF One
<1>19. CASE n = "taken"
  BY <1>7, <1>8, <1>9, <1>14, <1>19 DEF One
<1>20. CASE n = "executed"
  BY <1>7, <1>8, <1>9, <1>15, <1>20 DEF One
<1>21. CASE n = "completed"
  BY <1>7, <1>8, <1>9, <1>16, <1>21 DEF One
<1>22. CASE n = "evaluated"
  BY <1>7, <1>8, <1>9, <1>17, <1>22 DEF One
<1>23. QED
  BY <1>18, <1>19, <1>20, <1>21, <1>22

LEMMA VersionStep ==
  ASSUME NEW a \in Agents, TypeOK, ScriptInv(a), VersionInv(a), Done(a)
  PROVE  VersionInv(a)'
<1> DEFINE s == script[a]
           t == Tail(s)
           n == Name(s[1])
           T(name) == Has(t, name)
           completed == tally[a]["completed"]
           owes == OwesVersion(s)
           owesNow == OwesVersion(t)
<1>1. s # <<>> /\ t = script'[a] /\ s \in Seq(Ops) /\ Rules(s)
  BY DEF Done, ScriptInv, Rules
<1>2. \A name : Has(s, name) <=> n = name \/ T(name)
  BY <1>1, HasTail
<1>3. Rank("completed") = 4 /\ Rank("bump") = 6
  BY DEF Rank
<1>4. /\ \A name : Rank(n) > 0 /\ Rank(name) > 0 /\ T(name) => Rank(n) < Rank(name)
      /\ n = "completed" => T("bump")
  BY <1>1, HeadRules
<1>5. n \in {"completed", "bump"} => ~Late(a)
  BY <1>1, HeadFacts DEF Late, InTry, Outer
<1>6. completed \in Nat /\ config[a] \in Int /\ cut[a] \in Nat
  BY TypeFacts DEF Counted
<1>7. /\ completed' = completed + One(n = "completed") /\ config'[a] = config[a] + One(n = "bump")
      /\ cut'[a] = cut[a] /\ (Late(a)' <=> Late(a))
  BY DEF Done, Counted, Late
<1>8. /\ config[a] # Unreadable
      /\ config[a] + One(owes) <= completed
      /\ completed - config[a] <= cut[a] + One(Late(a) \/ owes)
  BY <1>1, HeadFacts DEF VersionInv
<1>9. /\ owes <=> (n = "bump" \/ T("bump")) /\ n # "completed" /\ ~T("completed")
      /\ owesNow <=> T("bump") /\ ~T("completed")
  BY <1>2 DEF OwesVersion
<1>10. n = "completed" => ~owes /\ owesNow /\ ~Late(a)
  BY <1>3, <1>4, <1>5, <1>9
<1>11. n = "bump" => owes /\ ~owesNow /\ ~Late(a)
  BY <1>3, <1>4, <1>5, <1>9
<1>12. n \notin {"completed", "bump"} => (owesNow <=> owes)
  BY <1>9
<1>13. config'[a] # Unreadable
  <2>1. config[a] \in Nat
    BY <1>8 DEF TypeOK
  <2>2. config'[a] \in Nat
    BY <1>7, <2>1 DEF One
  <2>3. QED
    BY <2>2 DEF Unreadable
<1> DEFINE Goal == /\ config'[a] + One(owesNow) <= completed'
                   /\ completed' - config'[a] <= cut[a] + One(Late(a) \/ owesNow)
<1> HIDE DEF n, owes, owesNow
<1>14. n = "completed" => Goal
  BY <1>6, <1>7, <1>8, <1>10 DEF One
<1>15. n = "bump" => Goal
  BY <1>6, <1>7, <1>8, <1>11 DEF One
<1>16. n \notin {"completed", "bump"} => Goal
  BY <1>6, <1>7, <1>8, <1>12 DEF One
<1>17. Goal
  BY <1>14, <1>15, <1>16
<1> HIDE DEF Goal
<1>18. QED
  BY <1>1, <1>7, <1>13, <1>17 DEF VersionInv, One, owesNow, Goal

LEMMA FieldStep ==
  ASSUME NEW a \in Agents, TypeOK, ScriptInv(a), FieldInv(a), Done(a)
  PROVE  FieldInv(a)'
<1> DEFINE s == script[a]
           t == Tail(s)
           n == Name(s[1])
           T(name) == Has(t, name)
           c == constitution[a]
           d == constitution'[a]
<1>1. s # <<>> /\ t = script'[a] /\ s \in Seq(Ops) /\ Rules(s)
  BY DEF Done, ScriptInv, Rules
<1>2. \A name : Has(s, name) <=> n = name \/ T(name)
  BY <1>1, HasTail
<1>3. /\ n = "initialize" => T("choose")
      /\ n = "choose" => ~T("choose")
      /\ ~T("initialize")
  BY <1>1, HeadRules
<1>4. n \in {"revise", "choose", "initialize"} => phase[a] \in InTry
  BY <1>1, HeadFacts DEF Outer
<1>5. c \in Constitutions /\ cut[a] \in Nat
  BY TypeFacts
<1>6. /\ n = "initialize" => d = Blank("whole")
      /\ n = "choose" => d = [c EXCEPT !.chosen = TRUE]
      /\ n = "revise" => d = [c EXCEPT !.revisions = @ + 1]
      /\ n \notin {"initialize", "choose", "revise"} => d = c
      /\ cut'[a] = cut[a] /\ phase'[a] = phase[a] /\ (Late(a)' <=> Late(a))
  BY DEF Done, Late
<1>7. /\ n = "initialize" => d.file = "whole" /\ ~d.chosen
      /\ n = "choose" => d.file = c.file /\ d.chosen
      /\ n = "revise" => d.file = c.file /\ d.chosen = c.chosen
  BY <1>5, <1>6 DEF Constitutions, Blank
<1>8. /\ Has(s, "initialize") => c.file = "absent"
      /\ Has(s, "choose") => ~c.chosen
      /\ c.file = "absent" => c = Blank("absent")
      /\ phase[a] \in InTry /\ ~Has(s, "initialize") => c.file # "absent"
      /\ c.file # "absent" => c.chosen \/ cut[a] > 0 \/ Late(a) \/ Has(s, "choose")
  BY DEF FieldInv
<1>9. SUFFICES /\ T("choose") => ~d.chosen
               /\ d.file = "absent" => d = Blank("absent")
               /\ phase[a] \in InTry => d.file # "absent"
               /\ d.file # "absent" => d.chosen \/ cut[a] > 0 \/ Late(a) \/ T("choose")
  BY <1>1, <1>3, <1>6 DEF FieldInv
<1> HIDE DEF n, c, d
<1>10. CASE n = "initialize"
  BY <1>2, <1>3, <1>7, <1>8, <1>10
<1>11. CASE n = "choose"
  BY <1>2, <1>3, <1>4, <1>7, <1>8, <1>11
<1>12. CASE n = "revise"
  BY <1>2, <1>3, <1>4, <1>7, <1>8, <1>12
<1>13. CASE n \notin {"initialize", "choose", "revise"}
  BY <1>2, <1>3, <1>6, <1>8, <1>13
<1>14. QED
  BY <1>10, <1>11, <1>12, <1>13

LEMMA CommonsStep ==
  ASSUME NEW a \in Agents, ScriptInv(a), CommonsInv(a), Done(a)
  PROVE  CommonsInv(a)'
<1> DEFINE s == script[a]
           t == Tail(s)
           n == Name(s[1])
<1>1. s # <<>> /\ t = script'[a] /\ s \in Seq(Ops) /\ Rules(s)
  BY DEF Done, ScriptInv, Rules
<1>2. Has(s, "left") <=> n = "left" \/ Has(t, "left")
  BY <1>1, HasTail
<1>3. n = "visited" => Has(t, "left")
  BY <1>1, HeadRules
<1>4. /\ inCommons'[a] = IF n \in {"visited", "left"} THEN n = "visited" ELSE inCommons[a]
      /\ cut'[a] = cut[a] /\ (Late(a)' <=> Late(a))
  BY DEF Done, Late
<1>5. QED
  BY <1>1, <1>2, <1>3, <1>4 DEF CommonsInv

LEMMA DoneStep ==
  ASSUME NEW a \in Agents, TypeOK, AgentInv(a), Done(a)
  PROVE  AgentInv(a)'
  BY ScriptStep, OrphanStep, DecisionStep, VersionStep, FieldStep, CommonsStep DEF AgentInv

-----------------------------------------------------------------------------
(* The end of a run, and the scripts that take the place of others *)

\* What an agent has stays as it is.
Keeps(a) ==
  /\ tally'[a] = tally[a] /\ said'[a] = said[a] /\ inCommons'[a] = inCommons[a]
  /\ constitution'[a] = constitution[a] /\ artifacts'[a] = artifacts[a]
  /\ config'[a] = config[a]

\* The run is cut short, with at most one thing untold.
Cut(a) ==
  /\ script'[a] = <<>> /\ phase'[a] = "off" /\ cut'[a] = cut[a] + 1
  /\ tally'[a] = tally[a]

LEMMA CutStep ==
  ASSUME NEW a \in Agents, TypeOK, AgentInv(a), Cut(a),
         LET o == Orphans(a)' IN
           /\ o.revision >= 0 /\ o.artifact >= 0 /\ o.forum >= 0 /\ o.field >= 0
           /\ o.revision + o.artifact + o.forum + o.field <= cut[a] + 1,
         config'[a] \in {config[a], Unreadable},
         constitution'[a].file = "absent" => constitution'[a] = Blank("absent")
  PROVE  AgentInv(a)'
<1>1. /\ script'[a] = <<>> /\ phase'[a] = "off" /\ cut'[a] = cut[a] + 1 /\ cut[a] \in Nat
      /\ tally'[a] = tally[a] /\ ~Late(a)' /\ "off" \notin InTry
  BY TypeFacts DEF Cut, Late, InTry
<1>2. Rules(<<>>) /\ Len(<<>>) = 0 /\ 1..0 = {} /\ \A name : ~Has(<<>>, name)
  BY EmptyScript
<1>3. ScriptInv(a)'
  BY <1>1, <1>2 DEF ScriptInv
<1>4. OrphanInv(a)'
  <2>1. \A what : ~Owes(a, what)'
    BY <1>1 DEF Owes
  <2>2. ~OwesAny(a)'
    BY <1>1 DEF OwesAny
  <2> DEFINE p == Orphans(a)'
  <2>3. /\ p.revision >= 0 /\ p.artifact >= 0 /\ p.forum >= 0 /\ p.field >= 0
        /\ p.revision + p.artifact + p.forum + p.field <= cut[a] + 1
    OBVIOUS
  <2>4. cut'[a] + 0 = cut[a] + 1
    BY <1>1
  <2> HIDE DEF p
  <2>5. QED
    BY <1>1, <2>1, <2>2, <2>3, <2>4 DEF OrphanInv, One, p
<1>5. /\ ~OwesExecution(<<>>) /\ ~OwesEvaluation(<<>>) /\ ~OnlyEvaluation(<<>>)
  BY <1>2 DEF OwesExecution, OwesEvaluation, OnlyEvaluation
<1>6. DecisionInv(a)'
  <2>1. /\ tally[a]["taken"] \in Nat /\ tally[a]["executed"] \in Nat
        /\ tally[a]["completed"] \in Nat /\ tally[a]["evaluated"] \in Nat
    BY TypeFacts DEF Counted
  <2>2. /\ tally[a]["executed"] <= tally[a]["taken"]
        /\ tally[a]["evaluated"] <= tally[a]["executed"] + tally[a]["completed"]
        /\ tally[a]["taken"] + tally[a]["completed"] - tally[a]["evaluated"] <= cut[a] + 1
    <3> DEFINE x == OwesExecution(script[a])
               y == OnlyEvaluation(script[a])
               z == Late(a) \/ OwesEvaluation(script[a])
    <3>1. /\ tally[a]["executed"] + One(x) <= tally[a]["taken"]
          /\ tally[a]["evaluated"] + One(y) <= tally[a]["executed"] + tally[a]["completed"]
          /\ tally[a]["taken"] + tally[a]["completed"] - tally[a]["evaluated"] <= cut[a] + One(z)
      BY DEF AgentInv, DecisionInv
    <3>2. One(x) \in {0, 1} /\ One(y) \in {0, 1} /\ One(z) \in {0, 1}
      BY DEF One
    <3> HIDE DEF x, y, z
    <3>3. cut[a] \in Nat
      BY <1>1
    <3>4. \A taken, executed, completed, evaluated, c \in Nat : \A i, j, k \in {0, 1} :
            /\ executed + i <= taken
            /\ evaluated + j <= executed + completed
            /\ taken + completed - evaluated <= c + k
            => /\ executed <= taken
               /\ evaluated <= executed + completed
               /\ taken + completed - evaluated <= c + 1
      OBVIOUS
    <3>5. QED
      BY <2>1, <3>1, <3>2, <3>3, <3>4
  <2>3. QED
    BY <1>1, <1>5, <2>1, <2>2 DEF DecisionInv, One
<1>7. VersionInv(a)'
  <2>1. CASE config'[a] = Unreadable
    BY <1>1, <2>1 DEF VersionInv
  <2>2. CASE config'[a] = config[a] /\ config[a] # Unreadable
    <3>1. tally[a]["completed"] \in Nat /\ config[a] \in Int
      BY TypeFacts DEF Counted
    <3>2. /\ config[a] <= tally[a]["completed"]
          /\ tally[a]["completed"] - config[a] <= cut[a] + 1
      BY <1>1, <2>2, <3>1 DEF AgentInv, VersionInv, One
    <3>3. ~OwesVersion(<<>>)
      BY <1>2 DEF OwesVersion
    <3>4. QED
      BY <1>1, <2>2, <3>1, <3>2, <3>3 DEF VersionInv, One
  <2>3. QED
    BY <2>1, <2>2
<1>8. FieldInv(a)' /\ CommonsInv(a)'
  BY <1>1, <1>2 DEF FieldInv, CommonsInv
<1>9. QED
  BY <1>3, <1>4, <1>6, <1>7, <1>8 DEF AgentInv

\* What is untold when a run ends between two operations.
LEMMA KeptOrphans ==
  ASSUME NEW a \in Agents, TypeOK, OrphanInv(a), Keeps(a)
  PROVE  LET o == Orphans(a)' IN
           /\ o.revision >= 0 /\ o.artifact >= 0 /\ o.forum >= 0 /\ o.field >= 0
           /\ o.revision + o.artifact + o.forum + o.field <= cut[a] + 1
<1> DEFINE o == Orphans(a)
           p == Orphans(a)'
<1>1. p = o
  BY DEF Keeps, Orphans
<1>2. o.revision \in Int /\ o.artifact \in Int /\ o.forum \in Int /\ o.field \in Int
  BY TypeFacts DEF Orphans, Counted
<1>3. cut[a] \in Nat
  BY TypeFacts
<1> HIDE DEF o, p
<1>4. /\ o.revision >= 0 /\ o.artifact >= 0 /\ o.forum >= 0 /\ o.field >= 0
      /\ o.revision + o.artifact + o.forum + o.field <= cut[a] + 1
  BY <1>2, <1>3 DEF OrphanInv, One, o
<1>5. QED
  BY <1>1, <1>4 DEF p

LEMMA EndStep ==
  ASSUME NEW a \in Agents, TypeOK, AgentInv(a), Cut(a), Keeps(a)
  PROVE  AgentInv(a)'
<1>1. LET o == Orphans(a)' IN
        /\ o.revision >= 0 /\ o.artifact >= 0 /\ o.forum >= 0 /\ o.field >= 0
        /\ o.revision + o.artifact + o.forum + o.field <= cut[a] + 1
  BY KeptOrphans DEF AgentInv
<1>2. config'[a] = config[a] /\ constitution'[a] = constitution[a]
  BY DEF Keeps
<1>3. constitution[a].file = "absent" => constitution[a] = Blank("absent")
  BY DEF AgentInv, FieldInv
<1>4. QED
  BY <1>1, <1>2, <1>3, CutStep

\* Another script, of which nothing is told yet: what the run owes of a
\* decision and of its completion is what it owed.
Replaced(a) ==
  /\ Rules(script'[a]) /\ cut'[a] = cut[a] /\ Keeps(a)
  /\ script'[a] # <<>> => Tells(script'[a][1]) = "nothing"
  /\ ~OwesAny(a)

LEMMA KeptOwes ==
  ASSUME NEW a \in Agents, TypeOK, OrphanInv(a), Replaced(a), Late(a) => Late(a)'
  PROVE  OrphanInv(a)'
<1> DEFINE o == Orphans(a)
           p == Orphans(a)'
<1>1. p = o
  BY DEF Replaced, Keeps, Orphans
<1>2. /\ \A what : Owes(a, what)' => what = "nothing"
      /\ ~OwesAny(a)' /\ ~OwesAny(a)
  BY DEF Replaced, Owes, OwesAny
<1>3. o.revision \in Int /\ o.artifact \in Int /\ o.forum \in Int /\ o.field \in Int
  BY TypeFacts DEF Orphans, Counted
<1>4. cut[a] \in Nat /\ cut'[a] = cut[a]
  BY TypeFacts DEF Replaced
<1> HIDE DEF o, p
<1>5. /\ o.revision >= 0 /\ o.artifact >= 0 /\ o.forum >= 0 /\ o.field >= 0
      /\ o.revision + o.artifact + o.forum + o.field <= cut[a] + One(Late(a))
  BY <1>2, <1>3 DEF OrphanInv, One, o
<1>6. o.revision + o.artifact + o.forum + o.field <= cut[a] + One(Late(a)')
  BY <1>3, <1>4, <1>5 DEF One
<1>7. QED
  BY <1>1, <1>2, <1>3, <1>4, <1>5, <1>6 DEF OrphanInv, One, p

LEMMA ReplaceStep ==
  ASSUME NEW a \in Agents, TypeOK, AgentInv(a), Replaced(a), ScriptInv(a)', FieldInv(a)',
         ~Late(a), ~Late(a)', config[a] # Unreadable,
         OwesExecution(script'[a]) => OwesExecution(script[a]),
         OwesEvaluation(script'[a]) <=> OwesEvaluation(script[a]),
         OnlyEvaluation(script'[a]) => OnlyEvaluation(script[a]),
         OwesVersion(script'[a]) <=> OwesVersion(script[a]),
         Has(script[a], "left") => Has(script'[a], "left")
  PROVE  AgentInv(a)'
<1>1. OrphanInv(a)'
  BY KeptOwes DEF AgentInv
<1>2. tally'[a] = tally[a] /\ config'[a] = config[a] /\ inCommons'[a] = inCommons[a]
      /\ cut'[a] = cut[a]
  BY DEF Replaced, Keeps
<1>3. DecisionInv(a)'
  <2>1. /\ tally[a]["taken"] \in Nat /\ tally[a]["executed"] \in Nat
        /\ tally[a]["completed"] \in Nat /\ tally[a]["evaluated"] \in Nat /\ cut[a] \in Nat
    BY TypeFacts DEF Counted
  <2> DEFINE x == OwesExecution(script[a])    x2 == OwesExecution(script'[a])
             y == OnlyEvaluation(script[a])   y2 == OnlyEvaluation(script'[a])
             z == OwesEvaluation(script[a])   z2 == OwesEvaluation(script'[a])
  <2>2. /\ tally[a]["executed"] + One(x) <= tally[a]["taken"]
        /\ tally[a]["evaluated"] + One(y) <= tally[a]["executed"] + tally[a]["completed"]
        /\ tally[a]["taken"] + tally[a]["completed"] - tally[a]["evaluated"] <= cut[a] + One(z)
    BY DEF AgentInv, DecisionInv, One
  <2>3. /\ One(x) \in {0, 1} /\ One(x2) \in {0, 1} /\ One(x2) <= One(x)
        /\ One(y) \in {0, 1} /\ One(y2) \in {0, 1} /\ One(y2) <= One(y)
        /\ One(z) \in {0, 1} /\ One(z2) = One(z)
    BY DEF One
  <2>4. /\ tally[a]["executed"] + One(x2) <= tally[a]["taken"]
        /\ tally[a]["evaluated"] + One(y2) <= tally[a]["executed"] + tally[a]["completed"]
        /\ tally[a]["taken"] + tally[a]["completed"] - tally[a]["evaluated"] <= cut[a] + One(z2)
    <3> HIDE DEF x, y, z, x2, y2, z2
    <3>1. QED
      BY <2>1, <2>2, <2>3
  <2>5. One(Late(a)' \/ z2) = One(z2)
    BY DEF One
  <2>6. QED
    BY <1>2, <2>4, <2>5 DEF DecisionInv
<1>4. VersionInv(a)'
  BY <1>2 DEF AgentInv, VersionInv, One
<1>5. CommonsInv(a)'
  BY <1>2 DEF AgentInv, CommonsInv
<1>6. QED
  BY <1>1, <1>3, <1>4, <1>5 DEF AgentInv

LEMMA HandleStep ==
  ASSUME NEW a \in Agents, TypeOK, AgentInv(a), Keeps(a), phase[a] # "off",
         script'[a] = Stopping, phase'[a] = "handler", cut'[a] = cut[a], ended'[a] # "completed"
  PROVE  AgentInv(a)'
<1>1. /\ Rules(script'[a]) /\ \A i \in 1..Len(script'[a]) : Name(script'[a][i]) \in Outer
      /\ Late(a)' /\ "handler" \notin InTry
  BY StoppingRules DEF Late, InTry
<1>2. \A name \in {"initialize", "choose", "taken", "respond", "executed", "evaluated",
                   "completed", "bump", "left", "build"} : ~Has(script'[a], name)
  BY <1>1, OuterHas
<1>3. ScriptInv(a)'
  BY <1>1, <1>2 DEF ScriptInv
<1>4. OrphanInv(a)'
  <2>1. Tells(Stopping[1]) = "nothing"
    BY DEF Stopping, Do, Tells, Name, ForumKinds
  <2>2. ~OwesAny(a)' /\ \A what : Owes(a, what)' => what = "nothing"
    BY <2>1 DEF OwesAny, Owes
  <2> DEFINE p == Orphans(a)'
  <2>3. /\ p.revision >= 0 /\ p.artifact >= 0 /\ p.forum >= 0 /\ p.field >= 0
        /\ p.revision + p.artifact + p.forum + p.field <= cut[a] + 1
    BY KeptOrphans DEF AgentInv
  <2> HIDE DEF p
  <2>4. QED
    BY <1>1, <2>2, <2>3 DEF OrphanInv, One, p
<1>5. tally'[a] = tally[a] /\ config'[a] = config[a] /\ constitution'[a] = constitution[a]
  BY DEF Keeps
<1>6. DecisionInv(a)'
  <2>1. /\ tally[a]["taken"] \in Nat /\ tally[a]["executed"] \in Nat
        /\ tally[a]["completed"] \in Nat /\ tally[a]["evaluated"] \in Nat /\ cut[a] \in Nat
    BY TypeFacts DEF Counted
  <2> DEFINE x == OwesExecution(script[a])
             y == OnlyEvaluation(script[a])
             z == Late(a) \/ OwesEvaluation(script[a])
  <2>2. /\ tally[a]["executed"] + One(x) <= tally[a]["taken"]
        /\ tally[a]["evaluated"] + One(y) <= tally[a]["executed"] + tally[a]["completed"]
        /\ tally[a]["taken"] + tally[a]["completed"] - tally[a]["evaluated"] <= cut[a] + One(z)
    BY DEF AgentInv, DecisionInv
  <2>3. One(x) \in {0, 1} /\ One(y) \in {0, 1} /\ One(z) \in {0, 1}
    BY DEF One
  <2> HIDE DEF x, y, z
  <2>4. /\ tally[a]["executed"] + 0 <= tally[a]["taken"]
        /\ tally[a]["evaluated"] + 0 <= tally[a]["executed"] + tally[a]["completed"]
        /\ tally[a]["taken"] + tally[a]["completed"] - tally[a]["evaluated"] <= cut[a] + 1
    BY <2>1, <2>2, <2>3
  <2>5. ~OwesExecution(script'[a]) /\ ~OnlyEvaluation(script'[a])
    BY <1>2 DEF OwesExecution, OwesEvaluation, OnlyEvaluation
  <2>6. QED
    BY <1>1, <1>5, <2>4, <2>5 DEF DecisionInv, One
<1>7. VersionInv(a)'
  <2>1. tally[a]["completed"] \in Nat /\ config[a] \in Int /\ cut[a] \in Nat
    BY TypeFacts DEF Counted
  <2>2. /\ config[a] # Unreadable /\ config[a] <= tally[a]["completed"]
        /\ tally[a]["completed"] - config[a] <= cut[a] + 1
    BY <2>1 DEF AgentInv, VersionInv, One
  <2>3. ~OwesVersion(script'[a])
    BY <1>2 DEF OwesVersion
  <2>4. QED
    BY <1>1, <1>5, <2>1, <2>2, <2>3 DEF VersionInv, One
<1>8. FieldInv(a)' /\ CommonsInv(a)'
  BY <1>1, <1>2, <1>5 DEF AgentInv, FieldInv, CommonsInv
<1>9. QED
  BY <1>3, <1>4, <1>6, <1>7, <1>8 DEF AgentInv

-----------------------------------------------------------------------------
(* The actions of an agent *)

LEMMA RunningFacts ==
  ASSUME NEW a \in Agents, ScriptInv(a), NEW what, Running(a, what)
  PROVE  /\ script[a] # <<>> /\ Head(script[a]) = script[a][1] /\ Known(script[a][1])
         /\ script[a][1].do = what
         /\ what # "append" => Name(script[a][1]) = what
         /\ phase[a] # "off"
         /\ what \notin {"append", "verify", "gate", "sync"} => phase[a] \in InTry
<1>1. script[a] # <<>> /\ Head(script[a]).do = what
  BY DEF Running
<1>2. /\ Head(script[a]) = script[a][1] /\ Known(script[a][1]) /\ phase[a] # "off"
      /\ phase[a] \notin InTry => Name(script[a][1]) \in Outer
  BY <1>1, HeadFacts
<1>3. what # "append" => Name(script[a][1]) = what
  BY <1>1, <1>2 DEF Name
<1>4. what \notin {"append", "verify", "gate", "sync"} => phase[a] \in InTry
  <2>1. script[a][1] \in Ops
    BY <1>2 DEF Known
  <2>2. what \in Acts \cup {"append"}
    BY <1>1, <1>2, <2>1 DEF Ops, Acts
  <2>3. QED
    BY <1>2, <1>3, <2>2 DEF Outer, Acts
<1>5. QED
  BY <1>1, <1>2, <1>3, <1>4

\* The counts go by the names.
LEMMA AppendFacts ==
  ASSUME NEW op, Known(op), op.do = "append"
  PROVE  /\ \A k \in Counted : Adds(op, k) <=>
              IF k = "forum" THEN Name(op) \in ForumKinds ELSE Name(op) = k
         /\ op.ledger \in Forums <=> Name(op) = "said"
         /\ op.ledger = "public" /\ op.kind \in {"visited", "left"} <=>
              Name(op) \in {"visited", "left"}
         /\ op.kind = "visited" /\ op.ledger = "public" <=> Name(op) = "visited"
         /\ Name(op) \notin Acts
         /\ Name(op) = "started" => op.ledger = "public"
<1>1. /\ op.ledger \in Ledgers /\ op.kind \in Kinds
      /\ op.kind \in ForumKinds => op.ledger \in Forums \cup {"public"}
      /\ op.ledger \in Forums => op.kind \in ForumKinds
      /\ op.kind = "started" => op.ledger = "public"
  BY DEF Known
<1>2. Name(op) = IF op.ledger \in Forums THEN "said" ELSE op.kind
  BY DEF Name
<1>3. /\ "said" \notin Kinds \cup Acts /\ Kinds \cap Acts = {}
      /\ Counted \cap ForumKinds = {} /\ "public" \notin Forums /\ "said" \notin Counted
      /\ {"visited", "left"} \subseteq ForumKinds /\ "said" \notin ForumKinds
      /\ "said" # "started"
  BY DEF Kinds, Acts, Counted, ForumKinds, Forums
<1>4. QED
  BY <1>1, <1>2, <1>3 DEF Adds

LEMMA AdvanceFacts ==
  ASSUME TypeOK, NEW a \in Agents, script[a] # <<>>, Advance(a)
  PROVE  /\ script' \in [Agents -> Seq(Ops)] /\ script'[a] = Tail(script[a])
         /\ \A b \in Agents \ {a} : script'[b] = script[b]
<1>1. script \in [Agents -> Seq(Ops)]
  BY DEF TypeOK
<1>2. Tail(script[a]) \in Seq(Ops)
  BY <1>1, ScriptFacts
<1>3. QED
  BY <1>1, <1>2 DEF Advance

\* Another agent's variables are left alone.
Same(b) ==
  /\ Keeps(b) /\ phase'[b] = phase[b] /\ script'[b] = script[b]
  /\ ended'[b] = ended[b] /\ cut'[b] = cut[b]

\* What a step of an agent has to show.
Stepped(a) ==
  TypeOK' /\ AgentInv(a)' /\ \A b \in Agents \ {a} : Same(b)

\* Operations that change nothing that is counted.
LEMMA QuietStep ==
  ASSUME RunInv, NEW a \in Agents, script[a] # <<>>, Advance(a),
         Name(script[a][1]) \in {"verify", "gate", "llm", "build", "summary", "sync", "view"},
         UNCHANGED <<disk, torn, phase, decided, ended, cut, runs>>,
         sound' \in [Agents -> BOOLEAN], faults' \in Nat
  PROVE  Stepped(a)
<1>1. TypeOK /\ AgentInv(a)
  BY DEF RunInv
<1>2. /\ script' \in [Agents -> Seq(Ops)] /\ script'[a] = Tail(script[a])
      /\ \A b \in Agents \ {a} : script'[b] = script[b]
  BY <1>1, AdvanceFacts
<1>3. TypeOK'
  BY <1>1, <1>2 DEF TypeOK, disk
<1>4. Done(a)
  <2>1. \A k \in Counted : Name(script[a][1]) # k
    BY DEF Counted
  <2>2. Name(script[a][1]) \notin ForumKinds
    BY DEF ForumKinds
  <2>3. /\ \A k \in Counted : tally[a][k] + 0 = tally[a][k]
        /\ said[a] + 0 = said[a] /\ artifacts[a] + 0 = artifacts[a] /\ config[a] + 0 = config[a]
    BY <1>1, TypeFacts
  <2>4. QED
    BY <1>2, <2>1, <2>2, <2>3 DEF Done, disk, One
<1>5. AgentInv(a)'
  BY <1>1, <1>4, DoneStep
<1>6. \A b \in Agents \ {a} : Same(b)
  BY <1>2 DEF Same, Keeps, disk
<1>7. QED
  BY <1>3, <1>5, <1>6 DEF Stepped

LEMMA ReadFilesStep ==
  ASSUME RunInv, NEW a \in Agents, ReadFiles(a)
  PROVE  Stepped(a)
<1>1. PICK what \in DOMAIN ReadBy : Running(a, what)
  BY DEF ReadFiles
<1>2. what \in {"build", "view", "summary"}
  BY DEF ReadBy
<1>3. script[a] # <<>> /\ Name(script[a][1]) = what
  BY <1>1, <1>2, RunningFacts DEF RunInv, AgentInv
<1>4. Advance(a) /\ UNCHANGED <<disk, torn, phase, decided, sound, ended, cut, runs, faults>>
  BY DEF ReadFiles
<1>5. sound' \in [Agents -> BOOLEAN] /\ faults' \in Nat
  BY <1>4 DEF RunInv, TypeOK
<1>6. QED
  BY <1>2, <1>3, <1>4, <1>5, QuietStep

LEMMA VerifyBoundaryStep ==
  ASSUME RunInv, NEW a \in Agents, VerifyBoundary(a)
  PROVE  Stepped(a)
<1>1. script[a] # <<>> /\ Name(script[a][1]) = "verify"
  BY RunningFacts DEF VerifyBoundary, RunInv, AgentInv
<1>2. sound' \in [Agents -> BOOLEAN] /\ faults' \in Nat
  BY DEF VerifyBoundary, RunInv, TypeOK
<1>3. QED
  BY <1>1, <1>2, QuietStep DEF VerifyBoundary

LEMMA ProceedStep ==
  ASSUME RunInv, NEW a \in Agents, Proceed(a)
  PROVE  Stepped(a)
<1>1. script[a] # <<>> /\ Name(script[a][1]) \in {"llm", "sync"}
  BY RunningFacts DEF Proceed, RunInv, AgentInv
<1>2. QED
  BY <1>1, QuietStep DEF Proceed, RunInv, TypeOK

LEMMA AppendEventStep ==
  ASSUME RunInv, NEW a \in Agents, AppendEvent(a)
  PROVE  Stepped(a)
<1> DEFINE op == script[a][1]
           n == Name(op)
<1>1. TypeOK /\ AgentInv(a) /\ ScriptInv(a)
  BY DEF RunInv, AgentInv
<1>2. /\ script[a] # <<>> /\ Head(script[a]) = op /\ Known(op) /\ op.do = "append"
  BY <1>1, RunningFacts DEF AppendEvent
<1>3. /\ script' \in [Agents -> Seq(Ops)] /\ script'[a] = Tail(script[a])
      /\ \A b \in Agents \ {a} : script'[b] = script[b]
  BY <1>1, <1>2, AdvanceFacts DEF AppendEvent
<1>4. /\ tally' = [tally EXCEPT ![a] =
                     [k \in Counted |-> @[k] + (IF Adds(op, k) THEN 1 ELSE 0)]]
      /\ said' = [said EXCEPT ![a] = @ + (IF op.ledger \in Forums THEN 1 ELSE 0)]
      /\ inCommons' = [inCommons EXCEPT ![a] =
           IF op.ledger = "public" /\ op.kind \in {"visited", "left"}
           THEN op.kind = "visited" ELSE @]
      /\ UNCHANGED <<constitution, artifacts, config, torn, phase, decided, sound,
                     ended, cut, runs, faults>>
  BY <1>2 DEF AppendEvent
<1>5. /\ tally \in [Agents -> [Counted -> Nat]] /\ said \in [Agents -> Nat]
      /\ inCommons \in [Agents -> BOOLEAN]
  BY <1>1 DEF TypeOK
<1>6. /\ \A k \in Counted : Adds(op, k) <=> IF k = "forum" THEN n \in ForumKinds ELSE n = k
      /\ op.ledger \in Forums <=> n = "said"
      /\ op.ledger = "public" /\ op.kind \in {"visited", "left"} <=> n \in {"visited", "left"}
      /\ op.kind = "visited" /\ op.ledger = "public" <=> n = "visited"
      /\ n \notin Acts
  BY <1>2, AppendFacts
<1> HIDE DEF op, n
<1>7. /\ \A k \in Counted : tally'[a][k] = tally[a][k] +
           One(IF k = "forum" THEN n \in ForumKinds ELSE n = k)
      /\ tally' \in [Agents -> [Counted -> Nat]]
      /\ \A b \in Agents \ {a} : tally'[b] = tally[b]
  BY <1>4, <1>5, <1>6 DEF One
<1>8. /\ said'[a] = said[a] + One(n = "said")
      /\ said' \in [Agents -> Nat] /\ \A b \in Agents \ {a} : said'[b] = said[b]
  BY <1>4, <1>5, <1>6 DEF One
<1>9. /\ inCommons'[a] = IF n \in {"visited", "left"} THEN n = "visited" ELSE inCommons[a]
      /\ inCommons' \in [Agents -> BOOLEAN]
      /\ \A b \in Agents \ {a} : inCommons'[b] = inCommons[b]
  BY <1>4, <1>5, <1>6
<1>10. TypeOK'
  BY <1>1, <1>3, <1>4, <1>7, <1>8, <1>9 DEF TypeOK
<1>11. Done(a)
  <2>1. n \notin {"respond", "artifact", "bump", "initialize", "choose", "revise"}
    BY <1>6 DEF Acts
  <2>2. artifacts[a] + 0 = artifacts[a] /\ config[a] + 0 = config[a]
    BY <1>1, TypeFacts
  <2>3. QED
    BY <1>2, <1>3, <1>4, <1>7, <1>8, <1>9, <2>1, <2>2 DEF Done, One, n, op
<1>12. \A b \in Agents \ {a} : Same(b)
  BY <1>3, <1>4, <1>7, <1>8, <1>9 DEF Same, Keeps
<1>13. QED
  BY <1>1, <1>10, <1>11, <1>12, DoneStep DEF Stepped

\* Operations on the agent's own files.
LEMMA NothingCounted ==
  ASSUME TypeOK, NEW a \in Agents, NEW n \in Acts
  PROVE  /\ \A k \in Counted : tally[a][k] = tally[a][k] +
              One(IF k = "forum" THEN n \in ForumKinds ELSE n = k)
         /\ said[a] = said[a] + One(n = "said")
         /\ n \notin {"visited", "left"}
<1>1. n \notin ForumKinds /\ n # "said" /\ n \notin {"visited", "left"} /\ \A k \in Counted : n # k
  BY DEF Acts, ForumKinds, Counted
<1>2. said[a] \in Nat /\ \A k \in Counted : tally[a][k] \in Nat
  BY TypeFacts
<1>3. QED
  BY <1>1, <1>2 DEF One

LEMMA InitializeStep ==
  ASSUME RunInv, NEW a \in Agents, Initialize(a)
  PROVE  Stepped(a)
<1>1. TypeOK /\ AgentInv(a) /\ ScriptInv(a)
  BY DEF RunInv, AgentInv
<1>2. script[a] # <<>> /\ Name(script[a][1]) = "initialize" /\ "initialize" \in Acts
  BY <1>1, RunningFacts DEF Initialize, Acts
<1>3. /\ script' \in [Agents -> Seq(Ops)] /\ script'[a] = Tail(script[a])
      /\ \A b \in Agents \ {a} : script'[b] = script[b]
  BY <1>1, <1>2, AdvanceFacts DEF Initialize
<1>4. Blank("whole") \in Constitutions
  BY <1>1 DEF TypeOK, Constitutions, Blank
<1>5. constitution \in [Agents -> Constitutions]
  BY <1>1 DEF TypeOK
<1>6. /\ constitution'[a] = Blank("whole")
      /\ constitution' \in [Agents -> Constitutions]
      /\ \A b \in Agents \ {a} : constitution'[b] = constitution[b]
  BY <1>4, <1>5 DEF Initialize
<1>7. UNCHANGED <<tally, said, inCommons, artifacts, config, torn, phase, decided,
                  sound, ended, cut, runs, faults>>
  BY DEF Initialize
<1>8. TypeOK'
  BY <1>1, <1>3, <1>6, <1>7 DEF TypeOK
<1>9. Done(a)
  <2>1. artifacts[a] + 0 = artifacts[a] /\ config[a] + 0 = config[a]
    BY <1>1, TypeFacts
  <2>2. /\ \A k \in Counted : tally[a][k] = tally[a][k] +
             One(IF k = "forum" THEN Name(script[a][1]) \in ForumKinds ELSE Name(script[a][1]) = k)
        /\ said[a] = said[a] + One(Name(script[a][1]) = "said")
    BY <1>1, <1>2, NothingCounted
  <2>3. QED
    BY <1>2, <1>3, <1>6, <1>7, <2>1, <2>2 DEF Done, One
<1>10. \A b \in Agents \ {a} : Same(b)
  BY <1>3, <1>6, <1>7 DEF Same, Keeps
<1>11. QED
  BY <1>1, <1>8, <1>9, <1>10, DoneStep DEF Stepped

LEMMA ChooseFieldStep ==
  ASSUME RunInv, NEW a \in Agents, ChooseField(a)
  PROVE  Stepped(a)
<1>1. TypeOK /\ AgentInv(a) /\ ScriptInv(a)
  BY DEF RunInv, AgentInv
<1>2. script[a] # <<>> /\ Name(script[a][1]) = "choose" /\ "choose" \in Acts
  BY <1>1, RunningFacts DEF ChooseField, Acts
<1>3. /\ script' \in [Agents -> Seq(Ops)] /\ script'[a] = Tail(script[a])
      /\ \A b \in Agents \ {a} : script'[b] = script[b]
  BY <1>1, <1>2, AdvanceFacts DEF ChooseField
<1>4. [constitution[a] EXCEPT !.chosen = TRUE] \in Constitutions
  <2>1. constitution[a] \in Constitutions
    BY <1>1, TypeFacts
  <2>2. QED
    BY <2>1 DEF Constitutions
<1>5. constitution \in [Agents -> Constitutions]
  BY <1>1 DEF TypeOK
<1>6. /\ constitution'[a] = [constitution[a] EXCEPT !.chosen = TRUE]
      /\ constitution' \in [Agents -> Constitutions]
      /\ \A b \in Agents \ {a} : constitution'[b] = constitution[b]
  BY <1>4, <1>5 DEF ChooseField
<1>7. UNCHANGED <<tally, said, inCommons, artifacts, config, torn, phase, decided,
                  sound, ended, cut, runs, faults>>
  BY DEF ChooseField
<1>8. TypeOK'
  BY <1>1, <1>3, <1>6, <1>7 DEF TypeOK
<1>9. Done(a)
  <2>1. artifacts[a] + 0 = artifacts[a] /\ config[a] + 0 = config[a]
    BY <1>1, TypeFacts
  <2>2. /\ \A k \in Counted : tally[a][k] = tally[a][k] +
             One(IF k = "forum" THEN Name(script[a][1]) \in ForumKinds ELSE Name(script[a][1]) = k)
        /\ said[a] = said[a] + One(Name(script[a][1]) = "said")
    BY <1>1, <1>2, NothingCounted
  <2>3. QED
    BY <1>2, <1>3, <1>6, <1>7, <2>1, <2>2 DEF Done, One
<1>10. \A b \in Agents \ {a} : Same(b)
  BY <1>3, <1>6, <1>7 DEF Same, Keeps
<1>11. QED
  BY <1>1, <1>8, <1>9, <1>10, DoneStep DEF Stepped

LEMMA ReviseStep ==
  ASSUME RunInv, NEW a \in Agents, Revise(a)
  PROVE  Stepped(a)
<1>1. TypeOK /\ AgentInv(a) /\ ScriptInv(a)
  BY DEF RunInv, AgentInv
<1>2. script[a] # <<>> /\ Name(script[a][1]) = "revise" /\ "revise" \in Acts
  BY <1>1, RunningFacts DEF Revise, Acts
<1>3. /\ script' \in [Agents -> Seq(Ops)] /\ script'[a] = Tail(script[a])
      /\ \A b \in Agents \ {a} : script'[b] = script[b]
  BY <1>1, <1>2, AdvanceFacts DEF Revise
<1>4. [constitution[a] EXCEPT !.revisions = @ + 1] \in Constitutions
  <2>1. constitution[a] \in Constitutions
    BY <1>1, TypeFacts
  <2>2. QED
    BY <2>1 DEF Constitutions
<1>5. constitution \in [Agents -> Constitutions]
  BY <1>1 DEF TypeOK
<1>6. /\ constitution'[a] = [constitution[a] EXCEPT !.revisions = @ + 1]
      /\ constitution' \in [Agents -> Constitutions]
      /\ \A b \in Agents \ {a} : constitution'[b] = constitution[b]
  BY <1>4, <1>5 DEF Revise
<1>7. UNCHANGED <<tally, said, inCommons, artifacts, config, torn, phase, decided,
                  sound, ended, cut, runs, faults>>
  BY DEF Revise
<1>8. TypeOK'
  BY <1>1, <1>3, <1>6, <1>7 DEF TypeOK
<1>9. Done(a)
  <2>1. artifacts[a] + 0 = artifacts[a] /\ config[a] + 0 = config[a]
    BY <1>1, TypeFacts
  <2>2. /\ \A k \in Counted : tally[a][k] = tally[a][k] +
             One(IF k = "forum" THEN Name(script[a][1]) \in ForumKinds ELSE Name(script[a][1]) = k)
        /\ said[a] = said[a] + One(Name(script[a][1]) = "said")
    BY <1>1, <1>2, NothingCounted
  <2>3. QED
    BY <1>2, <1>3, <1>6, <1>7, <2>1, <2>2 DEF Done, One
<1>10. \A b \in Agents \ {a} : Same(b)
  BY <1>3, <1>6, <1>7 DEF Same, Keeps
<1>11. QED
  BY <1>1, <1>8, <1>9, <1>10, DoneStep DEF Stepped

LEMMA WriteArtifactStep ==
  ASSUME RunInv, NEW a \in Agents, WriteArtifact(a)
  PROVE  Stepped(a)
<1>1. TypeOK /\ AgentInv(a) /\ ScriptInv(a)
  BY DEF RunInv, AgentInv
<1>2. script[a] # <<>> /\ Name(script[a][1]) = "artifact" /\ "artifact" \in Acts
  BY <1>1, RunningFacts DEF WriteArtifact, Acts
<1>3. /\ script' \in [Agents -> Seq(Ops)] /\ script'[a] = Tail(script[a])
      /\ \A b \in Agents \ {a} : script'[b] = script[b]
  BY <1>1, <1>2, AdvanceFacts DEF WriteArtifact
<1>4. artifacts \in [Agents -> Nat]
  BY <1>1 DEF TypeOK
<1>5. /\ artifacts'[a] = artifacts[a] + 1 /\ artifacts' \in [Agents -> Nat]
      /\ \A b \in Agents \ {a} : artifacts'[b] = artifacts[b]
  BY <1>4 DEF WriteArtifact
<1>6. UNCHANGED <<tally, said, inCommons, constitution, config, torn, phase, decided,
                  sound, ended, cut, runs, faults>>
  BY DEF WriteArtifact
<1>7. TypeOK'
  BY <1>1, <1>3, <1>5, <1>6 DEF TypeOK
<1>8. Done(a)
  <2>1. config[a] + 0 = config[a]
    BY <1>1, TypeFacts
  <2>2. /\ \A k \in Counted : tally[a][k] = tally[a][k] +
             One(IF k = "forum" THEN Name(script[a][1]) \in ForumKinds ELSE Name(script[a][1]) = k)
        /\ said[a] = said[a] + One(Name(script[a][1]) = "said")
    BY <1>1, <1>2, NothingCounted
  <2>3. QED
    BY <1>2, <1>3, <1>5, <1>6, <2>1, <2>2 DEF Done, One
<1>9. \A b \in Agents \ {a} : Same(b)
  BY <1>3, <1>5, <1>6 DEF Same, Keeps
<1>10. QED
  BY <1>1, <1>7, <1>8, <1>9, DoneStep DEF Stepped

LEMMA BumpConfigStep ==
  ASSUME RunInv, NEW a \in Agents, BumpConfig(a)
  PROVE  Stepped(a)
<1>1. TypeOK /\ AgentInv(a) /\ ScriptInv(a) /\ VersionInv(a)
  BY DEF RunInv, AgentInv
<1>2. /\ script[a] # <<>> /\ Name(script[a][1]) = "bump" /\ "bump" \in Acts
      /\ phase[a] # "off"
  BY <1>1, RunningFacts DEF BumpConfig, Acts
<1>3. /\ script' \in [Agents -> Seq(Ops)] /\ script'[a] = Tail(script[a])
      /\ \A b \in Agents \ {a} : script'[b] = script[b]
  BY <1>1, <1>2, AdvanceFacts DEF BumpConfig
<1>4. config \in [Agents -> Nat \cup {Unreadable}] /\ config[a] \in Nat
  BY <1>1, <1>2 DEF TypeOK, VersionInv
<1>5. /\ config'[a] = config[a] + 1 /\ config' \in [Agents -> Nat \cup {Unreadable}]
      /\ \A b \in Agents \ {a} : config'[b] = config[b]
  BY <1>4 DEF BumpConfig, Bumped
<1>6. UNCHANGED <<tally, said, inCommons, constitution, artifacts, torn, phase, decided,
                  sound, ended, cut, runs, faults>>
  BY DEF BumpConfig
<1>7. TypeOK'
  BY <1>1, <1>3, <1>5, <1>6 DEF TypeOK
<1>8. Done(a)
  <2>1. artifacts[a] + 0 = artifacts[a]
    BY <1>1, TypeFacts
  <2>2. /\ \A k \in Counted : tally[a][k] = tally[a][k] +
             One(IF k = "forum" THEN Name(script[a][1]) \in ForumKinds ELSE Name(script[a][1]) = k)
        /\ said[a] = said[a] + One(Name(script[a][1]) = "said")
    BY <1>1, <1>2, NothingCounted
  <2>3. QED
    BY <1>2, <1>3, <1>5, <1>6, <2>1, <2>2 DEF Done, One
<1>9. \A b \in Agents \ {a} : Same(b)
  BY <1>3, <1>5, <1>6 DEF Same, Keeps
<1>10. QED
  BY <1>1, <1>7, <1>8, <1>9, DoneStep DEF Stepped

\* The end of a run.
LEMMA EndFacts ==
  ASSUME TypeOK, NEW a \in Agents, NEW how, End(a, how),
         how \in {"completed", "interrupted", "error", "corrupt", "crashed", "killed", "never"}
  PROVE  /\ phase' \in [Agents -> {"off", "starting", "handler"} \cup InTry] /\ phase'[a] = "off"
         /\ script' \in [Agents -> Seq(Ops)] /\ script'[a] = <<>>
         /\ decided' \in [Agents -> 0..MaxDecisions]
         /\ sound' \in [Agents -> BOOLEAN]
         /\ ended' \in [Agents -> {"never", "completed", "interrupted", "error", "corrupt",
                                   "crashed", "killed"}]
         /\ cut' \in [Agents -> Nat]
         /\ cut'[a] = cut[a] + (IF how = "completed" THEN 0 ELSE 1)
         /\ \A b \in Agents \ {a} : /\ phase'[b] = phase[b] /\ script'[b] = script[b]
                                   /\ ended'[b] = ended[b] /\ cut'[b] = cut[b]
<1>1. /\ phase \in [Agents -> {"off", "starting", "handler"} \cup InTry]
      /\ script \in [Agents -> Seq(Ops)] /\ decided \in [Agents -> 0..MaxDecisions]
      /\ sound \in [Agents -> BOOLEAN] /\ cut \in [Agents -> Nat]
      /\ ended \in [Agents -> {"never", "completed", "interrupted", "error", "corrupt",
                               "crashed", "killed"}]
  BY DEF TypeOK
<1>2. <<>> \in Seq(Ops) /\ 0 \in 0..MaxDecisions
  BY EmptyScript, RunAssumption
<1>3. /\ phase' \in [Agents -> {"off", "starting", "handler"} \cup InTry] /\ phase'[a] = "off"
      /\ \A b \in Agents \ {a} : phase'[b] = phase[b]
  BY <1>1 DEF End
<1>4. /\ script' \in [Agents -> Seq(Ops)] /\ script'[a] = <<>>
      /\ \A b \in Agents \ {a} : script'[b] = script[b]
  BY <1>1, <1>2 DEF End
<1>5. decided' \in [Agents -> 0..MaxDecisions] /\ sound' \in [Agents -> BOOLEAN]
  BY <1>1, <1>2 DEF End
<1>6. /\ ended' \in [Agents -> {"never", "completed", "interrupted", "error", "corrupt",
                                "crashed", "killed"}]
      /\ \A b \in Agents \ {a} : ended'[b] = ended[b]
  BY <1>1 DEF End
<1>7. /\ cut' \in [Agents -> Nat] /\ cut'[a] = cut[a] + (IF how = "completed" THEN 0 ELSE 1)
      /\ \A b \in Agents \ {a} : cut'[b] = cut[b]
  BY <1>1 DEF End
<1>8. QED
  BY <1>3, <1>4, <1>5, <1>6, <1>7

LEMMA EndShort ==
  ASSUME RunInv, NEW a \in Agents, NEW how, End(a, how), UNCHANGED disk, UNCHANGED runs,
         how \in {"interrupted", "error", "corrupt", "crashed", "killed", "never"},
         torn' \subseteq {File(b, ledger) : b \in Agents, ledger \in Ledgers}, faults' \in Nat
  PROVE  Stepped(a)
<1>1. TypeOK /\ AgentInv(a)
  BY DEF RunInv
<1>2. /\ phase' \in [Agents -> {"off", "starting", "handler"} \cup InTry] /\ phase'[a] = "off"
      /\ script' \in [Agents -> Seq(Ops)] /\ script'[a] = <<>>
      /\ decided' \in [Agents -> 0..MaxDecisions]
      /\ sound' \in [Agents -> BOOLEAN]
      /\ ended' \in [Agents -> {"never", "completed", "interrupted", "error", "corrupt",
                                "crashed", "killed"}]
      /\ cut' \in [Agents -> Nat] /\ cut'[a] = cut[a] + 1
      /\ \A b \in Agents \ {a} : /\ phase'[b] = phase[b] /\ script'[b] = script[b]
                                /\ ended'[b] = ended[b] /\ cut'[b] = cut[b]
  BY <1>1, EndFacts
<1>3. TypeOK'
  BY <1>1, <1>2 DEF TypeOK, disk
<1>4. Cut(a) /\ Keeps(a)
  BY <1>2 DEF Cut, Keeps, disk
<1>5. \A b \in Agents \ {a} : Same(b)
  BY <1>2 DEF Same, Keeps, disk
<1>6. QED
  BY <1>1, <1>3, <1>4, <1>5, EndStep DEF Stepped

LEMMA AppendRefusedStep ==
  ASSUME RunInv, NEW a \in Agents, AppendRefused(a)
  PROVE  Stepped(a)
<1>1. \E how \in {"crashed", "corrupt"} : End(a, how)
  BY DEF AppendRefused, RaiseCorruption
<1>2. UNCHANGED disk /\ UNCHANGED <<torn, runs, faults>>
  BY DEF AppendRefused
<1>3. QED
  BY <1>1, <1>2, EndShort DEF RunInv, TypeOK

LEMMA ReadCrashesStep ==
  ASSUME RunInv, NEW a \in Agents, ReadCrashes(a)
  PROVE  Stepped(a)
<1>1. End(a, "crashed") /\ UNCHANGED disk /\ UNCHANGED <<torn, runs, faults>>
  BY DEF ReadCrashes
<1>2. QED
  BY <1>1, EndShort DEF RunInv, TypeOK

LEMMA GateStep ==
  ASSUME RunInv, NEW a \in Agents, Gate(a)
  PROVE  Stepped(a)
<1>1. UNCHANGED disk /\ UNCHANGED <<torn, runs, faults>>
  BY DEF Gate
<1>2. CASE a \in Enforcing /\ ~sound[a]
  <2>1. \E how \in {"crashed", "corrupt"} : End(a, how)
    BY <1>2 DEF Gate, RaiseCorruption
  <2>2. QED
    BY <1>1, <2>1, EndShort DEF RunInv, TypeOK
<1>3. CASE ~(a \in Enforcing /\ ~sound[a])
  <2>1. script[a] # <<>> /\ Name(script[a][1]) = "gate"
    BY RunningFacts DEF Gate, RunInv, AgentInv
  <2>2. Advance(a) /\ UNCHANGED <<phase, decided, sound, ended, cut>>
    BY <1>3 DEF Gate
  <2>3. sound' \in [Agents -> BOOLEAN] /\ faults' \in Nat
    BY <1>1, <2>2 DEF RunInv, TypeOK
  <2>4. QED
    BY <1>1, <2>1, <2>2, <2>3, QuietStep
<1>4. QED
  BY <1>2, <1>3

LEMMA KillStep ==
  ASSUME RunInv, NEW a \in Agents, Kill(a)
  PROVE  Stepped(a)
<1>1. End(a, "killed") /\ UNCHANGED disk /\ UNCHANGED <<torn, runs>> /\ faults' \in Nat
  BY DEF Kill, Fault, RunInv, TypeOK
<1>2. QED
  BY <1>1, EndShort DEF RunInv, TypeOK

LEMMA KillInAppendStep ==
  ASSUME RunInv, NEW a \in Agents, KillInAppend(a)
  PROVE  Stepped(a)
<1>1. End(a, "killed") /\ UNCHANGED disk /\ UNCHANGED runs /\ faults' \in Nat
  BY DEF KillInAppend, Fault, RunInv, TypeOK
<1>2. Head(script[a]).ledger \in Ledgers
  BY RunningFacts DEF KillInAppend, RunInv, AgentInv, Known
<1>3. torn' \subseteq {File(b, ledger) : b \in Agents, ledger \in Ledgers}
  BY <1>2 DEF KillInAppend, RunInv, TypeOK
<1>4. QED
  BY <1>1, <1>3, EndShort

LEMMA ExitStep ==
  ASSUME RunInv, NEW a \in Agents, Exit(a)
  PROVE  Stepped(a)
<1>1. TypeOK /\ AgentInv(a) /\ ScriptInv(a)
  BY DEF RunInv, AgentInv
<1>2. UNCHANGED disk /\ UNCHANGED <<torn, runs, faults>> /\ script[a] = <<>>
  BY DEF Exit
<1>3. CASE phase[a] = "handler"
  <2>1. /\ End(a, ended[a]) /\ ended[a] # "completed"
        /\ ended[a] \in {"never", "completed", "interrupted", "error", "corrupt", "crashed", "killed"}
    BY <1>1, <1>3 DEF Exit, ScriptInv, TypeOK
  <2>2. QED
    BY <1>1, <1>2, <2>1, EndShort DEF TypeOK
<1>4. CASE phase[a] = "closing"
  <2>1. End(a, "completed")
    BY <1>4 DEF Exit
  <2>2. /\ phase' \in [Agents -> {"off", "starting", "handler"} \cup InTry] /\ phase'[a] = "off"
        /\ script' \in [Agents -> Seq(Ops)] /\ script'[a] = <<>>
        /\ decided' \in [Agents -> 0..MaxDecisions]
        /\ sound' \in [Agents -> BOOLEAN]
        /\ ended' \in [Agents -> {"never", "completed", "interrupted", "error", "corrupt",
                                  "crashed", "killed"}]
        /\ cut' \in [Agents -> Nat] /\ cut'[a] = cut[a] + 0
        /\ \A b \in Agents \ {a} : /\ phase'[b] = phase[b] /\ script'[b] = script[b]
                                  /\ ended'[b] = ended[b] /\ cut'[b] = cut[b]
    BY <1>1, <2>1, EndFacts
  <2>3. TypeOK'
    BY <1>1, <1>2, <2>2 DEF TypeOK, disk
  <2>4. /\ script'[a] = script[a] /\ cut'[a] = cut[a] /\ ~Late(a) /\ ~Late(a)'
        /\ Keeps(a)
    BY <1>1, <1>2, <1>4, <2>2, TypeFacts DEF Late, Keeps, disk
  <2>5. ScriptInv(a)'
    BY <1>1, <2>2, EmptyScript DEF ScriptInv
  <2>6. OrphanInv(a)'
    <3>1. /\ Orphans(a)' = Orphans(a) /\ (OwesAny(a)' <=> OwesAny(a))
          /\ \A what : Owes(a, what)' <=> Owes(a, what)
      BY <2>4 DEF Keeps, Orphans, OwesAny, Owes
    <3> DEFINE o == Orphans(a)
               p == Orphans(a)'
    <3> HIDE DEF o, p
    <3>2. p = o
      BY <3>1 DEF o, p
    <3>3. QED
      BY <1>1, <2>4, <3>1, <3>2 DEF AgentInv, OrphanInv, One, o, p
  <2>7. DecisionInv(a)'
    BY <1>1, <2>4 DEF AgentInv, DecisionInv, Keeps, One
  <2>8. VersionInv(a)'
    BY <1>1, <1>4, <2>4 DEF AgentInv, VersionInv, Keeps, One
  <2>9. FieldInv(a)' /\ CommonsInv(a)'
    BY <1>1, <2>2, <2>4 DEF AgentInv, FieldInv, CommonsInv, Keeps, InTry
  <2>10. \A b \in Agents \ {a} : Same(b)
    BY <1>2, <2>2 DEF Same, Keeps, disk
  <2>11. QED
    BY <2>3, <2>5, <2>6, <2>7, <2>8, <2>9, <2>10 DEF Stepped, AgentInv
<1>5. QED
  BY <1>3, <1>4 DEF Exit

LEMMA KillInWriteStep ==
  ASSUME RunInv, NEW a \in Agents, KillInWrite(a)
  PROVE  Stepped(a)
<1>1. TypeOK /\ AgentInv(a) /\ ScriptInv(a) /\ OrphanInv(a) /\ FieldInv(a)
  BY DEF RunInv, AgentInv
<1>2. /\ End(a, "killed") /\ UNCHANGED <<tally, said, inCommons, torn, runs>> /\ faults' \in Nat
  BY <1>1 DEF KillInWrite, Fault, TypeOK
<1>3. /\ phase' \in [Agents -> {"off", "starting", "handler"} \cup InTry] /\ phase'[a] = "off"
      /\ script' \in [Agents -> Seq(Ops)] /\ script'[a] = <<>>
      /\ decided' \in [Agents -> 0..MaxDecisions]
      /\ sound' \in [Agents -> BOOLEAN]
      /\ ended' \in [Agents -> {"never", "completed", "interrupted", "error", "corrupt",
                                "crashed", "killed"}]
      /\ cut' \in [Agents -> Nat] /\ cut'[a] = cut[a] + 1
      /\ \A b \in Agents \ {a} : /\ phase'[b] = phase[b] /\ script'[b] = script[b]
                                /\ ended'[b] = ended[b] /\ cut'[b] = cut[b]
  <2>1. PICK how \in {"killed"} : End(a, how)
    BY <1>2
  <2>2. QED
    BY <1>1, <2>1, EndFacts
<1>4. Cut(a)
  BY <1>2, <1>3 DEF Cut
<1> DEFINE o == Orphans(a)
           p == Orphans(a)'
           Bound == /\ p.revision >= 0 /\ p.artifact >= 0 /\ p.forum >= 0 /\ p.field >= 0
                    /\ p.revision + p.artifact + p.forum + p.field <= cut[a] + 1
<1>5. /\ o.revision \in Int /\ o.artifact \in Int /\ o.forum \in Int /\ o.field \in Int
      /\ cut[a] \in Nat
  BY <1>1, TypeFacts DEF Orphans, Counted
<1>6. /\ o.revision >= 0 /\ o.artifact >= 0 /\ o.forum >= 0 /\ o.field >= 0
      /\ o.revision + o.artifact + o.forum + o.field <= cut[a] + 1
      /\ ~Late(a) /\ ~OwesAny(a) => o.revision + o.artifact + o.forum + o.field <= cut[a]
  <2> HIDE DEF o
  <2>1. QED
    BY <1>1, <1>5 DEF OrphanInv, One, o
<1>7. constitution[a].file = "absent" => constitution[a] = Blank("absent")
  BY <1>1 DEF FieldInv
<1>8. /\ constitution \in [Agents -> Constitutions] /\ artifacts \in [Agents -> Nat]
      /\ config \in [Agents -> Nat \cup {Unreadable}]
  BY <1>1 DEF TypeOK
<1>9. CASE /\ Running(a, "initialize")
           /\ constitution' = [constitution EXCEPT ![a] = Blank("torn")]
           /\ UNCHANGED <<artifacts, config>>
  <2>1. script[a] # <<>> /\ Name(script[a][1]) = "initialize" /\ script[a] \in Seq(Ops)
    BY <1>1, <1>9, RunningFacts, TypeFacts
  <2>2. constitution[a] = Blank("absent")
    BY <1>1, <2>1, HasTail DEF FieldInv
  <2>3. Blank("torn") \in Constitutions
    BY DEF Blank, Constitutions
  <2>4. /\ constitution'[a] = Blank("torn") /\ constitution' \in [Agents -> Constitutions]
        /\ \A b \in Agents \ {a} : constitution'[b] = constitution[b]
    BY <1>8, <1>9, <2>3
  <2>5. p = o
    BY <1>2, <1>9, <2>2, <2>4 DEF Orphans, Blank
  <2>6. Bound
    <3> HIDE DEF o, p
    <3>1. QED
      BY <1>6, <2>5
  <2>7. config'[a] = config[a] /\ constitution'[a].file # "absent"
    BY <1>9, <2>4 DEF Blank
  <2>8. AgentInv(a)'
    BY <1>1, <1>4, <2>6, <2>7, CutStep
  <2>9. TypeOK'
    BY <1>1, <1>2, <1>3, <1>9, <2>4 DEF TypeOK
  <2>10. \A b \in Agents \ {a} : Same(b)
    BY <1>2, <1>3, <1>9, <2>4 DEF Same, Keeps
  <2>11. QED
    BY <2>8, <2>9, <2>10 DEF Stepped
<1>10. CASE /\ Running(a, "artifact")
            /\ artifacts' = [artifacts EXCEPT ![a] = @ + 1]
            /\ UNCHANGED <<constitution, config>>
  <2>1. /\ script[a] # <<>> /\ Name(script[a][1]) = "artifact" /\ phase[a] \in InTry
    BY <1>1, <1>10, RunningFacts
  <2>2. ~Late(a) /\ ~OwesAny(a)
    BY <2>1 DEF Late, InTry, OwesAny, Tells, ForumKinds
  <2>3. /\ artifacts'[a] = artifacts[a] + 1 /\ artifacts' \in [Agents -> Nat]
        /\ \A b \in Agents \ {a} : artifacts'[b] = artifacts[b]
    BY <1>8, <1>10
  <2>4. /\ p.revision = o.revision /\ p.forum = o.forum /\ p.field = o.field
        /\ p.artifact = o.artifact + 1
    <3>1. artifacts[a] \in Nat /\ tally[a]["stored"] \in Nat
      BY <1>1, TypeFacts DEF Counted
    <3>2. QED
      BY <1>2, <1>10, <2>3, <3>1 DEF Orphans
  <2>5. Bound
    <3> HIDE DEF o, p
    <3>1. QED
      BY <1>5, <1>6, <2>2, <2>4
  <2>6. config'[a] = config[a] /\ constitution'[a] = constitution[a]
    BY <1>10
  <2>7. AgentInv(a)'
    BY <1>1, <1>4, <1>7, <2>5, <2>6, CutStep
  <2>8. TypeOK'
    BY <1>1, <1>2, <1>3, <1>10, <2>3, SMTT(30) DEF TypeOK
  <2>9. \A b \in Agents \ {a} : Same(b)
    BY <1>2, <1>3, <1>10, <2>3 DEF Same, Keeps
  <2>10. QED
    BY <2>7, <2>8, <2>9 DEF Stepped
<1>11. CASE /\ Running(a, "bump")
            /\ config' = [config EXCEPT ![a] = Unreadable]
            /\ UNCHANGED <<constitution, artifacts>>
  <2>1. /\ config'[a] = Unreadable /\ config' \in [Agents -> Nat \cup {Unreadable}]
        /\ \A b \in Agents \ {a} : config'[b] = config[b]
    BY <1>8, <1>11
  <2>2. p = o
    BY <1>2, <1>11 DEF Orphans
  <2>3. Bound
    <3> HIDE DEF o, p
    <3>1. QED
      BY <1>6, <2>2
  <2>4. constitution'[a] = constitution[a]
    BY <1>11
  <2>5. AgentInv(a)'
    BY <1>1, <1>4, <1>7, <2>1, <2>3, <2>4, CutStep
  <2>6. TypeOK'
    BY <1>1, <1>2, <1>3, <1>11, <2>1 DEF TypeOK
  <2>7. \A b \in Agents \ {a} : Same(b)
    BY <1>2, <1>3, <1>11, <2>1 DEF Same, Keeps
  <2>8. QED
    BY <2>5, <2>6, <2>7 DEF Stepped
<1>12. QED
  BY <1>9, <1>10, <1>11 DEF KillInWrite

LEMMA HandledStep ==
  ASSUME RunInv, NEW a \in Agents, NEW how \in {"error", "interrupted"}, Handle(a, how),
         phase[a] # "off", UNCHANGED <<disk, torn, runs>>, faults' \in Nat
  PROVE  Stepped(a)
<1>1. TypeOK /\ AgentInv(a)
  BY DEF RunInv
<1>2. Stopping \in Seq(Ops)
  BY StoppingRules DEF Rules
<1>3. /\ phase' = [phase EXCEPT ![a] = "handler"] /\ script' = [script EXCEPT ![a] = Stopping]
      /\ ended' = [ended EXCEPT ![a] = how] /\ UNCHANGED <<decided, sound, cut>>
  BY DEF Handle, Stopping
<1>4. /\ phase' \in [Agents -> {"off", "starting", "handler"} \cup InTry] /\ phase'[a] = "handler"
      /\ \A b \in Agents \ {a} : phase'[b] = phase[b]
  BY <1>1, <1>3 DEF TypeOK
<1>5. /\ script' \in [Agents -> Seq(Ops)] /\ script'[a] = Stopping
      /\ \A b \in Agents \ {a} : script'[b] = script[b]
  BY <1>1, <1>2, <1>3 DEF TypeOK
<1>6. /\ ended' \in [Agents -> {"never", "completed", "interrupted", "error", "corrupt",
                                "crashed", "killed"}]
      /\ ended'[a] = how /\ \A b \in Agents \ {a} : ended'[b] = ended[b]
  BY <1>1, <1>3 DEF TypeOK
<1>7. TypeOK'
  BY <1>1, <1>3, <1>4, <1>5, <1>6 DEF TypeOK, disk
<1>8. Keeps(a) /\ cut'[a] = cut[a] /\ ended'[a] # "completed"
  BY <1>3, <1>6 DEF Keeps, disk
<1>9. AgentInv(a)'
  BY <1>1, <1>4, <1>5, <1>8, HandleStep
<1>10. \A b \in Agents \ {a} : Same(b)
  BY <1>3, <1>4, <1>5, <1>6 DEF Same, Keeps, disk
<1>11. QED
  BY <1>7, <1>9, <1>10 DEF Stepped

LEMMA LlmFailsStep ==
  ASSUME RunInv, NEW a \in Agents, LlmFails(a)
  PROVE  Stepped(a)
<1>1. phase[a] # "off"
  BY RunningFacts DEF LlmFails, RunInv, AgentInv
<1>2. Handle(a, "error") /\ UNCHANGED <<disk, torn, runs>> /\ faults' \in Nat
  BY DEF LlmFails, Fault, RunInv, TypeOK
<1>3. QED
  BY <1>1, <1>2, HandledStep

LEMMA InterruptStep ==
  ASSUME RunInv, NEW a \in Agents, Interrupt(a)
  PROVE  Stepped(a)
<1>1. phase[a] # "off" /\ UNCHANGED <<disk, torn, runs>> /\ faults' \in Nat
  BY DEF Interrupt, Fault, RunInv, TypeOK
<1>2. CASE Handle(a, "interrupted")
  BY <1>1, <1>2, HandledStep
<1>3. CASE End(a, "interrupted")
  <2>1. UNCHANGED disk /\ UNCHANGED runs /\ UNCHANGED torn
    BY <1>1
  <2>2. QED
    BY <1>1, <1>3, <2>1, EndShort DEF RunInv, TypeOK
<1>4. QED
  BY <1>2, <1>3 DEF Interrupt

\* A step that puts another script in the place of one.
LEMMA ReplacedFacts ==
  ASSUME RunInv, NEW a \in Agents, NEW s \in Seq(Ops), script' = [script EXCEPT ![a] = s],
         NEW p \in {"off", "starting", "handler"} \cup InTry, phase' = [phase EXCEPT ![a] = p],
         decided' \in [Agents -> 0..MaxDecisions], runs' \in Nat,
         UNCHANGED <<disk, torn, sound, ended, cut, faults>>
  PROVE  /\ TypeOK' /\ script'[a] = s /\ phase'[a] = p /\ cut'[a] = cut[a]
         /\ ended'[a] = ended[a] /\ Keeps(a)
         /\ \A b \in Agents \ {a} : Same(b)
<1>1. TypeOK
  BY DEF RunInv
<1>2. /\ phase' \in [Agents -> {"off", "starting", "handler"} \cup InTry] /\ phase'[a] = p
      /\ \A b \in Agents \ {a} : phase'[b] = phase[b]
  BY <1>1 DEF TypeOK
<1>3. /\ script' \in [Agents -> Seq(Ops)] /\ script'[a] = s
      /\ \A b \in Agents \ {a} : script'[b] = script[b]
  BY <1>1 DEF TypeOK
<1>4. TypeOK'
  BY <1>1, <1>2, <1>3 DEF TypeOK, disk
<1>5. QED
  BY <1>2, <1>3, <1>4 DEF Same, Keeps, disk

LEMMA StartStep ==
  ASSUME RunInv, NEW a \in Agents, Start(a)
  PROVE  Stepped(a)
<1>1. TypeOK /\ AgentInv(a) /\ ScriptInv(a)
  BY DEF RunInv, AgentInv
<1>2. /\ Rules(Startup) /\ \A i \in 1..Len(Startup) : Name(Startup[i]) \in Outer
      /\ Startup \in Seq(Ops)
  BY StartupRules DEF Rules
<1>3. \A name \in {"initialize", "choose", "taken", "respond", "executed", "evaluated",
                   "completed", "bump", "left", "build"} : ~Has(Startup, name)
  BY <1>2, OuterHas
<1>4. /\ TypeOK' /\ script'[a] = Startup /\ phase'[a] = "starting" /\ cut'[a] = cut[a]
      /\ Keeps(a) /\ \A b \in Agents \ {a} : Same(b)
  <2>1. decided' \in [Agents -> 0..MaxDecisions] /\ runs' \in Nat
    BY <1>1 DEF Start, TypeOK
  <2>2. /\ script' = [script EXCEPT ![a] = Startup] /\ phase' = [phase EXCEPT ![a] = "starting"]
        /\ UNCHANGED <<disk, torn, sound, ended, cut, faults>>
    BY DEF Start
  <2>3. PICK p \in {"starting"} : phase' = [phase EXCEPT ![a] = p]
    BY <2>2
  <2>4. QED
    BY <1>2, <2>1, <2>2, <2>3, ReplacedFacts
<1>5. phase[a] = "off" /\ config[a] # Unreadable /\ script[a] = <<>>
  BY <1>1 DEF Start, ScriptInv
<1>6. ScriptInv(a)' /\ ~Late(a) /\ ~Late(a)'
  BY <1>2, <1>3, <1>4, <1>5 DEF ScriptInv, Late
<1>7. Replaced(a)
  <2>1. Tells(Startup[1]) = "nothing"
    BY DEF Startup, Do, Tells, Name, ForumKinds
  <2>2. QED
    BY <1>2, <1>4, <1>5, <2>1 DEF Replaced, OwesAny
<1>8. \A name : ~Has(script[a], name)
  BY <1>5, EmptyScript
<1>9. FieldInv(a)'
  BY <1>1, <1>3, <1>4, <1>5, <1>8 DEF AgentInv, FieldInv, Keeps, InTry, Late
<1>10. /\ ~OwesExecution(script'[a]) /\ ~OwesEvaluation(script'[a]) /\ ~OnlyEvaluation(script'[a])
       /\ ~OwesVersion(script'[a]) /\ ~OwesEvaluation(script[a]) /\ ~OwesVersion(script[a])
  BY <1>3, <1>4, <1>8 DEF OwesExecution, OwesEvaluation, OnlyEvaluation, OwesVersion
<1>11. AgentInv(a)'
  BY <1>1, <1>5, <1>6, <1>7, <1>8, <1>9, <1>10, ReplaceStep
<1>12. QED
  BY <1>4, <1>11 DEF Stepped

LEMMA EnterTryStep ==
  ASSUME RunInv, NEW a \in Agents, EnterTry(a)
  PROVE  Stepped(a)
<1> DEFINE s == IF IsFirstRun(a) THEN FirstRun ELSE <<>>
<1>1. TypeOK /\ AgentInv(a) /\ ScriptInv(a) /\ FieldInv(a) /\ VersionInv(a)
  BY DEF RunInv, AgentInv
<1>2. /\ Rules(s) /\ s \in Seq(Ops)
      /\ s # <<>> => Tells(s[1]) = "nothing"
      /\ \A name \in {"taken", "respond", "executed", "evaluated", "completed", "bump", "left"} :
           ~Has(s, name)
      /\ Has(s, "initialize") <=> IsFirstRun(a)
      /\ Has(s, "choose") <=> IsFirstRun(a)
  BY FirstRunRules, EmptyScript DEF Rules
<1> HIDE DEF s
<1>3. phase[a] = "starting" /\ script[a] = <<>>
  BY DEF EnterTry
<1>4. /\ TypeOK' /\ script'[a] = s /\ phase'[a] = "first" /\ cut'[a] = cut[a]
      /\ Keeps(a) /\ \A b \in Agents \ {a} : Same(b)
  <2>1. decided' \in [Agents -> 0..MaxDecisions] /\ runs' \in Nat
    BY <1>1 DEF EnterTry, TypeOK
  <2>2. /\ script' = [script EXCEPT ![a] = s] /\ phase' = [phase EXCEPT ![a] = "first"]
        /\ UNCHANGED <<disk, torn, sound, ended, cut, faults>>
    BY DEF EnterTry, s
  <2>3. PICK p \in {"first"} : phase' = [phase EXCEPT ![a] = p]
    BY <2>2
  <2>4. QED
    BY <1>2, <2>1, <2>2, <2>3, ReplacedFacts DEF InTry
<1>5. ScriptInv(a)' /\ ~Late(a) /\ ~Late(a)'
  BY <1>2, <1>3, <1>4 DEF ScriptInv, Late, InTry
<1>6. Replaced(a)
  BY <1>2, <1>3, <1>4 DEF Replaced, OwesAny
<1>7. \A name : ~Has(script[a], name)
  BY <1>3, EmptyScript
<1>8. FieldInv(a)'
  <2>1. /\ constitution'[a] = constitution[a]
        /\ IsFirstRun(a) => constitution[a] = Blank("absent") /\ constitution[a].file = "absent"
        /\ ~IsFirstRun(a) => constitution[a].file # "absent"
        /\ constitution[a].file # "absent" => constitution[a].chosen \/ cut[a] > 0
    BY <1>1, <1>4, <1>5, <1>7 DEF FieldInv, Keeps, IsFirstRun
  <2>2. ~Blank("absent").chosen
    BY DEF Blank
  <2>3. QED
    BY <1>2, <1>4, <2>1, <2>2 DEF FieldInv
<1>9. /\ ~OwesExecution(script'[a]) /\ ~OwesEvaluation(script'[a]) /\ ~OnlyEvaluation(script'[a])
      /\ ~OwesVersion(script'[a]) /\ ~OwesEvaluation(script[a]) /\ ~OwesVersion(script[a])
  BY <1>2, <1>4, <1>7 DEF OwesExecution, OwesEvaluation, OnlyEvaluation, OwesVersion
<1>10. config[a] # Unreadable
  BY <1>1, <1>3 DEF VersionInv
<1>11. AgentInv(a)'
  BY <1>1, <1>5, <1>6, <1>7, <1>8, <1>9, <1>10, ReplaceStep
<1>12. QED
  BY <1>4, <1>11 DEF Stepped

\* A decision, and the end of the decisions.
LEMMA NextScript ==
  ASSUME RunInv, NEW a \in Agents, phase[a] \in {"first", "deciding"}, script[a] = <<>>,
         NEW s, Rules(s), s # <<>>, Tells(s[1]) = "nothing", script' = [script EXCEPT ![a] = s],
         \A name \in {"initialize", "choose", "left"} : ~Has(s, name),
         ~OwesExecution(s), ~OwesEvaluation(s), ~OnlyEvaluation(s), ~OwesVersion(s),
         NEW p \in {"deciding", "closing"}, phase' = [phase EXCEPT ![a] = p],
         decided' \in [Agents -> 0..MaxDecisions],
         UNCHANGED <<disk, torn, sound, ended, cut, runs, faults>>
  PROVE  Stepped(a)
<1>1. TypeOK /\ AgentInv(a) /\ ScriptInv(a) /\ FieldInv(a) /\ VersionInv(a)
  BY DEF RunInv, AgentInv
<1>2. /\ TypeOK' /\ script'[a] = s /\ phase'[a] = p /\ cut'[a] = cut[a]
      /\ Keeps(a) /\ \A b \in Agents \ {a} : Same(b)
  <2>1. s \in Seq(Ops) /\ p \in {"off", "starting", "handler"} \cup InTry
    BY DEF Rules, InTry
  <2>2. runs' \in Nat /\ UNCHANGED <<disk, torn, sound, ended, cut, faults>>
    BY <1>1 DEF TypeOK
  <2>3. QED
    BY <2>1, <2>2, ReplacedFacts
<1>3. ScriptInv(a)' /\ ~Late(a) /\ ~Late(a)'
  BY <1>2 DEF ScriptInv, Late, InTry
<1>4. Replaced(a)
  BY <1>2 DEF Replaced, OwesAny
<1>5. \A name : ~Has(script[a], name)
  BY EmptyScript
<1>6. FieldInv(a)'
  <2>1. /\ constitution'[a] = constitution[a] /\ phase[a] \in InTry
        /\ constitution[a].file # "absent"
        /\ constitution[a].chosen \/ cut[a] > 0
    BY <1>1, <1>2, <1>3, <1>5 DEF FieldInv, Keeps, InTry
  <2>2. QED
    BY <1>2, <2>1 DEF FieldInv
<1>7. config[a] # Unreadable
  BY <1>1 DEF VersionInv
<1>8. ~OwesEvaluation(script[a]) /\ ~OwesVersion(script[a])
  BY <1>5 DEF OwesEvaluation, OwesVersion
<1>9. AgentInv(a)'
  BY <1>1, <1>2, <1>3, <1>4, <1>5, <1>6, <1>7, <1>8, ReplaceStep
<1>10. QED
  BY <1>2, <1>9 DEF Stepped

LEMMA DecideStep ==
  ASSUME RunInv, NEW a \in Agents, Decide(a)
  PROVE  Stepped(a)
<1>1. /\ ~OwesExecution(Deciding) /\ ~OwesEvaluation(Deciding) /\ ~OnlyEvaluation(Deciding)
      /\ ~OwesVersion(Deciding)
  BY DecidingRules DEF OwesExecution, OwesEvaluation, OnlyEvaluation, OwesVersion
<1>2. decided' \in [Agents -> 0..MaxDecisions]
  <2>1. decided \in [Agents -> 0..MaxDecisions] /\ decided[a] < MaxDecisions
    BY DEF RunInv, TypeOK, Decide, DecisionsLeft
  <2>2. decided[a] + 1 \in 0..MaxDecisions
    BY <2>1, RunAssumption
  <2>3. QED
    BY <2>1, <2>2 DEF Decide
<1>3. PICK p \in {"deciding"} : phase' = [phase EXCEPT ![a] = p]
  BY DEF Decide
<1>4. QED
  BY <1>1, <1>2, <1>3, DecidingRules, NextScript DEF Decide

LEMMA CloseStep ==
  ASSUME RunInv, NEW a \in Agents, Close(a)
  PROVE  Stepped(a)
<1>1. /\ ~OwesExecution(Closing) /\ ~OwesEvaluation(Closing) /\ ~OnlyEvaluation(Closing)
      /\ ~OwesVersion(Closing)
  BY ClosingRules DEF OwesExecution, OwesEvaluation, OnlyEvaluation, OwesVersion
<1>2. decided' \in [Agents -> 0..MaxDecisions]
  BY DEF RunInv, TypeOK, Close
<1>3. PICK p \in {"closing"} : phase' = [phase EXCEPT ![a] = p]
  BY DEF Close
<1>4. QED
  BY <1>1, <1>2, <1>3, ClosingRules, NextScript DEF Close

LEMMA RespondStep ==
  ASSUME RunInv, NEW a \in Agents, Respond(a)
  PROVE  Stepped(a)
<1>1. TypeOK /\ AgentInv(a) /\ ScriptInv(a) /\ FieldInv(a) /\ VersionInv(a)
  BY DEF RunInv, AgentInv
<1>2. PICK leaf \in SubActions : \E effects \in Effects(leaf) :
        script' = [script EXCEPT ![a] = effects \o Executed]
  BY DEF Respond
<1>3. PICK effects \in Effects(leaf) : script' = [script EXCEPT ![a] = effects \o Executed]
  BY <1>2
<1>4. Clean(effects)
  BY <1>2, <1>3, EffectsClean, RunAssumption
<1>5. PICK s : s = effects \o Executed
  OBVIOUS
<1>6. /\ Rules(s) /\ s \in Seq(Ops) /\ s # <<>> /\ Tells(s[1]) = "nothing"
      /\ Has(s, "executed") /\ Has(s, "evaluated")
      /\ \A name \in {"initialize", "choose", "taken", "respond", "completed", "bump"} :
           ~Has(s, name)
  <2>1. /\ Rules(s) /\ s # <<>> /\ Tells(s[1]) = "nothing"
        /\ Has(s, "executed") /\ Has(s, "evaluated")
        /\ \A name \in {"initialize", "choose", "taken", "respond", "completed", "bump"} :
             ~Has(s, name)
    BY <1>4, <1>5, RespondRules
  <2>2. s \in Seq(Ops)
    BY <2>1 DEF Rules
  <2>3. QED
    BY <2>1, <2>2
<1> DEFINE r == script[a]
           t == Tail(r)
           n == Name(r[1])
<1>7. /\ r # <<>> /\ Rules(r) /\ n = "respond" /\ phase[a] \in InTry
      /\ r \in Seq(Ops)
  BY <1>1, RunningFacts DEF Respond, ScriptInv, Rules
<1>8. /\ Has(r, "respond") /\ ~Has(r, "taken") /\ ~Has(r, "completed") /\ ~Has(r, "bump")
      /\ ~Has(r, "choose") /\ ~Has(r, "left") /\ ~Has(r, "initialize")
  <2>1. \A name : Has(r, name) <=> n = name \/ Has(t, name)
    BY <1>7, HasTail
  <2>2. /\ \A name : Rank(n) > 0 /\ Rank(name) > 0 /\ Has(t, name) => Rank(n) < Rank(name)
        /\ ~Has(t, "initialize")
    BY <1>7, HeadRules
  <2>3. Rank("taken") = 1 /\ Rank("respond") = 2
    BY DEF Rank
  <2>4. QED
    BY <1>7, <2>1, <2>2, <2>3 DEF Rules
<1>9. /\ TypeOK' /\ script'[a] = s /\ phase'[a] = phase[a] /\ cut'[a] = cut[a]
      /\ ended'[a] = ended[a] /\ Keeps(a) /\ \A b \in Agents \ {a} : Same(b)
  <2>1. phase \in [Agents -> {"off", "starting", "handler"} \cup InTry]
    BY <1>1 DEF TypeOK
  <2>2. /\ phase[a] \in {"off", "starting", "handler"} \cup InTry
        /\ phase' = [phase EXCEPT ![a] = phase[a]]
    BY <2>1 DEF Respond
  <2>3. /\ decided' \in [Agents -> 0..MaxDecisions] /\ runs' \in Nat
        /\ UNCHANGED <<disk, torn, sound, ended, cut, faults>>
    BY <1>1 DEF Respond, TypeOK
  <2>4. script' = [script EXCEPT ![a] = s]
    BY <1>3, <1>5
  <2>5. QED
    BY <1>6, <2>2, <2>3, <2>4, ReplacedFacts
<1>10. ScriptInv(a)' /\ ~Late(a) /\ ~Late(a)'
  BY <1>6, <1>7, <1>9 DEF ScriptInv, Late, InTry
<1>11. Replaced(a)
  <2>1. ~OwesAny(a)
    BY <1>7 DEF OwesAny, Tells, ForumKinds
  <2>2. QED
    BY <1>6, <1>9, <2>1 DEF Replaced
<1>12. FieldInv(a)'
  <2>1. /\ constitution'[a] = constitution[a] /\ constitution[a].file # "absent"
        /\ constitution[a].chosen \/ cut[a] > 0
    BY <1>1, <1>7, <1>8, <1>9, <1>10 DEF FieldInv, Keeps
  <2>2. QED
    BY <1>6, <1>9, <2>1 DEF FieldInv
<1>13. config[a] # Unreadable
  BY <1>1, <1>7 DEF VersionInv, InTry
<1>14. /\ OwesExecution(r) /\ OwesEvaluation(r) /\ OwesEvaluation(s) /\ ~OnlyEvaluation(s)
       /\ ~OwesVersion(r) /\ ~OwesVersion(s)
  BY <1>6, <1>8 DEF OwesExecution, OwesEvaluation, OnlyEvaluation, OwesVersion
<1>15. AgentInv(a)'
  BY <1>1, <1>8, <1>9, <1>10, <1>11, <1>12, <1>13, <1>14, ReplaceStep
<1>16. QED
  BY <1>9, <1>15 DEF Stepped

-----------------------------------------------------------------------------
(* The system *)

LEMMA RunInvInit == Init => RunInv
<1>1. SUFFICES ASSUME Init PROVE RunInv
  OBVIOUS
<1>2. <<>> \in Seq(Ops) /\ Rules(<<>>) /\ Len(<<>>) = 0 /\ 1..0 = {} /\ \A name : ~Has(<<>>, name)
  BY EmptyScript
<1>3. TypeOK
  <2>1. Blank("absent") \in Constitutions
    BY DEF Blank, Constitutions
  <2>2. 0 \in 0..MaxDecisions
    BY RunAssumption
  <2>3. QED
    BY <1>1, <1>2, <2>1, <2>2 DEF Init, TypeOK, InTry
<1>4. ASSUME NEW a \in Agents
      PROVE  AgentInv(a)
  <2>1. /\ script[a] = <<>> /\ phase[a] = "off" /\ cut[a] = 0 /\ config[a] = 0 /\ said[a] = 0
        /\ artifacts[a] = 0 /\ constitution[a] = Blank("absent") /\ inCommons[a] = FALSE
        /\ \A k \in Counted : tally[a][k] = 0
    BY <1>1 DEF Init
  <2>2. ScriptInv(a)
    BY <1>2, <2>1 DEF ScriptInv
  <2>3. OrphanInv(a)
    <3>1. /\ Orphans(a).revision = 0 /\ Orphans(a).artifact = 0 /\ Orphans(a).forum = 0
          /\ Orphans(a).field = 0
      BY <2>1 DEF Orphans, Blank, Counted
    <3>2. ~Late(a) /\ ~OwesAny(a) /\ \A what : ~Owes(a, what)
      BY <2>1 DEF Late, OwesAny, Owes
    <3> DEFINE o == Orphans(a)
    <3> HIDE DEF o
    <3>3. o.revision = 0 /\ o.artifact = 0 /\ o.forum = 0 /\ o.field = 0
      BY <3>1 DEF o
    <3>4. QED
      BY <2>1, <3>2, <3>3 DEF OrphanInv, One, o
  <2>4. /\ ~OwesExecution(<<>>) /\ ~OwesEvaluation(<<>>) /\ ~OnlyEvaluation(<<>>)
        /\ ~OwesVersion(<<>>)
    BY <1>2 DEF OwesExecution, OwesEvaluation, OnlyEvaluation, OwesVersion
  <2>5. DecisionInv(a) /\ VersionInv(a)
    BY <2>1, <2>4 DEF DecisionInv, VersionInv, One, Late, Counted
  <2>6. FieldInv(a) /\ CommonsInv(a)
    BY <1>2, <2>1 DEF FieldInv, CommonsInv, Blank, InTry
  <2>7. QED
    BY <2>2, <2>3, <2>5, <2>6 DEF AgentInv
<1>5. QED
  BY <1>3, <1>4 DEF RunInv

LEMMA ActionStep ==
  ASSUME RunInv, NEW a \in Agents,
         \/ Start(a) \/ Step(a)
         \/ LlmFails(a) \/ Interrupt(a) \/ Kill(a) \/ KillInAppend(a) \/ KillInWrite(a)
  PROVE  Stepped(a)
<1>1. CASE Start(a)
  BY <1>1, StartStep
<1>2. CASE EnterTry(a)
  BY <1>2, EnterTryStep
<1>3. CASE Decide(a)
  BY <1>3, DecideStep
<1>4. CASE Close(a)
  BY <1>4, CloseStep
<1>5. CASE Exit(a)
  BY <1>5, ExitStep
<1>6. CASE AppendEvent(a)
  BY <1>6, AppendEventStep
<1>7. CASE AppendRefused(a)
  BY <1>7, AppendRefusedStep
<1>8. CASE ReadFiles(a)
  BY <1>8, ReadFilesStep
<1>9. CASE ReadCrashes(a)
  BY <1>9, ReadCrashesStep
<1>10. CASE VerifyBoundary(a)
  BY <1>10, VerifyBoundaryStep
<1>11. CASE Gate(a)
  BY <1>11, GateStep
<1>12. CASE Initialize(a)
  BY <1>12, InitializeStep
<1>13. CASE ChooseField(a)
  BY <1>13, ChooseFieldStep
<1>14. CASE Revise(a)
  BY <1>14, ReviseStep
<1>15. CASE WriteArtifact(a)
  BY <1>15, WriteArtifactStep
<1>16. CASE BumpConfig(a)
  BY <1>16, BumpConfigStep
<1>17. CASE Respond(a)
  BY <1>17, RespondStep
<1>18. CASE Proceed(a)
  BY <1>18, ProceedStep
<1>19. CASE LlmFails(a)
  BY <1>19, LlmFailsStep
<1>20. CASE Interrupt(a)
  BY <1>20, InterruptStep
<1>21. CASE Kill(a)
  BY <1>21, KillStep
<1>22. CASE KillInAppend(a)
  BY <1>22, KillInAppendStep
<1>23. CASE KillInWrite(a)
  BY <1>23, KillInWriteStep
<1>24. QED
  BY <1>1, <1>2, <1>3, <1>4, <1>5, <1>6, <1>7, <1>8, <1>9, <1>10, <1>11, <1>12, <1>13,
     <1>14, <1>15, <1>16, <1>17, <1>18, <1>19, <1>20, <1>21, <1>22, <1>23 DEF Step

LEMMA RunInvStep == RunInv /\ [Next]_vars => RunInv'
<1>1. SUFFICES ASSUME RunInv, [Next]_vars PROVE RunInv'
  OBVIOUS
<1>2. CASE Next
  <2>1. PICK a \in Agents :
          \/ Start(a) \/ Step(a)
          \/ LlmFails(a) \/ Interrupt(a) \/ Kill(a) \/ KillInAppend(a) \/ KillInWrite(a)
    BY <1>2 DEF Next
  <2>2. Stepped(a)
    BY <1>1, <2>1, ActionStep
  <2>3. ASSUME NEW b \in Agents \ {a}
        PROVE  AgentInv(b)'
    <3>1. AgentInv(b) /\ Same(b)
      BY <1>1, <2>2 DEF RunInv, Stepped
    <3>2. QED
      BY <3>1, Untouched DEF Same, Keeps
  <2>4. QED
    BY <2>2, <2>3 DEF Stepped, RunInv
<1>3. CASE UNCHANGED vars
  <2>1. TypeOK'
    BY <1>1, <1>3 DEF RunInv, TypeOK, vars, disk
  <2>2. ASSUME NEW b \in Agents
        PROVE  AgentInv(b)'
    <3>1. AgentInv(b)
      BY <1>1 DEF RunInv
    <3>2. QED
      BY <1>3, <3>1, Untouched DEF vars, disk
  <2>3. QED
    BY <2>1, <2>2 DEF RunInv
<1>4. QED
  BY <1>1, <1>2, <1>3

LEMMA RunInvAlways == Spec => []RunInv
  BY RunInvInit, RunInvStep, PTL DEF Spec

\* The types of the state, of the scripts and their operations among them.
THEOREM TypeCorrect == Spec => []TypeOK
<1>1. RunInv => TypeOK
  BY DEF RunInv
<1>2. QED
  BY <1>1, RunInvAlways, PTL

\* append_revision(), _write_artifact(), a forum's own append() and
\* set_field_chosen() come before the public event that tells of them, and
\* nothing else comes between: however many agents run, and wherever a kill, an
\* interrupt, a failing call or a torn ledger ends a run, it leaves at most one
\* of them untold, and no event tells of what is not there.
THEOREM OrphansBounded == Spec => []OneOrphanPerRun
<1>1. ASSUME RunInv, NEW a \in Agents
      PROVE  LET o == Orphans(a) IN
               /\ o.revision >= 0 /\ o.artifact >= 0 /\ o.forum >= 0 /\ o.field >= 0
               /\ o.revision + o.artifact + o.forum + o.field <= Unfinished(a)
  <2> DEFINE o == Orphans(a)
  <2>1. /\ TypeOK /\ OrphanInv(a) /\ ScriptInv(a)
    BY <1>1 DEF RunInv, AgentInv
  <2>2. /\ o.revision \in Int /\ o.artifact \in Int /\ o.forum \in Int /\ o.field \in Int
        /\ cut[a] \in Nat
    BY <2>1, TypeFacts DEF Orphans, Counted
  <2>3. Late(a) \/ OwesAny(a) => phase[a] # "off"
    BY <2>1 DEF Late, OwesAny, ScriptInv
  <2> HIDE DEF o
  <2>4. /\ o.revision >= 0 /\ o.artifact >= 0 /\ o.forum >= 0 /\ o.field >= 0
        /\ o.revision + o.artifact + o.forum + o.field <= Unfinished(a)
    BY <2>1, <2>2, <2>3 DEF OrphanInv, One, Unfinished, o
  <2>5. QED
    BY <2>4 DEF o
<1>2. RunInv => OneOrphanPerRun
  BY <1>1 DEF OneOrphanPerRun
<1>3. QED
  BY <1>2, RunInvAlways, PTL

\* action.taken, action.executed, run.completed and the kill switch's
\* evaluations, in the order in which step() and _run_inner() write them: a run
\* cut short leaves one decision or completion without its evaluation, never
\* two, and no evaluation is of a step or a run that was not told.
THEOREM DecisionsTold == Spec => []DecisionsAccounted
<1>1. ASSUME RunInv, NEW a \in Agents
      PROVE  LET t == tally[a] IN
               /\ t["executed"] <= t["taken"]
               /\ t["evaluated"] <= t["executed"] + t["completed"]
               /\ t["taken"] + t["completed"] - t["evaluated"] <= Unfinished(a)
  <2> DEFINE x == OwesExecution(script[a])
             y == OnlyEvaluation(script[a])
             z == Late(a) \/ OwesEvaluation(script[a])
             c == cut[a]
             taken == tally[a]["taken"]
             executed == tally[a]["executed"]
             completed == tally[a]["completed"]
             evaluated == tally[a]["evaluated"]
  <2>1. TypeOK /\ DecisionInv(a) /\ ScriptInv(a)
    BY <1>1 DEF RunInv, AgentInv
  <2>2. /\ taken \in Nat /\ executed \in Nat /\ completed \in Nat /\ evaluated \in Nat
        /\ c \in Nat
    BY <2>1, TypeFacts DEF Counted
  <2>3. /\ executed + One(x) <= taken /\ evaluated + One(y) <= executed + completed
        /\ taken + completed - evaluated <= c + One(z)
    BY <2>1 DEF DecisionInv
  <2>4. z => phase[a] # "off"
    BY <2>1, EmptyScript DEF Late, ScriptInv, OwesEvaluation
  <2>5. One(x) \in {0, 1} /\ One(y) \in {0, 1} /\ One(z) \in {0, 1} /\ (One(z) = 1 <=> z)
    BY DEF One
  <2> HIDE DEF x, y, z, c, taken, executed, completed, evaluated
  <2>6. executed <= taken /\ evaluated <= executed + completed
    BY <2>2, <2>3, <2>5
  <2>7. taken + completed - evaluated <= c + (IF phase[a] = "off" THEN 0 ELSE 1)
    BY <2>2, <2>3, <2>4, <2>5
  <2>8. QED
    BY <2>6, <2>7 DEF Unfinished, c, taken, executed, completed, evaluated
<1>2. RunInv => DecisionsAccounted
  BY <1>1 DEF DecisionsAccounted
<1>3. QED
  BY <1>2, RunInvAlways, PTL

\* config_version is bumped behind run.completed and its evaluation: it is
\* never ahead of the completed runs, and no more behind than runs were cut.
THEOREM VersionsFollow == Spec => []VersionsAccounted
<1>1. ASSUME RunInv, NEW a \in Agents, config[a] # Unreadable
      PROVE  /\ config[a] <= tally[a]["completed"]
             /\ tally[a]["completed"] - config[a] <= Unfinished(a)
  <2>1. TypeOK /\ VersionInv(a) /\ ScriptInv(a)
    BY <1>1 DEF RunInv, AgentInv
  <2>2. tally[a]["completed"] \in Nat /\ cut[a] \in Nat /\ config[a] \in Int
    BY <2>1, TypeFacts DEF Counted
  <2>3. Late(a) \/ OwesVersion(script[a]) => phase[a] # "off"
    BY <2>1, EmptyScript DEF Late, ScriptInv, OwesVersion
  <2>4. QED
    BY <1>1, <2>1, <2>2, <2>3 DEF VersionInv, One, Unfinished
<1>2. RunInv => VersionsAccounted
  BY <1>1 DEF VersionsAccounted
<1>3. QED
  BY <1>2, RunInvAlways, PTL

\* The first run's choice: field.chosen is written once in an agent's life,
\* and a decision without a field is that of an agent whose first run was cut.
THEOREM FieldOnce == Spec => []FieldChosenOnce
<1>1. ASSUME RunInv, NEW a \in Agents
      PROVE  /\ tally[a]["chosen"] <= 1
             /\ phase[a] = "deciding" => constitution[a].chosen \/ cut[a] > 0
  <2>1. TypeOK /\ FieldInv(a) /\ ScriptInv(a) /\ OrphanInv(a)
    BY <1>1 DEF RunInv, AgentInv
  <2>2. tally[a]["chosen"] \in Nat /\ constitution[a].chosen \in BOOLEAN
    BY <2>1, TypeFacts DEF Counted
  <2>3. Orphans(a).field >= 0
    <3> DEFINE o == Orphans(a)
    <3>1. o.field \in Int
      BY <2>2 DEF Orphans
    <3> HIDE DEF o
    <3>2. o.field >= 0
      BY <2>1, <3>1 DEF OrphanInv, One, o
    <3>3. QED
      BY <3>2 DEF o
  <2>4. tally[a]["chosen"] <= 1
    BY <2>2, <2>3 DEF Orphans
  <2>5. phase[a] = "deciding" => constitution[a].chosen \/ cut[a] > 0
    BY <2>1 DEF FieldInv, ScriptInv, InTry, Late
  <2>6. QED
    BY <2>4, <2>5
<1>2. RunInv => FieldChosenOnce
  BY <1>1 DEF FieldChosenOnce
<1>3. QED
  BY <1>2, RunInvAlways, PTL

\* Whoever is in the commons when a snapshot is built was left there by a run
\* that was cut short.
THEOREM VisitsEnd == Spec => []OutsideCommons
<1>1. ASSUME RunInv, NEW a \in Agents, inCommons[a], Running(a, "build")
      PROVE  cut[a] > 0
  <2>1. ScriptInv(a) /\ CommonsInv(a)
    BY <1>1 DEF RunInv, AgentInv
  <2>2. /\ script[a] # <<>> /\ Name(script[a][1]) = "build" /\ phase[a] \in InTry
        /\ script[a] \in Seq(Ops) /\ Rules(script[a])
    BY <1>1, <2>1, RunningFacts DEF ScriptInv, Rules
  <2>3. Has(script[a], "build")
    BY <2>2, HasTail
  <2>4. ~Has(script[a], "left") /\ ~Late(a)
    BY <2>2, <2>3 DEF Rules, Late, InTry
  <2>5. QED
    BY <1>1, <2>1, <2>4 DEF CommonsInv
<1>2. RunInv => OutsideCommons
  BY <1>1 DEF OutsideCommons
<1>3. QED
  BY <1>2, RunInvAlways, PTL

-----------------------------------------------------------------------------
(* Behind a torn line *)

LEMMA TornGrows ==
  ASSUME NEW a,
         \/ Start(a) \/ Step(a)
         \/ LlmFails(a) \/ Interrupt(a) \/ Kill(a) \/ KillInAppend(a) \/ KillInWrite(a)
  PROVE  torn \subseteq torn'
<1>1. CASE Start(a) \/ EnterTry(a) \/ Decide(a) \/ Close(a) \/ Exit(a)
  BY <1>1 DEF Start, EnterTry, Decide, Close, Exit
<1>2. CASE AppendEvent(a) \/ AppendRefused(a) \/ ReadFiles(a) \/ ReadCrashes(a)
  BY <1>2 DEF AppendEvent, AppendRefused, ReadFiles, ReadCrashes
<1>3. CASE VerifyBoundary(a) \/ Gate(a) \/ Initialize(a) \/ ChooseField(a) \/ Revise(a)
  BY <1>3 DEF VerifyBoundary, Gate, Initialize, ChooseField, Revise
<1>4. CASE WriteArtifact(a) \/ BumpConfig(a) \/ Respond(a) \/ Proceed(a)
  BY <1>4 DEF WriteArtifact, BumpConfig, Respond, Proceed
<1>5. CASE LlmFails(a) \/ Interrupt(a) \/ Kill(a) \/ KillInAppend(a) \/ KillInWrite(a)
  BY <1>5 DEF LlmFails, Interrupt, Kill, KillInAppend, KillInWrite
<1>6. QED
  BY <1>1, <1>2, <1>3, <1>4, <1>5 DEF Step

LEMMA EndsOff ==
  ASSUME TypeOK, NEW a \in Agents, NEW how, End(a, how)
  PROVE  phase'[a] = "off"
  BY DEF End, TypeOK

\* A run in its start comes to agent.run.started before it can leave it.
LEMMA StoppedRun ==
  ASSUME RunInv, NEW a \in Agents, Stopped(a),
         \/ Start(a) \/ Step(a)
         \/ LlmFails(a) \/ Interrupt(a) \/ Kill(a) \/ KillInAppend(a) \/ KillInWrite(a)
  PROVE  /\ phase'[a] \in {"off", "starting"}
         /\ phase'[a] = "starting" => Has(script'[a], "started")
<1>1. TypeOK /\ ScriptInv(a) /\ phase \in [Agents -> {"off", "starting", "handler"} \cup InTry]
  BY DEF RunInv, AgentInv, TypeOK
<1>2. /\ phase[a] \in {"off", "starting"} /\ phase[a] \notin InTry
      /\ phase[a] = "starting" => Has(script[a], "started")
      /\ phase[a] = "off" => script[a] = <<>>
      /\ <<"public">> \in torn
  BY <1>1 DEF Stopped, InTry, ScriptInv
<1>3. ASSUME script[a] # <<>>, Advance(a), Name(script[a][1]) # "started", phase'[a] = phase[a]
      PROVE  /\ phase'[a] \in {"off", "starting"}
             /\ phase'[a] = "starting" => Has(script'[a], "started")
  <2>1. script[a] \in Seq(Ops) /\ script'[a] = Tail(script[a])
    BY <1>1, <1>3, AdvanceFacts, TypeFacts
  <2>2. QED
    BY <1>2, <1>3, <2>1, HasTail
<1>4. \A what \in Acts \ {"verify", "gate", "sync"} : ~Running(a, what)
  BY <1>1, <1>2, RunningFacts DEF Acts
<1>5. CASE Start(a)
  <2>1. script'[a] = Startup /\ phase'[a] = "starting"
    BY <1>1, <1>5 DEF Start, TypeOK
  <2>2. QED
    BY <2>1, StartupRules
<1>6. CASE EnterTry(a) \/ Decide(a) \/ Close(a) \/ Exit(a)
  BY <1>2, <1>6, EmptyScript DEF EnterTry, Decide, Close, Exit
<1>7. CASE AppendEvent(a)
  <2> DEFINE op == script[a][1]
  <2>1. script[a] # <<>> /\ Head(script[a]) = op /\ Known(op) /\ op.do = "append"
    BY <1>1, <1>7, RunningFacts DEF AppendEvent
  <2>2. Name(op) = "started" => op.ledger = "public"
    BY <2>1, AppendFacts
  <2>3. File(a, op.ledger) \notin torn
    BY <1>7, <2>1 DEF AppendEvent
  <2>4. Name(op) # "started"
    BY <1>2, <2>2, <2>3 DEF File
  <2>5. Advance(a) /\ phase'[a] = phase[a]
    BY <1>7 DEF AppendEvent
  <2>6. QED
    BY <1>3, <2>1, <2>4, <2>5
<1>8. CASE VerifyBoundary(a) \/ Proceed(a)
  <2>1. script[a] # <<>> /\ Name(script[a][1]) \in {"verify", "llm", "sync"}
    BY <1>1, <1>8, RunningFacts DEF VerifyBoundary, Proceed
  <2>2. Advance(a) /\ phase'[a] = phase[a]
    BY <1>8 DEF VerifyBoundary, Proceed
  <2>3. QED
    BY <1>3, <2>1, <2>2
<1>9. CASE Gate(a)
  <2>1. script[a] # <<>> /\ Name(script[a][1]) = "gate"
    BY <1>1, <1>9, RunningFacts DEF Gate
  <2>2. CASE a \in Enforcing /\ ~sound[a]
    BY <1>1, <1>9, <2>2, EndsOff DEF Gate, RaiseCorruption
  <2>3. CASE ~(a \in Enforcing /\ ~sound[a])
    BY <1>3, <1>9, <2>1, <2>3 DEF Gate
  <2>4. QED
    BY <2>2, <2>3
<1>10. CASE \/ ReadFiles(a) \/ Initialize(a) \/ ChooseField(a) \/ Revise(a)
            \/ WriteArtifact(a) \/ BumpConfig(a) \/ Respond(a) \/ LlmFails(a)
  BY <1>4, <1>10 DEF ReadFiles, ReadBy, Initialize, ChooseField, Revise, WriteArtifact,
                     BumpConfig, Respond, LlmFails, Acts
<1>11. CASE \/ AppendRefused(a) \/ ReadCrashes(a) \/ Interrupt(a) \/ Kill(a)
            \/ KillInAppend(a) \/ KillInWrite(a)
  <2>1. \E how : End(a, how)
    BY <1>2, <1>11 DEF AppendRefused, RaiseCorruption, ReadCrashes, Interrupt, Kill,
                       KillInAppend, KillInWrite
  <2>2. QED
    BY <1>1, <2>1, EndsOff
<1>12. QED
  BY <1>5, <1>6, <1>7, <1>8, <1>9, <1>10, <1>11 DEF Step

LEMMA StoppedStays ==
  ASSUME NEW a \in Agents
  PROVE  RunInv /\ Stopped(a) /\ [Next]_vars => Stopped(a)'
<1>1. SUFFICES ASSUME RunInv, Stopped(a), [Next]_vars PROVE Stopped(a)'
  OBVIOUS
<1>2. CASE Next
  <2>1. PICK b \in Agents :
          \/ Start(b) \/ Step(b)
          \/ LlmFails(b) \/ Interrupt(b) \/ Kill(b) \/ KillInAppend(b) \/ KillInWrite(b)
    BY <1>2 DEF Next
  <2>2. torn \subseteq torn'
    BY <2>1, TornGrows
  <2>3. CASE b = a
    BY <1>1, <2>1, <2>2, <2>3, StoppedRun DEF Stopped
  <2>4. CASE b # a
    <3>1. Stepped(b)
      BY <1>1, <2>1, ActionStep
    <3>2. phase'[a] = phase[a] /\ script'[a] = script[a]
      BY <2>4, <3>1 DEF Stepped, Same
    <3>3. QED
      BY <1>1, <2>2, <3>2 DEF Stopped
  <2>5. QED
    BY <2>3, <2>4
<1>3. CASE UNCHANGED vars
  BY <1>1, <1>3 DEF Stopped, vars
<1>4. QED
  BY <1>1, <1>2, <1>3

\* A torn line of the public ledger stops every run that starts behind it, in
\* either verifier_mode: append() refuses agent.run.started, which comes before
\* the try of _run_inner(), before any decision and any file of the agent's.
THEOREM TornStops == Spec => TornStopsRuns
<1>1. ASSUME NEW a \in Agents
      PROVE  Spec => [](<<"public">> \in torn /\ phase[a] = "off" => [](phase[a] \notin InTry))
  <2>1. <<"public">> \in torn /\ phase[a] = "off" => Stopped(a)
    BY DEF Stopped
  <2>2. Stopped(a) => phase[a] \notin InTry
    BY DEF Stopped, InTry
  <2>3. RunInv /\ Stopped(a) /\ [Next]_vars => Stopped(a)'
    BY StoppedStays
  <2>4. QED
    BY <2>1, <2>2, <2>3, RunInvAlways, PTL DEF Spec
<1>2. QED
  BY <1>1 DEF TornStopsRuns

=============================================================================
