--------------------------- MODULE BetaLoopProofs ---------------------------
(***************************************************************************)
(* Proofs about BetaLoop, for any configs, vocabulary and bounds.          *)
(*                                                                         *)
(* The first part is about the weights: what MapThenSumSet computes over a *)
(* finite set, and that no tuning changes it.  A fold is a recursive       *)
(* function over the subsets; what holds of all of them is proved by       *)
(* looking at a smallest subset of which it does not.  The second part is  *)
(* about the steps of loop, runs and tool.                                 *)
(***************************************************************************)
EXTENDS BetaLoop, FiniteSetTheorems, WellFoundedInduction, TLAPS

Config == [version : Nat \X Nat \X Nat, hash : Hashes]
Vocabularies == [DOMAIN Vocabulary -> Weights] \cup {Torn}

Version == Nat \X Nat \X Nat
StartState == [at : {"idle", "load", "lock"}, own : BOOLEAN, copy : Config \cup {None}]
RunState == [at : {"idle", "start", "decide", "close", "write"}, own : BOOLEAN,
             copy : Config \cup {None}, used : Vocabularies \cup {None}]
ToolState == [new : Config, half : BOOLEAN]
IsLoop(l) == l = [at |-> l.at, wave |-> l.wave, index |-> l.index, failures |-> l.failures,
                  waits |-> l.waits, ok |-> l.ok]

TypeInv ==
  /\ vocab \in Vocabularies
  /\ conf \in [Configs -> Config \cup {Torn}]
  /\ IsLoop(loop)
  /\ starting \in [Configs -> StartState]
  /\ \A c \in Configs : starting[c].at = "lock" => starting[c].copy \in Config
  /\ run \in [Configs -> RunState]
  /\ \A c \in Configs : run[c].at # "idle" => run[c].copy \in Config
  /\ tool \in [Configs -> ToolState \cup {None}]
  /\ told = [c \in Configs |-> told[c]]

\* A process that the loop waits for is in its present wave, the only one of its
\* config, and since it loaded the vocabulary nobody changed it.
OwnInv ==
  \A c \in Configs :
    /\ starting[c].own =>
         /\ loop.at = "wave" /\ c \in loop.waits /\ ~run[c].own
         /\ starting[c].at = "lock" => starting[c].copy.hash = vocab
    /\ run[c].own =>
         /\ loop.at = "wave" /\ c \in loop.waits
         /\ run[c].at = "start" => run[c].copy.hash = vocab
         /\ run[c].at = "decide" => run[c].used = run[c].copy.hash

Above(v, old) == Gte(v, old) /\ v # old

\* All copies of a config have the version v, which is not below the one told
\* last; while a run writes it, v is what the file will have, and no other copy
\* is left.
Agreed(c, v) ==
  /\ starting[c].at = "lock" => starting[c].copy.version = v
  /\ run[c].at \in {"start", "decide", "close"} => run[c].copy.version = v
  /\ run[c].at = "close" => told[c] = v
  /\ run[c].at = "write" => /\ conf[c] = Torn /\ tool[c] = None /\ starting[c].at # "lock"
                            /\ v = Bump(run[c].copy.version)
  /\ tool[c] # None => tool[c].new.version = v
  /\ conf[c] # Torn => conf[c].version = v
  /\ told[c] # None => Gte(v, told[c]) /\ (v = told[c] => run[c].at = "close" \/ c \in cut)

\* All copies of a config have the hash of the present vocabulary.
Right(c) ==
  /\ starting[c].at = "lock" => starting[c].copy.hash = vocab
  /\ run[c].at # "idle" => run[c].copy.hash = vocab
  /\ tool[c] # None => tool[c].new.hash = vocab
  /\ conf[c] # Torn => conf[c].hash = vocab

Kept(c) == (\E v \in Version : Agreed(c, v)) /\ (c \in fixed => Right(c))
KeptInv == \A c \in Configs \ crossed : Kept(c)

Picked(s) == CHOOSE x \in s : TRUE

\* g adds up the weights w over each subset of S.
Adds(g, w, S) ==
  g = [s \in SUBSET S |-> IF s = {} THEN 0 ELSE w[Picked(s)] + g[s \ {Picked(s)}]]

Total(w, S) == MapThenSumSet(LAMBDA k : w[k], S)

-----------------------------------------------------------------------------
(* Sums over finite sets. *)

\* If some subsets are bad, there is one of which no proper subset is.
LEMMA SmallestSubset ==
  ASSUME NEW S, IsFiniteSet(S), NEW Bad, Bad \subseteq SUBSET S, Bad # {}
  PROVE  \E T \in Bad : \A U \in SUBSET T : U \in Bad => U = T
<1>1. IsWellFoundedOn(StrictSubsetOrdering(S), SUBSET S)
  BY FS_StrictSubsetOrderingWellFounded, FS_FiniteSubsetsOfFinite
<1>2. PICK T \in Bad : \A U \in Bad : <<U, T>> \notin StrictSubsetOrdering(S)
  BY <1>1, WFMin
<1>3. QED
  BY <1>2 DEF StrictSubsetOrdering

LEMMA AddsFacts ==
  ASSUME NEW w, NEW S, NEW g, Adds(g, w, S)
  PROVE  /\ g[{}] = 0
         /\ \A s \in SUBSET S :
              s # {} => Picked(s) \in s /\ g[s] = w[Picked(s)] + g[s \ {Picked(s)}]
<1>1. \A s \in SUBSET S : g[s] = IF s = {} THEN 0 ELSE w[Picked(s)] + g[s \ {Picked(s)}]
  BY DEF Adds
<1>2. \A s : s # {} => Picked(s) \in s
  BY DEF Picked
<1>3. QED
  BY <1>1, <1>2

\* What a set adds up to depends on the weights of its elements only.
LEMMA AddsSame ==
  ASSUME NEW w, NEW v, NEW S, NEW U, NEW g, NEW h, Adds(g, w, S), Adds(h, v, U),
         NEW T \in SUBSET S, T \subseteq U, IsFiniteSet(T), \A k \in T : w[k] = v[k]
  PROVE  g[T] = h[T]
<1> DEFINE Bad == {s \in SUBSET T : g[s] # h[s]}
<1> SUFFICES ASSUME Bad # {} PROVE FALSE
  OBVIOUS
<1>1. PICK s \in Bad : \A u \in SUBSET s : u \in Bad => u = s
  <2>1. Bad \subseteq SUBSET T
    OBVIOUS
  <2> HIDE DEF Bad
  <2>2. QED
    BY <2>1, SmallestSubset
<1> DEFINE x == Picked(s)
<1>2. s \in SUBSET S /\ s \in SUBSET U /\ s \subseteq T
  OBVIOUS
<1>3. s # {}
  <2>1. g[{}] = 0 /\ h[{}] = 0
    BY AddsFacts
  <2>2. QED
    BY <2>1
<1>4. x \in s /\ g[s] = w[x] + g[s \ {x}] /\ h[s] = v[x] + h[s \ {x}]
  BY <1>2, <1>3, AddsFacts
<1>5. s \ {x} \in SUBSET s /\ s \ {x} # s
  BY <1>4
<1>6. s \ {x} \notin Bad
  BY <1>1, <1>5
<1>7. g[s \ {x}] = h[s \ {x}] /\ w[x] = v[x]
  BY <1>2, <1>4, <1>6
<1>8. QED
  BY <1>1, <1>4, <1>7

LEMMA AddsExists ==
  ASSUME NEW w, NEW S, IsFiniteSet(S)
  PROVE  \E g : Adds(g, w, S)
<1> DEFINE Bad == {T \in SUBSET S : ~\E g : Adds(g, w, T)}
<1> SUFFICES ASSUME Bad # {} PROVE FALSE
  OBVIOUS
<1>1. PICK T \in Bad : \A U \in SUBSET T : U \in Bad => U = T
  <2>1. Bad \subseteq SUBSET S
    OBVIOUS
  <2> HIDE DEF Bad
  <2>2. QED
    BY <2>1, SmallestSubset
<1> DEFINE on(u) == CHOOSE g : Adds(g, w, u)
           G == [s \in SUBSET T |-> IF s = {} THEN 0
                                    ELSE w[Picked(s)] + on(s \ {Picked(s)})[s \ {Picked(s)}]]
<1>2. \A u \in SUBSET T : u # T => Adds(on(u), w, u)
  BY <1>1
<1>3. ASSUME NEW u \in SUBSET T, u # T
      PROVE  G[u] = on(u)[u]
  <2>1. CASE u = {}
    BY <1>2, <1>3, <2>1, AddsFacts
  <2>2. CASE u # {}
    <3> DEFINE x == Picked(u)
               v == u \ {x}
    <3>1. Adds(on(u), w, u)
      BY <1>2, <1>3
    <3>2. x \in u /\ on(u)[u] = w[x] + on(u)[v]
      BY <2>2, <3>1, AddsFacts
    <3>3. v \in SUBSET T /\ v # T /\ v \in SUBSET u /\ IsFiniteSet(v)
      BY <1>3, <3>2, FS_Subset
    <3>4. Adds(on(v), w, v)
      BY <1>2, <3>3
    <3>5. on(u)[v] = on(v)[v]
      <4> HIDE DEF on, v
      <4>1. QED
        BY <3>1, <3>3, <3>4, AddsSame
    <3>6. QED
      BY <1>3, <2>2, <3>2, <3>5
  <2>3. QED
    BY <2>1, <2>2
<1>4. ASSUME NEW s \in SUBSET T, s # {}
      PROVE  G[s \ {Picked(s)}] = on(s \ {Picked(s)})[s \ {Picked(s)}]
  <2>1. Picked(s) \in s
    BY <1>4 DEF Picked
  <2>2. s \ {Picked(s)} \in SUBSET T /\ s \ {Picked(s)} # T
    BY <2>1
  <2> HIDE DEF G, on
  <2>3. QED
    BY <1>3, <2>2
<1>5. G = [s \in SUBSET T |-> IF s = {} THEN 0 ELSE w[Picked(s)] + G[s \ {Picked(s)}]]
  <2>1. \A s \in SUBSET T :
          (IF s = {} THEN 0 ELSE w[Picked(s)] + on(s \ {Picked(s)})[s \ {Picked(s)}])
            = (IF s = {} THEN 0 ELSE w[Picked(s)] + G[s \ {Picked(s)}])
    <3> HIDE DEF G, on
    <3>1. QED
      BY <1>4
  <2>2. G = [s \in SUBSET T |-> IF s = {} THEN 0
                               ELSE w[Picked(s)] + on(s \ {Picked(s)})[s \ {Picked(s)}]]
    OBVIOUS
  <2> HIDE DEF G, on
  <2>3. QED
    BY <2>1, <2>2
<1>6. Adds(G, w, T)
  <2> HIDE DEF G
  <2>1. QED
    BY <1>5 DEF Adds
<1>7. QED
  BY <1>1, <1>6

\* Any element can be taken out first.
LEMMA AddsRemove ==
  ASSUME NEW w, NEW S, IsFiniteSet(S), \A k \in S : w[k] \in Int, NEW g, Adds(g, w, S)
  PROVE  g[S] \in Int /\ \A x \in S : g[S] = w[x] + g[S \ {x}] /\ g[S \ {x}] \in Int
<1> DEFINE Fine(s) == g[s] \in Int /\ \A x \in s : g[s] = w[x] + g[s \ {x}]
           Bad == {s \in SUBSET S : ~Fine(s)}
<1>1. ASSUME Bad # {} PROVE FALSE
  <2>1. PICK s \in Bad : \A u \in SUBSET s : u \in Bad => u = s
    <3>1. Bad \subseteq SUBSET S
      OBVIOUS
    <3> HIDE DEF Bad
    <3>2. QED
      BY <1>1, <3>1, SmallestSubset
  <2>2. \A x \in s : Fine(s \ {x})
    <3>1. \A x \in s : s \ {x} \in SUBSET s /\ s \ {x} # s /\ s \ {x} \in SUBSET S
      OBVIOUS
    <3> HIDE DEF Fine
    <3>2. QED
      BY <2>1, <3>1
  <2>3. s # {}
    <3>1. g[{}] = 0
      BY AddsFacts
    <3>2. Fine({})
      BY <3>1
    <3>3. ~Fine(s)
      BY <2>1
    <3> HIDE DEF Fine
    <3>4. QED
      BY <3>2, <3>3
  <2> DEFINE y == Picked(s)
  <2>4. y \in s /\ g[s] = w[y] + g[s \ {y}]
    BY <2>1, <2>3, AddsFacts
  <2>5. g[s] \in Int /\ g[s \ {y}] \in Int /\ w[y] \in Int
    <3>1. g[s \ {y}] \in Int /\ w[y] \in Int
      BY <2>1, <2>2, <2>4
    <3>2. QED
      BY <2>4, <3>1
  <2>6. ASSUME NEW x \in s, x # y
        PROVE  g[s] = w[x] + g[s \ {x}]
    <3>1. (s \ {y}) \ {x} = (s \ {x}) \ {y}
      OBVIOUS
    <3>2. g[s \ {y}] = w[x] + g[(s \ {y}) \ {x}] /\ w[x] \in Int
      BY <2>2, <2>4, <2>6
    <3>3. g[s \ {x}] = w[y] + g[(s \ {x}) \ {y}] /\ g[s \ {x}] \in Int
      BY <2>2, <2>4, <2>6
    <3> DEFINE rest == g[(s \ {x}) \ {y}]
    <3>4. rest \in Int
      <4>1. (s \ {x}) \ {y} \in SUBSET s /\ (s \ {x}) \ {y} # s /\ (s \ {x}) \ {y} \in SUBSET S
        BY <2>4
      <4>2. (s \ {x}) \ {y} \notin Bad
        <5> HIDE DEF Bad, y
        <5>1. QED
          BY <2>1, <4>1
      <4>3. QED
        BY <4>1, <4>2
    <3>5. g[s \ {y}] = w[x] + rest /\ g[s \ {x}] = w[y] + rest
      BY <3>1, <3>2, <3>3
    <3> HIDE DEF rest, y
    <3>6. QED
      BY <2>4, <2>5, <3>2, <3>4, <3>5
  <2>7. Fine(s)
    BY <2>4, <2>5, <2>6
  <2>8. QED
    BY <2>1, <2>7
<1>2. \A s \in SUBSET S : Fine(s)
  BY <1>1
<1>3. \A x \in S : S \ {x} \in SUBSET S
  OBVIOUS
<1>4. QED
  BY <1>2, <1>3

LEMMA TotalAdds ==
  ASSUME NEW w, NEW S, IsFiniteSet(S)
  PROVE  \E g : Adds(g, w, S) /\ Total(w, S) = g[S]
<1> DEFINE g == CHOOSE h : Adds(h, w, S)
<1>1. Adds(g, w, S)
  BY AddsExists
<1>2. Total(w, S) = g[S]
  BY DEF Total, MapThenSumSet, MapThenFoldSet, Adds, Picked
<1>3. QED
  BY <1>1, <1>2

LEMMA TotalSame ==
  ASSUME NEW w, NEW v, NEW S, IsFiniteSet(S), \A k \in S : w[k] = v[k]
  PROVE  Total(w, S) = Total(v, S)
<1>1. PICK g : Adds(g, w, S) /\ Total(w, S) = g[S]
  BY TotalAdds
<1>2. PICK h : Adds(h, v, S) /\ Total(v, S) = h[S]
  BY TotalAdds
<1>3. g[S] = h[S]
  BY <1>1, <1>2, AddsSame
<1>4. QED
  BY <1>1, <1>2, <1>3

LEMMA TotalRemove ==
  ASSUME NEW w, NEW S, IsFiniteSet(S), \A k \in S : w[k] \in Int, NEW x \in S
  PROVE  /\ Total(w, S \ {x}) \in Int
         /\ Total(w, S) = w[x] + Total(w, S \ {x})
<1> DEFINE T == S \ {x}
<1>0. T \in SUBSET S /\ IsFiniteSet(T)
  BY FS_Subset
<1>1. PICK g : Adds(g, w, S) /\ Total(w, S) = g[S]
  BY TotalAdds
<1>2. g[S] = w[x] + g[T] /\ g[T] \in Int
  BY <1>1, AddsRemove
<1> HIDE DEF T
<1>3. PICK h : Adds(h, w, T) /\ Total(w, T) = h[T]
  BY <1>0, TotalAdds
<1>4. g[T] = h[T]
  BY <1>0, <1>1, <1>3, AddsSame
<1>5. QED
  BY <1>1, <1>2, <1>3, <1>4 DEF T
-----------------------------------------------------------------------------
(* Shifting weights. *)

LEMMA HeaviestExists ==
  ASSUME NEW w, NEW D, IsFiniteSet(D), D # {}, \A k \in D : w[k] \in Int
  PROVE  Heaviest(w, D) \in D
<1> DEFINE HasOne(s) == \E k \in s : \A j \in s : w[k] >= w[j]
           Bad == {s \in SUBSET D : s # {} /\ ~HasOne(s)}
<1>1. ASSUME Bad # {} PROVE FALSE
  <2>1. PICK s \in Bad : \A u \in SUBSET s : u \in Bad => u = s
    <3>1. Bad \subseteq SUBSET D
      OBVIOUS
    <3> HIDE DEF Bad
    <3>2. QED
      BY <1>1, <3>1, SmallestSubset
  <2>2. PICK x \in s : TRUE
    OBVIOUS
  <2> DEFINE u == s \ {x}
  <2>3. u \in SUBSET s /\ u # s /\ u \in SUBSET D /\ s = u \cup {x} /\ s \in SUBSET D
    BY <2>2
  <2>4. u = {} \/ HasOne(u)
    <3> HIDE DEF u, HasOne
    <3>1. QED
      BY <2>1, <2>3
  <2>5. HasOne(s)
    <3>1. CASE u = {}
      BY <2>2, <2>3, <3>1
    <3>2. CASE HasOne(u)
      <4>1. PICK k \in u : \A j \in u : w[k] >= w[j]
        BY <3>2
      <4>2. CASE w[k] >= w[x]
        BY <2>3, <4>1, <4>2
      <4>3. CASE ~(w[k] >= w[x])
        <5>1. \A j \in u : w[x] >= w[j]
          BY <2>2, <2>3, <4>1, <4>3
        <5>2. QED
          BY <2>2, <2>3, <5>1
      <4>4. QED
        BY <4>2, <4>3
    <3>3. QED
      BY <2>4, <3>1, <3>2
  <2>6. QED
    BY <2>5
<1>2. HasOne(D)
  BY <1>1
<1>3. QED
  BY <1>2 DEF Heaviest

LEMMA MinFacts ==
  ASSUME NEW a \in Nat, NEW b \in Nat
  PROVE  Min({a, b}) \in Nat /\ Min({a, b}) <= b
<1>1. \E x \in {a, b} : \A y \in {a, b} : x =< y
  BY SMT
<1>2. Min({a, b}) \in {a, b} /\ \A y \in {a, b} : Min({a, b}) =< y
  BY <1>1 DEF Min
<1>3. QED
  BY <1>2

LEMMA WithTargetFacts ==
  ASSUME NEW w \in Weights, NEW t \in Categories
  PROVE  /\ WithTarget(w, t) \in [DOMAIN w \cup {t} -> Nat]
         /\ WithTarget(w, t) \in Weights
         /\ IsFiniteSet(DOMAIN w \cup {t})
         /\ Total(WithTarget(w, t), DOMAIN w \cup {t}) = Total(w, DOMAIN w)
<1> DEFINE D == DOMAIN w
           E == D \cup {t}
           o == WithTarget(w, t)
<1>1. PICK S \in SUBSET Categories : w \in [S -> Nat]
  BY DEF Weights
<1>2. D \subseteq Categories /\ \A k \in D : w[k] \in Nat
  BY <1>1
<1>3. o \in [E -> Nat] /\ E \in SUBSET Categories
  BY <1>2 DEF WithTarget
<1>4. o \in Weights
  BY <1>3 DEF Weights
<1>5. IsFiniteSet(E) /\ IsFiniteSet(D)
  BY <1>2, <1>3, BetaAssumption, FS_Subset
<1>6. \A k \in D : o[k] = w[k]
  BY DEF WithTarget
<1>7. t \notin D => o[t] = 0
  BY DEF WithTarget
<1> HIDE DEF o
<1>8. Total(o, D) = Total(w, D)
  BY <1>5, <1>6, TotalSame
<1>9. Total(o, E) = Total(w, D)
  <2>1. CASE t \in D
    <3>1. E = D
      BY <2>1
    <3>2. QED
      BY <1>8, <3>1
  <2>2. CASE t \notin D
    <3>1. E \ {t} = D /\ t \in E /\ \A k \in E : o[k] \in Int
      BY <1>3, <2>2
    <3> HIDE DEF E, D
    <3>2. Total(o, E \ {t}) \in Int /\ Total(o, E) = o[t] + Total(o, E \ {t})
      BY <1>5, <3>1, TotalRemove
    <3>3. Total(o, E \ {t}) = Total(w, D)
      BY <1>8, <3>1
    <3>4. QED
      BY <1>7, <2>2, <3>2, <3>3
  <2>3. QED
    BY <2>1, <2>2
<1>10. QED
  BY <1>3, <1>4, <1>5, <1>9 DEF o

\* A shift keeps the total of a leaf's weights, and none becomes negative.
LEMMA ShiftKeepsTotal ==
  ASSUME NEW w \in Weights, NEW t \in Categories, NEW amount \in Nat
  PROVE  /\ ShiftWeight(w, t, amount) \in Weights
         /\ Total(ShiftWeight(w, t, amount), DOMAIN ShiftWeight(w, t, amount))
              = Total(w, DOMAIN w)
<1> DEFINE E == DOMAIN w \cup {t}
           o == WithTarget(w, t)
           D == Donors(o, t)
           d == Heaviest(o, D)
           delta == Min({amount, o[d]})
           new == ShiftWeight(w, t, amount)
<1>1. /\ o \in [E -> Nat] /\ o \in Weights /\ IsFiniteSet(E)
      /\ Total(o, E) = Total(w, DOMAIN w)
  BY WithTargetFacts
<1>2. CASE D = {}
  <2>1. new = o
    BY <1>2 DEF ShiftWeight
  <2> HIDE DEF new, o
  <2>2. QED
    BY <1>1, <2>1 DEF new
<1>3. CASE D # {}
  <2>1. new = [o EXCEPT ![d] = @ - delta, ![t] = @ + delta]
    BY <1>3 DEF ShiftWeight
  <2>2. D \subseteq E /\ t \notin D /\ \A k \in D : o[k] \in Nat
    <3> HIDE DEF o
    <3>1. QED
      BY <1>1 DEF Donors
  <2>3. IsFiniteSet(D)
    BY <1>1, <2>2, FS_Subset
  <2>4. d \in D
    <3> HIDE DEF o, D
    <3>1. QED
      BY <1>3, <2>2, <2>3, HeaviestExists
  <2>5. d \in E /\ d # t /\ t \in E /\ o[d] \in Nat /\ o[t] \in Nat
    BY <1>1, <2>2, <2>4
  <2> HIDE DEF o, D, d, E, new
  <2>6. delta \in Nat /\ delta <= o[d]
    BY <2>5, MinFacts
  <2> HIDE DEF delta
  <2>7. /\ new \in [E -> Nat]
        /\ new[d] = o[d] - delta /\ new[t] = o[t] + delta
        /\ \A k \in E \ {d, t} : new[k] = o[k]
    BY <1>1, <2>1, <2>5, <2>6
  <2>8. E \subseteq Categories
    <3>1. PICK S \in SUBSET Categories : w \in [S -> Nat]
      BY DEF Weights
    <3>2. QED
      BY <3>1 DEF E
  <2>9. new \in Weights /\ DOMAIN new = E
    BY <2>7, <2>8 DEF Weights
  <2> DEFINE F == E \ {d}
             G == F \ {t}
  <2>10. t \in F /\ F \in SUBSET E /\ G \in SUBSET E /\ G \subseteq E \ {d, t}
    BY <2>5
  <2>11. IsFiniteSet(F) /\ IsFiniteSet(G)
    BY <1>1, <2>10, FS_Subset
  <2>12. ASSUME NEW v, v \in [E -> Nat]
         PROVE  Total(v, E) = v[d] + v[t] + Total(v, G) /\ Total(v, G) \in Int
    <3>1. \A k \in E : v[k] \in Int
      BY <2>12
    <3>2. Total(v, F) \in Int /\ Total(v, E) = v[d] + Total(v, F)
      <4>1. IsFiniteSet(E) /\ d \in E
        BY <1>1, <2>5
      <4>2. QED
        BY <3>1, <4>1, TotalRemove
    <3>3. \A k \in F : v[k] \in Int
      BY <2>10, <3>1
    <3> HIDE DEF F
    <3>4. Total(v, G) \in Int /\ Total(v, F) = v[t] + Total(v, G)
      BY <2>10, <2>11, <3>3, TotalRemove
    <3>5. v[d] \in Int /\ v[t] \in Int
      BY <2>5, <3>1
    <3> HIDE DEF G
    <3>6. QED
      BY <3>2, <3>4, <3>5
  <2> HIDE DEF F, G
  <2>13. Total(new, G) = Total(o, G)
    <3>1. \A k \in G : new[k] = o[k]
      BY <2>7, <2>10
    <3>2. QED
      BY <2>11, <3>1, TotalSame
  <2>14. Total(new, E) = Total(o, E)
    <3>1. Total(new, E) = new[d] + new[t] + Total(new, G)
      BY <2>7, <2>12
    <3>2. Total(o, E) = o[d] + o[t] + Total(o, G) /\ Total(o, G) \in Int
      BY <1>1, <2>12
    <3>3. QED
      BY <2>5, <2>6, <2>7, <2>13, <3>1, <3>2
  <2>15. QED
    BY <1>1, <2>9, <2>14 DEF new
<1>4. QED
  BY <1>2, <1>3

LEMMA LoadsTotal ==
  ASSUME NEW v \in [DOMAIN Vocabulary -> Weights]
  PROVE  Loads(v) <=> \A leaf \in DOMAIN Vocabulary : Total(v[leaf], DOMAIN v[leaf]) = 100
<1>1. \A w \in Weights : \A k \in DOMAIN w : w[k] >= 0
  BY DEF Weights
<1>2. DOMAIN v = DOMAIN Vocabulary /\ \A leaf \in DOMAIN Vocabulary : v[leaf] \in Weights
  OBVIOUS
<1>3. Loads(v) <=> \A leaf \in DOMAIN v :
                     /\ Total(v[leaf], DOMAIN v[leaf]) = 100
                     /\ \A k \in DOMAIN v[leaf] : v[leaf][k] >= 0
  BY DEF Loads, Total
<1>4. QED
  BY <1>1, <1>2, <1>3

\* A tuned vocabulary is one, and loads if the one before did.
LEMMA TunedKeepsLoads ==
  ASSUME NEW v \in [DOMAIN Vocabulary -> Weights], NEW index,
         NEW rich \in BOOLEAN, NEW quiet \in BOOLEAN, NEW unskilled \in BOOLEAN
  PROVE  /\ Tuned(v, index, rich, quiet, unskilled) \in [DOMAIN Vocabulary -> Weights]
         /\ Loads(v) => Loads(Tuned(v, index, rich, quiet, unskilled))
<1> DEFINE new == Tuned(v, index, rich, quiet, unskilled)
<1>1. DOMAIN new = DOMAIN Vocabulary /\ new = [leaf \in DOMAIN Vocabulary |-> new[leaf]]
  BY DEF Tuned
<1>2. ASSUME NEW leaf \in DOMAIN Vocabulary
      PROVE  /\ new[leaf] \in Weights
             /\ Total(new[leaf], DOMAIN new[leaf]) = Total(v[leaf], DOMAIN v[leaf])
  <2> DEFINE w == v[leaf]
  <2>1. w \in Weights
    OBVIOUS
  <2> HIDE DEF w
  <2>2. \/ new[leaf] = ShiftWeight(w, "RESEARCH", 5)
        \/ new[leaf] = ShiftWeight(w, "RIFF", 6)
        \/ new[leaf] = ShiftWeight(w, "PRACTICE", 8)
        \/ new[leaf] = w
    BY DEF Tuned, w
  <2> HIDE DEF new
  <2>3. \A t \in {"RESEARCH", "RIFF", "PRACTICE"}, amount \in {5, 6, 8} :
          /\ ShiftWeight(w, t, amount) \in Weights
          /\ Total(ShiftWeight(w, t, amount), DOMAIN ShiftWeight(w, t, amount)) = Total(w, DOMAIN w)
    <3>1. {"RESEARCH", "RIFF", "PRACTICE"} \subseteq Categories
      BY Zenon DEF Categories
    <3>2. {5, 6, 8} \subseteq Nat
      OBVIOUS
    <3>3. QED
      BY <2>1, <3>1, <3>2, ShiftKeepsTotal
  <2>4. /\ new[leaf] \in Weights
        /\ Total(new[leaf], DOMAIN new[leaf]) = Total(w, DOMAIN w)
    BY <2>1, <2>2, <2>3
  <2>5. QED
    BY <2>4 DEF w
<1> HIDE DEF new
<1>3. new \in [DOMAIN Vocabulary -> Weights]
  BY <1>1, <1>2
<1>4. Loads(v) => Loads(new)
  BY <1>2, <1>3, LoadsTotal
<1>5. QED
  BY <1>3, <1>4 DEF new

-----------------------------------------------------------------------------
(* Steps. *)

LEMMA BumpFacts ==
  ASSUME NEW v \in Nat \X Nat \X Nat
  PROVE  Bump(v) \in Nat \X Nat \X Nat /\ Above(Bump(v), v)
<1>1. /\ v = <<v[1], v[2], v[3]>> /\ v[1] \in Nat /\ v[2] \in Nat /\ v[3] \in Nat
  OBVIOUS
<1>2. Bump(v) = <<v[1], v[2], v[3] + 1>>
  BY <1>1 DEF Bump
<1>3. QED
  BY <1>1, <1>2 DEF Above, Gte

LEMMA EndedFacts == \A why : IsLoop(Ended(why)) /\ Ended(why).at = why
  BY DEF Ended, IsLoop

\* The loop with one field replaced.
LEMMA LoopSetAt ==
  ASSUME NEW l, IsLoop(l), NEW x
  PROVE  /\ IsLoop([l EXCEPT !.at = x]) /\ [l EXCEPT !.at = x].at = x
         /\ [l EXCEPT !.at = x].waits = l.waits
  BY DEF IsLoop

LEMMA LoopSetWaits ==
  ASSUME NEW l, IsLoop(l), NEW x
  PROVE  /\ IsLoop([l EXCEPT !.waits = x]) /\ [l EXCEPT !.waits = x].waits = x
         /\ [l EXCEPT !.waits = x].at = l.at
  BY DEF IsLoop

LEMMA LoopSet ==
  ASSUME NEW l, IsLoop(l), NEW x
  PROVE  /\ IsLoop([l EXCEPT !.wave = x]) /\ [l EXCEPT !.wave = x].at = l.at
         /\ IsLoop([l EXCEPT !.index = x]) /\ [l EXCEPT !.index = x].at = l.at
         /\ IsLoop([l EXCEPT !.failures = x]) /\ [l EXCEPT !.failures = x].at = l.at
         /\ IsLoop([l EXCEPT !.ok = x]) /\ [l EXCEPT !.ok = x].at = l.at
         /\ [l EXCEPT !.ok = x].waits = l.waits
  BY DEF IsLoop

\* What the loop learns of a process that exits.
LEMMA ReapedFacts ==
  ASSUME IsLoop(loop), NEW c, NEW own \in BOOLEAN, NEW ok, Reaped(c, own, ok)
  PROVE  /\ IsLoop(loop') /\ loop'.at = loop.at
         /\ \A d : d # c /\ d \in loop.waits => d \in loop'.waits
         /\ ~own => loop' = loop
<1>1. CASE ~own
  BY <1>1 DEF Reaped
<1>2. CASE own
  <2> DEFINE l0 == loop
             l1 == [l0 EXCEPT !.waits = l0.waits \ {c}]
             l2 == [l1 EXCEPT !.ok = l0.ok \/ ok]
  <2>1. loop' = l2
    BY <1>2, Zenon DEF Reaped
  <2>2. IsLoop(l0)
    OBVIOUS
  <2> HIDE DEF l0
  <2>3. IsLoop(l1) /\ l1.at = l0.at /\ l1.waits = l0.waits \ {c}
    BY <2>2, LoopSetWaits
  <2> HIDE DEF l1
  <2>4. IsLoop(l2) /\ l2.at = l1.at /\ l2.waits = l1.waits
    BY <2>3, LoopSet
  <2> HIDE DEF l2
  <2>5. QED
    BY <1>2, <2>1, <2>3, <2>4 DEF l0
<1>3. QED
  BY <1>1, <1>2

LEMMA NoneStarted ==
  /\ NoRun \in RunState /\ NoRun.at = "idle" /\ ~NoRun.own
  /\ NoProcess \in StartState /\ NoProcess.at = "idle" /\ ~NoProcess.own
  /\ [NoProcess EXCEPT !.at = "load", !.own = TRUE] \in StartState
  /\ [NoProcess EXCEPT !.at = "load", !.own = TRUE].at = "load"
  BY DEF NoRun, RunState, NoProcess, StartState

\* The fields of a process, and one that lost its loop.
LEMMA StartFields ==
  ASSUME NEW s \in StartState
  PROVE  /\ s = [at |-> s.at, own |-> s.own, copy |-> s.copy]
         /\ s.own \in BOOLEAN
         /\ [s EXCEPT !.own = FALSE] \in StartState /\ ~[s EXCEPT !.own = FALSE].own
         /\ [s EXCEPT !.own = FALSE].at = s.at /\ [s EXCEPT !.own = FALSE].copy = s.copy
  BY DEF StartState

LEMMA RunFields ==
  ASSUME NEW r \in RunState
  PROVE  /\ r = [at |-> r.at, own |-> r.own, copy |-> r.copy, used |-> r.used]
         /\ r.own \in BOOLEAN /\ r.copy \in Config \cup {None} /\ r.used \in Vocabularies \cup {None}
         /\ [r EXCEPT !.own = FALSE] \in RunState /\ ~[r EXCEPT !.own = FALSE].own
         /\ [r EXCEPT !.own = FALSE].at = r.at /\ [r EXCEPT !.own = FALSE].copy = r.copy
  BY DEF RunState

\* A step of a process of c leaves those of the others as they are.
Beside(c) ==
  /\ IsLoop(loop') /\ loop'.at = loop.at
  /\ starting' \in [Configs -> StartState] /\ run' \in [Configs -> RunState]
  /\ \A d \in Configs \ {c} : /\ starting'[d] = starting[d] /\ run'[d] = run[d]
                              /\ d \in loop.waits => d \in loop'.waits

LEMMA QuitFacts ==
  ASSUME TypeInv, NEW c \in Configs, Quit(c), UNCHANGED run
  PROVE  /\ Beside(c) /\ starting'[c] = NoProcess
         /\ starting[c].own \/ loop' = loop
<1>1. /\ IsLoop(loop) /\ starting \in [Configs -> StartState] /\ run \in [Configs -> RunState]
      /\ starting' = [starting EXCEPT ![c] = NoProcess] /\ Reaped(c, starting[c].own, FALSE)
  BY DEF TypeInv, Quit
<1>2. starting[c].own \in BOOLEAN
  BY <1>1, StartFields
<1>3. /\ IsLoop(loop') /\ loop'.at = loop.at /\ (~starting[c].own => loop' = loop)
      /\ \A d : d # c /\ d \in loop.waits => d \in loop'.waits
  BY <1>1, <1>2, ReapedFacts
<1>4. QED
  BY <1>1, <1>3, NoneStarted DEF Beside

LEMMA ExitFacts ==
  ASSUME TypeInv, NEW c \in Configs, NEW ok, Exit(c, ok), UNCHANGED starting
  PROVE  /\ Beside(c) /\ run'[c] = NoRun
         /\ run[c].own \/ loop' = loop
<1>1. /\ IsLoop(loop) /\ starting \in [Configs -> StartState] /\ run \in [Configs -> RunState]
      /\ run' = [run EXCEPT ![c] = NoRun] /\ Reaped(c, run[c].own, ok)
  BY DEF TypeInv, Exit
<1>2. run[c].own \in BOOLEAN
  BY <1>1, RunFields
<1>3. /\ IsLoop(loop') /\ loop'.at = loop.at /\ (~run[c].own => loop' = loop)
      /\ \A d : d # c /\ d \in loop.waits => d \in loop'.waits
  BY <1>1, <1>2, ReapedFacts
<1>4. QED
  BY <1>1, <1>3, NoneStarted DEF Beside

\* After a step of the loop it waits only for the processes of a wave it has
\* just started, if any, and no process has read or told anything.
LEMMA LoopFacts ==
  ASSUME TypeInv, OwnInv, LoopStep
  PROVE  /\ IsLoop(loop')
         /\ starting' \in [Configs -> StartState] /\ run' \in [Configs -> RunState]
         /\ UNCHANGED <<conf, tool, told, cut, crossed>>
         /\ (vocab' = vocab /\ fixed' = fixed) \/ fixed' = {}
         /\ vocab' \in Vocabularies
         /\ TunedLoads => TunedLoads'
         /\ \A c \in Configs : /\ ~run'[c].own /\ run'[c].at = run[c].at /\ run'[c].copy = run[c].copy
                               /\ starting'[c].at = "lock" => /\ starting[c].at = "lock"
                                                              /\ starting'[c].copy = starting[c].copy
                               /\ starting'[c].own => /\ loop'.at = "wave" /\ c \in loop'.waits
                                                      /\ starting'[c].at = "load"
<1>1. /\ run \in [Configs -> RunState] /\ starting \in [Configs -> StartState]
      /\ IsLoop(loop) /\ vocab \in Vocabularies
  BY DEF TypeInv
<1>2. ~LoopAt("wave") => \A c \in Configs : ~run[c].own /\ ~starting[c].own
  BY DEF OwnInv, LoopAt
<1>3. CASE StartLoop
  <2>1. loop' = Ended("top") /\ UNCHANGED <<starting, run, vocab, conf, tool, ghosts>> /\ loop.at \in Stopped
    BY <1>3 DEF StartLoop
  <2>2. IsLoop(loop')
    BY <2>1, EndedFacts
  <2>3. ~LoopAt("wave")
    BY <2>1 DEF Stopped, LoopAt
  <2>4. QED
    BY <1>1, <1>2, <2>1, <2>2, <2>3 DEF ghosts, TunedLoads
<1>4. CASE Wave
  <2>1. LoopAt("top") /\ UNCHANGED <<vocab, conf, run, tool, ghosts>>
    BY <1>4 DEF Wave
  <2>2. \A c \in Configs : ~run[c].own /\ ~starting[c].own
    BY <1>2, <2>1 DEF LoopAt
  <2> DEFINE Started(starts) ==
               /\ loop' = [loop EXCEPT !.at = "wave", !.wave = @ + 1, !.waits = starts, !.ok = FALSE]
               /\ starting' = [c \in Configs |-> IF c \in starts
                                                 THEN [NoProcess EXCEPT !.at = "load", !.own = TRUE]
                                                 ELSE starting[c]]
  <2>3. CASE UNCHANGED starting /\ \E why \in {"crashed", "done", "max waves"} : loop' = Ended(why)
    <3>1. IsLoop(loop')
      BY <2>3, EndedFacts
    <3>2. QED
      BY <1>1, <2>1, <2>2, <2>3, <3>1 DEF ghosts, TunedLoads
  <2>4. CASE \E starts \in SUBSET Configs : Started(starts)
    <3>1. PICK starts \in SUBSET Configs : Started(starts)
      BY <2>4
    <3>2. IsLoop(loop') /\ loop'.at = "wave" /\ loop'.waits = starts
      <4> DEFINE l0 == loop
                 l1 == [l0 EXCEPT !.at = "wave"]
                 l2 == [l1 EXCEPT !.wave = l0.wave + 1]
                 l3 == [l2 EXCEPT !.waits = starts]
                 l4 == [l3 EXCEPT !.ok = FALSE]
      <4>1. loop' = l4
        BY <3>1, Zenon
      <4>2. IsLoop(l0)
        BY <1>1
      <4> HIDE DEF l0
      <4>3. IsLoop(l1) /\ l1.at = "wave"
        BY <4>2, LoopSetAt
      <4> HIDE DEF l1
      <4>4. IsLoop(l2) /\ l2.at = l1.at
        BY <4>3, LoopSet
      <4> HIDE DEF l2
      <4>5. IsLoop(l3) /\ l3.at = l2.at /\ l3.waits = starts
        BY <4>4, LoopSetWaits
      <4> HIDE DEF l3
      <4>6. IsLoop(l4) /\ l4.at = l3.at /\ l4.waits = l3.waits
        BY <4>5, LoopSet
      <4> HIDE DEF l4
      <4>7. QED
        BY <4>1, <4>3, <4>4, <4>5, <4>6
    <3>3. \A c \in Configs : starting'[c] = IF c \in starts
                                             THEN [NoProcess EXCEPT !.at = "load", !.own = TRUE]
                                             ELSE starting[c]
      BY <3>1
    <3>4. starting' \in [Configs -> StartState]
      BY <1>1, <3>1, NoneStarted
    <3>5. \A c \in Configs : /\ starting'[c].at = "lock" => starting'[c] = starting[c]
                             /\ starting'[c].own => c \in starts /\ starting'[c].at = "load"
      BY <2>2, <3>3, NoneStarted
    <3> HIDE DEF Started
    <3>6. QED
      BY <1>1, <2>1, <2>2, <3>2, <3>4, <3>5 DEF ghosts, TunedLoads
  <2>5. (UNCHANGED starting /\ \E why \in {"crashed", "done", "max waves"} : loop' = Ended(why))
        \/ \E starts \in SUBSET Configs : Started(starts)
    BY <1>4, Zenon DEF Wave
  <2>6. QED
    BY <2>3, <2>4, <2>5
<1>5. CASE WaveEnds
  <2>1. LoopAt("wave") /\ loop.waits = {} /\ UNCHANGED <<starting, run, vocab, conf, tool, ghosts>>
    BY <1>5 DEF WaveEnds
  <2>2. \A c \in Configs : ~run[c].own /\ ~starting[c].own
    BY <2>1 DEF OwnInv
  <2>3. IsLoop(loop')
    <3> DEFINE l0 == loop
               l1 == [l0 EXCEPT !.failures = IF loop.ok THEN 0 ELSE loop.failures + 1]
               l2 == [l1 EXCEPT !.at = IF loop.wave % CheckpointWaves = 0 THEN "checkpoint" ELSE "top"]
    <3>1. loop' = Ended("aborted") \/ loop' = l2
      BY <1>5, Zenon DEF WaveEnds
    <3>2. IsLoop(l0)
      BY <1>1
    <3> HIDE DEF l0
    <3>3. IsLoop(l1)
      BY <3>2, LoopSet
    <3> HIDE DEF l1
    <3>4. IsLoop(l2)
      BY <3>3, LoopSetAt
    <3> HIDE DEF l2
    <3>5. QED
      BY <3>1, <3>4, EndedFacts
  <2>4. QED
    BY <1>1, <2>1, <2>2, <2>3 DEF ghosts, TunedLoads
<1>6. CASE Tune
  <2>1. /\ LoopAt("checkpoint") /\ vocab # Torn /\ UNCHANGED <<starting, run, conf, tool, told, cut, crossed>>
        /\ loop' = [loop EXCEPT !.at = "top", !.index = @ + 1]
        /\ fixed' = IF vocab' = vocab THEN fixed ELSE {}
    BY <1>6 DEF Tune
  <2>2. PICK rich \in BOOLEAN, quiet \in BOOLEAN, unskilled \in BOOLEAN :
          vocab' = Tuned(vocab, loop.index + 1, rich, quiet, unskilled)
    BY <1>6 DEF Tune
  <2>3. vocab \in [DOMAIN Vocabulary -> Weights]
    BY <1>1, <2>1 DEF Vocabularies
  <2>4. vocab' \in [DOMAIN Vocabulary -> Weights] /\ (Loads(vocab) => Loads(vocab'))
    <3> DEFINE v == vocab
               n == loop.index + 1
    <3>1. v \in [DOMAIN Vocabulary -> Weights] /\ vocab' = Tuned(v, n, rich, quiet, unskilled)
      BY <2>2, <2>3
    <3>2. Tuned(v, n, rich, quiet, unskilled) \in [DOMAIN Vocabulary -> Weights]
          /\ (Loads(v) => Loads(Tuned(v, n, rich, quiet, unskilled)))
      BY <2>3, TunedKeepsLoads
    <3> HIDE DEF n
    <3>3. QED
      BY <3>1, <3>2
  <2>5. IsLoop(loop')
    <3> DEFINE l0 == loop
               l1 == [l0 EXCEPT !.at = "top"]
               l2 == [l1 EXCEPT !.index = l0.index + 1]
    <3>1. loop' = l2
      BY <2>1, Zenon
    <3>2. IsLoop(l0)
      BY <1>1
    <3> HIDE DEF l0
    <3>3. IsLoop(l1)
      BY <3>2, LoopSetAt
    <3> HIDE DEF l1
    <3>4. IsLoop(l2)
      BY <3>3, LoopSet
    <3> HIDE DEF l2
    <3>5. QED
      BY <3>1, <3>4
  <2>6. \A c \in Configs : ~run[c].own /\ ~starting[c].own
    BY <1>2, <2>1 DEF LoopAt
  <2>7. TunedLoads => TunedLoads'
    BY <2>1, <2>4 DEF TunedLoads
  <2>8. QED
    BY <1>1, <2>1, <2>4, <2>5, <2>6, <2>7 DEF Vocabularies
<1>7. CASE TuneFails
  <2>1. LoopAt("checkpoint") /\ loop' = Ended("crashed")
        /\ UNCHANGED <<vocab, conf, starting, run, tool, told, cut, fixed, crossed>>
    BY <1>7 DEF TuneFails
  <2>2. IsLoop(loop') /\ ~LoopAt("wave")
    BY <2>1, EndedFacts DEF LoopAt
  <2>3. QED
    BY <1>1, <1>2, <2>1, <2>2 DEF TunedLoads
<1>8. CASE KillLoop
  <2>1. /\ loop' = Ended("crashed") /\ UNCHANGED <<conf, tool, told, cut, crossed>>
        /\ starting' = [c \in Configs |-> [starting[c] EXCEPT !.own = FALSE]]
        /\ run' = [c \in Configs |-> [run[c] EXCEPT !.own = FALSE]]
        /\ UNCHANGED <<vocab, fixed>> \/ (vocab' = Torn /\ fixed' = {})
    BY <1>8 DEF KillLoop
  <2>2. IsLoop(loop')
    BY <2>1, EndedFacts
  <2>3. ASSUME NEW c \in Configs
        PROVE  /\ run'[c] \in RunState /\ ~run'[c].own
               /\ run'[c].at = run[c].at /\ run'[c].copy = run[c].copy
    <3> DEFINE r == run[c]
    <3>1. run'[c] = [r EXCEPT !.own = FALSE] /\ r \in RunState
      BY <1>1, <2>1
    <3> HIDE DEF r
    <3>2. /\ run'[c] \in RunState /\ ~run'[c].own
          /\ run'[c].at = r.at /\ run'[c].copy = r.copy
      BY <3>1, RunFields
    <3>3. QED
      BY <3>2 DEF r
  <2>4. ASSUME NEW c \in Configs
        PROVE  /\ starting'[c] \in StartState /\ ~starting'[c].own
               /\ starting'[c].at = starting[c].at /\ starting'[c].copy = starting[c].copy
    <3> DEFINE p == starting[c]
    <3>1. starting'[c] = [p EXCEPT !.own = FALSE] /\ p \in StartState
      BY <1>1, <2>1
    <3> HIDE DEF p
    <3>2. /\ starting'[c] \in StartState /\ ~starting'[c].own
          /\ starting'[c].at = p.at /\ starting'[c].copy = p.copy
      BY <3>1, StartFields
    <3>3. QED
      BY <3>2 DEF p
  <2>5. run' \in [Configs -> RunState] /\ starting' \in [Configs -> StartState]
    <3>1. run' = [c \in Configs |-> run'[c]] /\ starting' = [c \in Configs |-> starting'[c]]
      BY <2>1, Zenon
    <3>2. QED
      BY <2>3, <2>4, <3>1
  <2>6. vocab' \in Vocabularies /\ (TunedLoads => TunedLoads')
    BY <1>1, <2>1 DEF Vocabularies, TunedLoads
  <2>7. QED
    BY <2>1, <2>2, <2>3, <2>4, <2>5, <2>6
<1>9. QED
  BY <1>3, <1>4, <1>5, <1>6, <1>7, <1>8 DEF LoopStep

\* A config with its hash filled in or corrected.
LEMMA HashSet ==
  ASSUME NEW k \in Config, NEW h \in Hashes
  PROVE  /\ [k EXCEPT !.hash = h] \in Config /\ [k EXCEPT !.hash = h].hash = h
         /\ [k EXCEPT !.hash = h].version = k.version
         /\ k.hash \in Hashes /\ k.version \in Version
  BY DEF Config, Version

\* A process that read its config holds a copy with the present hash.
LEMMA LoadFacts ==
  ASSUME TypeInv, NEW c \in Configs, Load(c)
  PROVE  /\ UNCHANGED <<vocab, conf, run, tool, ghosts>>
         /\ \/ Quit(c)
            \/ /\ UNCHANGED loop /\ Beside(c) /\ conf[c] \in Config
               /\ starting'[c].at = "lock" /\ starting'[c].own = starting[c].own
               /\ starting'[c].copy \in Config /\ starting'[c].copy.hash = vocab
               /\ starting'[c].copy.version = conf[c].version
<1>1. UNCHANGED <<vocab, conf, run, tool, ghosts>>
  BY DEF Load
<1>2. CASE Refused(c)
  BY <1>1, <1>2 DEF Load
<1>3. CASE ~Refused(c)
  <2> DEFINE k == [conf[c] EXCEPT !.hash = IF @ = None THEN vocab ELSE @]
             p == [at |-> "lock", own |-> starting[c].own, copy |-> k]
  <2>1. UNCHANGED loop /\ starting' = [starting EXCEPT ![c].at = "lock", ![c].copy = k]
    BY <1>3, Zenon DEF Load
  <2>2. conf[c] \in Config /\ conf[c].hash \in {None, vocab} /\ vocab \in Hashes
    BY <1>3 DEF Refused, TypeInv, Vocabularies, Hashes
  <2>3. k \in Config /\ k.hash = vocab /\ k.version = conf[c].version
    <3> DEFINE h == IF conf[c].hash = None THEN vocab ELSE conf[c].hash
    <3>1. h = vocab /\ k = [conf[c] EXCEPT !.hash = h]
      BY <2>2
    <3>2. h \in Hashes
      BY <2>2, <3>1
    <3> HIDE DEF h, k
    <3>3. QED
      BY <2>2, <3>1, <3>2, HashSet
  <2> HIDE DEF k
  <2>4. starting \in [Configs -> StartState] /\ run \in [Configs -> RunState] /\ IsLoop(loop)
    BY DEF TypeInv
  <2>5. starting[c] = [at |-> starting[c].at, own |-> starting[c].own, copy |-> starting[c].copy]
        /\ starting[c].own \in BOOLEAN
    BY <2>4, StartFields
  <2>6. starting' = [starting EXCEPT ![c] = p]
    <3>1. [[starting[c] EXCEPT !.at = "lock"] EXCEPT !.copy = k] = p
      <4> DEFINE s1 == [starting[c] EXCEPT !.at = "lock"]
      <4>1. s1 = [at |-> "lock", own |-> starting[c].own, copy |-> starting[c].copy]
        BY <2>5
      <4> HIDE DEF s1
      <4>2. [s1 EXCEPT !.copy = k] = p
        BY <4>1
      <4>3. QED
        BY <4>2 DEF s1
    <3>2. starting' = [starting EXCEPT ![c] = [[starting[c] EXCEPT !.at = "lock"] EXCEPT !.copy = k]]
      BY <2>1, <2>4
    <3> HIDE DEF p
    <3>3. QED
      BY <3>1, <3>2
  <2>7. p \in StartState /\ p.at = "lock" /\ p.own = starting[c].own /\ p.copy = k
    BY <2>3, <2>5 DEF StartState
  <2> HIDE DEF p
  <2>8. QED
    BY <1>1, <2>1, <2>2, <2>3, <2>4, <2>6, <2>7 DEF Beside
<1>4. QED
  BY <1>2, <1>3

\* A process that gets the run lock becomes the run of its config.
LEMMA LockFacts ==
  ASSUME TypeInv, NEW c \in Configs, Lock(c)
  PROVE  /\ UNCHANGED <<vocab, conf, tool, ghosts>>
         /\ \/ Quit(c) /\ UNCHANGED run
            \/ /\ UNCHANGED loop /\ Beside(c) /\ starting[c].at = "lock" /\ run[c].at = "idle"
               /\ starting'[c] = NoProcess
               /\ run'[c].at = "start" /\ run'[c].own = starting[c].own
               /\ run'[c].copy = starting[c].copy /\ run'[c].copy \in Config
<1>1. UNCHANGED <<vocab, conf, tool, ghosts>> /\ starting[c].at = "lock"
  BY DEF Lock
<1>2. CASE ~RunAt(c, "idle")
  BY <1>1, <1>2 DEF Lock
<1>3. CASE RunAt(c, "idle")
  <2> DEFINE r == [at |-> "start", own |-> starting[c].own, copy |-> starting[c].copy, used |-> None]
  <2>1. /\ UNCHANGED loop /\ run' = [run EXCEPT ![c] = r] /\ run[c].at = "idle"
        /\ starting' = [starting EXCEPT ![c] = NoProcess]
    BY <1>3, Zenon DEF Lock, RunAt
  <2>2. /\ starting \in [Configs -> StartState] /\ run \in [Configs -> RunState] /\ IsLoop(loop)
        /\ starting[c].copy \in Config
    BY <1>1 DEF TypeInv
  <2>3. starting[c].own \in BOOLEAN
    BY <2>2, StartFields
  <2>4. r \in RunState /\ r.at = "start" /\ r.own = starting[c].own /\ r.copy = starting[c].copy
    BY <2>2, <2>3 DEF RunState
  <2> HIDE DEF r
  <2>5. QED
    BY <1>1, <2>1, <2>2, <2>4, NoneStarted DEF Beside
<1>4. QED
  BY <1>2, <1>3

\* A run that goes on to its next step.
LEMMA StepOn ==
  ASSUME TypeInv, NEW c \in Configs, NEW step \in {"decide", "close", "write"},
         run' = [run EXCEPT ![c].at = step], UNCHANGED <<loop, starting>>
  PROVE  /\ Beside(c) /\ run'[c].at = step /\ run'[c].own = run[c].own
         /\ run'[c].copy = run[c].copy /\ run'[c].used = run[c].used
<1> DEFINE r == [at |-> step, own |-> run[c].own, copy |-> run[c].copy, used |-> run[c].used]
<1>1. starting \in [Configs -> StartState] /\ run \in [Configs -> RunState] /\ IsLoop(loop)
  BY DEF TypeInv
<1>2. /\ run[c] = [at |-> run[c].at, own |-> run[c].own, copy |-> run[c].copy, used |-> run[c].used]
      /\ run[c].own \in BOOLEAN /\ run[c].copy \in Config \cup {None}
      /\ run[c].used \in Vocabularies \cup {None}
  BY <1>1, RunFields
<1>3. run' = [run EXCEPT ![c] = r]
  <2>1. [run[c] EXCEPT !.at = step] = r
    BY <1>2
  <2>2. run' = [run EXCEPT ![c] = [run[c] EXCEPT !.at = step]]
    BY <1>1
  <2> HIDE DEF r
  <2>3. QED
    BY <2>1, <2>2
<1>4. /\ r \in RunState /\ r.at = step /\ r.own = run[c].own /\ r.copy = run[c].copy
      /\ r.used = run[c].used
  BY <1>2 DEF RunState
<1> HIDE DEF r
<1>5. QED
  BY <1>1, <1>3, <1>4 DEF Beside

LEMMA UseFacts ==
  ASSUME TypeInv, NEW c \in Configs, Use(c)
  PROVE  /\ run[c].at = "start" /\ UNCHANGED <<vocab, conf, starting, tool, ghosts>>
         /\ \/ Exit(c, FALSE)
            \/ /\ UNCHANGED loop /\ Beside(c)
               /\ run'[c].at = "decide" /\ run'[c].own = run[c].own
               /\ run'[c].copy = run[c].copy /\ run'[c].used = vocab
<1>1. run[c].at = "start" /\ UNCHANGED <<vocab, conf, starting, tool, ghosts>>
  BY DEF Use, RunAt
<1>2. CASE Exit(c, FALSE)
  BY <1>1, <1>2
<1>3. CASE ~Exit(c, FALSE)
  <2> DEFINE r == [at |-> "decide", own |-> run[c].own, copy |-> run[c].copy, used |-> vocab]
  <2>1. UNCHANGED loop /\ run' = [run EXCEPT ![c].at = "decide", ![c].used = vocab]
    BY <1>3, Zenon DEF Use
  <2>2. /\ starting \in [Configs -> StartState] /\ run \in [Configs -> RunState] /\ IsLoop(loop)
        /\ vocab \in Vocabularies
    BY DEF TypeInv
  <2>3. /\ run[c] = [at |-> run[c].at, own |-> run[c].own, copy |-> run[c].copy, used |-> run[c].used]
        /\ run[c].own \in BOOLEAN /\ run[c].copy \in Config \cup {None}
    BY <2>2, RunFields
  <2>4. run' = [run EXCEPT ![c] = r]
    <3>1. [[run[c] EXCEPT !.at = "decide"] EXCEPT !.used = vocab] = r
      <4> DEFINE r1 == [run[c] EXCEPT !.at = "decide"]
      <4>1. r1 = [at |-> "decide", own |-> run[c].own, copy |-> run[c].copy, used |-> run[c].used]
        BY <2>3
      <4> HIDE DEF r1
      <4>2. [r1 EXCEPT !.used = vocab] = r
        BY <4>1
      <4>3. QED
        BY <4>2 DEF r1
    <3>2. run' = [run EXCEPT ![c] = [[run[c] EXCEPT !.at = "decide"] EXCEPT !.used = vocab]]
      BY <2>1, <2>2
    <3> HIDE DEF r
    <3>3. QED
      BY <3>1, <3>2
  <2>5. /\ r \in RunState /\ r.at = "decide" /\ r.own = run[c].own /\ r.copy = run[c].copy
        /\ r.used = vocab
    BY <2>2, <2>3 DEF RunState
  <2> HIDE DEF r
  <2>6. QED
    BY <1>1, <2>1, <2>2, <2>4, <2>5 DEF Beside
<1>4. QED
  BY <1>2, <1>3

LEMMA CompleteFacts ==
  ASSUME TypeInv, NEW c \in Configs, Complete(c)
  PROVE  /\ UNCHANGED <<vocab, conf, loop, starting, tool, fixed, crossed>> /\ Beside(c)
         /\ told' = [told EXCEPT ![c] = run[c].copy.version]
         /\ cut' = cut \ {c}
         /\ run[c].at = "decide" /\ run'[c].at = "close"
         /\ run'[c].own = run[c].own /\ run'[c].copy = run[c].copy
<1>1. /\ run' = [run EXCEPT ![c].at = "close"] /\ run[c].at = "decide"
      /\ UNCHANGED <<vocab, conf, loop, starting, tool, fixed, crossed>>
      /\ told' = [told EXCEPT ![c] = run[c].copy.version]
      /\ cut' = cut \ {c}
  BY DEF Complete, RunAt
<1>2. QED
  BY <1>1, StepOn

LEMMA TruncateFacts ==
  ASSUME TypeInv, NEW c \in Configs, Truncate(c)
  PROVE  /\ UNCHANGED <<vocab, loop, starting, tool, told, cut, fixed>> /\ Beside(c)
         /\ conf' = [conf EXCEPT ![c] = Torn]
         /\ crossed \subseteq crossed'
         /\ c \notin crossed' => tool[c] = None /\ starting[c].at # "lock"
         /\ run[c].at = "close" /\ run'[c].at = "write"
         /\ run'[c].own = run[c].own /\ run'[c].copy = run[c].copy
<1>1. /\ run' = [run EXCEPT ![c].at = "write"] /\ run[c].at = "close"
      /\ UNCHANGED <<vocab, loop, starting, tool, told, cut, fixed>>
      /\ conf' = [conf EXCEPT ![c] = Torn]
      /\ crossed' = IF tool[c] # None \/ starting[c].at = "lock" THEN crossed \cup {c} ELSE crossed
  BY DEF Truncate, RunAt
<1>2. QED
  BY <1>1, StepOn

LEMMA WriteBackFacts ==
  ASSUME TypeInv, NEW c \in Configs, WriteBack(c)
  PROVE  /\ run[c].at = "write" /\ UNCHANGED <<vocab, starting, tool, told, cut, crossed>>
         /\ Exit(c, TRUE)
         /\ \E k \in Config :
              /\ conf' = [conf EXCEPT ![c] = k] /\ k.hash = run[c].copy.hash
              /\ k.version = Bump(run[c].copy.version)
              /\ fixed' = IF k.hash = vocab THEN fixed \cup {c} ELSE fixed
<1> DEFINE j == run[c].copy
           k == [j EXCEPT !.version = Bump(@)]
<1>1. run[c].at = "write" /\ j \in Config
  BY DEF WriteBack, RunAt, TypeInv
<1>2. k \in Config /\ k.hash = j.hash /\ k.version = Bump(j.version)
  <2>1. Bump(j.version) \in Version
    BY <1>1, BumpFacts DEF Config, Version
  <2> HIDE DEF j
  <2>2. QED
    BY <1>1, <2>1 DEF Config, Version
<1> HIDE DEF k
<1>3. /\ conf' = [conf EXCEPT ![c] = k]
      /\ fixed' = IF j.hash = vocab THEN fixed \cup {c} ELSE fixed
  BY DEF WriteBack, k
<1>4. QED
  BY <1>1, <1>2, <1>3 DEF WriteBack

LEMMA FailFacts ==
  ASSUME TypeInv, NEW c \in Configs, Fail(c)
  PROVE  /\ UNCHANGED <<vocab, conf, starting, tool, told, fixed, crossed>>
         /\ \E ok \in BOOLEAN : Exit(c, ok)
         /\ cut' = IF run[c].at = "close" THEN cut \cup {c} ELSE cut
  BY DEF Fail, RunAt

\* The tool reads a config, truncates it or writes what it made of it.
LEMMA ToolFacts ==
  ASSUME TypeInv, NEW c \in Configs, ToolStep(c)
  PROVE  /\ UNCHANGED <<vocab, loop, starting, run, told, cut>>
         /\ conf' \in [Configs -> Config \cup {Torn}] /\ tool' \in [Configs -> ToolState \cup {None}]
         /\ \A d \in Configs \ {c} : conf'[d] = conf[d] /\ tool'[d] = tool[d]
         /\ crossed \subseteq crossed'
         /\ fixed' = fixed \/ (fixed' = fixed \cup {c} /\ conf'[c] # Torn /\ conf'[c].hash = vocab)
         /\ \/ UNCHANGED <<conf, fixed>> /\ UNCHANGED tool
            \/ /\ conf[c] # Torn /\ UNCHANGED <<conf, fixed>> /\ tool'[c] # None
               /\ tool'[c].new.version = conf[c].version /\ tool'[c].new.hash = vocab
            \/ /\ conf'[c] = Torn /\ tool[c] # None /\ UNCHANGED fixed
               /\ tool'[c].new = tool[c].new
            \/ /\ tool[c] # None /\ conf'[c] = tool[c].new /\ conf'[c] # Torn /\ tool'[c] = None
               /\ c \notin crossed' => run[c].at = "idle" /\ starting[c].at # "lock"
<1>0. /\ conf \in [Configs -> Config \cup {Torn}] /\ tool \in [Configs -> ToolState \cup {None}]
      /\ Torn \notin Config
  BY BetaAssumption DEF TypeInv, Config
<1>1. CASE ToolReads(c)
  <2>1. /\ conf[c] # Torn /\ UNCHANGED <<vocab, conf, loop, starting, run, ghosts>>
        /\ tool[c] = None
        /\ \/ UNCHANGED tool
           \/ tool' = [tool EXCEPT ![c] = [new |-> Synced(c), half |-> FALSE]]
    BY <1>1 DEF ToolReads
  <2>2. conf[c] \in Config /\ vocab \in Hashes
    BY <2>1 DEF TypeInv, Vocabularies, Hashes
  <2>3. Synced(c) \in Config /\ Synced(c).version = conf[c].version /\ Synced(c).hash = vocab
    BY <2>2, HashSet DEF Synced
  <2> DEFINE t == [new |-> Synced(c), half |-> FALSE]
  <2>4. t \in ToolState /\ t.new = Synced(c)
    BY <2>3 DEF ToolState
  <2>5. t # None \/ UNCHANGED tool
    <3>1. CASE t = None
      BY <1>0, <2>1, <3>1
    <3>2. QED
      BY <3>1
  <2> HIDE DEF Synced, t
  <2>6. CASE UNCHANGED tool
    BY <1>0, <2>1, <2>6 DEF ghosts
  <2>7. CASE t # None /\ tool' = [tool EXCEPT ![c] = t]
    BY <1>0, <2>1, <2>3, <2>4, <2>7 DEF ghosts
  <2>8. QED
    BY <2>1, <2>5, <2>6, <2>7 DEF t
<1>2. CASE ToolTruncates(c)
  <2>1. /\ tool[c] # None /\ conf' = [conf EXCEPT ![c] = Torn]
        /\ tool' = [tool EXCEPT ![c] = [tool[c] EXCEPT !.half = TRUE]]
        /\ UNCHANGED <<vocab, loop, starting, run, ghosts>>
    BY <1>2 DEF ToolTruncates
  <2> DEFINE t == tool[c]
  <2>2. t \in ToolState
    BY <1>0, <2>1
  <2> HIDE DEF t
  <2>3. [t EXCEPT !.half = TRUE] \in ToolState /\ [t EXCEPT !.half = TRUE].new = t.new
    BY <2>2 DEF ToolState
  <2>4. QED
    BY <1>0, <2>1, <2>3 DEF ghosts, t
<1>3. CASE ToolWrites(c)
  <2>1. /\ tool[c] # None /\ conf' = [conf EXCEPT ![c] = tool[c].new]
        /\ tool' = [tool EXCEPT ![c] = None]
        /\ crossed' = IF run[c].at # "idle" \/ starting[c].at = "lock" THEN crossed \cup {c} ELSE crossed
        /\ fixed' = IF tool[c].new.hash = vocab THEN fixed \cup {c} ELSE fixed
        /\ UNCHANGED <<vocab, loop, starting, run, told, cut>>
    BY <1>3 DEF ToolWrites, RunAt
  <2>2. tool[c].new \in Config
    <3>1. tool[c] \in ToolState
      BY <1>0, <2>1
    <3>2. QED
      BY <3>1 DEF ToolState
  <2>3. QED
    BY <1>0, <2>1, <2>2
<1>4. QED
  BY <1>1, <1>2, <1>3 DEF ToolStep

LEMMA TypeStep == TypeInv /\ OwnInv /\ [Next]_vars => TypeInv'
<1> SUFFICES ASSUME TypeInv, OwnInv, [Next]_vars PROVE TypeInv'
  OBVIOUS
<1>0. /\ vocab \in Vocabularies /\ conf \in [Configs -> Config \cup {Torn}] /\ IsLoop(loop)
      /\ starting \in [Configs -> StartState] /\ run \in [Configs -> RunState]
      /\ \A c \in Configs : starting[c].at = "lock" => starting[c].copy \in Config
      /\ \A c \in Configs : run[c].at # "idle" => run[c].copy \in Config
      /\ tool \in [Configs -> ToolState \cup {None}]
      /\ told = [c \in Configs |-> told[c]]
  BY DEF TypeInv
<1>1. CASE UNCHANGED vars
  BY <1>0, <1>1 DEF vars, ghosts, TypeInv
<1>2. CASE LoopStep
  <2>1. /\ IsLoop(loop') /\ starting' \in [Configs -> StartState] /\ run' \in [Configs -> RunState]
        /\ UNCHANGED <<conf, tool, told>> /\ vocab' \in Vocabularies
        /\ \A c \in Configs : /\ run'[c].at = run[c].at /\ run'[c].copy = run[c].copy
                              /\ starting'[c].at = "lock" => /\ starting[c].at = "lock"
                                                             /\ starting'[c].copy = starting[c].copy
    BY <1>2, LoopFacts
  <2>2. QED
    BY <1>0, <2>1 DEF TypeInv
\* Steps of the processes, which keep the vocabulary and the tool.
<1>3. ASSUME NEW c \in Configs, Beside(c), UNCHANGED <<vocab, tool>>,
             conf' \in [Configs -> Config \cup {Torn}], told' = [d \in Configs |-> told'[d]],
             starting'[c].at = "lock" => starting'[c].copy \in Config,
             run'[c].at # "idle" => run'[c].copy \in Config
      PROVE  TypeInv'
  <2>1. \A d \in Configs : /\ starting'[d].at = "lock" => starting'[d].copy \in Config
                           /\ run'[d].at # "idle" => run'[d].copy \in Config
    BY <1>0, <1>3 DEF Beside
  <2>2. QED
    BY <1>0, <1>3, <2>1 DEF Beside, TypeInv
<1>4. ASSUME NEW c \in Configs, Quit(c), UNCHANGED <<vocab, conf, run, tool, told>> PROVE TypeInv'
  <2>1. Beside(c) /\ starting'[c].at # "lock"
    BY <1>4, QuitFacts, NoneStarted
  <2>2. QED
    BY <1>0, <1>3, <1>4, <2>1
<1>5. ASSUME NEW c \in Configs, NEW ok, Exit(c, ok), UNCHANGED <<vocab, starting, tool, told>>,
             conf' \in [Configs -> Config \cup {Torn}]
      PROVE  TypeInv'
  <2>1. Beside(c) /\ run'[c].at = "idle"
    BY <1>5, ExitFacts, NoneStarted
  <2>2. QED
    BY <1>0, <1>3, <1>5, <2>1
<1>6. ASSUME NEW c \in Configs, Load(c) PROVE TypeInv'
  <2>1. UNCHANGED <<vocab, conf, run, tool, told>>
    BY <1>6, LoadFacts DEF ghosts
  <2>2. CASE Quit(c)
    BY <1>4, <2>1, <2>2
  <2>3. CASE Beside(c) /\ starting'[c].copy \in Config
    BY <1>0, <1>3, <2>1, <2>3
  <2>4. QED
    BY <1>6, <2>2, <2>3, LoadFacts
<1>7. ASSUME NEW c \in Configs, Lock(c) PROVE TypeInv'
  <2>1. UNCHANGED <<vocab, conf, tool, told>>
    BY <1>7, LockFacts DEF ghosts
  <2>2. CASE Quit(c) /\ UNCHANGED run
    BY <1>4, <2>1, <2>2
  <2>3. CASE Beside(c) /\ starting'[c] = NoProcess /\ run'[c].copy \in Config
    BY <1>0, <1>3, <2>1, <2>3, NoneStarted
  <2>4. QED
    BY <1>7, <2>2, <2>3, LockFacts
<1>8. ASSUME NEW c \in Configs, Use(c) PROVE TypeInv'
  <2>1. UNCHANGED <<vocab, conf, starting, tool, told>> /\ run[c].copy \in Config
    BY <1>0, <1>8, UseFacts DEF ghosts
  <2>2. CASE Exit(c, FALSE)
    BY <1>0, <1>5, <2>1, <2>2
  <2>3. CASE Beside(c) /\ run'[c].copy = run[c].copy
    BY <1>0, <1>3, <2>1, <2>3
  <2>4. QED
    BY <1>8, <2>2, <2>3, UseFacts
<1>9. ASSUME NEW c \in Configs, Complete(c) PROVE TypeInv'
  <2>1. /\ Beside(c) /\ UNCHANGED <<vocab, conf, starting, tool>> /\ run'[c].copy \in Config
        /\ told' = [told EXCEPT ![c] = run[c].copy.version]
    BY <1>0, <1>9, CompleteFacts
  <2>2. told' = [d \in Configs |-> told'[d]]
    BY <1>0, <2>1
  <2>3. QED
    BY <1>0, <1>3, <2>1, <2>2
<1>10. ASSUME NEW c \in Configs, Truncate(c) PROVE TypeInv'
  <2>1. /\ Beside(c) /\ UNCHANGED <<vocab, starting, tool, told>> /\ run'[c].copy \in Config
        /\ conf' = [conf EXCEPT ![c] = Torn]
    BY <1>0, <1>10, TruncateFacts
  <2>2. conf' \in [Configs -> Config \cup {Torn}]
    BY <1>0, <2>1
  <2>3. QED
    BY <1>0, <1>3, <2>1, <2>2
<1>11. ASSUME NEW c \in Configs, WriteBack(c) PROVE TypeInv'
  <2>1. PICK k \in Config : conf' = [conf EXCEPT ![c] = k]
    BY <1>11, WriteBackFacts
  <2>2. UNCHANGED <<vocab, starting, tool, told>> /\ Exit(c, TRUE)
    BY <1>11, WriteBackFacts
  <2>3. QED
    BY <1>0, <1>5, <2>1, <2>2
<1>12. ASSUME NEW c \in Configs, Fail(c) PROVE TypeInv'
  <2>1. UNCHANGED <<vocab, conf, starting, tool, told>> /\ \E ok \in BOOLEAN : Exit(c, ok)
    BY <1>12, FailFacts
  <2>2. QED
    BY <1>0, <1>5, <2>1
<1>13. ASSUME NEW c \in Configs, StartFails(c) PROVE TypeInv'
  BY <1>4, <1>13 DEF StartFails
<1>14. ASSUME NEW c \in Configs, ToolStep(c) PROVE TypeInv'
  <2>1. /\ UNCHANGED <<vocab, loop, starting, run, told>>
        /\ conf' \in [Configs -> Config \cup {Torn}] /\ tool' \in [Configs -> ToolState \cup {None}]
    BY <1>14, ToolFacts
  <2>2. QED
    BY <1>0, <2>1 DEF TypeInv
<1>15. QED
  BY <1>1, <1>2, <1>6, <1>7, <1>8, <1>9, <1>10, <1>11, <1>12, <1>13, <1>14
     DEF Next, StartStep, RunStep

LEMMA OwnStep == TypeInv /\ OwnInv /\ [Next]_vars => OwnInv'
<1> SUFFICES ASSUME TypeInv, OwnInv, [Next]_vars PROVE OwnInv'
  OBVIOUS
<1> DEFINE Own(d) ==
      /\ starting[d].own =>
           /\ loop.at = "wave" /\ d \in loop.waits /\ ~run[d].own
           /\ starting[d].at = "lock" => starting[d].copy.hash = vocab
      /\ run[d].own =>
           /\ loop.at = "wave" /\ d \in loop.waits
           /\ run[d].at = "start" => run[d].copy.hash = vocab
           /\ run[d].at = "decide" => run[d].used = run[d].copy.hash
<1>0. \A d \in Configs : Own(d)
  BY DEF OwnInv
<1>1. CASE UNCHANGED vars
  BY <1>1 DEF vars, ghosts, OwnInv
<1>2. CASE LoopStep
  <2>1. \A c \in Configs :
          /\ ~run'[c].own
          /\ starting'[c].own => /\ loop'.at = "wave" /\ c \in loop'.waits /\ starting'[c].at = "load"
    BY <1>2, LoopFacts
  <2>2. QED
    BY <2>1 DEF OwnInv
<1>3. ASSUME NEW c \in Configs, Beside(c), UNCHANGED vocab, Own(c)' PROVE OwnInv'
  <2>1. ASSUME NEW d \in Configs \ {c} PROVE Own(d)'
    BY <1>0, <1>3, <2>1 DEF Beside
  <2> HIDE DEF Own
  <2>2. \A d \in Configs : Own(d)'
    BY <1>3, <2>1
  <2>3. QED
    BY <2>2 DEF OwnInv, Own
<1>4. ASSUME NEW c \in Configs, Quit(c), UNCHANGED <<run, vocab>> PROVE OwnInv'
  <2>1. /\ Beside(c) /\ starting'[c] = NoProcess /\ ~NoProcess.own
        /\ starting[c].own \/ loop' = loop
    BY <1>4, QuitFacts, NoneStarted
  <2>2. Own(c)'
    BY <1>0, <1>4, <2>1
  <2>3. QED
    BY <1>3, <1>4, <2>1, <2>2
<1>5. ASSUME NEW c \in Configs, NEW ok, Exit(c, ok), UNCHANGED <<starting, vocab>> PROVE OwnInv'
  <2>1. /\ Beside(c) /\ run'[c] = NoRun /\ ~NoRun.own /\ loop'.at = loop.at
        /\ run[c].own \/ loop' = loop
    BY <1>5, ExitFacts, NoneStarted DEF Beside
  <2>2. Own(c)'
    BY <1>0, <1>5, <2>1
  <2>3. QED
    BY <1>3, <1>5, <2>1, <2>2
<1>6. ASSUME NEW c \in Configs, Load(c) PROVE OwnInv'
  <2>1. UNCHANGED <<vocab, run>>
    BY <1>6, LoadFacts
  <2>2. CASE Quit(c)
    BY <1>4, <2>1, <2>2
  <2>3. CASE /\ UNCHANGED loop /\ Beside(c)
             /\ starting'[c].own = starting[c].own /\ starting'[c].copy.hash = vocab
    <3>1. Own(c)'
      BY <1>0, <2>1, <2>3
    <3>2. QED
      BY <1>3, <2>1, <2>3, <3>1
  <2>4. QED
    BY <1>6, <2>2, <2>3, LoadFacts
<1>7. ASSUME NEW c \in Configs, Lock(c) PROVE OwnInv'
  <2>1. UNCHANGED vocab
    BY <1>7, LockFacts
  <2>2. CASE Quit(c) /\ UNCHANGED run
    BY <1>4, <2>1, <2>2
  <2>3. CASE /\ UNCHANGED loop /\ Beside(c) /\ starting[c].at = "lock" /\ starting'[c] = NoProcess
             /\ run'[c].at = "start" /\ run'[c].own = starting[c].own
             /\ run'[c].copy = starting[c].copy
    <3>1. Own(c)'
      BY <1>0, <2>1, <2>3, NoneStarted
    <3>2. QED
      BY <1>3, <2>1, <2>3, <3>1
  <2>4. QED
    BY <1>7, <2>2, <2>3, LockFacts
<1>8. ASSUME NEW c \in Configs, Use(c) PROVE OwnInv'
  <2>1. UNCHANGED <<vocab, starting>> /\ run[c].at = "start"
    BY <1>8, UseFacts
  <2>2. CASE Exit(c, FALSE)
    BY <1>5, <2>1, <2>2
  <2>3. CASE /\ UNCHANGED loop /\ Beside(c)
             /\ run'[c].at = "decide" /\ run'[c].own = run[c].own
             /\ run'[c].copy = run[c].copy /\ run'[c].used = vocab
    <3>1. Own(c)'
      BY <1>0, <2>1, <2>3
    <3>2. QED
      BY <1>3, <2>1, <2>3, <3>1
  <2>4. QED
    BY <1>8, <2>2, <2>3, UseFacts
<1>9. ASSUME NEW c \in Configs, Complete(c) \/ Truncate(c) PROVE OwnInv'
  <2>1. /\ UNCHANGED <<vocab, loop, starting>> /\ Beside(c)
        /\ run'[c].at \in {"close", "write"} /\ run'[c].own = run[c].own
    BY <1>9, CompleteFacts, TruncateFacts
  <2>2. Own(c)'
    BY <1>0, <2>1
  <2>3. QED
    BY <1>3, <2>1, <2>2
<1>10. ASSUME NEW c \in Configs, WriteBack(c) PROVE OwnInv'
  BY <1>5, <1>10, WriteBackFacts
<1>11. ASSUME NEW c \in Configs, Fail(c) PROVE OwnInv'
  BY <1>5, <1>11, FailFacts
<1>12. ASSUME NEW c \in Configs, StartFails(c) PROVE OwnInv'
  BY <1>4, <1>12 DEF StartFails
<1>13. ASSUME NEW c \in Configs, ToolStep(c) PROVE OwnInv'
  <2>1. UNCHANGED <<vocab, loop, starting, run>>
    BY <1>13, ToolFacts
  <2>2. QED
    BY <2>1 DEF OwnInv
<1>14. QED
  BY <1>1, <1>2, <1>6, <1>7, <1>8, <1>9, <1>10, <1>11, <1>12, <1>13
     DEF Next, StartStep, RunStep

\* A step that adds no copy of c, and after which its run goes on or is over.
LEMMA KeptSame ==
  ASSUME NEW c \in Configs, Kept(c),
         starting'[c].at = "lock" => starting[c].at = "lock" /\ starting'[c].copy = starting[c].copy,
         \/ run'[c].at = run[c].at /\ run'[c].copy = run[c].copy
         \/ run'[c].at = "idle" /\ (run[c].at = "close" => c \in cut'),
         tool'[c] = tool[c], conf'[c] = conf[c], told'[c] = told[c],
         c \in cut => c \in cut', c \in fixed' => c \in fixed /\ vocab' = vocab
  PROVE  Kept(c)'
<1>1. PICK v \in Version : Agreed(c, v)
  BY DEF Kept
<1>2. Agreed(c, v)'
  BY <1>1 DEF Agreed
<1>3. c \in fixed' => Right(c)'
  BY DEF Kept, Right
<1>4. QED
  BY <1>2, <1>3 DEF Kept

LEMMA KeptStep == TypeInv /\ OwnInv /\ KeptInv /\ [Next]_vars => KeptInv'
<1> SUFFICES ASSUME TypeInv, OwnInv, KeptInv, [Next]_vars PROVE KeptInv'
  OBVIOUS
<1>0. /\ conf \in [Configs -> Config \cup {Torn}] /\ Torn \notin Config
      /\ told = [c \in Configs |-> told[c]]
      /\ \A c \in Configs : starting[c].at = "lock" => starting[c].copy \in Config
      /\ \A c \in Configs : run[c].at # "idle" => run[c].copy \in Config
  BY BetaAssumption DEF TypeInv, Config
<1>1. SUFFICES ASSUME NEW c \in Configs, c \notin crossed' PROVE Kept(c)'
  BY DEF KeptInv
<1>2. crossed \subseteq crossed'
  BY LoopFacts, LoadFacts, LockFacts, UseFacts, CompleteFacts, TruncateFacts, WriteBackFacts,
     FailFacts, ToolFacts
     DEF Next, StartStep, RunStep, StartFails, ghosts, vars
<1>3. Kept(c)
  BY <1>1, <1>2 DEF KeptInv
<1>4. PICK v \in Version : Agreed(c, v)
  BY <1>3 DEF Kept
<1>5. c \in fixed => Right(c)
  BY <1>3 DEF Kept
<1>6. ASSUME UNCHANGED <<conf, tool, told, cut>>,
             starting'[c].at = "lock" => starting[c].at = "lock" /\ starting'[c].copy = starting[c].copy,
             run'[c].at = run[c].at /\ run'[c].copy = run[c].copy,
             c \in fixed' => c \in fixed /\ vocab' = vocab
      PROVE  Kept(c)'
  BY <1>3, <1>6, KeptSame
<1>7. CASE UNCHANGED vars
  BY <1>6, <1>7 DEF vars, ghosts
<1>8. CASE LoopStep
  BY <1>6, <1>8, LoopFacts
<1>9. ASSUME NEW d \in Configs, Quit(d), UNCHANGED <<vocab, conf, run, tool, ghosts>> PROVE Kept(c)'
  <2>1. Beside(d) /\ starting'[d].at # "lock"
    BY <1>9, QuitFacts, NoneStarted
  <2>2. QED
    BY <1>6, <1>9, <2>1 DEF Beside, ghosts
\* A step of the process of another config.
<1>10. ASSUME NEW d \in Configs, d # c, Beside(d), UNCHANGED <<vocab, tool>>,
              conf'[c] = conf[c], told'[c] = told[c], c \in cut => c \in cut', c \in fixed' => c \in fixed
       PROVE  Kept(c)'
  <2>1. starting'[c] = starting[c] /\ run'[c] = run[c] /\ tool'[c] = tool[c]
    BY <1>10 DEF Beside
  <2>2. QED
    BY <1>3, <1>10, <2>1, KeptSame
<1>11. ASSUME NEW d \in Configs, Load(d) PROVE Kept(c)'
  <2>1. UNCHANGED <<vocab, conf, run, tool, ghosts>>
    BY <1>11, LoadFacts
  <2>2. CASE Quit(d)
    BY <1>9, <2>1, <2>2
  <2>3. CASE Beside(d) /\ d # c
    BY <1>10, <2>1, <2>3 DEF ghosts
  <2>4. CASE /\ Beside(c) /\ d = c /\ conf[c] \in Config
             /\ starting'[c].at = "lock" /\ starting'[c].copy.hash = vocab
             /\ starting'[c].copy.version = conf[c].version
    <3>1. starting'[c].copy.version = v /\ conf[c] # Torn
      BY <1>0, <1>4, <2>4 DEF Agreed
    <3>2. run[c].at # "write"
      BY <1>4, <3>1 DEF Agreed
    <3>3. Agreed(c, v)'
      BY <1>4, <2>1, <3>1, <3>2 DEF Agreed, ghosts
    <3>4. c \in fixed' => Right(c)'
      BY <1>5, <2>1, <2>4 DEF Right, ghosts
    <3>5. QED
      BY <3>3, <3>4 DEF Kept
  <2>5. QED
    BY <1>11, <2>2, <2>3, <2>4, LoadFacts
<1>12. ASSUME NEW d \in Configs, Lock(d) PROVE Kept(c)'
  <2>1. UNCHANGED <<vocab, conf, tool, ghosts>>
    BY <1>12, LockFacts
  <2>2. CASE Quit(d) /\ UNCHANGED run
    BY <1>9, <2>1, <2>2
  <2>3. CASE Beside(d) /\ d # c
    BY <1>10, <2>1, <2>3 DEF ghosts
  <2>4. CASE /\ d = c /\ starting[c].at = "lock" /\ run[c].at = "idle" /\ starting'[c] = NoProcess
             /\ run'[c].at = "start" /\ run'[c].copy = starting[c].copy
    <3>1. Agreed(c, v)'
      BY <1>4, <2>1, <2>4, NoneStarted DEF Agreed, ghosts
    <3>2. c \in fixed' => Right(c)'
      BY <1>5, <2>1, <2>4, NoneStarted DEF Right, ghosts
    <3>3. QED
      BY <3>1, <3>2 DEF Kept
  <2>5. QED
    BY <1>12, <2>2, <2>3, <2>4, LockFacts
<1>13. ASSUME NEW d \in Configs, NEW ok, Exit(d, ok), UNCHANGED <<vocab, conf, starting, tool, told, fixed>>,
              c \in cut => c \in cut', run[d].at = "close" => d \in cut'
       PROVE  Kept(c)'
  <2>1. Beside(d) /\ run'[d].at = "idle"
    BY <1>13, ExitFacts, NoneStarted
  <2>2. CASE d # c
    BY <1>10, <1>13, <2>1, <2>2
  <2>3. CASE d = c
    BY <1>3, <1>13, <2>1, <2>3, KeptSame
  <2>4. QED
    BY <2>2, <2>3
<1>14. ASSUME NEW d \in Configs, Use(d) PROVE Kept(c)'
  <2>1. UNCHANGED <<vocab, conf, starting, tool, ghosts>> /\ run[d].at = "start"
    BY <1>14, UseFacts
  <2>2. CASE Exit(d, FALSE)
    BY <1>13, <2>1, <2>2 DEF ghosts
  <2>3. CASE Beside(d) /\ d # c
    BY <1>10, <2>1, <2>3 DEF ghosts
  <2>4. CASE d = c /\ run'[c].at = "decide" /\ run'[c].copy = run[c].copy
    <3>1. Agreed(c, v)'
      BY <1>4, <2>1, <2>4 DEF Agreed, ghosts
    <3>2. c \in fixed' => Right(c)'
      BY <1>5, <2>1, <2>4 DEF Right, ghosts
    <3>3. QED
      BY <3>1, <3>2 DEF Kept
  <2>5. QED
    BY <1>14, <2>2, <2>3, <2>4, UseFacts
<1>15. ASSUME NEW d \in Configs, Complete(d) PROVE Kept(c)'
  <2>1. /\ UNCHANGED <<vocab, conf, starting, tool, fixed>> /\ Beside(d)
        /\ told' = [told EXCEPT ![d] = run[d].copy.version]
        /\ cut' = cut \ {d}
        /\ run[d].at = "decide" /\ run'[d].at = "close" /\ run'[d].copy = run[d].copy
    BY <1>15, CompleteFacts
  <2>2. CASE d # c
    <3>1. told'[c] = told[c] /\ conf'[c] = conf[c] /\ (c \in cut => c \in cut')
      BY <1>0, <2>1, <2>2
    <3>2. QED
      BY <1>10, <2>1, <2>2, <3>1
  <2>3. CASE d = c
    <3>1. told'[c] = v /\ run[c].copy.version = v
      <4>1. run[c].copy.version = v
        BY <1>4, <2>1, <2>3 DEF Agreed
      <4>2. told'[c] = run[c].copy.version
        BY <1>0, <2>1, <2>3
      <4>3. QED
        BY <4>1, <4>2
    <3>2. Gte(v, v)
      BY DEF Gte, Version
    <3>3. Agreed(c, v)'
      BY <1>4, <2>1, <2>3, <3>1, <3>2 DEF Agreed
    <3>4. c \in fixed' => Right(c)'
      BY <1>5, <2>1, <2>3 DEF Right
    <3>5. QED
      BY <3>3, <3>4 DEF Kept
  <2>4. QED
    BY <2>2, <2>3
<1>16. ASSUME NEW d \in Configs, Truncate(d) PROVE Kept(c)'
  <2>1. /\ UNCHANGED <<vocab, starting, tool, told, cut, fixed>> /\ Beside(d)
        /\ conf' = [conf EXCEPT ![d] = Torn]
        /\ d \notin crossed' => tool[d] = None /\ starting[d].at # "lock"
        /\ run[d].at = "close" /\ run'[d].at = "write" /\ run'[d].copy = run[d].copy
    BY <1>16, TruncateFacts
  <2>2. CASE d # c
    <3>1. conf'[c] = conf[c]
      BY <1>0, <2>1, <2>2
    <3>2. QED
      BY <1>10, <2>1, <2>2, <3>1
  <2>3. CASE d = c
    <3> DEFINE u == Bump(v)
    <3>1. u \in Version /\ Above(u, v)
      BY BumpFacts DEF Version
    <3>2. conf'[c] = Torn /\ tool[c] = None /\ starting[c].at # "lock" /\ run[c].copy.version = v
          /\ told[c] = v
      BY <1>0, <1>1, <1>4, <2>1, <2>3 DEF Agreed
    <3>3. u = Bump(run'[c].copy.version)
      BY <2>1, <2>3, <3>2
    <3> HIDE DEF u
    <3>4. Agreed(c, u)'
      BY <2>1, <2>3, <3>1, <3>2, <3>3 DEF Agreed, Above
    <3>5. c \in fixed' => Right(c)'
      BY <1>5, <2>1, <2>3, <3>2 DEF Right
    <3>6. QED
      BY <3>1, <3>4, <3>5 DEF Kept
  <2>4. QED
    BY <2>2, <2>3
<1>17. ASSUME NEW d \in Configs, WriteBack(d) PROVE Kept(c)'
  <2>1. PICK k \in Config : /\ conf' = [conf EXCEPT ![d] = k]
                            /\ k.hash = run[d].copy.hash
                            /\ k.version = Bump(run[d].copy.version)
                            /\ fixed' = IF k.hash = vocab THEN fixed \cup {d} ELSE fixed
    BY <1>17, WriteBackFacts
  <2>2. run[d].at = "write" /\ UNCHANGED <<vocab, starting, tool, told, cut>> /\ Exit(d, TRUE)
    BY <1>17, WriteBackFacts
  <2>3. run'[d].at = "idle" /\ Beside(d)
    BY <2>2, ExitFacts, NoneStarted
  <2>4. CASE d # c
    <3>1. conf'[c] = conf[c] /\ (c \in fixed' => c \in fixed)
      BY <1>0, <2>1, <2>4
    <3>2. QED
      BY <1>10, <2>2, <2>3, <2>4, <3>1
  <2>5. CASE d = c
    <3>1. /\ conf'[c] = k /\ k # Torn /\ tool'[c] = None /\ starting'[c].at # "lock"
          /\ k.version = v
      BY <1>0, <1>4, <2>1, <2>2, <2>5 DEF Agreed
    <3>2. Agreed(c, v)'
      BY <1>4, <2>2, <2>3, <2>5, <3>1 DEF Agreed
    <3>3. c \in fixed' => k.hash = vocab
      BY <1>5, <2>1, <2>2, <2>5 DEF Right
    <3>4. c \in fixed' => Right(c)'
      BY <2>2, <2>3, <2>5, <3>1, <3>3 DEF Right
    <3>5. QED
      BY <3>2, <3>4 DEF Kept
  <2>6. QED
    BY <2>4, <2>5
<1>18. ASSUME NEW d \in Configs, Fail(d) PROVE Kept(c)'
  <2>1. /\ UNCHANGED <<vocab, conf, starting, tool, told, fixed>>
        /\ cut' = IF run[d].at = "close" THEN cut \cup {d} ELSE cut
    BY <1>18, FailFacts
  <2>2. PICK ok \in BOOLEAN : Exit(d, ok)
    BY <1>18, FailFacts
  <2>3. QED
    BY <1>13, <2>1, <2>2
<1>19. ASSUME NEW d \in Configs, StartFails(d) PROVE Kept(c)'
  <2>1. Quit(d) /\ UNCHANGED <<vocab, conf, run, tool, told, cut, fixed>>
    BY <1>19 DEF StartFails
  <2>2. Beside(d) /\ starting'[d].at # "lock"
    BY <2>1, QuitFacts, NoneStarted
  <2>3. QED
    BY <1>6, <2>1, <2>2 DEF Beside
<1>20. ASSUME NEW d \in Configs, ToolStep(d) PROVE Kept(c)'
  <2>1. UNCHANGED <<vocab, loop, starting, run, told, cut>>
    BY <1>20, ToolFacts
  <2>2. CASE d # c
    <3>1. conf'[c] = conf[c] /\ tool'[c] = tool[c] /\ (c \in fixed' => c \in fixed)
      BY <1>20, <2>2, ToolFacts
    <3>2. QED
      BY <1>3, <2>1, <3>1, KeptSame
  <2>3. CASE UNCHANGED <<conf, fixed>> /\ UNCHANGED tool
    BY <1>6, <2>1, <2>3
  <2>4. CASE /\ d = c /\ conf[c] # Torn /\ UNCHANGED <<conf, fixed>> /\ tool'[c] # None
             /\ tool'[c].new.version = conf[c].version /\ tool'[c].new.hash = vocab
    <3>1. run[c].at # "write" /\ conf[c].version = v
      BY <1>4, <2>4 DEF Agreed
    <3>2. Agreed(c, v)'
      BY <1>4, <2>1, <2>4, <3>1 DEF Agreed
    <3>3. c \in fixed' => Right(c)'
      BY <1>5, <2>1, <2>4 DEF Right
    <3>4. QED
      BY <3>2, <3>3 DEF Kept
  <2>5. CASE /\ d = c /\ conf'[c] = Torn /\ tool[c] # None /\ UNCHANGED fixed
             /\ tool'[c].new = tool[c].new
    <3>1. Agreed(c, v)'
      BY <1>4, <2>1, <2>5 DEF Agreed
    <3>2. c \in fixed' => Right(c)'
      BY <1>5, <2>1, <2>5 DEF Right
    <3>3. QED
      BY <3>1, <3>2 DEF Kept
  <2>6. CASE /\ d = c /\ tool[c] # None /\ conf'[c] = tool[c].new /\ conf'[c] # Torn /\ tool'[c] = None
             /\ run[c].at = "idle" /\ starting[c].at # "lock"
             /\ fixed' = fixed \/ (fixed' = fixed \cup {c} /\ conf'[c].hash = vocab)
    <3>1. Agreed(c, v)'
      BY <1>4, <2>1, <2>6 DEF Agreed
    <3>2. c \in fixed' => conf'[c].hash = vocab
      BY <1>5, <2>6 DEF Right
    <3>3. c \in fixed' => Right(c)'
      BY <2>1, <2>6, <3>2 DEF Right
    <3>4. QED
      BY <3>1, <3>3 DEF Kept
  <2>7. QED
    BY <1>1, <1>20, <2>2, <2>3, <2>4, <2>5, <2>6, ToolFacts
<1>21. QED
  BY <1>7, <1>8, <1>11, <1>12, <1>14, <1>15, <1>16, <1>17, <1>18, <1>19, <1>20
     DEF Next, StartStep, RunStep

LEMMA LoadsStep == TypeInv /\ OwnInv /\ TunedLoads /\ [Next]_vars => TunedLoads'
<1> SUFFICES ASSUME TypeInv, OwnInv, TunedLoads, [Next]_vars PROVE TunedLoads'
  OBVIOUS
<1>1. ASSUME UNCHANGED vocab PROVE TunedLoads'
  BY <1>1 DEF TunedLoads
<1>2. CASE LoopStep
  BY <1>2, LoopFacts
<1>3. ASSUME NEW c \in Configs, StartStep(c) \/ RunStep(c) \/ ToolStep(c) PROVE UNCHANGED vocab
  BY <1>3, LoadFacts, LockFacts, UseFacts, CompleteFacts, TruncateFacts, WriteBackFacts, FailFacts,
     ToolFacts
     DEF StartStep, RunStep, StartFails
<1>4. CASE UNCHANGED vars
  BY <1>1, <1>4 DEF vars
<1>5. QED
  BY <1>1, <1>2, <1>3, <1>4 DEF Next

-----------------------------------------------------------------------------
BetaInv == TypeInv /\ OwnInv /\ KeptInv

LEMMA VocabularyTyped == Vocabulary \in [DOMAIN Vocabulary -> Weights]
<1>1. ASSUME NEW leaf \in DOMAIN Vocabulary PROVE Vocabulary[leaf] \in Weights
  <2> DEFINE among == DOMAIN Vocabulary[leaf]
  <2>1. among \in SUBSET Categories
    BY Zenon DEF Categories
  <2>2. Vocabulary[leaf] \in [among -> Nat]
    BY BetaAssumption
  <2> HIDE DEF among
  <2>3. QED
    BY <2>1, <2>2 DEF Weights
<1>2. QED
  BY <1>1, BetaAssumption

LEMMA InitBeta == Init => BetaInv
<1> SUFFICES ASSUME Init PROVE BetaInv
  OBVIOUS
<1>1. vocab \in Vocabularies
  BY VocabularyTyped DEF Init, Vocabularies
<1>2. conf \in [Configs -> Config \cup {Torn}]
  <2>1. Versions \subseteq Nat \X Nat \X Nat /\ {None, Vocabulary} \subseteq Hashes
    BY BetaAssumption, VocabularyTyped DEF Hashes
  <2>2. [version : Versions, hash : {None, Vocabulary}] \subseteq Config
    BY <2>1 DEF Config
  <2>3. QED
    BY <2>2 DEF Init
<1>3. IsLoop(loop)
  BY EndedFacts DEF Init
<1>4. /\ run \in [Configs -> RunState] /\ \A c \in Configs : run[c].at = "idle" /\ ~run[c].own
      /\ starting \in [Configs -> StartState]
      /\ \A c \in Configs : starting[c].at = "idle" /\ ~starting[c].own
  BY NoneStarted DEF Init
<1>5. tool \in [Configs -> ToolState \cup {None}] /\ told = [c \in Configs |-> told[c]]
      /\ fixed = {} /\ \A c \in Configs : tool[c] = None /\ told[c] = None
  BY DEF Init
<1>6. TypeInv /\ OwnInv
  BY <1>1, <1>2, <1>3, <1>4, <1>5 DEF TypeInv, OwnInv
<1>7. ASSUME NEW c \in Configs PROVE Kept(c)
  <2>1. PICK v \in Version : conf[c] # Torn => conf[c].version = v
    <3>1. CASE conf[c] = Torn
      <4>1. <<0, 0, 0>> \in Version
        BY DEF Version
      <4>2. QED
        BY <3>1, <4>1
    <3>2. CASE conf[c] # Torn
      BY <1>2, <3>2 DEF Config, Version
    <3>3. QED
      BY <3>1, <3>2
  <2>2. Agreed(c, v)
    BY <1>4, <1>5, <2>1 DEF Agreed
  <2>3. QED
    BY <1>5, <2>2 DEF Kept
<1>8. QED
  BY <1>6, <1>7 DEF BetaInv, KeptInv

LEMMA BetaStep == BetaInv /\ [Next]_vars => BetaInv'
  BY TypeStep, OwnStep, KeptStep DEF BetaInv

LEMMA BetaInvariant == Spec => []BetaInv
  BY InitBeta, BetaStep, PTL DEF Spec

\* For any number of configs, waves, tunings, kills and tools: a run that the
\* loop still waits for samples from the vocabulary it pins.
THEOREM PinnedRuns == Spec => []RunsAsPinned
<1>1. BetaInv => RunsAsPinned
  BY DEF BetaInv, OwnInv, RunsAsPinned, RunAt
<1>2. QED
  BY <1>1, BetaInvariant, PTL

\* However often any vocabulary is tuned, and in whatever order the rules
\* apply: if the first one loads, so does each that tuning makes of it.
THEOREM EveryTuningLoads == Loads(Vocabulary) => (Spec => []TunedLoads)
<1> SUFFICES ASSUME Loads(Vocabulary) PROVE Spec => []TunedLoads
  OBVIOUS
<1>1. Init => TunedLoads
  BY DEF Init, TunedLoads
<1>2. BetaInv /\ TunedLoads /\ [Next]_vars => TunedLoads'
  BY LoadsStep DEF BetaInv
<1>3. QED
  BY <1>1, <1>2, BetaInvariant, PTL DEF Spec

\* Unless a config is written while another process holds a copy of it, a
\* version is told twice only if a run is cut short between telling and writing
\* it, and no hash that was set right is undone while it is right.
THEOREM VersionsAndHashesKept == Spec => []ConfigsKept
<1>1. ASSUME KeptInv PROVE ConfigsKept
  <2>1. SUFFICES ASSUME NEW c \in Configs \ crossed, conf[c] # Torn
                 PROVE  /\ told[c] # None =>
                             /\ Gte(conf[c].version, told[c])
                             /\ conf[c].version = told[c] => run[c].at = "close" \/ c \in cut
                        /\ c \in fixed => conf[c].hash = vocab
    BY DEF ConfigsKept, RunAt
  <2>2. Kept(c)
    BY <1>1 DEF KeptInv
  <2>3. PICK v \in Version : Agreed(c, v)
    BY <2>2 DEF Kept
  <2>4. QED
    BY <2>1, <2>2, <2>3 DEF Kept, Agreed, Right
<1>2. QED
  BY <1>1, BetaInvariant, PTL DEF BetaInv
=============================================================================
