---------------------------- MODULE LedgerProofs ----------------------------
(***************************************************************************)
(* Proofs about Ledger, for any set of processes, any kinds of payload, any*)
(* faults and any bounds.                                                  *)
(***************************************************************************)
EXTENDS Ledger, SequenceTheorems, TLAPS

\* f and g differ in the end of the last piece of g, if at all.
SameBut(g, f, e) ==
  /\ \A i \in 1..Len(g)-1 : g[i] = f[i]
  /\ g[Len(g)].id = f[Len(g)].id
  /\ g[Len(g)].prev = f[Len(g)].prev
  /\ g[Len(g)].kind = f[Len(g)].kind
  /\ g[Len(g)].end = e

\* The file f with another end at its piece n.
Marked(f, n, e) == [f EXCEPT ![n].end = e]

\* An envelope with another kind or another end is an envelope.
LEMMA EnvelopeExcept ==
  ASSUME NEW r \in Envelope, NEW k \in PieceKinds, NEW e \in Ends
  PROVE  /\ [r EXCEPT !.kind = k] \in Envelope
         /\ [r EXCEPT !.end = e] \in Envelope
         /\ [r EXCEPT !.kind = k, !.end = e] \in Envelope
         /\ [r EXCEPT !.end = e].id = r.id
         /\ [r EXCEPT !.end = e].prev = r.prev
         /\ [r EXCEPT !.end = e].kind = r.kind
         /\ [r EXCEPT !.end = e].end = e
  BY DEF Envelope

\* Marking the last piece changes no other piece and nothing but its end.
LEMMA MarkType ==
  ASSUME NEW f \in Seq(Envelope), NEW n \in Nat \ {0}, Len(f) = n, NEW e \in Ends
  PROVE  /\ Marked(f, n, e) \in Seq(Envelope)
         /\ Len(Marked(f, n, e)) = n
         /\ SameBut(Marked(f, n, e), f, e)
<1>1. f \in [1..n -> Envelope] /\ n \in 1..Len(f)
  BY LenProperties
<1>2. f[n] \in Envelope
  BY <1>1
<1>3. ASSUME NEW r \in Envelope
      PROVE  /\ [r EXCEPT !.end = e] \in Envelope
             /\ [r EXCEPT !.end = e].id = r.id
             /\ [r EXCEPT !.end = e].prev = r.prev
             /\ [r EXCEPT !.end = e].kind = r.kind
             /\ [r EXCEPT !.end = e].end = e
  BY DEF Envelope
<1> DEFINE m == [f[n] EXCEPT !.end = e]
           g == [f EXCEPT ![n] = m]
<1>4. m \in Envelope /\ m.id = f[n].id /\ m.prev = f[n].prev /\ m.kind = f[n].kind /\ m.end = e
  BY <1>2, <1>3
<1> HIDE DEF m
<1>5. /\ g \in Seq(Envelope)
      /\ Len(g) = n
      /\ \A j \in 1..n : g[j] = IF j = n THEN m ELSE f[j]
  BY <1>1, <1>4, ExceptSeq
<1>6. g[n] = m /\ \A i \in 1..n-1 : g[i] = f[i]
  BY <1>1, <1>5
<1>7. SameBut(g, f, e)
  BY <1>4, <1>5, <1>6 DEF SameBut
<1>8. Marked(f, n, e) = g
  BY DEF m, Marked
<1>9. QED
  BY <1>5, <1>7, <1>8

\* A cut keeps a prefix, and may shorten the line of its last piece.
LEMMA CutType ==
  ASSUME NEW f \in Seq(Envelope), NEW n \in 0..Len(f)
  PROVE  LET g == SubSeq(f, 1, n) IN
         /\ g \in Seq(Envelope)
         /\ Len(g) = n
         /\ \A i \in 1..n : g[i] = f[i]
<1>1. \A i \in 1..n : f[i] \in Envelope
  BY ElementOfSeq
<1>2. Len(f) \in Nat
  BY LenProperties
<1>3. QED
  BY <1>1, <1>2, SubSeqProperties

\* A write where nothing else is behind the writer's place adds its text, or
\* more of it, to the end of the file.
LEMMA LaidAtEnd ==
  ASSUME NEW f \in Seq(Envelope), NEW n \in 0..Len(f), NEW r \in Envelope,
         AtEnd(f, n, r), NEW g \in Laid(f, n, r)
  PROVE  /\ g \in Seq(Envelope)
         /\ Len(g) = n + 1
         /\ \A i \in 1..n : g[i] = f[i]
         /\ g[n + 1] = r
<1>1. LET c == SubSeq(f, 1, n)
      IN  c \in Seq(Envelope) /\ Len(c) = n /\ \A i \in 1..n : c[i] = f[i]
  BY CutType
<1> DEFINE c == SubSeq(f, 1, n)
<1>2. c \in Seq(Envelope) /\ Len(c) = n /\ \A i \in 1..n : c[i] = f[i]
  BY <1>1
<1>3. g = Append(c, r)
  BY DEF Laid
<1> HIDE DEF c
<1>4. /\ Append(c, r) \in Seq(Envelope)
      /\ Len(Append(c, r)) = Len(c) + 1
      /\ \A i \in 1..Len(c) : Append(c, r)[i] = c[i]
      /\ Append(c, r)[Len(c) + 1] = r
  BY <1>2, AppendProperties
<1>5. QED
  BY <1>2, <1>3, <1>4

\* Two sequences over the same range are of the same length.
LEMMA SameRange ==
  ASSUME NEW a \in Nat, NEW b \in Nat, 1..a = 1..b
  PROVE  a = b
<1>1. a > 0 => a \in 1..b
  OBVIOUS
<1>2. b > 0 => b \in 1..a
  OBVIOUS
<1>3. QED
  BY <1>1, <1>2

\* A write over the text of others leaves a file of as many pieces.
LEMMA OverlayType ==
  ASSUME NEW f \in Seq(Envelope), NEW n \in Nat, NEW r \in Envelope,
         NEW kind \in PieceKinds, NEW m
  PROVE  /\ Overlay(f, n, r, kind, m) \in Seq(Envelope)
         /\ Len(Overlay(f, n, r, kind, m)) = Len(f)
<1>1. PICK c \in Nat : c = Len(f)
  BY LenProperties
<1> DEFINE g == Overlay(f, n, r, kind, m)
<1>2. g = [i \in 1..c |->
             CASE i = n + 1 -> [r EXCEPT !.kind = kind,
                                         !.end = IF f[i].end = "line" THEN "line" ELSE @]
               [] i \in n + 2 .. m -> [f[i] EXCEPT !.kind = "damaged"]
               [] OTHER -> f[i]]
  BY <1>1 DEF Overlay
<1>3. ASSUME NEW i \in 1..c
      PROVE  g[i] \in Envelope
  <2>1. f[i] \in Envelope
    BY <1>1, <1>3, ElementOfSeq
  <2> DEFINE hit == [f[i] EXCEPT !.kind = "damaged"]
             own == [r EXCEPT !.kind = kind, !.end = IF f[i].end = "line" THEN "line" ELSE @]
  <2>2. hit \in Envelope
    BY <2>1 DEF Envelope, PieceKinds
  <2>3. own \in Envelope
    <3>1. (IF f[i].end = "line" THEN "line" ELSE r.end) \in Ends
      BY DEF Envelope, Ends
    <3>2. QED
      BY <3>1 DEF Envelope
  <2>4. g[i] = CASE i = n + 1 -> own [] i \in n + 2 .. m -> hit [] OTHER -> f[i]
    BY <1>2, <1>3
  <2> HIDE DEF own, hit, g
  <2>5. CASE i = n + 1
    <3>1. i \notin n + 2 .. m
      BY <2>5
    <3>2. QED
      BY <2>3, <2>4, <2>5, <3>1
  <2>6. CASE i # n + 1
    BY <2>1, <2>2, <2>4, <2>6
  <2>7. QED
    BY <2>5, <2>6
<1>4. g \in [1..c -> Envelope]
  BY <1>2, <1>3
<1>5. g \in Seq(Envelope)
  BY <1>4, SeqDef
<1>6. Len(g) = c
  BY <1>1, <1>4, <1>5, LenProperties, SameRange
<1>7. QED
  BY <1>1, <1>5, <1>6

\* Whatever a write falls on, the file loses no piece by it and holds one at
\* the writer's place.
LEMMA LaidType ==
  ASSUME NEW f \in Seq(Envelope), NEW n \in 0..Len(f), NEW r \in Envelope,
         NEW g \in Laid(f, n, r)
  PROVE  /\ g \in Seq(Envelope)
         /\ Len(g) \in Nat
         /\ Len(g) >= Len(f)
         /\ Len(g) > n
<1>1. Len(f) \in Nat
  BY LenProperties
<1>2. CASE AtEnd(f, n, r)
  <2>1. g \in Seq(Envelope) /\ Len(g) = n + 1
    BY <1>2, LaidAtEnd
  <2>2. Len(f) = n \/ Len(f) = n + 1
    BY <1>2 DEF AtEnd
  <2>3. QED
    BY <1>1, <2>1, <2>2
<1>3. CASE ~AtEnd(f, n, r)
  <2>1. PICK kind, m : /\ kind \in (IF r.end = "torn" THEN {} ELSE {r.kind}) \cup {"damaged"}
                       /\ g = Overlay(f, n, r, kind, m)
    BY <1>3 DEF Laid
  <2>2. kind \in PieceKinds
    BY <2>1 DEF PieceKinds, Envelope
  <2>3. g \in Seq(Envelope) /\ Len(g) = Len(f)
    BY <1>1, <2>1, <2>2, OverlayType
  <2>4. Len(f) # n
    BY <1>3 DEF AtEnd
  <2>5. QED
    BY <1>1, <2>3, <2>4
<1>4. QED
  BY <1>2, <1>3

-----------------------------------------------------------------------------
(* Type correctness *)

\* A process that has written part of its line finds pieces in the file, and
\* the file still reaches to where a process with unflushed text stands.
HasPiece == \A p \in Procs : pc[p] \in {"torn", "whole", "line", "synced"} => ledger # <<>>
HasPlace == \A p \in Procs : pc[p] \in Unflushed => at[p] <= Len(ledger)

TypeInv == TypeOK /\ HasPiece /\ HasPlace

Labels == {"idle", "waiting", "locked", "writing", "line", "synced"} \cup Unflushed

LEMMA LeaveType ==
  ASSUME TypeOK, NEW p \in Procs, Leave(p)
  PROVE  /\ lock' \in Procs \cup {NoProc}
         /\ pc' \in [Procs -> Labels] /\ pc'[p] = "idle"
         /\ rec' \in [Procs -> Envelope]
         /\ at' \in [Procs -> Nat]
         /\ cause' \in [Procs -> {"none", "error", "interrupted"}]
         /\ \A q \in Procs : q # p =>
              pc'[q] = pc[q] /\ rec'[q] = rec[q] /\ at'[q] = at[q] /\ cause'[q] = cause[q]
         /\ rec'[p] = Blank
<1>1. Blank \in Envelope
  BY DEF Blank, Envelope, PieceKinds, AllKinds, Ends, NULL_HASH
<1>2. QED
  BY <1>1 DEF TypeOK, Leave, Unlock, Goto, Labels, Unflushed

\* An exception takes the process out, or leaves it to its close().
LEMMA RaiseType ==
  ASSUME TypeOK, NEW p \in Procs, NEW how \in {"error", "interrupted"}, Raise(p, how)
  PROVE  /\ lock' \in Procs \cup {NoProc}
         /\ pc' \in [Procs -> Labels]
         /\ rec' \in [Procs -> Envelope]
         /\ at' \in [Procs -> Nat]
         /\ cause' \in [Procs -> {"none", "error", "interrupted"}]
         /\ \/ pc[p] \in Unflushed /\ pc' = pc /\ rec' = rec /\ at' = at /\ Unlock(p)
            \/ pc[p] \notin Unflushed /\ Leave(p)
<1>1. CASE pc[p] \in Unflushed
  BY <1>1 DEF Raise, TypeOK, Unlock, Labels
<1>2. CASE pc[p] \notin Unflushed
  BY <1>2, LeaveType DEF Raise
<1>3. QED
  BY <1>1, <1>2

\* What a power loss leaves in the file.
LEMMA PowerLossCut ==
  ASSUME TypeOK, PowerLoss
  PROVE  /\ ledger' \in Seq(Envelope)
         /\ Len(ledger') \in synced..Len(ledger)
         /\ \A i \in 1..Len(ledger') :
              ledger'[i].id = ledger[i].id /\ ledger'[i].prev = ledger[i].prev
              /\ ledger'[i].kind = ledger[i].kind
         /\ \A i \in 1..Len(ledger') :
              i < Len(ledger') \/ i <= synced => ledger'[i] = ledger[i]
         /\ Len(ledger') > 0 =>
              \/ ledger'[Len(ledger')] = ledger[Len(ledger')]
              \/ ledger'[Len(ledger')].end \in ShorterThan[ledger[Len(ledger')].end]
<1>1. /\ ledger \in Seq(Envelope)
      /\ Len(ledger) \in Nat
      /\ synced \in 0..Len(ledger)
      /\ \A i \in 1..Len(ledger) : ledger[i] \in Envelope
  BY LenProperties, ElementOfSeq DEF TypeOK
<1>2. PICK n \in synced..Len(ledger) :
        \/ ledger' = SubSeq(ledger, 1, n)
        \/ /\ n > synced
           /\ \E e \in ShorterThan[ledger[n].end] :
                ledger' = [SubSeq(ledger, 1, n) EXCEPT ![n].end = e]
  BY DEF PowerLoss
<1> DEFINE cut == SubSeq(ledger, 1, n)
<1>3. /\ n \in 0..Len(ledger)
      /\ cut \in Seq(Envelope)
      /\ Len(cut) = n
      /\ \A i \in 1..n : cut[i] = ledger[i]
  BY <1>1, CutType
<1>4. CASE ledger' = cut
  BY <1>1, <1>3, <1>4
<1>5. CASE n > synced /\ \E e \in ShorterThan[ledger[n].end] :
             ledger' = [cut EXCEPT ![n].end = e]
  <2>1. PICK e \in ShorterThan[ledger[n].end] : ledger' = [cut EXCEPT ![n].end = e]
    BY <1>5
  <2>2. ledger[n] \in Envelope /\ ledger[n].end \in Ends
    BY <1>1, <1>3, <1>5 DEF Envelope
  <2>3. e \in Ends
    BY <2>1, <2>2 DEF ShorterThan, Ends
  <2>4. n \in Nat \ {0} /\ n > synced
    BY <1>1, <1>3, <1>5
  <2> HIDE DEF cut
  <2>5. ledger' \in Seq(Envelope) /\ Len(ledger') = n /\ SameBut(ledger', cut, e)
    <3>1. ledger' = Marked(cut, n, e)
      BY <2>1 DEF Marked
    <3>2. QED
      BY <1>3, <2>3, <2>4, <3>1, MarkType
  <2>6. /\ \A i \in 1..n-1 : ledger'[i] = ledger[i]
        /\ ledger'[n].id = ledger[n].id
        /\ ledger'[n].prev = ledger[n].prev
        /\ ledger'[n].kind = ledger[n].kind
        /\ ledger'[n].end = e
    BY <1>3, <2>4, <2>5 DEF SameBut
  <2>7. \A i \in 1..n : i # n => ledger'[i] = ledger[i]
    BY <2>4, <2>6
  <2>8. synced \in Nat
    BY <1>1
  <2>9. n \in synced..Len(ledger) /\ Len(ledger') = n
    BY <1>2, <2>5
  <2>10. \A i \in 1..n : ledger'[i].id = ledger[i].id /\ ledger'[i].prev = ledger[i].prev
                          /\ ledger'[i].kind = ledger[i].kind
    BY <2>6, <2>7
  <2>11. \A i \in 1..n : i < n \/ i <= synced => ledger'[i] = ledger[i]
    BY <2>4, <2>7, <2>8
  <2>12. ledger'[n].end \in ShorterThan[ledger[n].end]
    BY <2>1, <2>6
  <2>13. ledger' \in Seq(Envelope)
    BY <2>5
  <2>14. QED
    BY <2>9, <2>10, <2>11, <2>12, <2>13
<1>6. QED
  BY <1>2, <1>4, <1>5

\* What a write leaves in the file, wherever its writer stands.
LEMMA WriteType ==
  ASSUME TypeInv, NEW p \in Procs, WriteStart(p) \/ WriteMore(p)
  PROVE  /\ ledger' \in Seq(Envelope)
         /\ Len(ledger') \in Nat
         /\ Len(ledger') >= Len(ledger)
         /\ Len(ledger') > at[p]
<1>1. /\ ledger \in Seq(Envelope) /\ rec[p] \in Envelope /\ at[p] \in 0..Len(ledger)
  BY LenProperties DEF TypeInv, TypeOK, HasPlace, Unflushed, WriteStart, WriteMore
<1>2. CASE WriteStart(p)
  <2>1. ledger' \in Laid(ledger, at[p], rec[p])
    BY <1>2 DEF WriteStart
  <2>2. QED
    BY <1>1, <2>1, LaidType
<1>3. CASE WriteMore(p)
  <2>1. PICK e : e = IF pc[p] = "torn" THEN "whole" ELSE "line"
    OBVIOUS
  <2>2. ledger' \in Laid(ledger, at[p], [rec[p] EXCEPT !.end = e])
    BY <1>3, <2>1 DEF WriteMore
  <2>3. [rec[p] EXCEPT !.end = e] \in Envelope
    BY <1>1, <2>1 DEF Envelope, Ends
  <2>4. QED
    BY <1>1, <2>2, <2>3, LaidType
<1>4. QED
  BY <1>2, <1>3

\* Where a process is after the last of its text is in the file.
After(p, e) == IF e = "line" /\ lock # p THEN "idle" ELSE e

LEMMA WriteMoreType ==
  ASSUME TypeOK, NEW p \in Procs, WriteMore(p),
         NEW e, e = IF pc[p] = "torn" THEN "whole" ELSE "line"
  PROVE  /\ lock' \in Procs \cup {NoProc}
         /\ pc' \in [Procs -> Labels]
         /\ rec' \in [Procs -> Envelope]
         /\ at' \in [Procs -> Nat]
         /\ cause' \in [Procs -> {"none", "error", "interrupted"}]
         /\ pc' = [pc EXCEPT ![p] = After(p, e)]
         /\ \A q \in Procs : q # p => rec'[q] = rec[q] /\ at'[q] = at[q]
         /\ IF e = "line" /\ lock # p THEN rec'[p] = Blank ELSE rec' = rec /\ at' = at
         /\ lock' = lock
<1>1. CASE e = "line" /\ lock # p
  <2>1. Leave(p)
    BY <1>1 DEF WriteMore
  <2>2. lock' = lock /\ pc' = [pc EXCEPT ![p] = "idle"]
    BY <1>1, <2>1 DEF Leave, Unlock, Goto
  <2>3. QED
    BY <1>1, <2>1, <2>2, LeaveType DEF After
<1>2. CASE ~(e = "line" /\ lock # p)
  <2>1. Goto(p, e) /\ lock' = lock /\ rec' = rec /\ at' = at /\ cause' = cause
    BY <1>2 DEF WriteMore
  <2>2. e \in Labels
    BY DEF Labels, Unflushed
  <2>3. pc' = [pc EXCEPT ![p] = e] /\ After(p, e) = e
    BY <1>2, <2>1 DEF Goto, After
  <2>4. pc' \in [Procs -> Labels]
    BY <2>2, <2>3 DEF TypeOK, Labels
  <2>5. QED
    BY <1>2, <2>1, <2>3, <2>4 DEF TypeOK
<1>3. QED
  BY <1>1, <1>2

LEMMA TypeStep == TypeInv /\ [Next]_vars => TypeInv'
<1> SUFFICES ASSUME TypeInv, [Next]_vars
             PROVE  TypeInv'
  OBVIOUS
<1>0. /\ TypeOK /\ HasPiece /\ HasPlace
      /\ Len(ledger) \in Nat
      /\ ledger = <<>> <=> Len(ledger) = 0
  BY LenProperties, EmptySeq DEF TypeOK, TypeInv
<1> USE DEF Labels
<1>1. ASSUME NEW p \in Procs, Call(p)
      PROVE  TypeInv'
  <2>1. PICK k \in Kinds : rec' = [rec EXCEPT ![p] = [Blank EXCEPT !.kind = k]]
    BY <1>1 DEF Call
  <2>2. [Blank EXCEPT !.kind = k] \in Envelope
    BY LedgerAssumption DEF Blank, Envelope, PieceKinds, AllKinds, Ends, NULL_HASH
  <2>3. rec' \in [Procs -> Envelope]
    BY <1>0, <2>1, <2>2 DEF TypeOK
  <2>4. QED
    BY <1>0, <1>1, <2>3 DEF TypeInv, TypeOK, HasPiece, HasPlace, Call, Goto, Unflushed
<1>2. ASSUME NEW p \in Procs, Acquire(p)
      PROVE  TypeInv'
  BY <1>0, <1>2 DEF TypeInv, TypeOK, HasPiece, HasPlace, Acquire, Goto, Unflushed
<1>3. ASSUME NEW p \in Procs, BuildEnvelope(p)
      PROVE  TypeInv'
  <2>1. Tip(ledger) \in Nat
    <3>1. CASE ledger = <<>>
      BY <3>1 DEF Tip, NULL_HASH
    <3>2. CASE ledger # <<>>
      <4>1. Len(ledger) \in 1..Len(ledger)
        BY <1>0, <3>2
      <4>2. ledger[Len(ledger)] \in Envelope
        BY <1>0, <4>1, ElementOfSeq DEF TypeOK
      <4>3. QED
        BY <3>2, <4>2 DEF Tip, Envelope
    <3>3. QED
      BY <3>1, <3>2
  <2>2. rec' \in [Procs -> Envelope]
    <3>1. rec[p] \in Envelope /\ nextId \in Nat
      BY <1>0 DEF TypeOK
    <3>2. [rec[p] EXCEPT !.id = nextId] \in Envelope
      BY <3>1 DEF Envelope
    <3>3. [[rec[p] EXCEPT !.id = nextId] EXCEPT !.prev = Tip(ledger)] \in Envelope
      BY <2>1, <3>2 DEF Envelope
    <3>4. rec' = [rec EXCEPT ![p] = [[rec[p] EXCEPT !.id = nextId] EXCEPT !.prev = Tip(ledger)]]
      BY <1>0, <1>3 DEF BuildEnvelope, TypeOK
    <3>5. QED
      BY <1>0, <3>3, <3>4 DEF TypeOK
  <2>3. exposed' \in BOOLEAN
    BY <1>0, <1>3 DEF BuildEnvelope, TypeOK
  <2>4. HasPiece' /\ HasPlace'
    BY <1>0, <1>3 DEF TypeOK, HasPiece, HasPlace, BuildEnvelope, Goto, Unflushed
  <2>5. TypeOK'
    BY <1>0, <1>3, <2>2, <2>3 DEF TypeOK, BuildEnvelope, Goto
  <2>6. QED
    BY <2>4, <2>5 DEF TypeInv
<1>4. ASSUME NEW p \in Procs, Buffer(p)
      PROVE  TypeInv'
  BY <1>0, <1>4 DEF TypeInv, TypeOK, HasPiece, HasPlace, Buffer, Goto, Unflushed
<1>5. ASSUME NEW p \in Procs, WriteStart(p)
      PROVE  TypeInv'
  <2>1. /\ ledger' \in Seq(Envelope)
        /\ Len(ledger') \in Nat /\ Len(ledger') >= Len(ledger) /\ Len(ledger') > at[p]
    BY <1>5, WriteType
  <2>2. ledger' # <<>>
    BY <1>0, <1>5, <2>1, EmptySeq DEF TypeOK
  <2>3. \A n \in Nat : n <= Len(ledger) => n <= Len(ledger')
    BY <1>0, <2>1
  <2>4. HasPlace'
    <3>1. SUFFICES ASSUME NEW q \in Procs, pc'[q] \in Unflushed
                   PROVE  at'[q] <= Len(ledger')
      BY DEF HasPlace
    <3>2. at'[q] = at[q] /\ pc[q] \in Unflushed /\ at[q] \in Nat
      BY <1>0, <1>5, <3>1 DEF WriteStart, Goto, TypeOK, Unflushed
    <3>3. QED
      BY <1>0, <2>3, <3>2 DEF HasPlace
  <2>5. TypeOK'
    BY <1>0, <1>5, <2>1 DEF TypeOK, WriteStart, Goto, Unflushed
  <2>6. QED
    BY <2>2, <2>4, <2>5 DEF TypeInv, HasPiece
<1>6. ASSUME NEW p \in Procs, WriteMore(p)
      PROVE  TypeInv'
  <2>1. /\ ledger' \in Seq(Envelope)
        /\ Len(ledger') \in Nat /\ Len(ledger') >= Len(ledger) /\ Len(ledger') > at[p]
    BY <1>6, WriteType
  <2>2. ledger' # <<>>
    BY <1>0, <1>6, <2>1, EmptySeq DEF TypeOK
  <2>3. \A n \in Nat : n <= Len(ledger) => n <= Len(ledger')
    BY <1>0, <2>1
  <2>4. PICK e : e = IF pc[p] = "torn" THEN "whole" ELSE "line"
    OBVIOUS
  <2>5. /\ lock' \in Procs \cup {NoProc} /\ pc' \in [Procs -> Labels]
        /\ rec' \in [Procs -> Envelope] /\ at' \in [Procs -> Nat]
        /\ cause' \in [Procs -> {"none", "error", "interrupted"}]
        /\ pc' = [pc EXCEPT ![p] = After(p, e)]
        /\ \A q \in Procs : q # p => at'[q] = at[q]
        /\ IF e = "line" /\ lock # p THEN rec'[p] = Blank ELSE rec' = rec /\ at' = at
    BY <1>0, <1>6, <2>4, WriteMoreType
  <2>6. HasPlace'
    <3>1. SUFFICES ASSUME NEW q \in Procs, pc'[q] \in Unflushed
                   PROVE  at'[q] <= Len(ledger')
      BY DEF HasPlace
    <3>2. CASE q # p
      <4>1. at'[q] = at[q] /\ pc[q] \in Unflushed /\ at[q] \in Nat
        BY <1>0, <2>5, <3>1, <3>2 DEF TypeOK
      <4>2. QED
        BY <1>0, <2>3, <4>1 DEF HasPlace
    <3>3. CASE q = p
      <4>1. After(p, e) # "idle"
        BY <1>0, <2>5, <3>1, <3>3 DEF TypeOK, Unflushed
      <4>2. ~(e = "line" /\ lock # p)
        BY <4>1 DEF After
      <4>3. at' = at /\ at[p] \in Nat
        BY <1>0, <2>5, <4>2 DEF TypeOK
      <4>4. QED
        BY <1>0, <2>1, <3>3, <4>3
    <3>4. QED
      BY <3>2, <3>3
  <2>7. /\ synced' \in 0..Len(ledger') /\ acked' \subseteq Nat
        /\ verdict' \in [outcome : {"none", "pass", "fail"}, total : Nat]
        /\ exposed' \in BOOLEAN /\ nextId' \in Nat \ {0} /\ faults' \in Nat
    BY <1>0, <1>6, <2>1 DEF TypeOK, WriteMore
  <2>8. TypeOK'
    BY <2>1, <2>5, <2>7 DEF TypeOK
  <2>9. QED
    BY <2>2, <2>6, <2>8 DEF TypeInv, HasPiece
<1>7. ASSUME NEW p \in Procs, Fsync(p)
      PROVE  TypeInv'
  BY <1>0, <1>7 DEF TypeInv, TypeOK, HasPiece, HasPlace, Fsync, FsyncCovers, Goto, Unflushed
<1>8. ASSUME NEW p \in Procs, Leave(p), ledger' = ledger, synced' = synced,
             acked' \subseteq Nat, nextId' = nextId, verdict' = verdict,
             exposed' = exposed, faults' \in Nat
      PROVE  TypeInv'
  <2>1. /\ lock' \in Procs \cup {NoProc} /\ pc' \in [Procs -> Labels]
        /\ rec' \in [Procs -> Envelope] /\ at' \in [Procs -> Nat]
        /\ cause' \in [Procs -> {"none", "error", "interrupted"}]
        /\ pc'[p] = "idle"
        /\ \A q \in Procs : q # p => pc'[q] = pc[q] /\ at'[q] = at[q]
    BY <1>0, <1>8, LeaveType
  <2>2. TypeOK'
    BY <1>0, <1>8, <2>1 DEF TypeOK
  <2>3. \A q \in Procs : pc'[q] # "idle" => pc'[q] = pc[q] /\ at'[q] = at[q]
    BY <2>1
  <2>4. HasPiece' /\ HasPlace'
    BY <1>0, <1>8, <2>3 DEF HasPiece, HasPlace, Unflushed
  <2>5. QED
    BY <2>2, <2>4 DEF TypeInv
<1>9. ASSUME NEW p \in Procs, RaiseCorruption(p) \/ CloseFails(p)
      PROVE  TypeInv'
  BY <1>0, <1>8, <1>9 DEF RaiseCorruption, CloseFails, TypeOK
<1>10. ASSUME NEW p \in Procs, Return(p)
       PROVE  TypeInv'
  <2>1. acked' \subseteq Nat
    BY <1>0, <1>10 DEF Return, TypeOK, Envelope
  <2>2. QED
    BY <1>0, <1>8, <1>10, <2>1 DEF Return, TypeOK
<1>11. ASSUME NEW p \in Procs, Verify(p)
       PROVE  TypeInv'
  BY <1>0, <1>11 DEF TypeInv, TypeOK, HasPiece, HasPlace, Verify
<1>12. ASSUME NEW p \in Procs, WriteFails(p) \/ Interrupt(p)
       PROVE  TypeInv'
  <2>1. PICK how \in {"error", "interrupted"} : Raise(p, how)
    BY <1>12 DEF WriteFails, Interrupt
  <2>2. /\ ledger' = ledger /\ synced' = synced /\ acked' \subseteq Nat
        /\ nextId' = nextId /\ verdict' = verdict /\ exposed' = exposed /\ faults' \in Nat
    <3>1. CASE WriteFails(p)
      BY <1>0, <3>1 DEF WriteFails, Fault, TypeOK
    <3>2. CASE Interrupt(p)
      BY <1>0, <3>2 DEF Interrupt, Fault, TypeOK
    <3>3. QED
      BY <1>12, <3>1, <3>2
  <2>3. CASE pc[p] \notin Unflushed
    <3>1. Leave(p)
      BY <2>1, <2>3 DEF Raise
    <3>2. QED
      BY <1>8, <2>2, <3>1
  <2>4. CASE pc[p] \in Unflushed
    <3>1. /\ pc' = pc /\ rec' = rec /\ at' = at
          /\ lock' \in Procs \cup {NoProc}
          /\ cause' \in [Procs -> {"none", "error", "interrupted"}]
      BY <1>0, <2>1, <2>4 DEF Raise, Unlock, TypeOK
    <3>2. QED
      BY <1>0, <2>2, <3>1 DEF TypeInv, TypeOK, HasPiece, HasPlace
  <2>5. QED
    BY <2>3, <2>4
<1>13. ASSUME NEW p \in Procs, Kill(p)
       PROVE  TypeInv'
  <2>1. Leave(p) /\ faults' \in Nat
    BY <1>0, <1>13 DEF Kill, Fault, TypeOK
  <2>2. QED
    BY <1>0, <1>8, <1>13, <2>1 DEF Kill, TypeOK
<1>14. CASE PowerLoss
  <2>1. ledger' \in Seq(Envelope) /\ Len(ledger') \in Nat
    BY <1>0, <1>14, PowerLossCut, LenProperties
  <2>2. rec' \in [Procs -> Envelope]
    BY <1>14 DEF PowerLoss, Blank, Envelope, PieceKinds, AllKinds, Ends, NULL_HASH
  <2>3. QED
    BY <1>0, <1>14, <2>1, <2>2
       DEF TypeInv, TypeOK, HasPiece, HasPlace, PowerLoss, Fault, Unflushed
<1>15. CASE UNCHANGED vars
  BY <1>0, <1>15 DEF TypeInv, TypeOK, HasPiece, HasPlace, vars
<1>16. QED
  BY <1>1, <1>2, <1>3, <1>4, <1>5, <1>6, <1>7, <1>9, <1>10, <1>11, <1>12, <1>13,
     <1>14, <1>15 DEF Next, AppendStep

LEMMA TypeInit == Init => TypeInv
<1> SUFFICES ASSUME Init PROVE TypeInv
  OBVIOUS
<1>1. Blank \in Envelope
  BY DEF Blank, Envelope, PieceKinds, AllKinds, Ends, NULL_HASH
<1>2. ledger \in Seq(Envelope) /\ Len(ledger) = 0
  BY EmptySeq DEF Init
<1>3. TypeOK
  <2>1. /\ ledger \in Seq(Envelope) /\ synced \in 0..Len(ledger)
        /\ lock \in Procs \cup {NoProc} /\ acked \subseteq Nat
        /\ verdict \in [outcome : {"none", "pass", "fail"}, total : Nat]
        /\ nextId \in Nat \ {0} /\ faults \in Nat
    BY <1>2 DEF Init
  <2>4. exposed \in BOOLEAN
    BY DEF Init
  <2>2. /\ pc \in [Procs -> {"idle", "waiting", "locked", "writing", "line", "synced"}
                            \cup Unflushed]
        /\ rec \in [Procs -> Envelope]
        /\ at \in [Procs -> Nat]
        /\ cause \in [Procs -> {"none", "error", "interrupted"}]
    BY <1>1 DEF Init
  <2>3. QED
    BY <2>1, <2>2, <2>4 DEF TypeOK
<1>4. HasPiece /\ HasPlace
  BY DEF Init, HasPiece, HasPlace, Unflushed
<1>5. QED
  BY <1>3, <1>4 DEF TypeInv

\* The variables keep their types in every behaviour.
THEOREM TypeCorrect == Spec => []TypeOK
<1>1. TypeInv => TypeOK
  BY DEF TypeInv
<1>2. QED
  BY <1>1, TypeInit, TypeStep, PTL DEF Spec

-----------------------------------------------------------------------------
(***************************************************************************)
(* The inductive invariant.  LockInv: whoever is between flock() and the   *)
(* unlock holds the lock.  As long as no tip was read too early, Exclusive:*)
(* one process at most has an envelope to bring to the file, with the lock *)
(* or in its close(); WriterInv: that envelope still fits the end of the   *)
(* file, and the last piece is its writer's; IdsGrow: hashes are fresh.    *)
(* The three safety properties of the runs complete it.                    *)
(***************************************************************************)
Wrote == {"torn", "whole", "line", "synced"}
Drafting == {"writing", "buffered"} \cup Wrote
Holding == {"locked", "writing", "line", "synced"}

LockInv == \A p \in Procs : pc[p] \in Holding => lock = p

Exclusive == \A p, q \in Procs : pc[p] \in Drafting /\ pc[q] \in Drafting => p = q

WriterOK(p) ==
  /\ rec[p].end = "torn"
  /\ pc[p] \in {"writing", "buffered"} =>
       /\ rec[p].prev = Tip(ledger)
       /\ ~TailMalformed(ledger)
       /\ rec[p].id < nextId
       /\ \A i \in 1..Len(ledger) : ledger[i].id < rec[p].id
  /\ pc[p] = "buffered" => at[p] = Len(ledger)
  /\ pc[p] \in {"torn", "whole"} =>
       /\ Len(ledger) = at[p] + 1
       /\ ledger[Len(ledger)].prev = rec[p].prev
       /\ ledger[Len(ledger)].kind = rec[p].kind
  /\ pc[p] \in Wrote =>
       /\ ledger[Len(ledger)].id = rec[p].id
       /\ ledger[Len(ledger)].end = IF pc[p] = "synced" THEN "line" ELSE pc[p]
       /\ IF pc[p] = "synced" THEN synced = Len(ledger) ELSE synced < Len(ledger)

WriterInv == \A p \in Procs : WriterOK(p)

IdsGrow ==
  /\ \A i \in 1..Len(ledger) : ledger[i].id < nextId
  /\ \A i, j \in 1..Len(ledger) : i < j => ledger[i].id < ledger[j].id

OrderInv == Exclusive /\ WriterInv /\ IdsGrow

IInv == /\ TypeInv /\ LockInv
        /\ ~exposed => OrderInv
        /\ ChainLinked /\ AckedDurable /\ DamageOnlyAtEnd

\* Only three actions touch the file.
LEMMA LedgerChanges ==
  [Next]_vars => \/ ledger' = ledger
                 \/ \E p \in Procs : WriteStart(p) \/ WriteMore(p)
                 \/ PowerLoss
  BY DEF Next, AppendStep, vars, Call, Acquire, BuildEnvelope, RaiseCorruption,
         Buffer, Fsync, Return, CloseFails, Verify, WriteFails, Interrupt, Kill

\* A tip that was read too early stays read.
LEMMA ExposedStays == [Next]_vars /\ ~exposed' => ~exposed
  BY DEF Next, AppendStep, vars, Call, Acquire, BuildEnvelope, RaiseCorruption,
         Buffer, WriteStart, WriteMore, Fsync, Return, CloseFails, Verify,
         WriteFails, Interrupt, Kill, PowerLoss

\* The end of an append(), whoever ends it: p is out, or it is left to its
\* close().
Out(p) == \/ Leave(p)
          \/ pc[p] \in Unflushed /\ pc' = pc /\ rec' = rec /\ at' = at /\ Unlock(p)

LEMMA EndsOut ==
  ASSUME NEW p \in Procs,
         RaiseCorruption(p) \/ Return(p) \/ CloseFails(p) \/ WriteFails(p)
         \/ Interrupt(p) \/ Kill(p)
  PROVE  /\ Out(p)
         /\ ledger' = ledger /\ synced' = synced /\ nextId' = nextId
         /\ exposed' = exposed
<1>1. CASE RaiseCorruption(p) \/ Return(p) \/ CloseFails(p) \/ Kill(p)
  BY <1>1 DEF RaiseCorruption, Return, CloseFails, Kill, Out
<1>2. CASE WriteFails(p) \/ Interrupt(p)
  <2>1. PICK how : Raise(p, how)
    BY <1>2 DEF WriteFails, Interrupt
  <2>2. Out(p)
    BY <2>1 DEF Raise, Out
  <2>3. QED
    BY <1>2, <2>2 DEF WriteFails, Interrupt
<1>3. QED
  BY <1>1, <1>2

\* The flock is exclusive: it changes hands only through NoProc.
LEMMA LockStep == TypeOK /\ LockInv /\ [Next]_vars => LockInv'
<1> SUFFICES ASSUME TypeOK, LockInv, [Next]_vars
             PROVE  LockInv'
  OBVIOUS
<1> USE DEF LockInv, Holding, TypeOK
<1>1. ASSUME NEW p \in Procs, Acquire(p)
      PROVE  LockInv'
  BY <1>1, LedgerAssumption DEF Acquire, Goto
<1>2. ASSUME NEW p \in Procs, Out(p)
      PROVE  LockInv'
  BY <1>2 DEF Out, Leave, Unlock, Goto, Unflushed
<1>3. ASSUME NEW p \in Procs,
             Call(p) \/ BuildEnvelope(p) \/ Buffer(p) \/ WriteStart(p) \/ Fsync(p)
      PROVE  LockInv'
  BY <1>3 DEF Call, BuildEnvelope, Buffer, WriteStart, Fsync, Goto
<1>4. ASSUME NEW p \in Procs, WriteMore(p)
      PROVE  LockInv'
  <2>1. PICK e : e = IF pc[p] = "torn" THEN "whole" ELSE "line"
    OBVIOUS
  <2>2. pc' = [pc EXCEPT ![p] = After(p, e)] /\ lock' = lock
    BY <1>4, <2>1, WriteMoreType
  <2>3. After(p, e) \in Holding => lock = p
    BY <2>1 DEF After
  <2>4. QED
    BY <2>2, <2>3
<1>5. ASSUME NEW p \in Procs,
             RaiseCorruption(p) \/ Return(p) \/ CloseFails(p) \/ WriteFails(p)
             \/ Interrupt(p) \/ Kill(p)
      PROVE  LockInv'
  BY <1>2, <1>5, EndsOut
<1>6. ASSUME NEW p \in Procs, Verify(p)
      PROVE  LockInv'
  BY <1>6 DEF Verify
<1>7. CASE PowerLoss
  BY <1>7 DEF PowerLoss
<1>8. CASE UNCHANGED vars
  BY <1>8 DEF vars
<1>9. QED
  BY <1>1, <1>3, <1>4, <1>5, <1>6, <1>7, <1>8 DEF Next, AppendStep

\* Nobody starts an envelope while another has one to bring to the file: the
\* lock keeps out those who hold it, and no tip was read during a close().
LEMMA ExclusiveStep ==
  TypeOK /\ LockInv /\ Exclusive /\ ~exposed' /\ [Next]_vars => Exclusive'
<1> SUFFICES ASSUME TypeOK, LockInv, Exclusive, ~exposed', [Next]_vars
             PROVE  Exclusive'
  OBVIOUS
<1> USE DEF Exclusive, Drafting, Wrote, TypeOK
<1>1. ASSUME NEW p \in Procs, BuildEnvelope(p)
      PROVE  Exclusive'
  <2>1. pc[p] = "locked" /\ lock = p /\ \A q \in Procs : pc[q] \notin Unflushed
    BY <1>1 DEF BuildEnvelope, LockInv, Holding
  <2>2. \A q \in Procs : q # p => pc[q] \notin Holding
    BY <2>1 DEF LockInv
  <2>3. \A q \in Procs : q # p => pc[q] \notin Drafting
    BY <2>1, <2>2 DEF Holding, Unflushed
  <2>4. \A q \in Procs : q # p => pc'[q] = pc[q]
    BY <1>1 DEF BuildEnvelope, Goto
  <2>5. QED
    BY <2>3, <2>4
<1>2. ASSUME NEW p \in Procs, Out(p)
      PROVE  Exclusive'
  BY <1>2 DEF Out, Leave, Goto
<1>3. ASSUME NEW p \in Procs, Call(p) \/ Acquire(p)
      PROVE  Exclusive'
  BY <1>3 DEF Call, Acquire, Goto
<1>4. ASSUME NEW p \in Procs, Buffer(p) \/ WriteStart(p) \/ Fsync(p)
      PROVE  Exclusive'
  BY <1>4 DEF Buffer, WriteStart, Fsync, Goto
<1>5. ASSUME NEW p \in Procs, WriteMore(p)
      PROVE  Exclusive'
  <2>1. PICK e : e = IF pc[p] = "torn" THEN "whole" ELSE "line"
    OBVIOUS
  <2>2. pc' = [pc EXCEPT ![p] = After(p, e)] /\ pc[p] \in Drafting
    BY <1>5, <2>1, WriteMoreType DEF WriteMore
  <2>3. QED
    BY <2>2
<1>6. ASSUME NEW p \in Procs,
             RaiseCorruption(p) \/ Return(p) \/ CloseFails(p) \/ WriteFails(p)
             \/ Interrupt(p) \/ Kill(p)
      PROVE  Exclusive'
  BY <1>2, <1>6, EndsOut
<1>7. ASSUME NEW p \in Procs, Verify(p)
      PROVE  Exclusive'
  BY <1>7 DEF Verify
<1>8. CASE PowerLoss
  BY <1>8 DEF PowerLoss
<1>9. CASE UNCHANGED vars
  BY <1>9 DEF vars
<1>10. QED
  BY <1>1, <1>3, <1>4, <1>5, <1>6, <1>7, <1>8, <1>9 DEF Next, AppendStep

\* Facts about the file that every step may use.
LEMMA FileFacts ==
  ASSUME TypeOK
  PROVE  /\ Len(ledger) \in Nat
         /\ ledger = <<>> <=> Len(ledger) = 0
         /\ \A i \in 1..Len(ledger) :
              ledger[i] \in Envelope /\ ledger[i].id \in Nat /\ ledger[i].prev \in Nat
         /\ \A p \in Procs : rec[p] \in Envelope /\ rec[p].id \in Nat
         /\ synced \in Nat /\ synced <= Len(ledger)
         /\ nextId \in Nat
<1>1. ledger \in Seq(Envelope) /\ synced \in 0..Len(ledger) /\ nextId \in Nat
      /\ rec \in [Procs -> Envelope]
  BY DEF TypeOK
<1>2. Len(ledger) \in Nat /\ (ledger = <<>> <=> Len(ledger) = 0)
  BY <1>1, LenProperties, EmptySeq
<1>3. \A i \in 1..Len(ledger) : ledger[i] \in Envelope
  BY <1>1, ElementOfSeq
<1>4. \A r \in Envelope : r.id \in Nat /\ r.prev \in Nat
  BY DEF Envelope
<1>5. QED
  BY <1>1, <1>2, <1>3, <1>4

\* What a write does to the file when its envelope fits: it adds a torn piece,
\* or it lengthens the line of the last one.
LEMMA WriteStartGrows ==
  ASSUME TypeInv, NEW p \in Procs, WriterOK(p), WriteStart(p)
  PROVE  /\ ledger' \in Seq(Envelope)
         /\ Len(ledger') = Len(ledger) + 1
         /\ \A i \in 1..Len(ledger) : ledger'[i] = ledger[i]
         /\ ledger'[Len(ledger) + 1] = rec[p]
<1>1. /\ ledger \in Seq(Envelope) /\ rec[p] \in Envelope /\ Len(ledger) \in 0..Len(ledger)
  BY FileFacts DEF TypeInv, TypeOK
<1>2. at[p] = Len(ledger)
  BY DEF WriterOK, WriteStart
<1>3. AtEnd(ledger, Len(ledger), rec[p])
  BY DEF AtEnd
<1>4. ledger' \in Laid(ledger, Len(ledger), rec[p])
  BY <1>2 DEF WriteStart
<1>5. QED
  BY <1>1, <1>3, <1>4, LaidAtEnd

LEMMA WriteMoreMarks ==
  ASSUME TypeInv, NEW p \in Procs, WriterOK(p), WriteMore(p),
         NEW e, e = IF pc[p] = "torn" THEN "whole" ELSE "line"
  PROVE  /\ ledger # <<>>
         /\ ledger' \in Seq(Envelope)
         /\ Len(ledger') = Len(ledger)
         /\ SameBut(ledger', ledger, e)
         /\ pc' = [pc EXCEPT ![p] = After(p, e)]
<1>1. /\ ledger \in Seq(Envelope) /\ rec[p] \in Envelope /\ at[p] \in Nat
      /\ pc[p] \in {"torn", "whole"} /\ TypeOK
  BY DEF TypeInv, TypeOK, WriteMore
<1>2. PICK n \in Nat : n = at[p]
  BY <1>1
<1>3. /\ Len(ledger) = n + 1
      /\ ledger[n + 1].id = rec[p].id
      /\ ledger[n + 1].prev = rec[p].prev
      /\ ledger[n + 1].kind = rec[p].kind
  BY <1>1, <1>2 DEF WriterOK, Wrote
<1>4. PICK r \in Envelope : /\ r = [rec[p] EXCEPT !.end = e]
                            /\ r.id = rec[p].id /\ r.prev = rec[p].prev
                            /\ r.kind = rec[p].kind /\ r.end = e
  <2>1. e \in Ends /\ rec[p].kind \in PieceKinds
    BY <1>1 DEF Ends, Envelope
  <2>2. QED
    BY <1>1, <2>1, EnvelopeExcept
<1>5. AtEnd(ledger, n, r)
  BY <1>3, <1>4 DEF AtEnd
<1>6. ledger' \in Laid(ledger, n, r)
  BY <1>2, <1>4 DEF WriteMore
<1>7. n \in 0..Len(ledger)
  BY <1>3
<1>8. /\ ledger' \in Seq(Envelope)
      /\ Len(ledger') = n + 1
      /\ \A i \in 1..n : ledger'[i] = ledger[i]
      /\ ledger'[n + 1] = r
  BY <1>1, <1>5, <1>6, <1>7, LaidAtEnd
<1>9. SameBut(ledger', ledger, e)
  <2>1. n + 1 - 1 = n
    OBVIOUS
  <2>2. QED
    BY <1>3, <1>4, <1>8, <2>1 DEF SameBut
<1>10. ledger # <<>>
  BY <1>1, <1>3, FileFacts
<1>11. pc' = [pc EXCEPT ![p] = After(p, e)]
  BY <1>1, WriteMoreType
<1>12. QED
  BY <1>3, <1>8, <1>9, <1>10, <1>11

\* Every hash in the file is older than the ones still to be drawn, and the
\* file holds them in the order they were drawn.
LEMMA IdsStep == TypeInv /\ OrderInv /\ [Next]_vars => IdsGrow'
<1> SUFFICES ASSUME TypeInv, OrderInv, [Next]_vars
             PROVE  IdsGrow'
  OBVIOUS
<1>0. TypeOK /\ TypeOK' /\ nextId' \in Nat /\ IdsGrow /\ \A p \in Procs : WriterOK(p)
  BY TypeStep DEF TypeInv, TypeOK, OrderInv, WriterInv
<1>1. nextId <= nextId'
  <2>1. nextId' = nextId \/ nextId' = nextId + 1
    BY DEF Next, AppendStep, vars, Call, Acquire, BuildEnvelope, RaiseCorruption,
       Buffer, WriteStart, WriteMore, Fsync, Return, CloseFails, Verify, WriteFails,
       Interrupt, Kill, PowerLoss
  <2>2. QED
    BY <1>0, <2>1, FileFacts
<1>2. CASE ledger' = ledger
  BY <1>0, <1>1, <1>2, FileFacts DEF IdsGrow
<1>3. ASSUME NEW p \in Procs, WriteStart(p)
      PROVE  IdsGrow'
  <2>1. /\ Len(ledger') = Len(ledger) + 1
        /\ \A i \in 1..Len(ledger) : ledger'[i] = ledger[i]
        /\ ledger'[Len(ledger) + 1] = rec[p]
        /\ nextId' = nextId
    BY <1>0, <1>3, WriteStartGrows DEF WriteStart
  <2>2. rec[p].id < nextId /\ \A i \in 1..Len(ledger) : ledger[i].id < rec[p].id
    BY <1>0, <1>3 DEF WriterOK, WriteStart
  <2>3. \A i \in 1..Len(ledger') : i \in 1..Len(ledger) \/ i = Len(ledger) + 1
    BY <1>0, <2>1, FileFacts
  <2>4. \A i \in 1..Len(ledger') : ledger'[i].id < nextId'
    BY <1>0, <2>1, <2>2, <2>3 DEF IdsGrow
  <2>5. \A i, j \in 1..Len(ledger') : i < j => ledger'[i].id < ledger'[j].id
    <3>1. SUFFICES ASSUME NEW i \in 1..Len(ledger'), NEW j \in 1..Len(ledger'), i < j
                   PROVE  ledger'[i].id < ledger'[j].id
      OBVIOUS
    <3>2. i \in 1..Len(ledger)
      BY <1>0, <2>1, <2>3, <3>1, FileFacts
    <3>3. QED
      BY <1>0, <2>1, <2>2, <2>3, <3>1, <3>2 DEF IdsGrow
  <2>6. QED
    BY <2>4, <2>5 DEF IdsGrow
<1>4. ASSUME NEW p \in Procs, WriteMore(p)
      PROVE  IdsGrow'
  <2>1. PICK e : e = IF pc[p] = "torn" THEN "whole" ELSE "line"
    OBVIOUS
  <2>2. Len(ledger') = Len(ledger) /\ SameBut(ledger', ledger, e) /\ nextId' = nextId
    BY <1>0, <1>4, <2>1, WriteMoreMarks DEF WriteMore
  <2>3. \A i \in 1..Len(ledger) : ledger'[i].id = ledger[i].id
    BY <1>0, <2>2, FileFacts DEF SameBut
  <2>4. QED
    BY <1>0, <2>2, <2>3 DEF IdsGrow
<1>5. CASE PowerLoss
  <2>1. /\ Len(ledger') \in synced..Len(ledger)
        /\ \A i \in 1..Len(ledger') : ledger'[i].id = ledger[i].id
        /\ nextId' = nextId
    BY <1>0, <1>5, PowerLossCut DEF PowerLoss
  <2>2. \A i \in 1..Len(ledger') : i \in 1..Len(ledger)
    BY <1>0, <2>1, FileFacts
  <2>3. QED
    BY <1>0, <2>1, <2>2 DEF IdsGrow
<1>6. QED
  BY <1>2, <1>3, <1>4, <1>5, LedgerChanges

\* The end of the file keeps fitting a process that a step does not concern,
\* if the step leaves the file alone.
LEMMA BystanderOK ==
  ASSUME NEW q \in Procs, WriterOK(q), TypeOK, ledger' = ledger,
         synced' = synced, nextId' = nextId \/ nextId' = nextId + 1,
         rec'[q] = rec[q], pc'[q] = pc[q], at'[q] = at[q]
  PROVE  WriterOK(q)'
<1>1. nextId \in Nat /\ rec[q].id \in Nat
  BY FileFacts
<1>2. rec[q].id < nextId => rec[q].id < nextId'
  BY <1>1
<1>3. QED
  BY <1>2 DEF WriterOK, Tip, TailMalformed, Parses, Alone, Wrote

\* A process without an envelope to write is no concern of the file's end.
LEMMA IdleOK ==
  ASSUME NEW q \in Procs, pc'[q] \notin Drafting, rec'[q].end = "torn"
  PROVE  WriterOK(q)'
  BY DEF WriterOK, Drafting, Wrote

LEMMA OutOK ==
  ASSUME TypeOK, NEW p \in Procs, Out(p), \A q \in Procs : WriterOK(q),
         ledger' = ledger, synced' = synced, nextId' = nextId
  PROVE  \A q \in Procs : WriterOK(q)'
<1>1. CASE Leave(p)
  <2>1. \A q \in Procs \ {p} : rec'[q] = rec[q] /\ pc'[q] = pc[q] /\ at'[q] = at[q]
    BY <1>1, LeaveType
  <2>2. rec'[p] = Blank /\ pc'[p] = "idle"
    BY <1>1, LeaveType
  <2>3. WriterOK(p)'
    BY <2>2, IdleOK DEF Drafting, Wrote, Blank
  <2>4. QED
    BY <2>1, <2>3, BystanderOK
<1>2. CASE pc' = pc /\ rec' = rec /\ at' = at
  BY <1>2, BystanderOK
<1>3. QED
  BY <1>1, <1>2 DEF Out

LEMMA WriterStep == TypeInv /\ OrderInv /\ [Next]_vars => WriterInv'
<1> SUFFICES ASSUME TypeInv, OrderInv, [Next]_vars
             PROVE  \A q \in Procs : WriterOK(q)'
  BY DEF WriterInv
<1>0. /\ TypeOK /\ HasPiece /\ IdsGrow
      /\ \A q \in Procs : WriterOK(q)
      /\ \A q, r \in Procs : pc[q] \in Drafting /\ pc[r] \in Drafting => q = r
  BY DEF TypeInv, OrderInv, Exclusive, WriterInv
<1>1. ASSUME NEW p \in Procs, Call(p)
      PROVE  \A q \in Procs : WriterOK(q)'
  <2>1. PICK k \in Kinds : rec' = [rec EXCEPT ![p] = [Blank EXCEPT !.kind = k]]
    BY <1>1 DEF Call
  <2>2. rec'[p].end = "torn" /\ pc'[p] = "waiting"
    BY <1>0, <1>1, <2>1 DEF TypeOK, Blank, Call, Goto
  <2>3. WriterOK(p)'
    BY <2>2, IdleOK DEF Drafting, Wrote
  <2>4. QED
    BY <1>0, <1>1, <2>1, <2>3, BystanderOK DEF TypeOK, Call, Goto
<1>2. ASSUME NEW p \in Procs, Acquire(p)
      PROVE  \A q \in Procs : WriterOK(q)'
  <2>1. rec'[p].end = "torn" /\ pc'[p] = "locked"
    BY <1>0, <1>2 DEF WriterOK, Acquire, Goto, TypeOK
  <2>2. WriterOK(p)'
    BY <2>1, IdleOK DEF Drafting, Wrote
  <2>3. QED
    BY <1>0, <1>2, <2>2, BystanderOK DEF TypeOK, Acquire, Goto
<1>3. ASSUME NEW p \in Procs, BuildEnvelope(p)
      PROVE  \A q \in Procs : WriterOK(q)'
  <2>1. /\ rec'[p].end = "torn" /\ rec'[p].id = nextId /\ rec'[p].prev = Tip(ledger)
        /\ pc'[p] = "writing"
    <3>1. ASSUME NEW r \in Envelope, NEW f, f = [r EXCEPT !.id = nextId, !.prev = Tip(ledger)]
          PROVE  f.end = r.end /\ f.id = nextId /\ f.prev = Tip(ledger)
      BY <3>1 DEF Envelope
    <3>2. rec'[p] = [rec[p] EXCEPT !.id = nextId, !.prev = Tip(ledger)]
          /\ pc'[p] = "writing" /\ rec[p] \in Envelope
      BY <1>0, <1>3 DEF BuildEnvelope, Goto, TypeOK
    <3>3. rec[p].end = "torn"
      BY <1>0, <1>3 DEF WriterOK, BuildEnvelope
    <3>4. QED
      BY <3>1, <3>2, <3>3
  <2>2. WriterOK(p)'
    <3>1. nextId < nextId'
      BY <1>0, <1>3, FileFacts DEF BuildEnvelope
    <3>2. ledger' = ledger /\ ~TailMalformed(ledger)
      BY <1>3 DEF BuildEnvelope
    <3>3. \A i \in 1..Len(ledger) : ledger[i].id < nextId
      BY <1>0 DEF IdsGrow
    <3>4. Tip(ledger)' = Tip(ledger) /\ ~TailMalformed(ledger)'
      BY <3>2 DEF Tip, TailMalformed, Parses, Alone
    <3>5. QED
      BY <2>1, <3>1, <3>2, <3>3, <3>4 DEF WriterOK, Wrote
  <2>3. QED
    BY <1>0, <1>3, <2>2, BystanderOK DEF TypeOK, BuildEnvelope, Goto
<1>4. ASSUME NEW p \in Procs, Buffer(p)
      PROVE  \A q \in Procs : WriterOK(q)'
  <2>1. /\ ledger' = ledger /\ rec' = rec /\ synced' = synced /\ nextId' = nextId
        /\ pc[p] = "writing" /\ pc'[p] = "buffered" /\ at'[p] = Len(ledger)
        /\ \A q \in Procs \ {p} : pc'[q] = pc[q] /\ at'[q] = at[q]
    BY <1>0, <1>4 DEF Buffer, Goto, TypeOK
  <2>2. /\ rec[p].end = "torn" /\ rec[p].prev = Tip(ledger) /\ ~TailMalformed(ledger)
        /\ rec[p].id < nextId /\ \A i \in 1..Len(ledger) : ledger[i].id < rec[p].id
    BY <1>0, <2>1 DEF WriterOK
  <2>3. Tip(ledger)' = Tip(ledger) /\ ~TailMalformed(ledger)'
    BY <2>1, <2>2 DEF Tip, TailMalformed, Parses, Alone
  <2>4. WriterOK(p)'
    BY <2>1, <2>2, <2>3 DEF WriterOK, Wrote
  <2>5. QED
    BY <1>0, <2>1, <2>4, BystanderOK
<1>5. ASSUME NEW p \in Procs, WriteStart(p)
      PROVE  \A q \in Procs : WriterOK(q)'
  <2>1. /\ Len(ledger') = Len(ledger) + 1
        /\ ledger'[Len(ledger) + 1] = rec[p]
        /\ rec' = rec /\ at' = at /\ synced' = synced /\ pc[p] = "buffered"
        /\ pc' = [pc EXCEPT ![p] = "torn"]
    BY <1>0, <1>5, WriteStartGrows DEF WriteStart, Goto
  <2>2. pc'[p] = "torn" /\ \A q \in Procs \ {p} : pc'[q] = pc[q]
    BY <1>0, <2>1 DEF TypeOK
  <2>3. rec[p].end = "torn" /\ at[p] = Len(ledger)
    BY <1>0, <2>1 DEF WriterOK
  <2>4. WriterOK(p)'
    BY <1>0, <2>1, <2>2, <2>3, FileFacts DEF WriterOK, Wrote
  <2>5. \A q \in Procs \ {p} : pc[q] \notin Drafting
    BY <1>0, <2>1 DEF Drafting
  <2>6. \A q \in Procs \ {p} : rec'[q].end = "torn"
    BY <1>0, <2>1 DEF WriterOK
  <2>7. \A q \in Procs \ {p} : WriterOK(q)'
    BY <2>2, <2>5, <2>6, IdleOK
  <2>8. QED
    BY <2>4, <2>7
<1>6. ASSUME NEW p \in Procs, WriteMore(p)
      PROVE  \A q \in Procs : WriterOK(q)'
  <2>1. PICK e : e = IF pc[p] = "torn" THEN "whole" ELSE "line"
    OBVIOUS
  <2>2. /\ Len(ledger') = Len(ledger)
        /\ SameBut(ledger', ledger, e)
        /\ synced' = synced /\ pc[p] \in {"torn", "whole"}
        /\ pc' = [pc EXCEPT ![p] = After(p, e)]
    BY <1>0, <1>6, <2>1, WriteMoreMarks DEF WriteMore
  <2>3. /\ \A q \in Procs : q # p => rec'[q] = rec[q] /\ at'[q] = at[q]
        /\ IF e = "line" /\ lock # p THEN rec'[p] = Blank ELSE rec' = rec /\ at' = at
    BY <1>0, <1>6, <2>1, WriteMoreType
  <2>4. pc'[p] = After(p, e) /\ \A q \in Procs \ {p} : pc'[q] = pc[q]
    BY <1>0, <2>2 DEF TypeOK
  <2>5. WriterOK(p)'
    <3>1. CASE e = "line" /\ lock # p
      <4>1. pc'[p] = "idle" /\ rec'[p] = Blank
        BY <2>3, <2>4, <3>1 DEF After
      <4>2. QED
        BY <4>1, IdleOK DEF Drafting, Wrote, Blank
    <3>2. CASE ~(e = "line" /\ lock # p)
      <4>1. pc'[p] = e /\ rec' = rec /\ at' = at /\ e \in {"whole", "line"}
        BY <2>1, <2>3, <2>4, <3>2 DEF After
      <4>2. /\ rec[p].end = "torn" /\ Len(ledger) = at[p] + 1
            /\ ledger[Len(ledger)].id = rec[p].id
            /\ ledger[Len(ledger)].prev = rec[p].prev
            /\ ledger[Len(ledger)].kind = rec[p].kind
            /\ synced < Len(ledger)
        BY <1>0, <2>2 DEF WriterOK, Wrote
      <4>3. /\ ledger'[Len(ledger')].id = rec'[p].id
            /\ ledger'[Len(ledger')].prev = rec'[p].prev
            /\ ledger'[Len(ledger')].kind = rec'[p].kind
            /\ ledger'[Len(ledger')].end = e
        BY <2>2, <4>1, <4>2 DEF SameBut
      <4>4. rec'[p].end = "torn" /\ Len(ledger') = at'[p] + 1 /\ synced' < Len(ledger')
        BY <2>2, <4>1, <4>2
      <4>5. QED
        BY <4>1, <4>3, <4>4 DEF WriterOK, Wrote
    <3>3. QED
      BY <3>1, <3>2
  <2>6. \A q \in Procs \ {p} : pc[q] \notin Drafting
    BY <1>0, <2>2 DEF Drafting, Wrote
  <2>7. \A q \in Procs \ {p} : rec'[q].end = "torn"
    BY <1>0, <2>3 DEF WriterOK
  <2>8. \A q \in Procs \ {p} : WriterOK(q)'
    BY <2>4, <2>6, <2>7, IdleOK
  <2>9. QED
    BY <2>5, <2>8
<1>7. ASSUME NEW p \in Procs, Fsync(p)
      PROVE  \A q \in Procs : WriterOK(q)'
  <2>1. /\ ledger' = ledger /\ rec' = rec /\ at' = at /\ synced' = Len(ledger)
        /\ pc[p] = "line" /\ pc'[p] = "synced"
        /\ \A q \in Procs \ {p} : pc'[q] = pc[q]
    BY <1>0, <1>7 DEF Fsync, FsyncCovers, Goto, TypeOK
  <2>2. WriterOK(p)'
    BY <1>0, <2>1 DEF WriterOK, Wrote
  <2>3. \A q \in Procs \ {p} : pc[q] \notin Drafting
    BY <1>0, <2>1 DEF Drafting, Wrote
  <2>4. \A q \in Procs \ {p} : rec'[q].end = "torn"
    BY <1>0, <2>1 DEF WriterOK
  <2>5. \A q \in Procs \ {p} : WriterOK(q)'
    BY <2>1, <2>3, <2>4, IdleOK
  <2>6. QED
    BY <2>2, <2>5
<1>8. ASSUME NEW p \in Procs,
             RaiseCorruption(p) \/ Return(p) \/ CloseFails(p) \/ WriteFails(p)
             \/ Interrupt(p) \/ Kill(p)
      PROVE  \A q \in Procs : WriterOK(q)'
  BY <1>0, <1>8, EndsOut, OutOK
<1>9. ASSUME NEW p \in Procs, Verify(p)
      PROVE  \A q \in Procs : WriterOK(q)'
  BY <1>0, <1>9, BystanderOK DEF Verify
<1>10. CASE PowerLoss
  BY <1>10, IdleOK DEF PowerLoss, Drafting, Wrote, Blank
<1>11. CASE UNCHANGED vars
  BY <1>0, <1>11, BystanderOK DEF vars
<1>12. QED
  BY <1>1, <1>2, <1>3, <1>4, <1>5, <1>6, <1>7, <1>8, <1>9, <1>10, <1>11 DEF Next, AppendStep

-----------------------------------------------------------------------------
(* The three safety properties *)

LEMMA LinkedStep ==
  TypeInv /\ OrderInv /\ ~exposed /\ ChainLinked /\ [Next]_vars => ChainLinked'
<1> SUFFICES ASSUME TypeInv, OrderInv, ~exposed, ChainLinked, [Next]_vars
             PROVE  ChainLinked'
  OBVIOUS
<1>0. TypeOK /\ \A p \in Procs : WriterOK(p)
  BY DEF TypeInv, OrderInv, WriterInv
<1>1. CASE ledger' = ledger
  BY <1>1 DEF ChainLinked
<1>2. ASSUME NEW p \in Procs, WriteStart(p)
      PROVE  ChainLinked'
  <2>1. /\ Len(ledger') = Len(ledger) + 1
        /\ \A i \in 1..Len(ledger) : ledger'[i] = ledger[i]
        /\ ledger'[Len(ledger) + 1] = rec[p]
    BY <1>0, <1>2, WriteStartGrows
  <2>2. rec[p].prev = Tip(ledger)
    BY <1>0, <1>2 DEF WriterOK, WriteStart
  <2>3. ASSUME NEW i \in 1..Len(ledger'), i # Len(ledger) + 1
        PROVE  ledger'[i].prev = IF i = 1 THEN NULL_HASH ELSE ledger'[i-1].id
    <3>1. i \in 1..Len(ledger) /\ (i # 1 => i - 1 \in 1..Len(ledger))
      BY <1>0, <2>1, <2>3, FileFacts
    <3>2. QED
      BY <2>1, <3>1 DEF ChainLinked
  <2>4. LET n == Len(ledger) + 1
        IN  ledger'[n].prev = IF n = 1 THEN NULL_HASH ELSE ledger'[n-1].id
    <3>1. CASE ledger = <<>>
      BY <1>0, <2>1, <2>2, <3>1, FileFacts DEF Tip
    <3>2. CASE ledger # <<>>
      <4>1. Len(ledger) \in 1..Len(ledger) /\ Len(ledger) + 1 # 1
            /\ (Len(ledger) + 1) - 1 = Len(ledger)
        BY <1>0, <3>2, FileFacts
      <4>2. QED
        BY <2>1, <2>2, <3>2, <4>1 DEF Tip
    <3>3. QED
      BY <3>1, <3>2
  <2>5. QED
    BY <2>3, <2>4 DEF ChainLinked
<1>3. ASSUME NEW p \in Procs, WriteMore(p)
      PROVE  ChainLinked'
  <2>1. PICK e : e = IF pc[p] = "torn" THEN "whole" ELSE "line"
    OBVIOUS
  <2>2. Len(ledger') = Len(ledger) /\ SameBut(ledger', ledger, e)
    BY <1>0, <1>3, <2>1, WriteMoreMarks
  <2>3. \A i \in 1..Len(ledger) : ledger'[i].id = ledger[i].id /\ ledger'[i].prev = ledger[i].prev
    <3>1. \A i \in 1..Len(ledger) : i \in 1..Len(ledger)-1 \/ i = Len(ledger)
      BY <1>0, FileFacts
    <3>2. QED
      BY <2>2, <3>1 DEF SameBut
  <2>4. \A i \in 1..Len(ledger) : i # 1 => i - 1 \in 1..Len(ledger)
    BY <1>0, FileFacts
  <2>5. QED
    BY <2>2, <2>3, <2>4 DEF ChainLinked
<1>4. CASE PowerLoss
  <2>1. /\ Len(ledger') \in synced..Len(ledger)
        /\ \A i \in 1..Len(ledger') :
             ledger'[i].id = ledger[i].id /\ ledger'[i].prev = ledger[i].prev
    BY <1>0, <1>4, PowerLossCut
  <2>2. \A i \in 1..Len(ledger') :
          i \in 1..Len(ledger) /\ (i # 1 => i - 1 \in 1..Len(ledger'))
    BY <1>0, <2>1, FileFacts
  <2>3. QED
    BY <2>1, <2>2 DEF ChainLinked
<1>5. QED
  BY <1>1, <1>2, <1>3, <1>4, LedgerChanges

\* The pieces that an fsync covered are out of reach of every step.
LEMMA SyncedKept ==
  TypeInv /\ OrderInv /\ [Next]_vars =>
    /\ synced <= synced'
    /\ \A i \in 1..synced : ledger'[i] = ledger[i]
<1> SUFFICES ASSUME TypeInv, OrderInv, [Next]_vars
             PROVE  /\ synced <= synced'
                    /\ \A i \in 1..synced : ledger'[i] = ledger[i]
  OBVIOUS
<1>0. /\ TypeOK /\ synced \in Nat /\ synced <= Len(ledger) /\ Len(ledger) \in Nat
      /\ \A p \in Procs : WriterOK(p)
  BY FileFacts DEF TypeInv, OrderInv, WriterInv
<1>1. ASSUME NEW p \in Procs, WriteStart(p)
      PROVE  synced' = synced /\ \A i \in 1..synced : ledger'[i] = ledger[i]
  BY <1>0, <1>1, WriteStartGrows DEF WriteStart
<1>2. ASSUME NEW p \in Procs, WriteMore(p)
      PROVE  synced' = synced /\ \A i \in 1..synced : ledger'[i] = ledger[i]
  <2>1. PICK e : e = IF pc[p] = "torn" THEN "whole" ELSE "line"
    OBVIOUS
  <2>2. Len(ledger') = Len(ledger) /\ SameBut(ledger', ledger, e)
    BY <1>0, <1>2, <2>1, WriteMoreMarks
  <2>3. synced < Len(ledger) /\ synced' = synced
    BY <1>0, <1>2 DEF WriterOK, Wrote, WriteMore
  <2>4. QED
    BY <1>0, <2>2, <2>3 DEF SameBut
<1>3. CASE PowerLoss
  <2>1. /\ Len(ledger') \in synced..Len(ledger)
        /\ \A i \in 1..Len(ledger') : i < Len(ledger') \/ i <= synced => ledger'[i] = ledger[i]
        /\ synced' = Len(ledger')
    BY <1>0, <1>3, PowerLossCut DEF PowerLoss
  <2>2. QED
    BY <1>0, <2>1
<1>4. ASSUME NEW p \in Procs, Fsync(p)
      PROVE  synced' = Len(ledger) /\ ledger' = ledger
  BY <1>4 DEF Fsync, FsyncCovers
<1>5. CASE ledger' = ledger /\ synced' = synced
  BY <1>0, <1>5
<1>6. \/ ledger' = ledger /\ synced' = synced
      \/ \E p \in Procs : WriteStart(p) \/ WriteMore(p) \/ Fsync(p)
      \/ PowerLoss
  BY DEF Next, AppendStep, vars, Call, Acquire, BuildEnvelope, RaiseCorruption,
         Buffer, Return, CloseFails, Verify, WriteFails, Interrupt, Kill
<1>7. QED
  BY <1>0, <1>1, <1>2, <1>3, <1>4, <1>5, <1>6

LEMMA AckedStep ==
  TypeInv /\ OrderInv /\ ~exposed /\ AckedDurable /\ [Next]_vars => AckedDurable'
<1> SUFFICES ASSUME TypeInv, OrderInv, ~exposed, AckedDurable, [Next]_vars
             PROVE  AckedDurable'
  OBVIOUS
<1>0. /\ TypeOK /\ TypeOK'
      /\ synced \in Nat /\ synced' \in Nat /\ synced <= Len(ledger) /\ Len(ledger) \in Nat
      /\ \A p \in Procs : WriterOK(p)
  BY SMTT(20), FileFacts, TypeStep DEF TypeInv, TypeOK, OrderInv, WriterInv
<1>1. synced <= synced' /\ \A i \in 1..synced : ledger'[i] = ledger[i]
  BY SyncedKept
<1>2. 1..synced \subseteq 1..synced'
  BY <1>0, <1>1
<1>3. CASE acked' = acked
  BY <1>1, <1>2, <1>3 DEF AckedDurable
<1>4. ASSUME NEW p \in Procs, Return(p)
      PROVE  AckedDurable'
  <2>1. /\ ledger[Len(ledger)].id = rec[p].id
        /\ ledger[Len(ledger)].end = "line"
        /\ synced = Len(ledger)
    BY <1>0, <1>4 DEF WriterOK, Wrote, Return
  <2>2. Len(ledger) \in 1..synced
    BY <1>0, <1>4, <2>1, FileFacts DEF TypeInv, HasPiece, Return
  <2>3. acked' = acked \cup {rec[p].id} /\ ledger' = ledger /\ synced' = synced
    BY <1>4 DEF Return
  <2>4. QED
    BY <2>1, <2>2, <2>3 DEF AckedDurable
<1>5. acked' = acked \/ \E p \in Procs : Return(p)
  BY DEF Next, AppendStep, vars, Call, Acquire, BuildEnvelope, RaiseCorruption,
         Buffer, WriteStart, WriteMore, Fsync, CloseFails, Verify, WriteFails,
         Interrupt, Kill, PowerLoss
<1>6. QED
  BY <1>3, <1>4, <1>5

\* Whether a piece before the last is readable depends on it and on the piece
\* before it.
LEMMA ParsesInside ==
  ASSUME NEW f, NEW g, NEW i \in Nat, i < Len(f), i < Len(g), i > 0,
         Len(f) \in Nat, Len(g) \in Nat,
         g[i].end = f[i].end, g[i].kind = f[i].kind,
         i > 1 => g[i-1].end = f[i-1].end
  PROVE  Parses(g, i) <=> Parses(f, i)
  BY DEF Parses, Alone

LEMMA DamageStep ==
  TypeInv /\ OrderInv /\ ~exposed /\ DamageOnlyAtEnd /\ [Next]_vars => DamageOnlyAtEnd'
<1> SUFFICES ASSUME TypeInv, OrderInv, ~exposed, DamageOnlyAtEnd, [Next]_vars
             PROVE  DamageOnlyAtEnd'
  OBVIOUS
<1> DEFINE n == Len(ledger)
           Fine(f, i) == \/ Parses(f, i)
                         \/ i = Len(f)
                         \/ i = Len(f) - 1 /\ f[i].end = "whole"
<1>0. /\ TypeOK /\ n \in Nat /\ (ledger = <<>> <=> n = 0) /\ synced \in Nat
      /\ \A p \in Procs : WriterOK(p)
  BY FileFacts DEF TypeInv, OrderInv, WriterInv
<1>1. \A i \in 1..n : Fine(ledger, i)
  BY DEF DamageOnlyAtEnd
<1>2. SUFFICES \A i \in 1..Len(ledger') : Fine(ledger', i)
  BY DEF DamageOnlyAtEnd
<1>3. CASE ledger' = ledger
  BY <1>1, <1>3
<1>4. ASSUME NEW p \in Procs, WriteStart(p)
      PROVE  \A i \in 1..Len(ledger') : Fine(ledger', i)
  <2>1. Len(ledger') = n + 1 /\ \A i \in 1..n : ledger'[i] = ledger[i]
    BY <1>0, <1>4, WriteStartGrows
  <2>2. ~TailMalformed(ledger)
    BY <1>0, <1>4 DEF WriterOK, WriteStart
  <2>3. SUFFICES ASSUME NEW i \in 1..Len(ledger') PROVE Fine(ledger', i)
    OBVIOUS
  <2>4. CASE i = n + 1
    BY <2>1, <2>4
  <2>5. CASE i = n
    <3>1. Parses(ledger, n) /\ n > 0
      BY <1>0, <2>2, <2>3, <2>5 DEF TailMalformed
    <3>2. ledger'[n] = ledger[n] /\ (n > 1 => ledger'[n-1] = ledger[n-1])
      BY <1>0, <2>1, <3>1
    <3>3. n - 1 \in Nat /\ n = Len(ledger') - 1 /\ ledger[n].end # "torn"
      BY <1>0, <2>1, <3>1 DEF Parses
    <3>4. ledger[n] \in Envelope
      BY <1>0, <3>1, FileFacts
    <3>5. ledger[n].end \in {"whole", "line"}
      BY <3>3, <3>4 DEF Envelope, Ends
    <3>6. CASE ledger[n].end = "whole"
      BY <2>5, <3>2, <3>3, <3>6
    <3>7. CASE ledger[n].end = "line"
      BY <1>0, <2>1, <2>5, <3>1, <3>2, <3>7 DEF Parses, Alone
    <3>8. QED
      BY <3>5, <3>6, <3>7
  <2>6. CASE i \in 1..n-1
    <3>1. i \in Nat /\ i > 0 /\ i < n /\ i < Len(ledger') /\ i \in 1..n
          /\ (i > 1 => i - 1 \in 1..n)
      BY <1>0, <2>1, <2>6
    <3>2. Parses(ledger, i)
      <4>1. CASE i = n - 1
        <5>1. n > 0 /\ n # 1 /\ n > 1
          BY <1>0, <3>1, <4>1
        <5>2. Parses(ledger, n)
          BY <1>0, <2>2, <5>1 DEF TailMalformed
        <5>3. ledger[n-1].end = "line"
          BY <5>1, <5>2 DEF Parses, Alone
        <5>4. QED
          BY <1>0, <1>1, <3>1, <4>1, <5>3
      <4>2. CASE i # n - 1
        BY <1>0, <1>1, <3>1, <4>2
      <4>3. QED
        BY <4>1, <4>2
    <3>3. ledger'[i] = ledger[i] /\ (i > 1 => ledger'[i-1] = ledger[i-1])
      BY <2>1, <3>1
    <3>4. Parses(ledger', i)
      BY <1>0, <2>1, <3>1, <3>2, <3>3, ParsesInside
    <3>5. QED
      BY <3>4
  <2>7. i = n + 1 \/ i = n \/ i \in 1..n-1
    BY <1>0, <2>1, <2>3
  <2>8. QED
    BY <2>4, <2>5, <2>6, <2>7
<1>5. ASSUME NEW p \in Procs, WriteMore(p)
      PROVE  \A i \in 1..Len(ledger') : Fine(ledger', i)
  <2>1. PICK e : e = IF pc[p] = "torn" THEN "whole" ELSE "line"
    OBVIOUS
  <2>2. Len(ledger') = n /\ \A i \in 1..n-1 : ledger'[i] = ledger[i]
    BY <1>0, <1>5, <2>1, WriteMoreMarks DEF SameBut
  <2>3. SUFFICES ASSUME NEW i \in 1..n PROVE Fine(ledger', i)
    BY <2>2
  <2>4. CASE i = n
    BY <2>2, <2>4
  <2>5. CASE i # n
    <3>1. i \in Nat /\ i > 0 /\ i < n /\ i \in 1..n-1 /\ (i > 1 => i - 1 \in 1..n-1)
      BY <1>0, <2>3, <2>5
    <3>2. ledger'[i] = ledger[i] /\ (i > 1 => ledger'[i-1] = ledger[i-1])
      BY <2>2, <3>1
    <3>3. Parses(ledger', i) <=> Parses(ledger, i)
      BY <1>0, <2>2, <3>1, <3>2, ParsesInside
    <3>4. QED
      BY <1>1, <2>2, <3>1, <3>2, <3>3
  <2>6. QED
    BY <2>4, <2>5
<1>6. CASE PowerLoss
  <2> DEFINE m == Len(ledger')
  <2>1. m \in synced..n /\ \A i \in 1..m : i < m => ledger'[i] = ledger[i]
    BY <1>0, <1>6, PowerLossCut
  <2>2. m \in Nat /\ m <= n
    BY <1>0, <2>1
  <2>3. SUFFICES ASSUME NEW i \in 1..m PROVE Fine(ledger', i)
    OBVIOUS
  <2>4. CASE i = m
    BY <2>4
  <2>5. CASE i # m
    <3>1. i \in Nat /\ i > 0 /\ i < m /\ i < n /\ i \in 1..n
          /\ (i > 1 => i - 1 \in 1..m /\ i - 1 < m)
      BY <1>0, <2>2, <2>3, <2>5
    <3>2. ledger'[i] = ledger[i] /\ (i > 1 => ledger'[i-1] = ledger[i-1])
      BY <2>1, <2>3, <3>1
    <3>3. Parses(ledger', i) <=> Parses(ledger, i)
      BY <1>0, <2>2, <3>1, <3>2, ParsesInside
    <3>4. i = n - 1 => i = m - 1
      BY <1>0, <2>2, <3>1
    <3>5. QED
      BY <1>0, <1>1, <3>1, <3>2, <3>3, <3>4
  <2>6. QED
    BY <2>4, <2>5
<1>7. QED
  BY <1>3, <1>4, <1>5, <1>6, LedgerChanges

-----------------------------------------------------------------------------
LEMMA InvInit == Init => IInv
<1> SUFFICES ASSUME Init PROVE IInv
  OBVIOUS
<1>1. TypeInv
  BY TypeInit
<1>2. Len(ledger) = 0 /\ \A i \in 1..Len(ledger) : FALSE
  BY EmptySeq DEF Init
<1>3. LockInv
  BY DEF Init, LockInv, Holding
<1>4. Exclusive /\ WriterInv
  BY DEF Init, Exclusive, WriterInv, WriterOK, Drafting, Wrote, Blank
<1>5. IdsGrow /\ ChainLinked /\ AckedDurable /\ DamageOnlyAtEnd
  BY <1>2 DEF Init, IdsGrow, ChainLinked, AckedDurable, DamageOnlyAtEnd
<1>6. QED
  BY <1>1, <1>3, <1>4, <1>5 DEF IInv, OrderInv

LEMMA InvStep == IInv /\ [Next]_vars => IInv'
<1> SUFFICES ASSUME IInv, [Next]_vars PROVE IInv'
  OBVIOUS
<1>1. TypeInv /\ LockInv /\ TypeOK /\ TypeInv' /\ LockInv'
  BY TypeStep, LockStep DEF IInv, TypeInv
<1>2. CASE exposed'
  BY <1>1, <1>2 DEF IInv, ChainLinked, AckedDurable, DamageOnlyAtEnd
<1>3. CASE ~exposed'
  <2>1. ~exposed /\ OrderInv /\ Exclusive
    BY <1>3, ExposedStays DEF IInv, OrderInv
  <2>2. Exclusive' /\ WriterInv' /\ IdsGrow'
    BY <1>1, <1>3, <2>1, ExclusiveStep, WriterStep, IdsStep
  <2>3. ChainLinked' /\ AckedDurable' /\ DamageOnlyAtEnd'
    BY <1>1, <2>1, LinkedStep, AckedStep, DamageStep DEF IInv
  <2>4. QED
    BY <1>1, <2>2, <2>3 DEF IInv, OrderInv
<1>4. QED
  BY <1>2, <1>3

LEMMA Invariant == Spec => []IInv
  BY InvInit, InvStep, PTL DEF Spec

\* Until somebody reads the tip during the late close() of a failed append,
\* the chain never forks and never has a gap: each envelope in the file links
\* to the one before it, for any number of writers and any faults.
THEOREM ChainIsLinked == Spec => []ChainLinked
<1>1. IInv => ChainLinked
  BY DEF IInv
<1>2. QED
  BY <1>1, Invariant, PTL

\* No fault takes away an event whose append() has returned, until somebody
\* reads the tip during the late close() of a failed append.
THEOREM AckedIsDurable == Spec => []AckedDurable
<1>1. IInv => AckedDurable
  BY DEF IInv
<1>2. QED
  BY <1>1, Invariant, PTL

\* Damage stays at the end of the file (until a tip is read too early).
THEOREM DamageStaysAtEnd == Spec => []DamageOnlyAtEnd
<1>1. IInv => DamageOnlyAtEnd
  BY DEF IInv
<1>2. QED
  BY <1>1, Invariant, PTL

\* A ledger that ends in a malformed line takes no event again (until a tip
\* is read too early).
THEOREM StuckStaysStuck == Spec => StuckIsFinal
<1>1. IInv /\ [Next]_vars =>
        [Stuck /\ ~exposed => (ledger' = ledger \/ faults' > faults)]_vars
  <2> SUFFICES ASSUME IInv, [Next]_vars, Stuck, ~exposed
               PROVE  ledger' = ledger \/ faults' > faults
    OBVIOUS
  <2>1. ASSUME NEW p \in Procs, WriteStart(p)
        PROVE  FALSE
    BY <2>1 DEF IInv, OrderInv, WriterInv, WriterOK, WriteStart, Stuck, TailMalformed
  <2>2. ASSUME NEW p \in Procs, WriteMore(p)
        PROVE  FALSE
    BY <2>2 DEF Stuck, WriteMore
  <2>3. CASE PowerLoss
    BY <2>3 DEF PowerLoss, Fault, IInv, TypeInv, TypeOK
  <2>4. QED
    BY <2>1, <2>2, <2>3, LedgerChanges
<1>2. QED
  BY <1>1, Invariant, PTL DEF Spec, StuckIsFinal
-----------------------------------------------------------------------------
(***************************************************************************)
(* What a check saw stays true as long as nothing fails.  CleanTail is what*)
(* it takes: a file that does not end in a newline is being written, so    *)
(* that nobody else appends to it.                                         *)
(***************************************************************************)
CleanTail ==
  faults = 0 => \/ ledger = <<>>
                \/ ledger[Len(ledger)].end = "line"
                \/ \E p \in Procs : pc[p] \in {"torn", "whole"}

\* Without a fault every append() flushes under its lock.
Unfaulted ==
  faults = 0 => ~exposed /\ \A p \in Procs : pc[p] \in Unflushed => lock = p

CheckInv == IInv /\ Unfaulted /\ CleanTail /\ PassedChecksStand

\* A step after which nothing has failed is none of the faults.
LEMMA Unfailed ==
  ASSUME TypeOK, [Next]_vars, faults' = 0
  PROVE  /\ faults = 0
         /\ ~PowerLoss
         /\ \A p \in Procs : ~WriteFails(p) /\ ~Interrupt(p) /\ ~Kill(p)
<1> USE DEF TypeOK
<1>1. ~PowerLoss /\ \A p \in Procs : ~WriteFails(p) /\ ~Interrupt(p) /\ ~Kill(p)
  BY DEF PowerLoss, WriteFails, Interrupt, Kill, Fault
<1>2. faults = 0
  BY <1>1 DEF Next, AppendStep, vars, Call, Acquire, BuildEnvelope, RaiseCorruption,
         Buffer, WriteStart, WriteMore, Fsync, Return, CloseFails, Verify
<1>3. QED
  BY <1>1, <1>2

LEMMA UnfaultedStep == IInv /\ Unfaulted /\ [Next]_vars => Unfaulted'
<1> SUFFICES ASSUME IInv, Unfaulted, [Next]_vars, faults' = 0
             PROVE  ~exposed' /\ \A p \in Procs : pc'[p] \in Unflushed => lock' = p
  BY DEF Unfaulted
<1>1. /\ TypeOK /\ LockInv /\ faults = 0 /\ ~PowerLoss
      /\ \A p \in Procs : ~WriteFails(p) /\ ~Interrupt(p) /\ ~Kill(p)
  BY Unfailed DEF IInv, TypeInv
<1>2. ~exposed /\ \A p \in Procs : pc[p] \in Unflushed => lock = p
  BY <1>1 DEF Unfaulted
<1> USE DEF Unflushed
<1>3. ASSUME NEW p \in Procs, BuildEnvelope(p)
      PROVE  ~exposed' /\ \A q \in Procs : pc'[q] \in Unflushed => lock' = q
  <2>1. pc[p] = "locked" /\ lock = p
    BY <1>1, <1>3 DEF BuildEnvelope, LockInv, Holding
  <2>2. \A q \in Procs : pc[q] \notin Unflushed
    BY <1>2, <2>1
  <2>3. QED
    BY <1>1, <1>2, <1>3, <2>2 DEF BuildEnvelope, Goto, TypeOK
<1>4. ASSUME NEW p \in Procs, RaiseCorruption(p) \/ Return(p) \/ CloseFails(p)
      PROVE  ~exposed' /\ \A q \in Procs : pc'[q] \in Unflushed => lock' = q
  <2>1. Out(p) /\ exposed' = exposed
    BY <1>4, EndsOut
  <2>2. Leave(p)
    BY <1>4 DEF RaiseCorruption, Return, CloseFails
  <2>3. QED
    BY <1>1, <1>2, <2>1, <2>2 DEF Leave, Unlock, Goto, TypeOK
<1>5. ASSUME NEW p \in Procs, WriteMore(p)
      PROVE  ~exposed' /\ \A q \in Procs : pc'[q] \in Unflushed => lock' = q
  <2>1. PICK e : e = IF pc[p] = "torn" THEN "whole" ELSE "line"
    OBVIOUS
  <2>2. /\ pc' = [pc EXCEPT ![p] = After(p, e)] /\ lock' = lock /\ exposed' = exposed
        /\ pc[p] \in Unflushed
    BY <1>1, <1>5, <2>1, WriteMoreType DEF WriteMore
  <2>3. QED
    BY <1>1, <1>2, <2>2 DEF TypeOK
<1>6. ASSUME NEW p \in Procs, Acquire(p)
      PROVE  ~exposed' /\ \A q \in Procs : pc'[q] \in Unflushed => lock' = q
  BY <1>1, <1>2, <1>6, LedgerAssumption DEF Acquire, Goto, TypeOK
<1>7. ASSUME NEW p \in Procs, Call(p) \/ Buffer(p) \/ WriteStart(p) \/ Fsync(p)
      PROVE  ~exposed' /\ \A q \in Procs : pc'[q] \in Unflushed => lock' = q
  BY <1>1, <1>2, <1>7 DEF Call, Buffer, WriteStart, Fsync, Goto, TypeOK, LockInv, Holding
<1>8. ASSUME (\E p \in Procs : Verify(p)) \/ UNCHANGED vars
      PROVE  ~exposed' /\ \A q \in Procs : pc'[q] \in Unflushed => lock' = q
  BY <1>2, <1>8 DEF Verify, vars
<1>9. QED
  BY <1>1, <1>3, <1>4, <1>5, <1>6, <1>7, <1>8 DEF Next, AppendStep

LEMMA CleanTailStep == IInv /\ Unfaulted /\ CleanTail /\ [Next]_vars => CleanTail'
<1> SUFFICES ASSUME IInv, Unfaulted, CleanTail, [Next]_vars, faults' = 0
             PROVE  \/ ledger' = <<>>
                    \/ ledger'[Len(ledger')].end = "line"
                    \/ \E p \in Procs : pc'[p] \in {"torn", "whole"}
  BY DEF CleanTail
<1>1. /\ TypeOK /\ TypeInv /\ faults = 0 /\ ~PowerLoss
      /\ \A p \in Procs : ~WriteFails(p) /\ ~Interrupt(p) /\ ~Kill(p)
  BY Unfailed DEF IInv, TypeInv
<1>0. \A p \in Procs : WriterOK(p) /\ (pc[p] \in Unflushed => lock = p)
  BY <1>1 DEF Unfaulted, IInv, OrderInv, WriterInv
<1>2. ASSUME NEW p \in Procs, WriteStart(p)
      PROVE  \E q \in Procs : pc'[q] \in {"torn", "whole"}
  BY <1>1, <1>2 DEF WriteStart, Goto, TypeOK
<1>3. ASSUME NEW p \in Procs, WriteMore(p)
      PROVE  \/ ledger'[Len(ledger')].end = "line"
             \/ \E q \in Procs : pc'[q] \in {"torn", "whole"}
  <2>1. PICK e : e = IF pc[p] = "torn" THEN "whole" ELSE "line"
    OBVIOUS
  <2>2. /\ Len(ledger') = Len(ledger) /\ SameBut(ledger', ledger, e)
        /\ pc' = [pc EXCEPT ![p] = After(p, e)]
    BY <1>0, <1>1, <1>3, <2>1, WriteMoreMarks
  <2>3. QED
    BY <1>1, <2>1, <2>2 DEF SameBut, TypeOK, After
<1>4. ASSUME ledger' = ledger, NEW q \in Procs, pc[q] \in {"torn", "whole"},
             ~WriteMore(q)
      PROVE  pc'[q] \in {"torn", "whole"}
  <2>1. ASSUME NEW p \in Procs, Leave(p), pc[p] \notin {"torn", "whole"}
        PROVE  pc'[q] = pc[q]
    BY <1>1, <1>4, <2>1 DEF Leave, Goto, TypeOK
  <2>2. ASSUME NEW p \in Procs, AppendStep(p)
        PROVE  pc'[q] \in {"torn", "whole"}
    <3>1. CASE Acquire(p) \/ BuildEnvelope(p) \/ Buffer(p) \/ Fsync(p)
      BY <1>1, <1>4, <3>1 DEF Acquire, BuildEnvelope, Buffer, Fsync, Goto, TypeOK
    <3>2. CASE RaiseCorruption(p) \/ Return(p)
      BY <1>4, <2>1, <3>2 DEF RaiseCorruption, Return
    <3>3. CASE WriteStart(p)
      BY <1>1, <1>4, <3>3 DEF WriteStart, Goto, TypeOK
    <3>4. CASE WriteMore(p)
      <4>1. p # q
        BY <1>4, <3>4
      <4>2. pc' = [pc EXCEPT ![p] = After(p, IF pc[p] = "torn" THEN "whole" ELSE "line")]
        BY <1>1, <3>4, WriteMoreType
      <4>3. QED
        BY <1>1, <1>4, <4>1, <4>2 DEF TypeOK
    <3>5. CASE CloseFails(p)
      BY <1>0, <3>5 DEF CloseFails
    <3>6. QED
      BY <1>1, <2>2, <3>1, <3>2, <3>3, <3>4, <3>5 DEF AppendStep
  <2>3. ASSUME NEW p \in Procs, Call(p)
        PROVE  pc'[q] \in {"torn", "whole"}
    BY <1>1, <1>4, <2>3 DEF Call, Goto, TypeOK
  <2>4. ASSUME (\E p \in Procs : Verify(p)) \/ UNCHANGED vars
        PROVE  pc'[q] \in {"torn", "whole"}
    BY <1>4, <2>4 DEF Verify, vars
  <2>5. QED
    BY <1>1, <2>2, <2>3, <2>4 DEF Next
<1>5. QED
  BY <1>1, <1>2, <1>3, <1>4, LedgerChanges DEF CleanTail

\* An append behind a complete line, and the completion of the line that is
\* being written, leave lines that verify as they are.
LEMMA ChecksStep ==
  IInv /\ Unfaulted /\ CleanTail /\ PassedChecksStand /\ [Next]_vars =>
    PassedChecksStand'
<1> SUFFICES ASSUME IInv, Unfaulted, CleanTail, PassedChecksStand, [Next]_vars,
                    verdict'.outcome = "pass", faults' = 0
             PROVE  /\ verdict'.total <= Len(ledger')
                    /\ \A i \in 1..verdict'.total : LineOk(ledger', i)
  BY DEF PassedChecksStand
<1> DEFINE n == Len(ledger)
<1>1. /\ TypeOK /\ TypeInv /\ faults = 0 /\ ~PowerLoss
      /\ \A p \in Procs : ~WriteFails(p) /\ ~Interrupt(p) /\ ~Kill(p)
  BY Unfailed DEF IInv, TypeInv
<1>0. Exclusive /\ \A p \in Procs : WriterOK(p)
  BY <1>1 DEF Unfaulted, IInv, OrderInv, WriterInv
<1>2. n \in Nat /\ (ledger = <<>> <=> n = 0) /\ verdict.total \in Nat
  BY <1>1, FileFacts DEF TypeOK
<1>3. ASSUME NEW p \in Procs, Verify(p)
      PROVE  /\ verdict'.total <= Len(ledger')
             /\ \A i \in 1..verdict'.total : LineOk(ledger', i)
  BY <1>2, <1>3 DEF Verify, VerifyChain
<1>4. ASSUME ~(\E p \in Procs : Verify(p))
      PROVE  verdict' = verdict
  BY <1>1, <1>4 DEF Next, AppendStep, vars, Call, Acquire, BuildEnvelope,
     RaiseCorruption, Buffer, WriteStart, WriteMore, Fsync, Return, CloseFails
<1>5. ASSUME ~(\E p \in Procs : Verify(p))
      PROVE  verdict.total <= n /\ \A i \in 1..verdict.total : LineOk(ledger, i)
  BY <1>1, <1>4, <1>5 DEF PassedChecksStand
<1>6. ASSUME NEW p \in Procs, WriteStart(p)
      PROVE  /\ verdict'.total <= Len(ledger')
             /\ \A i \in 1..verdict'.total : LineOk(ledger', i)
  <2>1. Len(ledger') = n + 1 /\ \A i \in 1..n : ledger'[i] = ledger[i]
    BY <1>0, <1>1, <1>6, WriteStartGrows
  <2>2. verdict' = verdict /\ pc[p] = "buffered"
    BY <1>6 DEF WriteStart
  <2>3. verdict.total <= n /\ \A i \in 1..verdict.total : LineOk(ledger, i)
    BY <1>1, <2>2 DEF PassedChecksStand
  <2>4. \A q \in Procs : pc[q] \notin {"torn", "whole"}
    BY <1>0, <2>2 DEF Exclusive, Drafting, Wrote
  <2>5. n = 0 \/ ledger[n].end = "line"
    BY <1>1, <1>2, <2>4 DEF CleanTail
  <2>6. ASSUME NEW i \in 1..verdict.total
        PROVE  LineOk(ledger', i)
    <3>1. i \in 1..n /\ (i > 1 => i - 1 \in 1..n) /\ LineOk(ledger, i)
      BY <1>2, <2>3
    <3>2. ledger'[i] = ledger[i] /\ (i > 1 => ledger'[i-1] = ledger[i-1])
      BY <2>1, <3>1
    <3>3. ledger[i].end = "line"
      BY <1>2, <2>5, <3>1 DEF LineOk, Parses, Alone
    <3>4. QED
      BY <1>2, <2>1, <3>1, <3>2, <3>3 DEF LineOk, Parses, Alone
  <2>7. QED
    BY <1>2, <2>1, <2>2, <2>3, <2>6
<1>7. ASSUME NEW p \in Procs, WriteMore(p)
      PROVE  /\ verdict'.total <= Len(ledger')
             /\ \A i \in 1..verdict'.total : LineOk(ledger', i)
  <2>1. PICK e : e = IF pc[p] = "torn" THEN "whole" ELSE "line"
    OBVIOUS
  <2>2. verdict' = verdict /\ pc[p] \in {"torn", "whole"}
    BY <1>7 DEF WriteMore
  <2>3. Len(ledger') = n /\ SameBut(ledger', ledger, e) /\ n > 0
    BY <1>0, <1>1, <1>2, <1>7, <2>1, WriteMoreMarks
  <2>4. verdict.total <= n /\ \A i \in 1..verdict.total : LineOk(ledger, i)
    BY <1>1, <2>2 DEF PassedChecksStand
  <2>5. ledger[n].end = pc[p]
    BY <1>0, <2>2 DEF WriterOK, Wrote
  <2>6. ASSUME NEW i \in 1..verdict.total
        PROVE  LineOk(ledger', i)
    <3>1. i \in 1..n /\ (i > 1 => i - 1 \in 1..n-1) /\ LineOk(ledger, i)
      BY <1>2, <2>4
    <3>2. i > 1 => ledger'[i-1] = ledger[i-1]
      BY <2>3, <3>1 DEF SameBut
    <3>3. CASE i = n
      <4>1. e = "line"
        BY <2>1, <2>2, <2>5, <3>1, <3>3 DEF LineOk, Parses
      <4>2. QED
        BY <1>2, <2>3, <3>1, <3>2, <3>3, <4>1 DEF LineOk, Parses, Alone, SameBut
    <3>4. CASE i # n
      <4>1. ledger'[i] = ledger[i]
        BY <1>2, <2>3, <3>1, <3>4 DEF SameBut
      <4>2. QED
        BY <1>2, <2>3, <3>1, <3>2, <3>4, <4>1 DEF LineOk, Parses, Alone
    <3>5. QED
      BY <3>3, <3>4
  <2>7. QED
    BY <2>3, <2>2, <2>4, <2>6
<1>8. QED
  BY <1>1, <1>3, <1>4, <1>5, <1>6, <1>7, LedgerChanges

\* A ledger that verified once goes on verifying in all the lines the check
\* covered, whoever appends to it, as long as nothing fails.
THEOREM ChecksStand == Spec => []PassedChecksStand
<1>1. Init => CheckInv
  BY InvInit DEF CheckInv, Unfaulted, Unflushed, CleanTail, PassedChecksStand, Init
<1>2. CheckInv /\ [Next]_vars => CheckInv'
  BY InvStep, UnfaultedStep, CleanTailStep, ChecksStep DEF CheckInv
<1>3. CheckInv => PassedChecksStand
  BY DEF CheckInv
<1>4. QED
  BY <1>1, <1>2, <1>3, PTL DEF Spec
-----------------------------------------------------------------------------
(***************************************************************************)
(* The ledger implements the append-only log: each step of Ledger either   *)
(* leaves Events and acked alone or is a step of AppendOnlyLog on them.    *)
(* The event of an append() joins the log when its JSON text is complete,  *)
(* not when append() starts writing it.                                    *)
(***************************************************************************)

LEMMA CompleteRange ==
  ASSUME NEW f \in Seq(Envelope)
  PROVE  /\ Len(f) \in Nat /\ Complete(f) \in Nat
         /\ Complete(f) \in {Len(f), Len(f) - 1}
         /\ Complete(f) <= Len(f)
  BY LenProperties, EmptySeq DEF Complete

\* The log of a file: one id for each complete piece.
LEMMA EventsFacts ==
  ASSUME NEW f \in Seq(Envelope), NEW c \in Nat, Complete(f) = c
  PROVE  /\ EventsOf(f) \in Seq(Nat)
         /\ Len(EventsOf(f)) = c
         /\ DOMAIN EventsOf(f) = 1..c
         /\ \A i \in 1..c : EventsOf(f)[i] = f[i].id /\ f[i].id \in Nat
<1>1. \A i \in 1..c : f[i].id \in Nat
  <2>1. \A i \in 1..c : i \in 1..Len(f)
    BY CompleteRange
  <2>2. \A i \in 1..c : f[i] \in Envelope
    BY <2>1, ElementOfSeq
  <2>3. QED
    BY <2>2 DEF Envelope
<1>2. EventsOf(f) = [i \in 1..c |-> f[i].id]
  BY DEF EventsOf
<1>3. EventsOf(f) \in [1..c -> Nat]
  BY <1>1, <1>2
<1>4. EventsOf(f) \in Seq(Nat)
  BY <1>3, SeqDef
<1>5. Len(EventsOf(f)) \in Nat /\ DOMAIN EventsOf(f) = 1..Len(EventsOf(f))
      /\ DOMAIN EventsOf(f) = 1..c
  BY <1>3, <1>4, LenProperties
<1>6. Len(EventsOf(f)) = c
  BY <1>5, SameRange
<1>7. QED
  BY <1>1, <1>2, <1>4, <1>5, <1>6

\* A file that agrees with another up to its last complete piece has a
\* prefix of the other's log.
LEMMA PrefixEvents ==
  ASSUME NEW f \in Seq(Envelope), NEW g \in Seq(Envelope),
         NEW c \in Nat, NEW d \in Nat, Complete(f) = c, Complete(g) = d, c <= d,
         \A i \in 1..c : f[i].id = g[i].id
  PROVE  EventsOf(f) = SubSeq(EventsOf(g), 1, c)
<1> DEFINE F == EventsOf(f)
           G == EventsOf(g)
           S == SubSeq(G, 1, c)
<1>1. F \in Seq(Nat) /\ Len(F) = c /\ \A i \in 1..c : F[i] = f[i].id
  BY EventsFacts
<1>2. G \in Seq(Nat) /\ Len(G) = d /\ \A i \in 1..d : G[i] = g[i].id /\ G[i] \in Nat
  BY EventsFacts
<1>3. \A i \in 1..c : i \in 1..d
  OBVIOUS
<1> HIDE DEF F, G
<1>4. \A i \in 1..c : G[i] \in Nat
  BY <1>2, <1>3
<1>5. S \in Seq(Nat) /\ Len(S) = c /\ \A i \in 1..c : S[i] = G[i]
  <2>1. c \in 0..Len(G)
    BY <1>2
  <2>2. QED
    BY <1>2, <1>4, <2>1, SubSeqProperties
<1> HIDE DEF S
<1>6. \A i \in 1..c : F[i] = S[i]
  BY <1>1, <1>2, <1>3, <1>5
<1>7. F = S
  BY <1>1, <1>5, <1>6, SeqEqual
<1>8. QED
  BY <1>7 DEF F, S, G

\* Two files with the same complete pieces have the same log.
LEMMA SameEvents ==
  ASSUME NEW f, NEW g, NEW c \in Nat, Complete(f) = c, Complete(g) = c,
         \A i \in 1..c : f[i].id = g[i].id
  PROVE  EventsOf(f) = EventsOf(g)
  BY DEF EventsOf

-----------------------------------------------------------------------------
\* A step of the abstract log that keeps its promise, or a stutter.
LogStep == \/ Log!Extend \/ Log!Commit \/ Log!Lose
           \/ Events' = Events /\ acked' = acked

LEMMA WriteStartStutters ==
  ASSUME IInv, ~exposed, TypeOK', NEW p \in Procs, WriteStart(p)
  PROVE  LogStep
<1>0. /\ TypeOK /\ TypeInv /\ WriterOK(p)
      /\ ledger \in Seq(Envelope) /\ ledger' \in Seq(Envelope) /\ Len(ledger) \in Nat
  BY FileFacts DEF IInv, TypeInv, TypeOK, OrderInv, WriterInv
<1>1. PICK n \in Nat : n = Len(ledger)
  BY <1>0
<1>2. /\ Len(ledger') = n + 1
      /\ \A i \in 1..n : ledger'[i] = ledger[i]
      /\ ledger'[n + 1] = rec[p]
      /\ acked' = acked
  BY <1>0, <1>1, WriteStartGrows DEF WriteStart
<1>3. rec[p].end = "torn" /\ ~TailMalformed(ledger)
  BY <1>0 DEF WriterOK, WriteStart
<1>4. Complete(ledger) = n
  BY <1>1, <1>3 DEF Complete, TailMalformed, Parses
<1>5. Complete(ledger') = n
  <2>1. ledger' # <<>>
    BY <1>0, <1>2, EmptySeq
  <2>2. ledger'[Len(ledger')].end = "torn" /\ Len(ledger') - 1 = n
    BY <1>2, <1>3
  <2>3. QED
    BY <2>1, <2>2 DEF Complete
<1>6. Events' = Events
  BY <1>2, <1>4, <1>5, SameEvents DEF Events
<1>7. QED
  BY <1>2, <1>6 DEF LogStep

LEMMA WriteMoreSteps ==
  ASSUME IInv, ~exposed, TypeOK', NEW p \in Procs, WriteMore(p)
  PROVE  LogStep
<1>0. /\ TypeOK /\ TypeInv /\ WriterOK(p) /\ IdsGrow
      /\ ledger \in Seq(Envelope) /\ ledger' \in Seq(Envelope)
      /\ ledger # <<>> /\ acked' = acked /\ pc[p] \in {"torn", "whole"}
  BY DEF IInv, TypeInv, TypeOK, HasPiece, WriteMore, OrderInv, WriterInv
<1>1. PICK n \in Nat \ {0} : n = Len(ledger)
  BY <1>0, LenProperties, EmptySeq
<1>2. PICK e : e = IF pc[p] = "torn" THEN "whole" ELSE "line"
  OBVIOUS
<1>3. /\ Len(ledger') = n
      /\ \A i \in 1..n-1 : ledger'[i] = ledger[i]
      /\ ledger'[n].id = ledger[n].id
      /\ ledger'[n].end = e
  BY <1>0, <1>1, <1>2, WriteMoreMarks DEF SameBut
<1>4. \A i \in 1..n : ledger'[i].id = ledger[i].id
  <2>1. \A i \in 1..n : i \in 1..n-1 \/ i = n
    OBVIOUS
  <2>2. QED
    BY <1>3, <2>1
<1>5. ledger[n].end = pc[p]
  BY <1>0, <1>1 DEF WriterOK, Wrote
<1>6. ledger' # <<>>
  BY <1>0, <1>1, <1>3, EmptySeq
<1>7. Complete(ledger') = n
  BY <1>2, <1>3, <1>6 DEF Complete
<1>8. CASE pc[p] = "whole"
  <2>1. Complete(ledger) = n
    BY <1>0, <1>1, <1>5, <1>8 DEF Complete
  <2>2. Events' = Events
    BY <1>4, <1>7, <2>1, SameEvents DEF Events
  <2>3. QED
    BY <1>0, <2>2 DEF LogStep
<1>9. CASE pc[p] = "torn"
  <2>1. Complete(ledger) = n - 1 /\ n - 1 \in Nat
    BY <1>0, <1>1, <1>5, <1>9 DEF Complete
  <2>2. /\ Len(Events) = n - 1 /\ DOMAIN Events = 1..n-1
        /\ \A i \in 1..n-1 : Events[i] = ledger[i].id /\ ledger[i].id \in Nat
    BY <1>0, <2>1, EventsFacts DEF Events
  <2>3. /\ Len(Events') = n
        /\ \A i \in 1..n : Events'[i] = ledger'[i].id /\ ledger'[i].id \in Nat
    BY <1>0, <1>7, EventsFacts DEF Events
  <2>4. SubSeq(Events', 1, n-1) = Events
    <3>1. \A i \in 1..n-1 : ledger[i].id = ledger'[i].id
      BY <1>3
    <3>2. n - 1 <= n
      OBVIOUS
    <3>3. QED
      BY <1>0, <1>7, <2>1, <3>1, <3>2, PrefixEvents DEF Events
  <2>5. Events'[n] = ledger[n].id /\ ledger[n].id \in Nat
    <3>1. n \in 1..n
      OBVIOUS
    <3>2. QED
      BY <1>3, <2>3, <3>1
  <2>6. \A i \in 1..n-1 : Events[i] # ledger[n].id
    <3>1. \A i \in 1..n-1 : i \in 1..n /\ i < n /\ n \in 1..n
      OBVIOUS
    <3>2. \A i \in 1..n-1 : ledger[i].id < ledger[n].id
      BY <1>0, <1>1, <3>1 DEF IdsGrow
    <3>3. QED
      BY <2>2, <2>5, <3>2
  <2>7. Events'[n] \in Nat \ Log!Held(Events)
    BY <2>2, <2>5, <2>6 DEF Log!Held
  <2>8. Len(Events') = Len(Events) + 1
    BY <2>2, <2>3
  <2>9. Log!Extend
    BY <1>0, <2>2, <2>3, <2>4, <2>7, <2>8 DEF Log!Extend
  <2>10. QED
    BY <2>9 DEF LogStep
<1>10. QED
  BY <1>0, <1>8, <1>9

LEMMA ReturnCommits ==
  ASSUME IInv, ~exposed, NEW p \in Procs, Return(p)
  PROVE  LogStep
<1>1. /\ ledger' = ledger /\ acked' = acked \cup {rec[p].id}
      /\ ledger \in Seq(Envelope) /\ ledger # <<>>
  BY DEF Return, IInv, TypeInv, TypeOK, HasPiece
<1>2. PICK n \in Nat \ {0} : n = Len(ledger)
  BY <1>1, LenProperties, EmptySeq
<1>3. ledger[n].id = rec[p].id /\ ledger[n].end = "line"
  BY <1>2 DEF IInv, OrderInv, WriterInv, WriterOK, Wrote, Return
<1>4. Complete(ledger) = n
  BY <1>1, <1>2, <1>3 DEF Complete
<1>5. /\ DOMAIN Events = 1..n /\ n \in 1..n
      /\ \A i \in 1..n : Events[i] = ledger[i].id
  BY <1>1, <1>4, EventsFacts DEF Events
<1>6. rec[p].id \in Log!Held(Events)
  BY <1>3, <1>5 DEF Log!Held
<1>7. Events' = Events
  BY <1>1 DEF Events
<1>8. QED
  BY <1>1, <1>6, <1>7 DEF LogStep, Log!Commit

LEMMA PowerLossLoses ==
  ASSUME IInv, IInv', ~exposed', PowerLoss
  PROVE  LogStep
<1>1. /\ TypeOK /\ ledger \in Seq(Envelope) /\ ledger' \in Seq(Envelope)
      /\ acked' = acked
  BY DEF IInv, TypeInv, TypeOK, PowerLoss
<1>2. PICK n \in Nat : n = Len(ledger)
  BY <1>1, LenProperties
<1>3. PICK m \in Nat : m = Len(ledger')
  BY <1>1, LenProperties
<1>4. /\ m \in synced..n /\ synced \in Nat
      /\ \A i \in 1..m : ledger'[i].id = ledger[i].id
      /\ m > 0 => \/ ledger'[m] = ledger[m]
                  \/ ledger'[m].end \in ShorterThan[ledger[m].end]
  BY <1>1, <1>2, <1>3, PowerLossCut, FileFacts
<1>5. PICK c \in Nat : c = Complete(ledger)
  BY <1>1, CompleteRange
<1>6. PICK d \in Nat : d = Complete(ledger')
  BY <1>1, CompleteRange
<1>7. d \in {m, m - 1} /\ c \in {n, n - 1}
  BY <1>1, <1>2, <1>3, <1>5, <1>6, CompleteRange
<1>8. d <= c
  <2>1. CASE d # m \/ m < n \/ c = n
    BY <1>4, <1>7, <2>1
  <2>2. CASE d = m /\ m = n /\ c = n - 1
    <3>1. ledger # <<>> /\ n > 0
      BY <1>1, <1>2, <1>5, <2>2, EmptySeq DEF Complete
    <3>2. ledger[n].end = "torn"
      BY <1>2, <1>5, <2>2, <3>1 DEF Complete
    <3>3. ledger'[n].end = "torn"
      BY <1>4, <2>2, <3>1, <3>2 DEF ShorterThan
    <3>4. ledger' # <<>>
      <4>1. Len(ledger') > 0
        BY <1>3, <2>2, <3>1
      <4>2. QED
        BY <1>1, <4>1, EmptySeq
    <3>5. FALSE
      BY <1>3, <1>6, <2>2, <3>3, <3>4 DEF Complete
    <3>6. QED
      BY <3>5
  <2>3. QED
    BY <1>4, <1>7, <2>1, <2>2
<1>9. Events' = SubSeq(Events, 1, d)
  <2>1. \A i \in 1..d : i \in 1..m
    BY <1>7
  <2>2. \A i \in 1..d : ledger'[i].id = ledger[i].id
    BY <1>4, <2>1
  <2>3. QED
    BY <1>1, <1>5, <1>6, <1>8, <2>2, PrefixEvents DEF Events
<1>10. Len(Events) = c /\ d \in 0..c
  BY <1>1, <1>5, <1>8, EventsFacts DEF Events
<1>11. acked' \subseteq Log!Held(Events')
  <2>1. SUFFICES ASSUME NEW id \in acked'
                 PROVE  id \in Log!Held(Events')
    OBVIOUS
  <2>2. PICK i \in 1..synced' : ledger'[i].id = id /\ ledger'[i].end = "line"
    BY DEF IInv, AckedDurable
  <2>3. synced' = m
    BY <1>3 DEF PowerLoss
  <2>4. i \in 1..m
    BY <2>2, <2>3
  <2>5. i \in 1..d
    <3>1. CASE d = m
      BY <2>4, <3>1
    <3>2. CASE d = m - 1
      <4>1. m > 0 /\ ledger'[m].end = "torn"
        BY <1>3, <1>6, <2>4, <3>2 DEF Complete
      <4>2. i # m
        BY <2>2, <4>1
      <4>3. QED
        BY <2>4, <3>2, <4>2
    <3>3. QED
      BY <1>7, <3>1, <3>2
  <2>6. DOMAIN Events' = 1..d /\ \A j \in 1..d : Events'[j] = ledger'[j].id
    BY <1>1, <1>6, EventsFacts DEF Events
  <2>7. QED
    BY <2>2, <2>5, <2>6 DEF Log!Held
<1>12. Log!Lose
  BY <1>1, <1>9, <1>10, <1>11 DEF Log!Lose
<1>13. QED
  BY <1>12 DEF LogStep

LEMMA RefineStep == IInv /\ IInv' /\ ~exposed' /\ [Next]_vars => LogStep
<1> SUFFICES ASSUME IInv, IInv', ~exposed', [Next]_vars
             PROVE  LogStep
  OBVIOUS
<1>1. TypeOK' /\ ~exposed
  BY ExposedStays DEF IInv, TypeInv
<1>2. CASE ledger' = ledger /\ acked' = acked
  BY <1>2 DEF LogStep, Events
<1>3. \/ ledger' = ledger /\ acked' = acked
      \/ \E p \in Procs : WriteStart(p) \/ WriteMore(p) \/ Return(p)
      \/ PowerLoss
  BY DEF Next, AppendStep, vars, Call, Acquire, BuildEnvelope, RaiseCorruption,
         Buffer, Fsync, CloseFails, Verify, WriteFails, Interrupt, Kill
<1>4. QED
  BY <1>1, <1>2, <1>3, WriteStartStutters, WriteMoreSteps, ReturnCommits, PowerLossLoses

\* The ledger implements the append-only log, for any number of writers,
\* payloads and faults: it keeps the promise until a tip is read during the
\* late close() of a failed append.
THEOREM Refinement == Spec => ImplementsLog
<1>1. Init => Log!LogInit
  BY DEF Init, Log!LogInit, Events, EventsOf, Complete
<1>2. IInv /\ IInv' /\ [Next]_vars => [Log!LogNext]_(Log!logVars)
  <2> SUFFICES ASSUME IInv, IInv', [Next]_vars
               PROVE  [Log!LogNext]_(Log!logVars)
    OBVIOUS
  <2>1. CASE exposed'
    <3>1. (~exposed)' = FALSE
      BY <2>1
    <3>2. QED
      BY <3>1 DEF Log!LogNext, Log!Break
  <2>2. CASE ~exposed'
    <3>1. LogStep /\ ~exposed
      BY <2>2, RefineStep, ExposedStays
    <3>2. (~exposed)' = ~exposed
      BY <2>2, <3>1
    <3>3. QED
      BY <3>1, <3>2 DEF LogStep, Log!LogNext, Log!logVars
  <2>3. QED
    BY <2>1, <2>2
<1>3. QED
  BY <1>1, <1>2, Invariant, PTL DEF Spec, ImplementsLog, Log!LogSpec
=============================================================================
