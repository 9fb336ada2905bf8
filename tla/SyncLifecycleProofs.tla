------------------------- MODULE SyncLifecycleProofs -------------------------
(***************************************************************************)
(* Proofs about S3Sync and about SyncLifecycle, which extends it, for any  *)
(* ledgers, files, faults and bounds.  What overlapping syncs cannot break *)
(* is proved without any assumption; the cursors and the order of the      *)
(* archive are proved for syncs that come one after the other (Serial),    *)
(* since the run lifecycle_overlap shows that they do not survive an       *)
(* overlap.  A container that nothing disturbs runs its syncs one after    *)
(* the other, so that this holds of it, and its last sync leaves nothing   *)
(* behind.                                                                 *)
(***************************************************************************)
EXTENDS SyncLifecycle, SequenceTheorems, FiniteSetTheorems, TLAPS

Labels == {"off", "surface", "get", "put", "put_constitution", "put_bundle", "save"}
Members == SUBSET (Files \X {"partial", "whole"})
SavedState == [cursors : [Ledgers -> Nat], bundled : SUBSET Files]
Buffer == [body : Seq(Nat), upto : Nat, members : Members]

TypeInv ==
  /\ disk \in [Ledgers -> Seq(Nat)]
  /\ unfinished \subseteq Ledgers
  /\ written \in [Ledgers -> Nat]
  /\ constitution \in Nat
  /\ research \in [Files -> {"absent", "partial", "whole"}]
  /\ archive \in [Ledgers -> Seq(Nat)]
  /\ archivedConstitution \in Nat
  /\ bundles \in Seq(Members)
  /\ state \in SavedState \cup {Torn}
  /\ pc \in [Syncers -> Labels]
  /\ at \in [Syncers -> 1..Done]
  /\ mem \in [Syncers -> SavedState]
  /\ buf \in [Syncers -> Buffer]
  /\ \A s \in Syncers : /\ pc[s] \in {"get", "put"} => at[s] \in Ledgers
                        /\ pc[s] = "put_constitution" => at[s] = Constitution
                        /\ pc[s] = "put_bundle" => at[s] = Research

-----------------------------------------------------------------------------
(* Only records are archived, and what is recorded as bundled is archived. *)

\* Lines that have begun go on to their end, and none lacks its beginning.
Ends(lines) ==
  \A i \in 1..Len(lines) :
    \/ lines[i] \in LineEnds \cup {Malformed}
    \/ i < Len(lines) /\ lines[i+1] = lines[i] + 1

Begins(lines) ==
  \A i \in 1..Len(lines) :
    \/ lines[i] = Malformed
    \/ lines[i] - 1 \in LineEnds \cup {0}
    \/ i > 1 /\ lines[i-1] = lines[i] - 1

\* A ledger consists of whole lines.  A malformed one is the last, and nobody is
\* writing behind it.
DiskInv ==
  \A l \in Ledgers :
    /\ \A i \in 1..Len(disk[l]) : disk[l][i] = Malformed => i = Len(disk[l])
    /\ l \in unfinished => ~Spoiled(l)
    /\ Ends(disk[l]) /\ Begins(disk[l])
    /\ written[l] \in LineEnds \cup {0}

\* What syncs have read, and what they have put, ends with a record.
Clean(lines) == Malformed \notin Held(lines) /\ Ends(lines)

CleanInv ==
  /\ \A l \in Ledgers : Clean(archive[l])
  /\ \A s \in Syncers : pc[s] \in {"get", "put"} => Clean(buf[s].body)

\* A cursor that stands between two lines of a ledger.
OnEnd(lines, cursor) ==
  cursor = 0 \/ (cursor \in 1..Len(lines) /\ lines[cursor] \in LineEnds)

\* As long as no ledger is restored no cursor points into a line.
AlignedInv ==
  "restore" \notin faults =>
    /\ \A l \in Ledgers : Begins(archive[l])
    /\ state # Torn => \A l \in Ledgers : OnEnd(disk[l], state.cursors[l])
    /\ \A s \in Syncers : \A l \in Ledgers : OnEnd(disk[l], mem[s].cursors[l])
    /\ \A s \in Syncers : pc[s] \in {"get", "put"} =>
         Begins(buf[s].body) /\ OnEnd(disk[at[s]], buf[s].upto)

Bundled(f) == \E i \in DOMAIN bundles : f \in Names(bundles[i])

BundleInv ==
  "same_second" \notin faults =>
    /\ state # Torn => \A f \in state.bundled : Bundled(f)
    /\ \A s \in Syncers : \A f \in mem[s].bundled : Bundled(f)

-----------------------------------------------------------------------------
(* One sync at a time. *)

Serial == \A s, t \in Syncers : pc[s] # "off" /\ pc[t] # "off" => s = t

\* The complete lines of a ledger are its records in order, and perhaps a
\* malformed line behind them.
NumberedInv ==
  \A l \in Ledgers :
    /\ Len(disk[l]) \in {written[l], written[l] + 1}
    /\ \A i \in 1..written[l] : disk[l][i] = i
    /\ Len(disk[l]) = written[l] + 1 => disk[l][Len(disk[l])] = Malformed

\* No record is missing between two lines of the object.
Gapless(lines) ==
  \A i \in DOMAIN lines : lines[i] <= (IF i = 1 THEN 0 ELSE lines[i-1]) + 1

LastOf(lines) == IF lines = <<>> THEN 0 ELSE lines[Len(lines)]

\* Everything up to the cursor is in the object, which does not end before it.
Covers(lines, cursor) ==
  /\ \A n \in 1..cursor : n \in Held(lines)
  /\ LastOf(lines) >= cursor

CursorOK(l, cursor) == cursor <= written[l] /\ Covers(archive[l], cursor)

\* What a sync has in hand between reading a ledger and putting its object.
\* Everything that any cursor claims will be in the object after the put.
BufferOK(s) ==
  LET l == at[s]
      b == buf[s]
      cursor == mem[s].cursors[l]
  IN  /\ pc[s] \in {"get", "put"} =>
           /\ b.upto <= written[l]
           /\ state # Torn => state.cursors[l] <= b.upto
      /\ pc[s] = "get" =>
           /\ cursor < b.upto
           /\ Len(b.body) = b.upto - cursor
           /\ \A k \in 1..Len(b.body) : b.body[k] = cursor + k
      /\ pc[s] = "put" =>
           /\ Gapless(b.body)
           /\ Covers(b.body, b.upto)

Good ==
  /\ NumberedInv
  /\ \A l \in Ledgers : Gapless(archive[l])
  /\ state # Torn => \A l \in Ledgers : CursorOK(l, state.cursors[l])
  /\ \A s \in Syncers : pc[s] # "off" =>
       /\ \A l \in Ledgers : CursorOK(l, mem[s].cursors[l])
       /\ BufferOK(s)

SurviveInv == Survivable => Good

\* The object is the records from the first on.
Exact(lines) == \A i \in 1..Len(lines) : lines[i] = i

\* As long as nothing fails cursors are exact, and so are the objects: those
\* in the memory of a sync, and without one those in the sidecar.
ExactCursors(s) ==
  pc[s] # "off" =>
    /\ \A l \in Ledgers : Len(archive[l]) = mem[s].cursors[l]
    /\ pc[s] = "put" => Exact(buf[s].body) /\ Len(buf[s].body) = buf[s].upto

ExactSaved ==
  (\A s \in Syncers : pc[s] = "off") =>
    state # Torn /\ \A l \in Ledgers : Len(archive[l]) = state.cursors[l]

ExactInv ==
  faults = {} =>
    /\ \A l \in Ledgers : Exact(archive[l]) /\ Len(archive[l]) <= written[l]
    /\ \A s \in Syncers : ExactCursors(s)
    /\ ExactSaved

-----------------------------------------------------------------------------
(* What the operators and the steps do to sequences. *)

LEMMA AppendFacts ==
  ASSUME NEW S, NEW f \in Seq(S), NEW x \in S
  PROVE  /\ Append(f, x) \in Seq(S)
         /\ Len(f) \in Nat
         /\ Len(Append(f, x)) = Len(f) + 1
         /\ \A i \in 1..Len(f) : Append(f, x)[i] = f[i]
         /\ Append(f, x)[Len(f) + 1] = x
  BY AppendProperties, LenProperties

\* The lines behind the cursor, up to the end of the file.
LEMMA ChunkFacts ==
  ASSUME TypeInv, NEW s \in Syncers, at[s] \in Ledgers
  PROVE  /\ Start(s) \in Nat /\ Len(disk[at[s]]) \in Nat
         /\ Start(s) \in {0, mem[s].cursors[at[s]]}
         /\ mem[s].cursors[at[s]] <= Len(disk[at[s]]) => Start(s) = mem[s].cursors[at[s]]
         /\ Chunk(s) \in Seq(Nat)
         /\ Chunk(s) # <<>> <=> Start(s) < Len(disk[at[s]])
         /\ Start(s) <= Len(disk[at[s]]) => Len(Chunk(s)) = Len(disk[at[s]]) - Start(s)
         /\ \A i \in 1..Len(Chunk(s)) : Chunk(s)[i] = disk[at[s]][Start(s) + i]
<1> DEFINE f == disk[at[s]]
           c == Start(s)
           m == mem[s].cursors[at[s]]
<1>1. f \in Seq(Nat) /\ m \in Nat
  BY DEF TypeInv, SavedState
<1>2. Len(f) \in Nat /\ \A i \in 1..Len(f) : f[i] \in Nat
  BY <1>1, LenProperties, ElementOfSeq
<1>3. c \in Nat /\ c \in {0, m} /\ (m <= Len(f) => c = m)
  <2> DEFINE begun == IF at[s] \in unfinished /\ written[at[s]] + 1 \notin LineEnds THEN 1 ELSE 0
  <2>0. begun \in {0, 1} /\ Size(at[s]) = Len(f) + begun
    BY DEF Size
  <2> HIDE DEF begun
  <2>1. Size(at[s]) \in Nat /\ Size(at[s]) >= Len(f)
    BY <1>2, <2>0
  <2>2. c = IF m > Size(at[s]) THEN 0 ELSE m
    BY DEF Start
  <2> HIDE DEF c, m, f
  <2>3. QED
    BY <1>1, <1>2, <2>1, <2>2
<1> HIDE DEF c
<1>4. \A i \in c+1..Len(f) : f[i] \in Nat
  BY <1>2, <1>3
<1>5. /\ SubSeq(f, c + 1, Len(f)) \in Seq(Nat)
      /\ Len(SubSeq(f, c + 1, Len(f))) = IF c + 1 <= Len(f) THEN Len(f) - (c + 1) + 1 ELSE 0
      /\ \A i \in 1..Len(f) - (c + 1) + 1 : SubSeq(f, c + 1, Len(f))[i] = f[c + 1 + i - 1]
  <2>1. c + 1 \in Int /\ Len(f) \in Int
    BY <1>2, <1>3
  <2>2. QED
    BY <1>4, <2>1, SubSeqProperties
<1>6. Chunk(s) = SubSeq(f, c + 1, Len(f))
  BY DEF Chunk, c
<1>7. Len(SubSeq(f, c + 1, Len(f))) = IF c < Len(f) THEN Len(f) - c ELSE 0
  BY <1>2, <1>3, <1>5
<1>8. ASSUME NEW i \in 1..Len(SubSeq(f, c + 1, Len(f)))
      PROVE  SubSeq(f, c + 1, Len(f))[i] = f[c + i]
  <2>1. i \in 1..Len(f) - (c + 1) + 1 /\ c + 1 + i - 1 = c + i
    BY <1>2, <1>3, <1>7
  <2>2. SubSeq(f, c + 1, Len(f))[i] = f[c + 1 + i - 1]
    BY <1>5, <2>1
  <2>3. QED
    BY <2>1, <2>2
<1>9. Chunk(s) # <<>> <=> c < Len(f)
  <2>1. Chunk(s) # <<>> <=> Len(Chunk(s)) # 0
    BY <1>5, <1>6, EmptySeq
  <2>2. QED
    BY <1>2, <1>3, <1>6, <1>7, <2>1
<1>10. c <= Len(f) => Len(Chunk(s)) = Len(f) - c
  BY <1>2, <1>3, <1>6, <1>7
<1>11. QED
  BY <1>2, <1>3, <1>5, <1>6, <1>8, <1>9, <1>10 DEF c

\* The ledger after a restore is a proper prefix of what it was and ends with a
\* line.
LEMMA RestoreFacts ==
  ASSUME TypeInv, NEW l \in Ledgers, RestoreLedger(l)
  PROVE  /\ disk' \in [Ledgers -> Seq(Nat)]
         /\ Len(disk'[l]) \in Nat /\ Len(disk'[l]) < Len(disk[l])
         /\ \A i \in 1..Len(disk'[l]) : disk'[l][i] = disk[l][i]
         /\ \A k \in Ledgers : k # l => disk'[k] = disk[k]
         /\ Len(disk'[l]) > 0 => disk'[l][Len(disk'[l])] \in LineEnds
<1>1. PICK n \in 0..Len(disk[l]) - 1 : /\ disk' = [disk EXCEPT ![l] = SubSeq(@, 1, n)]
                                       /\ n > 0 => disk[l][n] \in LineEnds
  BY DEF RestoreLedger
<1>2. disk[l] \in Seq(Nat) /\ Len(disk[l]) \in Nat
  BY LenProperties DEF TypeInv
<1>3. \A i \in 1..n : disk[l][i] \in Nat
  BY <1>1, <1>2, ElementOfSeq
<1>4. n \in Nat /\ n \in Int /\ 1 \in Int /\ n < Len(disk[l])
  BY <1>1, <1>2
<1>5. /\ SubSeq(disk[l], 1, n) \in Seq(Nat)
      /\ Len(SubSeq(disk[l], 1, n)) = IF 1 <= n THEN n - 1 + 1 ELSE 0
      /\ \A i \in 1..n - 1 + 1 : SubSeq(disk[l], 1, n)[i] = disk[l][1 + i - 1]
  BY <1>3, <1>4, SubSeqProperties
<1>6. Len(SubSeq(disk[l], 1, n)) = n /\ \A i \in 1..n : SubSeq(disk[l], 1, n)[i] = disk[l][i]
  BY <1>4, <1>5
<1>7. disk'[l] = SubSeq(disk[l], 1, n) /\ \A k \in Ledgers : k # l => disk'[k] = disk[k]
  BY <1>1 DEF TypeInv
<1>8. disk' \in [Ledgers -> Seq(Nat)]
  BY <1>1, <1>5 DEF TypeInv
<1>9. Len(disk'[l]) > 0 => disk'[l][Len(disk'[l])] \in LineEnds
  <2>1. n > 0 => n \in 1..n
    BY <1>4
  <2>2. QED
    BY <1>1, <1>6, <1>7, <2>1
<1>10. QED
  BY <1>4, <1>6, <1>7, <1>8, <1>9

\* A line ends behind what was written before it, and no other line does.
LEMMA LineFacts ==
  ASSUME TypeInv, NEW l \in Ledgers, NEW e, EndsNextLine(l, e)
  PROVE  /\ e \in Nat /\ e \in LineEnds /\ written[l] \in Nat /\ written[l] < e
         /\ \A m \in written[l] + 1..e - 1 : m \notin LineEnds
<1>1. e \in Nat \ {0} /\ e \in LineEnds /\ written[l] \in Nat
  BY SyncAssumption DEF EndsNextLine, TypeInv, Malformed
<1>2. e \in Line(e)
  BY <1>1 DEF Line
<1>3. written[l] + 1 \in Line(e) /\ written[l] < e
  BY <1>1, <1>2 DEF EndsNextLine
<1>4. \A m \in written[l] + 1..e - 1 : m \notin LineEnds
  BY <1>3 DEF Line
<1>5. QED
  BY <1>1, <1>3, <1>4

\* The line is behind the others, which stay as they are.
LEMMA AppendLineFacts ==
  ASSUME TypeInv, NEW l \in Ledgers, NEW e, AppendLine(l, e)
  PROVE  /\ disk' \in [Ledgers -> Seq(Nat)] /\ written' \in [Ledgers -> Nat]
         /\ Len(disk[l]) \in Nat
         /\ Len(disk'[l]) = Len(disk[l]) + (e - written[l])
         /\ \A i \in 1..Len(disk[l]) : disk'[l][i] = disk[l][i]
         /\ \A k \in 1..e - written[l] : disk'[l][Len(disk[l]) + k] = written[l] + k
         /\ \A k \in Ledgers : k # l => disk'[k] = disk[k] /\ written'[k] = written[k]
         /\ written'[l] = e
<1> DEFINE f == disk[l]
           w == written[l]
           line == [k \in 1..e - w |-> w + k]
<1>1. /\ f \in Seq(Nat) /\ w \in Nat /\ e \in Nat /\ w < e
      /\ disk' = [disk EXCEPT ![l] = f \o line] /\ written' = [written EXCEPT ![l] = e]
  BY LineFacts DEF AppendLine, TypeInv
<1>2. line \in Seq(Nat) /\ Len(line) = e - w
  <2>1. e - w \in Nat /\ \A k \in 1..e - w : w + k \in Nat
    BY <1>1
  <2>2. line \in [1..e - w -> Nat]
    BY <2>1
  <2>3. line \in Seq(Nat)
    BY <2>1, <2>2, SeqDef
  <2>4. Len(line) \in Nat /\ DOMAIN line = 1..Len(line) /\ DOMAIN line = 1..e - w
    BY <2>2, <2>3, LenProperties
  <2>5. Len(line) = e - w
    BY <2>1, <2>4
  <2>6. QED
    BY <2>3, <2>5
<1>3. \A k \in 1..e - w : line[k] = w + k
  OBVIOUS
<1> HIDE DEF line, f
<1>4. /\ f \o line \in Seq(Nat) /\ Len(f) \in Nat /\ Len(f \o line) = Len(f) + (e - w)
      /\ \A i \in 1..Len(f) + (e - w) :
           (f \o line)[i] = IF i <= Len(f) THEN f[i] ELSE line[i - Len(f)]
  <2>1. /\ f \o line \in Seq(Nat) /\ Len(f) \in Nat
        /\ Len(f \o line) = Len(f) + Len(line)
        /\ \A i \in 1..Len(f) + Len(line) :
             (f \o line)[i] = IF i <= Len(f) THEN f[i] ELSE line[i - Len(f)]
    BY <1>1, <1>2, ConcatProperties, LenProperties
  <2> HIDE DEF w
  <2>2. QED
    BY <1>2, <2>1
<1>5. \A i \in 1..Len(f) : (f \o line)[i] = f[i]
  BY <1>1, <1>4
<1>6. ASSUME NEW k \in 1..e - w
      PROVE  (f \o line)[Len(f) + k] = w + k
  <2>1. /\ Len(f) + k \in 1..Len(f) + (e - w) /\ ~(Len(f) + k <= Len(f))
        /\ Len(f) + k - Len(f) = k
    BY <1>1, <1>4
  <2>2. QED
    BY <1>3, <1>4, <2>1
<1>7. disk'[l] = f \o line /\ \A k \in Ledgers : k # l => disk'[k] = disk[k]
  BY <1>1 DEF TypeInv, f
<1>8. /\ written'[l] = e /\ \A k \in Ledgers : k # l => written'[k] = written[k]
      /\ written' \in [Ledgers -> Nat] /\ disk' \in [Ledgers -> Seq(Nat)]
  BY <1>1, <1>4 DEF TypeInv
<1>9. QED
  BY <1>4, <1>5, <1>6, <1>7, <1>8 DEF f

-----------------------------------------------------------------------------
(* Type correctness *)

LEMMA TypeInit == Init => TypeInv
<1> USE SyncAssumption
<1>1. <<>> \in Seq(Nat) /\ <<>> \in Seq(Members)
  BY EmptySeq
<1>2. EmptyState \in SavedState /\ NoBuf \in Buffer
  BY <1>1 DEF EmptyState, NoBuf, SavedState, Buffer, Members
<1>3. 1 \in 1..Done
  BY DEF Done
<1>4. QED
  BY <1>1, <1>2, <1>3 DEF Init, TypeInv, Labels

LEMMA StopType ==
  ASSUME TypeInv, NEW s \in Syncers, Stop({s})
  PROVE  /\ pc' \in [Syncers -> Labels]
         /\ at' \in [Syncers -> 1..Done]
         /\ mem' \in [Syncers -> SavedState]
         /\ buf' \in [Syncers -> Buffer]
         /\ \A r \in Syncers : /\ pc'[r] \in {"get", "put"} => at'[r] \in Ledgers
                               /\ pc'[r] = "put_constitution" => at'[r] = Constitution
                               /\ pc'[r] = "put_bundle" => at'[r] = Research
<1>1. EmptyState \in SavedState /\ NoBuf \in Buffer /\ 1 \in 1..Done
  BY SyncAssumption, EmptySeq DEF EmptyState, NoBuf, SavedState, Buffer, Members, Done
<1>2. QED
  BY <1>1 DEF Stop, TypeInv, Labels

LEMMA TypeStep == TypeInv /\ [Next]_vars => TypeInv'
<1> SUFFICES ASSUME TypeInv, [Next]_vars PROVE TypeInv'
  OBVIOUS
<1> USE SyncAssumption DEF Goto
<1>0. /\ NoBuf \in Buffer
      /\ NLedgers + 1 \in 1..Done /\ \A l \in Ledgers : l + 1 \in 1..Done
      /\ Constitution + 1 \in 1..Done /\ Research + 1 \in 1..Done
  BY EmptySeq DEF NoBuf, Buffer, Members, Done, Ledgers, Constitution, Research
<1>1. ASSUME NEW l \in Ledgers, StartLine(l)
      PROVE  TypeInv'
  BY <1>1 DEF StartLine, TypeInv, remote
<1>2. ASSUME NEW l \in Ledgers, FinishLine(l)
      PROVE  TypeInv'
  <2>1. disk' \in [Ledgers -> Seq(Nat)] /\ written' \in [Ledgers -> Nat]
    BY <1>2, AppendLineFacts DEF FinishLine
  <2>2. QED
    BY <1>2, <2>1 DEF FinishLine, TypeInv, remote
<1>3. ASSUME NEW l \in Ledgers, SpoilLine(l)
      PROVE  TypeInv'
  <2>1. Append(disk[l], Malformed) \in Seq(Nat)
    BY AppendFacts DEF TypeInv, Malformed
  <2>2. QED
    BY <1>3, <2>1 DEF SpoilLine, TypeInv, remote
<1>4. ASSUME NEW l \in Ledgers, RestoreLedger(l)
      PROVE  TypeInv'
  BY <1>4, RestoreFacts DEF RestoreLedger, TypeInv, remote
<1>5. CASE ReviseConstitution
  BY <1>5 DEF ReviseConstitution, TypeInv, remote
<1>6. ASSUME NEW f \in Files, WriteArtifact(f)
      PROVE  TypeInv'
  BY <1>6 DEF WriteArtifact, TypeInv, remote
<1>7. ASSUME NEW s \in Syncers, Load(s)
      PROVE  TypeInv'
  BY <1>7 DEF Load, TypeInv, local, remote, Labels
<1>8. ASSUME NEW s \in Syncers, Skip(s), pc[s] = "surface", at[s] # Done
      PROVE  TypeInv'
  <2>1. at[s] + 1 \in 1..Done
    BY <1>8 DEF TypeInv, Done
  <2>2. QED
    BY <1>8, <2>1 DEF Skip, TypeInv, local, remote, Labels
<1>9. ASSUME NEW s \in Syncers, ReadLedger(s)
      PROVE  TypeInv'
  <2>1. [NoBuf EXCEPT !.body = Chunk(s), !.upto = Len(disk[at[s]])] \in Buffer
    BY <1>9, ChunkFacts, LenProperties DEF ReadLedger, TypeInv, NoBuf, Buffer, Members
  <2>2. QED
    BY <1>9, <2>1 DEF ReadLedger, TypeInv, local, remote, Labels
<1>10. ASSUME NEW s \in Syncers, GetExisting(s)
       PROVE  TypeInv'
  <2>1. at[s] \in Ledgers /\ archive[at[s]] \in Seq(Nat) /\ buf[s].body \in Seq(Nat)
    BY <1>10 DEF GetExisting, TypeInv, Buffer
  <2>2. Existing(s) \o buf[s].body \in Seq(Nat)
    BY <2>1, ConcatProperties DEF Existing
  <2>3. QED
    BY <1>10, <2>2 DEF GetExisting, TypeInv, local, remote, Labels, Buffer
<1>11. ASSUME NEW s \in Syncers, GetFails(s)
       PROVE  TypeInv'
  BY <1>11 DEF GetFails, TypeInv, local, remote, Labels
<1>12. ASSUME NEW s \in Syncers, PutLedger(s)
       PROVE  TypeInv'
  <2>1. [mem[s] EXCEPT !.cursors[at[s]] = buf[s].upto] \in SavedState
    BY DEF TypeInv, SavedState, Buffer
  <2>2. at[s] \in Ledgers /\ buf[s].body \in Seq(Nat)
    BY <1>12 DEF PutLedger, TypeInv, Buffer
  <2>3. QED
    BY <1>0, <1>12, <2>1, <2>2 DEF PutLedger, Advance, TypeInv, local, Labels
<1>13. ASSUME NEW s \in Syncers, ReadConstitution(s)
       PROVE  TypeInv'
  BY <1>13 DEF ReadConstitution, TypeInv, local, remote, Labels, Buffer
<1>14. ASSUME NEW s \in Syncers, PutConstitution(s)
       PROVE  TypeInv'
  BY <1>0, <1>14 DEF PutConstitution, Advance, TypeInv, local, Labels, Buffer
<1>15. ASSUME NEW s \in Syncers, ReadResearch(s)
       PROVE  TypeInv'
  <2>1. {<<f, research[f]>> : f \in Unbundled(s)} \in Members
    BY DEF Unbundled, Members, TypeInv
  <2>2. QED
    BY <1>15, <2>1 DEF ReadResearch, TypeInv, local, remote, Labels, Buffer
<1>16. ASSUME NEW s \in Syncers, FinishBundle(s), pc[s] = "put_bundle", bundles' \in Seq(Members)
       PROVE  TypeInv'
  <2>1. Names(buf[s].members) \subseteq Files
    BY DEF Names, TypeInv, Buffer, Members
  <2>2. [mem[s] EXCEPT !.bundled = Recorded(s)] \in SavedState
    BY <2>1 DEF Recorded, TypeInv, SavedState
  <2>3. QED
    BY <1>0, <1>16, <2>2 DEF FinishBundle, Advance, TypeInv, local, Labels
<1>17. ASSUME NEW s \in Syncers, PutBundle(s) \/ PutBundleSameSecond(s)
       PROVE  TypeInv'
  <2>1. buf[s].members \in Members
    BY DEF TypeInv, Buffer
  <2>2. CASE PutBundle(s)
    BY <1>16, <2>1, <2>2, AppendProperties DEF PutBundle, TypeInv
  <2>3. CASE PutBundleSameSecond(s)
    <3>1. Len(bundles) \in 1..Len(bundles)
      BY <2>3, EmptySeq DEF PutBundleSameSecond, TypeInv
    <3>2. bundles' \in Seq(Members)
      BY <2>1, <2>3, <3>1, ExceptSeq DEF PutBundleSameSecond, TypeInv
    <3>3. QED
      BY <1>16, <2>3, <3>2 DEF PutBundleSameSecond
  <2>4. QED
    BY <1>17, <2>2, <2>3
<1>18. ASSUME NEW s \in Syncers, PutFails(s) \/ Kill(s)
       PROVE  TypeInv'
  BY <1>18, StopType DEF PutFails, Kill, TypeInv, local, remote
<1>19. ASSUME NEW s \in Syncers, TruncateState(s)
       PROVE  TypeInv'
  BY <1>19 DEF TruncateState, TypeInv, local, remote, Labels
<1>20. ASSUME NEW s \in Syncers, WriteState(s)
       PROVE  TypeInv'
  BY <1>20, StopType DEF WriteState, TypeInv, local, remote
<1>21. CASE UNCHANGED vars
  BY <1>21 DEF vars, local, remote, TypeInv
<1>22. QED
  <2>1. ASSUME NEW s \in Syncers, SkipLedger(s) \/ SkipConstitution(s) \/ SkipResearch(s)
        PROVE  TypeInv'
    BY <1>8, <2>1 DEF SkipLedger, SkipConstitution, SkipResearch, Done, Constitution,
       Research, Ledgers
  <2>2. QED
    BY <1>1, <1>2, <1>3, <1>4, <1>5, <1>6, <1>7, <1>9, <1>10, <1>11, <1>12, <1>13, <1>14,
       <1>15, <1>17, <1>18, <1>19, <1>20, <1>21, <2>1
    DEF Next, LocalStep, SyncStep, SyncFault, LoadFails

-----------------------------------------------------------------------------
(* Any number of syncers *)

LEMMA HeldFacts ==
  ASSUME NEW lines \in Seq(Nat), NEW n
  PROVE  n \in Held(lines) <=> \E i \in 1..Len(lines) : lines[i] = n
  BY LenProperties DEF Held

LEMMA HeldConcat ==
  ASSUME NEW f \in Seq(Nat), NEW g \in Seq(Nat), NEW n
  PROVE  n \in Held(f \o g) <=> n \in Held(f) \/ n \in Held(g)
<1>1. /\ f \o g \in Seq(Nat)
      /\ Len(f) \in Nat /\ Len(g) \in Nat
      /\ Len(f \o g) = Len(f) + Len(g)
      /\ \A i \in 1..Len(f) + Len(g) :
           (f \o g)[i] = IF i <= Len(f) THEN f[i] ELSE g[i - Len(f)]
  BY ConcatProperties, LenProperties
<1>2. ASSUME NEW i \in 1..Len(f \o g), (f \o g)[i] = n
      PROVE  n \in Held(f) \/ n \in Held(g)
  <2>1. CASE i <= Len(f)
    BY <1>1, <1>2, <2>1, HeldFacts
  <2>2. CASE i > Len(f)
    <3>1. i - Len(f) \in 1..Len(g) /\ g[i - Len(f)] = n
      BY <1>1, <1>2, <2>2
    <3>2. QED
      BY <3>1, HeldFacts
  <2>3. QED
    BY <1>1, <2>1, <2>2
<1>3. ASSUME NEW i \in 1..Len(f), f[i] = n
      PROVE  n \in Held(f \o g)
  <2>1. i \in 1..Len(f \o g) /\ (f \o g)[i] = n
    BY <1>1, <1>3
  <2>2. QED
    BY <1>1, <2>1, HeldFacts
<1>4. ASSUME NEW i \in 1..Len(g), g[i] = n
      PROVE  n \in Held(f \o g)
  <2>1. Len(f) + i \in 1..Len(f \o g) /\ (f \o g)[Len(f) + i] = n
    BY <1>1, <1>4
  <2>2. QED
    BY <1>1, <2>1, HeldFacts
<1>5. /\ n \in Held(f \o g) <=> \E i \in 1..Len(f \o g) : (f \o g)[i] = n
      /\ n \in Held(f) <=> \E i \in 1..Len(f) : f[i] = n
      /\ n \in Held(g) <=> \E i \in 1..Len(g) : g[i] = n
  BY <1>1, HeldFacts
<1>6. QED
  BY <1>2, <1>3, <1>4, <1>5

\* A line added to ledger l leaves the lines before it and the other ledgers
\* as they are.
LEMMA GrowFacts ==
  ASSUME TypeInv, NEW l \in Ledgers, NEW x \in Nat,
         disk' = [disk EXCEPT ![l] = Append(@, x)]
  PROVE  /\ Len(disk[l]) \in Nat
         /\ Len(disk'[l]) = Len(disk[l]) + 1
         /\ \A i \in 1..Len(disk[l]) : disk'[l][i] = disk[l][i]
         /\ disk'[l][Len(disk[l]) + 1] = x
         /\ disk'[l] # <<>>
         /\ \A k \in Ledgers : k # l => disk'[k] = disk[k]
<1>1. disk[l] \in Seq(Nat) /\ disk'[l] = Append(disk[l], x)
  BY DEF TypeInv
<1>2. \A k \in Ledgers : k # l => disk'[k] = disk[k]
  BY DEF TypeInv
<1> DEFINE g == Append(disk[l], x)
<1>3. /\ Len(disk[l]) \in Nat /\ Len(g) = Len(disk[l]) + 1
      /\ \A i \in 1..Len(disk[l]) : g[i] = disk[l][i]
      /\ g[Len(disk[l]) + 1] = x /\ g # <<>>
  BY <1>1, AppendFacts, AppendProperties
<1> HIDE DEF g
<1>4. disk'[l] = g
  BY <1>1 DEF g
<1>5. QED
  BY <1>2, <1>3, <1>4

\* Only the writers touch the files.
LEMMA DiskChanges ==
  [Next]_vars => \/ UNCHANGED <<disk, unfinished, written>>
                 \/ \E l \in Ledgers : \/ StartLine(l) \/ FinishLine(l)
                                       \/ SpoilLine(l) \/ RestoreLedger(l)
  BY DEF Next, LocalStep, SyncStep, SyncFault, ReviseConstitution, WriteArtifact, Load,
     LoadFails, SkipLedger, Skip, ReadLedger, GetExisting, PutLedger, SkipConstitution,
     ReadConstitution, PutConstitution, SkipResearch, ReadResearch, PutBundle, FinishBundle,
     TruncateState, WriteState, GetFails, PutBundleSameSecond, PutFails, Kill, vars, local

\* A ledger that ends with a record goes on with the next one.
LEMMA LineStep ==
  ASSUME TypeInv, DiskInv, NEW l \in Ledgers, NEW e, AppendLine(l, e), ~Spoiled(l)
  PROVE  /\ \A i \in 1..Len(disk'[l]) : disk'[l][i] # Malformed
         /\ Ends(disk'[l]) /\ Begins(disk'[l]) /\ written'[l] \in LineEnds
<1> DEFINE f == disk[l]
           g == disk'[l]
           w == written[l]
<1>1. /\ w \in Nat /\ e \in Nat /\ w < e /\ e \in LineEnds /\ written'[l] = e
      /\ f \in Seq(Nat) /\ Len(f) \in Nat /\ Len(g) = Len(f) + (e - w)
      /\ \A i \in 1..Len(f) : g[i] = f[i]
      /\ \A k \in 1..e - w : g[Len(f) + k] = w + k
      /\ w \in LineEnds \cup {0}
      /\ Ends(f) /\ Begins(f)
  <2>1. w \in Nat /\ e \in Nat /\ w < e /\ e \in LineEnds
    BY LineFacts DEF AppendLine
  <2>2. QED
    BY <2>1, AppendLineFacts DEF DiskInv, TypeInv
<1>2. \A i \in 1..Len(f) : f[i] # Malformed
  <2>1. f = <<>> => Len(f) = 0
    BY EmptySeq
  <2>2. QED
    BY <1>1, <2>1 DEF DiskInv, Spoiled
<1> HIDE DEF f, g, w
<1>3. ASSUME NEW i \in 1..Len(g), i > Len(f)
      PROVE  /\ i - Len(f) \in 1..e - w /\ g[i] = w + (i - Len(f))
             /\ Len(f) + (i - Len(f)) = i
  <2>1. i - Len(f) \in 1..e - w /\ Len(f) + (i - Len(f)) = i
    BY <1>1, <1>3
  <2>2. QED
    BY <1>1, <2>1
<1>4. \A i \in 1..Len(g) : g[i] # Malformed
  <2> SUFFICES ASSUME NEW i \in 1..Len(g) PROVE g[i] # Malformed
    OBVIOUS
  <2>1. CASE i <= Len(f)
    BY <1>1, <1>2, <2>1
  <2>2. CASE i > Len(f)
    <3>1. g[i] = w + (i - Len(f)) /\ i - Len(f) \in 1..e - w
      BY <1>3, <2>2
    <3>2. QED
      BY <1>1, <3>1 DEF Malformed
  <2>3. QED
    BY <1>1, <2>1, <2>2
<1>5. Ends(g)
  <2> SUFFICES ASSUME NEW i \in 1..Len(g), g[i] \notin LineEnds
               PROVE  i < Len(g) /\ g[i+1] = g[i] + 1
    BY DEF Ends
  <2>1. CASE i <= Len(f)
    <3>1. i \in 1..Len(f) /\ g[i] = f[i] /\ f[i] # Malformed
      BY <1>1, <1>2, <2>1
    <3>2. i < Len(f) /\ f[i+1] = f[i] + 1
      BY <1>1, <3>1 DEF Ends
    <3>3. i + 1 \in 1..Len(f) /\ i < Len(g)
      BY <1>1, <3>1, <3>2
    <3>4. QED
      BY <1>1, <3>1, <3>2, <3>3
  <2>2. CASE i > Len(f)
    <3>1. g[i] = w + (i - Len(f)) /\ i - Len(f) \in 1..e - w
      BY <1>3, <2>2
    <3>2. i - Len(f) # e - w
      BY SMTT(20), <1>1, <3>1
    <3>3. i + 1 \in 1..Len(g) /\ i + 1 > Len(f) /\ i < Len(g)
      <4> DEFINE k == i - Len(f)
      <4>1. k \in 1..e - w /\ k # e - w /\ i = Len(f) + k
        BY <1>1, <3>1, <3>2
      <4> HIDE DEF k
      <4>2. k < e - w /\ k >= 1 /\ k \in Int
        BY <1>1, <4>1
      <4>3. QED
        BY <1>1, <4>1, <4>2
    <3>4. g[i+1] = w + (i + 1 - Len(f))
      BY <1>3, <3>3
    <3>5. QED
      BY <1>1, <3>1, <3>3, <3>4
  <2>3. QED
    BY <1>1, <2>1, <2>2
<1>6. Begins(g)
  <2> SUFFICES ASSUME NEW i \in 1..Len(g), g[i] - 1 \notin LineEnds \cup {0}
               PROVE  i > 1 /\ g[i-1] = g[i] - 1
    BY DEF Begins
  <2>1. CASE i <= Len(f)
    <3>1. i \in 1..Len(f) /\ g[i] = f[i] /\ f[i] # Malformed
      BY <1>1, <1>2, <2>1
    <3>2. i > 1 /\ f[i-1] = f[i] - 1
      BY <1>1, <3>1 DEF Begins
    <3>3. i - 1 \in 1..Len(f)
      BY <1>1, <3>1, <3>2
    <3>4. QED
      BY <1>1, <3>1, <3>2, <3>3
  <2>2. CASE i > Len(f)
    <3>1. g[i] = w + (i - Len(f)) /\ i - Len(f) \in 1..e - w
      BY <1>3, <2>2
    <3>2. i - Len(f) # 1
      <4>1. i - Len(f) = 1 => g[i] - 1 = w
        BY <1>1, <3>1
      <4>2. QED
        BY <1>1, <4>1
    <3>3. i - 1 \in 1..Len(g) /\ i - 1 > Len(f) /\ i > 1
      BY <1>1, <3>1, <3>2
    <3>4. g[i-1] = w + (i - 1 - Len(f))
      BY <1>3, <3>3
    <3>5. QED
      BY <1>1, <3>1, <3>3, <3>4
  <2>3. QED
    BY <1>1, <2>1, <2>2
<1>7. QED
  BY <1>1, <1>4, <1>5, <1>6 DEF g

LEMMA DiskStep == TypeInv /\ DiskInv /\ [Next]_vars => DiskInv'
<1> SUFFICES ASSUME TypeInv, DiskInv, [Next]_vars PROVE DiskInv'
  OBVIOUS
<1>0. ASSUME NEW l \in Ledgers
      PROVE  /\ disk[l] \in Seq(Nat) /\ Len(disk[l]) \in Nat
             /\ disk[l] = <<>> => Len(disk[l]) = 0
  BY EmptySeq, LenProperties DEF TypeInv
<1> DEFINE Same(k) == disk'[k] = disk[k] /\ written'[k] = written[k] /\ (k \in unfinished' => k \in unfinished)
           Whole(k) == /\ \A i \in 1..Len(disk'[k]) : disk'[k][i] = Malformed => i = Len(disk'[k])
                       /\ k \in unfinished' => ~Spoiled(k)'
                       /\ Ends(disk'[k]) /\ Begins(disk'[k])
                       /\ written'[k] \in LineEnds \cup {0}
<1>1. ASSUME NEW l \in Ledgers, \A k \in Ledgers : k # l => Same(k), Whole(l)
      PROVE  DiskInv'
  BY <1>1 DEF DiskInv, Spoiled
<1>2. CASE UNCHANGED <<disk, unfinished, written>>
  BY <1>2 DEF DiskInv, Spoiled
<1>3. ASSUME NEW l \in Ledgers, StartLine(l)
      PROVE  DiskInv'
  BY <1>3 DEF StartLine, DiskInv, Spoiled
<1>4. ASSUME NEW l \in Ledgers, FinishLine(l)
      PROVE  DiskInv'
  <2>1. PICK e \in LineEnds : AppendLine(l, e)
    BY <1>4 DEF FinishLine
  <2>2. ~Spoiled(l) /\ l \notin unfinished' /\ unfinished' \subseteq unfinished
    BY <1>4 DEF FinishLine, DiskInv
  <2>3. /\ \A i \in 1..Len(disk'[l]) : disk'[l][i] # Malformed
        /\ Ends(disk'[l]) /\ Begins(disk'[l]) /\ written'[l] \in LineEnds
    BY <2>1, <2>2, LineStep
  <2>4. \A k \in Ledgers : k # l => Same(k)
    BY <2>1, <2>2, AppendLineFacts
  <2>5. Whole(l)
    BY <2>2, <2>3
  <2>6. QED
    BY <1>1, <2>4, <2>5
<1>5. ASSUME NEW l \in Ledgers, SpoilLine(l)
      PROVE  DiskInv'
  <2> DEFINE f == disk[l]
             g == disk'[l]
  <2>1. /\ disk' = [disk EXCEPT ![l] = Append(@, Malformed)] /\ Malformed \in Nat
        /\ ~Spoiled(l) /\ l \notin unfinished' /\ unfinished' \subseteq unfinished
        /\ written' = written
    BY <1>5 DEF SpoilLine, DiskInv, Malformed
  <2>2. /\ Len(f) \in Nat /\ Len(g) = Len(f) + 1
        /\ \A i \in 1..Len(f) : g[i] = f[i]
        /\ g[Len(f) + 1] = Malformed
        /\ \A k \in Ledgers : k # l => disk'[k] = disk[k]
    BY <2>1, GrowFacts
  <2>3. /\ \A i \in 1..Len(f) : f[i] # Malformed
        /\ Ends(f) /\ Begins(f) /\ written'[l] \in LineEnds \cup {0}
    BY <1>0, <2>1 DEF DiskInv, Spoiled
  <2> HIDE DEF f, g
  <2>4. \A i \in 1..Len(g) : i \in 1..Len(f) \/ i = Len(f) + 1
    BY <2>2
  <2>5. Ends(g)
    <3> SUFFICES ASSUME NEW i \in 1..Len(g), g[i] \notin LineEnds \cup {Malformed}
                 PROVE  i < Len(g) /\ g[i+1] = g[i] + 1
      BY DEF Ends
    <3>1. i \in 1..Len(f) /\ g[i] = f[i]
      BY <2>2, <2>4
    <3>2. i < Len(f) /\ f[i+1] = f[i] + 1
      BY <2>3, <3>1 DEF Ends
    <3>3. i + 1 \in 1..Len(f) /\ i < Len(g)
      BY <2>2, <3>1, <3>2
    <3>4. QED
      BY <2>2, <3>1, <3>2, <3>3
  <2>6. Begins(g)
    <3> SUFFICES ASSUME NEW i \in 1..Len(g), g[i] # Malformed, g[i] - 1 \notin LineEnds \cup {0}
                 PROVE  i > 1 /\ g[i-1] = g[i] - 1
      BY DEF Begins
    <3>1. i \in 1..Len(f) /\ g[i] = f[i]
      BY <2>2, <2>4
    <3>2. i > 1 /\ f[i-1] = f[i] - 1
      BY <2>3, <3>1 DEF Begins
    <3>3. i - 1 \in 1..Len(f)
      BY <2>2, <3>1, <3>2
    <3>4. QED
      BY <2>2, <3>1, <3>2, <3>3
  <2>7. \A i \in 1..Len(g) : g[i] = Malformed => i = Len(g)
    BY <2>2, <2>3, <2>4
  <2>8. Whole(l)
    BY <2>1, <2>3, <2>5, <2>6, <2>7 DEF g
  <2>9. \A k \in Ledgers : k # l => Same(k)
    BY <2>1, <2>2
  <2>10. QED
    BY <1>1, <2>8, <2>9
<1>6. ASSUME NEW l \in Ledgers, RestoreLedger(l)
      PROVE  DiskInv'
  <2> DEFINE f == disk[l]
             g == disk'[l]
  <2>1. /\ Len(f) \in Nat /\ Len(g) \in Nat /\ Len(g) < Len(f) /\ g \in Seq(Nat)
        /\ \A i \in 1..Len(g) : g[i] = f[i]
        /\ \A k \in Ledgers : k # l => disk'[k] = disk[k]
        /\ Len(g) > 0 => g[Len(g)] \in LineEnds
        /\ l \notin unfinished' /\ unfinished' = unfinished /\ written' = written
    BY <1>0, <1>6, RestoreFacts DEF RestoreLedger
  <2>2. /\ \A i \in 1..Len(g) : i \in 1..Len(f) /\ f[i] # Malformed
        /\ Ends(f) /\ Begins(f) /\ written'[l] \in LineEnds \cup {0}
    BY <2>1 DEF DiskInv
  <2> HIDE DEF f, g
  <2>3. Ends(g)
    <3> SUFFICES ASSUME NEW i \in 1..Len(g), g[i] \notin LineEnds
                 PROVE  i < Len(g) /\ g[i+1] = g[i] + 1
      BY DEF Ends
    <3>1. i # Len(g)
      BY <2>1
    <3>2. i < Len(g) /\ i + 1 \in 1..Len(g)
      BY <2>1, <3>1
    <3>3. f[i+1] = f[i] + 1
      BY <2>1, <2>2 DEF Ends
    <3>4. QED
      BY <2>1, <3>2, <3>3
  <2>4. Begins(g)
    <3> SUFFICES ASSUME NEW i \in 1..Len(g), g[i] - 1 \notin LineEnds \cup {0}
                 PROVE  i > 1 /\ g[i-1] = g[i] - 1
      BY DEF Begins
    <3>1. i > 1 /\ f[i-1] = f[i] - 1
      BY <2>1, <2>2 DEF Begins
    <3>2. i - 1 \in 1..Len(g)
      BY <2>1, <3>1
    <3>3. QED
      BY <2>1, <3>1, <3>2
  <2>5. \A i \in 1..Len(g) : g[i] # Malformed
    BY <2>1, <2>2
  <2>6. Whole(l)
    BY <2>1, <2>2, <2>3, <2>4, <2>5 DEF g
  <2>7. \A k \in Ledgers : k # l => Same(k)
    BY <2>1
  <2>8. QED
    BY <1>1, <2>6, <2>7
<1>7. QED
  BY <1>2, <1>3, <1>4, <1>5, <1>6, DiskChanges

\* What is put behind an object that ends with a record leaves it so.
LEMMA CleanConcat ==
  ASSUME NEW f \in Seq(Nat), NEW g \in Seq(Nat), Clean(f), Clean(g)
  PROVE  Clean(f \o g)
<1> DEFINE h == f \o g
<1>1. /\ h \in Seq(Nat) /\ Len(f) \in Nat /\ Len(g) \in Nat /\ Len(h) = Len(f) + Len(g)
      /\ \A i \in 1..Len(f) + Len(g) : h[i] = IF i <= Len(f) THEN f[i] ELSE g[i - Len(f)]
  BY ConcatProperties, LenProperties
<1>2. Malformed \notin Held(h)
  BY HeldConcat DEF Clean
<1> HIDE DEF h
<1>3. Ends(f) /\ Ends(g) /\ \A i \in 1..Len(f) : f[i] # Malformed
  BY HeldFacts DEF Clean
<1>4. Ends(h)
  <2> SUFFICES ASSUME NEW i \in 1..Len(h), h[i] \notin LineEnds \cup {Malformed}
               PROVE  i < Len(h) /\ h[i+1] = h[i] + 1
    BY DEF Ends
  <2>1. CASE i <= Len(f)
    <3>1. i \in 1..Len(f) /\ h[i] = f[i]
      BY <1>1, <2>1
    <3>2. i < Len(f) /\ f[i+1] = f[i] + 1
      BY <1>3, <3>1 DEF Ends
    <3>3. i \in Int /\ i + 1 \in 1..Len(f) + Len(g) /\ i + 1 <= Len(f)
      <4> DEFINE m == Len(f)
                 n == Len(g)
      <4>1. m \in Nat /\ n \in Nat /\ i \in 1..m /\ i < m
        BY <1>1, <3>1, <3>2
      <4> HIDE DEF m, n
      <4>2. i \in Int /\ i + 1 \in 1..m + n /\ i + 1 <= m
        BY <4>1
      <4>3. QED
        BY <4>2 DEF m, n
    <3>4. h[i+1] = f[i+1] /\ i < Len(h)
      BY <1>1, <3>3
    <3>5. QED
      BY <3>1, <3>2, <3>4
  <2>2. CASE i > Len(f)
    <3> DEFINE k == i - Len(f)
    <3>0. i \in Int /\ i \in 1..Len(f) + Len(g) /\ i = Len(f) + k /\ k \in 1..Len(g)
      BY <1>1, <2>2
    <3>1. k \in 1..Len(g) /\ h[i] = g[k]
      BY <1>1, <2>2, <3>0
    <3> HIDE DEF k
    <3>2. k < Len(g) /\ g[k+1] = g[k] + 1
      BY <1>3, <3>1 DEF Ends
    <3>3. /\ i + 1 \in 1..Len(f) + Len(g) /\ ~(i + 1 <= Len(f)) /\ i < Len(h)
          /\ i + 1 - Len(f) = k + 1
      <4> DEFINE m == Len(f)
                 n == Len(g)
      <4>1. m \in Nat /\ n \in Nat /\ Len(h) = m + n /\ i = m + k /\ k \in 1..n /\ k < n
        BY <1>1, <3>0, <3>2
      <4> HIDE DEF m, n
      <4>2. i + 1 \in 1..m + n /\ ~(i + 1 <= m) /\ i < m + n /\ i + 1 - m = k + 1
        BY <4>1
      <4>3. QED
        BY <4>1, <4>2 DEF m, n
    <3>4. h[i+1] = g[k+1]
      BY SMTT(20), <1>1, <3>3
    <3>5. QED
      BY <3>1, <3>2, <3>3, <3>4
  <2>3. QED
    BY <1>1, <2>1, <2>2
<1>5. QED
  BY <1>2, <1>4 DEF Clean, h

LEMMA BeginsConcat ==
  ASSUME NEW f \in Seq(Nat), NEW g \in Seq(Nat), Begins(f), Begins(g)
  PROVE  Begins(f \o g)
<1> DEFINE h == f \o g
<1>1. /\ h \in Seq(Nat) /\ Len(f) \in Nat /\ Len(g) \in Nat /\ Len(h) = Len(f) + Len(g)
      /\ \A i \in 1..Len(f) + Len(g) : h[i] = IF i <= Len(f) THEN f[i] ELSE g[i - Len(f)]
  BY ConcatProperties, LenProperties
<1> HIDE DEF h
<1>2. Begins(h)
  <2> SUFFICES ASSUME NEW i \in 1..Len(h), h[i] # Malformed, h[i] - 1 \notin LineEnds \cup {0}
               PROVE  i > 1 /\ h[i-1] = h[i] - 1
    BY DEF Begins
  <2>1. CASE i <= Len(f)
    <3>1. i \in 1..Len(f) /\ h[i] = f[i]
      BY <1>1, <2>1
    <3>2. i > 1 /\ f[i-1] = f[i] - 1
      BY <3>1 DEF Begins
    <3>3. i \in Int /\ i - 1 \in 1..Len(f) + Len(g) /\ i - 1 <= Len(f)
      <4> DEFINE m == Len(f)
                 n == Len(g)
      <4>1. m \in Nat /\ n \in Nat /\ i \in 1..m /\ i > 1
        BY <1>1, <3>1, <3>2
      <4> HIDE DEF m, n
      <4>2. i \in Int /\ i - 1 \in 1..m + n /\ i - 1 <= m
        BY <4>1
      <4>3. QED
        BY <4>2 DEF m, n
    <3>4. h[i-1] = f[i-1]
      BY <1>1, <3>3
    <3>5. QED
      BY <3>1, <3>2, <3>4
  <2>2. CASE i > Len(f)
    <3> DEFINE k == i - Len(f)
    <3>0. i \in Int /\ i \in 1..Len(f) + Len(g) /\ i = Len(f) + k /\ k \in 1..Len(g)
      BY <1>1, <2>2
    <3>1. k \in 1..Len(g) /\ h[i] = g[k]
      BY <1>1, <2>2, <3>0
    <3> HIDE DEF k
    <3>2. k > 1 /\ g[k-1] = g[k] - 1
      BY <3>1 DEF Begins
    <3>3. /\ i - 1 \in 1..Len(f) + Len(g) /\ ~(i - 1 <= Len(f)) /\ i > 1
          /\ i - 1 - Len(f) = k - 1
      <4> DEFINE m == Len(f)
                 n == Len(g)
      <4>1. m \in Nat /\ n \in Nat /\ i = m + k /\ k \in 1..n /\ k > 1
        BY <1>1, <3>0, <3>2
      <4> HIDE DEF m, n
      <4>2. i - 1 \in 1..m + n /\ ~(i - 1 <= m) /\ i > 1 /\ i - 1 - m = k - 1
        BY <4>1
      <4>3. QED
        BY <4>1, <4>2 DEF m, n
    <3>4. h[i-1] = g[k-1]
      BY <1>1, <3>3
    <3>5. QED
      BY <3>1, <3>2, <3>3, <3>4
  <2>3. QED
    BY <1>1, <2>1, <2>2
<1>3. QED
  BY <1>2 DEF h

\* What is read ends with a record, since its last line has been parsed, and no
\* earlier one is malformed.  It begins with one if the cursor does.
LEMMA ChunkClean ==
  ASSUME TypeInv, DiskInv, NEW s \in Syncers, at[s] \in Ledgers, Uploadable(s)
  PROVE  /\ Clean(Chunk(s))
         /\ OnEnd(disk[at[s]], Len(disk[at[s]]))
         /\ OnEnd(disk[at[s]], Start(s)) => Begins(Chunk(s))
<1> DEFINE f == disk[at[s]]
           c == Start(s)
           chunk == Chunk(s)
<1>1. /\ f \in Seq(Nat) /\ Len(f) \in Nat /\ c \in Nat /\ chunk \in Seq(Nat)
      /\ c < Len(f) /\ Len(chunk) = Len(f) - c
      /\ \A i \in 1..Len(chunk) : chunk[i] = f[c + i]
  BY ChunkFacts DEF Uploadable, TypeInv
<1>2. /\ \A i \in 1..Len(f) : f[i] = Malformed => i = Len(f)
      /\ Ends(f) /\ Begins(f)
  BY DEF DiskInv
<1>3. chunk[Len(chunk)] # Malformed
  BY DEF Uploadable, Parses
<1>4. OnEnd(disk[at[s]], c) <=> c = 0 \/ (c \in 1..Len(f) /\ f[c] \in LineEnds)
  BY DEF OnEnd
<1>5. OnEnd(disk[at[s]], Len(f)) <=> Len(f) = 0 \/ (Len(f) \in 1..Len(f) /\ f[Len(f)] \in LineEnds)
  BY DEF OnEnd
<1> HIDE DEF f, c, chunk
<1>6. f[Len(f)] # Malformed /\ Len(f) \in 1..Len(f)
  <2>1. Len(chunk) \in 1..Len(chunk) /\ c + Len(chunk) = Len(f)
    BY <1>1
  <2>2. chunk[Len(chunk)] = f[Len(f)]
    BY <1>1, <2>1
  <2>3. Len(f) \in 1..Len(f)
    BY <1>1
  <2>4. QED
    BY <1>3, <2>2, <2>3
<1>7. f[Len(f)] \in LineEnds
  BY <1>1, <1>2, <1>6 DEF Ends
<1>8. \A i \in 1..Len(f) : f[i] # Malformed
  BY <1>2, <1>6
<1>9. \A i \in 1..Len(chunk) : c + i \in 1..Len(f) /\ chunk[i] # Malformed
  <2>1. \A i \in 1..Len(chunk) : c + i \in 1..Len(f)
    BY <1>1
  <2>2. QED
    BY <1>1, <1>8, <2>1
<1>10. Malformed \notin Held(chunk)
  BY <1>1, <1>9, HeldFacts
<1>11. Ends(chunk)
  <2> SUFFICES ASSUME NEW i \in 1..Len(chunk), chunk[i] \notin LineEnds
               PROVE  i < Len(chunk) /\ chunk[i+1] = chunk[i] + 1
    BY DEF Ends
  <2>1. c + i \in 1..Len(f) /\ chunk[i] = f[c + i] /\ f[c + i] # Malformed
    BY <1>1, <1>8, <1>9
  <2>2. c + i < Len(f) /\ f[c + i + 1] = f[c + i] + 1
    BY <1>2, <2>1 DEF Ends
  <2>3. i + 1 \in 1..Len(chunk) /\ i < Len(chunk) /\ c + (i + 1) = c + i + 1
    <3> DEFINE m == Len(f)
               n == Len(chunk)
    <3>1. m \in Nat /\ c \in Nat /\ n = m - c /\ i \in 1..n /\ c + i < m
      BY <1>1, <2>2
    <3> HIDE DEF m, n
    <3>2. i + 1 \in 1..n /\ i < n /\ c + (i + 1) = c + i + 1
      BY <3>1
    <3>3. QED
      BY <3>2 DEF m, n
  <2>4. QED
    BY <1>1, <2>1, <2>2, <2>3
<1>12. ASSUME c = 0 \/ (c \in 1..Len(f) /\ f[c] \in LineEnds)
       PROVE  Begins(chunk)
  <2> SUFFICES ASSUME NEW i \in 1..Len(chunk), chunk[i] - 1 \notin LineEnds \cup {0}
               PROVE  i > 1 /\ chunk[i-1] = chunk[i] - 1
    BY DEF Begins
  <2>1. c + i \in 1..Len(f) /\ chunk[i] = f[c + i] /\ f[c + i] # Malformed
    BY <1>1, <1>8, <1>9
  <2>2. c + i > 1 /\ f[c + i - 1] = f[c + i] - 1
    <3> DEFINE j == c + i
    <3>1. j \in 1..Len(f) /\ f[j] # Malformed /\ f[j] - 1 \notin LineEnds \cup {0}
      BY <2>1
    <3> HIDE DEF j
    <3>2. j > 1 /\ f[j-1] = f[j] - 1
      BY <1>2, <3>1 DEF Begins
    <3> USE DEF j
    <3>3. j - 1 = c + i - 1
      BY <1>1
    <3>4. QED
      BY <3>2, <3>3
  <2>3. i # 1
    <3>1. ASSUME i = 1
          PROVE  c # 0 /\ f[c] = chunk[i] - 1
      <4>1. c + i - 1 = c /\ c # 0
        BY <1>1, <2>2, <3>1
      <4>2. QED
        BY <2>1, <2>2, <4>1
    <3>2. QED
      BY <1>12, <3>1
  <2>4. i - 1 \in 1..Len(chunk) /\ i > 1 /\ c + (i - 1) = c + i - 1
    BY <1>1, <2>3
  <2>5. QED
    BY <1>1, <2>1, <2>2, <2>4
<1>13. QED
  BY <1>4, <1>5, <1>6, <1>7, <1>10, <1>11, <1>12 DEF Clean, f, c, chunk

LEMMA CleanStep == TypeInv /\ DiskInv /\ CleanInv /\ [Next]_vars => CleanInv'
<1> SUFFICES ASSUME TypeInv, DiskInv, CleanInv, [Next]_vars PROVE CleanInv'
  OBVIOUS
<1> USE DEF CleanInv, Goto
<1>1. ASSUME NEW s \in Syncers, ReadLedger(s)
      PROVE  CleanInv'
  <2>1. Clean(Chunk(s))
    BY <1>1, ChunkClean DEF ReadLedger
  <2>2. buf'[s].body = Chunk(s) /\ \A r \in Syncers : r # s => buf'[r] = buf[r]
    BY <1>1 DEF ReadLedger, TypeInv, NoBuf
  <2>3. QED
    BY <1>1, <2>1, <2>2 DEF ReadLedger, TypeInv, remote
<1>2. ASSUME NEW s \in Syncers, GetExisting(s)
      PROVE  CleanInv'
  <2>1. at[s] \in Ledgers /\ archive[at[s]] \in Seq(Nat) /\ buf[s].body \in Seq(Nat)
    BY <1>2 DEF GetExisting, TypeInv, Buffer
  <2>2. Clean(Existing(s) \o buf[s].body)
    BY <1>2, <2>1, CleanConcat DEF Existing, GetExisting
  <2>3. /\ buf'[s].body = Existing(s) \o buf[s].body
        /\ \A r \in Syncers : r # s => buf'[r] = buf[r]
    BY <1>2 DEF GetExisting, TypeInv, Buffer
  <2>4. QED
    BY <1>2, <2>2, <2>3 DEF GetExisting, TypeInv, remote
<1>3. ASSUME NEW s \in Syncers, GetFails(s)
      PROVE  CleanInv'
  BY <1>3 DEF GetFails, TypeInv, remote
<1>4. ASSUME NEW s \in Syncers, PutLedger(s)
      PROVE  CleanInv'
  BY <1>4 DEF PutLedger, Advance, TypeInv
<1>5. ASSUME NEW s \in Syncers, pc'[s] \notin {"get", "put"}, archive' = archive,
             \A r \in Syncers : r # s => pc'[r] = pc[r] /\ buf'[r] = buf[r]
      PROVE  CleanInv'
  BY <1>5
<1>6. CASE UNCHANGED <<pc, buf, archive>>
  BY <1>6
<1>7. ASSUME NEW s \in Syncers, Load(s) \/ TruncateState(s)
      PROVE  CleanInv'
  BY <1>5, <1>7 DEF Load, TruncateState, TypeInv, remote
<1>8. ASSUME NEW s \in Syncers, ReadConstitution(s) \/ ReadResearch(s)
      PROVE  CleanInv'
  BY <1>5, <1>8 DEF ReadConstitution, ReadResearch, TypeInv, remote
<1>9. ASSUME NEW s \in Syncers,
             PutConstitution(s) \/ PutBundle(s) \/ PutBundleSameSecond(s)
      PROVE  CleanInv'
  BY <1>5, <1>9 DEF PutConstitution, PutBundle, PutBundleSameSecond, FinishBundle, Advance, TypeInv
<1>10. ASSUME NEW s \in Syncers, PutFails(s) \/ WriteState(s) \/ Kill(s)
       PROVE  CleanInv'
  BY <1>5, <1>10 DEF PutFails, WriteState, Kill, Stop, remote
<1>11. CASE LocalStep
  BY <1>6, <1>11 DEF LocalStep, StartLine, FinishLine, SpoilLine, RestoreLedger,
     ReviseConstitution, WriteArtifact, remote
<1>12. ASSUME NEW s \in Syncers, SkipLedger(s) \/ SkipConstitution(s) \/ SkipResearch(s)
       PROVE  CleanInv'
  BY <1>6, <1>12 DEF SkipLedger, SkipConstitution, SkipResearch, Skip, remote
<1>13. CASE UNCHANGED vars
  BY <1>6, <1>13 DEF vars, remote
<1>14. QED
  BY <1>1, <1>2, <1>3, <1>4, <1>7, <1>8, <1>9, <1>10, <1>11, <1>12, <1>13
  DEF Next, SyncStep, SyncFault, LoadFails

LEMMA FaultsGrow == [Next]_vars => faults \subseteq faults'
  BY DEF Next, LocalStep, SyncStep, SyncFault, Fault, StartLine, FinishLine, SpoilLine,
     RestoreLedger, ReviseConstitution, WriteArtifact, Load, LoadFails, SkipLedger, Skip,
     ReadLedger, GetExisting, PutLedger, SkipConstitution, ReadConstitution, PutConstitution,
     SkipResearch, ReadResearch, PutBundle, FinishBundle, TruncateState, WriteState, GetFails,
     PutBundleSameSecond, PutFails, Kill, vars

\* A ledger that grows keeps the lines it has.
LEMMA GrownEnds ==
  ASSUME NEW f, NEW g, Len(f) \in Nat, Len(g) \in Nat, Len(f) <= Len(g),
         \A i \in 1..Len(f) : g[i] = f[i],
         NEW c, OnEnd(f, c)
  PROVE  OnEnd(g, c)
  BY DEF OnEnd

\* So does one that is not restored.
LEMMA EndsStay ==
  ASSUME TypeInv, [Next]_vars, "restore" \notin faults', NEW l \in Ledgers, NEW c, OnEnd(disk[l], c)
  PROVE  OnEnd(disk'[l], c)
<1>1. /\ Len(disk[l]) \in Nat /\ Len(disk'[l]) \in Nat
      /\ Len(disk[l]) <= Len(disk'[l]) /\ \A i \in 1..Len(disk[l]) : disk'[l][i] = disk[l][i]
  <2>0. Len(disk[l]) \in Nat
    BY LenProperties DEF TypeInv
  <2>1. CASE UNCHANGED disk
    BY <2>0, <2>1
  <2>2. ASSUME NEW k \in Ledgers, FinishLine(k)
        PROVE  /\ Len(disk'[l]) \in Nat /\ Len(disk[l]) <= Len(disk'[l])
               /\ \A i \in 1..Len(disk[l]) : disk'[l][i] = disk[l][i]
    <3>1. PICK e \in LineEnds : AppendLine(k, e)
      BY <2>2 DEF FinishLine
    <3>2. written[k] \in Nat /\ e \in Nat /\ written[k] < e
      BY <3>1, LineFacts DEF AppendLine
    <3>3. CASE k = l
      BY SMTT(20), <2>0, <3>1, <3>2, <3>3, AppendLineFacts
    <3>4. CASE k # l
      BY <2>0, <3>1, <3>4, AppendLineFacts
    <3>5. QED
      BY <3>3, <3>4
  <2>3. ASSUME NEW k \in Ledgers, SpoilLine(k)
        PROVE  /\ Len(disk'[l]) \in Nat /\ Len(disk[l]) <= Len(disk'[l])
               /\ \A i \in 1..Len(disk[l]) : disk'[l][i] = disk[l][i]
    <3>1. disk' = [disk EXCEPT ![k] = Append(@, Malformed)] /\ Malformed \in Nat
      BY <2>3 DEF SpoilLine, Malformed
    <3>2. CASE k = l
      BY <2>0, <3>1, <3>2, GrowFacts
    <3>3. CASE k # l
      BY <2>0, <3>1, <3>3, GrowFacts
    <3>4. QED
      BY <3>2, <3>3
  <2>4. ASSUME NEW k \in Ledgers, RestoreLedger(k)
        PROVE  FALSE
    BY <2>4 DEF RestoreLedger, Fault
  <2>5. QED
    BY <2>0, <2>1, <2>2, <2>3, <2>4, DiskChanges DEF StartLine
<1>2. QED
  BY <1>1, GrownEnds

\* Cursors are set to the end of what was read, which a record ends.
LEMMA AlignedStep == TypeInv /\ DiskInv /\ AlignedInv /\ [Next]_vars => AlignedInv'
<1> SUFFICES ASSUME TypeInv, DiskInv, AlignedInv, [Next]_vars, "restore" \notin faults'
             PROVE  AlignedInv'
  BY DEF AlignedInv
<1> DEFINE Reading(s) == pc[s] \in {"get", "put"}
           Goal == /\ \A l \in Ledgers : Begins(archive'[l])
                   /\ state' # Torn => \A l \in Ledgers : OnEnd(disk'[l], state'.cursors[l])
                   /\ \A s \in Syncers : \A l \in Ledgers : OnEnd(disk'[l], mem'[s].cursors[l])
                   /\ \A s \in Syncers : pc'[s] \in {"get", "put"} =>
                        Begins(buf'[s].body) /\ OnEnd(disk'[at'[s]], buf'[s].upto)
<1> USE DEF Goto
<1>0. /\ \A l \in Ledgers : Begins(archive[l])
      /\ state # Torn => \A l \in Ledgers : OnEnd(disk[l], state.cursors[l])
      /\ \A s \in Syncers : \A l \in Ledgers : OnEnd(disk[l], mem[s].cursors[l])
      /\ \A s \in Syncers : Reading(s) => Begins(buf[s].body) /\ OnEnd(disk[at[s]], buf[s].upto)
      /\ \A l \in Ledgers : \A c : OnEnd(disk[l], c) => OnEnd(disk'[l], c)
      /\ \A s \in Syncers : Reading(s) => at[s] \in Ledgers
      /\ \A l \in Ledgers : OnEnd(disk'[l], EmptyState.cursors[l])
      /\ DOMAIN EmptyState.cursors = Ledgers
  <2>1. "restore" \notin faults
    BY FaultsGrow
  <2>2. \A l \in Ledgers : \A c : OnEnd(disk[l], c) => OnEnd(disk'[l], c)
    BY EndsStay
  <2>3. \A l \in Ledgers : OnEnd(disk'[l], EmptyState.cursors[l])
    BY DEF OnEnd, EmptyState
  <2>4. QED
    BY <2>1, <2>2, <2>3 DEF AlignedInv, TypeInv, EmptyState
<1>1. ASSUME UNCHANGED archive,
             state' = state \/ state' = Torn \/ (\E s \in Syncers : state' = mem[s]),
             \A s \in Syncers : \/ mem'[s].cursors = mem[s].cursors
                               \/ mem'[s] = EmptyState
                               \/ (state # Torn /\ mem'[s] = state),
             \A s \in Syncers : pc'[s] \in {"get", "put"} =>
               Reading(s) /\ buf'[s] = buf[s] /\ at'[s] = at[s]
      PROVE  AlignedInv'
  <2>1. state' # Torn => \A l \in Ledgers : OnEnd(disk'[l], state'.cursors[l])
    BY <1>0, <1>1
  <2>2. \A s \in Syncers : \A l \in Ledgers : OnEnd(disk'[l], mem'[s].cursors[l])
    BY <1>0, <1>1
  <2>3. \A s \in Syncers : pc'[s] \in {"get", "put"} =>
          Begins(buf'[s].body) /\ OnEnd(disk'[at'[s]], buf'[s].upto)
    BY <1>0, <1>1
  <2>4. QED
    BY <1>0, <1>1, <2>1, <2>2, <2>3 DEF AlignedInv
<1>2. ASSUME NEW s \in Syncers, ReadLedger(s)
      PROVE  AlignedInv'
  <2> DEFINE l == at[s]
  <2>1. /\ l \in Ledgers /\ Uploadable(s) /\ Start(s) \in {0, mem[s].cursors[l]}
    BY <1>2, ChunkFacts DEF ReadLedger
  <2>2. OnEnd(disk[l], Start(s))
    <3>1. OnEnd(disk[l], 0)
      BY DEF OnEnd
    <3>2. QED
      BY <1>0, <2>1, <3>1
  <2>3. Begins(Chunk(s)) /\ OnEnd(disk[l], Len(disk[l]))
    BY <2>1, <2>2, ChunkClean
  <2>4. /\ buf'[s].body = Chunk(s) /\ buf'[s].upto = Len(disk[l])
        /\ \A r \in Syncers : r # s => buf'[r] = buf[r] /\ pc'[r] = pc[r]
        /\ UNCHANGED <<archive, state, mem, at, disk>>
    BY <1>2 DEF ReadLedger, TypeInv, NoBuf, remote, local
  <2>5. OnEnd(disk'[l], Len(disk[l]))
    BY <2>3, <2>4 DEF OnEnd
  <2>6. ASSUME NEW r \in Syncers, pc'[r] \in {"get", "put"}
        PROVE  Begins(buf'[r].body) /\ OnEnd(disk'[at'[r]], buf'[r].upto)
    <3>1. CASE r = s
      BY <2>3, <2>4, <2>5, <3>1
    <3>2. CASE r # s
      BY <1>0, <2>4, <2>6, <3>2
    <3>3. QED
      BY <3>1, <3>2
  <2>7. QED
    BY <1>0, <2>4, <2>6 DEF AlignedInv
<1>3. ASSUME NEW s \in Syncers, GetExisting(s)
      PROVE  AlignedInv'
  <2> DEFINE l == at[s]
  <2>1. /\ l \in Ledgers /\ archive[l] \in Seq(Nat) /\ buf[s].body \in Seq(Nat)
        /\ Reading(s)
    BY <1>3 DEF GetExisting, TypeInv, Buffer
  <2>2. Begins(archive[l] \o buf[s].body) /\ OnEnd(disk'[l], buf[s].upto)
    BY <1>0, <2>1, BeginsConcat
  <2>3. /\ buf'[s].body = archive[l] \o buf[s].body /\ buf'[s].upto = buf[s].upto
        /\ \A r \in Syncers : r # s => buf'[r] = buf[r] /\ pc'[r] = pc[r]
        /\ UNCHANGED <<archive, state, mem, at>>
    BY <1>3 DEF GetExisting, Existing, TypeInv, Buffer, remote
  <2>4. ASSUME NEW r \in Syncers, pc'[r] \in {"get", "put"}
        PROVE  Begins(buf'[r].body) /\ OnEnd(disk'[at'[r]], buf'[r].upto)
    <3>1. CASE r = s
      BY <2>2, <2>3, <3>1
    <3>2. CASE r # s
      BY <1>0, <2>3, <2>4, <3>2
    <3>3. QED
      BY <3>1, <3>2
  <2>5. QED
    BY <1>0, <2>3, <2>4 DEF AlignedInv
<1>4. ASSUME NEW s \in Syncers, PutLedger(s)
      PROVE  AlignedInv'
  <2> DEFINE l == at[s]
  <2>1. /\ l \in Ledgers /\ Begins(buf[s].body) /\ OnEnd(disk'[l], buf[s].upto)
    BY <1>0, <1>4 DEF PutLedger
  <2>2. /\ archive' = [archive EXCEPT ![l] = buf[s].body]
        /\ mem'[s].cursors[l] = buf[s].upto
        /\ \A k \in Ledgers : k # l => mem'[s].cursors[k] = mem[s].cursors[k]
        /\ \A r \in Syncers : r # s => UNCHANGED <<mem[r], pc[r], at[r], buf[r]>>
        /\ pc'[s] = "surface" /\ state' = state
    BY <1>4, <2>1 DEF PutLedger, Advance, TypeInv, SavedState
  <2>3. \A k \in Ledgers : Begins(archive'[k])
    BY <1>0, <2>1, <2>2 DEF TypeInv
  <2>4. \A r \in Syncers : \A k \in Ledgers : OnEnd(disk'[k], mem'[r].cursors[k])
    BY SMTT(20), <1>0, <2>1, <2>2
  <2>5. QED
    BY <1>0, <2>2, <2>3, <2>4 DEF AlignedInv
<1>5. ASSUME NEW s \in Syncers, GetFails(s)
      PROVE  AlignedInv'
  <2>1. \A r \in Syncers : pc'[r] \in {"get", "put"} => Reading(r)
    BY <1>5 DEF GetFails, TypeInv
  <2>2. QED
    BY <1>1, <1>5, <2>1 DEF GetFails, remote
<1>6. ASSUME UNCHANGED <<archive, state, mem, pc, buf>>,
             \A s \in Syncers : Reading(s) => at'[s] = at[s]
      PROVE  AlignedInv'
  BY <1>1, <1>6
<1>7. ASSUME NEW s \in Syncers, Load(s) \/ TruncateState(s)
      PROVE  AlignedInv'
  <2>1. /\ UNCHANGED <<archive, at, buf>> /\ pc'[s] \notin {"get", "put"}
        /\ \A r \in Syncers : r # s => pc'[r] = pc[r]
        /\ state' \in {state, Torn}
        /\ \A r \in Syncers : mem'[r] = mem[r] \/ (state # Torn /\ mem'[r] = state)
    BY <1>7 DEF Load, TruncateState, TypeInv, remote
  <2>2. QED
    BY <1>1, <2>1
<1>8. ASSUME NEW s \in Syncers, ReadConstitution(s) \/ ReadResearch(s)
      PROVE  AlignedInv'
  <2>1. /\ UNCHANGED <<archive, at, state, mem>> /\ pc'[s] \notin {"get", "put"}
        /\ \A r \in Syncers : r # s => pc'[r] = pc[r] /\ buf'[r] = buf[r]
    BY <1>8 DEF ReadConstitution, ReadResearch, TypeInv, remote
  <2>2. QED
    BY <1>1, <2>1
<1>9. ASSUME NEW s \in Syncers,
             PutConstitution(s) \/ PutBundle(s) \/ PutBundleSameSecond(s)
      PROVE  AlignedInv'
  <2>1. /\ UNCHANGED <<archive, state>> /\ pc'[s] \notin {"get", "put"}
        /\ \A r \in Syncers : r # s => UNCHANGED <<mem[r], pc[r], at[r], buf[r]>>
        /\ mem'[s].cursors = mem[s].cursors
    BY <1>9 DEF PutConstitution, PutBundle, PutBundleSameSecond, FinishBundle, Advance, TypeInv,
       SavedState
  <2>2. QED
    BY <1>1, <2>1
<1>10. ASSUME NEW s \in Syncers, PutFails(s) \/ WriteState(s) \/ Kill(s)
       PROVE  AlignedInv'
  <2>1. Stop({s}) /\ UNCHANGED archive /\ state' \in {state, mem[s]}
    BY <1>10 DEF PutFails, WriteState, Kill, remote
  <2>2. \A r \in Syncers : \/ UNCHANGED <<mem[r], pc[r], at[r], buf[r]>>
                           \/ (pc'[r] = "off" /\ mem'[r] = EmptyState)
    BY <2>1 DEF Stop
  <2>3. QED
    BY <1>1, <2>1, <2>2
<1>11. CASE LocalStep
  BY <1>6, <1>11 DEF LocalStep, StartLine, FinishLine, SpoilLine, RestoreLedger,
     ReviseConstitution, WriteArtifact, remote
<1>12. ASSUME NEW s \in Syncers, SkipLedger(s) \/ SkipConstitution(s) \/ SkipResearch(s)
       PROVE  AlignedInv'
  <2>1. /\ UNCHANGED <<archive, state, mem, pc, buf>> /\ pc[s] = "surface"
        /\ \A r \in Syncers : r # s => at'[r] = at[r]
    BY <1>12 DEF SkipLedger, SkipConstitution, SkipResearch, Skip, remote, TypeInv
  <2>2. QED
    BY <1>6, <2>1
<1>13. CASE UNCHANGED vars
  BY <1>6, <1>13 DEF vars, remote
<1>14. QED
  BY <1>2, <1>3, <1>4, <1>5, <1>7, <1>8, <1>9, <1>10, <1>11, <1>12, <1>13
  DEF Next, SyncStep, SyncFault, LoadFails

\* A bundle holds what a sync adds to its record of bundled artifacts, and no
\* bundle is replaced by another.
LEMMA BundleStep == TypeInv /\ BundleInv /\ [Next]_vars => BundleInv'
<1> SUFFICES ASSUME TypeInv, BundleInv, [Next]_vars, "same_second" \notin faults'
             PROVE  /\ state' # Torn => \A f \in state'.bundled : Bundled(f)'
                    /\ \A s \in Syncers : \A f \in mem'[s].bundled : Bundled(f)'
  BY DEF BundleInv
<1> DEFINE Goal == /\ state' # Torn => \A f \in state'.bundled : Bundled(f)'
                   /\ \A s \in Syncers : \A f \in mem'[s].bundled : Bundled(f)'
<1>1. ASSUME bundles' = bundles, faults' = faults,
             mem' = mem \/ \E s \in Syncers : mem' = [mem EXCEPT ![s] = state] /\ state # Torn,
             state' \in {state, Torn}
      PROVE  Goal
  <2>1. \A f : Bundled(f)' <=> Bundled(f)
    BY <1>1 DEF Bundled
  <2>2. \A s \in Syncers : mem'[s] = mem[s] \/ (mem'[s] = state /\ state # Torn)
    BY <1>1 DEF TypeInv
  <2>3. \A s \in Syncers : \A f \in mem'[s].bundled : Bundled(f)
    BY <1>1, <2>2 DEF BundleInv
  <2>4. QED
    BY <1>1, <2>1, <2>3 DEF BundleInv
<1>2. ASSUME NEW s \in Syncers, Stop({s}), bundles' = bundles,
             \E kinds : faults' = faults \cup kinds,
             state' = state \/ state' = mem[s]
      PROVE  Goal
  BY <1>2 DEF Stop, EmptyState, BundleInv, Bundled
<1>3. ASSUME NEW s \in Syncers, PutLedger(s)
      PROVE  Goal
  <2>1. \A r \in Syncers : mem'[r].bundled = mem[r].bundled
    BY <1>3 DEF PutLedger, TypeInv, SavedState
  <2>2. QED
    BY <1>3, <2>1 DEF PutLedger, BundleInv, Bundled
<1>4. ASSUME NEW s \in Syncers, PutBundle(s)
      PROVE  Goal
  <2> DEFINE new == buf[s].members
  <2>1. /\ bundles \in Seq(Members) /\ new \in Members
        /\ bundles' = Append(bundles, new) /\ state' = state
        /\ faults' = faults
    BY <1>4 DEF PutBundle, FinishBundle, TypeInv, Buffer
  <2>2. /\ Len(bundles') = Len(bundles) + 1 /\ Len(bundles) \in Nat
        /\ \A i \in 1..Len(bundles) : bundles'[i] = bundles[i]
        /\ bundles'[Len(bundles) + 1] = new
        /\ DOMAIN bundles' = 1..Len(bundles') /\ DOMAIN bundles = 1..Len(bundles)
    BY <2>1, AppendProperties, LenProperties
  <2>3. \A f : Bundled(f) => Bundled(f)'
    BY <2>2 DEF Bundled
  <2>4. \A f \in Names(new) : Bundled(f)'
    BY <2>2 DEF Bundled
  <2>5. /\ mem'[s].bundled = mem[s].bundled \cup Names(new)
        /\ \A r \in Syncers : r # s => mem'[r] = mem[r]
    BY <1>4 DEF PutBundle, FinishBundle, Recorded, TypeInv, SavedState
  <2>6. QED
    BY <2>1, <2>3, <2>4, <2>5 DEF BundleInv
<1>5. ASSUME NEW s \in Syncers, PutBundleSameSecond(s)
      PROVE  FALSE
  BY <1>5 DEF PutBundleSameSecond, Fault
<1>6. ASSUME NEW s \in Syncers, WriteState(s) \/ PutFails(s) \/ Kill(s)
      PROVE  Goal
  <2>1. CASE WriteState(s)
    <3>1. faults' = faults \cup {}
      BY <2>1 DEF WriteState
    <3>2. QED
      BY <1>2, <2>1, <3>1 DEF WriteState, remote
  <2>2. CASE PutFails(s) \/ Kill(s)
    BY <1>2, <2>2 DEF PutFails, Kill, Fault, remote
  <2>3. QED
    BY <1>6, <2>1, <2>2
<1>7. ASSUME bundles' = bundles, state' = state, mem' = mem,
             \E kinds : faults' = faults \cup kinds
      PROVE  Goal
  BY <1>7 DEF BundleInv, Bundled
<1>8. ASSUME NEW l \in Ledgers, SpoilLine(l) \/ RestoreLedger(l)
      PROVE  Goal
  BY <1>7, <1>8 DEF SpoilLine, RestoreLedger, Fault, remote
<1>9. ASSUME NEW s \in Syncers, GetFails(s)
      PROVE  Goal
  BY <1>7, <1>9 DEF GetFails, Fault, remote
<1>10. ASSUME bundles' = bundles, state' = state, mem' = mem, faults' = faults
       PROVE  Goal
  BY <1>1, <1>10
<1>11. ASSUME NEW l \in Ledgers, StartLine(l) \/ FinishLine(l)
       PROVE  Goal
  BY <1>10, <1>11 DEF StartLine, FinishLine, remote
<1>12. CASE ReviseConstitution \/ \E f \in Files : WriteArtifact(f)
  BY <1>10, <1>12 DEF ReviseConstitution, WriteArtifact, remote
<1>13. ASSUME NEW s \in Syncers, Load(s) \/ TruncateState(s)
       PROVE  Goal
  BY <1>1, <1>13 DEF Load, TruncateState, remote
<1>14. ASSUME NEW s \in Syncers, SkipLedger(s) \/ SkipConstitution(s) \/ SkipResearch(s)
       PROVE  Goal
  BY <1>10, <1>14 DEF SkipLedger, SkipConstitution, SkipResearch, Skip, remote
<1>15. ASSUME NEW s \in Syncers, \/ ReadLedger(s) \/ GetExisting(s) \/ ReadConstitution(s)
                                 \/ PutConstitution(s) \/ ReadResearch(s)
       PROVE  Goal
  BY <1>10, <1>15 DEF ReadLedger, GetExisting, ReadConstitution, PutConstitution, ReadResearch,
     Advance, remote
<1>16. CASE UNCHANGED vars
  BY <1>10, <1>16 DEF vars, remote
<1>17. QED
  BY <1>3, <1>4, <1>5, <1>6, <1>8, <1>9, <1>11, <1>12, <1>13, <1>14, <1>15, <1>16
  DEF Next, LocalStep, SyncStep, SyncFault, LoadFails

AnyInv == TypeInv /\ DiskInv /\ CleanInv /\ AlignedInv /\ BundleInv

LEMMA InitAnyInv == Init => AnyInv
<1> SUFFICES ASSUME Init PROVE AnyInv
  OBVIOUS
<1>1. TypeInv
  BY TypeInit
<1>2. Len(<<>>) = 0 /\ \A n : n \notin Held(<<>>)
  BY EmptySeq DEF Held
<1>3. Ends(<<>>) /\ Begins(<<>>) /\ Clean(<<>>)
  BY <1>2 DEF Ends, Begins, Clean
<1>4. DiskInv /\ CleanInv /\ AlignedInv /\ BundleInv
  BY <1>2, <1>3 DEF Init, DiskInv, CleanInv, AlignedInv, OnEnd, BundleInv, EmptyState, Spoiled
<1>5. QED
  BY <1>1, <1>4 DEF AnyInv

LEMMA StepAnyInv == AnyInv /\ [Next]_vars => AnyInv'
  BY TypeStep, DiskStep, CleanStep, AlignedStep, BundleStep DEF AnyInv

LEMMA AnyInvariant == Spec => []AnyInv
  BY InitAnyInv, StepAnyInv, PTL DEF Spec

\* The invariant says what OnlyRecordsArchived says.
LEMMA RecordsFromInv == AnyInv => OnlyRecordsArchived
<1> SUFFICES ASSUME AnyInv, NEW l \in Ledgers
             PROVE  /\ Malformed \notin Held(archive[l])
                    /\ EndsWhole(archive[l])
                    /\ "restore" \notin faults => BeginsWhole(archive[l])
  BY DEF OnlyRecordsArchived
<1> DEFINE a == archive[l]
<1>1. /\ a \in Seq(Nat) /\ Len(a) \in Nat /\ DOMAIN a = 1..Len(a)
      /\ Malformed \notin Held(a) /\ Ends(a) /\ ("restore" \notin faults => Begins(a))
  BY LenProperties DEF AnyInv, TypeInv, CleanInv, Clean, AlignedInv
<1> HIDE DEF a
<1>2. \A i \in 1..Len(a) : a[i] # Malformed
  BY <1>1, HeldFacts
<1>3. EndsWhole(a)
  <2> SUFFICES ASSUME NEW i \in 1..Len(a), a[i] \notin LineEnds
               PROVE  i + 1 \in 1..Len(a) /\ a[i+1] = a[i] + 1
    BY <1>1 DEF EndsWhole
  <2>1. i < Len(a) /\ a[i+1] = a[i] + 1
    BY <1>1, <1>2 DEF Ends
  <2>2. QED
    BY <1>1, <2>1
<1>4. "restore" \notin faults => BeginsWhole(a)
  BY <1>1, <1>2 DEF BeginsWhole, Begins
<1>5. QED
  BY <1>1, <1>3, <1>4 DEF a

\* However syncs overlap, fail and die, and whatever happens to the ledgers,
\* the archive holds records and ends with one; unless a ledger was restored, none
\* of them lacks its beginning.
THEOREM OnlyRecords == Spec => []OnlyRecordsArchived
<1>1. AnyInv => OnlyRecordsArchived
  BY RecordsFromInv
<1>2. QED
  BY <1>1, AnyInvariant, PTL

\* However syncs overlap, fail and die, what the sidecar says is bundled is in
\* a bundle, unless one bundle took another's key.
THEOREM BundledArchived == Spec => []BundledIsArchived
<1>1. AnyInv => BundledIsArchived
  BY DEF AnyInv, BundleInv, BundledIsArchived, Bundled
<1>2. QED
  BY <1>1, AnyInvariant, PTL

-----------------------------------------------------------------------------
(* One sync at a time: lemmas about objects *)

\* A larger cursor covers what a smaller one does.
LEMMA CoversLess ==
  ASSUME NEW lines \in Seq(Nat), NEW c \in Nat, NEW d \in Nat, d <= c, Covers(lines, c)
  PROVE  Covers(lines, d)
<1>1. LastOf(lines) \in Nat
  BY EmptySeq, ElementOfSeq, LenProperties DEF LastOf
<1>2. QED
  BY <1>1 DEF Covers

LEMMA CoversNothing ==
  ASSUME NEW lines \in Seq(Nat)
  PROVE  Covers(lines, 0)
<1>1. LastOf(lines) \in Nat
  BY EmptySeq, ElementOfSeq, LenProperties DEF LastOf
<1>2. QED
  BY <1>1 DEF Covers

\* The records from the first on leave no gap and end in the cursor.
LEMMA ExactFacts ==
  ASSUME NEW lines \in Seq(Nat), lines # <<>>, Exact(lines)
  PROVE  Gapless(lines) /\ Covers(lines, Len(lines))
<1>1. Len(lines) \in Nat \ {0} /\ DOMAIN lines = 1..Len(lines)
  BY EmptySeq, LenProperties
<1>2. \A i \in 1..Len(lines) : lines[i] = i
  BY DEF Exact
<1>3. Gapless(lines)
  BY <1>1, <1>2 DEF Gapless
<1>4. Covers(lines, Len(lines))
  BY <1>1, <1>2 DEF Covers, Held, LastOf
<1>5. QED
  BY <1>3, <1>4

\* The object is put together from what is in S3 and the lines behind the
\* cursor: it has no gap and covers the new cursor.
LEMMA GlueFacts ==
  ASSUME NEW a \in Seq(Nat), NEW b \in Seq(Nat), NEW c \in Nat, NEW u \in Nat, c < u,
         Len(b) = u - c, \A k \in 1..Len(b) : b[k] = c + k
  PROVE  Gapless(a) /\ Covers(a, c) => Gapless(a \o b) /\ Covers(a \o b, u)
<1> DEFINE g == a \o b
<1>1. /\ g \in Seq(Nat)
      /\ Len(a) \in Nat /\ Len(b) \in Nat /\ Len(g) = Len(a) + Len(b)
      /\ \A i \in 1..Len(a) + Len(b) : g[i] = IF i <= Len(a) THEN a[i] ELSE b[i - Len(a)]
  BY ConcatProperties, LenProperties
<1>2. /\ DOMAIN g = 1..Len(g) /\ DOMAIN a = 1..Len(a)
      /\ a = <<>> <=> Len(a) = 0
      /\ \A i \in 1..Len(a) : a[i] \in Nat
  BY <1>1, LenProperties, EmptySeq, ElementOfSeq
<1>3. \A i \in 1..Len(a) : g[i] = a[i]
  BY <1>1
<1>4. \A k \in 1..Len(b) : g[Len(a) + k] = c + k
  <2>1. ASSUME NEW k \in 1..Len(b)
        PROVE  g[Len(a) + k] = b[k]
    <3>1. Len(a) + k \in 1..Len(a) + Len(b) /\ ~(Len(a) + k <= Len(a))
          /\ Len(a) + k - Len(a) = k
      BY <1>1
    <3>2. QED
      BY <1>1, <3>1
  <2>2. QED
    BY <2>1
<1> HIDE DEF g
<1>5. ASSUME NEW i \in 1..Len(g), i > Len(a)
      PROVE  i - Len(a) \in 1..Len(b) /\ g[i] = c + (i - Len(a))
  <2>1. i - Len(a) \in 1..Len(b) /\ Len(a) + (i - Len(a)) = i
    BY <1>1, <1>5
  <2>2. QED
    BY <1>4, <2>1
<1>6. ASSUME Gapless(a), Covers(a, c)
      PROVE  Gapless(g)
  <2>1. SUFFICES ASSUME NEW i \in 1..Len(g)
                 PROVE  g[i] <= (IF i = 1 THEN 0 ELSE g[i-1]) + 1
    BY <1>2 DEF Gapless
  <2>0. i \in Nat /\ i > 0 /\ i <= Len(g) /\ Len(g) \in Nat /\ Len(a) \in Nat
    BY <1>1, <2>1
  <2>2. CASE i <= Len(a)
    <3>1. i \in 1..Len(a) /\ (i # 1 => i - 1 \in 1..Len(a))
      BY <1>1, <2>1, <2>2
    <3>2. a[i] <= (IF i = 1 THEN 0 ELSE a[i-1]) + 1
      BY <1>2, <1>6, <3>1 DEF Gapless
    <3>3. QED
      BY <1>3, <3>1, <3>2
  <2>3. CASE i = Len(a) + 1
    <3>1. g[i] = c + 1
      BY SMTT(20), <1>1, <1>5, <2>3
    <3>2. CASE i = 1
      <4>1. a = <<>>
        BY <1>1, <1>2, <2>3, <3>2
      <4>2. c <= 0
        BY <1>6, <4>1 DEF Covers, LastOf
      <4>3. QED
        BY <3>1, <3>2, <4>2
    <3>3. CASE i # 1
      <4>0. Len(a) \in 1..Len(a) /\ i - 1 = Len(a)
        BY <2>0, <2>3, <3>3
      <4>1. Len(a) \in 1..Len(a) /\ a # <<>> /\ i - 1 = Len(a)
        BY <4>0, EmptySeq
      <4>2. a[Len(a)] >= c
        BY <1>6, <4>1 DEF Covers, LastOf
      <4>3. g[i-1] = a[Len(a)] /\ a[Len(a)] \in Nat
        BY <1>2, <1>3, <4>1
      <4>4. c <= g[i-1] /\ c \in Int /\ g[i-1] \in Int
        BY <1>1, <4>2, <4>3
      <4>5. QED
        BY <3>1, <3>3, <4>4
    <3>4. QED
      BY <3>2, <3>3
  <2>4. CASE i > Len(a) + 1
    <3>1. i - 1 \in 1..Len(g) /\ i - 1 > Len(a) /\ i # 1 /\ i > Len(a)
      BY <2>0, <2>4
    <3>2. g[i] = c + (i - Len(a)) /\ g[i-1] = c + (i - 1 - Len(a))
      BY <1>5, <3>1
    <3>3. QED
      BY <1>1, <2>1, <3>1, <3>2
  <2>5. i <= Len(a) \/ i = Len(a) + 1 \/ i > Len(a) + 1
    BY <2>0
  <2>6. QED
    BY <2>2, <2>3, <2>4, <2>5
<1>7. ASSUME Covers(a, c)
      PROVE  Covers(g, u)
  <2>1. Len(g) \in 1..Len(g) /\ Len(g) > Len(a) /\ g # <<>>
    BY <1>1, EmptySeq
  <2>2. g[Len(g)] = c + (Len(g) - Len(a))
    BY <1>5, <2>1
  <2>3. LastOf(g) >= u
    BY <1>1, <2>1, <2>2 DEF LastOf
  <2>4. ASSUME NEW n \in 1..u
        PROVE  n \in Held(g)
    <3>1. CASE n <= c
      <4>1. n \in Held(a)
        BY <1>7, <2>4, <3>1 DEF Covers
      <4>2. QED
        BY <4>1, HeldConcat DEF g
    <3>2. CASE n > c
      <4>1. n - c \in 1..Len(b)
        BY <2>4, <3>2
      <4>2. b[n - c] = n
        BY <4>1
      <4>3. n \in Held(b)
        BY <4>1, <4>2, HeldFacts
      <4>4. QED
        BY <4>3, HeldConcat DEF g
    <3>3. QED
      BY <2>4, <3>1, <3>2
  <2>5. QED
    BY <2>3, <2>4 DEF Covers
<1>8. QED
  BY <1>6, <1>7 DEF g

\* An exact object and the records behind it are an exact object.
LEMMA GlueExact ==
  ASSUME NEW a \in Seq(Nat), NEW b \in Seq(Nat), NEW c \in Nat, NEW u \in Nat, c < u,
         Len(b) = u - c, \A k \in 1..Len(b) : b[k] = c + k,
         Exact(a), Len(a) = c
  PROVE  Exact(a \o b) /\ Len(a \o b) = u
<1>1. /\ Len(b) \in Nat /\ Len(a \o b) = u
      /\ \A i \in 1..u : (a \o b)[i] = IF i <= c THEN a[i] ELSE b[i - c]
  BY ConcatProperties, LenProperties
<1>2. ASSUME NEW i \in 1..u
      PROVE  (a \o b)[i] = i
  <2>1. CASE i <= c
    BY <1>1, <2>1 DEF Exact
  <2>2. CASE ~(i <= c)
    <3>1. i - c \in 1..Len(b) /\ c + (i - c) = i
      BY <2>2
    <3>2. QED
      BY <1>1, <2>2, <3>1
  <2>3. QED
    BY <2>1, <2>2
<1>3. QED
  BY <1>1, <1>2 DEF Exact

-----------------------------------------------------------------------------
(* One sync at a time: the steps *)

\* Records are numbered as they are written, and nothing is written behind a
\* malformed line.
LEMMA NumberedStep ==
  ASSUME TypeInv, DiskInv, NumberedInv, [Next]_vars, Survivable'
  PROVE  NumberedInv' /\ \A l \in Ledgers : written[l] <= written'[l]
<1> USE DEF NumberedInv
<1>0. \A l \in Ledgers : written[l] \in Nat /\ Len(disk[l]) \in Nat
  BY LenProperties DEF TypeInv
<1>1. CASE UNCHANGED <<disk, unfinished, written>>
  BY <1>0, <1>1
<1>2. ASSUME NEW l \in Ledgers, StartLine(l)
      PROVE  NumberedInv' /\ \A k \in Ledgers : written[k] <= written'[k]
  BY <1>0, <1>2 DEF StartLine
<1>3. ASSUME NEW l \in Ledgers, l \in unfinished
      PROVE  Len(disk[l]) = written[l]
  <2>1. ~Spoiled(l)
    BY <1>3 DEF DiskInv
  <2>2. disk[l] = <<>> => Len(disk[l]) = 0
    BY EmptySeq
  <2>3. QED
    BY <1>0, <2>1, <2>2 DEF Spoiled
<1>4. ASSUME NEW l \in Ledgers, FinishLine(l)
      PROVE  NumberedInv' /\ \A k \in Ledgers : written[k] <= written'[k]
  <2> DEFINE w == written[l]
             g == disk'[l]
  <2>1. PICK e \in LineEnds : AppendLine(l, e)
    BY <1>4 DEF FinishLine
  <2>2. w \in Nat /\ e \in Nat /\ w < e
    BY <2>1, LineFacts DEF AppendLine
  <2>3. /\ Len(disk[l]) = w /\ Len(g) = w + (e - w) /\ written'[l] = e
        /\ \A i \in 1..w : g[i] = disk[l][i]
        /\ \A k \in 1..e - w : g[w + k] = w + k
        /\ \A k \in Ledgers : k # l => disk'[k] = disk[k] /\ written'[k] = written[k]
    <3>1. Len(disk[l]) = w
      BY <1>3, <1>4 DEF FinishLine
    <3>2. QED
      BY <2>1, <3>1, AppendLineFacts
  <2>4. \A i \in 1..w : disk[l][i] = i
    OBVIOUS
  <2>5. Len(g) = written'[l] /\ written[l] <= written'[l]
    BY <2>2, <2>3
  <2> HIDE DEF w, g
  <2>6. \A i \in 1..e : g[i] = i
    <3> SUFFICES ASSUME NEW i \in 1..e PROVE g[i] = i
      OBVIOUS
    <3>1. CASE i <= w
      BY <2>2, <2>3, <2>4, <3>1
    <3>2. CASE i > w
      <4> DEFINE k == i - w
      <4>1. k \in 1..e - w /\ w + k = i
        BY <2>2, <3>2
      <4> HIDE DEF k
      <4>2. QED
        BY <2>3, <4>1
    <3>3. QED
      BY <2>2, <3>1, <3>2
  <2>7. Len(g) = e /\ Len(g) # e + 1
    BY <2>2, <2>3, <2>5
  <2>8. NumberedInv'
    BY <1>0, <2>3, <2>6, <2>7 DEF g
  <2>9. ASSUME NEW k \in Ledgers
        PROVE  written[k] <= written'[k]
    <3>1. written[k] \in Nat
      BY <1>0
    <3>2. k # l => written'[k] = written[k]
      BY <2>3
    <3>3. QED
      BY <2>5, <3>1, <3>2
  <2>10. QED
    BY <2>8, <2>9
<1>5. ASSUME NEW l \in Ledgers, SpoilLine(l)
      PROVE  NumberedInv' /\ \A k \in Ledgers : written[k] <= written'[k]
  <2>1. /\ written' = written
        /\ disk' = [disk EXCEPT ![l] = Append(@, Malformed)]
        /\ Len(disk[l]) = written[l]
        /\ Malformed \in Nat
    BY <1>3, <1>5 DEF SpoilLine, Malformed
  <2>2. /\ Len(disk'[l]) = Len(disk[l]) + 1
        /\ \A i \in 1..Len(disk[l]) : disk'[l][i] = disk[l][i]
        /\ disk'[l][Len(disk[l]) + 1] = Malformed
        /\ \A k \in Ledgers : k # l => disk'[k] = disk[k]
    BY <2>1, GrowFacts
  <2>3. QED
    BY <1>0, <2>1, <2>2
<1>6. ASSUME NEW l \in Ledgers, RestoreLedger(l)
      PROVE  FALSE
  BY <1>6 DEF RestoreLedger, Fault, Survivable
<1>7. QED
  BY <1>1, <1>2, <1>4, <1>5, <1>6, DiskChanges

\* What is read behind a cursor is the records behind it, to the end.
LEMMA ReadFacts ==
  ASSUME TypeInv, NumberedInv, NEW s \in Syncers, ReadLedger(s),
         mem[s].cursors[at[s]] <= written[at[s]]
  PROVE  LET c == mem[s].cursors[at[s]] IN
         /\ at[s] \in Ledgers /\ c \in Nat
         /\ Len(disk[at[s]]) = written[at[s]]
         /\ c < written[at[s]]
         /\ Chunk(s) \in Seq(Nat) /\ Chunk(s) # <<>>
         /\ Len(Chunk(s)) = written[at[s]] - c
         /\ \A i \in 1..Len(Chunk(s)) : Chunk(s)[i] = c + i
         /\ buf'[s].body = Chunk(s) /\ buf'[s].upto = written[at[s]]
         /\ pc'[s] = IF c = 0 THEN "put" ELSE "get"
<1> DEFINE c == mem[s].cursors[at[s]]
           f == disk[at[s]]
           w == written[at[s]]
<1>1. /\ at[s] \in Ledgers /\ Uploadable(s) /\ Chunk(s) # <<>>
      /\ f \in Seq(Nat) /\ Len(f) \in Nat /\ c \in Nat /\ w \in Nat
  BY LenProperties DEF ReadLedger, Uploadable, TypeInv, SavedState
<1>2. f[Len(f)] # Malformed
  <2> DEFINE b == Start(s)
             n == Len(Chunk(s))
             m == Len(f)
  <2>1. /\ b \in Nat /\ m \in Nat /\ b < m /\ n = m - b
        /\ \A i \in 1..n : Chunk(s)[i] = f[b + i]
    BY <1>1, ChunkFacts
  <2>2. Chunk(s)[n] # Malformed
    BY <1>1 DEF Uploadable, Parses
  <2> HIDE DEF b, n, m
  <2>3. n \in 1..n /\ b + n = m
    BY <2>1
  <2>4. Chunk(s)[n] = f[m]
    BY <2>1, <2>3
  <2>5. QED
    BY <2>2, <2>4 DEF m
<1>3. Len(f) = w
  BY <1>1, <1>2 DEF NumberedInv
<1>4. Start(s) = c
  BY <1>1, <1>3, ChunkFacts
<1>5. /\ Chunk(s) \in Seq(Nat) /\ Len(Chunk(s)) = w - c
      /\ \A i \in 1..Len(Chunk(s)) : Chunk(s)[i] = f[c + i]
  BY <1>1, <1>3, <1>4, ChunkFacts
<1>6. Len(Chunk(s)) # 0
  BY <1>1, <1>5, EmptySeq
<1>7. \A i \in 1..Len(Chunk(s)) : f[c + i] = c + i
  <2>1. \A i \in 1..w - c : c + i \in 1..w
    BY <1>1
  <2>2. QED
    BY <1>1, <1>5, <2>1 DEF NumberedInv
<1>8. c < w
  BY <1>1, <1>5, <1>6
<1>9. buf'[s].body = Chunk(s) /\ buf'[s].upto = w
  BY <1>3 DEF ReadLedger, TypeInv, NoBuf
<1>10. pc'[s] = IF c = 0 THEN "put" ELSE "get"
  BY <1>4 DEF ReadLedger, Goto, TypeInv
<1>11. QED
  BY <1>1, <1>3, <1>5, <1>7, <1>8, <1>9, <1>10

\* A step of s that reads and puts no ledger, and takes its cursors from where
\* cursors are.
QuietStep(s) ==
  /\ pc[s] # "off" \/ pc'[s] # "off"
  /\ pc'[s] \notin {"get", "put"}
  /\ \A r \in Syncers : r # s => pc'[r] = pc[r]
  /\ UNCHANGED <<disk, written, archive>>
  /\ state' = Torn \/ state' = state \/ (pc[s] # "off" /\ state' = mem[s])
  /\ pc'[s] # "off" =>
       \/ pc[s] # "off" /\ mem'[s].cursors = mem[s].cursors
       \/ state # Torn /\ mem'[s] = state

LEMMA QuietSteps ==
  ASSUME TypeInv, NEW s \in Syncers,
         \/ Load(s) \/ SkipLedger(s) \/ SkipConstitution(s) \/ SkipResearch(s)
         \/ ReadConstitution(s) \/ PutConstitution(s) \/ ReadResearch(s)
         \/ PutBundle(s) \/ PutBundleSameSecond(s)
         \/ TruncateState(s) \/ WriteState(s) \/ PutFails(s) \/ Kill(s)
  PROVE  QuietStep(s)
<1> USE DEF QuietStep, TypeInv, Goto, local, remote
<1>1. CASE Load(s)
  BY <1>1 DEF Load
<1>2. CASE SkipLedger(s) \/ SkipConstitution(s) \/ SkipResearch(s)
  BY <1>2 DEF SkipLedger, SkipConstitution, SkipResearch, Skip
<1>3. CASE ReadConstitution(s) \/ ReadResearch(s)
  BY <1>3 DEF ReadConstitution, ReadResearch
<1>4. CASE PutConstitution(s)
  BY <1>4 DEF PutConstitution, Advance
<1>5. CASE PutBundle(s) \/ PutBundleSameSecond(s)
  <2>1. FinishBundle(s) /\ pc[s] = "put_bundle"
    BY <1>5 DEF PutBundle, PutBundleSameSecond
  <2>2. mem'[s].cursors = mem[s].cursors
    BY <2>1 DEF FinishBundle, SavedState
  <2>3. QED
    BY <2>1, <2>2 DEF FinishBundle, Advance
<1>6. CASE TruncateState(s)
  BY <1>6 DEF TruncateState
<1>7. CASE WriteState(s) \/ PutFails(s) \/ Kill(s)
  <2>1. /\ Stop({s}) /\ UNCHANGED <<disk, written, archive>> /\ pc[s] # "off"
        /\ state' = state \/ state' = mem[s]
    BY <1>7 DEF WriteState, PutFails, Kill
  <2>2. pc'[s] = "off" /\ \A r \in Syncers : r # s => pc'[r] = pc[r]
    BY <2>1 DEF Stop
  <2>3. QED
    BY <2>1, <2>2
<1>8. QED
  BY <1>1, <1>2, <1>3, <1>4, <1>5, <1>6, <1>7

\* Nobody else is in a sync before or after the step of one.
LEMMA OthersOff ==
  ASSUME Serial, Serial', NEW s \in Syncers, pc[s] # "off" \/ pc'[s] # "off",
         \A r \in Syncers : r # s => pc'[r] = pc[r]
  PROVE  \A r \in Syncers : r # s => pc[r] = "off" /\ pc'[r] = "off"
  BY DEF Serial

LEMMA GoodStep ==
  ASSUME Serial, Serial', TypeInv, DiskInv, Good, [Next]_vars, Survivable'
  PROVE  Good'
<1>0. /\ NumberedInv' /\ \A l \in Ledgers : written[l] <= written'[l]
      /\ \A l \in Ledgers : written[l] \in Nat /\ written'[l] \in Nat /\ archive[l] \in Seq(Nat)
      /\ \A s \in Syncers : \A l \in Ledgers : mem[s].cursors[l] \in Nat
      /\ state # Torn => \A l \in Ledgers : state.cursors[l] \in Nat
      /\ \A s \in Syncers : buf[s].upto \in Nat /\ buf[s].body \in Seq(Nat)
  <2>1. NumberedInv' /\ \A l \in Ledgers : written[l] <= written'[l]
    BY NumberedStep DEF Good
  <2>2. TypeInv'
    BY TypeStep
  <2>3. QED
    BY <2>1, <2>2 DEF TypeInv, SavedState, Buffer
<1>1. ASSUME UNCHANGED <<archive, state, pc, at, mem, buf>>
      PROVE  Good'
  <2>1. \A l \in Ledgers : \A c \in Nat : CursorOK(l, c) => CursorOK(l, c)'
    BY <1>0, <1>1 DEF CursorOK
  <2>2. \A s \in Syncers : at[s] \in Ledgers => (BufferOK(s) => BufferOK(s)')
    BY <1>0, <1>1 DEF BufferOK
  <2>3. \A s \in Syncers : at[s] \notin Ledgers => BufferOK(s)'
    BY <1>1 DEF BufferOK, TypeInv
  <2>4. QED
    BY <1>0, <1>1, <2>1, <2>2, <2>3 DEF Good
<1>2. ASSUME NEW s \in Syncers, QuietStep(s)
      PROVE  Good'
  <2>1. \A r \in Syncers : r # s => pc[r] = "off" /\ pc'[r] = "off"
    BY <1>2, OthersOff DEF QuietStep
  <2>2. \A l \in Ledgers : \A c : CursorOK(l, c) <=> CursorOK(l, c)'
    BY <1>2 DEF QuietStep, CursorOK
  <2>3. pc'[s] # "off" => \A l \in Ledgers : CursorOK(l, mem'[s].cursors[l])
    BY <1>2 DEF QuietStep, Good
  <2>4. state' # Torn => \A l \in Ledgers : CursorOK(l, state'.cursors[l])
    BY <1>2 DEF QuietStep, Good
  <2>5. BufferOK(s)'
    BY <1>2 DEF QuietStep, BufferOK
  <2>6. \A l \in Ledgers : Gapless(archive'[l])
    BY <1>2 DEF QuietStep, Good
  <2>7. QED
    BY <1>0, <2>1, <2>2, <2>3, <2>4, <2>5, <2>6 DEF Good
<1>3. ASSUME NEW s \in Syncers, UNCHANGED <<disk, written, archive, state, mem>>, BufferOK(s)',
             pc[s] # "off", \A r \in Syncers : r # s => pc'[r] = pc[r]
      PROVE  Good'
  <2>1. \A r \in Syncers : r # s => pc[r] = "off" /\ pc'[r] = "off"
    BY <1>3, OthersOff
  <2>2. QED
    BY <1>0, <1>3, <2>1 DEF Good, CursorOK
<1>4. ASSUME NEW s \in Syncers, ReadLedger(s)
      PROVE  Good'
  <2> DEFINE l == at[s]
             c == mem[s].cursors[l]
  <2>1. l \in Ledgers /\ pc[s] # "off" /\ \A r \in Syncers : r # s => pc'[r] = pc[r]
    BY <1>4 DEF ReadLedger, Goto, TypeInv
  <2>2. CursorOK(l, c) /\ c <= written[l] /\ (state # Torn => state.cursors[l] <= written[l])
    BY <2>1 DEF Good, CursorOK
  <2>3. /\ c \in Nat /\ c < written[l]
        /\ Chunk(s) \in Seq(Nat) /\ Chunk(s) # <<>>
        /\ Len(Chunk(s)) = written[l] - c
        /\ \A i \in 1..Len(Chunk(s)) : Chunk(s)[i] = c + i
        /\ buf'[s].body = Chunk(s) /\ buf'[s].upto = written[l]
        /\ pc'[s] = IF c = 0 THEN "put" ELSE "get"
    BY <1>4, <2>2, ReadFacts DEF Good
  <2>4. UNCHANGED <<disk, written, archive, state, mem, at>>
    BY <1>4 DEF ReadLedger, local, remote
  <2>5. c = 0 => Exact(Chunk(s)) /\ Len(Chunk(s)) = written[l]
    BY <1>0, <2>1, <2>3 DEF Exact
  <2>6. c = 0 => Gapless(Chunk(s)) /\ Covers(Chunk(s), written[l])
    BY <2>3, <2>5, ExactFacts
  <2>7. BufferOK(s)'
    BY <1>0, <2>1, <2>2, <2>3, <2>4, <2>6 DEF BufferOK
  <2>8. QED
    BY <1>3, <2>1, <2>4, <2>7
<1>5. ASSUME NEW s \in Syncers, GetExisting(s)
      PROVE  Good'
  <2> DEFINE l == at[s]
             c == mem[s].cursors[l]
             b == buf[s]
  <2>1. /\ pc[s] = "get" /\ l \in Ledgers /\ c \in Nat
        /\ \A r \in Syncers : r # s => pc'[r] = pc[r]
    BY <1>0, <1>5 DEF GetExisting, Goto, TypeInv
  <2>2. /\ b.upto <= written[l] /\ (state # Torn => state.cursors[l] <= b.upto)
        /\ c < b.upto /\ Len(b.body) = b.upto - c
        /\ \A k \in 1..Len(b.body) : b.body[k] = c + k
    BY <2>1 DEF Good, BufferOK
  <2>3. Gapless(archive[l]) /\ Covers(archive[l], c)
    BY <2>1 DEF Good, CursorOK
  <2>4. Gapless(archive[l] \o b.body) /\ Covers(archive[l] \o b.body, b.upto)
    BY <1>0, <2>1, <2>2, <2>3, GlueFacts
  <2>5. UNCHANGED <<disk, written, archive, state, mem, at>>
    BY <1>5 DEF GetExisting, local, remote
  <2>6. pc'[s] = "put" /\ buf'[s].body = archive[l] \o b.body /\ buf'[s].upto = b.upto
    BY <1>5 DEF GetExisting, TypeInv, Buffer, Goto, Existing
  <2>7. BufferOK(s)'
    BY <2>2, <2>4, <2>5, <2>6 DEF BufferOK
  <2>8. QED
    BY <1>3, <2>1, <2>5, <2>7
<1>6. ASSUME NEW s \in Syncers, GetFails(s)
      PROVE  FALSE
  BY <1>6 DEF GetFails, Fault, Survivable
<1>7. ASSUME NEW s \in Syncers, PutLedger(s)
      PROVE  Good'
  <2> DEFINE l == at[s]
             b == buf[s]
  <2>1. pc[s] = "put" /\ l \in Ledgers /\ \A r \in Syncers : r # s => pc'[r] = "off"
    <3>1. pc[s] = "put" /\ \A r \in Syncers : r # s => pc'[r] = pc[r]
      BY <1>7 DEF PutLedger, Advance, Goto, TypeInv
    <3>2. QED
      BY <3>1, OthersOff DEF TypeInv
  <2>2. /\ b.upto <= written[l] /\ (state # Torn => state.cursors[l] <= b.upto)
        /\ Gapless(b.body) /\ Covers(b.body, b.upto)
    BY <2>1 DEF Good, BufferOK
  <2>3. /\ archive'[l] = b.body /\ \A k \in Ledgers : k # l => archive'[k] = archive[k]
        /\ mem'[s].cursors[l] = b.upto
        /\ \A k \in Ledgers : k # l => mem'[s].cursors[k] = mem[s].cursors[k]
        /\ pc'[s] = "surface" /\ UNCHANGED <<disk, written, state>>
    BY <1>7, <2>1 DEF PutLedger, Advance, Goto, TypeInv, SavedState, local
  <2> DEFINE OK(k, c) == c <= written'[k] /\ Covers(archive'[k], c)
  <2>4. OK(l, b.upto)
    BY <2>2, <2>3
  <2>5. state # Torn => OK(l, state.cursors[l])
    <3>1. state # Torn => Covers(b.body, state.cursors[l])
      BY <1>0, <2>1, <2>2, CoversLess
    <3>2. QED
      BY <1>0, <2>1, <2>2, <2>3, <3>1
  <2>6. \A k \in Ledgers : k # l => \A c : CursorOK(k, c) => OK(k, c)
    BY <2>3 DEF CursorOK
  <2>7. BufferOK(s)'
    BY <2>3 DEF BufferOK
  <2>8. \A k \in Ledgers : Gapless(archive'[k])
    BY <2>2, <2>3 DEF Good
  <2>9. \A k \in Ledgers : OK(k, mem'[s].cursors[k])
    <3>1. \A k \in Ledgers : CursorOK(k, mem[s].cursors[k])
      BY <2>1 DEF Good
    <3>2. QED
      BY <2>3, <2>4, <2>6, <3>1
  <2>10. state' # Torn => \A k \in Ledgers : OK(k, state'.cursors[k])
    <3>1. state # Torn => \A k \in Ledgers : CursorOK(k, state.cursors[k])
      BY DEF Good
    <3>2. QED
      BY <2>3, <2>5, <2>6, <3>1
  <2>11. QED
    BY <1>0, <2>1, <2>7, <2>8, <2>9, <2>10 DEF Good, CursorOK
<1>8. CASE LocalStep
  BY <1>1, <1>8 DEF LocalStep, StartLine, FinishLine, SpoilLine, RestoreLedger,
     ReviseConstitution, WriteArtifact, remote
<1>9. CASE UNCHANGED vars
  BY <1>1, <1>9 DEF vars, remote
<1>10. ASSUME NEW s \in Syncers, SyncStep(s) \/ SyncFault(s),
              ~LoadFails(s), ~ReadLedger(s), ~GetExisting(s), ~GetFails(s), ~PutLedger(s)
       PROVE  Good'
  <2>1. QuietStep(s)
    BY <1>10, QuietSteps DEF SyncStep, SyncFault
  <2>2. QED
    BY <1>2, <2>1
<1>11. ASSUME NEW s \in Syncers, LoadFails(s)
       PROVE  Good'
  BY <1>9, <1>11 DEF LoadFails
<1>12. QED
  BY <1>4, <1>5, <1>6, <1>7, <1>8, <1>9, <1>10, <1>11 DEF Next

-----------------------------------------------------------------------------
(* One sync at a time, as long as nothing fails *)

LEMMA NotTorn == \A m \in SavedState : m # Torn
<1>1. DOMAIN Torn = {"torn"}
  BY DEF Torn
<1>2. \A m \in SavedState : DOMAIN m = {"cursors", "bundled"}
  BY DEF SavedState
<1>3. QED
  BY <1>1, <1>2

LEMMA ExactStep ==
  ASSUME Serial, Serial', TypeInv, DiskInv, SurviveInv, ExactInv, [Next]_vars
  PROVE  ExactInv'
<1> SUFFICES ASSUME faults' = {}
             PROVE  /\ \A l \in Ledgers : Exact(archive'[l]) /\ Len(archive'[l]) <= written'[l]
                    /\ \A s \in Syncers : ExactCursors(s)'
                    /\ ExactSaved'
  BY DEF ExactInv
<1> DEFINE Goal == /\ \A l \in Ledgers : Exact(archive'[l]) /\ Len(archive'[l]) <= written'[l]
                   /\ \A s \in Syncers : ExactCursors(s)'
                   /\ ExactSaved'
<1>0. /\ faults = {} /\ Good /\ Good'
      /\ \A l \in Ledgers : written[l] <= written'[l] /\ archive[l] \in Seq(Nat)
                            /\ written[l] \in Nat /\ written'[l] \in Nat /\ Len(archive[l]) \in Nat
      /\ \A s \in Syncers : buf[s].body \in Seq(Nat) /\ mem[s] \in SavedState
                            /\ buf[s].upto \in Nat
  <2>1. faults = {}
    BY FaultsGrow
  <2>2. Good /\ Survivable'
    BY <2>1 DEF SurviveInv, Survivable
  <2>3. NumberedInv
    BY <2>2 DEF Good
  <2>4. Good' /\ TypeInv' /\ \A l \in Ledgers : written[l] <= written'[l]
    BY <2>2, <2>3, GoodStep, NumberedStep, TypeStep
  <2>5. QED
    BY <2>1, <2>2, <2>4, LenProperties DEF TypeInv, Buffer
<1>1. /\ \A l \in Ledgers : Exact(archive[l]) /\ Len(archive[l]) <= written[l]
      /\ \A s \in Syncers : ExactCursors(s)
      /\ ExactSaved
  BY <1>0 DEF ExactInv
<1>2. ASSUME NEW kind, Fault(kind)
      PROVE  FALSE
  BY <1>2 DEF Fault
<1>3. ASSUME UNCHANGED <<archive, state, pc, mem, buf>>
      PROVE  Goal
  BY <1>0, <1>1, <1>3 DEF ExactCursors, ExactSaved
<1>4. ASSUME NEW s \in Syncers, UNCHANGED <<archive, written>>, ExactCursors(s)',
             pc'[s] # "off", \A r \in Syncers : r # s => pc'[r] = pc[r]
      PROVE  Goal
  <2>1. \A r \in Syncers : r # s => pc'[r] = "off"
    BY <1>4, OthersOff
  <2>2. QED
    BY <1>1, <1>4, <2>1 DEF ExactCursors, ExactSaved
<1>5. ASSUME NEW s \in Syncers, Load(s)
      PROVE  Goal
  <2>1. /\ pc[s] = "off" /\ pc'[s] = "surface" /\ mem'[s] = state /\ UNCHANGED <<archive, written>>
        /\ \A r \in Syncers : r # s => pc'[r] = pc[r]
    BY <1>5 DEF Load, Goto, TypeInv, local, remote
  <2>2. \A r \in Syncers : pc[r] = "off"
    BY <2>1, OthersOff
  <2>3. QED
    BY <1>1, <1>4, <2>1, <2>2 DEF ExactCursors, ExactSaved
<1>6. ASSUME NEW s \in Syncers, UNCHANGED <<archive, written>>,
             pc[s] # "off", pc'[s] \notin {"off", "put"},
             mem'[s].cursors = mem[s].cursors, \A r \in Syncers : r # s => pc'[r] = pc[r]
      PROVE  Goal
  BY <1>1, <1>4, <1>6 DEF ExactCursors
<1>7. ASSUME NEW s \in Syncers, SkipLedger(s) \/ SkipConstitution(s) \/ SkipResearch(s)
      PROVE  Goal
  BY <1>3, <1>7 DEF SkipLedger, SkipConstitution, SkipResearch, Skip, local, remote
<1>8. ASSUME NEW s \in Syncers, \/ ReadConstitution(s) \/ PutConstitution(s)
                                \/ ReadResearch(s) \/ TruncateState(s)
      PROVE  Goal
  BY <1>6, <1>8 DEF ReadConstitution, PutConstitution, ReadResearch, TruncateState, Advance,
     Goto, TypeInv, local, remote
<1>9. ASSUME NEW s \in Syncers, PutBundle(s)
      PROVE  Goal
  <2>1. mem'[s].cursors = mem[s].cursors
    BY <1>9 DEF PutBundle, FinishBundle, TypeInv, SavedState
  <2>2. QED
    BY <1>6, <1>9, <2>1 DEF PutBundle, FinishBundle, Advance, Goto, TypeInv, local
<1>10. ASSUME NEW s \in Syncers, ReadLedger(s)
       PROVE  Goal
  <2> DEFINE l == at[s]
             c == mem[s].cursors[l]
  <2>1. /\ l \in Ledgers /\ pc[s] = "surface" /\ UNCHANGED <<archive, written, mem>>
        /\ \A r \in Syncers : r # s => pc'[r] = pc[r]
    BY <1>10 DEF ReadLedger, Goto, TypeInv, local, remote
  <2>2. c <= written[l] /\ NumberedInv
    BY <1>0, <2>1 DEF Good, CursorOK
  <2>3. /\ c \in Nat /\ Len(Chunk(s)) = written[l] - c
        /\ \A i \in 1..Len(Chunk(s)) : Chunk(s)[i] = c + i
        /\ buf'[s].body = Chunk(s) /\ buf'[s].upto = written[l]
        /\ pc'[s] = IF c = 0 THEN "put" ELSE "get"
    BY <1>10, <2>2, ReadFacts
  <2>4. c = 0 => Exact(Chunk(s)) /\ Len(Chunk(s)) = written[l]
    BY <1>0, <2>1, <2>3 DEF Exact
  <2>5. QED
    BY <1>1, <1>4, <2>1, <2>3, <2>4 DEF ExactCursors
<1>11. ASSUME NEW s \in Syncers, GetExisting(s)
       PROVE  Goal
  <2> DEFINE l == at[s]
             c == mem[s].cursors[l]
             b == buf[s]
  <2>1. /\ pc[s] = "get" /\ l \in Ledgers /\ c \in Nat
        /\ UNCHANGED <<archive, written, mem>>
        /\ \A r \in Syncers : r # s => pc'[r] = pc[r]
    BY <1>11 DEF GetExisting, Goto, TypeInv, SavedState, local, remote
  <2>2. c < b.upto /\ Len(b.body) = b.upto - c /\ \A k \in 1..Len(b.body) : b.body[k] = c + k
    BY <1>0, <2>1 DEF Good, BufferOK
  <2>3. Exact(archive[l]) /\ Len(archive[l]) = c
    BY <1>1, <2>1 DEF ExactCursors
  <2>4. Exact(archive[l] \o b.body) /\ Len(archive[l] \o b.body) = b.upto
    <3>1. archive[l] \in Seq(Nat) /\ b.body \in Seq(Nat) /\ b.upto \in Nat /\ c \in Nat
      BY <1>0, <2>1
    <3> DEFINE a == archive[l]
               body == b.body
               upto == b.upto
    <3>2. /\ a \in Seq(Nat) /\ body \in Seq(Nat) /\ upto \in Nat /\ c \in Nat
          /\ c < upto /\ Len(body) = upto - c /\ \A k \in 1..Len(body) : body[k] = c + k
          /\ Exact(a) /\ Len(a) = c
      BY <2>2, <2>3, <3>1
    <3> HIDE DEF a, body, upto, c
    <3>3. Exact(a \o body) /\ Len(a \o body) = upto
      BY <3>2, GlueExact
    <3>4. QED
      BY <3>3 DEF a, body, upto
  <2>5. pc'[s] = "put" /\ buf'[s].body = archive[l] \o b.body /\ buf'[s].upto = b.upto
    BY <1>11 DEF GetExisting, TypeInv, Buffer, Goto, Existing
  <2>6. QED
    BY <1>1, <1>4, <2>1, <2>4, <2>5 DEF ExactCursors
<1>12. ASSUME NEW s \in Syncers, PutLedger(s)
       PROVE  Goal
  <2> DEFINE l == at[s]
             b == buf[s]
  <2>1. pc[s] = "put" /\ l \in Ledgers /\ \A r \in Syncers : r # s => pc'[r] = "off"
    <3>1. pc[s] = "put" /\ \A r \in Syncers : r # s => pc'[r] = pc[r]
      BY <1>12 DEF PutLedger, Advance, Goto, TypeInv
    <3>2. QED
      BY <3>1, OthersOff DEF TypeInv
  <2>2. b.upto <= written[l] /\ Exact(b.body) /\ Len(b.body) = b.upto
    BY <1>0, <1>1, <2>1 DEF Good, BufferOK, ExactCursors
  <2>3. /\ archive'[l] = b.body /\ \A k \in Ledgers : k # l => archive'[k] = archive[k]
        /\ mem'[s].cursors[l] = b.upto
        /\ \A k \in Ledgers : k # l => mem'[s].cursors[k] = mem[s].cursors[k]
        /\ pc'[s] = "surface" /\ written' = written
    BY <1>12, <2>1 DEF PutLedger, Advance, Goto, TypeInv, SavedState, local
  <2>4. \A k \in Ledgers : Exact(archive'[k]) /\ Len(archive'[k]) <= written'[k]
    BY <1>1, <2>2, <2>3
  <2>5. ExactCursors(s)'
    BY <1>1, <2>1, <2>2, <2>3 DEF ExactCursors
  <2>6. QED
    BY <2>1, <2>3, <2>4, <2>5 DEF ExactCursors, ExactSaved
<1>13. ASSUME NEW s \in Syncers, WriteState(s)
       PROVE  Goal
  <2>1. /\ pc[s] = "save" /\ pc'[s] = "off" /\ state' = mem[s] /\ state' # Torn
        /\ UNCHANGED <<archive, written>> /\ \A r \in Syncers : r # s => pc'[r] = pc[r]
    BY <1>0, <1>13, NotTorn DEF WriteState, Stop, local, remote
  <2>2. \A r \in Syncers : r # s => pc'[r] = "off"
    BY <2>1, OthersOff
  <2>3. QED
    BY <1>1, <2>1, <2>2 DEF ExactCursors, ExactSaved
<1>14. CASE LocalStep
  BY <1>2, <1>3, <1>14 DEF LocalStep, StartLine, FinishLine, SpoilLine, RestoreLedger,
     ReviseConstitution, WriteArtifact, remote
<1>15. CASE UNCHANGED vars
  BY <1>3, <1>15 DEF vars, remote
<1>16. ASSUME NEW s \in Syncers, LoadFails(s)
       PROVE  Goal
  BY <1>15, <1>16 DEF LoadFails
<1>17. ASSUME NEW s \in Syncers, SyncFault(s)
       PROVE  FALSE
  BY <1>2, <1>17 DEF SyncFault, GetFails, PutBundleSameSecond, PutFails, Kill
<1>18. QED
  BY <1>5, <1>7, <1>8, <1>9, <1>10, <1>11, <1>12, <1>13, <1>14, <1>15, <1>16, <1>17
  DEF Next, SyncStep

SerialInv == AnyInv /\ SurviveInv /\ ExactInv

LEMMA InitSerialInv == Init => SerialInv
<1> SUFFICES ASSUME Init PROVE SerialInv
  OBVIOUS
<1>1. AnyInv
  BY InitAnyInv
<1>2. EmptyState \in SavedState
  BY DEF EmptyState, SavedState
<1>3. Len(<<>>) = 0 /\ DOMAIN <<>> = {} /\ Covers(<<>>, 0)
  <2>1. <<>> \in Seq(Nat) /\ Len(<<>>) = 0
    BY EmptySeq
  <2>2. DOMAIN <<>> = 1..Len(<<>>)
    BY <2>1, LenProperties
  <2>3. DOMAIN <<>> = {}
    BY <2>1, <2>2
  <2>4. QED
    BY <2>1, <2>3, CoversNothing
<1>4. SurviveInv
  BY <1>3 DEF Init, SurviveInv, Good, NumberedInv, Gapless, CursorOK, EmptyState, BufferOK
<1>5. ExactInv
  <2>1. \A l \in Ledgers : Len(archive[l]) = 0 /\ written[l] = 0 /\ state.cursors[l] = 0
    BY <1>3 DEF Init, EmptyState
  <2>2. state # Torn /\ \A s \in Syncers : pc[s] = "off"
    BY <1>2, NotTorn DEF Init
  <2>3. QED
    BY <2>1, <2>2 DEF ExactInv, Exact, ExactCursors, ExactSaved
<1>6. QED
  BY <1>1, <1>4, <1>5 DEF SerialInv

LEMMA StepSerialInv == SerialInv /\ Serial /\ Serial' /\ [Next]_vars => SerialInv'
<1> SUFFICES ASSUME SerialInv, Serial, Serial', [Next]_vars PROVE SerialInv'
  OBVIOUS
<1>1. AnyInv' /\ TypeInv /\ DiskInv
  BY StepAnyInv DEF SerialInv, AnyInv
<1>2. SurviveInv'
  <2>1. Survivable' => Survivable
    BY FaultsGrow DEF Survivable
  <2>2. QED
    BY <1>1, <2>1, GoodStep DEF SerialInv, SurviveInv
<1>3. ExactInv'
  BY <1>1, ExactStep DEF SerialInv
<1>4. QED
  BY <1>1, <1>2, <1>3 DEF SerialInv

LEMMA SerialInvariant == Spec /\ []Serial => []SerialInv
  BY InitSerialInv, StepSerialInv, PTL DEF Spec

\* As long as nothing fails the object of a ledger is a prefix of the ledger.
THEOREM VerifiesUnfailed == Spec /\ []Serial => []ArchiveVerifiesUnfailed
<1>1. SerialInv => ArchiveVerifiesUnfailed
  <2> SUFFICES ASSUME SerialInv, faults = {}, NEW l \in Ledgers
               PROVE  /\ Len(archive[l]) <= Len(disk[l])
                      /\ archive[l] = SubSeq(disk[l], 1, Len(archive[l]))
    BY DEF ArchiveVerifiesUnfailed, ArchiveVerifies
  <2> DEFINE n == Len(archive[l])
  <2>1. /\ disk[l] \in Seq(Nat) /\ archive[l] \in Seq(Nat) /\ written[l] \in Nat
        /\ n \in Nat /\ Len(disk[l]) \in Nat
    BY LenProperties DEF SerialInv, AnyInv, TypeInv
  <2>2. Exact(archive[l]) /\ n <= written[l] /\ NumberedInv
    BY DEF SerialInv, ExactInv, SurviveInv, Survivable, Good
  <2>3. n <= Len(disk[l]) /\ \A i \in 1..n : disk[l][i] = archive[l][i]
    <3>1. written[l] <= Len(disk[l]) /\ \A i \in 1..written[l] : disk[l][i] = i
      BY <2>1, <2>2 DEF NumberedInv
    <3>2. \A i \in 1..n : archive[l][i] = i /\ i \in 1..written[l]
      BY <2>1, <2>2 DEF Exact
    <3>3. n <= Len(disk[l])
      BY <2>1, <2>2, <3>1
    <3>4. \A i \in 1..n : disk[l][i] = archive[l][i]
      BY <3>1, <3>2
    <3>5. QED
      BY <3>3, <3>4
  <2>4. \A i \in 1..n : disk[l][i] \in Nat
    BY <2>1, <2>3, ElementOfSeq
  <2>5. /\ SubSeq(disk[l], 1, n) \in Seq(Nat) /\ Len(SubSeq(disk[l], 1, n)) = n
        /\ \A i \in 1..n : SubSeq(disk[l], 1, n)[i] = disk[l][i]
    <3>1. n \in Int /\ 1 \in Int
      BY <2>1
    <3>2. /\ SubSeq(disk[l], 1, n) \in Seq(Nat)
          /\ Len(SubSeq(disk[l], 1, n)) = IF 1 <= n THEN n - 1 + 1 ELSE 0
          /\ \A i \in 1..n - 1 + 1 : SubSeq(disk[l], 1, n)[i] = disk[l][1 + i - 1]
      BY <2>4, <3>1, SubSeqProperties
    <3>3. QED
      BY <2>1, <3>2
  <2>6. archive[l] = SubSeq(disk[l], 1, n)
    BY <2>1, <2>3, <2>5, SeqEqual
  <2>7. QED
    BY <2>3, <2>6
<1>2. QED
  BY <1>1, SerialInvariant, PTL

\* Whatever uploads fail and syncs die, what the saved cursor covers is in S3.
THEOREM CursorsAreCovered == Spec /\ []Serial => []CursorsSurvive
<1>1. SerialInv => CursorsSurvive
  <2> SUFFICES ASSUME SerialInv, Survivable, state # Torn, NEW l \in Ledgers,
                      NEW i \in 1..Len(disk[l]), i <= state.cursors[l]
               PROVE  disk[l][i] \in Held(archive[l])
    BY DEF CursorsSurvive, CursorCovered
  <2>1. /\ Len(disk[l]) \in Nat /\ state.cursors[l] \in Nat /\ written[l] \in Nat
    BY LenProperties DEF SerialInv, AnyInv, TypeInv, SavedState
  <2>2. NumberedInv /\ CursorOK(l, state.cursors[l])
    BY DEF SerialInv, SurviveInv, Good
  <2>3. disk[l][i] = i
    BY <2>1, <2>2 DEF NumberedInv, CursorOK
  <2>4. QED
    BY <2>1, <2>2, <2>3 DEF CursorOK, Covers
<1>2. QED
  BY <1>1, SerialInvariant, PTL

\* Whatever uploads fail and syncs die, the archive skips no record.
THEOREM ArchiveHasNoGap == Spec /\ []Serial => []NoGap
<1>1. SerialInv => NoGap
  BY DEF SerialInv, SurviveInv, Good, Gapless, NoGap
<1>2. QED
  BY <1>1, SerialInvariant, PTL

-----------------------------------------------------------------------------
(* The syncs of one container. *)

ChildPlaces ==
  {"running", "joining", "sync", "uploading", "epilogue", "leaving", "exited"}
SupPlaces ==
  {"waiting", "none", "shutdown", "shutdown_upload", "forward", "final",
   "final_upload", "exited"}

LifeTypeInv ==
  /\ child \in ChildPlaces
  /\ how \in {"none", "completed", "error", "aborted", "interrupt", "killed"}
  /\ late \in BOOLEAN
  /\ sup \in [Handlers -> SupPlaces]
  /\ signal \in [Handlers -> {"none", "TERM", "INT"}]
  /\ child = "running" <=> how = "none"

\* Nothing fails, nobody signals, and the run ends well and in time.
Undisturbed ==
  /\ faults = {}
  /\ signal[Sup] = "none"
  /\ ~late
  /\ how \in {"none", "completed"}

\* Who may sync when.
TurnInv ==
  /\ sup[Again] = "none" /\ signal[Again] = "none" /\ pc[Again] = "off"
  /\ sup[Sup] \in {"waiting", "final", "final_upload", "exited"}
  /\ sup[Sup] # "waiting" => child = "exited"
  /\ pc[Sup] # "off" => sup[Sup] = "final_upload"
  /\ pc[Main] # "off" => child = "uploading"
  /\ pc[Thread] # "off" => child \in {"running", "joining"}

\* Every line of every ledger is a record.
WholeInv == \A l \in Ledgers : Len(disk[l]) = written[l]

Archived(l) == Len(archive[l]) = written[l]

\* What the final sync of the run has uploaded so far.
FinalInv ==
  /\ pc[Main] = "off" => at[Main] = 1
  /\ pc[Main] # "off" =>
       /\ \A l \in Ledgers : l < at[Main] => Archived(l)
       /\ pc[Main] \in {"get", "put"} => buf[Main].upto = written[at[Main]]
       /\ pc[Main] = "save" => at[Main] = Done
  /\ \/ child \in {"epilogue", "leaving", "exited"}
     \/ child = "uploading" /\ pc[Main] = "off"
     => \A l \in Ledgers : Archived(l)
  /\ pc[Sup] \notin {"get", "put"}

UndisturbedInv ==
  Undisturbed => TurnInv /\ WholeInv /\ FinalInv /\ SerialInv

OrderInv == AnyInv /\ LifeTypeInv /\ UndisturbedInv
-----------------------------------------------------------------------------
\* The four syncers of a container are different ones.
LEMMA Distinct ==
  /\ Thread \in Syncers /\ Main \in Syncers /\ Sup \in Syncers /\ Again \in Syncers
  /\ Thread # Main /\ Thread # Sup /\ Thread # Again
  /\ Main # Sup /\ Main # Again /\ Sup # Again
  /\ Syncers = {Thread, Main, Sup, Again}
  /\ Main \notin Budgeted
<1>1. Syncers = {Thread, Main, Sup, Again} /\ Cardinality(Syncers) = 4
  BY LifecycleAssumption DEF Handlers
<1>2. \A a, b, c : Syncers # {a, b, c}
  <2>0. SUFFICES ASSUME NEW a, NEW b, NEW c, Syncers = {a, b, c} PROVE FALSE
    OBVIOUS
  <2>1. IsFiniteSet({c}) /\ Cardinality({c}) = 1
    BY FS_Singleton
  <2>2. /\ IsFiniteSet({c} \cup {b})
        /\ Cardinality({c} \cup {b}) \in Nat /\ Cardinality({c} \cup {b}) <= 2
    BY <2>1, FS_AddElement
  <2> DEFINE two == {c} \cup {b}
  <2>3. IsFiniteSet(two) /\ Cardinality(two) \in Nat /\ Cardinality(two) <= 2
    BY <2>2
  <2>4. Syncers = two \cup {a}
    BY <2>0
  <2> HIDE DEF two
  <2>5. Cardinality(two \cup {a}) = IF a \in two THEN Cardinality(two) ELSE Cardinality(two) + 1
    BY <2>3, FS_AddElement
  <2>6. Cardinality(two \cup {a}) <= 3
    BY <2>3, <2>5
  <2>7. QED
    BY <1>1, <2>4, <2>6
<1>3. QED
  <2>1. /\ Syncers # {Main, Sup, Again} /\ Syncers # {Thread, Sup, Again}
        /\ Syncers # {Thread, Main, Again} /\ Syncers # {Thread, Main, Sup}
    BY <1>2
  <2>2. /\ Thread # Main /\ Thread # Sup /\ Thread # Again
        /\ Main # Sup /\ Main # Again /\ Sup # Again
    BY <1>1, <2>1
  <2>3. QED
    BY <1>1, <2>1, <2>2, LifecycleAssumption DEF Handlers

-----------------------------------------------------------------------------
(* Whatever is signalled, killed or late *)

\* Syncs that end without a step of their own, or just another fault.
LEMMA StopAny ==
  ASSUME AnyInv, NEW S, Stop(S) \/ UNCHANGED <<pc, at, mem, buf>>,
         UNCHANGED <<local, remote, state>>, faults \subseteq faults'
  PROVE  AnyInv'
<1>1. /\ EmptyState \in SavedState /\ NoBuf \in Buffer /\ 1 \in 1..Done
      /\ EmptyState.bundled = {}
  BY SyncAssumption, EmptySeq DEF EmptyState, NoBuf, SavedState, Buffer, Members, Done
<1>2. \A s \in Syncers :
        \/ UNCHANGED <<pc[s], at[s], mem[s], buf[s]>>
        \/ pc'[s] = "off" /\ at'[s] = 1 /\ mem'[s] = EmptyState /\ buf'[s] = NoBuf
  BY DEF Stop
<1>3. /\ pc' \in [Syncers -> Labels] /\ at' \in [Syncers -> 1..Done]
      /\ mem' \in [Syncers -> SavedState] /\ buf' \in [Syncers -> Buffer]
  <2>1. /\ pc \in [Syncers -> Labels] /\ at \in [Syncers -> 1..Done]
        /\ mem \in [Syncers -> SavedState] /\ buf \in [Syncers -> Buffer]
        /\ "off" \in Labels
    BY DEF AnyInv, TypeInv, Labels
  <2>2. CASE Stop(S)
    BY <1>1, <2>1, <2>2 DEF Stop
  <2>3. CASE UNCHANGED <<pc, at, mem, buf>>
    BY <2>1, <2>3
  <2>4. QED
    BY <2>2, <2>3
<1>4. TypeInv'
  BY <1>2, <1>3 DEF AnyInv, TypeInv, local, remote
<1>5. DiskInv'
  BY DEF AnyInv, DiskInv, local, Spoiled
<1>6. CleanInv'
  BY <1>2 DEF AnyInv, CleanInv, remote
<1>7. BundleInv'
  BY <1>1, <1>2 DEF AnyInv, BundleInv, Bundled, remote
<1>8. AlignedInv'
  <2>1. disk' = disk /\ archive' = archive /\ state' = state
    BY DEF local, remote
  <2>2. \A l \in Ledgers : OnEnd(disk[l], EmptyState.cursors[l])
    BY DEF OnEnd, EmptyState
  <2>3. "restore" \notin faults' => "restore" \notin faults
    OBVIOUS
  <2>4. "restore" \notin faults' =>
          \A s \in Syncers : \A l \in Ledgers : OnEnd(disk[l], mem'[s].cursors[l])
    BY <1>2, <2>2, <2>3 DEF AnyInv, AlignedInv
  <2>5. "restore" \notin faults' =>
          \A s \in Syncers : pc'[s] \in {"get", "put"} =>
            Begins(buf'[s].body) /\ OnEnd(disk[at'[s]], buf'[s].upto)
    BY <1>2, <2>3 DEF AnyInv, AlignedInv
  <2>6. QED
    BY <2>1, <2>3, <2>4, <2>5 DEF AnyInv, AlignedInv
<1>9. QED
  BY <1>4, <1>5, <1>6, <1>7, <1>8 DEF AnyInv

\* The terminal event is a record behind the others.
LEMMA TerminalAny ==
  ASSUME AnyInv, AppendTerminalEvent
  PROVE  AnyInv'
<1>1. CASE Spoiled(1)
  BY <1>1, StopAny DEF AppendTerminalEvent, local
<1>2. CASE ~Spoiled(1)
  <2>1. /\ \E e \in LineEnds : AppendLine(1, e)
        /\ UNCHANGED <<unfinished, constitution, research, remote, state, pc, at, mem,
                       buf, faults>>
    BY <1>2 DEF AppendTerminalEvent
  <2>2. TypeInv /\ DiskInv /\ 1 \in Ledgers
    BY SyncAssumption DEF AnyInv, Ledgers
  <2>3. PICK e \in LineEnds : AppendLine(1, e)
    BY <2>1
  <2>4. /\ \A i \in 1..Len(disk'[1]) : disk'[1][i] # Malformed
        /\ Ends(disk'[1]) /\ Begins(disk'[1]) /\ written'[1] \in LineEnds
    BY <1>2, <2>2, <2>3, LineStep
  <2>5. /\ disk' \in [Ledgers -> Seq(Nat)] /\ written' \in [Ledgers -> Nat]
        /\ Len(disk[1]) \in Nat
        /\ Len(disk'[1]) = Len(disk[1]) + (e - written[1])
        /\ \A i \in 1..Len(disk[1]) : disk'[1][i] = disk[1][i]
        /\ \A k \in Ledgers : k # 1 => disk'[k] = disk[k] /\ written'[k] = written[k]
    BY <2>2, <2>3, AppendLineFacts
  <2>6. TypeInv'
    BY <2>1, <2>2, <2>5 DEF TypeInv, remote
  <2>7. DiskInv'
    <3>1. ~Spoiled(1)'
      <4>1. disk'[1] # <<>> => Len(disk'[1]) \in 1..Len(disk'[1])
        BY <2>2, <2>5, EmptySeq, LenProperties
      <4>2. QED
        BY <2>4, <4>1 DEF Spoiled
    <3>2. \A k \in Ledgers : k # 1 => (Spoiled(k)' <=> Spoiled(k))
      BY <2>5 DEF Spoiled
    <3>3. QED
      BY <2>1, <2>2, <2>4, <2>5, <3>1, <3>2 DEF DiskInv
  <2>8. CleanInv' /\ BundleInv'
    BY <2>1 DEF AnyInv, CleanInv, BundleInv, Bundled, remote
  <2>9. AlignedInv'
    <3>1. ASSUME NEW l \in Ledgers, NEW c, OnEnd(disk[l], c)
          PROVE  OnEnd(disk'[l], c)
      <4>1. CASE l = 1
        <5>1. written[1] \in Nat /\ e \in Nat /\ written[1] < e
          BY <2>2, <2>3, LineFacts DEF AppendLine
        <5>2. Len(disk'[1]) \in Nat /\ Len(disk[1]) <= Len(disk'[1])
          BY <2>5, <5>1
        <5>3. QED
          BY <2>5, <3>1, <4>1, <5>2, GrownEnds
      <4>2. CASE l # 1
        BY <2>5, <3>1, <4>2
      <4>3. QED
        BY <4>1, <4>2
    <3>2. \A s \in Syncers : pc[s] \in {"get", "put"} => at[s] \in Ledgers
      BY <2>2 DEF TypeInv
    <3>3. QED
      BY <2>1, <3>1, <3>2 DEF AnyInv, AlignedInv, remote
  <2>10. QED
    BY <2>6, <2>7, <2>8, <2>9 DEF AnyInv
<1>3. QED
  BY <1>1, <1>2

\* What a step of the container does to the files and the syncs.
LEMMA LifeSteps ==
  [LifeNext]_lifecycleVars =>
    \/ [Next]_vars
    \/ AppendTerminalEvent
    \/ /\ \/ \E S \in {{Thread, Main}, {Main}, {Sup}, {Again}} : Stop(S)
          \/ UNCHANGED <<pc, at, mem, buf>>
       /\ UNCHANGED <<local, remote, state>>
       /\ faults \subseteq faults'
<1> SUFFICES ASSUME [LifeNext]_lifecycleVars,
                    ~[Next]_vars, ~AppendTerminalEvent
             PROVE  /\ \/ \E S \in {{Thread, Main}, {Main}, {Sup}, {Again}} : Stop(S)
                       \/ UNCHANGED <<pc, at, mem, buf>>
                    /\ UNCHANGED <<local, remote, state>>
                    /\ faults \subseteq faults'
  OBVIOUS
<1>1. \A s \in Syncers : SyncStep(s) \/ SyncFault(s) => Next
  BY DEF Next
<1>2. /\ Thread \in Syncers /\ Main \in Syncers /\ Handlers \subseteq Syncers
      /\ Handlers = {Sup, Again}
  BY Distinct DEF Handlers
<1>3. ~Run /\ ~PeriodicSync /\ ~CallFails
  BY <1>1, <1>2 DEF Run, Next, PeriodicSync, CallFails
<1>4. ~UNCHANGED files
  BY DEF files, vars
<1>5. ~RunEnds /\ ~RunAborts /\ ~SignalArrives /\ ~Stopped /\ ~UNCHANGED lifecycleVars
  BY <1>4 DEF RunEnds, RunAborts, SignalArrives, Stopped, lifecycleVars, files, vars
<1>6. ~MainSyncBegins
  <2>1. ~Load(Main) /\ ~LoadFails(Main)
    BY <1>1, <1>2 DEF SyncStep
  <2>2. QED
    BY <2>1 DEF MainSyncBegins
<1>7. CASE ChildStep
  <2>1. CASE ChildExits
    BY <2>1 DEF ChildExits, Exit
  <2>2. QED
    BY <1>1, <1>2, <1>4, <1>6, <1>7, <2>1 DEF ChildStep, Joined, JoinTimesOut, MainSync, MainSyncReturns
<1>8. CASE SecondSignal
  BY <1>8 DEF SecondSignal, Fault
<1>9. ASSUME NEW h \in Handlers, \/ SupSyncBegins(h) \/ SupSync(h) \/ SupSyncReturns(h)
                                \/ ForwardTerm(h) \/ ForwardInt(h) \/ SupSyncTimesOut(h)
      PROVE  /\ \/ \E S \in {{Thread, Main}, {Main}, {Sup}, {Again}} : Stop(S)
                \/ UNCHANGED <<pc, at, mem, buf>>
             /\ UNCHANGED <<local, remote, state>>
             /\ faults \subseteq faults'
  <2>1. ~Load(h) /\ ~LoadFails(h) /\ ~SyncStep(h)
    BY <1>1, <1>2 DEF SyncStep
  <2>2. ~SupSyncBegins(h) /\ ~SupSync(h) /\ ~SupSyncReturns(h)
    BY <1>4, <2>1 DEF SupSyncBegins, SupSync, SupSyncReturns
  <2>3. CASE ForwardTerm(h)
    BY <1>4, <2>3 DEF ForwardTerm, Exit
  <2>4. CASE ForwardInt(h)
    BY <1>4, <2>4 DEF ForwardInt, Exit
  <2>5. CASE SupSyncTimesOut(h)
    <3>1. {h} \in {{Thread, Main}, {Main}, {Sup}, {Again}}
      BY <1>2
    <3>2. QED
      BY <2>5, <3>1 DEF SupSyncTimesOut, Fault
  <2>6. QED
    BY <1>9, <2>2, <2>3, <2>4, <2>5
<1>10. ~Reap
  BY <1>4 DEF Reap
<1>11. QED
  BY <1>3, <1>5, <1>7, <1>8, <1>9, <1>10 DEF LifeNext, SupStep

LEMMA LifeAny == LifeSpec => []AnyInv
<1>1. LifeInit => AnyInv
  BY InitAnyInv DEF LifeInit
<1>2. AnyInv /\ [LifeNext]_lifecycleVars => AnyInv'
  BY LifeSteps, StepAnyInv, StopAny, TerminalAny
<1>3. QED
  BY <1>1, <1>2, PTL DEF LifeSpec

\* However a container is signalled, killed or late, and however its syncs
\* overlap, the archive holds records and ends with one; unless a ledger was
\* restored, none of them lacks its beginning.
THEOREM LifeOnlyRecords == LifeSpec => []OnlyRecordsArchived
<1>1. AnyInv => OnlyRecordsArchived
  BY RecordsFromInv
<1>2. QED
  BY <1>1, LifeAny, PTL

\* Nor is anything recorded as bundled that is not in a bundle.
THEOREM LifeBundledArchived == LifeSpec => []BundledIsArchived
<1>1. AnyInv => BundledIsArchived
  BY DEF AnyInv, BundleInv, BundledIsArchived, Bundled
<1>2. QED
  BY <1>1, LifeAny, PTL

-----------------------------------------------------------------------------
(* Undisturbed *)

LEMMA SyncFaults ==
  /\ \A s : SyncFault(s) => faults' # {}
  /\ \A l : SpoilLine(l) \/ RestoreLedger(l) => faults' # {}
  /\ \A h : SupSyncTimesOut(h) => faults' # {}
  /\ SecondSignal => faults' # {}
  BY DEF SyncFault, GetFails, PutBundleSameSecond, PutFails, Kill, Fault, SpoilLine,
     RestoreLedger, SupSyncTimesOut, SecondSignal

\* What one sync does to the others: nothing.
LEMMA SyncFrame ==
  ASSUME TypeInv, NEW s \in Syncers, SyncStep(s)
  PROVE  /\ \A r \in Syncers : r # s => UNCHANGED <<pc[r], at[r], mem[r], buf[r]>>
         /\ UNCHANGED <<local, faults>>
         /\ ~PutLedger(s) => UNCHANGED archive
         /\ pc[s] = "off" => Load(s) \/ LoadFails(s)
<1> USE DEF TypeInv, Goto, remote
<1>1. CASE \/ Load(s) \/ SkipLedger(s) \/ SkipConstitution(s) \/ SkipResearch(s)
  BY <1>1 DEF Load, SkipLedger, SkipConstitution, SkipResearch, Skip
<1>2. CASE ReadLedger(s) \/ GetExisting(s) \/ ReadConstitution(s) \/ ReadResearch(s)
  BY <1>2 DEF ReadLedger, GetExisting, ReadConstitution, ReadResearch
<1>3. CASE PutLedger(s) \/ PutConstitution(s) \/ PutBundle(s)
  BY <1>3 DEF PutLedger, PutConstitution, PutBundle, FinishBundle, Advance
<1>4. CASE TruncateState(s) \/ WriteState(s)
  BY <1>4 DEF TruncateState, WriteState, Stop
<1>5. CASE LoadFails(s)
  BY <1>5 DEF LoadFails, vars, local
<1>6. QED
  BY <1>1, <1>2, <1>3, <1>4, <1>5 DEF SyncStep

LEMMA LifeTypeInit == LifeInit => LifeTypeInv
  BY DEF LifeInit, LifeTypeInv, ChildPlaces, SupPlaces, Returned, Handlers

LEMMA LifeTypeStep == LifeTypeInv /\ [LifeNext]_lifecycleVars => LifeTypeInv'
<1> SUFFICES ASSUME LifeTypeInv, [LifeNext]_lifecycleVars PROVE LifeTypeInv'
  OBVIOUS
<1> USE DEF LifeTypeInv, ChildPlaces, SupPlaces
<1>1. CASE UNCHANGED life
  BY <1>1 DEF life
<1>2. CASE RunEnds \/ RunAborts \/ Joined \/ JoinTimesOut
  BY <1>2 DEF RunEnds, RunAborts, Joined, JoinTimesOut, AfterJoin
<1>3. CASE MainSyncBegins \/ MainSyncReturns \/ AppendTerminalEvent \/ ChildExits
  BY <1>3 DEF MainSyncBegins, MainSyncReturns, AfterSync, AppendTerminalEvent, ChildExits, Exit
<1>4. CASE SignalArrives
  BY <1>4 DEF SignalArrives, Goes, Handlers
<1>5. CASE SecondSignal
  BY <1>5 DEF SecondSignal, Goes, Handlers
<1>6. CASE Reap
  BY <1>6 DEF Reap, Goes, Handlers
<1>7. ASSUME NEW h \in Handlers, SupSyncBegins(h)
      PROVE  LifeTypeInv'
  BY <1>7 DEF SupSyncBegins, Goes
<1>8. ASSUME NEW h \in Handlers, SupSyncReturns(h) \/ SupSyncTimesOut(h)
      PROVE  LifeTypeInv'
  BY <1>8 DEF SupSyncReturns, SupSyncTimesOut, Goes, AfterSync, AfterUpload
<1>9. ASSUME NEW h \in Handlers, ForwardTerm(h)
      PROVE  LifeTypeInv'
  BY <1>9 DEF ForwardTerm, Goes, Returned, Exit
<1>10. ASSUME NEW h \in Handlers, ForwardInt(h)
      PROVE  LifeTypeInv'
  BY <1>10 DEF ForwardInt, Goes, Returned, Exit
<1>11. QED
  BY <1>1, <1>2, <1>3, <1>4, <1>5, <1>6, <1>7, <1>8, <1>9, <1>10
  DEF LifeNext, ChildStep, SupStep, Run, PeriodicSync, MainSync, CallFails, SupSync, Stopped,
      lifecycleVars

\* What has disturbed a container is not undone.
LEMMA UndisturbedBefore ==
  ASSUME LifeTypeInv, [LifeNext]_lifecycleVars, Undisturbed'
  PROVE  Undisturbed
<1> USE DEF Undisturbed
<1>1. faults = {}
  <2>1. faults \subseteq faults'
    BY LifeSteps, FaultsGrow DEF AppendTerminalEvent
  <2>2. QED
    BY <2>1
<1>2. ~SecondSignal /\ ~SignalArrives /\ ~JoinTimesOut /\ ~RunAborts
  BY Distinct, SyncFaults DEF SignalArrives, JoinTimesOut, RunAborts, LifeTypeInv, Handlers
<1>3. how \in {"none", "completed"} /\ ~late /\ signal[Sup] = "none"
  <2>1. CASE UNCHANGED life
    BY <2>1 DEF life
  <2>2. CASE RunEnds
    BY <2>2 DEF RunEnds, LifeTypeInv
  <2>3. CASE Joined \/ MainSyncBegins \/ MainSyncReturns \/ AppendTerminalEvent \/ ChildExits \/ Reap
    BY <2>3 DEF Joined, MainSyncBegins, MainSyncReturns, AppendTerminalEvent, ChildExits, Exit, Reap
  <2>4. ASSUME NEW h \in Handlers, \/ SupSyncBegins(h) \/ SupSyncReturns(h) \/ SupSyncTimesOut(h)
                                   \/ ForwardTerm(h) \/ ForwardInt(h)
        PROVE  how \in {"none", "completed"} /\ ~late /\ signal[Sup] = "none"
    BY <2>4 DEF SupSyncBegins, SupSyncReturns, SupSyncTimesOut, ForwardTerm, ForwardInt, Exit
  <2>5. QED
    BY <1>2, <2>1, <2>2, <2>3, <2>4
    DEF LifeNext, ChildStep, SupStep, Run, PeriodicSync, MainSync, CallFails, SupSync, Stopped,
        lifecycleVars
<1>4. QED
  BY <1>1, <1>3

UndisturbedStep ==
  \/ Run
  \/ /\ child \in {"running", "joining"}
     /\ child = "joining" => pc[Thread] # "off"
     /\ SyncStep(Thread) /\ UNCHANGED life
  \/ RunEnds
  \/ Joined
  \/ /\ child = "sync" /\ child' = "uploading"
     /\ Load(Main) /\ UNCHANGED <<how, late, sup, signal>>
  \/ MainSync
  \/ MainSyncReturns
  \/ ChildExits
  \/ Reap /\ Goes(Sup, "final")
  \/ sup[Sup] = "final" /\ Load(Sup) /\ Goes(Sup, "final_upload")
     /\ UNCHANGED <<child, how, late, signal>>
  \/ SupSync(Sup)
  \/ SupSyncReturns(Sup)
  \/ UNCHANGED lifecycleVars

\* The steps of a container that nothing has disturbed when they are over.
LEMMA UndisturbedSteps ==
  ASSUME OrderInv, [LifeNext]_lifecycleVars, Undisturbed'
  PROVE  UndisturbedStep /\ Undisturbed /\ TurnInv /\ WholeInv /\ FinalInv /\ SerialInv
<1>1. Undisturbed /\ TurnInv /\ WholeInv /\ FinalInv /\ SerialInv
  BY UndisturbedBefore DEF OrderInv, UndisturbedInv
<1>2. LifeTypeInv /\ LifeTypeInv' /\ faults' = {}
  BY LifeTypeStep DEF OrderInv, Undisturbed
<1> USE Distinct
<1>3. ~SecondSignal /\ ~SignalArrives /\ ~JoinTimesOut /\ ~RunAborts
  BY SyncFaults DEF SignalArrives, JoinTimesOut, RunAborts, LifeTypeInv, Handlers, Undisturbed,
     OrderInv
<1>4. \A s : ~SyncFault(s) /\ ~SupSyncTimesOut(s)
  BY <1>2, SyncFaults
<1>5. ~CallFails
  BY <1>4 DEF CallFails
<1>6. ~AppendTerminalEvent
  BY <1>1, <1>2 DEF AppendTerminalEvent, Undisturbed, LifeTypeInv
<1>7. ASSUME NEW h \in Handlers
      PROVE  ~ForwardTerm(h) /\ ~ForwardInt(h)
  <2>1. h \in {Sup, Again} /\ sup[h] # "forward"
    BY <1>1 DEF Handlers, TurnInv
  <2>2. QED
    BY <2>1 DEF ForwardTerm, ForwardInt
<1>8. ASSUME SupSyncBegins(Again) \/ SupSync(Again) \/ SupSyncReturns(Again)
      PROVE  FALSE
  BY <1>1, <1>8 DEF SupSyncBegins, SupSync, SupSyncReturns, AfterUpload, TurnInv
<1>9. ASSUME MainSyncBegins \/ SupSyncBegins(Sup)
      PROVE  UndisturbedStep
  <2>1. \A s \in Syncers : pc[s] = "off" \/ s = Thread
    BY <1>1, <1>9 DEF TurnInv, MainSyncBegins, SupSyncBegins
  <2>2. pc[Thread] = "off"
    BY <1>1, <1>9 DEF TurnInv, MainSyncBegins, SupSyncBegins
  <2>3. state # Torn
    BY <1>1, <2>1, <2>2 DEF SerialInv, ExactInv, ExactSaved, Undisturbed
  <2>4. ~LoadFails(Main) /\ ~LoadFails(Sup)
    BY <2>3 DEF LoadFails
  <2>5. CASE MainSyncBegins
    BY <2>4, <2>5 DEF MainSyncBegins, UndisturbedStep
  <2>6. CASE SupSyncBegins(Sup)
    BY <1>1, <2>4, <2>6 DEF SupSyncBegins, UndisturbedStep, TurnInv
  <2>7. QED
    BY <1>9, <2>5, <2>6
<1>10. ASSUME PeriodicSync
       PROVE  UndisturbedStep
  BY <1>1, <1>2, <1>4, <1>10 DEF PeriodicSync, UndisturbedStep, TurnInv
<1>11. ASSUME Reap
       PROVE  UndisturbedStep
  <2>1. signal = [h \in Handlers |-> "none"]
    BY <1>1, <1>2 DEF LifeTypeInv, Handlers, TurnInv, Undisturbed
  <2>2. QED
    BY <1>11, <2>1 DEF Reap, UndisturbedStep
<1>12. ASSUME \E h \in Handlers : \/ SupSyncBegins(h) \/ SupSync(h) \/ SupSyncReturns(h)
                                  \/ ForwardTerm(h) \/ ForwardInt(h)
       PROVE  UndisturbedStep
  <2>1. SupSyncBegins(Sup) \/ SupSync(Sup) \/ SupSyncReturns(Sup)
    BY <1>7, <1>8, <1>12 DEF Handlers
  <2>2. QED
    BY <1>9, <2>1 DEF UndisturbedStep
<1>13. ASSUME ChildStep
       PROVE  UndisturbedStep
  BY <1>3, <1>6, <1>9, <1>13 DEF ChildStep, UndisturbedStep
<1>14. UndisturbedStep
  BY <1>3, <1>4, <1>5, <1>10, <1>11, <1>12, <1>13 DEF LifeNext, SupStep, Stopped, UndisturbedStep
<1>15. QED
  BY <1>1, <1>14

LEMMA TurnStep ==
  ASSUME LifeTypeInv, AnyInv, TurnInv, Undisturbed, UndisturbedStep
  PROVE  TurnInv'
<1> USE Distinct DEF TurnInv
<1>1. TypeInv
  BY DEF AnyInv
<1>2. CASE Run
  <2>1. UNCHANGED pc
    BY <1>2 DEF Run, LocalStep, StartLine, FinishLine, SpoilLine, RestoreLedger,
       ReviseConstitution, WriteArtifact
  <2>2. QED
    BY <1>2, <2>1 DEF Run, life
<1>3. CASE child \in {"running", "joining"} /\ SyncStep(Thread) /\ UNCHANGED life
  <2>1. pc'[Main] = pc[Main] /\ pc'[Sup] = pc[Sup] /\ pc'[Again] = pc[Again]
    BY <1>1, <1>3, SyncFrame
  <2>2. QED
    BY <1>3, <2>1 DEF life
<1>4. CASE RunEnds
  BY <1>4 DEF RunEnds, files
<1>5. CASE Joined
  BY <1>5 DEF Joined, AfterJoin, Undisturbed, files
<1>6. CASE /\ child = "sync" /\ child' = "uploading"
           /\ Load(Main) /\ UNCHANGED <<how, late, sup, signal>>
  BY <1>1, <1>6 DEF Load, Goto, TypeInv
<1>7. CASE MainSync
  <2>1. /\ pc'[Thread] = pc[Thread] /\ pc'[Sup] = pc[Sup] /\ pc'[Again] = pc[Again]
    BY <1>1, <1>7, SyncFrame DEF MainSync
  <2>2. QED
    BY <1>7, <2>1 DEF MainSync, life
<1>8. CASE MainSyncReturns
  BY <1>8 DEF MainSyncReturns, files, AfterSync
<1>9. CASE ChildExits
  <2>1. pc'[Main] = "off" /\ pc'[Thread] = "off" /\ pc'[Sup] = pc[Sup] /\ pc'[Again] = pc[Again]
    BY <1>9 DEF ChildExits, Exit, Stop
  <2>2. QED
    BY <1>9, <2>1 DEF ChildExits, Exit
<1>10. CASE Reap /\ Goes(Sup, "final")
  BY <1>10 DEF Reap, Goes, files, LifeTypeInv, Handlers, Returned
<1>11. CASE sup[Sup] = "final" /\ Load(Sup) /\ Goes(Sup, "final_upload")
            /\ UNCHANGED <<child, how, late, signal>>
  BY <1>1, <1>11 DEF Load, Goto, Goes, TypeInv, LifeTypeInv, Handlers
<1>12. CASE SupSync(Sup)
  <2>1. /\ pc'[Thread] = pc[Thread] /\ pc'[Main] = pc[Main] /\ pc'[Again] = pc[Again]
    BY <1>1, <1>12, SyncFrame DEF SupSync
  <2>2. sup[Sup] = "final_upload"
    BY <1>12 DEF SupSync, AfterUpload
  <2>3. QED
    BY <1>12, <2>1, <2>2 DEF SupSync, life
<1>13. CASE SupSyncReturns(Sup)
  <2>1. sup[Sup] = "final_upload"
    BY <1>13 DEF SupSyncReturns, AfterUpload
  <2>2. AfterUpload["final_upload"] = "exited"
    BY DEF AfterUpload
  <2>3. QED
    BY <1>13, <2>1, <2>2 DEF SupSyncReturns, Goes, files, AfterSync, LifeTypeInv, Handlers
<1>14. CASE UNCHANGED lifecycleVars
  BY <1>14 DEF lifecycleVars, vars, life
<1>15. QED
  BY <1>2, <1>3, <1>4, <1>5, <1>6, <1>7, <1>8, <1>9, <1>10, <1>11, <1>12, <1>13, <1>14
  DEF UndisturbedStep

\* The turns keep the syncs apart.
LEMMA TurnsAreSerial == TurnInv => Serial
<1> SUFFICES ASSUME TurnInv PROVE Serial
  OBVIOUS
<1>1. \A s \in Syncers : pc[s] # "off" => s \in {Thread, Main, Sup}
  BY Distinct DEF TurnInv
<1>2. pc[Thread] # "off" => pc[Main] = "off" /\ pc[Sup] = "off"
  BY DEF TurnInv
<1>3. pc[Main] # "off" => pc[Sup] = "off"
  BY DEF TurnInv
<1>4. QED
  BY <1>1, <1>2, <1>3 DEF Serial

\* Apart from the end of the process they are steps of S3Sync.
LEMMA UndisturbedNext ==
  ASSUME TypeInv, TurnInv, UndisturbedStep
  PROVE  \/ [Next]_vars
         \/ /\ ChildExits
            /\ UNCHANGED <<local, remote, state, faults, pc>>
            /\ \A s \in Syncers : pc[s] # "off" => UNCHANGED <<at[s], mem[s], buf[s]>>
<1> USE Distinct
<1>1. CASE ChildExits
  <2>1. pc[Thread] = "off" /\ pc[Main] = "off"
    BY <1>1 DEF ChildExits, TurnInv
  <2>2. pc' = pc
    BY <1>1, <2>1 DEF ChildExits, Exit, Stop, TypeInv
  <2>3. \A s \in Syncers : pc[s] # "off" => UNCHANGED <<at[s], mem[s], buf[s]>>
    BY <1>1, <2>1 DEF ChildExits, Exit, Stop
  <2>4. QED
    BY <1>1, <2>2, <2>3 DEF ChildExits, Exit
<1>2. CASE ~ChildExits
  <2>1. \A s \in Syncers : SyncStep(s) => Next
    BY DEF Next
  <2>2. Load(Main) \/ Load(Sup) => Next
    BY <2>1 DEF SyncStep
  <2>3. UNCHANGED files => UNCHANGED vars
    BY DEF files, vars
  <2>4. QED
    BY <1>2, <2>1, <2>2, <2>3 DEF UndisturbedStep, Next, Run, RunEnds, Joined, MainSync,
       MainSyncReturns, Reap, SupSync, SupSyncReturns, lifecycleVars
<1>3. QED
  BY <1>1, <1>2

LEMMA UndisturbedSerial ==
  ASSUME SerialInv, TurnInv, TurnInv', UndisturbedStep
  PROVE  SerialInv'
<1>1. TypeInv /\ AnyInv
  BY DEF SerialInv, AnyInv
<1>2. CASE [Next]_vars
  <2>1. Serial /\ Serial'
    BY TurnsAreSerial, PTL
  <2>2. QED
    BY <1>2, <2>1, StepSerialInv
<1>3. CASE /\ ChildExits
           /\ UNCHANGED <<local, remote, state, faults, pc>>
           /\ \A s \in Syncers : pc[s] # "off" => UNCHANGED <<at[s], mem[s], buf[s]>>
  <2>1. AnyInv'
    BY <1>1, <1>3, StopAny DEF ChildExits, Exit
  <2>2. SurviveInv'
    <3>1. \A l \in Ledgers : \A c : CursorOK(l, c) <=> CursorOK(l, c)'
      BY <1>3 DEF CursorOK, local, remote
    <3>2. \A s \in Syncers : pc[s] # "off" => (BufferOK(s) <=> BufferOK(s)')
      BY <1>3 DEF BufferOK, local
    <3>3. NumberedInv <=> NumberedInv'
      BY <1>3 DEF NumberedInv, local
    <3>4. QED
      BY <1>3, <3>1, <3>2, <3>3 DEF SerialInv, SurviveInv, Survivable, Good, remote
  <2>3. ExactInv'
    BY <1>3 DEF SerialInv, ExactInv, ExactCursors, ExactSaved, local, remote
  <2>4. QED
    BY <2>1, <2>2, <2>3 DEF SerialInv
<1>4. QED
  BY <1>1, <1>2, <1>3, UndisturbedNext

LEMMA WholeStep ==
  ASSUME TypeInv, TurnInv, WholeInv, UndisturbedStep, Undisturbed'
  PROVE  WholeInv'
<1>1. CASE UNCHANGED <<disk, written>>
  BY <1>1 DEF WholeInv
<1>2. ASSUME NEW l \in Ledgers, FinishLine(l)
      PROVE  WholeInv'
  <2>1. PICK e \in LineEnds : AppendLine(l, e)
    BY <1>2 DEF FinishLine
  <2>2. /\ Len(disk'[l]) = Len(disk[l]) + (e - written[l]) /\ written'[l] = e
        /\ \A k \in Ledgers : k # l => disk'[k] = disk[k] /\ written'[k] = written[k]
        /\ e \in Nat /\ written[l] \in Nat
    BY <2>1, AppendLineFacts, LineFacts DEF AppendLine
  <2>3. Len(disk'[l]) = e
    BY <2>2 DEF WholeInv
  <2>4. QED
    BY <2>2, <2>3 DEF WholeInv
<1>3. \A l \in Ledgers : ~SpoilLine(l) /\ ~RestoreLedger(l)
  BY SyncFaults DEF Undisturbed
<1>4. QED
  BY <1>1, <1>2, <1>3, DiskChanges, UndisturbedNext DEF StartLine, local

\* A sync that finds nothing new in a ledger has it in the archive already.
LEMMA NothingNew ==
  ASSUME SerialInv, WholeInv, faults = {}, NEW s \in Syncers, pc[s] # "off", at[s] \in Ledgers
  PROVE  Uploadable(s) <=> ~Archived(at[s])
<1> DEFINE l == at[s]
           n == Len(archive[l])
<1>1. /\ TypeInv /\ disk[l] \in Seq(Nat) /\ archive[l] \in Seq(Nat) /\ written[l] \in Nat
      /\ n \in Nat /\ Len(disk[l]) \in Nat /\ l \in Ledgers
  BY LenProperties DEF SerialInv, AnyInv, TypeInv
<1>2. /\ n <= written[l] /\ n = mem[s].cursors[l] /\ NumberedInv
  BY DEF SerialInv, ExactInv, ExactCursors, SurviveInv, Survivable, Good
<1>3. Len(disk[l]) = written[l]
  BY <1>1 DEF WholeInv
<1>4. Start(s) = n
  BY <1>1, <1>2, <1>3, ChunkFacts
<1>5. /\ Chunk(s) \in Seq(Nat) /\ Len(Chunk(s)) = written[l] - n
      /\ \A i \in 1..Len(Chunk(s)) : Chunk(s)[i] = disk[l][n + i]
  BY <1>1, <1>2, <1>3, <1>4, ChunkFacts
<1>6. Chunk(s) # <<>> <=> written[l] # n
  BY <1>1, <1>2, <1>5, EmptySeq
<1>7. ASSUME n < written[l]
      PROVE  Parses(Chunk(s))
  <2> DEFINE w == written[l]
             chunk == Chunk(s)
  <2>1. OnEnd(disk[l], n)
    BY <1>1, <1>2 DEF SerialInv, AnyInv, AlignedInv
  <2>2. \A i \in 1..w : disk[l][i] = i
    BY <1>1, <1>2 DEF NumberedInv
  <2>3. n = 0 \/ (n \in 1..w /\ n \in LineEnds)
    BY <1>3, <2>1, <2>2 DEF OnEnd
  <2>4. /\ n \in Nat /\ w \in Nat /\ n < w /\ chunk \in Seq(Nat) /\ Len(chunk) = w - n
        /\ \A i \in 1..w - n : n + i \in 1..w /\ chunk[i] = disk[l][n + i]
    BY SMTT(20), <1>1, <1>5, <1>7
  <2> HIDE DEF n, w, chunk
  <2>5. \A i \in 1..w - n : chunk[i] = n + i
    BY <2>2, <2>4
  <2>6. Len(chunk) \in 1..w - n /\ n + Len(chunk) = w
    BY <2>4
  <2>7. chunk[Len(chunk)] = w
    BY <2>5, <2>6
  <2>8. ASSUME NEW k \in Line(w)
        PROVE  k \in Held(chunk)
    <3>1. k \in 1..w /\ \A m \in k..w - 1 : m \notin LineEnds
      BY <2>8 DEF Line
    <3>2. k > n
      <4>1. n \in k..w - 1 => n \notin LineEnds
        BY <3>1
      <4>2. k <= n => n \in k..w - 1 /\ n # 0
        BY <2>4, <3>1
      <4>3. QED
        BY <2>3, <2>4, <3>1, <4>1, <4>2
    <3> DEFINE j == k - n
    <3>3. j \in 1..w - n /\ n + j = k
      BY <2>4, <3>1, <3>2
    <3> HIDE DEF j
    <3>4. chunk[j] = k
      BY <2>5, <3>3
    <3>5. j \in 1..Len(chunk)
      BY <2>4, <3>3
    <3>6. QED
      BY <2>4, <3>4, <3>5, LenProperties DEF Held
  <2>9. w # Malformed
    BY <2>4 DEF Malformed
  <2>10. QED
    BY <2>7, <2>8, <2>9 DEF Parses, chunk
<1>8. QED
  BY <1>1, <1>2, <1>6, <1>7 DEF Uploadable, Archived

\* The final sync of the run goes through the ledgers in order, and none
\* grows behind it.
LEMMA MainStep ==
  ASSUME SerialInv, WholeInv, FinalInv, LifeTypeInv, faults = {}, pc[Main] # "off", SyncStep(Main)
  PROVE  /\ pc'[Main] = "off" => at'[Main] = 1 /\ \A l \in Ledgers : Archived(l)'
         /\ pc'[Main] # "off" =>
              /\ \A l \in Ledgers : l < at'[Main] => Archived(l)'
              /\ pc'[Main] \in {"get", "put"} => buf'[Main].upto = written'[at'[Main]]
              /\ pc'[Main] = "save" => at'[Main] = Done
<1> DEFINE s == Main
           a == at[s]
           Goal == /\ pc'[s] = "off" => at'[s] = 1 /\ \A l \in Ledgers : Archived(l)'
                   /\ pc'[s] # "off" =>
                        /\ \A l \in Ledgers : l < at'[s] => Archived(l)'
                        /\ pc'[s] \in {"get", "put"} => buf'[s].upto = written'[at'[s]]
                        /\ pc'[s] = "save" => at'[s] = Done
<1> USE Distinct
<1>1. /\ TypeInv /\ s \in Syncers /\ a \in 1..Done /\ NLedgers \in Nat
      /\ a \notin Ledgers => \A l \in Ledgers : l < a
      /\ \A l \in Ledgers : l < a + 1 => l < a \/ l = a
      /\ NLedgers + 1 = Constitution /\ Done = NLedgers + 3
  <2>1. TypeInv /\ s \in Syncers /\ a \in 1..Done /\ NLedgers \in Nat
    BY SyncAssumption DEF SerialInv, AnyInv, TypeInv
  <2> HIDE DEF s, a
  <2>2. NLedgers + 1 = Constitution /\ Done = NLedgers + 3 /\ Ledgers = 1..NLedgers
    BY <2>1 DEF Done, Constitution, Ledgers
  <2>3. a \in Int
    BY <2>1
  <2>4. QED
    BY <2>1, <2>2, <2>3
<1>2. UNCHANGED <<disk, written>> /\ \A l \in Ledgers : l < a => Archived(l)
  BY <1>1, SyncFrame DEF local, FinalInv
<1>3. ASSUME at'[s] = a + 1, pc'[s] = "surface", UNCHANGED archive, a \in Ledgers => Archived(a)
      PROVE  Goal
  BY <1>1, <1>2, <1>3 DEF Archived
<1>4. CASE SkipLedger(s)
  <2>1. Archived(a)
    BY <1>4, NothingNew DEF SkipLedger
  <2>2. QED
    BY <1>1, <1>3, <1>4, <2>1 DEF SkipLedger, Skip, TypeInv, remote
<1>5. CASE SkipConstitution(s) \/ SkipResearch(s)
  <2>1. a \notin Ledgers
    BY <1>1, <1>5 DEF SkipConstitution, SkipResearch, Constitution, Research, Ledgers
  <2>2. QED
    BY <1>1, <1>3, <1>5, <2>1 DEF SkipConstitution, SkipResearch, Skip, TypeInv, remote
<1>6. CASE PutConstitution(s) \/ PutBundle(s)
  <2>1. a \notin Ledgers
    <3>1. pc[s] \in {"put_constitution", "put_bundle"}
      BY <1>6 DEF PutConstitution, PutBundle
    <3>2. a \in {Constitution, Research}
      BY <1>1, <3>1 DEF TypeInv
    <3>3. QED
      BY <1>1, <3>2 DEF Constitution, Research, Ledgers
  <2>2. QED
    BY <1>1, <1>3, <1>6, <2>1 DEF PutConstitution, PutBundle, FinishBundle, Advance, Goto, TypeInv
<1>7. CASE PutLedger(s)
  <2>1. a \in Ledgers /\ pc[s] = "put"
    BY <1>1, <1>7 DEF PutLedger, TypeInv
  <2>2. Len(buf[s].body) = written[a]
    BY <2>1 DEF SerialInv, ExactInv, ExactCursors, FinalInv
  <2>3. archive' = [archive EXCEPT ![a] = buf[s].body]
    BY <1>7 DEF PutLedger
  <2>4. \A l \in Ledgers : l = a \/ Archived(l) => Archived(l)'
    <3>1. archive'[a] = buf[s].body /\ \A l \in Ledgers : l # a => archive'[l] = archive[l]
      BY <1>1, <2>1, <2>3 DEF TypeInv
    <3>2. QED
      BY <1>2, <2>2, <3>1 DEF Archived
  <2>5. at'[s] = a + 1 /\ pc'[s] = "surface"
    BY <1>1, <1>7 DEF PutLedger, Advance, Goto, TypeInv
  <2>6. QED
    BY <1>1, <1>2, <2>4, <2>5
<1>8. CASE ReadLedger(s)
  <2>1. a \in Ledgers /\ buf'[s].upto = Len(disk[a]) /\ at' = at /\ archive' = archive
    BY <1>1, <1>8 DEF ReadLedger, TypeInv, NoBuf, remote
  <2>2. buf'[s].upto = written[a] /\ pc'[s] \in {"get", "put"}
    BY <1>1, <1>8, <2>1 DEF WholeInv, ReadLedger, Goto, TypeInv
  <2>3. QED
    BY <1>2, <2>1, <2>2 DEF Archived
<1>9. CASE GetExisting(s)
  <2>1. /\ buf'[s].upto = buf[s].upto /\ at' = at /\ archive' = archive /\ pc'[s] = "put"
        /\ pc[s] = "get"
    BY <1>1, <1>9 DEF GetExisting, Goto, TypeInv, Buffer, remote
  <2>2. QED
    BY <1>2, <2>1 DEF Archived, FinalInv
<1>10. CASE ReadConstitution(s) \/ ReadResearch(s)
  <2>1. /\ pc'[s] \in {"put_constitution", "put_bundle"} /\ at' = at /\ archive' = archive
    BY <1>1, <1>10 DEF ReadConstitution, ReadResearch, Goto, TypeInv, remote
  <2>2. QED
    BY <1>2, <2>1 DEF Archived
<1>11. CASE TruncateState(s)
  <2>1. a = Done /\ pc'[s] = "save" /\ at' = at /\ archive' = archive
    BY <1>1, <1>11 DEF TruncateState, Goto, TypeInv, remote
  <2>2. QED
    BY <1>2, <2>1 DEF Archived
<1>12. CASE WriteState(s)
  <2>1. pc'[s] = "off" /\ at'[s] = 1 /\ archive' = archive
    BY <1>12 DEF WriteState, Stop, remote
  <2>2. a = Done
    BY <1>12 DEF WriteState, FinalInv
  <2>3. \A l \in Ledgers : l < a
    BY <1>1, <2>2 DEF Ledgers
  <2>4. QED
    BY <1>2, <2>1, <2>3 DEF Archived
<1>13. ~Load(s) /\ ~LoadFails(s)
  BY DEF Load, LoadFails
<1>14. QED
  BY <1>4, <1>5, <1>6, <1>7, <1>8, <1>9, <1>10, <1>11, <1>12, <1>13 DEF SyncStep

\* The supervisor's final sync has nothing to upload.
LEMMA SupStepFinal ==
  ASSUME SerialInv, WholeInv, FinalInv, faults = {}, pc[Sup] # "off", SyncStep(Sup),
         \A l \in Ledgers : Archived(l)
  PROVE  pc'[Sup] \notin {"get", "put"} /\ UNCHANGED <<archive, written>>
<1> USE Distinct
<1>1. TypeInv
  BY DEF SerialInv, AnyInv
<1>2. ~ReadLedger(Sup)
  BY NothingNew DEF ReadLedger
<1>3. ~GetExisting(Sup) /\ ~PutLedger(Sup)
  BY DEF GetExisting, PutLedger, FinalInv
<1>4. UNCHANGED <<archive, written>>
  BY <1>1, <1>3, SyncFrame DEF local
<1> SUFFICES pc'[Sup] \notin {"get", "put"}
  BY <1>4
<1>5. CASE Load(Sup) \/ LoadFails(Sup)
  BY <1>5 DEF Load, LoadFails
<1>6. CASE SkipLedger(Sup) \/ SkipConstitution(Sup) \/ SkipResearch(Sup)
  BY <1>1, <1>6 DEF SkipLedger, SkipConstitution, SkipResearch, Skip
<1>7. CASE ReadConstitution(Sup) \/ ReadResearch(Sup) \/ TruncateState(Sup)
  BY <1>1, <1>7 DEF ReadConstitution, ReadResearch, TruncateState, Goto, TypeInv
<1>8. CASE PutConstitution(Sup) \/ PutBundle(Sup)
  BY <1>1, <1>8 DEF PutConstitution, PutBundle, FinishBundle, Advance, Goto, TypeInv
<1>9. CASE WriteState(Sup)
  BY <1>9 DEF WriteState, Stop
<1>10. QED
  BY <1>2, <1>3, <1>5, <1>6, <1>7, <1>8, <1>9 DEF SyncStep

LEMMA FinalStep ==
  ASSUME SerialInv, LifeTypeInv, TurnInv, WholeInv, FinalInv, Undisturbed, UndisturbedStep
  PROVE  FinalInv'
<1> USE Distinct DEF FinalInv
<1>1. TypeInv /\ faults = {}
  BY DEF SerialInv, AnyInv, Undisturbed
<1>2. ASSUME pc'[Main] = pc[Main], at'[Main] = at[Main], pc[Main] = "off",
             pc'[Sup] \notin {"get", "put"}, child' \notin {"uploading", "epilogue", "leaving", "exited"}
      PROVE  FinalInv'
  BY <1>2
<1>3. ASSUME UNCHANGED <<files, child>>
      PROVE  FinalInv'
  BY <1>3 DEF files, local, remote, Archived
<1>4. CASE Run
  <2>1. child = "running" /\ child' = child /\ UNCHANGED <<pc, at>>
    BY <1>4 DEF Run, LocalStep, StartLine, FinishLine, SpoilLine, RestoreLedger,
       ReviseConstitution, WriteArtifact, life
  <2>2. QED
    BY <1>2, <2>1 DEF TurnInv
<1>5. CASE child \in {"running", "joining"} /\ SyncStep(Thread) /\ UNCHANGED life
  <2>1. UNCHANGED <<pc[Main], at[Main], pc[Sup]>> /\ child' = child
    BY <1>1, <1>5, SyncFrame DEF life
  <2>2. QED
    BY <1>2, <1>5, <2>1 DEF TurnInv
<1>6. CASE RunEnds \/ Joined
  <2>1. UNCHANGED <<pc, at>> /\ child \in {"running", "joining"} /\ child' \in {"joining", "sync"}
    BY <1>6 DEF RunEnds, Joined, AfterJoin, Undisturbed, files
  <2>2. QED
    BY <1>2, <2>1 DEF TurnInv
<1>7. CASE /\ child = "sync" /\ child' = "uploading"
           /\ Load(Main) /\ UNCHANGED <<how, late, sup, signal>>
  <2>1. pc[Main] = "off" /\ pc'[Main] = "surface" /\ pc'[Sup] = pc[Sup] /\ at'[Main] = 1
    BY <1>1, <1>7 DEF Load, Goto, TypeInv
  <2>2. \A l \in Ledgers : ~(l < 1)
    BY DEF Ledgers
  <2>3. QED
    BY <1>7, <2>1, <2>2
<1>8. CASE MainSync
  <2>1. /\ pc[Main] # "off" /\ SyncStep(Main) /\ child = "uploading" /\ child' = child
        /\ pc'[Sup] = pc[Sup]
    BY <1>1, <1>8, SyncFrame DEF MainSync, life
  <2>2. QED
    BY <1>1, <2>1, MainStep
<1>9. CASE MainSyncReturns
  BY <1>9 DEF MainSyncReturns, AfterSync, files, local, remote, Archived
<1>10. CASE ChildExits
  <2>1. /\ child \in {"epilogue", "leaving"} /\ child' = "exited"
        /\ UNCHANGED <<written, archive>>
        /\ pc'[Main] = "off" /\ at'[Main] = 1 /\ pc'[Sup] = pc[Sup]
    BY <1>10 DEF ChildExits, Exit, Stop, local, remote
  <2>2. QED
    BY <2>1 DEF Archived
<1>11. CASE Reap /\ Goes(Sup, "final")
  BY <1>3, <1>11 DEF Reap
<1>12. CASE sup[Sup] = "final" /\ Load(Sup) /\ Goes(Sup, "final_upload")
            /\ UNCHANGED <<child, how, late, signal>>
  <2>1. /\ child = "exited" /\ child' = child /\ pc'[Main] = pc[Main] /\ at' = at
        /\ pc'[Sup] = "surface" /\ UNCHANGED <<written, archive>> /\ pc[Main] = "off"
    BY <1>1, <1>12 DEF TurnInv, Load, Goto, TypeInv, local, remote
  <2>2. QED
    BY <2>1 DEF Archived
<1>13. CASE SupSync(Sup)
  <2>1. /\ child = "exited" /\ child' = child /\ pc[Sup] # "off" /\ SyncStep(Sup) /\ pc[Main] = "off"
    BY <1>13 DEF SupSync, TurnInv, life
  <2>2. pc'[Main] = pc[Main] /\ at'[Main] = at[Main]
    BY <1>1, <2>1, SyncFrame
  <2>3. \A l \in Ledgers : Archived(l)
    BY <2>1
  <2>4. pc'[Sup] \notin {"get", "put"} /\ UNCHANGED <<archive, written>>
    BY <1>1, <2>1, <2>3, SupStepFinal
  <2>5. QED
    BY <2>1, <2>2, <2>3, <2>4 DEF Archived
<1>14. CASE SupSyncReturns(Sup)
  BY <1>3, <1>14 DEF SupSyncReturns
<1>15. CASE UNCHANGED lifecycleVars
  BY <1>3, <1>15 DEF lifecycleVars, life, files, vars
<1>16. QED
  BY <1>4, <1>5, <1>6, <1>7, <1>8, <1>9, <1>10, <1>11, <1>12, <1>13, <1>14, <1>15
  DEF UndisturbedStep

LEMMA InitOrderInv == LifeInit => OrderInv
<1> SUFFICES ASSUME LifeInit PROVE OrderInv
  OBVIOUS
<1> USE Distinct
<1>1. AnyInv /\ LifeTypeInv /\ SerialInv
  BY InitAnyInv, InitSerialInv, LifeTypeInit DEF LifeInit
<1>2. TurnInv
  BY DEF LifeInit, Init, TurnInv, Returned, Handlers
<1>3. WholeInv
  BY EmptySeq DEF LifeInit, Init, WholeInv
<1>4. FinalInv
  BY DEF LifeInit, Init, FinalInv
<1>5. QED
  BY <1>1, <1>2, <1>3, <1>4 DEF OrderInv, UndisturbedInv

LEMMA StepOrderInv == OrderInv /\ [LifeNext]_lifecycleVars => OrderInv'
<1> SUFFICES ASSUME OrderInv, [LifeNext]_lifecycleVars PROVE OrderInv'
  OBVIOUS
<1>1. AnyInv' /\ LifeTypeInv' /\ AnyInv /\ LifeTypeInv /\ TypeInv
  BY LifeSteps, StepAnyInv, StopAny, TerminalAny, LifeTypeStep DEF OrderInv, AnyInv
<1>2. ASSUME Undisturbed'
      PROVE  TurnInv' /\ WholeInv' /\ FinalInv' /\ SerialInv'
  <2>1. UndisturbedStep /\ Undisturbed /\ TurnInv /\ WholeInv /\ FinalInv /\ SerialInv
    BY <1>2, UndisturbedSteps
  <2>2. TurnInv'
    BY <1>1, <2>1, TurnStep
  <2>3. WholeInv' /\ FinalInv' /\ SerialInv'
    BY <1>1, <1>2, <2>1, <2>2, WholeStep, FinalStep, UndisturbedSerial
  <2>4. QED
    BY <2>2, <2>3
<1>3. QED
  BY <1>1, <1>2 DEF OrderInv, UndisturbedInv

LEMMA OrderInvariant == LifeSpec => []OrderInv
  BY InitOrderInv, StepOrderInv, PTL DEF LifeSpec

\* In a container that nothing disturbs syncs never overlap, which no lock
\* sees to: the thread has been joined before the run's final sync begins, and
\* the agent process has ended before the supervisor's.
THEOREM UndisturbedIsSerial == LifeSpec => [](Undisturbed => Serial)
<1>1. OrderInv => (Undisturbed => Serial)
  BY TurnsAreSerial DEF OrderInv, UndisturbedInv
<1>2. QED
  BY <1>1, OrderInvariant, PTL

\* A run that ends well, undisturbed, leaves all its records in S3.
THEOREM CleanExit == LifeSpec => []CleanExitArchived
<1>1. OrderInv => CleanExitArchived
  <2> SUFFICES ASSUME OrderInv, sup[Sup] = "exited", how = "completed", signal[Sup] = "none",
                      ~late, faults = {}, NEW l \in Ledgers
               PROVE  archive[l] = disk[l]
    BY DEF CleanExitArchived
  <2>1. TurnInv /\ WholeInv /\ FinalInv /\ SerialInv
    BY DEF OrderInv, UndisturbedInv, Undisturbed
  <2>2. /\ disk[l] \in Seq(Nat) /\ archive[l] \in Seq(Nat) /\ written[l] \in Nat
        /\ Len(disk[l]) = written[l] /\ Len(archive[l]) = written[l]
    BY <2>1 DEF SerialInv, AnyInv, TypeInv, WholeInv, FinalInv, TurnInv, Archived
  <2>3. \A i \in 1..written[l] : disk[l][i] = i /\ archive[l][i] = i
    BY <2>1, <2>2 DEF SerialInv, SurviveInv, Survivable, Good, NumberedInv, ExactInv, Exact
  <2>4. QED
    BY <2>2, <2>3, SeqEqual
<1>2. QED
  BY <1>1, OrderInvariant, PTL
=============================================================================
