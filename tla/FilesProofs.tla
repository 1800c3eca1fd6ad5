----------------------------- MODULE FilesProofs -----------------------------
(***************************************************************************)
(* Theorems about Files in the sessions of Programs, for any disk, of any  *)
(* size, and any commands.                                                 *)
(*                                                                         *)
(* read_data and copy_program_image are loops, written as recursive        *)
(* functions.  What they compute is proved by induction on what is left of *)
(* the file: from the least element of a set of numbers.                   *)
(***************************************************************************)
EXTENDS Programs, SequenceTheorems, WellFoundedInduction, TLAPS

(* A set of numbers that is not empty has a least one. *)
LEMMA Least ==
  ASSUME NEW T \in SUBSET Nat, T # {}
  PROVE  \E x \in T : \A y \in T : x <= y
<1> DEFINE R == OpToRel(<, Nat)
<1>1. IsWellFoundedOn(R, Nat)
  BY NatLessThanWellFounded
<1> HIDE DEF R
<1>2. \E x \in T : \A y \in T : ~ (<<y, x>> \in R)
  BY <1>1, WFMin
<1>3. \A x, y \in Nat : <<y, x>> \in R <=> y < x
  BY SMT DEF R, OpToRel
<1>4. PICK x \in T : \A y \in T : ~ (<<y, x>> \in R)
  BY <1>2
<1>5. \A y \in T : ~(y < x)
  BY <1>4, <1>3
<1> QED
  BY <1>5, SMT

(* Of the members of a set, one has the least measure. *)
LEMMA LeastMeasure ==
  ASSUME NEW D, NEW m \in [D -> Nat], NEW T \in SUBSET D, T # {}
  PROVE  \E x \in T : \A y \in T : m[x] <= m[y]
<1> DEFINE M == {m[x] : x \in T}
<1>1. M \in SUBSET Nat /\ M # {}
  OBVIOUS
<1>2. PICK n \in M : \A k \in M : n <= k
  BY <1>1, Least
<1> QED
  BY <1>2

-----------------------------------------------------------------------------
(* Loops.  When every state of a loop either ends it or leads to one with  *)
(* a smaller measure, a function satisfies the equation of the loop.       *)

Computes(f, E, stop, result, next) ==
  /\ f = [s \in E |-> f[s]]
  /\ \A s \in E : f[s] = IF s \in stop THEN result[s] ELSE f[next[s]]

(* Two such functions agree where both are defined. *)
LEMMA LoopsAgree ==
  ASSUME NEW D, NEW stop, NEW result, NEW next \in [D -> D], NEW m \in [D -> Nat],
         \A s \in D \ stop : m[next[s]] < m[s],
         NEW E \in SUBSET D, NEW F \in SUBSET D,
         \A s \in E \ stop : next[s] \in E,
         \A s \in F \ stop : next[s] \in F,
         NEW f, NEW g,
         Computes(f, E, stop, result, next), Computes(g, F, stop, result, next),
         NEW s \in E \cap F
  PROVE  f[s] = g[s]
<1> SUFFICES ASSUME f[s] # g[s]
             PROVE  FALSE
  OBVIOUS
<1> DEFINE T == {x \in E \cap F : f[x] # g[x]}
<1>1. PICK x \in T : \A y \in T : m[x] <= m[y]
  <2>1. T \in SUBSET D /\ s \in T
    OBVIOUS
  <2> QED
    BY <2>1, LeastMeasure
<1>2. x \notin stop
  BY <1>1 DEF Computes
<1>3. next[x] \in E \cap F /\ m[next[x]] < m[x]
  BY <1>1, <1>2
<1>4. f[next[x]] = g[next[x]]
  <2>1. m[x] \in Nat /\ m[next[x]] \in Nat
    BY <1>1, <1>3
  <2>2. ~ (m[x] <= m[next[x]])
    BY <1>3, <2>1, SMT
  <2> QED
    BY <1>1, <1>3, <2>2
<1> QED
  BY <1>1, <1>2, <1>4 DEF Computes

LEMMA LoopExists ==
  ASSUME NEW D, NEW stop, NEW result, NEW next \in [D -> D], NEW m \in [D -> Nat],
         \A s \in D \ stop : m[next[s]] < m[s]
  PROVE  \E f : Computes(f, D, stop, result, next)
<1> DEFINE Upto(n) == {s \in D : m[s] <= n}
           Solves(f, n) == Computes(f, Upto(n), stop, result, next)
<1>1. \A n \in Nat : \A s \in Upto(n) \ stop : next[s] \in Upto(n) /\ m[next[s]] <= n - 1
  <2> TAKE n \in Nat
  <2> TAKE s \in Upto(n) \ stop
  <2>1. m[next[s]] < m[s] /\ m[s] <= n /\ m[s] \in Nat /\ m[next[s]] \in Nat
    OBVIOUS
  <2>2. m[next[s]] <= n /\ m[next[s]] <= n - 1
    BY <2>1, SMT
  <2> QED
    BY <2>2
<1>2. \A n \in Nat : \E f : Solves(f, n)
  <2> SUFFICES ASSUME NEW n \in Nat, ~ \E f : Solves(f, n)
               PROVE  FALSE
    OBVIOUS
  <2> DEFINE T == {x \in Nat : ~ \E f : Solves(f, x)}
  <2>1. PICK x \in T : \A y \in T : x <= y
    <3>1. T \in SUBSET Nat /\ n \in T
      OBVIOUS
    <3> HIDE DEF T
    <3> QED
      BY <3>1, Least
  <2>2. CASE x = 0
    <3> DEFINE f == [s \in Upto(0) |-> result[s]]
    <3>1. \A s \in Upto(0) : s \in stop
      <4> SUFFICES ASSUME NEW s \in Upto(0), s \notin stop
                   PROVE  FALSE
        OBVIOUS
      <4>1. next[s] \in D /\ m[next[s]] <= -1 /\ m[next[s]] \in Nat
        BY <1>1, SMT
      <4> QED
        BY <4>1, SMT
    <3>2. Solves(f, 0)
      BY <3>1 DEF Computes
    <3> QED
      BY <2>1, <2>2, <3>2
  <2>3. CASE x # 0
    <3>1. x - 1 \in Nat /\ ~(x <= x - 1)
      BY <2>1, <2>3, SMT
    <3>2. x - 1 \notin T
      BY <3>1, <2>1
    <3>3. PICK g : Solves(g, x - 1)
      BY <3>1, <3>2
    <3> DEFINE f == [s \in Upto(x) |-> IF s \in stop THEN result[s] ELSE g[next[s]]]
    <3>4. ASSUME NEW s \in Upto(x), s \notin stop
          PROVE  f[s] = f[next[s]]
      <4>1. next[s] \in Upto(x) /\ next[s] \in Upto(x - 1)
        BY <2>1, <1>1, <3>4
      <4>2. g[next[s]] = IF next[s] \in stop THEN result[next[s]] ELSE g[next[next[s]]]
        BY <3>3, <4>1 DEF Computes
      <4> QED
        BY <3>4, <4>1, <4>2
    <3>5. Solves(f, x)
      <4>1. f = [s \in Upto(x) |-> f[s]] /\ \A s \in Upto(x) \cap stop : f[s] = result[s]
        OBVIOUS
      <4> HIDE DEF f
      <4> QED
        BY <3>4, <4>1 DEF Computes
    <3> QED
      BY <2>1, <3>5
  <2> QED
    BY <2>2, <2>3
<1> DEFINE first(n) == CHOOSE f : Solves(f, n)
           h == [s \in D |-> first(m[s])[s]]
<1>3. \A n \in Nat : Solves(first(n), n)
  BY <1>2
<1> HIDE DEF first
<1>4. ASSUME NEW s \in D
      PROVE  h[s] = IF s \in stop THEN result[s] ELSE h[next[s]]
  <2> DEFINE t == next[s]
  <2>1. m[s] \in Nat /\ s \in Upto(m[s])
    BY SMT
  <2>2. Solves(first(m[s]), m[s])
    BY <2>1, <1>3
  <2>3. CASE s \in stop
    BY <2>1, <2>2, <2>3 DEF Computes
  <2>4. CASE s \notin stop
    <3>1. t \in D /\ t \in Upto(m[s]) /\ m[t] \in Nat /\ t \in Upto(m[t])
      BY <2>1, <2>4, <1>1, SMT
    <3>2. Solves(first(m[t]), m[t])
      BY <3>1, <1>3
    <3>3. \A n \in Nat : \A u \in Upto(n) \ stop : next[u] \in Upto(n)
      BY <1>1
    <3>4. first(m[s])[t] = first(m[t])[t]
      <4> DEFINE E == Upto(m[s])
                 F == Upto(m[t])
      <4>1. E \in SUBSET D /\ F \in SUBSET D /\ t \in E \cap F
        BY <3>1
      <4>2. /\ \A u \in E \ stop : next[u] \in E
            /\ \A u \in F \ stop : next[u] \in F
        BY <3>3, <3>1, <2>1
      <4>3. /\ Computes(first(m[s]), E, stop, result, next)
            /\ Computes(first(m[t]), F, stop, result, next)
        BY <2>2, <3>2
      <4> HIDE DEF E, F, Upto, Solves
      <4> QED
        BY <4>1, <4>2, <4>3, LoopsAgree
    <3> QED
      BY <2>1, <2>2, <2>4, <3>1, <3>4 DEF Computes
  <2> QED
    BY <2>3, <2>4
<1>5. h = [s \in D |-> h[s]]
  OBVIOUS
<1> HIDE DEF h
<1> QED
  BY <1>4, <1>5 DEF Computes

-----------------------------------------------------------------------------
(* The loop of read_data *)

LoopState == [offset : Nat, slot : Nat, place : Nat, buf : Seq(Nat \X Nat)]

SlotAt(s) == IF s.place = BlockSize THEN s.slot + 1 ELSE s.slot
PlaceAt(s) == IF s.place = BlockSize THEN 0 ELSE s.place
BlockAt(node, s) == node.data_block_num[SlotAt(s)]

LoopStops(node, length, s) ==
  s.offset >= node.length \/ Len(s.buf) >= length \/ ~Valid(BlockAt(node, s))

LoopResult(node, length, s) ==
  IF s.offset >= node.length \/ Len(s.buf) >= length THEN Done(s.buf)
  ELSE Error(s.buf)

LoopNext(node, s) ==
  [offset |-> s.offset + 1, slot |-> SlotAt(s), place |-> PlaceAt(s) + 1,
   buf |-> Append(s.buf, <<BlockAt(node, s), PlaceAt(s)>>)]

LEMMA SizesAreNat ==
  /\ BlockSize \in Nat /\ BlockSize > 0 /\ InodeBlocks \in Nat /\ InodeBlocks > 0
  /\ DataBlocks \in Nat /\ ChunkSize \in Nat /\ ChunkSize > 0
  /\ Width \in Nat /\ Width > 0 /\ NameLen \in Nat /\ NameLen > 0
  /\ NProcess \in Nat /\ NProcess > 0
BY FileAssumption, SMT

LEMMA LoopNextType ==
  ASSUME NEW node, NEW length, NEW s \in LoopState, ~LoopStops(node, length, s)
  PROVE  LoopNext(node, s) \in LoopState
<1>1. BlockAt(node, s) \in Nat
  BY SizesAreNat, SMT DEF LoopStops, Valid
<1>2. SlotAt(s) \in Nat /\ PlaceAt(s) \in Nat
  BY SizesAreNat, SMT DEF LoopState, SlotAt, PlaceAt
<1>3. s.offset + 1 \in Nat /\ PlaceAt(s) + 1 \in Nat /\ s.buf \in Seq(Nat \X Nat)
  BY <1>2, SMT DEF LoopState
<1>4. Append(s.buf, <<BlockAt(node, s), PlaceAt(s)>>) \in Seq(Nat \X Nat)
  BY <1>1, <1>2, <1>3, AppendProperties
<1> QED
  BY <1>2, <1>3, <1>4 DEF LoopState, LoopNext

(* How many bytes of the file are still ahead. *)
Left(node, s) == IF s.offset >= node.length THEN 0 ELSE node.length - s.offset

LEMMA LeftDecreases ==
  ASSUME NEW node, Inode(node)
  PROVE  /\ \A s \in LoopState : Left(node, s) \in Nat
         /\ \A s \in LoopState :
              s.offset < node.length => Left(node, LoopNext(node, s)) < Left(node, s)
<1>1. node.length \in Nat
  BY SizesAreNat, SMT DEF Inode
<1>2. \A s \in LoopState : s.offset \in Nat /\ LoopNext(node, s).offset = s.offset + 1
  BY DEF LoopState, LoopNext
<1> QED
  BY <1>1, <1>2, SMT DEF Left

LEMMA LoopGoesOn ==
  ASSUME NEW node, Inode(node), NEW length, NEW s \in LoopState,
         ~LoopStops(node, length, s)
  PROVE  s.offset < node.length /\ Valid(BlockAt(node, s))
<1>1. s.offset \in Nat /\ node.length \in Nat
  BY SizesAreNat, SMT DEF LoopState, Inode
<1>2. ~(s.offset >= node.length) /\ Valid(BlockAt(node, s))
  BY DEF LoopStops
<1> QED
  BY <1>1, <1>2, SMT

(* The function that Loop chooses satisfies its equation. *)
LEMMA LoopEquation ==
  ASSUME NEW node, Inode(node), NEW length, NEW s \in LoopState
  PROVE  Loop(node, length)[s] =
           IF LoopStops(node, length, s) THEN LoopResult(node, length, s)
           ELSE Loop(node, length)[LoopNext(node, s)]
<1> DEFINE stop == {t \in LoopState : LoopStops(node, length, t)}
           result == [t \in LoopState |-> LoopResult(node, length, t)]
           next == [t \in LoopState |-> IF t \in stop THEN t ELSE LoopNext(node, t)]
           m == [t \in LoopState |-> Left(node, t)]
<1>1. next \in [LoopState -> LoopState]
  BY LoopNextType
<1>2. m \in [LoopState -> Nat]
  BY LeftDecreases
<1>3. \A t \in LoopState \ stop : m[next[t]] < m[t]
  <2> TAKE t \in LoopState \ stop
  <2>1. ~LoopStops(node, length, t) /\ LoopNext(node, t) \in LoopState
    BY LoopNextType
  <2>2. t.offset < node.length
    BY <2>1, LoopGoesOn
  <2>3. Left(node, LoopNext(node, t)) < Left(node, t)
    BY <2>2, LeftDecreases
  <2>4. next[t] = LoopNext(node, t)
    OBVIOUS
  <2>5. m[t] = Left(node, t) /\ m[LoopNext(node, t)] = Left(node, LoopNext(node, t))
    BY <2>1
  <2> QED
    BY <2>3, <2>4, <2>5
<1>6. PICK f : Computes(f, LoopState, stop, result, next)
  <2> HIDE DEF stop, result, next, m
  <2> QED
    BY <1>1, <1>2, <1>3, LoopExists
<1> DEFINE Body(g, t) == IF t.offset >= node.length \/ Len(t.buf) >= length
                           THEN Done(t.buf)
                         ELSE IF ~Valid(BlockAt(node, t)) THEN Error(t.buf)
                         ELSE g[LoopNext(node, t)]
<1>7. \A t \in LoopState : f[t] = Body(f, t)
  <2> TAKE t \in LoopState
  <2>1. f[t] = IF t \in stop THEN result[t] ELSE f[next[t]]
    BY <1>6 DEF Computes
  <2> QED
    BY <2>1 DEF LoopStops, LoopResult
<1>8. \E g : g = [t \in LoopState |-> Body(g, t)]
  <2>1. f = [t \in LoopState |-> Body(f, t)]
    <3> HIDE DEF Body
    <3> QED
      BY <1>6, <1>7 DEF Computes
  <2> QED
    BY <2>1
<1> DEFINE L == Loop(node, length)
<1>9. L = [t \in LoopState |-> Body(L, t)]
  BY <1>8 DEF Loop, LoopState, LoopNext, SlotAt, PlaceAt, BlockAt
<1>10. L[s] = Body(L, s)
  BY <1>9
<1> QED
  BY <1>10 DEF LoopStops, LoopResult

(* States from which the loop goes on lead to one where it stops. *)
LEMMA LoopEnds ==
  ASSUME NEW node, Inode(node), NEW length, NEW T \in SUBSET LoopState, T # {},
         \A s \in T : ~LoopStops(node, length, s) => LoopNext(node, s) \in T
  PROVE  \E s \in T : LoopStops(node, length, s)
<1> DEFINE m == [t \in LoopState |-> Left(node, t)]
<1>1. m \in [LoopState -> Nat]
  BY LeftDecreases
<1>2. PICK s \in T : \A t \in T : m[s] <= m[t]
  <2> HIDE DEF m
  <2> QED
    BY <1>1, LeastMeasure
<1> SUFFICES ASSUME ~LoopStops(node, length, s)
             PROVE  FALSE
  OBVIOUS
<1>3. LoopNext(node, s) \in T
  OBVIOUS
<1>4. s.offset < node.length
  BY LoopGoesOn
<1>5. Left(node, LoopNext(node, s)) < Left(node, s)
  BY <1>4, LeftDecreases
<1>6. Left(node, s) <= Left(node, LoopNext(node, s))
  BY <1>2, <1>3
<1>7. Left(node, s) \in Nat /\ Left(node, LoopNext(node, s)) \in Nat
  BY <1>3, LeftDecreases
<1> QED
  BY <1>5, <1>6, <1>7, SMT

ReadOK(r) == r.bytes \in Seq(Byte) /\ r.count \in {-1, Len(r.bytes)}

(* On a damaged disk too, the loop only gives bytes of the disk. *)
LEMMA LoopType ==
  ASSUME NEW node, Inode(node), NEW length, NEW s \in LoopState,
         s.place <= BlockSize, s.buf \in Seq(Byte)
  PROVE  ReadOK(Loop(node, length)[s])
<1> SUFFICES ASSUME ~ReadOK(Loop(node, length)[s])
             PROVE  FALSE
  OBVIOUS
<1> DEFINE L == Loop(node, length)
           T == {t \in LoopState : /\ t.place <= BlockSize
                                   /\ t.buf \in Seq(Byte)
                                   /\ ~ReadOK(L[t])}
<1>1. ASSUME NEW t \in T, ~LoopStops(node, length, t)
      PROVE  LoopNext(node, t) \in T
  <2>1. LoopNext(node, t) \in LoopState
    BY <1>1, LoopNextType
  <2>2. ~ReadOK(L[LoopNext(node, t)])
    BY <1>1, LoopEquation
  <2>3. t.place \in Nat /\ t.place <= BlockSize
    BY DEF LoopState
  <2>4. PlaceAt(t) \in 0 .. BlockSize - 1 /\ PlaceAt(t) + 1 <= BlockSize
    BY <2>3, SizesAreNat, SMT DEF PlaceAt
  <2>5. BlockAt(node, t) \in 0 .. DataBlocks - 1
    BY <1>1 DEF LoopStops, Valid
  <2>6. <<BlockAt(node, t), PlaceAt(t)>> \in Byte
    BY <2>4, <2>5 DEF Byte
  <2>7. Append(t.buf, <<BlockAt(node, t), PlaceAt(t)>>) \in Seq(Byte)
    BY <2>6, AppendProperties
  <2> QED
    BY <2>1, <2>2, <2>4, <2>7 DEF LoopNext
<1>2. PICK t \in T : LoopStops(node, length, t)
  <2>1. T \in SUBSET LoopState /\ s \in T
    OBVIOUS
  <2>2. \A t \in T : ~LoopStops(node, length, t) => LoopNext(node, t) \in T
    BY <1>1
  <2> HIDE DEF T
  <2> QED
    BY <2>1, <2>2, LoopEnds
<1>3. L[t] = LoopResult(node, length, t)
  BY <1>2, LoopEquation
<1>4. ReadOK(LoopResult(node, length, t))
  BY DEF ReadOK, LoopResult, Done, Error
<1> QED
  BY <1>3, <1>4

LEMMA Quotient ==
  ASSUME NEW b \in Nat, b > 0, NEW q \in Nat, NEW r \in Nat, r < b
  PROVE  (q * b + r) \div b = q /\ (q * b + r) % b = r
BY SMT

LEMMA QuotientBelow ==
  ASSUME NEW b \in Nat, b > 0, NEW n \in Nat, NEW k \in Nat, k < n * b
  PROVE  k \div b \in 0 .. n - 1 /\ k % b \in 0 .. b - 1
BY SMT

LEMMA ContentType ==
  ASSUME NEW node, Inode(node), Sound(node)
  PROVE  /\ Content(node) \in Seq(Byte)
         /\ Len(Content(node)) = node.length
         /\ node.length \in Nat
<1>1. node.length \in Nat /\ node.length <= InodeBlocks * BlockSize
  BY SizesAreNat, SMT DEF Inode
<1>2. ASSUME NEW k \in 1 .. node.length
      PROVE  Content(node)[k] \in Byte
  <2>1. k - 1 \in Nat /\ k - 1 < InodeBlocks * BlockSize
    BY <1>1, SizesAreNat, SMT
  <2>2. /\ (k - 1) \div BlockSize \in 0 .. InodeBlocks - 1
        /\ (k - 1) % BlockSize \in 0 .. BlockSize - 1
    BY <2>1, SizesAreNat, QuotientBelow
  <2> QED
    BY <2>2 DEF Content, Byte, Sound, Valid
<1>3. Content(node) \in [1 .. node.length -> Byte]
  BY <1>2 DEF Content
<1> QED
  BY <1>1, <1>3, SMT

LEMMA PlaceNormal ==
  ASSUME NEW s, s.slot \in Nat, s.place \in Nat, s.place <= BlockSize
  PROVE  /\ SlotAt(s) \in Nat /\ PlaceAt(s) \in Nat /\ PlaceAt(s) < BlockSize
         /\ SlotAt(s) * BlockSize + PlaceAt(s) = s.slot * BlockSize + s.place
<1>1. CASE s.place = BlockSize
  <2>1. (s.slot + 1) * BlockSize = s.slot * BlockSize + BlockSize
    BY SizesAreNat, SMT
  <2>2. SlotAt(s) = s.slot + 1 /\ PlaceAt(s) = 0
    BY <1>1 DEF SlotAt, PlaceAt
  <2> QED
    BY <2>1, <2>2, <1>1, SizesAreNat, SMT
<1>2. CASE s.place # BlockSize
  <2>1. SlotAt(s) = s.slot /\ PlaceAt(s) = s.place
    BY <1>2 DEF SlotAt, PlaceAt
  <2> QED
    BY <2>1, <1>2, SizesAreNat, SMT
<1> QED
  BY <1>1, <1>2

(* The loop has copied what the file holds from origin on. *)
Copied(node, origin, length, s) ==
  /\ s \in LoopState
  /\ s.place <= BlockSize
  /\ s.slot * BlockSize + s.place = s.offset
  /\ origin <= s.offset /\ s.offset <= node.length
  /\ s.offset - origin <= length
  /\ s.buf = SubSeq(Content(node), origin + 1, s.offset)

(* The next length bytes of the file, or what is left of it. *)
Piece(node, origin, length) ==
  SubSeq(Content(node), origin + 1,
         IF origin + length < node.length THEN origin + length ELSE node.length)

LEMMA SubSeqGrows ==
  ASSUME NEW S, NEW seq \in Seq(S), NEW m \in Nat, NEW n \in Nat,
         m <= n, n < Len(seq)
  PROVE  /\ Len(SubSeq(seq, m + 1, n)) = n - m
         /\ Append(SubSeq(seq, m + 1, n), seq[n + 1]) = SubSeq(seq, m + 1, n + 1)
<1> DEFINE a == SubSeq(seq, m + 1, n)
           b == SubSeq(seq, m + 1, n + 1)
<1>1. /\ a \in Seq(S) /\ Len(a) = n - m
      /\ \A k \in 1 .. n - m : a[k] = seq[m + k]
  BY SMT
<1>2. /\ b \in Seq(S) /\ Len(b) = n - m + 1
      /\ \A k \in 1 .. n - m + 1 : b[k] = seq[m + k]
  BY SMT
<1> HIDE DEF a, b
<1>3. seq[n + 1] \in S /\ Append(a, seq[n + 1]) \in Seq(S)
  BY <1>1, SMT
<1>4. Len(Append(a, seq[n + 1])) = n - m + 1
  BY <1>1, SMT
<1>5. ASSUME NEW k \in 1 .. n - m + 1
      PROVE  Append(a, seq[n + 1])[k] = b[k]
  <2>1. CASE k = n - m + 1
    <3>1. b[k] = seq[n + 1]
      BY <1>2, <2>1, SMT
    <3>2. k = Len(a) + 1
      BY <1>1, <2>1, SMT
    <3>3. Append(a, seq[n + 1])[Len(a) + 1] = seq[n + 1]
      BY <1>1, <1>3, AppendProperties
    <3> QED
      BY <3>1, <3>2, <3>3
  <2>2. CASE k # n - m + 1
    <3>1. k \in 1 .. n - m /\ k \in 1 .. Len(a)
      BY <1>1, <2>2, SMT
    <3>2. Append(a, seq[n + 1])[k] = a[k]
      BY <1>1, <1>3, <3>1, AppendProperties
    <3>3. a[k] = seq[m + k] /\ b[k] = seq[m + k]
      BY <1>1, <1>2, <3>1
    <3> QED
      BY <3>2, <3>3
  <2> QED
    BY <2>1, <2>2
<1>6. Append(a, seq[n + 1]) = b
  BY <1>2, <1>3, <1>4, <1>5, SeqEqual, SMT
<1> QED
  BY <1>1, <1>6 DEF a, b

LEMMA CopiedNext ==
  ASSUME NEW node, Inode(node), Sound(node), NEW length \in Nat, NEW origin \in Nat,
         NEW s, Copied(node, origin, length, s), ~LoopStops(node, length, s)
  PROVE  Copied(node, origin, length, LoopNext(node, s))
<1> DEFINE n == LoopNext(node, s)
           C == Content(node)
<1>1. /\ s \in LoopState /\ s.offset \in Nat /\ s.slot \in Nat /\ s.place \in Nat
      /\ s.place <= BlockSize /\ s.slot * BlockSize + s.place = s.offset
      /\ origin <= s.offset /\ s.buf = SubSeq(C, origin + 1, s.offset)
  BY DEF Copied, LoopState
<1>2. n \in LoopState /\ s.offset < node.length
  BY <1>1, LoopNextType, LoopGoesOn
<1>3. C \in Seq(Byte) /\ Len(C) = node.length /\ node.length \in Nat
  BY ContentType
<1>4. /\ SlotAt(s) \in Nat /\ PlaceAt(s) \in Nat /\ PlaceAt(s) < BlockSize
      /\ SlotAt(s) * BlockSize + PlaceAt(s) = s.offset
  BY <1>1, PlaceNormal
<1>5. s.offset \div BlockSize = SlotAt(s) /\ s.offset % BlockSize = PlaceAt(s)
  BY <1>4, SizesAreNat, Quotient
<1>6. C[s.offset + 1] = <<BlockAt(node, s), PlaceAt(s)>>
  <2>1. s.offset + 1 \in 1 .. node.length /\ (s.offset + 1) - 1 = s.offset
    BY <1>1, <1>2, <1>3, SMT
  <2> QED
    BY <2>1, <1>5 DEF Content, BlockAt
<1>7. /\ Len(s.buf) = s.offset - origin
      /\ Append(s.buf, C[s.offset + 1]) = SubSeq(C, origin + 1, s.offset + 1)
  <2> HIDE DEF C
  <2>1. s.offset < Len(C) /\ origin <= s.offset /\ s.offset \in Nat /\ C \in Seq(Byte)
    BY <1>1, <1>2, <1>3
  <2>2. /\ Len(SubSeq(C, origin + 1, s.offset)) = s.offset - origin
        /\ Append(SubSeq(C, origin + 1, s.offset), C[s.offset + 1])
             = SubSeq(C, origin + 1, s.offset + 1)
    BY <2>1, SubSeqGrows
  <2> QED
    BY <1>1, <2>2
<1>8. Len(s.buf) < length
  BY <1>1, <1>7, SMT DEF LoopStops
<1>9. /\ n.offset = s.offset + 1 /\ n.slot = SlotAt(s) /\ n.place = PlaceAt(s) + 1
      /\ n.buf = SubSeq(C, origin + 1, n.offset)
  BY <1>6, <1>7 DEF LoopNext
<1>10. /\ n.place <= BlockSize
       /\ n.slot * BlockSize + n.place = n.offset
       /\ origin <= n.offset /\ n.offset <= node.length
       /\ n.offset - origin <= length
  <2> DEFINE before == SlotAt(s) * BlockSize
  <2>1. before \in Nat /\ n.slot * BlockSize = before
    BY <1>4, <1>9, SizesAreNat, SMT
  <2>2. before + PlaceAt(s) = s.offset
    BY <1>4
  <2> HIDE DEF n, C, before
  <2>3. before + (PlaceAt(s) + 1) = s.offset + 1
    BY <2>1, <2>2, <1>4, SMT
  <2>4. PlaceAt(s) + 1 <= BlockSize
    BY <1>4, SizesAreNat, SMT
  <2>5. /\ origin <= s.offset + 1 /\ s.offset + 1 <= node.length
        /\ s.offset + 1 - origin <= length
    <3> DEFINE off == s.offset
    <3>1. /\ off \in Nat /\ origin <= off /\ off < node.length
          /\ node.length \in Nat /\ off - origin < length
      BY <1>1, <1>2, <1>3, <1>7, <1>8
    <3> HIDE DEF off
    <3>2. origin <= off + 1 /\ off + 1 <= node.length /\ off + 1 - origin <= length
      BY <3>1, SMT
    <3> QED
      BY <3>2 DEF off
  <2>6. n.offset = s.offset + 1 /\ n.place = PlaceAt(s) + 1
    BY <1>9
  <2>7. n.slot * BlockSize + n.place = n.offset
    BY <2>1, <2>3, <2>6
  <2>8. n.place <= BlockSize
    BY <2>4, <2>6
  <2>9. origin <= n.offset /\ n.offset <= node.length /\ n.offset - origin <= length
    BY <2>5, <2>6, <1>1, <1>3, SMT
  <2> QED
    BY <2>7, <2>8, <2>9
<1> QED
  BY <1>2, <1>9, <1>10 DEF Copied

(* From a file that is not damaged it gives the next bytes. *)
LEMMA LoopSound ==
  ASSUME NEW node, Inode(node), Sound(node), NEW length \in Nat, NEW origin \in Nat,
         NEW s, Copied(node, origin, length, s)
  PROVE  Loop(node, length)[s] = Done(Piece(node, origin, length))
<1> DEFINE L == Loop(node, length)
           R == Done(Piece(node, origin, length))
           T == {t \in LoopState : Copied(node, origin, length, t) /\ L[t] # R}
<1> SUFFICES ASSUME L[s] # R
             PROVE  FALSE
  OBVIOUS
<1>1. ASSUME NEW t \in T, ~LoopStops(node, length, t)
      PROVE  LoopNext(node, t) \in T
  <2>1. LoopNext(node, t) \in LoopState
    BY <1>1, LoopNextType
  <2>2. L[LoopNext(node, t)] = L[t]
    BY <1>1, LoopEquation
  <2>3. Copied(node, origin, length, LoopNext(node, t))
    BY <1>1, CopiedNext
  <2> QED
    BY <2>1, <2>2, <2>3
<1>2. PICK t \in T : LoopStops(node, length, t)
  <2>1. T \in SUBSET LoopState /\ s \in T
    BY DEF Copied
  <2>2. \A t \in T : ~LoopStops(node, length, t) => LoopNext(node, t) \in T
    BY <1>1
  <2> HIDE DEF T
  <2> QED
    BY <2>1, <2>2, LoopEnds
<1>3. Copied(node, origin, length, t) /\ L[t] = LoopResult(node, length, t)
  BY <1>2, LoopEquation
<1>4. /\ t.offset \in Nat /\ t.slot \in Nat /\ t.place \in Nat /\ t.place <= BlockSize
      /\ t.slot * BlockSize + t.place = t.offset
      /\ origin <= t.offset /\ t.offset <= node.length /\ t.offset - origin <= length
      /\ t.buf = SubSeq(Content(node), origin + 1, t.offset)
  BY <1>3 DEF Copied, LoopState
<1>5. /\ Content(node) \in Seq(Byte) /\ Len(Content(node)) = node.length
      /\ node.length \in Nat
  BY ContentType
<1>6. Len(t.buf) = t.offset - origin
  BY <1>4, <1>5, SMT
<1>7. t.offset >= node.length \/ Len(t.buf) >= length
  <2> SUFFICES ASSUME t.offset < node.length
               PROVE  Len(t.buf) >= length
    BY <1>4, <1>5, SMT
  <2>1. /\ SlotAt(t) \in Nat /\ PlaceAt(t) \in Nat /\ PlaceAt(t) < BlockSize
        /\ SlotAt(t) * BlockSize + PlaceAt(t) = t.offset
    BY <1>4, PlaceNormal
  <2>2. SlotAt(t) = t.offset \div BlockSize
    BY <2>1, SizesAreNat, Quotient
  <2>3. t.offset < InodeBlocks * BlockSize
    <3> DEFINE capacity == InodeBlocks * BlockSize
    <3>1. capacity \in Nat /\ node.length \in 0 .. capacity
      BY SizesAreNat, SMT DEF Inode
    <3> HIDE DEF capacity
    <3>2. t.offset < capacity
      BY <3>1, <1>4, SMT
    <3> QED
      BY <3>2 DEF capacity
  <2>4. SlotAt(t) \in 0 .. InodeBlocks - 1
    BY <2>2, <2>3, <1>4, SizesAreNat, QuotientBelow
  <2>5. Valid(BlockAt(node, t))
    BY <2>4 DEF Sound, BlockAt
  <2> QED
    BY <2>5, <1>2, <1>4, <1>5, SMT DEF LoopStops
<1>8. t.offset = IF origin + length < node.length THEN origin + length ELSE node.length
  <2> HIDE DEF T, L, R
  <2>1. /\ t.offset \in Nat /\ origin <= t.offset /\ t.offset <= node.length
        /\ t.offset - origin <= length /\ Len(t.buf) = t.offset - origin
        /\ node.length \in Nat
    BY <1>4, <1>5, <1>6
  <2> QED
    BY <2>1, <1>7, SMT
<1>9. L[t] = Done(t.buf)
  BY <1>3, <1>7 DEF LoopResult
<1> QED
  BY <1>2, <1>4, <1>8, <1>9 DEF Piece

-----------------------------------------------------------------------------
(* read_data and copy_program_image *)

LoopStart(offset) ==
  [offset |-> offset, slot |-> offset \div BlockSize,
   place |-> offset % BlockSize, buf |-> <<>>]

LEMMA LoopStartType ==
  ASSUME NEW offset \in Nat
  PROVE  /\ LoopStart(offset) \in LoopState
         /\ offset \div BlockSize \in Nat
         /\ offset % BlockSize \in 0 .. BlockSize - 1
         /\ (offset \div BlockSize) * BlockSize + (offset % BlockSize) = offset
<1>1. /\ offset \div BlockSize \in Nat /\ offset % BlockSize \in 0 .. BlockSize - 1
      /\ (offset \div BlockSize) * BlockSize + (offset % BlockSize) = offset
  BY SizesAreNat, SMT
<1>2. <<>> \in Seq(Nat \X Nat) /\ offset % BlockSize \in Nat
  BY <1>1, SizesAreNat, SMT
<1> QED
  BY <1>1, <1>2 DEF LoopStart, LoopState

(* What a read finds is on the disk, and it finds something only before    *)
(* the end of the file.                                                    *)
LEMMA ReadDataType ==
  ASSUME NEW node, Inode(node), NEW offset \in Nat, NEW length
  PROVE  LET r == ReadData(node, offset, length) IN
         /\ ReadOK(r)
         /\ r.count \notin {-1, 0} => offset < node.length
<1> DEFINE slot == offset \div BlockSize
           r == ReadData(node, offset, length)
           s == LoopStart(offset)
<1>1. \/ r = Done(<<>>) \/ r = Error(<<>>) \/ r = Loop(node, length)[s]
  BY DEF ReadData, LoopStart
<1>2. ReadOK(Done(<<>>)) /\ ReadOK(Error(<<>>))
  BY DEF ReadOK, Done, Error
<1>3. ReadOK(Loop(node, length)[s])
  <2>1. s \in LoopState /\ s.place <= BlockSize
    BY LoopStartType, SizesAreNat, SMT DEF LoopStart
  <2>2. s.buf \in Seq(Byte)
    BY DEF LoopStart
  <2> QED
    BY <2>1, <2>2, LoopType
<1>4. ASSUME r.count \notin {-1, 0}
      PROVE  offset < node.length
  <2>1. Done(<<>>).count = 0 /\ Error(<<>>).count = -1
    BY DEF Done, Error
  <2>2. Loop(node, length)[s].count # 0
    BY <1>1, <1>4, <2>1
  <2>3. s \in LoopState /\ s.offset = offset /\ s.buf = <<>> /\ node.length \in Nat
    BY LoopStartType, SizesAreNat, SMT DEF LoopStart, Inode
  <2>4. CASE s.offset >= node.length
    <3>1. Loop(node, length)[s] = Done(<<>>)
      BY <2>3, <2>4, LoopEquation DEF LoopStops, LoopResult
    <3> QED
      BY <3>1, <2>1, <2>2
  <2> QED
    BY <2>3, <2>4, SMT
<1> QED
  BY <1>1, <1>2, <1>3, <1>4

LEMMA EmptySubSeq ==
  ASSUME NEW S, NEW seq \in Seq(S), NEW m \in Nat, NEW n \in Nat, n <= m
  PROVE  SubSeq(seq, m + 1, n) = <<>>
BY SMT

(* A read of a file that is not damaged finds its next bytes. *)
LEMMA ReadDataSound ==
  ASSUME NEW node, Inode(node), Sound(node), NEW offset \in Nat, NEW length \in Nat
  PROVE  ReadData(node, offset, length) = Done(Piece(node, offset, length))
<1> DEFINE slot == offset \div BlockSize
           s == LoopStart(offset)
<1>1. /\ Content(node) \in Seq(Byte) /\ Len(Content(node)) = node.length
      /\ node.length \in Nat
  BY ContentType
<1>2. /\ s \in LoopState /\ slot \in Nat
      /\ slot * BlockSize + (offset % BlockSize) = offset
      /\ offset % BlockSize \in 0 .. BlockSize - 1
  BY LoopStartType
<1>3. ASSUME node.length <= offset
      PROVE  Piece(node, offset, length) = <<>>
  <2>1. (IF offset + length < node.length THEN offset + length ELSE node.length)
          = node.length
    BY <1>1, <1>3, SMT
  <2> QED
    BY <1>1, <1>3, <2>1, EmptySubSeq DEF Piece
<1>4. CASE slot >= InodeBlocks
  <2>1. node.length <= offset
    <3>1. InodeBlocks * BlockSize <= slot * BlockSize
      BY <1>2, <1>4, SizesAreNat, SMT
    <3> DEFINE capacity == InodeBlocks * BlockSize
               before == slot * BlockSize
    <3>2. capacity \in Nat /\ before \in Nat /\ node.length \in 0 .. capacity
      BY <1>2, SizesAreNat, SMT DEF Inode
    <3>3. before <= offset
      BY <1>2, <3>2, SizesAreNat, SMT
    <3> HIDE DEF capacity, before
    <3> QED
      BY <3>1, <3>2, <3>3, <1>1, SMT DEF capacity, before
  <2>2. ReadData(node, offset, length) = Done(<<>>)
    BY <1>4 DEF ReadData
  <2> QED
    BY <2>1, <2>2, <1>3
<1>5. CASE ~(slot >= InodeBlocks)
  <2>1. slot \in 0 .. InodeBlocks - 1
    BY <1>2, <1>5, SizesAreNat, SMT
  <2>2. Valid(node.data_block_num[slot])
    BY <2>1 DEF Sound
  <2>3. ReadData(node, offset, length) = Loop(node, length)[s]
    BY <2>2, <1>5 DEF ReadData, LoopStart
  <2>4. CASE node.length <= offset
    <3>1. s.offset >= node.length /\ s.buf = <<>>
      BY <2>4, <1>1, SMT DEF LoopStart
    <3>2. Loop(node, length)[s] = Done(<<>>)
      BY <3>1, <1>2, LoopEquation DEF LoopStops, LoopResult
    <3> QED
      BY <3>2, <2>3, <2>4, <1>3
  <2>5. CASE offset < node.length
    <3>1. /\ s.offset = offset /\ s.slot = slot /\ s.place = offset % BlockSize
          /\ s.buf = <<>>
      BY DEF LoopStart
    <3>2. SubSeq(Content(node), offset + 1, offset) = <<>>
      BY <1>1, EmptySubSeq
    <3>3. offset % BlockSize <= BlockSize /\ offset - offset <= length /\ offset <= offset
      BY <1>2, SizesAreNat, SMT
    <3>4. offset <= node.length
      BY <2>5, <1>1, SMT
    <3>5. Copied(node, offset, length, s)
      <4> HIDE DEF s, slot
      <4> QED
        BY <1>2, <3>1, <3>2, <3>3, <3>4 DEF Copied
    <3> QED
      BY <3>5, <2>3, LoopSound
  <2> QED
    BY <2>4, <2>5, <1>1, SMT
<1> QED
  BY <1>4, <1>5

Ahead(node, image) == IF Len(image) >= node.length THEN 0 ELSE node.length - Len(image)
Chunk(node, image) == ReadData(node, Len(image), ChunkSize)

LoadBody(load, node, image) ==
  LET r == ReadData(node, Len(image), ChunkSize) IN
  IF r.count = -1 THEN Error(image)
  ELSE IF r.count = 0 THEN Done(image)
  ELSE load[image \o r.bytes]

LEMMA ByteSequences == \A s \in Seq(Byte) : s \in Seq(Nat \X Nat)
<1>1. Byte \subseteq Nat \X Nat
  BY SizesAreNat, SMT DEF Byte
<1> QED
  BY <1>1, SMT

(* A chunk that is not empty brings the end of the file nearer. *)
LEMMA ChunkType ==
  ASSUME NEW node, Inode(node), NEW image \in Seq(Nat \X Nat)
  PROVE  /\ ReadOK(Chunk(node, image))
         /\ Ahead(node, image) \in Nat
         /\ Chunk(node, image).count \notin {-1, 0} =>
              /\ image \o Chunk(node, image).bytes \in Seq(Nat \X Nat)
              /\ Ahead(node, image \o Chunk(node, image).bytes) < Ahead(node, image)
<1> DEFINE r == Chunk(node, image)
<1>1. Len(image) \in Nat /\ node.length \in Nat
  BY SizesAreNat, SMT DEF Inode
<1>2. ReadOK(r) /\ (r.count \notin {-1, 0} => Len(image) < node.length)
  BY <1>1, ReadDataType DEF Chunk
<1>3. r.bytes \in Seq(Nat \X Nat) /\ r.count \in {-1, Len(r.bytes)}
  BY <1>2, ByteSequences DEF ReadOK
<1> HIDE DEF r
<1>4. /\ image \o r.bytes \in Seq(Nat \X Nat)
      /\ Len(image \o r.bytes) = Len(image) + Len(r.bytes)
  BY <1>3, ConcatProperties
<1>5. ASSUME r.count \notin {-1, 0}
      PROVE  Ahead(node, image \o r.bytes) < Ahead(node, image)
  <2>1. Len(r.bytes) \in Nat /\ Len(r.bytes) # 0 /\ Len(image) < node.length
    BY <1>2, <1>3, <1>5, SMT
  <2> QED
    BY <2>1, <1>1, <1>4, SMT DEF Ahead
<1>6. Ahead(node, image) \in Nat
  BY <1>1, SMT DEF Ahead
<1> QED
  BY <1>2, <1>4, <1>5, <1>6 DEF r

LEMMA LoadExists ==
  ASSUME NEW node, Inode(node)
  PROVE  \E f : f = [image \in Seq(Nat \X Nat) |-> LoadBody(f, node, image)]
<1> DEFINE D == Seq(Nat \X Nat)
           stop == {i \in D : Chunk(node, i).count \in {-1, 0}}
           result == [i \in D |-> IF Chunk(node, i).count = -1 THEN Error(i)
                                                              ELSE Done(i)]
           next == [i \in D |-> IF i \in stop THEN i ELSE i \o Chunk(node, i).bytes]
           m == [i \in D |-> Ahead(node, i)]
<1>1. next \in [D -> D]
  <2>1. \A i \in D : i \notin stop => i \o Chunk(node, i).bytes \in D
    BY ChunkType
  <2> QED
    BY <2>1
<1>2. m \in [D -> Nat]
  BY ChunkType
<1>3. \A i \in D \ stop : m[next[i]] < m[i]
  <2> TAKE i \in D \ stop
  <2>1. Chunk(node, i).count \notin {-1, 0}
    OBVIOUS
  <2>2. /\ i \o Chunk(node, i).bytes \in D
        /\ Ahead(node, i \o Chunk(node, i).bytes) < Ahead(node, i)
    BY <2>1, ChunkType
  <2>3. next[i] = i \o Chunk(node, i).bytes
    OBVIOUS
  <2> QED
    BY <2>2, <2>3
<1>4. PICK f : Computes(f, D, stop, result, next)
  <2> HIDE DEF D, stop, result, next, m
  <2> QED
    BY <1>1, <1>2, <1>3, LoopExists
<1>5. \A i \in D : f[i] = LoadBody(f, node, i)
  <2> TAKE i \in D
  <2>1. f[i] = IF i \in stop THEN result[i] ELSE f[next[i]]
    BY <1>4 DEF Computes
  <2>2. CASE Chunk(node, i).count \in {-1, 0}
    BY <2>1, <2>2 DEF LoadBody, Chunk
  <2>3. CASE Chunk(node, i).count \notin {-1, 0}
    BY <2>1, <2>3 DEF LoadBody, Chunk
  <2> QED
    BY <2>2, <2>3
<1>6. f = [i \in D |-> LoadBody(f, node, i)]
  BY <1>4, <1>5 DEF Computes
<1> QED
  BY <1>6

LEMMA LoadEquation ==
  ASSUME NEW node, Inode(node)
  PROVE  \E load : /\ CopyProgramImage(node) = load[<<>>]
                   /\ \A i \in Seq(Nat \X Nat) :
                        load[i] = IF Chunk(node, i).count = -1 THEN Error(i)
                                  ELSE IF Chunk(node, i).count = 0 THEN Done(i)
                                  ELSE load[i \o Chunk(node, i).bytes]
<1> DEFINE L == CHOOSE f : f = [image \in Seq(Nat \X Nat) |-> LoadBody(f, node, image)]
<1>1. CopyProgramImage(node) = L[<<>>]
  BY DEF CopyProgramImage, LoadBody
<1>2. L = [image \in Seq(Nat \X Nat) |-> LoadBody(L, node, image)]
  BY LoadExists
<1> HIDE DEF L
<1>3. \A i \in Seq(Nat \X Nat) : L[i] = LoadBody(L, node, i)
  BY <1>2
<1> QED
  BY <1>1, <1>3 DEF LoadBody, Chunk

LEMMA LoadEnds ==
  ASSUME NEW node, Inode(node), NEW T \in SUBSET Seq(Nat \X Nat), T # {},
         \A i \in T : Chunk(node, i).count \notin {-1, 0} =>
                        i \o Chunk(node, i).bytes \in T
  PROVE  \E i \in T : Chunk(node, i).count \in {-1, 0}
<1> DEFINE D == Seq(Nat \X Nat)
           m == [i \in D |-> Ahead(node, i)]
<1>1. m \in [D -> Nat]
  BY ChunkType
<1>2. PICK i \in T : \A j \in T : m[i] <= m[j]
  <2>1. T \in SUBSET D
    OBVIOUS
  <2> HIDE DEF m, D
  <2> QED
    BY <1>1, <2>1, LeastMeasure
<1> SUFFICES ASSUME Chunk(node, i).count \notin {-1, 0}
             PROVE  FALSE
  OBVIOUS
<1> DEFINE j == i \o Chunk(node, i).bytes
<1>3. j \in T /\ i \in D /\ j \in D
  OBVIOUS
<1>4. Ahead(node, j) < Ahead(node, i)
  BY <1>3, ChunkType
<1>5. Ahead(node, i) <= Ahead(node, j)
  <2> HIDE DEF j
  <2> QED
    BY <1>2, <1>3
<1>6. Ahead(node, i) \in Nat /\ Ahead(node, j) \in Nat
  BY <1>3, ChunkType
<1> QED
  BY <1>4, <1>5, <1>6, SMT

(* Whatever the inode says, what is loaded comes from the disk. *)
LEMMA CopyType ==
  ASSUME NEW node, Inode(node)
  PROVE  ReadOK(CopyProgramImage(node))
<1> SUFFICES ASSUME ~ReadOK(CopyProgramImage(node))
             PROVE  FALSE
  OBVIOUS
<1>1. PICK load : /\ CopyProgramImage(node) = load[<<>>]
                  /\ \A i \in Seq(Nat \X Nat) :
                       load[i] = IF Chunk(node, i).count = -1 THEN Error(i)
                                 ELSE IF Chunk(node, i).count = 0 THEN Done(i)
                                 ELSE load[i \o Chunk(node, i).bytes]
  BY LoadEquation
<1> DEFINE T == {i \in Seq(Nat \X Nat) : i \in Seq(Byte) /\ ~ReadOK(load[i])}
<1>2. ASSUME NEW i \in T, Chunk(node, i).count \notin {-1, 0}
      PROVE  i \o Chunk(node, i).bytes \in T
  <2> DEFINE j == i \o Chunk(node, i).bytes
  <2>1. Chunk(node, i).bytes \in Seq(Byte) /\ j \in Seq(Nat \X Nat)
    BY <1>2, ChunkType DEF ReadOK
  <2>2. j \in Seq(Byte)
    BY <2>1, ConcatProperties
  <2>3. load[j] = load[i]
    BY <1>1, <1>2
  <2> QED
    BY <2>1, <2>2, <2>3
<1>3. PICK i \in T : Chunk(node, i).count \in {-1, 0}
  <2>1. T \in SUBSET Seq(Nat \X Nat) /\ <<>> \in T
    BY <1>1
  <2>2. \A i \in T : Chunk(node, i).count \notin {-1, 0} =>
                       i \o Chunk(node, i).bytes \in T
    BY <1>2
  <2> HIDE DEF T
  <2> QED
    BY <2>1, <2>2, LoadEnds
<1>4. load[i] = Error(i) \/ load[i] = Done(i)
  BY <1>1, <1>3
<1> QED
  BY <1>3, <1>4 DEF ReadOK, Done, Error

LEMMA SubSeqJoins ==
  ASSUME NEW S, NEW seq \in Seq(S), NEW m \in Nat, NEW n \in Nat,
         m <= n, n <= Len(seq)
  PROVE  /\ SubSeq(seq, 1, m) \o SubSeq(seq, m + 1, n) = SubSeq(seq, 1, n)
         /\ Len(SubSeq(seq, m + 1, n)) = n - m
<1> DEFINE a == SubSeq(seq, 1, m)
           b == SubSeq(seq, m + 1, n)
           c == SubSeq(seq, 1, n)
<1>1. a \in Seq(S) /\ Len(a) = m /\ \A k \in 1 .. m : a[k] = seq[k]
  BY SMT
<1>2. b \in Seq(S) /\ Len(b) = n - m /\ \A k \in 1 .. n - m : b[k] = seq[m + k]
  BY SMT
<1>3. c \in Seq(S) /\ Len(c) = n /\ \A k \in 1 .. n : c[k] = seq[k]
  BY SMT
<1> HIDE DEF a, b, c
<1>4. /\ a \o b \in Seq(S) /\ Len(a \o b) = n
      /\ \A k \in 1 .. n : (a \o b)[k] = IF k <= m THEN a[k] ELSE b[k - m]
  <2>1. /\ a \o b \in Seq(S) /\ Len(a \o b) = Len(a) + Len(b)
        /\ \A k \in 1 .. Len(a) + Len(b) :
             (a \o b)[k] = IF k <= Len(a) THEN a[k] ELSE b[k - Len(a)]
    BY <1>1, <1>2, ConcatProperties
  <2>2. Len(a) + Len(b) = n
    BY <1>1, <1>2, SMT
  <2> QED
    BY <2>1, <2>2, <1>1
<1>5. ASSUME NEW k \in 1 .. n
      PROVE  (a \o b)[k] = c[k]
  <2>1. CASE k <= m
    BY <1>1, <1>3, <1>4, <2>1, SMT
  <2>2. CASE ~(k <= m)
    <3>1. k - m \in 1 .. n - m /\ m + (k - m) = k
      BY <2>2, SMT
    <3> QED
      BY <1>2, <1>3, <1>4, <2>2, <3>1
  <2> QED
    BY <2>1, <2>2
<1>6. a \o b = c
  BY <1>3, <1>4, <1>5, SeqEqual, SMT
<1> QED
  BY <1>2, <1>6 DEF a, b, c

(* The image of a program that is not damaged is the whole program. *)
LEMMA CopySound ==
  ASSUME NEW node, Inode(node), Sound(node)
  PROVE  CopyProgramImage(node) = Done(Content(node))
<1> DEFINE C == Content(node)
<1> SUFFICES ASSUME CopyProgramImage(node) # Done(C)
             PROVE  FALSE
  OBVIOUS
<1>1. PICK load : /\ CopyProgramImage(node) = load[<<>>]
                  /\ \A i \in Seq(Nat \X Nat) :
                       load[i] = IF Chunk(node, i).count = -1 THEN Error(i)
                                 ELSE IF Chunk(node, i).count = 0 THEN Done(i)
                                 ELSE load[i \o Chunk(node, i).bytes]
  BY LoadEquation
<1>2. C \in Seq(Byte) /\ Len(C) = node.length /\ node.length \in Nat
  BY ContentType
<1> DEFINE Begins(i) ==
             i \in Seq(Byte) /\ Len(i) <= node.length /\ i = SubSeq(C, 1, Len(i))
           end(i) == IF Len(i) + ChunkSize < node.length THEN Len(i) + ChunkSize
                                                         ELSE node.length
           T == {i \in Seq(Nat \X Nat) : Begins(i) /\ load[i] # Done(C)}
<1> HIDE DEF C
<1>3. ASSUME NEW i, Begins(i)
      PROVE  /\ Chunk(node, i) = Done(SubSeq(C, Len(i) + 1, end(i)))
             /\ Len(i) \in Nat /\ end(i) \in Nat
             /\ Len(i) <= end(i) /\ end(i) <= node.length
             /\ end(i) = Len(i) => Len(i) = node.length
             /\ Len(SubSeq(C, Len(i) + 1, end(i))) = end(i) - Len(i)
             /\ i \o SubSeq(C, Len(i) + 1, end(i)) = SubSeq(C, 1, end(i))
  <2>1. Len(i) \in Nat /\ ChunkSize \in Nat
    BY <1>3, SizesAreNat
  <2>2. Chunk(node, i) = Done(SubSeq(C, Len(i) + 1, end(i)))
    BY <2>1, ReadDataSound DEF Chunk, Piece, C
  <2>3. /\ end(i) \in Nat /\ Len(i) <= end(i) /\ end(i) <= node.length
        /\ (end(i) = Len(i) => Len(i) = node.length)
    <3>1. Len(i) <= node.length /\ node.length \in Nat /\ ChunkSize > 0
      BY <1>2, <1>3, SizesAreNat
    <3> HIDE DEF Begins, T
    <3> QED
      BY <2>1, <3>1, SMT
  <2> HIDE DEF end
  <2>4. /\ SubSeq(C, 1, Len(i)) \o SubSeq(C, Len(i) + 1, end(i)) = SubSeq(C, 1, end(i))
        /\ Len(SubSeq(C, Len(i) + 1, end(i))) = end(i) - Len(i)
    BY <2>1, <2>3, <1>2, SubSeqJoins
  <2> QED
    BY <2>1, <2>2, <2>3, <2>4, <1>3
<1>4. ASSUME NEW i \in T, Chunk(node, i).count \notin {-1, 0}
      PROVE  i \o Chunk(node, i).bytes \in T
  <2> DEFINE j == i \o Chunk(node, i).bytes
  <2>1. j \in Seq(Nat \X Nat) /\ load[j] = load[i]
    BY <1>1, <1>4, ChunkType
  <2>2. Begins(i)
    OBVIOUS
  <2>3. j = SubSeq(C, 1, end(i)) /\ end(i) \in Nat /\ end(i) <= node.length
    <3> HIDE DEF Begins, end, T
    <3>1. /\ Chunk(node, i) = Done(SubSeq(C, Len(i) + 1, end(i)))
          /\ i \o SubSeq(C, Len(i) + 1, end(i)) = SubSeq(C, 1, end(i))
          /\ end(i) \in Nat /\ end(i) <= node.length
      BY <2>2, <1>3
    <3>2. Chunk(node, i).bytes = SubSeq(C, Len(i) + 1, end(i))
      BY <3>1 DEF Done
    <3> QED
      BY <3>1, <3>2
  <2> HIDE DEF end, j
  <2>4. j \in Seq(Byte) /\ Len(j) = end(i)
    BY <2>3, <1>2, SMT
  <2>5. Begins(j)
    BY <2>3, <2>4
  <2> QED
    BY <2>1, <2>5 DEF j
<1>5. PICK i \in T : Chunk(node, i).count \in {-1, 0}
  <2>1. <<>> \in T
    <3>1. <<>> = SubSeq(C, 1, 0)
      BY <1>2, SMT
    <3>2. Begins(<<>>)
      BY <3>1, <1>2, SMT
    <3> QED
      BY <3>2, <1>1
  <2>2. \A i \in T : Chunk(node, i).count \notin {-1, 0} =>
                       i \o Chunk(node, i).bytes \in T
    BY <1>4
  <2>3. T \in SUBSET Seq(Nat \X Nat)
    OBVIOUS
  <2> HIDE DEF T
  <2> QED
    BY <2>1, <2>2, <2>3, LoadEnds
<1>6. Begins(i) /\ i \in Seq(Nat \X Nat) /\ load[i] # Done(C)
  OBVIOUS
<1>7. Chunk(node, i).count = end(i) - Len(i)
  <2> HIDE DEF Begins, end, T
  <2>1. /\ Chunk(node, i) = Done(SubSeq(C, Len(i) + 1, end(i)))
        /\ Len(SubSeq(C, Len(i) + 1, end(i))) = end(i) - Len(i)
    BY <1>3, <1>6
  <2>2. Chunk(node, i).count = Len(SubSeq(C, Len(i) + 1, end(i)))
    <3>1. \A bytes : Done(bytes).count = Len(bytes)
      BY DEF Done
    <3> QED
      BY <2>1, <3>1
  <2> QED
    BY <2>1, <2>2
<1>8. Len(i) = node.length /\ Chunk(node, i).count = 0
  <2>1. /\ Len(i) \in Nat /\ end(i) \in Nat /\ Len(i) <= end(i)
        /\ (end(i) = Len(i) => Len(i) = node.length)
    BY <1>3, <1>6
  <2> HIDE DEF end, T
  <2> QED
    BY <2>1, <1>5, <1>7, SMT
<1>9. load[i] = Done(i)
  BY <1>1, <1>6, <1>8
<1>10. i = C
  <2>1. SubSeq(C, 1, Len(C)) = C
    BY <1>2, SMT
  <2> QED
    BY <2>1, <1>2, <1>6, <1>8
<1> QED
  BY <1>6, <1>9, <1>10

-----------------------------------------------------------------------------
(* The invariant.  inode never changes; that it is one of the images is    *)
(* what makes its reads those of the lemmas above.                         *)
OnDisk == inode \in Images

FilesInv == OnDisk /\ TypeOK /\ LoadsProgram

LEMMA InodesOnDisk ==
  ASSUME OnDisk
  PROVE  /\ \A n \in DOMAIN inode : Inode(inode[n])
         /\ 0 \in DOMAIN inode
         /\ \A k \in DOMAIN Directory : Directory[k].inode_num \in DOMAIN inode
BY ImageAssumption DEF OnDisk

LEMMA LookupFinds ==
  ASSUME NEW name, \E k \in DOMAIN Directory : Directory[k].filename = name
  PROVE  \E k \in DOMAIN Directory :
           Lookup(name) = Directory[k] /\ Directory[k].filename = name
<1> DEFINE hit == {k \in DOMAIN Directory : Directory[k].filename = name}
<1>1. hit \in SUBSET Nat /\ hit # {}
  BY ImageAssumption, SMT
<1>2. \E k \in hit : \A j \in hit : k <= j
  <2> HIDE DEF hit
  <2> QED
    BY <1>1, Least
<1>3. (CHOOSE k \in hit : \A j \in hit : k <= j) \in hit
  <2> HIDE DEF hit
  <2> QED
    BY <1>2
<1> QED
  BY <1>3 DEF Lookup

LEMMA LookupType ==
  ASSUME NEW name, Known(name)
  PROVE  /\ Lookup(name).filetype \in 0 .. 2
         /\ Lookup(name).inode_num \in {Directory[k].inode_num : k \in DOMAIN Directory}
<1>1. PICK k \in DOMAIN Directory : Lookup(name) = Directory[k]
  BY LookupFinds DEF Known
<1> QED
  BY <1>1, ImageAssumption

(* What every call but execute and halt leaves as it is. *)
Calm ==
  /\ UNCHANGED <<inode, running, memory, program, mapped>>
  /\ fdarray' \in [Process -> [Fd -> Descriptor]]
  /\ DOMAIN args' = Process /\ DOMAIN reply' = Process
  /\ \A p \in Process \ {running} :
       fdarray'[p] = fdarray[p] /\ args'[p] = args[p] /\ reply'[p] = reply[p]

LEMMA FailIsCalm ==
  ASSUME TypeOK
  PROVE  /\ \A call : Fail(call) => Calm
         /\ \A call, value, data : OnlyReturn(call, value, data) => Calm
BY DEF TypeOK, Fail, OnlyReturn, Return, Calm

LEMMA SetIsCalm ==
  ASSUME TypeOK, NEW fd \in Fd, NEW entry \in Descriptor, SetsDescriptor(fd, entry),
         NEW call, NEW value, NEW data, Return(call, value, data)
  PROVE  Calm
<1>1. running \in Process /\ fdarray \in [Process -> [Fd -> Descriptor]]
  BY DEF TypeOK
<1>2. fdarray' = [fdarray EXCEPT ![running][fd] = entry]
  BY DEF SetsDescriptor
<1>3. fdarray' \in [Process -> [Fd -> Descriptor]]
  BY <1>1, <1>2
<1> QED
  BY <1>3 DEF TypeOK, SetsDescriptor, Return, Calm

LEMMA OpenIsCalm ==
  ASSUME TypeOK, NEW name, Open(name)
  PROVE  Calm
<1>1. CASE \E call : Fail(call)
  BY <1>1, FailIsCalm
<1>2. CASE ~\E call : Fail(call)
  <2>1. PICK fd \in Fd :
          /\ Known(name)
          /\ SetsDescriptor(fd, [flags |-> 1, fops |-> Fops(Lookup(name).filetype),
                                 inode_num |-> Lookup(name).inode_num,
                                 file_pos |-> 0])
          /\ Return(<<"open", name>>, fd, <<>>)
    BY <1>2 DEF Open
  <2>2. /\ Lookup(name).filetype \in 0 .. 2
        /\ Lookup(name).inode_num \in {Directory[k].inode_num : k \in DOMAIN Directory}
    BY <2>1, LookupType
  <2>3. Fops(Lookup(name).filetype) \in {"rtc_fops", "dir_fops", "file_fops"}
    BY <2>2, SMT DEF Fops
  <2>4. 0 \in 0 .. Width - 1
    BY SizesAreNat, SMT
  <2>5. [flags |-> 1, fops |-> Fops(Lookup(name).filetype),
         inode_num |-> Lookup(name).inode_num, file_pos |-> 0] \in Descriptor
    BY <2>2, <2>3, <2>4 DEF Descriptor
  <2> QED
    BY <2>1, <2>5, SetIsCalm
<1> QED
  BY <1>1, <1>2

LEMMA EntryType ==
  ASSUME TypeOK, NEW fd \in Fd
  PROVE  Entry(fd) \in Descriptor
BY DEF TypeOK, Entry

LEMMA FileReadIsCalm ==
  ASSUME TypeOK, OnDisk, NEW fd \in Fd, NEW nbytes, FileRead(fd, nbytes)
  PROVE  Calm
<1> DEFINE f == Entry(fd)
           r == ReadData(inode[f.inode_num], f.file_pos, nbytes)
           new == [f EXCEPT !.file_pos = (@ + r.count) % Width]
<1>1. f \in Descriptor
  BY EntryType
<1>2. f.inode_num \in DOMAIN inode
  BY <1>1, InodesOnDisk DEF Descriptor
<1>3. f.file_pos \in Nat
  BY <1>1, SizesAreNat, SMT DEF Descriptor
<1>4. ReadOK(r)
  BY <1>2, <1>3, InodesOnDisk, ReadDataType
<1>5. r.count \in Int
  BY <1>4, SMT DEF ReadOK
<1>6. (f.file_pos + r.count) % Width \in 0 .. Width - 1
  <2> HIDE DEF f, r
  <2> QED
    BY <1>3, <1>5, SizesAreNat, SMT
<1>7. new \in Descriptor
  <2> HIDE DEF f, r
  <2> QED
    BY <1>1, <1>6 DEF Descriptor
<1>8. SetsDescriptor(fd, new) /\ Return(<<"read", fd, nbytes>>, r.count, r.bytes)
  BY DEF FileRead
<1> HIDE DEF new, r
<1> QED
  BY <1>7, <1>8, SetIsCalm

LEMMA DirectoryReadIsCalm ==
  ASSUME TypeOK, NEW fd \in Fd, NEW nbytes, DirectoryRead(fd, nbytes)
  PROVE  Calm
<1> DEFINE f == Entry(fd)
           k == f.file_pos + 1
           new == [f EXCEPT !.file_pos = k]
<1>1. f \in Descriptor
  BY EntryType
<1>2. CASE k \in DOMAIN Directory
  <2>1. k \in 0 .. Width - 1
    BY <1>2, ImageAssumption, FileAssumption, SMT
  <2>2. new \in Descriptor
    <3> HIDE DEF k, f
    <3> QED
      BY <1>1, <2>1 DEF Descriptor
  <2>3. SetsDescriptor(fd, new) /\ \E call, value, data : Return(call, value, data)
    BY <1>2 DEF DirectoryRead
  <2> HIDE DEF new
  <2> QED
    BY <2>2, <2>3, SetIsCalm
<1>3. CASE k \notin DOMAIN Directory
  <2>1. OnlyReturn(<<"read", fd, nbytes>>, 0, <<>>)
    BY <1>3 DEF DirectoryRead
  <2> QED
    BY <2>1, FailIsCalm
<1> QED
  BY <1>2, <1>3

LEMMA ReadIsCalm ==
  ASSUME TypeOK, OnDisk, NEW fd, NEW nbytes, Read(fd, nbytes)
  PROVE  Calm
<1>1. CASE Fail(<<"read", fd, nbytes>>)
  BY <1>1, FailIsCalm
<1>2. CASE ~Fail(<<"read", fd, nbytes>>)
  <2>1. /\ fd \in Fd
        /\ FileRead(fd, nbytes) \/ DirectoryRead(fd, nbytes) \/ RtcRead(fd, nbytes)
    BY <1>2 DEF Read, Active
  <2>2. RtcRead(fd, nbytes) => Calm
    BY FailIsCalm DEF RtcRead
  <2> QED
    BY <2>1, <2>2, FileReadIsCalm, DirectoryReadIsCalm
<1> QED
  BY <1>1, <1>2

LEMMA CloseIsCalm ==
  ASSUME TypeOK, NEW fd, Close(fd)
  PROVE  Calm
<1>1. CASE ~Active(fd)
  BY <1>1, FailIsCalm DEF Close
<1>2. CASE Active(fd)
  <2>1. fd \in Fd /\ Entry(fd) \in Descriptor
    BY <1>2, EntryType DEF Active
  <2>2. [Entry(fd) EXCEPT !.flags = 0] \in Descriptor
    BY <2>1 DEF Descriptor
  <2>3. /\ SetsDescriptor(fd, [Entry(fd) EXCEPT !.flags = 0])
        /\ Return(<<"close", fd>>, 0, <<>>)
    BY <1>2 DEF Close
  <2> QED
    BY <2>1, <2>2, <2>3, SetIsCalm
<1> QED
  BY <1>1, <1>2

(* All of these calls together. *)
LEMMA CallsAreCalm ==
  ASSUME TypeOK, OnDisk
  PROVE  /\ \A name : Open(name) => Calm
         /\ \A fd, n : Read(fd, n) => Calm
         /\ \A fd, n : Write(fd, n) => Calm
         /\ \A fd : Close(fd) => Calm
         /\ \A line : ReadLine(line) => Calm
         /\ \A inside : Vidmap(inside) => Calm
         /\ \A n : GetArgs(n) => Calm
         /\ Refused => Calm
         /\ HaltBase => Calm
         /\ UNCHANGED vars => Calm
<1>1. \A name : Open(name) => Calm
  BY OpenIsCalm
<1>2. \A fd, n : Read(fd, n) => Calm
  BY ReadIsCalm
<1>3. \A fd, n : Write(fd, n) => Calm
  BY FailIsCalm DEF Write
<1>4. \A fd : Close(fd) => Calm
  BY CloseIsCalm
<1>5. \A line : ReadLine(line) => Calm
  BY FailIsCalm DEF ReadLine
<1>6. \A inside : Vidmap(inside) => Calm
  BY FailIsCalm DEF Vidmap
<1>7. \A n : GetArgs(n) => Calm
  <2> TAKE n
  <2>1. CASE Fail(<<"other">>)
    BY <2>1, FailIsCalm
  <2>2. CASE ~Fail(<<"other">>)
    BY <2>2 DEF GetArgs, Return, Calm, TypeOK
  <2> QED
    BY <2>1, <2>2
<1>8. Refused => Calm
  BY FailIsCalm DEF Refused
<1>9. UNCHANGED vars => Calm
  BY DEF vars, Calm, TypeOK
<1>10. HaltBase => Calm
  BY <1>9 DEF HaltBase
<1> QED
  BY <1>1, <1>2, <1>3, <1>4, <1>5, <1>6, <1>7, <1>8, <1>9, <1>10

LEMMA CalmStep ==
  ASSUME FilesInv, Calm
  PROVE  FilesInv'
BY DEF FilesInv, Calm, OnDisk, TypeOK, LoadsProgram

LEMMA FreshType ==
  ASSUME NEW descriptors \in [Fd -> Descriptor]
  PROVE  Fresh(descriptors) \in [Fd -> Descriptor]
<1>1. \A fd \in Fd : [descriptors[fd] EXCEPT !.flags = 0] \in Descriptor
  BY DEF Descriptor
<1> QED
  BY <1>1 DEF Fresh

LEMMA ExecuteStep ==
  ASSUME FilesInv, NEW command, Execute(command)
  PROVE  FilesInv'
<1> DEFINE c == Parse(command)
           new == running + 1
           number == Lookup(c.name).inode_num
           node == inode[number]
           image == CopyProgramImage(node)
<1>1. TypeOK /\ OnDisk /\ LoadsProgram
  BY DEF FilesInv
<1>2. CASE Fail(<<"execute">>)
  BY <1>2, <1>1, FailIsCalm, CalmStep
<1>3. CASE ~Fail(<<"execute">>)
  <2>1. /\ new \in Process /\ Known(c.name)
        /\ fdarray' = [fdarray EXCEPT ![new] = Fresh(@)]
        /\ memory' = [memory EXCEPT ![new] = image.bytes]
        /\ program' = [program EXCEPT ![new] = number]
        /\ mapped' = new
        /\ IF image.count = -1
             THEN /\ args' = [args EXCEPT ![new] = <<>>]
                  /\ Return(<<"execute">>, -1, <<>>)
                  /\ UNCHANGED running
             ELSE /\ args' = [args EXCEPT ![new] = c.arguments]
                  /\ Return(<<"execute">>, 0, <<>>)
                  /\ running' = new
        /\ UNCHANGED inode
    BY <1>3 DEF Execute
  <2>2. number \in DOMAIN inode /\ Inode(node)
    BY <2>1, <1>1, LookupType, InodesOnDisk
  <2> HIDE DEF c, number
  <2>3. image.bytes \in Seq(Byte)
    BY <2>2, CopyType DEF ReadOK
  <2>4. Sound(node) => image.bytes = Content(node) /\ image.count # -1
    <3> SUFFICES ASSUME Sound(node)
                 PROVE  image.bytes = Content(node) /\ image.count # -1
      OBVIOUS
    <3>1. image = Done(Content(node))
      BY <2>2, CopySound
    <3>2. Len(Content(node)) \in Nat
      BY <2>2, ContentType
    <3> QED
      BY <3>1, <3>2, SMT DEF Done
  <2> HIDE DEF image, node
  <2>5. running \in Process /\ running' \in Process
    BY <1>1, <2>1 DEF TypeOK
  <2>6. Fresh(fdarray[new]) \in [Fd -> Descriptor]
    BY <1>1, <2>1, FreshType DEF TypeOK
  <2>7. TypeOK'
    <3>1. fdarray' \in [Process -> [Fd -> Descriptor]]
      BY <1>1, <2>1, <2>6 DEF TypeOK
    <3>2. memory' \in [Process -> Seq(Byte)]
      BY <1>1, <2>1, <2>3 DEF TypeOK
    <3>3. program' \in [Process -> DOMAIN inode']
      BY <1>1, <2>1, <2>2 DEF TypeOK
    <3>4. DOMAIN args' = Process /\ DOMAIN reply' = Process
      BY <1>1, <2>1 DEF TypeOK, Return
    <3> QED
      BY <3>1, <3>2, <3>3, <3>4, <2>1, <2>5 DEF TypeOK
  <2>8. LoadsProgram'
    <3> SUFFICES ASSUME \A k \in DOMAIN inode : Sound(inode[k])
                 PROVE  /\ mapped' = running'
                        /\ \A p \in 0 .. running' : memory'[p] = Content(inode[program'[p]])
      BY <2>1 DEF LoadsProgram
    <3>1. image.bytes = Content(node) /\ running' = new /\ mapped' = new
      BY <2>1, <2>2, <2>4 DEF node
    <3>2. \A p \in 0 .. running : memory[p] = Content(inode[program[p]]) /\ p # new
      BY <1>1, <2>5, SizesAreNat, SMT DEF LoadsProgram, Process
    <3>3. ASSUME NEW p \in 0 .. new
          PROVE  memory'[p] = Content(inode[program'[p]])
      <4>1. CASE p = new
        BY <4>1, <3>1, <2>1, <1>1 DEF TypeOK, node
      <4>2. CASE p # new
        <5>1. p \in 0 .. running /\ p \in Process
          BY <4>2, <2>1, <2>5, SizesAreNat, SMT DEF Process
        <5> QED
          BY <5>1, <3>2, <2>1, <4>2, <1>1 DEF TypeOK
      <4> QED
        BY <4>1, <4>2
    <3> QED
      BY <3>1, <3>3
  <2>9. OnDisk'
    BY <1>1, <2>1 DEF OnDisk
  <2> QED
    BY <2>7, <2>8, <2>9 DEF FilesInv
<1> QED
  BY <1>2, <1>3

LEMMA HaltStep ==
  ASSUME FilesInv, NEW status, Halt(status)
  PROVE  FilesInv'
<1>1. TypeOK /\ OnDisk /\ LoadsProgram
  BY DEF FilesInv
<1>2. /\ running \in Process /\ running > 0
      /\ running' = running - 1 /\ mapped' = running - 1
      /\ fdarray' = [fdarray EXCEPT ![running] = Fresh(@)]
      /\ memory' = [memory EXCEPT ![running] = <<>>]
      /\ program' = [program EXCEPT ![running] = 0]
      /\ UNCHANGED inode
      /\ DOMAIN args' = DOMAIN args /\ DOMAIN reply' = DOMAIN reply
  BY <1>1 DEF Halt, TypeOK
<1>3. running - 1 \in Process
  BY <1>2, SizesAreNat, SMT DEF Process
<1>4. TypeOK'
  <2>1. Fresh(fdarray[running]) \in [Fd -> Descriptor]
    BY <1>1, FreshType DEF TypeOK
  <2>2. fdarray' \in [Process -> [Fd -> Descriptor]]
    BY <1>1, <1>2, <2>1 DEF TypeOK
  <2>3. memory' \in [Process -> Seq(Byte)]
    BY <1>1, <1>2 DEF TypeOK
  <2>4. program' \in [Process -> DOMAIN inode']
    BY <1>1, <1>2, InodesOnDisk DEF TypeOK
  <2> QED
    BY <1>1, <1>2, <1>3, <2>2, <2>3, <2>4 DEF TypeOK
<1>5. LoadsProgram'
  <2> SUFFICES ASSUME \A k \in DOMAIN inode : Sound(inode[k]),
                      NEW p \in 0 .. running - 1
               PROVE  memory'[p] = Content(inode[program'[p]])
    BY <1>2 DEF LoadsProgram
  <2>1. p \in 0 .. running /\ p # running /\ p \in Process
    BY <1>2, SizesAreNat, SMT DEF Process
  <2>2. memory'[p] = memory[p] /\ program'[p] = program[p]
    BY <1>1, <1>2, <2>1 DEF TypeOK
  <2> QED
    BY <2>1, <2>2, <1>1 DEF LoadsProgram
<1> QED
  BY <1>1, <1>2, <1>4, <1>5 DEF FilesInv, OnDisk

(* Every step of every program is one of the calls. *)
OneCall ==
  \/ Calm
  \/ \E command : Execute(command)
  \/ \E status : Halt(status)

LEMMA SessionCalls ==
  ASSUME TypeOK, OnDisk, NextSession
  PROVE  OneCall
<1>1. /\ \A name : Open(name) => OneCall
      /\ \A fd, n : Read(fd, n) => OneCall
      /\ \A fd, n : Write(fd, n) => OneCall
      /\ \A fd : Close(fd) => OneCall
      /\ \A line : ReadLine(line) => OneCall
      /\ \A inside : Vidmap(inside) => OneCall
      /\ \A n : GetArgs(n) => OneCall
      /\ Refused => OneCall
      /\ HaltBase => OneCall
      /\ UNCHANGED vars => OneCall
  BY CallsAreCalm DEF OneCall
<1>2. \A pieces, status : Quit(pieces, status) => OneCall
  BY DEF Quit, OneCall
<1>3. \A command, label : Run(command, label) => OneCall
  BY DEF Run, OneCall
<1>4. AnyProgram => OneCall
  BY <1>1, <1>2, <1>3 DEF AnyProgram
<1>5. Shell => OneCall
  BY <1>1, <1>2, <1>3 DEF Shell, Prompt, Obey, Report
<1>6. Cat \/ Ls => OneCall
  BY <1>1, <1>2 DEF Cat, Ls
<1>7. Grep => OneCall
  BY <1>1, <1>2 DEF Grep, GrepScan
<1>8. SysErr => OneCall
  BY <1>1, <1>2 DEF SysErr, Perform
<1>9. Hello \/ Counter \/ SigTest => OneCall
  BY <1>1, <1>2 DEF Hello, Counter, SigTest
<1>10. Fish => OneCall
  BY <1>1, <1>2 DEF Fish, FishOpens, FishReads, FishDraws, FishCloses, FishBlinks
<1>11. CallFailed => OneCall
  BY <1>2 DEF CallFailed
<1> QED
  BY <1>4, <1>5, <1>6, <1>7, <1>8, <1>9, <1>10, <1>11 DEF NextSession

LEMMA FilesStep == FilesInv /\ [NextSession]_<<vars, session>> => FilesInv'
<1> SUFFICES ASSUME FilesInv, [NextSession]_<<vars, session>>
             PROVE  FilesInv'
  OBVIOUS
<1>1. TypeOK /\ OnDisk
  BY DEF FilesInv
<1>2. CASE NextSession
  BY <1>1, <1>2, SessionCalls, CalmStep, ExecuteStep, HaltStep DEF OneCall
<1>3. CASE UNCHANGED <<vars, session>>
  BY <1>1, <1>3, CallsAreCalm, CalmStep
<1> QED
  BY <1>2, <1>3

LEMMA FilesInit == Init => FilesInv
<1> SUFFICES ASSUME Init
             PROVE  FilesInv
  OBVIOUS
<1> DEFINE number == Lookup(ShellName).inode_num
           image == CopyProgramImage(inode[program[0]])
<1>1. OnDisk
  BY DEF Init, OnDisk
<1>2. number \in DOMAIN inode
  BY <1>1, ImageAssumption, LookupFinds, InodesOnDisk
<1>3. 0 \in Process /\ running = 0 /\ mapped = 0 /\ 0 .. 0 = {0}
  <2>1. 0 \in Process /\ 0 .. 0 = {0}
    BY SizesAreNat, SMT DEF Process
  <2> QED
    BY <2>1 DEF Init
<1>4. program \in [Process -> DOMAIN inode] /\ program[0] = number
  BY <1>1, <1>2, <1>3, InodesOnDisk DEF Init
<1>5. Inode(inode[program[0]])
  BY <1>1, <1>2, <1>4, InodesOnDisk
<1>6. memory = [p \in Process |-> IF p = 0 THEN image.bytes ELSE <<>>]
  BY DEF Init
<1>7. image.bytes \in Seq(Byte)
  BY <1>5, CopyType DEF ReadOK
<1>8. Sound(inode[program[0]]) => image.bytes = Content(inode[program[0]])
  BY <1>5, CopySound DEF Done
<1> HIDE DEF image
<1>9. TypeOK
  <2>1. Unused \in Descriptor
    <3>1. 0 \in 0 .. Width - 1
      BY SizesAreNat, SMT
    <3> QED
      BY <3>1 DEF Unused, Descriptor
  <2>2. fdarray \in [Process -> [Fd -> Descriptor]]
    BY <2>1 DEF Init
  <2>3. memory \in [Process -> Seq(Byte)]
    BY <1>6, <1>7
  <2>4. DOMAIN args = Process /\ DOMAIN reply = Process
    BY DEF Init
  <2> QED
    BY <1>3, <1>4, <2>2, <2>3, <2>4 DEF TypeOK
<1>10. LoadsProgram
  <2> SUFFICES ASSUME \A k \in DOMAIN inode : Sound(inode[k])
               PROVE  memory[0] = Content(inode[program[0]])
    BY <1>3 DEF LoadsProgram
  <2> QED
    BY <1>2, <1>3, <1>4, <1>6, <1>8
<1> QED
  BY <1>1, <1>9, <1>10 DEF FilesInv

LEMMA FilesInvariant == SpecSession => []FilesInv
<1>1. InitSession => FilesInv
  BY FilesInit DEF InitSession
<1> QED
  BY <1>1, FilesStep, PTL DEF SpecSession

(* Whatever programs run and whatever they call, on whatever disk: every   *)
(* descriptor is one that open made, every file position keeps to its      *)
(* width, also when a damaged file has moved it back, and what is loaded   *)
(* comes from the disk.                                                    *)
THEOREM TypeCorrect == SpecSession => []TypeOK
<1>1. FilesInv => TypeOK
  BY DEF FilesInv
<1> QED
  BY <1>1, FilesInvariant, PTL

(* Chunk by chunk and block by block, execute loads the whole program and  *)
(* nothing else, and halt returns to the caller's image.                   *)
THEOREM ProgramsLoaded == SpecSession => []LoadsProgram
<1>1. FilesInv => LoadsProgram
  BY DEF FilesInv
<1> QED
  BY <1>1, FilesInvariant, PTL
=============================================================================
