----------------------------- MODULE ShareProofs -----------------------------
(***************************************************************************)
(* What the parsers read from what the serializers wrote, whole or cut      *)
(* short, for every vault; and from it the safety invariants of             *)
(* ShareFormats.                                                            *)
(***************************************************************************)
EXTENDS ShareFormats, Integers, FiniteSetTheorems, SequenceTheorems,
        WellFoundedInduction, TLAPS

----------------------------------------------------------------------------
(* Sets of places: least and greatest elements, and induction over a set    *)

LEMMA Least ==
  ASSUME NEW n \in Nat, NEW P \in SUBSET (0 .. n), P # {}
  PROVE  \E i \in P : \A j \in P : i <= j
<1> DEFINE T == {0 .. i : i \in P}
           R == StrictSubsetOrdering(0 .. n)
           S == FiniteSubsetsOf(0 .. n)
<1>1. IsWellFoundedOn(R, S)
  BY FS_StrictSubsetOrderingWellFounded
<1>2. T \subseteq S /\ T # {}
  <2>1. ASSUME NEW i \in P PROVE IsFiniteSet(0 .. i) /\ 0 .. i \subseteq 0 .. n
    BY FS_Interval
  <2> QED
    BY <2>1 DEF FiniteSubsetsOf
<1> HIDE DEF R, S, T
<1>3. PICK x \in T : \A y \in T : ~ (<<y, x>> \in R)
  BY <1>1, <1>2, WFMin
<1>4. PICK i \in P : x = 0 .. i
  BY <1>3 DEF T
<1>5. ASSUME NEW j \in P, j < i PROVE FALSE
  <2>1. 0 .. j \in T /\ 0 .. j \subseteq 0 .. i /\ i \in 0 .. i /\ i \notin 0 .. j
    BY <1>5 DEF T
  <2>2. 0 .. j \in SUBSET (0 .. n) /\ 0 .. i \in SUBSET (0 .. n)
    OBVIOUS
  <2>3. <<0 .. j, 0 .. i>> \in R
    BY <2>1, <2>2 DEF R, StrictSubsetOrdering
  <2> QED
    BY <1>3, <1>4, <2>1, <2>3
<1> QED
  BY <1>5

LEMMA Greatest ==
  ASSUME NEW n \in Nat, NEW P \in SUBSET (0 .. n), P # {}
  PROVE  Max(P) \in P /\ \A j \in P : Max(P) >= j
<1> DEFINE Q == {n - i : i \in P}
<1>1. Q \in SUBSET (0 .. n) /\ Q # {}
  <2>1. \A i \in P : i \in 0 .. n /\ n - i \in 0 .. n
    OBVIOUS
  <2> QED
    BY <2>1
<1> HIDE DEF Q
<1>2. PICK q \in Q : \A j \in Q : q <= j
  BY <1>1, Least
<1>3. PICK i \in P : q = n - i
  BY <1>2 DEF Q
<1>4. ASSUME NEW j \in P PROVE i >= j
  <2>1. n - j \in Q
    BY DEF Q
  <2> QED
    BY <2>1, <1>2, <1>3
<1> QED
  BY <1>4 DEF Max

\* What holds of 0 and passes from each number to the next holds up to n.
LEMMA Induction ==
  ASSUME NEW n \in Nat, NEW P, 0 \in P,
         \A i \in 0 .. n - 1 : i \in P => i + 1 \in P
  PROVE  \A i \in 0 .. n : i \in P
<1> DEFINE Q == (0 .. n) \ P
<1> SUFFICES ASSUME Q # {} PROVE FALSE
  OBVIOUS
<1>1. PICK i \in Q : \A j \in Q : i <= j
  BY Least
<1>2. i \in 1 .. n
  BY <1>1
<1>3. i - 1 \in P
  BY <1>1, <1>2
<1> QED
  BY <1>1, <1>2, <1>3

----------------------------------------------------------------------------
(* A document made of blocks *)

LEMMA ConcatParts ==
  ASSUME NEW T, NEW s \in Seq(T), NEW t \in Seq(T)
  PROVE  /\ s \o t \in Seq(T)
         /\ Len(s) \in Nat /\ Len(t) \in Nat
         /\ Len(s \o t) = Len(s) + Len(t)
         /\ \A i \in 1 .. Len(s) : (s \o t)[i] = s[i]
         /\ \A i \in 1 .. Len(t) : (s \o t)[Len(s) + i] = t[i]
  OBVIOUS

\* Block k of the document begins behind place begin[k - 1].
Layout(doc, blocks, begin) ==
  /\ begin \in [0 .. Len(blocks) -> 0 .. Len(doc)]
  /\ begin[0] = 0
  /\ begin[Len(blocks)] = Len(doc)
  /\ \A k \in 1 .. Len(blocks) :
       /\ begin[k] = begin[k - 1] + Len(blocks[k])
       /\ \A i \in 1 .. Len(blocks[k]) : doc[begin[k - 1] + i] = blocks[k][i]

LEMMA LayoutExtend ==
  ASSUME NEW T, NEW doc \in Seq(T), NEW blocks \in Seq(Seq(T)), NEW b \in Seq(T),
         NEW begin, Layout(doc, blocks, begin)
  PROVE  \E more : Layout(doc \o b, Append(blocks, b), more)
<1> DEFINE n == Len(blocks)
           all == Append(blocks, b)
           whole == doc \o b
           more == [k \in 0 .. n + 1 |-> IF k <= n THEN begin[k] ELSE Len(doc) + Len(b)]
<1>1. /\ n \in Nat /\ Len(all) = n + 1 /\ all[n + 1] = b
      /\ \A k \in 1 .. n : all[k] = blocks[k] /\ Len(blocks[k]) \in Nat
  OBVIOUS
<1>2. /\ Len(doc) \in Nat /\ Len(b) \in Nat /\ Len(whole) = Len(doc) + Len(b)
      /\ \A i \in 1 .. Len(doc) : whole[i] = doc[i]
      /\ \A i \in 1 .. Len(b) : whole[Len(doc) + i] = b[i]
  BY ConcatParts
<1>3. /\ begin \in [0 .. n -> 0 .. Len(doc)]
      /\ begin[0] = 0
      /\ begin[n] = Len(doc)
      /\ \A k \in 1 .. n :
           /\ begin[k] = begin[k - 1] + Len(blocks[k])
           /\ \A i \in 1 .. Len(blocks[k]) : doc[begin[k - 1] + i] = blocks[k][i]
  BY DEF Layout
<1> HIDE DEF n, all, whole
<1>4. more \in [0 .. n + 1 -> 0 .. Len(whole)] /\ more[0] = 0 /\ more[n + 1] = Len(whole)
  BY <1>1, <1>2, <1>3
<1>5. /\ more[n + 1] = Len(doc) + Len(b) /\ \A k \in 0 .. n : more[k] = begin[k]
  BY <1>1
<1> HIDE DEF more
<1>6. ASSUME NEW k \in 1 .. n + 1
      PROVE  /\ more[k] = more[k - 1] + Len(all[k])
             /\ \A i \in 1 .. Len(all[k]) : whole[more[k - 1] + i] = all[k][i]
  <2>1. CASE k = n + 1
    <3>1. more[k - 1] = Len(doc) /\ all[k] = b
      BY <1>1, <1>3, <1>5, <2>1
    <3> QED
      BY <1>2, <1>5, <2>1, <3>1
  <2>2. CASE k \in 1 .. n
    <3>0. k \in 0 .. n /\ k - 1 \in 0 .. n
      BY <1>1, <2>2
    <3>a. more[k] = begin[k] /\ more[k - 1] = begin[k - 1]
      BY <1>5, <3>0
    <3>b. all[k] = blocks[k] /\ Len(blocks[k]) \in Nat
      BY <1>1, <2>2
    <3>c. begin[k] \in 0 .. Len(doc) /\ begin[k - 1] \in 0 .. Len(doc)
      BY <1>3, <3>0
    <3>d. begin[k] = begin[k - 1] + Len(blocks[k])
      BY <1>3, <2>2
    <3>1. /\ more[k] = begin[k] /\ more[k - 1] = begin[k - 1] /\ all[k] = blocks[k]
          /\ begin[k] \in 0 .. Len(doc) /\ begin[k - 1] \in 0 .. Len(doc)
          /\ begin[k] = begin[k - 1] + Len(blocks[k])
          /\ Len(blocks[k]) \in Nat
      BY <3>a, <3>b, <3>c, <3>d
    <3>2. ASSUME NEW i \in 1 .. Len(blocks[k])
          PROVE  whole[begin[k - 1] + i] = blocks[k][i]
      <4> DEFINE p == begin[k - 1]
                 l == Len(blocks[k])
                 d == Len(doc)
      <4>a. p \in 0 .. d /\ p + l \in 0 .. d /\ l \in Nat /\ d \in Nat /\ i \in 1 .. l
        BY <1>2, <3>1
      <4>b. doc[p + i] = blocks[k][i]
        BY <1>3, <2>2
      <4>c. \A j \in 1 .. d : whole[j] = doc[j]
        BY <1>2
      <4> HIDE DEF p, l, d
      <4>1. p + i \in 1 .. d
        BY <4>a
      <4>2. whole[p + i] = blocks[k][i]
        BY <4>b, <4>c, <4>1
      <4> QED
        BY <4>2 DEF p
    <3> QED
      BY <3>1, <3>2
  <2> QED
    BY <1>1, <2>1, <2>2
<1>7. Layout(whole, all, more)
  BY <1>1, <1>4, <1>6 DEF Layout
<1> QED
  BY <1>7 DEF whole, all

\* FlattenSeq is a recursive function: here is one that satisfies its equation.
LEMMA FlattenExists ==
  ASSUME NEW seqs, NEW n \in Nat
  PROVE  \E flatten : flatten = [i \in 1 .. n |->
           IF i = 1 THEN seqs[i] ELSE flatten[i - 1] \o seqs[i]]
<1> DEFINE Upto(m) == \E f : f = [i \in 1 .. m |-> IF i = 1 THEN seqs[i] ELSE f[i - 1] \o seqs[i]]
<1>1. Upto(0)
  <2> DEFINE f == [i \in 1 .. 0 |-> i]
  <2>1. f = [i \in 1 .. 0 |-> IF i = 1 THEN seqs[i] ELSE f[i - 1] \o seqs[i]]
    OBVIOUS
  <2> HIDE DEF f
  <2> QED
    BY <2>1
<1>2. ASSUME NEW m \in 0 .. n - 1, Upto(m) PROVE Upto(m + 1)
  <2>1. PICK f : f = [i \in 1 .. m |-> IF i = 1 THEN seqs[i] ELSE f[i - 1] \o seqs[i]]
    BY <1>2
  <2> DEFINE last == IF m = 0 THEN seqs[1] ELSE f[m] \o seqs[m + 1]
             g == [i \in 1 .. m + 1 |-> IF i <= m THEN f[i] ELSE last]
  <2>2. ASSUME NEW i \in 1 .. m + 1
        PROVE  g[i] = IF i = 1 THEN seqs[i] ELSE g[i - 1] \o seqs[i]
    <3>1. CASE i <= m
      <4>1. i \in 1 .. m /\ g[i] = f[i] /\ (i > 1 => g[i - 1] = f[i - 1])
        BY <3>1
      <4>2. f[i] = IF i = 1 THEN seqs[i] ELSE f[i - 1] \o seqs[i]
        BY <2>1, <4>1
      <4> QED
        BY <4>1, <4>2
    <3>2. CASE i = m + 1
      BY <3>2
    <3> QED
      BY <3>1, <3>2
  <2> HIDE DEF g
  <2>3. g = [i \in 1 .. m + 1 |-> IF i = 1 THEN seqs[i] ELSE g[i - 1] \o seqs[i]]
    BY <2>2 DEF g
  <2> QED
    BY <2>3
<1> HIDE DEF Upto
<1> DEFINE P == {m \in 0 .. n : Upto(m)}
<1>3. \A m \in 0 .. n : m \in P
  <2>1. 0 \in P /\ \A m \in 0 .. n - 1 : m \in P => m + 1 \in P
    BY <1>1, <1>2
  <2> HIDE DEF P
  <2> QED
    BY <2>1, Induction
<1>4. Upto(n)
  BY <1>3
<1> QED
  BY <1>4 DEF Upto

\* A sequence that is made of others is laid out block by block.
LEMMA FlattenLayout ==
  ASSUME NEW T, NEW blocks \in Seq(Seq(T))
  PROVE  /\ FlattenSeq(blocks) \in Seq(T)
         /\ \E begin : Layout(FlattenSeq(blocks), blocks, begin)
<1> DEFINE n == Len(blocks)
<1>0. n \in Nat /\ \A k \in 1 .. n : blocks[k] \in Seq(T) /\ Len(blocks[k]) \in Nat
  OBVIOUS
<1>1. CASE n = 0
  <2>1. blocks = <<>> /\ FlattenSeq(blocks) = <<>>
    BY <1>1 DEF FlattenSeq
  <2> DEFINE begin == [k \in 0 .. 0 |-> 0]
  <2>2. Layout(<<>>, <<>>, begin)
    BY DEF Layout
  <2> QED
    BY <2>1, <2>2
<1>2. CASE n # 0
  <2> DEFINE F(g) == [i \in 1 .. n |-> IF i = 1 THEN blocks[i] ELSE g[i - 1] \o blocks[i]]
             flat == CHOOSE g : g = F(g)
  <2>1. \E g : g = F(g)
    BY <1>0, FlattenExists, Zenon
  <2>2. flat = F(flat)
    BY <2>1, Zenon
  <2>3. FlattenSeq(blocks) = flat[n]
    BY <1>2 DEF FlattenSeq
  <2> HIDE DEF flat
  <2>4. /\ flat[1] = blocks[1]
        /\ \A i \in 1 .. n - 1 : flat[i + 1] = flat[i] \o blocks[i + 1]
    <3>1. \A i \in 1 .. n : flat[i] = IF i = 1 THEN blocks[i] ELSE flat[i - 1] \o blocks[i]
      BY <2>2
    <3> HIDE DEF F
    <3>2. 1 \in 1 .. n /\ \A i \in 1 .. n - 1 : i + 1 \in 1 .. n /\ i + 1 # 1 /\ (i + 1) - 1 = i
      BY <1>0, <1>2
    <3> QED
      BY <3>1, <3>2
  <2> HIDE DEF F
  <2> DEFINE Upto(m) == SubSeq(blocks, 1, m)
             Laid(m) == flat[m] \in Seq(T) /\ \E begin : Layout(flat[m], Upto(m), begin)
  <2>5. Laid(1)
    <3>1. Upto(1) = Append(<<>>, blocks[1]) /\ blocks[1] \in Seq(T)
      <4>1. blocks[1] \in Seq(T) /\ Append(<<>>, blocks[1]) = <<blocks[1]>>
        BY <1>0, <1>2
      <4>2. SubSeq(blocks, 1, 1) = <<blocks[1]>>
        <5>1. SubSeq(blocks, 1, 1) = <<blocks[1]>> \o SubSeq(blocks, 2, 1)
          BY <1>0, <1>2, SubSeqRecursiveFirst
        <5>2. SubSeq(blocks, 2, 1) = <<>>
          BY SubSeqEmpty
        <5>3. <<blocks[1]>> \in Seq(Seq(T))
          BY <4>1
        <5>4. <<blocks[1]>> \o <<>> = <<blocks[1]>>
          BY <5>3, ConcatEmptySeq
        <5> QED
          BY <5>1, <5>2, <5>4
      <4> QED
        BY <4>1, <4>2
    <3> DEFINE begin == [k \in 0 .. 0 |-> 0]
    <3>2. Layout(<<>>, <<>>, begin)
      BY DEF Layout
    <3> HIDE DEF begin
    <3>3. \E more : Layout(<<>> \o blocks[1], Append(<<>>, blocks[1]), more)
      <4>1. <<>> \in Seq(T) /\ <<>> \in Seq(Seq(T))
        OBVIOUS
      <4> QED
        BY <3>1, <3>2, <4>1, LayoutExtend
    <3>4. <<>> \o blocks[1] = flat[1] /\ flat[1] \in Seq(T)
      BY <3>1, <2>4
    <3> QED
      BY <3>1, <3>3, <3>4
  <2>6. ASSUME NEW m \in 1 .. n - 1, Laid(m) PROVE Laid(m + 1)
    <3>1. PICK begin : Layout(flat[m], Upto(m), begin)
      BY <2>6
    <3>2. /\ Upto(m + 1) = Append(Upto(m), blocks[m + 1])
          /\ Upto(m) \in Seq(Seq(T)) /\ blocks[m + 1] \in Seq(T)
      BY <1>0
    <3> HIDE DEF Upto
    <3>3. \E more : Layout(flat[m] \o blocks[m + 1], Append(Upto(m), blocks[m + 1]), more)
      BY <2>6, <3>1, <3>2, LayoutExtend
    <3>4. flat[m + 1] = flat[m] \o blocks[m + 1]
      BY <2>4
    <3>5. flat[m + 1] \in Seq(T)
      BY <2>6, <3>2, <3>4
    <3> QED
      BY <3>2, <3>3, <3>4, <3>5
  <2> HIDE DEF Laid
  <2> DEFINE P == {m \in 0 .. n : m = 0 \/ Laid(m)}
  <2>7. 0 \in P /\ \A m \in 0 .. n - 1 : m \in P => m + 1 \in P
    BY <1>0, <2>5, <2>6
  <2>8. n \in P
    <3> HIDE DEF P
    <3>1. \A m \in 0 .. n : m \in P
      BY <1>0, <2>7, Induction
    <3> QED
      BY <1>0, <3>1
  <2>9. Laid(n)
    BY <1>2, <2>8
  <2>10. Upto(n) = blocks
    BY <1>0
  <2> QED
    BY <2>3, <2>9, <2>10 DEF Laid
<1> QED
  BY <1>1, <1>2

\* The blocks follow each other, and every place of the document is in one.
LEMMA LayoutOrdered ==
  ASSUME NEW T, NEW doc \in Seq(T), NEW blocks \in Seq(Seq(T)), NEW begin,
         Layout(doc, blocks, begin)
  PROVE  \A l \in 0 .. Len(blocks) : \A k \in 0 .. l : begin[k] <= begin[l]
<1> DEFINE n == Len(blocks)
           P == {l \in 0 .. n : \A k \in 0 .. l : begin[k] <= begin[l]}
<1>1. n \in Nat /\ \A k \in 1 .. n : Len(blocks[k]) \in Nat
  OBVIOUS
<1>2. begin \in [0 .. n -> 0 .. Len(doc)] /\ \A k \in 1 .. n : begin[k] = begin[k - 1] + Len(blocks[k])
  BY DEF Layout
<1> HIDE DEF n
<1>3. 0 \in P
  BY <1>1, <1>2
<1>4. ASSUME NEW l \in 0 .. n - 1, l \in P PROVE l + 1 \in P
  <2>1. begin[l + 1] = begin[l] + Len(blocks[l + 1]) /\ Len(blocks[l + 1]) \in Nat
    BY <1>1, <1>2
  <2>2. begin[l] <= begin[l + 1] /\ begin[l] \in Nat /\ begin[l + 1] \in Nat
    BY <1>1, <1>2, <2>1
  <2>3. ASSUME NEW k \in 0 .. l + 1 PROVE begin[k] <= begin[l + 1]
    <3>1. CASE k = l + 1
      BY <2>2, <3>1
    <3>2. CASE k \in 0 .. l
      BY <1>1, <1>2, <1>4, <2>2, <3>2
    <3> QED
      BY <1>1, <3>1, <3>2
  <2> QED
    BY <1>1, <2>3
<1> HIDE DEF P
<1>5. \A l \in 0 .. n : l \in P
  BY <1>1, <1>3, <1>4, Induction
<1> QED
  BY <1>5 DEF P, n

LEMMA LayoutPlace ==
  ASSUME NEW T, NEW doc \in Seq(T), NEW blocks \in Seq(Seq(T)), NEW begin,
         Layout(doc, blocks, begin)
  PROVE  \A p \in 1 .. Len(doc) :
           \E k \in 1 .. Len(blocks) : p > begin[k - 1] /\ p <= begin[k]
<1> SUFFICES ASSUME NEW p \in 1 .. Len(doc)
             PROVE  \E k \in 1 .. Len(blocks) : p > begin[k - 1] /\ p <= begin[k]
  OBVIOUS
<1> DEFINE n == Len(blocks)
           Q == {k \in 0 .. n : p <= begin[k]}
<1>1. n \in Nat /\ Len(doc) \in Nat /\ \A k \in 1 .. n : Len(blocks[k]) \in Nat
  OBVIOUS
<1>2. /\ begin \in [0 .. n -> 0 .. Len(doc)] /\ begin[0] = 0 /\ begin[n] = Len(doc)
      /\ \A k \in 1 .. n :
           /\ begin[k] = begin[k - 1] + Len(blocks[k])
           /\ \A i \in 1 .. Len(blocks[k]) : doc[begin[k - 1] + i] = blocks[k][i]
  BY DEF Layout
<1> HIDE DEF n
<1>3. Q \in SUBSET (0 .. n) /\ n \in Q
  BY <1>1, <1>2
<1>4. PICK k \in Q : \A j \in Q : k <= j
  <2> HIDE DEF Q
  <2> QED
    BY <1>1, <1>3, Least
<1>5. k \in 1 .. n
  BY <1>1, <1>2, <1>4
<1>6. k - 1 \notin Q
  <2> HIDE DEF Q
  <2> QED
    BY <1>1, <1>4, <1>5
<1>7. begin[k - 1] \in Nat /\ begin[k - 1] < p /\ p <= begin[k] /\ begin[k] \in Nat
  BY <1>1, <1>2, <1>4, <1>5, <1>6
<1> QED
  BY <1>5, <1>7 DEF n

\* v is what the document has behind place o.
At(doc, o, v) == \A i \in 1 .. Len(v) : doc[o + i] = v[i]

LEMMA AtChar ==
  ASSUME NEW T, NEW s \in Seq(T), NEW w, At(w, 0, s), NEW i \in 1 .. Len(s)
  PROVE  w[i] = s[i]
<1>1. 0 + i = i
  OBVIOUS
<1> QED
  BY <1>1 DEF At



LEMMA JoinOne ==
  ASSUME NEW T, NEW s \in Seq(T), NEW p \in T
  PROVE  /\ s \o <<p>> \in Seq(T)
         /\ Len(s \o <<p>>) = Len(s) + 1
         /\ At(s \o <<p>>, 0, s)
         /\ (s \o <<p>>)[Len(s) + 1] = p
<1>1. s \o <<p>> \in Seq(T)
  OBVIOUS
<1>2. Len(s \o <<p>>) = Len(s) + 1
  OBVIOUS
<1>3. At(s \o <<p>>, 0, s)
  BY DEF At
<1>4. (s \o <<p>>)[Len(s) + 1] = p
  OBVIOUS
<1> QED BY <1>1, <1>2, <1>3, <1>4

LEMMA JoinPart ==
  ASSUME NEW T, NEW s \in Seq(T), NEW p \in T, NEW t \in Seq(T)
  PROVE  /\ (s \o <<p>> \o t) \in Seq(T)
         /\ Len(s \o <<p>> \o t) = Len(s) + 1 + Len(t)
         /\ At((s \o <<p>> \o t), 0, s)
         /\ (s \o <<p>> \o t)[Len(s) + 1] = p
         /\ At((s \o <<p>> \o t), Len(s) + 1, t)
<1>1. Len(s) \in Nat /\ Len(t) \in Nat
  OBVIOUS
<1>2. (s \o <<p>> \o t) \in Seq(T)
  OBVIOUS
<1>3. Len(s \o <<p>> \o t) = Len(s) + 1 + Len(t)
  OBVIOUS
<1>4. At((s \o <<p>> \o t), 0, s)
  BY DEF At
<1>5. (s \o <<p>> \o t)[Len(s) + 1] = p
  OBVIOUS
<1>6. At((s \o <<p>> \o t), Len(s) + 1, t)
  BY DEF At
<1> QED BY <1>2, <1>3, <1>4, <1>5, <1>6

\* w is three sequences, each with a token behind it.
Three(w, T, x, p, y, q, z, r) ==
  /\ w \in Seq(T)
  /\ \E u, m, l \in Nat :
       /\ u = Len(x) + 1 /\ m = u + Len(y) + 1 /\ l = m + Len(z) + 1
       /\ Len(w) = l /\ w[u] = p /\ w[m] = q /\ w[l] = r
       /\ \A i \in 1 .. Len(x) : w[i] = x[i]
       /\ \A i \in 1 .. Len(y) : w[u + i] = y[i]
       /\ \A i \in 1 .. Len(z) : w[m + i] = z[i]

LEMMA JoinThree ==
  ASSUME NEW T, NEW x \in Seq(T), NEW y \in Seq(T), NEW z \in Seq(T),
         NEW p \in T, NEW q \in T, NEW r \in T
  PROVE  Three(x \o <<p>> \o y \o <<q>> \o z \o <<r>>, T, x, p, y, q, z, r)
<1> DEFINE xy == x \o <<p>> \o y
           xyz == xy \o <<q>> \o z
           w == xyz \o <<r>>
           u == Len(x) + 1
           m == Len(x) + Len(y) + 2
           l == Len(x) + Len(y) + Len(z) + 3
<1>1. xy \in Seq(T) /\ Len(xy) = Len(x) + 1 + Len(y) /\ xy[Len(x) + 1] = p
  BY JoinPart
<1>2. At(xy, 0, x) /\ At(xy, Len(x) + 1, y)
  BY JoinPart
<1>3. Len(x) \in Nat /\ Len(y) \in Nat /\ Len(z) \in Nat
  OBVIOUS
<1>17. xy \in Seq(T)
  BY <1>1
<1> HIDE DEF xy
<1>4. xyz \in Seq(T) /\ Len(xyz) = Len(xy) + 1 + Len(z) /\ xyz[Len(xy) + 1] = q
  <2>1. xyz \in Seq(T) /\ Len(xyz) = Len(xy) + 1 + Len(z)
    BY <1>17, JoinPart
  <2>2. xyz[Len(xy) + 1] = q
    BY <1>17, JoinPart
  <2> QED
    BY <2>1, <2>2
<1>5. At(xyz, 0, xy) /\ At(xyz, Len(xy) + 1, z)
  BY <1>17, JoinPart
<1>18. xyz \in Seq(T)
  BY <1>4
<1> HIDE DEF xyz
<1>6. w \in Seq(T) /\ Len(w) = Len(xyz) + 1 /\ w[Len(xyz) + 1] = r
  <2>1. xyz \o <<r>> \in Seq(T) /\ Len(xyz \o <<r>>) = Len(xyz) + 1
    BY <1>18, JoinOne
  <2>2. w[Len(xyz) + 1] = r
    BY <1>18, JoinOne
  <2> QED
    BY <2>1, <2>2
<1>7. At(w, 0, xyz)
  BY <1>18, JoinOne
<1> HIDE DEF w
<1>8. /\ Len(xy) = Len(x) + Len(y) + 1 /\ Len(xyz) = Len(x) + Len(y) + Len(z) + 2
      /\ Len(w) = Len(x) + Len(y) + Len(z) + 3
  BY <1>1, <1>3, <1>4, <1>6
<1>19. u \in Nat /\ m \in Nat /\ l \in Nat /\ m = u + Len(y) + 1 /\ l = m + Len(z) + 1
  BY <1>3
<1>20. Len(xy) + 1 = m /\ Len(xyz) + 1 = l /\ Len(w) = l
  BY <1>3, <1>8
<1>9. \A i \in 1 .. Len(xyz) : w[i] = xyz[i]
  BY <1>18, <1>7, AtChar
<1>10. \A i \in 1 .. Len(xy) : xyz[i] = xy[i]
  BY <1>17, <1>5, AtChar
<1>11. \A i \in 1 .. Len(xy) : w[i] = xy[i]
  <2>1. \A i \in 1 .. Len(xy) : i \in 1 .. Len(xyz)
    BY <1>3, <1>8
  <2> QED
    BY <1>9, <1>10, <2>1
<1>12. w[u] = p /\ w[m] = q /\ w[l] = r
  <2>1. u \in 1 .. Len(xy) /\ xy[u] = p
    BY <1>1, <1>3, <1>8
  <2>2. m \in 1 .. Len(xyz)
    BY <1>3, <1>8
  <2>3. xyz[m] = q
    BY <1>4, <1>20
  <2> HIDE DEF u, m, l
  <2> QED
    BY <1>6, <1>20, <1>9, <1>11, <2>1, <2>2, <2>3
<1>13. \A i \in 1 .. Len(x) : w[i] = x[i]
  <2>1. \A i \in 1 .. Len(x) : i \in 1 .. Len(xy)
    BY <1>3, <1>8
  <2>2. \A i \in 1 .. Len(x) : xy[i] = x[i]
    BY <1>2, AtChar
  <2> QED
    BY <1>11, <2>1, <2>2
<1>14. \A i \in 1 .. Len(y) : w[u + i] = y[i]
  <2>1. \A i \in 1 .. Len(y) : u + i \in 1 .. Len(xy)
    BY <1>3, <1>8
  <2>2. \A i \in 1 .. Len(y) : xy[u + i] = y[i]
    BY <1>2 DEF At
  <2> HIDE DEF u
  <2> QED
    BY <1>11, <2>1, <2>2
<1>15. \A i \in 1 .. Len(z) : w[m + i] = z[i]
  <2>1. \A i \in 1 .. Len(z) : m + i \in 1 .. Len(xyz)
    BY <1>3, <1>8
  <2>2. \A i \in 1 .. Len(z) : xyz[m + i] = z[i]
    BY <1>5, <1>20 DEF At
  <2> HIDE DEF m
  <2> QED
    BY <1>9, <2>1, <2>2
<1>16. Three(w, T, x, p, y, q, z, r)
  <2> HIDE DEF m, l
  <2> QED
    BY <1>6, <1>12, <1>13, <1>14, <1>15, <1>19, <1>20 DEF Three
<1> QED
  BY <1>16 DEF w, xyz, xy

\* Two sequences agree on a stretch when they agree on its places.
LEMMA Slice ==
  ASSUME NEW T, NEW s \in Seq(T), NEW v \in Seq(T), NEW o \in Nat, NEW m \in 0 .. Len(v),
         o + m <= Len(s), \A i \in 1 .. m : s[o + i] = v[i]
  PROVE  SubSeq(s, o + 1, o + m) = SubSeq(v, 1, m)
<1> DEFINE x == SubSeq(s, o + 1, o + m)
           y == SubSeq(v, 1, m)
<1>1. x \in Seq(T) /\ Len(x) = m /\ \A i \in 1 .. m : x[i] = s[o + i]
  OBVIOUS
<1>2. y \in Seq(T) /\ Len(y) = m /\ \A i \in 1 .. m : y[i] = v[i]
  OBVIOUS
<1> HIDE DEF x, y
<1>3. x = y
  BY <1>1, <1>2, SeqEqual
<1> QED
  BY <1>3 DEF x, y

----------------------------------------------------------------------------
(* What a parser keeps of its entries *)

LEMMA CollectFrom ==
  ASSUME NEW entries, NEW n \in Nat, DOMAIN entries \subseteq 0 .. n,
         NEW s \in DOMAIN Collect(entries)
  PROVE  \E i \in DOMAIN entries :
           entries[i].service = s /\ Collect(entries)[s] = Creds(entries[i])
<1> DEFINE P == {i \in DOMAIN entries : entries[i].service = s}
<1>1. P \in SUBSET (0 .. n) /\ P # {}
  BY DEF Collect
<1>2. Max(P) \in P
  <2> HIDE DEF P
  <2> QED
    BY <1>1, Greatest
<1>3. Collect(entries)[s] = Creds(entries[Max(P)])
  BY DEF Collect
<1> QED
  BY <1>2, <1>3

\* Entries of distinct services are all kept, whatever their places.
LEMMA CollectAll ==
  ASSUME NEW entries, NEW n \in Nat, DOMAIN entries \subseteq 0 .. n,
         \A i, j \in DOMAIN entries : entries[i].service = entries[j].service => i = j
  PROVE  /\ DOMAIN Collect(entries) = {entries[i].service : i \in DOMAIN entries}
         /\ \A i \in DOMAIN entries :
              Collect(entries)[entries[i].service] = Creds(entries[i])
<1>1. DOMAIN Collect(entries) = {entries[i].service : i \in DOMAIN entries}
  BY DEF Collect
<1>2. ASSUME NEW i \in DOMAIN entries
      PROVE  Collect(entries)[entries[i].service] = Creds(entries[i])
  <2>1. entries[i].service \in DOMAIN Collect(entries)
    BY <1>1
  <2>2. PICK j \in DOMAIN entries :
          /\ entries[j].service = entries[i].service
          /\ Collect(entries)[entries[i].service] = Creds(entries[j])
    BY <2>1, CollectFrom
  <2> QED
    BY <2>2
<1> QED
  BY <1>1, <1>2

LEMMA CollectSame ==
  ASSUME NEW f, NEW n \in Nat, DOMAIN f \subseteq 0 .. n,
         NEW g, NEW m \in Nat, DOMAIN g \subseteq 0 .. m,
         \A i, j \in DOMAIN f : f[i].service = f[j].service => i = j,
         \A i, j \in DOMAIN g : g[i].service = g[j].service => i = j,
         \A i \in DOMAIN f : \E j \in DOMAIN g : f[i] = g[j],
         \A j \in DOMAIN g : \E i \in DOMAIN f : f[i] = g[j]
  PROVE  Collect(f) = Collect(g)
<1> DEFINE x == Collect(f)
           y == Collect(g)
<1>1. /\ DOMAIN x = {f[i].service : i \in DOMAIN f}
      /\ \A i \in DOMAIN f : x[f[i].service] = Creds(f[i])
  BY CollectAll
<1>2. /\ DOMAIN y = {g[i].service : i \in DOMAIN g}
      /\ \A i \in DOMAIN g : y[g[i].service] = Creds(g[i])
  BY CollectAll
<1>3. x = [s \in DOMAIN x |-> x[s]] /\ y = [s \in DOMAIN y |-> y[s]]
  BY DEF Collect
<1> HIDE DEF x, y
<1>4. DOMAIN x = DOMAIN y
  BY <1>1, <1>2
<1>5. ASSUME NEW s \in DOMAIN x PROVE x[s] = y[s]
  <2>1. PICK i \in DOMAIN f : s = f[i].service
    BY <1>1
  <2>2. PICK j \in DOMAIN g : f[i] = g[j]
    OBVIOUS
  <2> QED
    BY <1>1, <1>2, <2>1, <2>2
<1>6. x = y
  BY <1>3, <1>4, <1>5
<1> QED
  BY <1>6 DEF x, y

----------------------------------------------------------------------------
(* txt: the line of an entry *)

\* What a document is made of.
Chars == Tokens \cup {"S", "L", "P", "n", "c", "q", "H"}

\* An entry of a vault.
IsEntry(e) == e \in Entries /\ <<>> \notin {e.service, e.login, e.password}

LEMMA EntryFacts ==
  ASSUME NEW e, IsEntry(e)
  PROVE  /\ e.service \in Seq(Tokens) /\ e.service \in Seq(Chars) /\ Len(e.service) \in Nat /\ Len(e.service) > 0
         /\ e.login \in Seq(Tokens) /\ e.login \in Seq(Chars) /\ Len(e.login) \in Nat /\ Len(e.login) > 0
         /\ e.password \in Seq(Tokens) /\ e.password \in Seq(Chars)
         /\ Len(e.password) \in Nat /\ Len(e.password) > 0
<1>1. /\ e.service \in Seq(Tokens) /\ e.login \in Seq(Tokens) /\ e.password \in Seq(Tokens)
      /\ e.service # <<>> /\ e.login # <<>> /\ e.password # <<>>
  BY DEF IsEntry, Entries
<1>2. ASSUME NEW v \in Seq(Tokens), v # <<>>
      PROVE  v \in Seq(Chars) /\ Len(v) \in Nat /\ Len(v) > 0
  <2>1. Tokens \subseteq Chars
    BY DEF Chars
  <2> QED
    BY <1>2, <2>1, SeqMonotonic, EmptySeq
<1> QED
  BY <1>1, <1>2

\* Where the login and the password of an entry are in its line, and its length.
LoginAt(e) == Len(e.service) + 2
PasswordAt(e) == Len(e.service) + Len(e.login) + 3
LineEnd(e) == Len(e.service) + Len(e.login) + Len(e.password) + 4

LEMMA Places ==
  ASSUME NEW e, IsEntry(e)
  PROVE  /\ LoginAt(e) \in Nat /\ LoginAt(e) = Len(e.service) + 2
         /\ PasswordAt(e) \in Nat /\ PasswordAt(e) = LoginAt(e) + Len(e.login) + 1
         /\ LineEnd(e) \in Nat /\ LineEnd(e) = PasswordAt(e) + Len(e.password) + 1
         /\ LineEnd(e) > 4
<1> DEFINE a == Len(e.service)
           b == Len(e.login)
           c == Len(e.password)
<1>1. a \in Nat /\ b \in Nat /\ c \in Nat /\ c > 0
  BY EntryFacts
<1>2. LoginAt(e) = a + 2 /\ PasswordAt(e) = a + b + 3 /\ LineEnd(e) = a + b + c + 4
  BY DEF LoginAt, PasswordAt, LineEnd
<1> HIDE DEF a, b, c
<1>3. LoginAt(e) \in Nat /\ PasswordAt(e) \in Nat /\ LineEnd(e) \in Nat
  BY <1>1, <1>2
<1>4. PasswordAt(e) = LoginAt(e) + b + 1 /\ LineEnd(e) = PasswordAt(e) + c + 1
  BY <1>1, <1>2
<1>5. LineEnd(e) > 4
  BY <1>1, <1>2
<1> QED
  BY <1>2, <1>3, <1>4, <1>5 DEF a, b, c

LEMMA TxtLineParts ==
  ASSUME NEW e, IsEntry(e)
  PROVE  /\ TxtLine(e) \in Seq(Chars) /\ Len(TxtLine(e)) = LineEnd(e)
         /\ TxtLine(e)[1] = "S" /\ TxtLine(e)[LoginAt(e)] = "L"
         /\ TxtLine(e)[PasswordAt(e)] = "P" /\ TxtLine(e)[LineEnd(e)] = "n"
         /\ \A i \in 1 .. Len(e.service) : TxtLine(e)[1 + i] = e.service[i]
         /\ \A i \in 1 .. Len(e.login) : TxtLine(e)[LoginAt(e) + i] = e.login[i]
         /\ \A i \in 1 .. Len(e.password) : TxtLine(e)[PasswordAt(e) + i] = e.password[i]
<1> DEFINE x == <<"S">> \o e.service
           line == TxtLine(e)
<1>1. /\ e.service \in Seq(Chars) /\ e.login \in Seq(Chars) /\ e.password \in Seq(Chars)
      /\ Len(e.service) \in Nat
  BY EntryFacts
<1>2. "S" \in Chars /\ "L" \in Chars /\ "P" \in Chars /\ "n" \in Chars
  BY DEF Chars
<1>3. /\ x \in Seq(Chars) /\ Len(x) = Len(e.service) + 1 /\ x[1] = "S"
      /\ \A i \in 1 .. Len(e.service) : x[1 + i] = e.service[i]
  BY <1>1, <1>2
<1>4. line = x \o <<"L">> \o e.login \o <<"P">> \o e.password \o <<"n">>
  BY DEF TxtLine
<1> HIDE DEF x, line
<1>5. Three(line, Chars, x, "L", e.login, "P", e.password, "n")
  BY <1>1, <1>2, <1>3, <1>4, JoinThree
<1>6. PICK u \in Nat, m \in Nat, l \in Nat :
        /\ u = Len(x) + 1 /\ m = u + Len(e.login) + 1 /\ l = m + Len(e.password) + 1
        /\ Len(line) = l /\ line[u] = "L" /\ line[m] = "P" /\ line[l] = "n"
        /\ \A i \in 1 .. Len(x) : line[i] = x[i]
        /\ \A i \in 1 .. Len(e.login) : line[u + i] = e.login[i]
        /\ \A i \in 1 .. Len(e.password) : line[m + i] = e.password[i]
  BY <1>5 DEF Three
<1>7. u = LoginAt(e) /\ m = PasswordAt(e) /\ l = LineEnd(e)
  <2>1. u = LoginAt(e)
    BY <1>1, <1>3, <1>6, Places
  <2>2. m = PasswordAt(e)
    BY <1>6, <2>1, Places
  <2>3. l = LineEnd(e)
    BY <1>6, <2>2, Places
  <2> QED
    BY <2>1, <2>2, <2>3
<1>8. line[1] = "S" /\ \A i \in 1 .. Len(e.service) : line[1 + i] = e.service[i]
  <2>1. 1 \in 1 .. Len(x) /\ \A i \in 1 .. Len(e.service) : 1 + i \in 1 .. Len(x)
    BY <1>1, <1>3
  <2> QED
    BY <1>3, <1>6, <2>1
<1>9. line \in Seq(Chars)
  BY <1>5 DEF Three
<1> QED
  BY <1>6, <1>7, <1>8, <1>9 DEF line

\* The beginning of a line: what a cut document has of it.
Piece(e, m) == SubSeq(TxtLine(e), 1, m)

LEMMA PieceParts ==
  ASSUME NEW e, IsEntry(e), NEW m \in 1 .. LineEnd(e)
  PROVE  /\ Piece(e, m) \in Seq(Chars) /\ Len(Piece(e, m)) = m
         /\ \A i \in 1 .. m : Piece(e, m)[i] = TxtLine(e)[i]
<1>1. TxtLine(e) \in Seq(Chars) /\ Len(TxtLine(e)) = LineEnd(e) /\ LineEnd(e) \in Nat
  BY TxtLineParts, Places
<1> QED
  BY <1>1 DEF Piece

LEMMA SplitFacts ==
  ASSUME NEW line \in Seq(Chars), NEW at
  PROVE  at \in Splits(line) <=>
           /\ at = <<at[1], at[2]>> /\ at[1] \in 3 .. Len(line) /\ at[2] \in 5 .. Len(line) - 1
           /\ line[1] = "S" /\ line[at[1]] = "L" /\ line[at[2]] = "P"
           /\ at[1] + 1 < at[2]
<1>1. at \in (3 .. Len(line)) \X (5 .. Len(line) - 1) <=>
        at = <<at[1], at[2]>> /\ at[1] \in 3 .. Len(line) /\ at[2] \in 5 .. Len(line) - 1
  OBVIOUS
<1> QED
  BY <1>1 DEF Splits

\* The separators of an unambiguous entry are the first ones of its line.
LEMMA SplitsBehind ==
  ASSUME NEW e, IsEntry(e), Unambiguous(e), NEW m \in 1 .. LineEnd(e) - 1,
         NEW at \in Splits(Piece(e, m))
  PROVE  at[1] \in Nat /\ at[2] \in Nat /\ at[1] >= LoginAt(e) /\ at[2] >= PasswordAt(e) /\ at[2] < m
<1> DEFINE line == TxtLine(e)
           u == LoginAt(e)
           w == PasswordAt(e)
           a == Len(e.service)
           b == Len(e.login)
<1>1. /\ u \in Nat /\ u = a + 2 /\ w \in Nat /\ w = u + b + 1 /\ LineEnd(e) \in Nat
      /\ a \in Nat /\ b \in Nat
  BY Places, EntryFacts
<1>2. /\ \A i \in 1 .. a : line[1 + i] = e.service[i]
      /\ \A i \in 1 .. b : line[u + i] = e.login[i]
  BY TxtLineParts
<1>3. m \in 1 .. LineEnd(e) /\ m \in Nat
  BY <1>1
<1>4. /\ at[1] \in 3 .. m /\ at[2] \in 5 .. m - 1 /\ at[1] + 1 < at[2]
      /\ line[at[1]] = "L" /\ line[at[2]] = "P"
  <2>1. /\ at[1] \in 3 .. Len(Piece(e, m)) /\ at[2] \in 5 .. Len(Piece(e, m)) - 1
        /\ Piece(e, m)[at[1]] = "L" /\ Piece(e, m)[at[2]] = "P" /\ at[1] + 1 < at[2]
    BY <1>3, PieceParts, SplitFacts
  <2>2. Len(Piece(e, m)) = m /\ \A i \in 1 .. m : Piece(e, m)[i] = line[i]
    BY <1>3, PieceParts
  <2>3. at[1] \in 3 .. m /\ at[2] \in 5 .. m - 1
    BY <2>1, <2>2
  <2>4. at[1] \in 1 .. m /\ at[2] \in 1 .. m
    BY <2>3, <1>3
  <2> QED
    BY <2>1, <2>2, <2>3, <2>4
<1> HIDE DEF line, u, w, a, b
<1>5. at[1] >= u
  <2> SUFFICES ASSUME at[1] < u PROVE FALSE
    BY <1>1, <1>3, <1>4
  <2> DEFINE i == at[1] - 2
  <2>1. i \in Nat /\ i + 1 \in 1 .. a /\ 1 + (i + 1) = at[1] /\ i \in 1 .. a - 1
    BY <1>1, <1>3, <1>4
  <2>2. e.service[i + 1] = "L"
    BY <1>2, <1>4, <2>1
  <2>3. Tail(e.service)[i] = "L" /\ i \in 1 .. Len(Tail(e.service))
    BY <2>1, <2>2, EntryFacts DEF a
  <2> QED
    BY <2>3 DEF Unambiguous, Has
<1>6. at[2] >= w
  <2> SUFFICES ASSUME at[2] < w PROVE FALSE
    BY <1>1, <1>3, <1>4
  <2> DEFINE i == at[2] - u - 1
  <2>1. i \in Nat /\ i + 1 \in 1 .. b /\ u + (i + 1) = at[2] /\ i \in 1 .. b - 1
    BY <1>1, <1>3, <1>4, <1>5
  <2>2. e.login[i + 1] = "P"
    BY <1>2, <1>4, <2>1
  <2>3. Tail(e.login)[i] = "P" /\ i \in 1 .. Len(Tail(e.login))
    BY <2>1, <2>2, EntryFacts DEF b
  <2> QED
    BY <2>3 DEF Unambiguous, Has
<1> QED
  BY <1>3, <1>4, <1>5, <1>6 DEF u, w

\* An entry with the beginning of its password, as a cut document has it.
CutTo(e, n) == [e EXCEPT !.password = SubSeq(@, 1, n)]

LEMMA CutToFields ==
  ASSUME NEW e, IsEntry(e), NEW n
  PROVE  CutTo(e, n) = [service |-> e.service, login |-> e.login,
                        password |-> SubSeq(e.password, 1, n)]
<1> DEFINE p == SubSeq(e.password, 1, n)
<1>1. e \in Entries
  BY DEF IsEntry
<1>2. CutTo(e, n) = [e EXCEPT !.password = p]
  BY DEF CutTo
<1> HIDE DEF p
<1>3. [e EXCEPT !.password = p] = [service |-> e.service, login |-> e.login, password |-> p]
  BY <1>1 DEF Entries
<1> QED
  BY <1>2, <1>3 DEF p

LEMMA OwnSplit ==
  ASSUME NEW e, IsEntry(e), NEW m \in 1 .. LineEnd(e) - 1, m > PasswordAt(e)
  PROVE  /\ <<LoginAt(e), PasswordAt(e)>> \in Splits(Piece(e, m))
         /\ SplitAt(Piece(e, m), <<LoginAt(e), PasswordAt(e)>>) = CutTo(e, m - PasswordAt(e))
<1> DEFINE full == TxtLine(e)
           line == Piece(e, m)
           u == LoginAt(e)
           w == PasswordAt(e)
           a == Len(e.service)
           b == Len(e.login)
           c == Len(e.password)
<1>1. /\ u \in Nat /\ u = a + 2 /\ w \in Nat /\ w = u + b + 1
      /\ LineEnd(e) \in Nat /\ LineEnd(e) = w + c + 1
      /\ a \in Nat /\ a > 0 /\ b \in Nat /\ b > 0 /\ c \in Nat
  BY Places, EntryFacts
<1>10. m \in 1 .. LineEnd(e) /\ m \in Nat /\ w < m /\ m <= LineEnd(e) - 1
  <2> HIDE DEF w
  <2>1. m \in 1 .. LineEnd(e) /\ m \in Nat /\ m <= LineEnd(e) - 1
    BY Places
  <2>2. w < m
    BY DEF w
  <2> QED
    BY <2>1, <2>2
<1>2. /\ full[1] = "S" /\ full[u] = "L" /\ full[w] = "P"
      /\ \A i \in 1 .. a : full[1 + i] = e.service[i]
      /\ \A i \in 1 .. b : full[u + i] = e.login[i]
      /\ \A i \in 1 .. c : full[w + i] = e.password[i]
  BY TxtLineParts
<1>3. line \in Seq(Chars) /\ Len(line) = m /\ \A i \in 1 .. m : line[i] = full[i]
  BY <1>10, PieceParts
<1>4. e.service \in Seq(Chars) /\ e.login \in Seq(Chars) /\ e.password \in Seq(Chars)
  BY EntryFacts
<1> HIDE DEF full, line, u, w, a, b, c
<1>11. m <= w + c
  BY <1>1, <1>10
<1>5. <<u, w>> \in Splits(line)
  <2>1. u \in 3 .. m /\ w \in 5 .. m - 1 /\ u + 1 < w /\ 1 \in 1 .. m /\ u \in 1 .. m /\ w \in 1 .. m
    BY <1>1, <1>10
  <2>2. line[1] = "S" /\ line[u] = "L" /\ line[w] = "P"
    BY <1>2, <1>3, <2>1
  <2> QED
    BY <1>3, <2>1, <2>2, SplitFacts
<1>6. SubSeq(line, 2, u - 1) = e.service
  <2>1. 1 + a <= m /\ 1 + 1 = 2 /\ 1 + a = u - 1 /\ a \in 0 .. a
    BY <1>1, <1>10
  <2>2. \A i \in 1 .. a : line[1 + i] = e.service[i]
    <3>1. \A i \in 1 .. a : 1 + i \in 1 .. m
      BY <1>1, <1>10
    <3> QED
      BY <1>2, <1>3, <3>1
  <2>3. SubSeq(line, 1 + 1, 1 + a) = SubSeq(e.service, 1, a)
    BY <1>3, <1>4, <2>1, <2>2, Slice DEF a
  <2>4. SubSeq(e.service, 1, a) = e.service
    BY <1>4 DEF a
  <2> QED
    BY <2>1, <2>3, <2>4
<1>7. SubSeq(line, u + 1, w - 1) = e.login
  <2>1. u + b <= m /\ u + b = w - 1 /\ b \in 0 .. b
    BY <1>1, <1>10
  <2>2. \A i \in 1 .. b : line[u + i] = e.login[i]
    <3>1. \A i \in 1 .. b : u + i \in 1 .. m
      BY <1>1, <1>10
    <3> QED
      BY <1>2, <1>3, <3>1
  <2>3. SubSeq(line, u + 1, u + b) = SubSeq(e.login, 1, b)
    <3>1. b \in 0 .. Len(e.login) /\ u \in Nat /\ u + b <= Len(line)
      BY <1>1, <1>3, <2>1 DEF b
    <3> QED
      BY <1>3, <1>4, <2>2, <3>1, Slice
  <2>4. SubSeq(e.login, 1, b) = e.login
    BY <1>4 DEF b
  <2> QED
    BY <2>1, <2>3, <2>4
<1>8. SubSeq(line, w + 1, Len(line)) = SubSeq(e.password, 1, m - w)
  <2>1. m - w \in 0 .. c /\ w + (m - w) = m /\ w + (m - w) <= m
    BY <1>1, <1>10, <1>11
  <2>2. \A i \in 1 .. m - w : line[w + i] = e.password[i]
    <3>1. \A i \in 1 .. m - w : w + i \in 1 .. m /\ i \in 1 .. c
      BY <1>1, <1>10, <1>11
    <3> QED
      BY <1>2, <1>3, <3>1
  <2>3. SubSeq(line, w + 1, w + (m - w)) = SubSeq(e.password, 1, m - w)
    BY <1>1, <1>3, <1>4, <2>1, <2>2, Slice DEF c
  <2> QED
    BY <1>3, <2>1, <2>3
<1>9. SplitAt(line, <<u, w>>) = CutTo(e, m - w)
  <2>1. CutTo(e, m - w) = [service |-> e.service, login |-> e.login,
                           password |-> SubSeq(e.password, 1, m - w)]
    BY CutToFields
  <2>2. SplitAt(line, <<u, w>>) = [service |-> SubSeq(line, 2, u - 1),
          login |-> SubSeq(line, u + 1, w - 1), password |-> SubSeq(line, w + 1, Len(line))]
    BY DEF SplitAt
  <2> QED
    BY <1>6, <1>7, <1>8, <2>1, <2>2
<1> QED
  BY <1>5, <1>9 DEF u, w, line

LEMMA MatchOfUnambiguous ==
  ASSUME NEW e, IsEntry(e), Unambiguous(e), NEW m \in 1 .. LineEnd(e) - 1
  PROVE  /\ m <= PasswordAt(e) => Splits(Piece(e, m)) = {}
         /\ m > PasswordAt(e) => /\ Splits(Piece(e, m)) # {}
                                 /\ TxtMatch(Piece(e, m)) = CutTo(e, m - PasswordAt(e))
<1> DEFINE line == Piece(e, m)
           own == <<LoginAt(e), PasswordAt(e)>>
<1>1. LoginAt(e) \in Nat /\ PasswordAt(e) \in Nat /\ m \in Nat
  BY Places
<1>2. ASSUME NEW at \in Splits(line)
      PROVE  /\ at[1] \in Nat /\ at[2] \in Nat /\ at[1] >= LoginAt(e) /\ at[2] >= PasswordAt(e)
             /\ at[2] < m /\ at = <<at[1], at[2]>>
  <2>1. at = <<at[1], at[2]>>
    BY DEF Splits
  <2> QED
    BY <2>1, SplitsBehind
<1>3. m <= PasswordAt(e) => Splits(line) = {}
  BY <1>1, <1>2
<1>4. ASSUME m > PasswordAt(e)
      PROVE  Splits(line) # {} /\ TxtMatch(line) = CutTo(e, m - PasswordAt(e))
  <2>1. own \in Splits(line) /\ SplitAt(line, own) = CutTo(e, m - PasswordAt(e))
    BY <1>4, OwnSplit
  <2> DEFINE First(at) == \A other \in Splits(line) :
               at[1] < other[1] \/ (at[1] = other[1] /\ at[2] <= other[2])
             best == CHOOSE at \in Splits(line) : First(at)
  <2>2. First(own)
    BY <1>1, <1>2
  <2>3. best \in Splits(line) /\ First(best)
    BY <2>1, <2>2
  <2> HIDE DEF best
  <2>4. best[1] = LoginAt(e) /\ best[2] = PasswordAt(e)
    BY <1>1, <1>2, <2>1, <2>3
  <2>5. best = own
    BY <1>2, <2>3, <2>4
  <2> QED
    BY <2>1, <2>5 DEF TxtMatch, best
<1> QED
  BY <1>3, <1>4

\* A line that matches has a first separator, and before it none of its kind.
LEMMA MatchExists ==
  ASSUME NEW line \in Seq(Chars), Splits(line) # {}
  PROVE  \E at \in Splits(line) :
           /\ TxtMatch(line) = SplitAt(line, at)
           /\ \A other \in Splits(line) :
                at[1] < other[1] \/ (at[1] = other[1] /\ at[2] <= other[2])
<1> DEFINE n == Len(line)
           First(at) == \A other \in Splits(line) :
             at[1] < other[1] \/ (at[1] = other[1] /\ at[2] <= other[2])
           A == {at[1] : at \in Splits(line)}
<1>1. n \in Nat
  OBVIOUS
<1>2. \A at \in Splits(line) : at[1] \in 0 .. n /\ at[2] \in 0 .. n
  <2>1. \A at \in Splits(line) : at[1] \in 3 .. n /\ at[2] \in 5 .. n - 1
    BY SplitFacts
  <2> HIDE DEF n
  <2> QED
    BY <1>1, <2>1
<1> HIDE DEF n
<1>3. PICK f \in A : \A i \in A : f <= i
  <2>1. A \in SUBSET (0 .. n) /\ A # {}
    BY <1>2
  <2> HIDE DEF A
  <2> QED
    BY <1>1, <2>1, Least
<1> DEFINE B == {at[2] : at \in {at \in Splits(line) : at[1] = f}}
<1>4. PICK s \in B : \A i \in B : s <= i
  <2>1. B \in SUBSET (0 .. n) /\ B # {}
    BY <1>2, <1>3
  <2> HIDE DEF B
  <2> QED
    BY <1>1, <2>1, Least
<1>5. PICK at \in Splits(line) : at[1] = f /\ at[2] = s
  BY <1>4
<1>6. First(at)
  <2> SUFFICES ASSUME NEW other \in Splits(line)
               PROVE  at[1] < other[1] \/ (at[1] = other[1] /\ at[2] <= other[2])
    OBVIOUS
  <2>1. f <= other[1] /\ f \in 0 .. n /\ other[1] \in 0 .. n
    BY <1>2, <1>3, <1>5
  <2>2. CASE other[1] = f
    BY <1>4, <1>5, <2>2
  <2>3. CASE other[1] # f
    BY <1>1, <1>5, <2>1, <2>3
  <2> QED
    BY <2>2, <2>3
<1> HIDE DEF First
<1>7. (CHOOSE x \in Splits(line) : First(x)) \in Splits(line) /\ First(CHOOSE x \in Splits(line) : First(x))
  BY <1>6
<1> QED
  BY <1>7 DEF TxtMatch, First

LEMMA MatchUnambiguous ==
  ASSUME NEW line \in Seq(Chars), Splits(line) # {}
  PROVE  LET e == TxtMatch(line)
         IN  Unambiguous(e) /\ e.service # <<>> /\ e.login # <<>> /\ e.password # <<>>
<1> DEFINE n == Len(line)
<1>1. PICK at \in Splits(line) :
        /\ TxtMatch(line) = SplitAt(line, at)
        /\ \A other \in Splits(line) :
             at[1] < other[1] \/ (at[1] = other[1] /\ at[2] <= other[2])
  BY MatchExists
<1> DEFINE u == at[1]
           w == at[2]
           service == SubSeq(line, 2, u - 1)
           login == SubSeq(line, u + 1, w - 1)
           password == SubSeq(line, w + 1, n)
<1>2. /\ u \in 3 .. n /\ w \in 5 .. n - 1 /\ u + 1 < w /\ n \in Nat
      /\ line[1] = "S" /\ line[u] = "L" /\ line[w] = "P"
  BY SplitFacts
<1>3. TxtMatch(line) = [service |-> service, login |-> login, password |-> password]
  BY <1>1 DEF SplitAt
<1> HIDE DEF u, w
<1>4. u \in Nat /\ w \in Nat /\ u >= 3 /\ w < n
  BY <1>2
<1>5. /\ service \in Seq(Chars) /\ Len(service) = u - 2 /\ \A i \in 1 .. u - 2 : service[i] = line[i + 1]
      /\ login \in Seq(Chars) /\ Len(login) = w - u - 1 /\ \A i \in 1 .. w - u - 1 : login[i] = line[u + i]
      /\ password \in Seq(Chars) /\ Len(password) = n - w
  BY <1>2, <1>4
<1> HIDE DEF n, service, login, password
<1>6. service # <<>> /\ login # <<>> /\ password # <<>>
  BY <1>2, <1>4, <1>5
<1>7. ~Has(Tail(service), {"L"})
  <2> SUFFICES ASSUME NEW i \in 1 .. Len(Tail(service)), Tail(service)[i] = "L" PROVE FALSE
    BY DEF Has
  <2>1. i \in Nat /\ i \in 1 .. u - 3 /\ service[i + 1] = "L"
    BY <1>4, <1>5, <1>6
  <2>2. line[i + 2] = "L" /\ i + 2 \in 3 .. n /\ i + 2 < u
    BY <1>2, <1>4, <1>5, <2>1
  <2>3. (i + 2) + 1 < w
    BY <1>2, <1>4, <2>1, <2>2
  <2>4. <<i + 2, w>> \in Splits(line)
    BY <1>2, <2>2, <2>3, SplitFacts DEF n
  <2> DEFINE other == <<i + 2, w>>
  <2>5. other[1] = i + 2
    OBVIOUS
  <2> HIDE DEF other
  <2>6. u < other[1] \/ u = other[1]
    BY <1>1, <2>4, Zenon DEF u, other
  <2> QED
    BY <1>4, <2>1, <2>2, <2>5, <2>6
<1>8. ~Has(Tail(login), {"P"})
  <2> SUFFICES ASSUME NEW i \in 1 .. Len(Tail(login)), Tail(login)[i] = "P" PROVE FALSE
    BY DEF Has
  <2>1. i \in Nat /\ i \in 1 .. w - u - 2 /\ login[i + 1] = "P"
    BY <1>2, <1>4, <1>5, <1>6
  <2> DEFINE j == u + i + 1
  <2>2. line[j] = "P" /\ j \in 5 .. n - 1 /\ j < w /\ u + 1 < j
    BY <1>2, <1>4, <1>5, <2>1
  <2> HIDE DEF j
  <2>3. <<u, j>> \in Splits(line)
    BY <1>2, <2>2, SplitFacts DEF n
  <2> DEFINE other == <<u, j>>
  <2>4. other[1] = u /\ other[2] = j
    OBVIOUS
  <2> HIDE DEF other
  <2>5. u < other[1] \/ (u = other[1] /\ w <= other[2])
    BY <1>1, <2>3, Zenon DEF u, w, other
  <2> QED
    BY <1>2, <1>4, <2>2, <2>4, <2>5
<1> QED
  BY <1>3, <1>6, <1>7, <1>8 DEF Unambiguous

----------------------------------------------------------------------------
(* txt: the lines of a document                                             *)

LEMMA VaultEntries ==
  ASSUME NEW entries, IsVault(entries)
  PROVE  /\ entries \in Seq(Entries) /\ Len(entries) \in Nat
         /\ \A i \in 1 .. Len(entries) : IsEntry(entries[i])
  BY DEF IsVault, IsEntry

\* The only line break of a line is its last token.
LEMMA LineBreaks ==
  ASSUME NEW e, IsEntry(e), ~HasLineBreak(e.service), ~HasLineBreak(e.login),
         ~HasLineBreak(e.password), NEW i \in 1 .. LineEnd(e)
  PROVE  TxtLine(e)[i] \in Breaks <=> i = LineEnd(e)
<1> DEFINE line == TxtLine(e)
           u == LoginAt(e)
           w == PasswordAt(e)
           l == LineEnd(e)
           a == Len(e.service)
           b == Len(e.login)
           c == Len(e.password)
<1>1. /\ u \in Nat /\ u = a + 2 /\ w \in Nat /\ w = u + b + 1
      /\ l \in Nat /\ l = w + c + 1 /\ a \in Nat /\ b \in Nat /\ c \in Nat
  BY Places, EntryFacts
<1>2. /\ line[1] = "S" /\ line[u] = "L" /\ line[w] = "P" /\ line[l] = "n"
      /\ \A j \in 1 .. a : line[1 + j] = e.service[j]
      /\ \A j \in 1 .. b : line[u + j] = e.login[j]
      /\ \A j \in 1 .. c : line[w + j] = e.password[j]
  BY TxtLineParts
<1>3. /\ \A j \in 1 .. a : e.service[j] \notin Breaks
      /\ \A j \in 1 .. b : e.login[j] \notin Breaks
      /\ \A j \in 1 .. c : e.password[j] \notin Breaks
  BY DEF HasLineBreak, Has
<1>4. i \in 1 .. l
  OBVIOUS
<1>5. "S" \notin Breaks /\ "L" \notin Breaks /\ "P" \notin Breaks /\ "n" \in Breaks
  BY DEF Breaks
<1> HIDE DEF line, u, w, l, a, b, c
<1>6. CASE i \in {1, u, w, l}
  <2>1. l # 1 /\ l # u /\ l # w
    BY <1>1
  <2> QED
    BY <1>2, <1>5, <1>6, <2>1 DEF l, line
<1>7. CASE i \notin {1, u, w, l}
  <2>1. i \in Nat /\ i # l
    BY <1>1, <1>4, <1>7
  <2>2. CASE i < u
    <3>1. i - 1 \in 1 .. a /\ 1 + (i - 1) = i
      BY <1>1, <1>4, <1>7, <2>2
    <3> QED
      BY <1>2, <1>3, <2>1, <3>1 DEF l, line
  <2>3. CASE u < i /\ i < w
    <3>1. i - u \in 1 .. b /\ u + (i - u) = i
      BY <1>1, <1>4, <1>7, <2>3
    <3> QED
      BY <1>2, <1>3, <2>1, <3>1 DEF l, line
  <2>4. CASE w < i
    <3>1. i - w \in 1 .. c /\ w + (i - w) = i
      BY <1>1, <1>4, <1>7, <2>4
    <3> QED
      BY <1>2, <1>3, <2>1, <3>1 DEF l, line
  <2> QED
    BY <1>1, <1>4, <1>7, <2>1, <2>2, <2>3, <2>4
<1> QED
  BY <1>6, <1>7

TxtBlocks(entries) == [i \in 1 .. Len(entries) |-> TxtLine(entries[i])]

\* Where the lines of a text are: line k begins behind begin[k - 1].
TxtLaid(entries, doc, begin) ==
  /\ doc \in Seq(Chars) /\ Len(doc) \in Nat
  /\ begin \in [0 .. Len(entries) -> 0 .. Len(doc)]
  /\ begin[0] = 0 /\ begin[Len(entries)] = Len(doc)
  /\ \A l \in 0 .. Len(entries) : \A k \in 0 .. l : begin[k] <= begin[l]
  /\ \A k \in 1 .. Len(entries) :
       /\ begin[k] = begin[k - 1] + LineEnd(entries[k])
       /\ \A i \in 1 .. LineEnd(entries[k]) :
            doc[begin[k - 1] + i] = TxtLine(entries[k])[i]
  /\ \A p \in 1 .. Len(doc) :
       \E k \in 1 .. Len(entries) : p > begin[k - 1] /\ p <= begin[k]

LEMMA TxtLayout ==
  ASSUME NEW entries, IsVault(entries)
  PROVE  \E begin : TxtLaid(entries, ToTxt(entries), begin)
<1> DEFINE n == Len(entries)
           doc == ToTxt(entries)
           blocks == TxtBlocks(entries)
<1>1. n \in Nat /\ \A k \in 1 .. n : IsEntry(entries[k])
  BY VaultEntries
<1>2. \A k \in 1 .. n : blocks[k] = TxtLine(entries[k])
  BY DEF TxtBlocks
<1>3. \A k \in 1 .. n : /\ TxtLine(entries[k]) \in Seq(Chars)
                        /\ Len(TxtLine(entries[k])) = LineEnd(entries[k])
                        /\ LineEnd(entries[k]) \in Nat
  BY <1>1, TxtLineParts, Places
<1>4. blocks \in Seq(Seq(Chars)) /\ Len(blocks) = n
  BY <1>1, <1>3 DEF TxtBlocks
<1>5. doc = FlattenSeq(blocks)
  BY DEF ToTxt, TxtBlocks
<1> HIDE DEF n, doc, blocks
<1>6. doc \in Seq(Chars)
  BY <1>4, <1>5, FlattenLayout
<1>7. PICK begin : Layout(doc, blocks, begin)
  BY <1>4, <1>5, FlattenLayout
<1>8. Len(doc) \in Nat
  BY <1>6
<1>9. /\ begin \in [0 .. n -> 0 .. Len(doc)] /\ begin[0] = 0 /\ begin[n] = Len(doc)
      /\ \A k \in 1 .. n :
           /\ begin[k] = begin[k - 1] + LineEnd(entries[k])
           /\ \A i \in 1 .. LineEnd(entries[k]) : doc[begin[k - 1] + i] = TxtLine(entries[k])[i]
  BY <1>2, <1>3, <1>4, <1>7 DEF Layout
<1>10. \A l \in 0 .. n : \A k \in 0 .. l : begin[k] <= begin[l]
  BY <1>4, <1>6, <1>7, LayoutOrdered
<1>11. \A p \in 1 .. Len(doc) : \E k \in 1 .. n : p > begin[k - 1] /\ p <= begin[k]
  <2>1. \A p \in 1 .. Len(doc) :
          \E k \in 1 .. Len(blocks) : p > begin[k - 1] /\ p <= begin[k]
    BY <1>4, <1>6, <1>7, LayoutPlace
  <2> QED
    BY <1>4, <2>1
<1>12. TxtLaid(entries, doc, begin)
  BY <1>6, <1>8, <1>9, <1>10, <1>11 DEF TxtLaid, n
<1> QED
  BY <1>12 DEF doc

\* The lines of a text of which p tokens are left.
TxtCutAt(entries, begin, doc, p) ==
  LET lines == {k \in 1 .. Len(entries) : begin[k - 1] < p}
  IN  /\ LineStarts(doc) = {begin[k - 1] + 1 : k \in lines}
      /\ \A k \in lines :
           LineFrom(doc, begin[k - 1] + 1)
             = Piece(entries[k], IF p < begin[k] THEN p - begin[k - 1]
                                                 ELSE LineEnd(entries[k]) - 1)

LEMMA TxtLines ==
  ASSUME NEW entries, IsVault(entries), ~TxtRefuses(entries), NEW full, NEW begin,
         TxtLaid(entries, full, begin), NEW p \in 0 .. Len(full)
  PROVE  TxtCutAt(entries, begin, SubSeq(full, 1, p), p)
<1> DEFINE n == Len(entries)
           doc == SubSeq(full, 1, p)
           lines == {k \in 1 .. n : begin[k - 1] < p}
<1>1. n \in Nat /\ \A k \in 1 .. n : IsEntry(entries[k])
  BY VaultEntries
<1>2. /\ full \in Seq(Chars) /\ Len(full) \in Nat
      /\ begin \in [0 .. n -> 0 .. Len(full)]
      /\ begin[0] = 0 /\ begin[n] = Len(full)
      /\ \A l \in 0 .. n : \A k \in 0 .. l : begin[k] <= begin[l]
      /\ \A k \in 1 .. n : begin[k] = begin[k - 1] + LineEnd(entries[k])
      /\ \A k \in 1 .. n : \A i \in 1 .. LineEnd(entries[k]) :
           full[begin[k - 1] + i] = TxtLine(entries[k])[i]
      /\ \A q \in 1 .. Len(full) : \E k \in 1 .. n : q > begin[k - 1] /\ q <= begin[k]
  BY DEF TxtLaid
<1>3. /\ doc \in Seq(Chars) /\ Len(doc) = p /\ p \in Nat /\ p <= Len(full)
      /\ \A i \in 1 .. p : doc[i] = full[i]
  BY <1>2
<1> HIDE DEF n, doc
<1>4. \A k \in 1 .. n : begin[k - 1] \in Nat /\ begin[k] \in Nat /\ LineEnd(entries[k]) \in Nat
  <2>1. \A k \in 1 .. n : k - 1 \in 0 .. n /\ k \in 0 .. n
    BY <1>1
  <2>2. \A k \in 0 .. n : begin[k] \in Nat
    BY <1>2
  <2> QED
    BY <1>1, <2>1, <2>2, Places
<1>5. \A k \in 1 .. n : LineEnd(entries[k]) > 4
  BY <1>1, Places
<1>6. ASSUME NEW k \in 1 .. n, NEW i \in 1 .. LineEnd(entries[k])
      PROVE  TxtLine(entries[k])[i] \in Breaks <=> i = LineEnd(entries[k])
  <2>1. /\ ~HasLineBreak(entries[k].service) /\ ~HasLineBreak(entries[k].login)
        /\ ~HasLineBreak(entries[k].password)
    BY DEF TxtRefuses, n
  <2> QED
    BY <1>1, <2>1, LineBreaks
\* A place of the document breaks it exactly when a line ends there.
<1>7. ASSUME NEW k \in 1 .. n, NEW q \in 1 .. p, q > begin[k - 1], q <= begin[k]
      PROVE  doc[q] \in Breaks <=> q = begin[k]
  <2> DEFINE i == q - begin[k - 1]
  <2>1. begin[k] = begin[k - 1] + LineEnd(entries[k])
    BY <1>2
  <2>2. i \in 1 .. LineEnd(entries[k]) /\ q = begin[k - 1] + i /\ q \in Nat
    BY <1>3, <1>4, <1>7, <2>1
  <2>3. i = LineEnd(entries[k]) <=> q = begin[k]
    BY <1>4, <2>1, <2>2
  <2> HIDE DEF i
  <2>4. doc[q] = TxtLine(entries[k])[i]
    BY <1>2, <1>3, <2>2
  <2> QED
    BY <1>6, <2>2, <2>3, <2>4
<1>8. ASSUME NEW k \in lines
      PROVE  begin[k - 1] + 1 \in LineStarts(doc)
  <2>1. begin[k - 1] + 1 \in 1 .. p /\ begin[k - 1] + 1 > begin[k - 1] /\ begin[k - 1] + 1 < begin[k]
    BY <1>2, <1>3, <1>4, <1>5
  <2>2. doc[begin[k - 1] + 1] \notin Breaks
    <3> DEFINE q == begin[k - 1] + 1
    <3>1. k \in 1 .. n /\ q \in 1 .. p /\ q > begin[k - 1] /\ q <= begin[k] /\ q # begin[k]
      BY <1>4, <2>1
    <3> HIDE DEF q
    <3>2. doc[q] \notin Breaks
      BY <1>7, <3>1
    <3> QED
      BY <3>2 DEF q
  <2>3. ASSUME begin[k - 1] + 1 > 1 PROVE doc[begin[k - 1]] \in Breaks
    <3>1. k - 1 \in 1 .. n
      BY <1>1, <1>2, <1>4, <2>3
    <3>2. begin[k - 1] \in 1 .. p /\ begin[k - 1] > begin[(k - 1) - 1] /\ begin[k - 1] <= begin[k - 1]
      BY <1>2, <1>3, <1>4, <1>5, <2>1, <2>3, <3>1
    <3> QED
      BY <1>7, <3>1, <3>2
  <2> QED
    BY <1>3, <1>4, <2>1, <2>2, <2>3 DEF LineStarts
<1>9. ASSUME NEW i \in LineStarts(doc)
      PROVE  \E k \in lines : i = begin[k - 1] + 1
  <2>1. i \in 1 .. p /\ doc[i] \notin Breaks /\ (i > 1 => doc[i - 1] \in Breaks)
    BY <1>3 DEF LineStarts
  <2>2. i \in 1 .. Len(full)
    BY <1>2, <1>3, <2>1
  <2>3. PICK k \in 1 .. n : i > begin[k - 1] /\ i <= begin[k]
    BY <1>2, <2>2
  <2>4. k \in lines
    BY <1>3, <1>4, <2>1, <2>3
  <2>5. ASSUME i # begin[k - 1] + 1 PROVE FALSE
    <3>1. i - 1 \in 1 .. p /\ i - 1 > begin[k - 1] /\ i - 1 <= begin[k] /\ i > 1 /\ i - 1 # begin[k]
      BY <1>3, <1>4, <2>1, <2>3, <2>5
    <3> QED
      BY <1>7, <2>1, <3>1
  <2> QED
    BY <2>4, <2>5
<1>10. ASSUME NEW k \in lines
       PROVE  LineFrom(doc, begin[k - 1] + 1)
                = Piece(entries[k], IF p < begin[k] THEN p - begin[k - 1]
                                                    ELSE LineEnd(entries[k]) - 1)
  <2> DEFINE o == begin[k - 1]
             z == begin[k]
             l == LineEnd(entries[k])
             m == IF p < z THEN p - o ELSE l - 1
             End(j) == /\ \A b \in o + 1 .. j : doc[b] \notin Breaks
                       /\ j < Len(doc) => doc[j + 1] \in Breaks
             last == CHOOSE j \in o + 1 .. Len(doc) : End(j)
  <2>1. /\ k \in 1 .. n /\ o \in Nat /\ z \in Nat /\ l \in Nat /\ o < p /\ l > 4 /\ z = o + l
        /\ \A i \in 1 .. l : full[o + i] = TxtLine(entries[k])[i]
    BY <1>2, <1>4, <1>5
  <2>2. ASSUME NEW q \in 1 .. p, q > o, q <= z PROVE doc[q] \in Breaks <=> q = z
    BY <1>7, <2>1, <2>2
  <2> HIDE DEF o, z, l
  <2>3. m \in 1 .. l - 1 /\ m \in Nat /\ o + m <= p /\ o + m < z
    BY <1>3, <2>1
  <2>4. (p < z => o + m = p) /\ (~(p < z) => o + m = z - 1)
    BY <1>3, <2>1
  <2> HIDE DEF m
  <2>5. End(o + m)
    <3>1. ASSUME NEW b \in o + 1 .. o + m PROVE doc[b] \notin Breaks
      <4>1. b \in 1 .. p /\ b > o /\ b <= z /\ b # z
        BY <1>3, <2>1, <2>3
      <4> QED
        BY <2>2, <4>1
    <3>2. ASSUME o + m < p PROVE doc[(o + m) + 1] \in Breaks
      <4>1. (o + m) + 1 = z /\ z \in 1 .. p /\ z > o /\ z <= z
        BY <1>3, <2>1, <2>3, <2>4, <3>2
      <4> QED
        BY <2>2, <4>1
    <3> QED
      BY <1>3, <3>1, <3>2
  <2>6. ASSUME NEW j \in o + 1 .. p, End(j) PROVE j = o + m
    <3>1. CASE j < o + m
      <4>1. j + 1 \in 1 .. p /\ j + 1 > o /\ j + 1 <= z /\ j + 1 # z /\ j < p
        BY <1>3, <2>1, <2>3, <3>1
      <4> QED
        BY <1>3, <2>2, <2>6, <4>1
    <3>2. CASE j > o + m
      <4>1. z \in o + 1 .. j /\ z \in 1 .. p /\ z > o /\ z <= z
        BY <1>3, <2>1, <2>3, <2>4, <3>2
      <4> QED
        BY <2>2, <2>6, <4>1
    <3> QED
      BY <2>1, <2>3, <3>1, <3>2
  <2>7. last = o + m
    <3>1. o + m \in o + 1 .. Len(doc)
      BY <1>3, <2>1, <2>3
    <3>2. last \in o + 1 .. Len(doc) /\ End(last)
      <4> HIDE DEF End
      <4> QED
        BY <2>5, <3>1
    <3> HIDE DEF last, End
    <3> QED
      BY <1>3, <2>6, <3>2
  <2>8. LineFrom(doc, o + 1) = SubSeq(doc, o + 1, o + m)
    BY <2>7 DEF LineFrom
  <2>9. SubSeq(doc, o + 1, o + m) = SubSeq(TxtLine(entries[k]), 1, m)
    <3>1. TxtLine(entries[k]) \in Seq(Chars) /\ Len(TxtLine(entries[k])) = l
      BY <1>1, <2>1, TxtLineParts DEF l
    <3>2. m \in 0 .. Len(TxtLine(entries[k])) /\ o + m <= Len(doc)
      BY <1>3, <2>1, <2>3, <3>1
    <3>3. \A i \in 1 .. m : doc[o + i] = TxtLine(entries[k])[i]
      <4>1. \A i \in 1 .. m : i \in 1 .. l /\ o + i \in 1 .. p
        BY <1>3, <2>1, <2>3
      <4> QED
        BY <1>3, <2>1, <4>1
    <3> QED
      BY <1>3, <2>1, <3>1, <3>2, <3>3, Slice
  <2> QED
    BY <2>8, <2>9 DEF Piece, o, z, l, m
<1>11. LineStarts(doc) = {begin[k - 1] + 1 : k \in lines}
  BY <1>8, <1>9
<1> QED
  BY <1>10, <1>11 DEF TxtCutAt, n, doc

\* f has the entries of g, each at the place o gives it.
Placed(f, g, o) ==
  /\ \A i \in DOMAIN f : \E j \in DOMAIN g : i = o[j]
  /\ \A j \in DOMAIN g : o[j] \in DOMAIN f /\ f[o[j]] = g[j]

Distinct(g) == \A i, j \in DOMAIN g : g[i].service = g[j].service => i = j

LEMMA CollectPlaced ==
  ASSUME NEW g, NEW k \in Nat, DOMAIN g = 1 .. k, Distinct(g),
         NEW f, NEW n \in Nat, DOMAIN f \subseteq 0 .. n, NEW o, Placed(f, g, o)
  PROVE  Collect(f) = Collect(g)
<1>1. DOMAIN g \subseteq 0 .. k
  OBVIOUS
<1>2. \A j \in DOMAIN g : o[j] \in DOMAIN f /\ f[o[j]] = g[j]
  BY DEF Placed
<1>3. \A i \in DOMAIN f : \E j \in DOMAIN g : i = o[j] /\ f[i] = g[j]
  BY <1>2 DEF Placed
<1>4. \A i, j \in DOMAIN f : f[i].service = f[j].service => i = j
  <2> SUFFICES ASSUME NEW i \in DOMAIN f, NEW j \in DOMAIN f, f[i].service = f[j].service
               PROVE  i = j
    OBVIOUS
  <2>1. PICK x \in DOMAIN g : i = o[x] /\ f[i] = g[x]
    BY <1>3
  <2>2. PICK y \in DOMAIN g : j = o[y] /\ f[j] = g[y]
    BY <1>3
  <2>3. x = y
    BY <2>1, <2>2 DEF Distinct
  <2> QED
    BY <2>1, <2>2, <2>3
<1>5. \A i, j \in DOMAIN g : g[i].service = g[j].service => i = j
  BY DEF Distinct
<1>6. \A j \in DOMAIN g : \E i \in DOMAIN f : f[i] = g[j]
  BY <1>2
<1>7. \A i \in DOMAIN f : \E j \in DOMAIN g : f[i] = g[j]
  BY <1>3
<1>8. k \in Nat /\ n \in Nat /\ DOMAIN f \subseteq 0 .. n
  OBVIOUS
<1> QED
  BY ONLY <1>1, <1>4, <1>5, <1>6, <1>7, <1>8, CollectSame

LEMMA MatchOfWhole ==
  ASSUME NEW e, IsEntry(e)
  PROVE  LET line == Piece(e, LineEnd(e) - 1)
         IN  /\ line \in Seq(Chars) /\ Splits(line) # {}
             /\ Unambiguous(e) => TxtMatch(line) = e
<1> DEFINE m == LineEnd(e) - 1
           line == Piece(e, m)
           w == PasswordAt(e)
           c == Len(e.password)
<1>1. LineEnd(e) \in Nat /\ LineEnd(e) = w + c + 1 /\ w \in Nat /\ c \in Nat /\ c > 0
  BY Places, EntryFacts
<1> HIDE DEF w, c
<1>2. m \in 1 .. LineEnd(e) /\ m \in 1 .. LineEnd(e) - 1 /\ m > w /\ m - w = c /\ m \in Nat
  BY <1>1
<1> HIDE DEF m
<1>3. line \in Seq(Chars)
  BY <1>2, PieceParts
<1>4. Splits(line) # {}
  BY <1>2, OwnSplit DEF w
<1>5. ASSUME Unambiguous(e) PROVE TxtMatch(line) = e
  <2>1. TxtMatch(line) = CutTo(e, c)
    <3>1. m > PasswordAt(e)
      BY <1>2 DEF w
    <3>2. TxtMatch(Piece(e, m)) = CutTo(e, m - PasswordAt(e))
      BY <1>2, <1>5, <3>1, MatchOfUnambiguous
    <3> QED
      BY <1>2, <3>2 DEF w
  <2>2. CutTo(e, c) = e
    <3>1. SubSeq(e.password, 1, c) = e.password
      BY EntryFacts DEF c
    <3>2. e = [service |-> e.service, login |-> e.login, password |-> e.password]
      BY DEF IsEntry, Entries
    <3> QED
      BY <3>1, <3>2, CutToFields
  <2> QED
    BY <2>1, <2>2
<1> QED
  BY <1>3, <1>4, <1>5 DEF m

\* No entry with an empty value is among those that were read.
Filled(data) == \A s \in DOMAIN data : ~Empty(data, s)

TxtMatched(doc) == {i \in LineStarts(doc) : Splits(LineFrom(doc, i)) # {}}

TxtFound(doc) == [i \in TxtMatched(doc) |-> TxtMatch(LineFrom(doc, i))]

LEMMA ParseTxtFacts ==
  ASSUME NEW doc \in Seq(Chars)
  PROVE  /\ ParseTxt(doc).data = Collect(TxtFound(doc))
         /\ ParseTxt(doc).skipped = Cardinality(LineStarts(doc) \ TxtMatched(doc))
         /\ ParseTxt(doc).skipped \in Nat
         /\ Len(doc) \in Nat /\ DOMAIN TxtFound(doc) \subseteq 0 .. Len(doc)
<1>1. /\ ParseTxt(doc).data = Collect(TxtFound(doc))
      /\ ParseTxt(doc).skipped = Cardinality(LineStarts(doc) \ TxtMatched(doc))
  BY DEF ParseTxt, TxtFound, TxtMatched
<1>2. Len(doc) \in Nat /\ LineStarts(doc) \subseteq 1 .. Len(doc)
  BY DEF LineStarts
<1>3. Cardinality(LineStarts(doc) \ TxtMatched(doc)) \in Nat
  <2>1. IsFiniteSet(1 .. Len(doc))
    BY <1>2, FS_Interval
  <2>2. IsFiniteSet(LineStarts(doc) \ TxtMatched(doc))
    <3>1. LineStarts(doc) \ TxtMatched(doc) \subseteq 1 .. Len(doc)
      BY <1>2
    <3> QED
      BY <2>1, <3>1, FS_Subset
  <2> QED
    BY <2>2, FS_CardinalityType
<1>4. DOMAIN TxtFound(doc) \subseteq 0 .. Len(doc)
  BY <1>2 DEF TxtFound, TxtMatched
<1> QED
  BY <1>1, <1>2, <1>3, <1>4

\* A whole text: every line matches, and all but the ambiguous ones are exact.
LEMMA TxtWhole ==
  ASSUME NEW entries, IsVault(entries), ~TxtRefuses(entries)
  PROVE  LET parsed == ParseTxt(ToTxt(entries))
         IN  /\ parsed.skipped = 0
             /\ Filled(parsed.data)
             /\ \A i \in 1 .. Len(entries) :
                  ~Unambiguous(entries[i]) => ~Holds(parsed.data, entries[i])
             /\ (\A i \in 1 .. Len(entries) : Unambiguous(entries[i]))
                  => parsed.data = Collect(entries)
<1> DEFINE n == Len(entries)
           doc == ToTxt(entries)
           data == ParseTxt(doc).data
           found == TxtFound(doc)
<1>1. entries \in Seq(Entries) /\ n \in Nat /\ \A k \in 1 .. n : IsEntry(entries[k])
  BY VaultEntries
<1>2. PICK begin : TxtLaid(entries, doc, begin)
  BY TxtLayout
<1>3. /\ doc \in Seq(Chars) /\ Len(doc) \in Nat /\ begin \in [0 .. n -> 0 .. Len(doc)]
      /\ \A k \in 1 .. n : begin[k] = begin[k - 1] + LineEnd(entries[k])
  BY <1>2 DEF TxtLaid
<1> HIDE DEF n, doc
<1> DEFINE o == [k \in 1 .. n |-> begin[k - 1] + 1]
<1>4. ASSUME NEW k \in 1 .. n
      PROVE  begin[k - 1] < Len(doc) /\ ~(Len(doc) < begin[k])
  <2>1. k - 1 \in 0 .. n /\ k \in 0 .. n
    BY <1>1
  <2>2. begin[k - 1] \in 0 .. Len(doc) /\ begin[k] \in 0 .. Len(doc)
    BY <1>3, <2>1
  <2>3. LineEnd(entries[k]) \in Nat /\ LineEnd(entries[k]) > 4
    BY <1>1, Places
  <2>4. begin[k] = begin[k - 1] + LineEnd(entries[k])
    BY <1>3
  <2> QED
    BY <1>3, <2>2, <2>3, <2>4
<1>5. /\ LineStarts(doc) = {o[k] : k \in 1 .. n}
      /\ \A k \in 1 .. n : LineFrom(doc, o[k]) = Piece(entries[k], LineEnd(entries[k]) - 1)
  <2> DEFINE lines == {k \in 1 .. n : begin[k - 1] < Len(doc)}
  <2>1. Len(doc) \in 0 .. Len(doc) /\ SubSeq(doc, 1, Len(doc)) = doc
    BY <1>3
  <2>2. /\ LineStarts(doc) = {begin[k - 1] + 1 : k \in lines}
        /\ \A k \in lines :
             LineFrom(doc, begin[k - 1] + 1)
               = Piece(entries[k], IF Len(doc) < begin[k] THEN Len(doc) - begin[k - 1]
                                   ELSE LineEnd(entries[k]) - 1)
    <3>1. TxtCutAt(entries, begin, SubSeq(doc, 1, Len(doc)), Len(doc))
      BY <1>2, <2>1, TxtLines
    <3> QED
      BY <2>1, <3>1 DEF TxtCutAt, n
  <2>3. lines = 1 .. n
    BY <1>4
  <2> HIDE DEF lines
  <2> QED
    BY <1>4, <2>2, <2>3
<1>6. /\ data = Collect(found) /\ ParseTxt(doc).skipped = Cardinality(LineStarts(doc) \ TxtMatched(doc))
      /\ DOMAIN found \subseteq 0 .. Len(doc)
  BY <1>3, ParseTxtFacts
<1>7. ASSUME NEW k \in 1 .. n
      PROVE  /\ LineFrom(doc, o[k]) \in Seq(Chars) /\ Splits(LineFrom(doc, o[k])) # {}
             /\ Unambiguous(entries[k]) => TxtMatch(LineFrom(doc, o[k])) = entries[k]
  BY <1>1, <1>5, MatchOfWhole
<1> HIDE DEF o
<1>8. TxtMatched(doc) = LineStarts(doc)
  BY <1>5, <1>7 DEF TxtMatched
<1>9. ParseTxt(doc).skipped = 0
  <2>1. LineStarts(doc) \ TxtMatched(doc) = {}
    BY <1>8
  <2> QED
    BY <1>6, <2>1, FS_EmptySet
<1>10. ASSUME NEW s \in DOMAIN data
       PROVE  \E e : /\ e.service = s /\ data[s] = Creds(e) /\ Unambiguous(e)
                     /\ e.service # <<>> /\ e.login # <<>> /\ e.password # <<>>
  <2>1. PICK i \in DOMAIN found : found[i].service = s /\ data[s] = Creds(found[i])
    BY <1>3, <1>6, CollectFrom
  <2>2. PICK k \in 1 .. n : i = o[k]
    BY <1>5, <1>8 DEF TxtFound
  <2>3. found[i] = TxtMatch(LineFrom(doc, o[k]))
    BY <2>2 DEF TxtFound
  <2>4. /\ Unambiguous(found[i])
        /\ found[i].service # <<>> /\ found[i].login # <<>> /\ found[i].password # <<>>
    BY <1>7, <2>3, MatchUnambiguous
  <2> QED
    BY <2>1, <2>4
<1> HIDE DEF data
<1>11. Filled(data)
  BY <1>10 DEF Filled, Empty, Creds
<1>12. ASSUME NEW i \in 1 .. n, Holds(data, entries[i])
       PROVE  Unambiguous(entries[i])
  <2>1. entries[i].service \in DOMAIN data /\ data[entries[i].service] = Creds(entries[i])
    BY <1>12 DEF Holds
  <2>2. PICK e : e.service = entries[i].service /\ Creds(entries[i]) = Creds(e) /\ Unambiguous(e)
    BY <1>10, <2>1
  <2>3. e.login = entries[i].login
    BY <2>2 DEF Creds
  <2> QED
    BY <2>2, <2>3 DEF Unambiguous
<1>13. ASSUME \A i \in 1 .. n : Unambiguous(entries[i])
       PROVE  data = Collect(entries)
  <2>1. DOMAIN entries = 1 .. n /\ Distinct(entries)
    BY <1>1 DEF IsVault, Distinct, n
  <2>2. \A i \in DOMAIN found : \E k \in 1 .. n : i = o[k]
    BY <1>5, <1>8 DEF TxtFound
  <2>3. \A k \in 1 .. n : o[k] \in DOMAIN found /\ found[o[k]] = entries[k]
    BY <1>5, <1>7, <1>8, <1>13 DEF TxtFound
  <2> HIDE DEF found
  <2>5. Placed(found, entries, o)
    BY <2>1, <2>2, <2>3 DEF Placed
  <2>4. Collect(found) = Collect(entries)
    BY <1>1, <1>3, <1>6, <2>1, <2>5, CollectPlaced
  <2> QED
    BY <1>6, <2>4
<1> QED
  BY <1>9, <1>11, <1>12, <1>13 DEF data, doc, n

\* The first entries of a vault, and perhaps the next one with a part of its
\* password that is not empty.
Shortened(entries, data) ==
  \E k \in 0 .. Len(entries) :
    \/ data = Collect(SubSeq(entries, 1, k))
    \/ /\ k < Len(entries)
       /\ \E n \in 1 .. Len(entries[k + 1].password) :
            data = Collect(Append(SubSeq(entries, 1, k), CutTo(entries[k + 1], n)))

LEMMA FirstEntries ==
  ASSUME NEW entries, IsVault(entries), NEW k \in 0 .. Len(entries)
  PROVE  LET first == SubSeq(entries, 1, k)
         IN  /\ DOMAIN first = 1 .. k /\ \A j \in 1 .. k : first[j] = entries[j]
             /\ Distinct(first)
<1> DEFINE first == SubSeq(entries, 1, k)
           n == Len(entries)
<1>1. entries \in Seq(Entries) /\ n \in Nat
  BY VaultEntries
<1>2. DOMAIN first = 1 .. k /\ \A j \in 1 .. k : first[j] = entries[j]
  BY <1>1
<1>3. \A i, j \in 1 .. n : entries[i].service = entries[j].service => i = j
  BY DEF IsVault
<1> HIDE DEF first, n
<1>4. \A j \in 1 .. k : j \in 1 .. n
  BY <1>1 DEF n
<1>5. Distinct(first)
  BY <1>2, <1>3, <1>4 DEF Distinct
<1> QED
  BY <1>2, <1>5 DEF first

\* more is the first k entries and the next one cut short.
CutBehind(more, entries, k, cut) ==
  /\ DOMAIN more = 1 .. k + 1
  /\ \A j \in 1 .. k : more[j] = entries[j]
  /\ more[k + 1] = cut
  /\ Distinct(more)

LEMMA FirstAndCut ==
  ASSUME NEW entries, IsVault(entries), NEW k \in 0 .. Len(entries) - 1, NEW n
  PROVE  CutBehind(Append(SubSeq(entries, 1, k), CutTo(entries[k + 1], n)),
                   entries, k, CutTo(entries[k + 1], n))
<1> DEFINE first == SubSeq(entries, 1, k)
           cut == CutTo(entries[k + 1], n)
           more == Append(first, cut)
<1>1. Len(entries) \in Nat /\ \A i \in 1 .. Len(entries) : IsEntry(entries[i])
  BY VaultEntries
<1>2. k \in 0 .. Len(entries) /\ k + 1 \in 1 .. Len(entries) /\ k \in Nat
  BY <1>1
<1>3. DOMAIN first = 1 .. k /\ \A j \in 1 .. k : first[j] = entries[j]
  BY <1>2, FirstEntries
<1>4. first \in Seq(Entries) /\ Len(first) = k
  BY <1>2, VaultEntries
<1>5. cut.service = entries[k + 1].service
  BY <1>1, <1>2, CutToFields
<1> HIDE DEF cut, first
<1>6. /\ DOMAIN more = 1 .. k + 1 /\ \A j \in 1 .. k : more[j] = first[j]
      /\ more[k + 1] = cut
  BY <1>2, <1>4
<1> HIDE DEF more
<1>7. \A j \in 1 .. k + 1 : more[j].service = entries[j].service /\ j \in 1 .. Len(entries)
  <2> SUFFICES ASSUME NEW j \in 1 .. k + 1
               PROVE  more[j].service = entries[j].service /\ j \in 1 .. Len(entries)
    OBVIOUS
  <2>1. j \in 1 .. Len(entries) /\ (j = k + 1 \/ j \in 1 .. k)
    BY <1>1, <1>2
  <2> QED
    BY <1>3, <1>5, <1>6, <2>1
<1>8. Distinct(more)
  <2>1. \A i, j \in 1 .. Len(entries) : entries[i].service = entries[j].service => i = j
    BY DEF IsVault
  <2> QED
    BY <1>6, <1>7, <2>1 DEF Distinct
<1> QED
  BY <1>3, <1>6, <1>8 DEF CutBehind, more, cut, first

\* A text cut short: the lines before the last are exact, and the last one
\* matches when the separator of its password is left and something behind it.
LEMMA TxtCut ==
  ASSUME NEW entries, IsVault(entries), ~TxtRefuses(entries),
         \A i \in 1 .. Len(entries) : Unambiguous(entries[i]),
         NEW p \in 0 .. Len(ToTxt(entries))
  PROVE  LET parsed == ParseTxt(SubSeq(ToTxt(entries), 1, p))
         IN  parsed.skipped \in Nat /\ Shortened(entries, parsed.data)
<1> DEFINE n == Len(entries)
           full == ToTxt(entries)
           doc == SubSeq(full, 1, p)
           data == ParseTxt(doc).data
           found == TxtFound(doc)
<1>1. entries \in Seq(Entries) /\ n \in Nat /\ \A k \in 1 .. n : IsEntry(entries[k])
  BY VaultEntries
<1>2. PICK begin : TxtLaid(entries, full, begin)
  BY TxtLayout
<1>3. /\ full \in Seq(Chars) /\ Len(full) \in Nat /\ begin \in [0 .. n -> 0 .. Len(full)]
      /\ \A l \in 0 .. n : \A k \in 0 .. l : begin[k] <= begin[l]
      /\ \A k \in 1 .. n : begin[k] = begin[k - 1] + LineEnd(entries[k])
      /\ \A q \in 1 .. Len(full) : \E k \in 1 .. n : q > begin[k - 1] /\ q <= begin[k]
  BY <1>2 DEF TxtLaid
<1>4. doc \in Seq(Chars) /\ p \in Nat /\ p <= Len(full) /\ Len(doc) \in Nat
  BY <1>3
<1>5. TxtCutAt(entries, begin, doc, p)
  BY <1>2, TxtLines
<1> HIDE DEF n, full, doc
<1>6. data = Collect(found) /\ DOMAIN found \subseteq 0 .. Len(doc) /\ ParseTxt(doc).skipped \in Nat
  BY <1>4, ParseTxtFacts
<1> DEFINE o == [k \in 1 .. n |-> begin[k - 1] + 1]
           lines == {k \in 1 .. n : begin[k - 1] < p}
<1>7. \A k \in 0 .. n : begin[k] \in Nat
  BY <1>3
<1>8. /\ LineStarts(doc) = {o[k] : k \in lines}
      /\ \A k \in lines :
           LineFrom(doc, o[k]) = Piece(entries[k], IF p < begin[k] THEN p - begin[k - 1]
                                                   ELSE LineEnd(entries[k]) - 1)
  BY <1>5 DEF TxtCutAt, n
<1> HIDE DEF o
<1>9. ASSUME NEW k \in 0 .. n, NEW g, DOMAIN g = 1 .. k, Distinct(g), Placed(found, g, o)
      PROVE  data = Collect(g)
  <2>1. k \in Nat
    BY <1>1
  <2> HIDE DEF found
  <2> QED
    BY <1>4, <1>6, <1>9, <2>1, CollectPlaced
<1>10. CASE p = 0
  <2>1. lines = {}
    <3>1. \A k \in 1 .. n : k - 1 \in 0 .. n
      BY <1>1
    <3> QED
      BY <1>7, <1>10, <3>1
  <2> DEFINE g == SubSeq(entries, 1, 0)
  <2>2. 0 \in 0 .. n /\ 0 \in 0 .. Len(entries)
    BY <1>1 DEF n
  <2>3. DOMAIN g = 1 .. 0 /\ Distinct(g)
    BY <2>2, FirstEntries
  <2> HIDE DEF g, lines
  <2>4. Placed(found, g, o)
    BY <1>8, <2>1, <2>3 DEF Placed, TxtFound, TxtMatched
  <2>5. data = Collect(g)
    BY <1>9, <2>2, <2>3, <2>4
  <2> QED
    BY <1>6, <2>2, <2>5 DEF Shortened, g, doc, full
<1>11. CASE p # 0
  <2>1. PICK last \in 1 .. n : p > begin[last - 1] /\ p <= begin[last]
    <3>1. p \in 1 .. Len(full)
      BY <1>4, <1>11
    <3> QED
      BY <1>3, <3>1
  <2> DEFINE k == last - 1
             e == entries[last]
             w == PasswordAt(e)
             m == IF p < begin[last] THEN p - begin[k] ELSE LineEnd(e) - 1
  <2>2. /\ last \in Nat /\ k \in 0 .. n - 1 /\ k \in 0 .. n /\ k + 1 = last
        /\ last \in 0 .. n /\ k \in Nat
    BY <1>1
  <2>3. IsEntry(e) /\ Unambiguous(e)
    BY <1>1 DEF n
  <2>4. begin[k] \in Nat /\ begin[last] \in Nat /\ p > begin[k]
    BY <1>7, <2>1, <2>2
  <2>5. LineEnd(e) \in Nat /\ LineEnd(e) > 4 /\ begin[last] = begin[k] + LineEnd(e)
    BY <1>3, <2>2, <2>3, Places
  <2>6. m \in 1 .. LineEnd(e) - 1
    <3> HIDE DEF e, k
    <3> QED
      BY <1>4, <2>1, <2>4, <2>5
  <2>7. lines = 1 .. last
    <3> HIDE DEF m, w
    <3>1. ASSUME NEW j \in 1 .. n, j <= last PROVE begin[j - 1] < p
      <4>1. j - 1 \in 0 .. k /\ j - 1 \in 0 .. n
        BY <1>1, <2>2, <3>1
      <4>2. begin[j - 1] <= begin[k] /\ begin[j - 1] \in Nat
        BY <1>3, <1>7, <2>2, <4>1
      <4> QED
        BY <1>4, <2>4, <4>2
    <3>2. ASSUME NEW j \in 1 .. n, j > last PROVE ~(begin[j - 1] < p)
      <4>1. last \in 0 .. j - 1 /\ j - 1 \in 0 .. n
        BY <1>1, <2>2, <3>2
      <4>2. begin[last] <= begin[j - 1] /\ begin[j - 1] \in Nat
        BY <1>3, <1>7, <4>1
      <4> QED
        BY <1>4, <2>1, <2>4, <4>2
    <3> QED
      BY <1>1, <2>2, <3>1, <3>2
  <2>8. ASSUME NEW j \in 1 .. k
        PROVE  /\ j \in 1 .. n /\ o[j] \in LineStarts(doc) /\ Splits(LineFrom(doc, o[j])) # {}
               /\ TxtMatch(LineFrom(doc, o[j])) = entries[j]
    <3>1. j \in 0 .. k /\ j \in 0 .. n /\ j \in 1 .. n /\ j \in lines
      <4>1. j \in 1 .. last /\ j \in 0 .. k /\ j \in 0 .. n /\ j \in 1 .. n
        BY <1>1, <2>2
      <4> HIDE DEF lines
      <4> QED
        BY <2>7, <4>1
    <3>2. begin[j] <= begin[k] /\ begin[j] \in Nat
      BY <1>3, <1>7, <2>2, <3>1
    <3>3. ~(p < begin[j])
      BY <1>4, <2>4, <3>2
    <3>4. IsEntry(entries[j]) /\ Unambiguous(entries[j])
      BY <1>1, <3>1 DEF n
    <3>5. LineFrom(doc, o[j]) = Piece(entries[j], LineEnd(entries[j]) - 1)
      BY <1>8, <3>1, <3>3
    <3> QED
      BY <1>8, <3>1, <3>4, <3>5, MatchOfWhole
  <2>9. o[last] \in LineStarts(doc) /\ LineFrom(doc, o[last]) = Piece(e, m)
    <3>1. last \in lines
      BY <2>2, <2>7
    <3> QED
      BY <1>8, <3>1
  <2>10. \A i \in LineStarts(doc) : i = o[last] \/ \E j \in 1 .. k : i = o[j]
    BY <1>8, <2>2, <2>7
  <2> HIDE DEF m, lines
  <2>11. w \in Nat /\ LineEnd(e) = w + Len(e.password) + 1 /\ Len(e.password) \in Nat
    BY <2>3, Places, EntryFacts
  <2>12. k \in 0 .. Len(entries) /\ k \in 0 .. Len(entries) - 1 /\ k < Len(entries)
    BY <1>1, <2>2 DEF n
  <2> HIDE DEF k
  <2>13. CASE m <= w
    <3>1. Splits(LineFrom(doc, o[last])) = {}
      BY <2>3, <2>6, <2>9, <2>13, MatchOfUnambiguous
    <3> DEFINE g == SubSeq(entries, 1, k)
    <3>2. DOMAIN g = 1 .. k /\ (\A j \in 1 .. k : g[j] = entries[j]) /\ Distinct(g)
      BY <2>12, FirstEntries
    <3> HIDE DEF g
    <3>3. Placed(found, g, o)
      BY <2>8, <2>10, <3>1, <3>2 DEF Placed, TxtFound, TxtMatched
    <3>4. data = Collect(g)
      BY <1>9, <2>2, <3>2, <3>3
    <3> QED
      BY <1>6, <2>12, <3>4 DEF Shortened, g, doc, full
  <2>14. CASE m > w
    <3>1. /\ Splits(LineFrom(doc, o[last])) # {}
          /\ TxtMatch(LineFrom(doc, o[last])) = CutTo(e, m - w)
      BY <2>3, <2>6, <2>9, <2>14, MatchOfUnambiguous
    <3> DEFINE g == Append(SubSeq(entries, 1, k), CutTo(entries[k + 1], m - w))
    <3>2. /\ DOMAIN g = 1 .. last /\ (\A j \in 1 .. k : g[j] = entries[j])
          /\ g[last] = CutTo(e, m - w) /\ Distinct(g)
      <4>1. /\ DOMAIN g = 1 .. k + 1 /\ (\A j \in 1 .. k : g[j] = entries[j])
            /\ g[k + 1] = CutTo(entries[k + 1], m - w) /\ Distinct(g)
        <5> DEFINE x == m - w
        <5> HIDE DEF x
        <5>1. CutBehind(Append(SubSeq(entries, 1, k), CutTo(entries[k + 1], x)),
                        entries, k, CutTo(entries[k + 1], x))
          BY <2>12, FirstAndCut
        <5>2. CutBehind(g, entries, k, CutTo(entries[k + 1], m - w))
          BY <5>1 DEF x
        <5> HIDE DEF g
        <5> QED
          BY <5>2 DEF CutBehind
      <4> QED
        BY <2>2, <4>1
    <3> HIDE DEF g
    <3>3. \A j \in 1 .. last : j \in 1 .. k \/ j = last
      BY <2>2
    <3>4. Placed(found, g, o)
      <4>1. \A j \in 1 .. last : o[j] \in TxtMatched(doc) /\ TxtMatch(LineFrom(doc, o[j])) = g[j]
        BY <2>8, <2>9, <3>1, <3>2, <3>3 DEF TxtMatched
      <4>2. \A i \in TxtMatched(doc) : \E j \in 1 .. last : i = o[j]
        BY <2>2, <2>10 DEF TxtMatched
      <4> QED
        BY <3>2, <4>1, <4>2 DEF Placed, TxtFound
    <3>5. data = Collect(g)
      BY <1>9, <2>2, <3>2, <3>4
    <3>6. m - w \in 1 .. Len(e.password)
      <4> HIDE DEF w, e
      <4> QED
        BY <2>5, <2>6, <2>11, <2>14
    <3>7. e = entries[k + 1]
      BY <2>2
    <3> QED
      BY <1>6, <2>12, <3>5, <3>6, <3>7 DEF Shortened, g, doc, full
  <2> QED
    BY <2>5, <2>6, <2>11, <2>13, <2>14
<1> QED
  BY <1>10, <1>11

----------------------------------------------------------------------------
(* csv: the reader                                                          *)

State(rows, row, field, at) == [rows |-> rows, row |-> row, field |-> field, at |-> at]

\* What each kind of token does to each kind of state.
LEMMA ReadPlain ==
  ASSUME NEW R, NEW W, NEW F, NEW at, NEW token, token \notin {"n", "q", "c"}, at # "quoted"
  PROVE  CsvRead(State(R, W, F, at), token) = State(R, W, Append(F, token), "plain")
  BY DEF CsvRead, State, Add

LEMMA ReadQuoted ==
  ASSUME NEW R, NEW W, NEW F, NEW token, token # "q"
  PROVE  CsvRead(State(R, W, F, "quoted"), token) = State(R, W, Append(F, token), "quoted")
  BY DEF CsvRead, State, Add

LEMMA ReadOpen ==
  ASSUME NEW R, NEW W, NEW F, NEW at \in {"row", "field"}
  PROVE  CsvRead(State(R, W, F, at), "q") = State(R, W, F, "quoted")
  BY DEF CsvRead, State

LEMMA ReadQuote ==
  ASSUME NEW R, NEW W, NEW F
  PROVE  /\ CsvRead(State(R, W, F, "quoted"), "q") = State(R, W, F, "quote")
         /\ CsvRead(State(R, W, F, "quote"), "q") = State(R, W, Append(F, "q"), "quoted")
  BY DEF CsvRead, State, Add

LEMMA ReadComma ==
  ASSUME NEW R, NEW W, NEW F, NEW at, at # "quoted"
  PROVE  CsvRead(State(R, W, F, at), "c") = State(R, Append(W, F), <<>>, "field")
  BY DEF CsvRead, State, EndField

LEMMA EndRowOf ==
  ASSUME NEW R, NEW W, NEW F, NEW at
  PROVE  EndRow(State(R, W, F, at)) = State(Append(R, Append(W, F)), <<>>, <<>>, "row")
<1> DEFINE x == Append(R, Append(W, F))
           empty == <<>>
<1>1. EndRow(State(R, W, F, at)) = [CsvStart EXCEPT !.rows = x]
  <2>1. State(R, W, F, at).rows = R /\ State(R, W, F, at).row = W /\ State(R, W, F, at).field = F
    BY DEF State
  <2> QED
    BY <2>1 DEF EndRow
<1>2. CsvStart = [rows |-> empty, row |-> empty, field |-> empty, at |-> "row"]
  BY DEF CsvStart
<1> HIDE DEF x, empty
<1>3. [CsvStart EXCEPT !.rows = x] = [rows |-> x, row |-> empty, field |-> empty, at |-> "row"]
  BY <1>2
<1> QED
  BY <1>1, <1>3 DEF State, x, empty

LEMMA ReadEnd ==
  ASSUME NEW R, NEW W, NEW F, NEW at, at \notin {"quoted", "row"}
  PROVE  CsvRead(State(R, W, F, at), "n") = State(Append(R, Append(W, F)), <<>>, <<>>, "row")
<1>1. CsvRead(State(R, W, F, at), "n") = EndRow(State(R, W, F, at))
  BY DEF CsvRead, State
<1> QED
  BY <1>1, EndRowOf

\* The reader is a recursive function: here is one that satisfies its equation.
LEMMA ReaderExists ==
  ASSUME NEW doc, NEW n \in Nat
  PROVE  \E read : read = [i \in 0 .. n |->
           IF i <= 1 THEN CsvStart ELSE CsvRead(read[i - 1], doc[i])]
<1> DEFINE Upto(m) == \E f : f = [i \in 0 .. m |->
                         IF i <= 1 THEN CsvStart ELSE CsvRead(f[i - 1], doc[i])]
<1>1. Upto(0)
  <2> DEFINE f == [i \in 0 .. 0 |-> CsvStart]
  <2>1. f = [i \in 0 .. 0 |-> IF i <= 1 THEN CsvStart ELSE CsvRead(f[i - 1], doc[i])]
    OBVIOUS
  <2> HIDE DEF f
  <2> QED
    BY <2>1
<1>2. ASSUME NEW m \in 0 .. n - 1, Upto(m) PROVE Upto(m + 1)
  <2>1. PICK f : f = [i \in 0 .. m |-> IF i <= 1 THEN CsvStart ELSE CsvRead(f[i - 1], doc[i])]
    BY <1>2
  <2> DEFINE last == IF m = 0 THEN CsvStart ELSE CsvRead(f[m], doc[m + 1])
             g == [i \in 0 .. m + 1 |-> IF i <= m THEN f[i] ELSE last]
  <2>2. ASSUME NEW i \in 0 .. m + 1
        PROVE  g[i] = IF i <= 1 THEN CsvStart ELSE CsvRead(g[i - 1], doc[i])
    <3>1. CASE i <= m
      <4>1. i \in 0 .. m /\ g[i] = f[i] /\ (i > 1 => g[i - 1] = f[i - 1])
        BY <3>1
      <4>2. f[i] = IF i <= 1 THEN CsvStart ELSE CsvRead(f[i - 1], doc[i])
        BY <2>1, <4>1
      <4> QED
        BY <4>1, <4>2
    <3>2. CASE i = m + 1
      BY <3>2
    <3> QED
      BY <3>1, <3>2
  <2> HIDE DEF g
  <2>3. g = [i \in 0 .. m + 1 |-> IF i <= 1 THEN CsvStart ELSE CsvRead(g[i - 1], doc[i])]
    BY <2>2 DEF g
  <2> QED
    BY <2>3
<1> HIDE DEF Upto
<1> DEFINE P == {m \in 0 .. n : Upto(m)}
<1>3. \A m \in 0 .. n : m \in P
  <2>1. 0 \in P /\ \A m \in 0 .. n - 1 : m \in P => m + 1 \in P
    BY <1>1, <1>2
  <2> HIDE DEF P
  <2> QED
    BY <2>1, Induction
<1>4. Upto(n)
  BY <1>3
<1> QED
  BY <1>4 DEF Upto

LEMMA ReaderSteps ==
  ASSUME NEW doc \in Seq(Chars)
  PROVE  \A i \in 0 .. Len(doc) :
           CsvReader(doc)[i] = IF i <= 1 THEN CsvStart
                               ELSE CsvRead(CsvReader(doc)[i - 1], doc[i])
<1> DEFINE n == Len(doc)
           F(r) == [i \in 0 .. n |-> IF i <= 1 THEN CsvStart ELSE CsvRead(r[i - 1], doc[i])]
           read == CHOOSE r : r = F(r)
<1>1. n \in Nat
  OBVIOUS
<1>2. \E r : r = F(r)
  BY <1>1, ReaderExists
<1>3. read = F(read)
  BY <1>2
<1>4. CsvReader(doc) = read
  BY DEF CsvReader
<1> HIDE DEF read
<1>5. \A i \in 0 .. n : read[i] = IF i <= 1 THEN CsvStart ELSE CsvRead(read[i - 1], doc[i])
  BY <1>3
<1> QED
  BY <1>4, <1>5

----------------------------------------------------------------------------
(* csv: a field                                                             *)

\* The reader goes through the first m tokens of s.
Reading(st, s, m) == \A j \in 1 .. m : st[j] = CsvRead(st[j - 1], s[j])

\* Inside a field, and behind it.
InField(r, R, W, v) ==
  \E i \in 0 .. Len(v), at \in {"plain", "quoted", "quote"} :
    r = State(R, W, SubSeq(v, 1, i), at)

FieldRead(r, R, W, v) == \E at \in {"plain", "quote"} : r = State(R, W, v, at)

Doubled(v) == [i \in 1 .. Len(v) |-> IF v[i] = "q" THEN <<"q", "q">> ELSE <<v[i]>>]

LEMMA SubSeqNext ==
  ASSUME NEW T, NEW v \in Seq(T), NEW i \in 0 .. Len(v) - 1
  PROVE  Append(SubSeq(v, 1, i), v[i + 1]) = SubSeq(v, 1, i + 1)
  OBVIOUS

LEMMA SubSeqNone ==
  ASSUME NEW T, NEW v \in Seq(T)
  PROVE  SubSeq(v, 1, 0) = <<>> /\ SubSeq(v, 1, Len(v)) = v
  OBVIOUS

LEMMA PlainFieldRead ==
  ASSUME NEW v \in Seq(Chars), ~Has(v, {"c", "q", "n"}),
         NEW m \in 0 .. Len(v), NEW st, NEW R, NEW W, NEW at \in {"row", "field"},
         st[0] = State(R, W, <<>>, at), Reading(st, v, m)
  PROVE  /\ \A j \in 1 .. m : InField(st[j], R, W, v)
         /\ m = Len(v) /\ v # <<>> => st[m] = State(R, W, v, "plain")
<1> DEFINE P == {j \in 0 .. m : st[j] = State(R, W, SubSeq(v, 1, j), IF j = 0 THEN at ELSE "plain")}
<1>1. m \in Nat /\ Len(v) \in Nat /\ m <= Len(v)
  OBVIOUS
<1>2. 0 \in P
  <2>1. SubSeq(v, 1, 0) = <<>> /\ 0 \in 0 .. m
    BY <1>1, SubSeqNone
  <2>2. st[0] = State(R, W, SubSeq(v, 1, 0), IF 0 = 0 THEN at ELSE "plain")
    BY <2>1
  <2> QED
    BY <2>1, <2>2
<1>3. ASSUME NEW j \in 0 .. m - 1, j \in P PROVE j + 1 \in P
  <2>1. j \in 0 .. Len(v) - 1 /\ j + 1 \in 1 .. m /\ j + 1 \in 1 .. Len(v) /\ (j + 1) - 1 = j /\ j + 1 # 0
    BY <1>1
  <2> DEFINE old == IF j = 0 THEN at ELSE "plain"
  <2>2. st[j + 1] = CsvRead(st[j], v[j + 1])
    BY <2>1 DEF Reading
  <2>3. st[j] = State(R, W, SubSeq(v, 1, j), old) /\ old # "quoted"
    BY <1>3
  <2>4. v[j + 1] \notin {"n", "q", "c"}
    BY <2>1 DEF Has
  <2> HIDE DEF old
  <2>5. st[j + 1] = State(R, W, Append(SubSeq(v, 1, j), v[j + 1]), "plain")
    BY <2>2, <2>3, <2>4, ReadPlain
  <2>6. Append(SubSeq(v, 1, j), v[j + 1]) = SubSeq(v, 1, j + 1)
    BY <2>1, SubSeqNext
  <2>7. st[j + 1] = State(R, W, SubSeq(v, 1, j + 1), IF j + 1 = 0 THEN at ELSE "plain")
    BY <2>1, <2>5, <2>6
  <2>8. j + 1 \in 0 .. m
    BY <1>1
  <2> QED
    BY <2>7, <2>8
<1>4. \A j \in 0 .. m : j \in P
  <2> HIDE DEF P
  <2> QED
    BY <1>1, <1>2, <1>3, Induction
<1>5. ASSUME NEW j \in 1 .. m PROVE st[j] = State(R, W, SubSeq(v, 1, j), "plain") /\ j \in 0 .. Len(v)
  BY <1>1, <1>4
<1>6. \A j \in 1 .. m : InField(st[j], R, W, v)
  BY <1>5 DEF InField
<1>7. ASSUME m = Len(v), v # <<>> PROVE st[m] = State(R, W, v, "plain")
  <2>1. m \in 1 .. m /\ SubSeq(v, 1, m) = v
    BY <1>7, SubSeqNone
  <2> QED
    BY <1>5, <2>1
<1> QED
  BY <1>6, <1>7

\* The symbols a field's character k becomes begin behind place d[k - 1].
Offsets(v, flat, d) ==
  /\ d \in [0 .. Len(v) -> 0 .. Len(flat)]
  /\ d[0] = 0 /\ d[Len(v)] = Len(flat)
  /\ \A k \in 1 .. Len(v) :
       /\ v[k] # "q" => d[k] = d[k - 1] + 1
       /\ v[k] = "q" => d[k] = d[k - 1] + 2 /\ flat[d[k - 1] + 2] = "q"
       /\ flat[d[k - 1] + 1] = v[k]

LEMMA QuotedField ==
  ASSUME NEW v \in Seq(Chars), Has(v, {"c", "q", "n"})
  PROVE  LET flat == FlattenSeq(Doubled(v))
         IN  /\ CsvField(v) \in Seq(Chars) /\ Len(flat) \in Nat
             /\ Len(CsvField(v)) = Len(flat) + 2
             /\ CsvField(v)[1] = "q" /\ CsvField(v)[Len(flat) + 2] = "q"
             /\ \A i \in 1 .. Len(flat) : CsvField(v)[i + 1] = flat[i]
             /\ \E d : Offsets(v, flat, d)
<1> DEFINE blocks == Doubled(v)
           flat == FlattenSeq(blocks)
           n == Len(v)
<1>1. n \in Nat /\ "q" \in Chars /\ \A i \in 1 .. n : v[i] \in Chars
  BY DEF Chars
<1>2. /\ DOMAIN blocks = 1 .. n
      /\ \A i \in 1 .. n : v[i] = "q" => blocks[i] = <<"q", "q">>
      /\ \A i \in 1 .. n : v[i] # "q" => blocks[i] = <<v[i]>>
  BY DEF Doubled
<1>3. \A i \in 1 .. n : blocks[i] \in Seq(Chars)
  <2>1. \A x \in Chars : <<x>> \in Seq(Chars) /\ <<x, x>> \in Seq(Chars)
    OBVIOUS
  <2> HIDE DEF blocks
  <2> QED
    BY <1>1, <1>2, <2>1
<1>4. blocks \in Seq(Seq(Chars)) /\ Len(blocks) = n
  BY <1>1, <1>3 DEF Doubled
<1> HIDE DEF blocks
<1>5. flat \in Seq(Chars)
  BY <1>4, FlattenLayout
<1>6. PICK d : Layout(flat, blocks, d)
  BY <1>4, FlattenLayout
<1> HIDE DEF flat
<1>7. /\ d \in [0 .. n -> 0 .. Len(flat)] /\ d[0] = 0 /\ d[n] = Len(flat)
      /\ \A k \in 1 .. n : d[k] = d[k - 1] + Len(blocks[k])
      /\ \A k \in 1 .. n : \A i \in 1 .. Len(blocks[k]) : flat[d[k - 1] + i] = blocks[k][i]
  BY <1>4, <1>6 DEF Layout
<1>8. ASSUME NEW k \in 1 .. n
      PROVE  /\ v[k] # "q" => d[k] = d[k - 1] + 1
             /\ v[k] = "q" => d[k] = d[k - 1] + 2 /\ flat[d[k - 1] + 2] = "q"
             /\ flat[d[k - 1] + 1] = v[k]
  <2>1. CASE v[k] = "q"
    <3>1. blocks[k] = <<"q", "q">>
      BY <1>2, <2>1
    <3>2. Len(blocks[k]) = 2 /\ blocks[k][1] = "q" /\ blocks[k][2] = "q"
      BY <3>1
    <3>3. d[k] = d[k - 1] + 2
      BY <1>7, <3>2
    <3>4. flat[d[k - 1] + 1] = "q" /\ flat[d[k - 1] + 2] = "q"
      <4>1. 1 \in 1 .. Len(blocks[k]) /\ 2 \in 1 .. Len(blocks[k])
        BY <3>2
      <4>2. \A i \in 1 .. Len(blocks[k]) : flat[d[k - 1] + i] = blocks[k][i]
        BY <1>7
      <4> QED
        BY <3>2, <4>1, <4>2
    <3> QED
      BY <2>1, <3>3, <3>4
  <2>2. CASE v[k] # "q"
    <3>1. blocks[k] = <<v[k]>>
      BY <1>2, <2>2
    <3>2. Len(blocks[k]) = 1 /\ blocks[k][1] = v[k]
      BY <3>1
    <3>3. d[k] = d[k - 1] + 1
      BY <1>7, <3>2
    <3>4. flat[d[k - 1] + 1] = v[k]
      <4>1. 1 \in 1 .. Len(blocks[k])
        BY <3>2
      <4>2. \A i \in 1 .. Len(blocks[k]) : flat[d[k - 1] + i] = blocks[k][i]
        BY <1>7
      <4> QED
        BY <3>2, <4>1, <4>2
    <3> QED
      BY <2>2, <3>3, <3>4
  <2> QED
    BY <2>1, <2>2
<1>9. CsvField(v) = <<"q">> \o flat \o <<"q">>
  BY DEF CsvField, Doubled, flat, blocks
<1> DEFINE x == <<"q">> \o flat
<1>10. /\ x \in Seq(Chars) /\ Len(x) = Len(flat) + 1 /\ x[1] = "q" /\ Len(flat) \in Nat
       /\ \A i \in 1 .. Len(flat) : x[i + 1] = flat[i]
  BY <1>1, <1>5
<1> HIDE DEF x
<1>11. /\ x \o <<"q">> \in Seq(Chars) /\ Len(x \o <<"q">>) = Len(x) + 1
       /\ (x \o <<"q">>)[Len(x) + 1] = "q"
  BY <1>1, <1>10, JoinOne
<1>12. At(x \o <<"q">>, 0, x)
  BY <1>1, <1>10, JoinOne
<1>13. \A i \in 1 .. Len(x) : (x \o <<"q">>)[i] = x[i]
  BY <1>10, <1>12, AtChar
<1>14. CsvField(v) = x \o <<"q">>
  BY <1>9 DEF x
<1> DEFINE f == CsvField(v)
<1>15. f \in Seq(Chars) /\ Len(f) = Len(flat) + 2 /\ f[Len(flat) + 2] = "q"
  BY <1>10, <1>11, <1>14
<1>16. f[1] = "q" /\ \A i \in 1 .. Len(flat) : f[i + 1] = flat[i]
  <2>1. 1 \in 1 .. Len(x) /\ \A i \in 1 .. Len(flat) : i + 1 \in 1 .. Len(x)
    BY <1>10
  <2> QED
    BY <1>10, <1>13, <1>14, <2>1
<1>17. Offsets(v, flat, d)
  BY <1>7, <1>8 DEF Offsets
<1> QED
  BY <1>10, <1>15, <1>16, <1>17 DEF flat, blocks

\* The whole of the field puts v, read in quotes, into the field of the row.
WholeQuoted(st, v, m, R, W) ==
  m = Len(CsvField(v)) => st[m] = State(R, W, v, "quote")

LEMMA QuotedFieldRead ==
  ASSUME NEW v \in Seq(Chars), Has(v, {"c", "q", "n"}),
         NEW m \in 0 .. Len(CsvField(v)), NEW st, NEW R, NEW W, NEW at \in {"row", "field"},
         st[0] = State(R, W, <<>>, at), Reading(st, CsvField(v), m)
  PROVE  (\A j \in 1 .. m : InField(st[j], R, W, v)) /\ WholeQuoted(st, v, m, R, W)
<1> DEFINE n == Len(v)
           f == CsvField(v)
           flat == FlattenSeq(Doubled(v))
           z == Len(flat)
<1>1. /\ f \in Seq(Chars) /\ z \in Nat /\ Len(f) = z + 2 /\ f[1] = "q" /\ f[z + 2] = "q"
      /\ \A i \in 1 .. z : f[i + 1] = flat[i]
  BY QuotedField
<1>0. PICK d : Offsets(v, flat, d)
  BY QuotedField
<1>2. /\ d \in [0 .. n -> 0 .. z] /\ d[0] = 0 /\ d[n] = z
      /\ \A k \in 1 .. n :
           /\ v[k] # "q" => d[k] = d[k - 1] + 1
           /\ v[k] = "q" => d[k] = d[k - 1] + 2 /\ flat[d[k - 1] + 2] = "q"
           /\ flat[d[k - 1] + 1] = v[k]
  BY <1>0 DEF Offsets
<1>3. n \in Nat /\ m \in Nat /\ m <= z + 2 /\ \A j \in 1 .. m : st[j] = CsvRead(st[j - 1], f[j])
  BY <1>1 DEF Reading
<1> HIDE DEF f, flat, z, n
<1> DEFINE Behind(j, i) == j = d[i] + 1 /\ st[j] = State(R, W, SubSeq(v, 1, i), "quoted")
           Between(j, i) == /\ i < n /\ v[i + 1] = "q" /\ j = d[i] + 2
                            /\ st[j] = State(R, W, SubSeq(v, 1, i), "quote")
           Inv(j) == \E i \in 0 .. n : Behind(j, i) \/ Between(j, i)
           P == {j \in 0 .. m : j \in 1 .. z + 1 => Inv(j)}
\* The next token, when the field goes on at the places behind entry i.
<1>4. ASSUME NEW i \in 0 .. n
      PROVE  /\ d[i] \in Nat /\ d[i] <= z
             /\ i < n => /\ flat[d[i] + 1] = v[i + 1]
                         /\ v[i + 1] # "q" => d[i + 1] = d[i] + 1
                         /\ v[i + 1] = "q" => d[i + 1] = d[i] + 2 /\ flat[d[i] + 2] = "q"
                         /\ d[i + 1] \in Nat /\ d[i + 1] <= z
             /\ i = n => d[i] = z
  <2>1. d[i] \in Nat /\ d[i] <= z /\ (i = n => d[i] = z)
    BY <1>1, <1>2, <1>3
  <2>2. ASSUME i < n
        PROVE  /\ flat[d[i] + 1] = v[i + 1]
               /\ v[i + 1] # "q" => d[i + 1] = d[i] + 1
               /\ v[i + 1] = "q" => d[i + 1] = d[i] + 2 /\ flat[d[i] + 2] = "q"
               /\ d[i + 1] \in Nat /\ d[i + 1] <= z
    <3>1. i + 1 \in 1 .. n /\ (i + 1) - 1 = i /\ i + 1 \in 0 .. n
      BY <1>3, <2>2
    <3>2. d[i + 1] \in Nat /\ d[i + 1] <= z
      BY <1>1, <1>2, <3>1
    <3> QED
      BY <1>2, <3>1, <3>2
  <2> QED
    BY <2>1, <2>2
<1>5. 0 \in P
  BY <1>3
<1>6. ASSUME NEW j \in 0 .. m - 1, j \in P PROVE j + 1 \in P
  <2>1. j \in Nat /\ j + 1 \in 0 .. m /\ j + 1 \in 1 .. m /\ (j + 1) - 1 = j
    BY <1>3
  <2>2. st[j + 1] = CsvRead(st[j], f[j + 1])
    BY <1>3, <2>1
  <2>3. CASE j = 0
    <3>1. st[1] = State(R, W, <<>>, "quoted")
      BY <1>1, <2>2, <2>3, ReadOpen
    <3>4. SubSeq(v, 1, 0) = <<>> /\ d[0] = 0
      BY <1>2, SubSeqNone
    <3>5. st[1] = State(R, W, SubSeq(v, 1, 0), "quoted")
      BY <3>1, <3>4
    <3>6. 1 = d[0] + 1
      BY <3>4
    <3>2. Behind(1, 0)
      BY <3>5, <3>6
    <3> HIDE DEF Behind, Between
    <3>3. Inv(1)
      BY <1>3, <3>2
    <3> QED
      BY <2>1, <2>3, <3>3
  <2>4. CASE j \in 1 .. z
    <3>1. PICK i \in 0 .. n : Behind(j, i) \/ Between(j, i)
      BY <1>1, <1>6, <2>4
    <3>2. f[j + 1] = flat[j]
      BY <1>1, <2>4
    <3>3. CASE Behind(j, i)
      <4>1. i < n /\ i \in Nat
        BY <1>1, <1>3, <1>4, <2>1, <2>4, <3>3
      <4>2. f[j + 1] = v[i + 1]
        BY <1>4, <3>2, <3>3, <4>1
      <4>3. CASE v[i + 1] = "q"
        <5>1. st[j + 1] = State(R, W, SubSeq(v, 1, i), "quote")
          BY <2>2, <3>3, <4>2, <4>3, ReadQuote
        <5>2. Between(j + 1, i)
          BY <1>4, <3>3, <4>1, <4>3, <5>1
        <5> HIDE DEF Behind, Between
        <5> QED
          BY <2>1, <5>2
      <4>4. CASE v[i + 1] # "q"
        <5>1. st[j + 1] = State(R, W, Append(SubSeq(v, 1, i), v[i + 1]), "quoted")
          BY <2>2, <3>3, <4>2, <4>4, ReadQuoted
        <5>2. Append(SubSeq(v, 1, i), v[i + 1]) = SubSeq(v, 1, i + 1)
          <6>1. i \in 0 .. Len(v) - 1
            BY <1>3, <4>1 DEF n
          <6> QED
            BY <6>1, SubSeqNext
        <5>4. i + 1 \in 0 .. n
          BY <1>3, <4>1
        <5>5. j + 1 = d[i + 1] + 1
          <6>1. d[i + 1] = d[i] + 1 /\ j = d[i] + 1 /\ d[i] \in Nat
            BY <1>4, <3>3, <4>1, <4>4
          <6> QED
            BY <2>1, <6>1
        <5>3. Behind(j + 1, i + 1) /\ i + 1 \in 0 .. n
          BY <5>1, <5>2, <5>4, <5>5
        <5> HIDE DEF Behind, Between
        <5> QED
          BY <2>1, <5>3
      <4> QED
        BY <4>3, <4>4
    <3>4. CASE Between(j, i)
      <4>1. i < n /\ i \in Nat /\ v[i + 1] = "q" /\ f[j + 1] = "q"
        BY <1>4, <3>2, <3>4
      <4>2. st[j + 1] = State(R, W, Append(SubSeq(v, 1, i), v[i + 1]), "quoted")
        BY <2>2, <3>4, <4>1, ReadQuote
      <4>3. Append(SubSeq(v, 1, i), v[i + 1]) = SubSeq(v, 1, i + 1)
        <5>1. i \in 0 .. Len(v) - 1
          BY <1>3, <4>1 DEF n
        <5> QED
          BY <5>1, SubSeqNext
      <4>5. i + 1 \in 0 .. n
        BY <1>3, <4>1
      <4>6. j + 1 = d[i + 1] + 1
        <5>1. d[i + 1] = d[i] + 2 /\ j = d[i] + 2 /\ d[i] \in Nat
          BY <1>4, <3>4, <4>1
        <5> QED
          BY <2>1, <5>1
      <4>4. Behind(j + 1, i + 1) /\ i + 1 \in 0 .. n
        BY <4>2, <4>3, <4>5, <4>6
      <4> HIDE DEF Behind, Between
      <4> QED
        BY <2>1, <4>4
    <3> QED
      BY <3>1, <3>3, <3>4
  <2>5. CASE j > z
    <3>1. j + 1 \notin 1 .. z + 1
      BY <1>1, <2>1, <2>5
    <3> QED
      BY <2>1, <3>1
  <2> QED
    BY <1>1, <2>1, <2>3, <2>4, <2>5
<1>7. \A j \in 0 .. m : j \in P
  <2> HIDE DEF P
  <2> QED
    BY <1>3, <1>5, <1>6, Induction
<1>8. ASSUME NEW j \in 1 .. m, j <= z + 1 PROVE Inv(j)
  <2>1. j \in 0 .. m /\ j \in 1 .. z + 1
    BY <1>1, <1>3, <1>8
  <2> HIDE DEF Inv
  <2> QED
    BY <1>7, <2>1
<1>9. ASSUME m = z + 2 PROVE st[m] = State(R, W, v, "quote")
  <2>1. z + 1 \in 1 .. m /\ z + 1 <= z + 1 /\ z + 2 \in 1 .. m /\ (z + 2) - 1 = z + 1
    BY <1>1, <1>9
  <2>2. PICK i \in 0 .. n : Behind(z + 1, i) \/ Between(z + 1, i)
    BY <1>8, <2>1
  <2>6. i \in Nat /\ i <= n /\ d[i] \in Nat
    BY <1>3, <1>4
  <2>7. ASSUME Between(z + 1, i) PROVE FALSE
    <3>1. d[i + 1] = d[i] + 2 /\ d[i + 1] <= z /\ d[i + 1] \in Nat /\ z + 1 = d[i] + 2
      BY <1>4, <2>7
    <3> QED
      BY <1>1, <2>6, <3>1
  <2>8. ASSUME Behind(z + 1, i), i < n PROVE FALSE
    <3>1. z + 1 = d[i] + 1 /\ d[i + 1] <= z /\ d[i + 1] \in Nat
      BY <1>4, <2>8
    <3>2. d[i + 1] = d[i] + 1 \/ d[i + 1] = d[i] + 2
      BY <1>4, <2>8
    <3> QED
      BY <1>1, <2>6, <3>1, <3>2
  <2>3. i = n /\ Behind(z + 1, i)
    <3> HIDE DEF Behind, Between
    <3>1. Behind(z + 1, i) /\ ~(i < n)
      BY <2>2, <2>7, <2>8
    <3> QED
      BY <1>3, <2>6, <3>1
  <2>4. st[z + 1] = State(R, W, v, "quoted")
    <3>1. SubSeq(v, 1, n) = v
      BY SubSeqNone DEF n
    <3> QED
      BY <2>3, <3>1
  <2>5. st[z + 2] = CsvRead(st[z + 1], f[z + 2])
    BY <1>3, <2>1
  <2> QED
    BY <1>1, <1>9, <2>4, <2>5, ReadQuote
<1>10. ASSUME NEW j \in 1 .. m PROVE InField(st[j], R, W, v)
  <2>1. CASE j <= z + 1
    <3>1. PICK i \in 0 .. n : Behind(j, i) \/ Between(j, i)
      BY <1>8, <2>1
    <3>2. PICK x \in {"quoted", "quote"} : st[j] = State(R, W, SubSeq(v, 1, i), x)
      BY <3>1
    <3> QED
      BY <3>2 DEF InField, n
  <2>2. CASE j > z + 1
    <3>1. m = z + 2 /\ j = m
      BY <1>1, <1>3, <2>2
    <3>3. SubSeq(v, 1, n) = v
      BY SubSeqNone DEF n
    <3>4. n \in 0 .. n
      BY <1>3
    <3>2. st[j] = State(R, W, SubSeq(v, 1, n), "quote") /\ n \in 0 .. n
      BY <1>9, <3>1, <3>3, <3>4
    <3> QED
      BY <3>2 DEF InField, n
  <2> QED
    BY <1>1, <2>1, <2>2
<1> QED
  BY <1>1, <1>9, <1>10 DEF WholeQuoted, f

LEMMA FieldReading ==
  ASSUME NEW v \in Seq(Chars), v # <<>>,
         NEW m \in 0 .. Len(CsvField(v)), NEW st, NEW R, NEW W, NEW at \in {"row", "field"},
         st[0] = State(R, W, <<>>, at), Reading(st, CsvField(v), m)
  PROVE  /\ \A j \in 1 .. m : InField(st[j], R, W, v)
         /\ m = Len(CsvField(v)) => FieldRead(st[m], R, W, v)
<1>1. CASE Has(v, {"c", "q", "n"})
  <2>1. \A j \in 1 .. m : InField(st[j], R, W, v)
    BY <1>1, QuotedFieldRead, Zenon
  <2>2. WholeQuoted(st, v, m, R, W)
    BY <1>1, QuotedFieldRead, Zenon
  <2> QED
    BY <2>1, <2>2, Zenon DEF FieldRead, WholeQuoted
<1>2. CASE ~Has(v, {"c", "q", "n"})
  <2>1. CsvField(v) = v
    BY <1>2 DEF CsvField
  <2>3. m \in 0 .. Len(v) /\ Reading(st, v, m) /\ Len(v) \in Nat /\ Len(v) > 0 /\ m \in Nat
    BY <2>1
  <2>6. \A j \in 1 .. m : InField(st[j], R, W, v)
    BY <1>2, <2>3, PlainFieldRead, Zenon
  <2>7. m = Len(v) => FieldRead(st[m], R, W, v)
    BY <1>2, <2>3, PlainFieldRead DEF FieldRead
  <2> QED
    BY <2>1, <2>6, <2>7
<1> QED
  BY <1>1, <1>2

LEMMA CsvFieldIsSeq ==
  ASSUME NEW v \in Seq(Chars), v # <<>>
  PROVE  CsvField(v) \in Seq(Chars) /\ Len(CsvField(v)) \in Nat /\ Len(CsvField(v)) > 0
<1>1. CASE Has(v, {"c", "q", "n"})
  <2> DEFINE z == Len(FlattenSeq(Doubled(v)))
  <2>1. CsvField(v) \in Seq(Chars) /\ Len(CsvField(v)) = z + 2 /\ z \in Nat
    BY <1>1, QuotedField
  <2> HIDE DEF z
  <2> QED
    BY <2>1
<1>2. CASE ~Has(v, {"c", "q", "n"})
  BY <1>2 DEF CsvField
<1> QED
  BY <1>1, <1>2

\* The reader goes on from place o to place m, over s as far as m goes.
ReadingFrom(st, o, m, s) ==
  \A i \in 1 .. Len(s) : o + i <= m => st[o + i] = CsvRead(st[o + i - 1], s[i])

LEMMA FieldInside ==
  ASSUME NEW v \in Seq(Chars), v # <<>>, NEW o \in Nat, NEW m \in Nat, o <= m,
         NEW st, NEW R, NEW W, NEW at \in {"row", "field"},
         st[o] = State(R, W, <<>>, at), ReadingFrom(st, o, m, CsvField(v))
  PROVE  /\ \A i \in 1 .. Len(CsvField(v)) : o + i <= m => InField(st[o + i], R, W, v)
         /\ o + Len(CsvField(v)) <= m => FieldRead(st[o + Len(CsvField(v))], R, W, v)
<1> DEFINE f == CsvField(v)
           l == Len(f)
           k == IF o + l <= m THEN l ELSE m - o
           own == [j \in 0 .. l |-> st[o + j]]
<1>1. l \in Nat /\ l > 0
  BY CsvFieldIsSeq
<1> HIDE DEF l
<1>2. k \in 0 .. l /\ k \in Nat /\ o + k <= m /\ (o + l <= m => k = l)
      /\ \A i \in 1 .. l : o + i <= m => i \in 1 .. k
  BY <1>1
<1> HIDE DEF k
<1>3. own[0] = State(R, W, <<>>, at)
  BY <1>1
<1>4. Reading(own, f, k)
  <2> SUFFICES ASSUME NEW j \in 1 .. k PROVE own[j] = CsvRead(own[j - 1], f[j])
    BY DEF Reading
  <2>1. j \in 0 .. l /\ j - 1 \in 0 .. l /\ j \in 1 .. l /\ o + j <= m /\ o + j - 1 = o + (j - 1)
    BY <1>1, <1>2
  <2>2. st[o + j] = CsvRead(st[o + j - 1], f[j])
    BY <2>1 DEF ReadingFrom, l
  <2> QED
    BY <2>1, <2>2
<1>5. k \in 0 .. Len(CsvField(v))
  BY <1>2 DEF l
<1>6. \A j \in 1 .. k : j \in 0 .. l
  BY <1>1, <1>2
<1>7. \A j \in 0 .. l : own[j] = st[o + j]
  OBVIOUS
<1> HIDE DEF own
<1>8. \A j \in 1 .. k : InField(own[j], R, W, v)
  BY <1>3, <1>4, <1>5, FieldReading
<1>9. k = Len(CsvField(v)) => FieldRead(own[k], R, W, v)
  BY <1>3, <1>4, <1>5, FieldReading
<1>10. \A i \in 1 .. l : o + i <= m => InField(st[o + i], R, W, v)
  BY <1>2, <1>6, <1>7, <1>8
<1>11. o + l <= m => FieldRead(st[o + l], R, W, v)
  BY <1>1, <1>2, <1>7, <1>9 DEF l
<1> QED
  BY <1>10, <1>11 DEF l

----------------------------------------------------------------------------
(* csv: a row                                                               *)

RowOf(e) == Append(Append(Append(<<>>, e.service), e.login), e.password)

\* What is left of the row of an entry: no password, or the beginning of it.
CutRow(e, row) ==
  \/ Len(row) \in {1, 2}
  \/ /\ Len(row) = 3 /\ row[1] = e.service /\ row[2] = e.login
     /\ \E i \in 0 .. Len(e.password) : row[3] = SubSeq(e.password, 1, i)

\* Inside the row of an entry: where the text may end.
InRow(r, R, e) ==
  /\ r.at # "row"
  /\ \E row \in Seq(Seq(Chars)) :
       CutRow(e, row) /\ EndRow(r) = State(Append(R, row), <<>>, <<>>, "row")

LEMMA OneMore ==
  ASSUME NEW T, NEW s \in Seq(T), NEW x \in T
  PROVE  /\ Append(s, x) \in Seq(T)
         /\ Len(s) = 0 => Len(Append(s, x)) = 1 /\ Append(s, x)[1] = x
         /\ Len(s) = 1 => Len(Append(s, x)) = 2 /\ Append(s, x)[1] = s[1] /\ Append(s, x)[2] = x
         /\ Len(s) = 2 => /\ Len(Append(s, x)) = 3 /\ Append(s, x)[1] = s[1]
                          /\ Append(s, x)[2] = s[2] /\ Append(s, x)[3] = x
<1> DEFINE y == Append(s, x)
<1>1. y \in Seq(T)
  OBVIOUS
<1>2. Len(y) = Len(s) + 1 /\ y[Len(s) + 1] = x /\ \A i \in 1 .. Len(s) : y[i] = s[i]
  OBVIOUS
<1> HIDE DEF y
<1>3. Len(s) = 0 => Len(y) = 1 /\ y[1] = x
  BY <1>2
<1>4. Len(s) = 1 => Len(y) = 2 /\ y[1] = s[1] /\ y[2] = x
  BY <1>2
<1>5. Len(s) = 2 => Len(y) = 3 /\ y[1] = s[1] /\ y[2] = s[2] /\ y[3] = x
  BY <1>2
<1> QED
  BY <1>1, <1>3, <1>4, <1>5 DEF y

LEMMA RowFacts ==
  ASSUME NEW e, IsEntry(e), NEW F \in Seq(Chars)
  PROVE  LET one == Append(<<>>, F)
             two == Append(Append(<<>>, e.service), F)
             three == Append(Append(Append(<<>>, e.service), e.login), F)
         IN  /\ one \in Seq(Seq(Chars)) /\ Len(one) = 1
             /\ two \in Seq(Seq(Chars)) /\ Len(two) = 2
             /\ three \in Seq(Seq(Chars)) /\ Len(three) = 3
             /\ three[1] = e.service /\ three[2] = e.login /\ three[3] = F
<1>1. e.service \in Seq(Chars) /\ e.login \in Seq(Chars) /\ <<>> \in Seq(Seq(Chars))
  BY EntryFacts
<1> DEFINE T == Seq(Chars)
<1>9. F \in T /\ e.service \in T /\ e.login \in T
  BY <1>1
<1> DEFINE none == <<>>
           one == Append(none, F)
           first == Append(none, e.service)
           two == Append(first, F)
           second == Append(first, e.login)
           three == Append(second, F)
<1>2. none \in Seq(T) /\ Len(none) = 0
  OBVIOUS
<1> HIDE DEF none, T
<1>4. one \in Seq(T) /\ Len(one) = 1
  BY <1>2, <1>9, OneMore
<1>5. first \in Seq(T) /\ Len(first) = 1 /\ first[1] = e.service
  BY <1>2, <1>9, OneMore
<1> HIDE DEF first
<1>6. two \in Seq(T) /\ Len(two) = 2
  BY <1>5, <1>9, OneMore
<1>7. second \in Seq(T) /\ Len(second) = 2 /\ second[1] = e.service /\ second[2] = e.login
  BY <1>5, <1>9, OneMore
<1> HIDE DEF second
<1>8. three \in Seq(T) /\ Len(three) = 3 /\ three[1] = e.service /\ three[2] = e.login /\ three[3] = F
  BY <1>7, <1>9, OneMore
<1> QED
  BY <1>4, <1>6, <1>8 DEF first, second, none, T

\* The text may end inside each field.
LEMMA CutRows ==
  ASSUME NEW e, IsEntry(e), NEW r, NEW R
  PROVE  /\ InField(r, R, <<>>, e.service) => InRow(r, R, e)
         /\ InField(r, R, Append(<<>>, e.service), e.login) => InRow(r, R, e)
         /\ InField(r, R, Append(Append(<<>>, e.service), e.login), e.password) => InRow(r, R, e)
<1>1. e.service \in Seq(Chars) /\ e.login \in Seq(Chars) /\ e.password \in Seq(Chars)
  BY EntryFacts
<1>2. ASSUME NEW W, NEW v \in Seq(Chars), InField(r, R, W, v),
             \A i \in 0 .. Len(v) :
               /\ Append(W, SubSeq(v, 1, i)) \in Seq(Seq(Chars))
               /\ CutRow(e, Append(W, SubSeq(v, 1, i)))
      PROVE  InRow(r, R, e)
  <2>1. PICK i \in 0 .. Len(v), at \in {"plain", "quoted", "quote"} : r = State(R, W, SubSeq(v, 1, i), at)
    BY <1>2 DEF InField
  <2>2. EndRow(r) = State(Append(R, Append(W, SubSeq(v, 1, i))), <<>>, <<>>, "row")
    BY <2>1, EndRowOf
  <2>3. r.at # "row"
    BY <2>1 DEF State
  <2> QED
    BY <1>2, <2>2, <2>3 DEF InRow
<1>3. \A v \in Seq(Chars) : \A i \in 0 .. Len(v) : SubSeq(v, 1, i) \in Seq(Chars)
  OBVIOUS
<1>4. \A F \in Seq(Chars) : /\ Append(<<>>, F) \in Seq(Seq(Chars))
                            /\ CutRow(e, Append(<<>>, F))
  BY RowFacts DEF CutRow
<1>5. \A F \in Seq(Chars) : /\ Append(Append(<<>>, e.service), F) \in Seq(Seq(Chars))
                            /\ CutRow(e, Append(Append(<<>>, e.service), F))
  BY RowFacts DEF CutRow
<1>6. \A i \in 0 .. Len(e.password) :
        LET row == Append(Append(Append(<<>>, e.service), e.login), SubSeq(e.password, 1, i))
        IN  row \in Seq(Seq(Chars)) /\ CutRow(e, row)
  BY <1>1, <1>3, RowFacts DEF CutRow
<1> QED
  BY <1>1, <1>2, <1>3, <1>4, <1>5, <1>6

\* Where the commas and the line end of a row are.
CsvParts(e, u, w, l) ==
  /\ u \in Nat /\ w \in Nat /\ l \in Nat
  /\ u = Len(CsvField(e.service)) + 1 /\ w = u + Len(CsvField(e.login)) + 1
  /\ l = w + Len(CsvField(e.password)) + 1
  /\ u > 0 /\ w > u /\ l > w
  /\ CsvRow(e) \in Seq(Chars) /\ Len(CsvRow(e)) = l
  /\ CsvRow(e)[u] = "c" /\ CsvRow(e)[w] = "c" /\ CsvRow(e)[l] = "n"
  /\ \A i \in 1 .. Len(CsvField(e.service)) : CsvRow(e)[i] = CsvField(e.service)[i]
  /\ \A i \in 1 .. Len(CsvField(e.login)) : CsvRow(e)[u + i] = CsvField(e.login)[i]
  /\ \A i \in 1 .. Len(CsvField(e.password)) : CsvRow(e)[w + i] = CsvField(e.password)[i]

LEMMA CsvRowParts ==
  ASSUME NEW e, IsEntry(e)
  PROVE  \E u, w, l : CsvParts(e, u, w, l)
<1> DEFINE x == CsvField(e.service)
           y == CsvField(e.login)
           z == CsvField(e.password)
<1>1. "c" \in Chars /\ "n" \in Chars
  BY DEF Chars
<1>2. /\ x \in Seq(Chars) /\ y \in Seq(Chars) /\ z \in Seq(Chars)
      /\ Len(x) \in Nat /\ Len(y) \in Nat /\ Len(z) \in Nat
  <2>1. /\ e.service \in Seq(Chars) /\ e.login \in Seq(Chars) /\ e.password \in Seq(Chars)
        /\ e.service # <<>> /\ e.login # <<>> /\ e.password # <<>>
    BY EntryFacts DEF IsEntry
  <2> QED
    BY <2>1, CsvFieldIsSeq
<1>3. CsvRow(e) = x \o <<"c">> \o y \o <<"c">> \o z \o <<"n">>
  BY DEF CsvRow
<1> HIDE DEF x, y, z
<1>4. Three(CsvRow(e), Chars, x, "c", y, "c", z, "n")
  BY <1>1, <1>2, <1>3, JoinThree
<1>5. PICK u \in Nat, w \in Nat, l \in Nat :
        /\ u = Len(x) + 1 /\ w = u + Len(y) + 1 /\ l = w + Len(z) + 1
        /\ Len(CsvRow(e)) = l /\ CsvRow(e)[u] = "c" /\ CsvRow(e)[w] = "c" /\ CsvRow(e)[l] = "n"
        /\ \A i \in 1 .. Len(x) : CsvRow(e)[i] = x[i]
        /\ \A i \in 1 .. Len(y) : CsvRow(e)[u + i] = y[i]
        /\ \A i \in 1 .. Len(z) : CsvRow(e)[w + i] = z[i]
  BY <1>4 DEF Three
<1>6. CsvRow(e) \in Seq(Chars)
  BY <1>4 DEF Three
<1>7. u > 0 /\ w > u /\ l > w
  BY <1>2, <1>5
<1>8. CsvParts(e, u, w, l)
  BY <1>5, <1>6, <1>7 DEF CsvParts, x, y, z
<1> QED
  BY <1>8

\* A part of what is read is read, too.
LEMMA ReadingPart ==
  ASSUME NEW T, NEW s \in Seq(T), NEW part \in Seq(T), NEW o \in Nat, NEW a \in Nat,
         NEW m, NEW st, ReadingFrom(st, o, m, s), a + Len(part) <= Len(s),
         \A i \in 1 .. Len(part) : s[a + i] = part[i]
  PROVE  ReadingFrom(st, o + a, m, part)
<1> SUFFICES ASSUME NEW i \in 1 .. Len(part), (o + a) + i <= m
             PROVE  st[(o + a) + i] = CsvRead(st[(o + a) + i - 1], part[i])
  BY DEF ReadingFrom
<1>1. a + i \in 1 .. Len(s) /\ o + (a + i) = (o + a) + i
  OBVIOUS
<1>2. st[o + (a + i)] = CsvRead(st[o + (a + i) - 1], s[a + i])
  BY <1>1 DEF ReadingFrom
<1>3. o + (a + i) - 1 = (o + a) + i - 1
  OBVIOUS
<1>4. s[a + i] = part[i]
  OBVIOUS
<1> QED
  BY <1>1, <1>2, <1>3, <1>4, Zenon

LEMMA RowInside ==
  ASSUME NEW e, IsEntry(e), NEW o \in Nat, NEW m \in Nat, o <= m, NEW st, NEW R,
         st[o] = State(R, <<>>, <<>>, "row"), ReadingFrom(st, o, m, CsvRow(e))
  PROVE  \A i \in 1 .. Len(CsvRow(e)) : o + i <= m =>
           /\ i < Len(CsvRow(e)) => InRow(st[o + i], R, e)
           /\ i = Len(CsvRow(e)) =>
                st[o + i] = State(Append(R, RowOf(e)), <<>>, <<>>, "row")
<1> DEFINE row == CsvRow(e)
           x == CsvField(e.service)
           y == CsvField(e.login)
           z == CsvField(e.password)
           first == Append(<<>>, e.service)
           second == Append(first, e.login)
<1>1. PICK u, w, l : CsvParts(e, u, w, l)
  BY CsvRowParts
<1>2. /\ u \in Nat /\ w \in Nat /\ l \in Nat /\ u = Len(x) + 1 /\ w = u + Len(y) + 1
      /\ l = w + Len(z) + 1 /\ u > 0 /\ w > u /\ l > w
      /\ row \in Seq(Chars) /\ Len(row) = l
      /\ row[u] = "c" /\ row[w] = "c" /\ row[l] = "n"
      /\ \A i \in 1 .. Len(x) : row[i] = x[i]
      /\ \A i \in 1 .. Len(y) : row[u + i] = y[i]
      /\ \A i \in 1 .. Len(z) : row[w + i] = z[i]
  BY <1>1 DEF CsvParts
<1>3. /\ e.service \in Seq(Chars) /\ e.login \in Seq(Chars) /\ e.password \in Seq(Chars)
      /\ e.service # <<>> /\ e.login # <<>> /\ e.password # <<>>
  BY EntryFacts DEF IsEntry
<1>4. /\ x \in Seq(Chars) /\ y \in Seq(Chars) /\ z \in Seq(Chars)
      /\ Len(x) \in Nat /\ Len(y) \in Nat /\ Len(z) \in Nat
  BY <1>3, CsvFieldIsSeq
<1>5. ASSUME NEW i \in 1 .. l, o + i <= m
      PROVE  st[o + i] = CsvRead(st[o + i - 1], row[i])
  BY <1>2, <1>5 DEF ReadingFrom
<1>6. /\ \A i \in 1 .. Len(x) : o + i <= m => InField(st[o + i], R, <<>>, e.service)
      /\ o + Len(x) <= m => FieldRead(st[o + Len(x)], R, <<>>, e.service)
  <2>1. 0 + Len(x) <= Len(row) /\ 0 \in Nat /\ \A i \in 1 .. Len(x) : row[0 + i] = x[i]
    <3> HIDE DEF x, y, z, row
    <3> QED
      BY <1>2, <1>4
  <2>2. ReadingFrom(st, o + 0, m, x)
    <3> HIDE DEF x, y, z
    <3> QED
      BY <1>2, <1>4, <2>1, ReadingPart
  <2>3. ReadingFrom(st, o, m, x)
    <3> HIDE DEF x
    <3>1. o + 0 = o
      OBVIOUS
    <3> QED
      BY <2>2, <3>1
  <2> QED
    BY <1>3, <2>3, FieldInside
<1>7. ASSUME o + u <= m PROVE st[o + u] = State(R, first, <<>>, "field")
  <2>1. u \in 1 .. l /\ o + u - 1 = o + Len(x) /\ o + Len(x) <= m
    <3> HIDE DEF x, y, z
    <3> QED
      BY <1>2, <1>4, <1>7
  <2>2. PICK at \in {"plain", "quote"} : st[o + Len(x)] = State(R, <<>>, e.service, at)
    BY <1>6, <2>1 DEF FieldRead
  <2>3. st[o + u] = CsvRead(st[o + Len(x)], "c")
    <3> HIDE DEF x, row
    <3> QED
      BY <1>2, <1>5, <1>7, <2>1
  <2>4. CsvRead(State(R, <<>>, e.service, at), "c") = State(R, Append(<<>>, e.service), <<>>, "field")
    <3>1. at # "quoted"
      OBVIOUS
    <3> QED
      BY <3>1, ReadComma
  <2> HIDE DEF row, x, y, z
  <2> QED
    BY <2>2, <2>3, <2>4
<1>8. ASSUME o + u <= m
      PROVE  /\ \A i \in 1 .. Len(y) : (o + u) + i <= m => InField(st[(o + u) + i], R, first, e.login)
             /\ (o + u) + Len(y) <= m => FieldRead(st[(o + u) + Len(y)], R, first, e.login)
  <2>1. u + Len(y) <= Len(row) /\ o + u \in Nat /\ \A i \in 1 .. Len(y) : row[u + i] = y[i]
    <3> HIDE DEF x, y, z, row
    <3> QED
      BY <1>2, <1>4
  <2>2. ReadingFrom(st, o + u, m, y)
    <3> HIDE DEF x, y, z
    <3> QED
      BY <1>2, <1>4, <2>1, ReadingPart
  <2> HIDE DEF first
  <2> QED
    BY <1>3, <1>7, <1>8, <2>1, <2>2, FieldInside
<1>9. ASSUME o + w <= m PROVE st[o + w] = State(R, second, <<>>, "field")
  <2>1. /\ w \in 1 .. l /\ o + w - 1 = (o + u) + Len(y) /\ (o + u) + Len(y) <= m /\ o + u <= m
    <3> HIDE DEF x, y, z
    <3> QED
      BY <1>2, <1>4, <1>9
  <2>2. PICK at \in {"plain", "quote"} : st[(o + u) + Len(y)] = State(R, first, e.login, at)
    BY <1>8, <2>1 DEF FieldRead
  <2>3. st[o + w] = CsvRead(st[(o + u) + Len(y)], "c")
    <3> HIDE DEF y, row
    <3> QED
      BY <1>2, <1>5, <1>9, <2>1
  <2> HIDE DEF first
  <2> QED
    BY <2>2, <2>3, ReadComma DEF second
<1>10. ASSUME o + w <= m
       PROVE  /\ \A i \in 1 .. Len(z) : (o + w) + i <= m => InField(st[(o + w) + i], R, second, e.password)
              /\ (o + w) + Len(z) <= m => FieldRead(st[(o + w) + Len(z)], R, second, e.password)
  <2>1. w + Len(z) <= Len(row) /\ o + w \in Nat /\ \A i \in 1 .. Len(z) : row[w + i] = z[i]
    <3> HIDE DEF x, y, z, row
    <3> QED
      BY <1>2, <1>4
  <2>2. ReadingFrom(st, o + w, m, z)
    <3> HIDE DEF x, y, z
    <3> QED
      BY <1>2, <1>4, <2>1, ReadingPart
  <2> HIDE DEF second
  <2> QED
    BY <1>3, <1>9, <1>10, <2>1, <2>2, FieldInside
<1>11. ASSUME o + l <= m PROVE st[o + l] = State(Append(R, RowOf(e)), <<>>, <<>>, "row")
  <2>1. /\ l \in 1 .. l /\ o + l - 1 = (o + w) + Len(z) /\ (o + w) + Len(z) <= m /\ o + w <= m
    <3> HIDE DEF x, y, z
    <3> QED
      BY <1>2, <1>4, <1>11
  <2>2. PICK at \in {"plain", "quote"} : st[(o + w) + Len(z)] = State(R, second, e.password, at)
    BY <1>10, <2>1 DEF FieldRead
  <2>3. st[o + l] = CsvRead(st[(o + w) + Len(z)], "n")
    <3> HIDE DEF z, row
    <3> QED
      BY <1>2, <1>5, <1>11, <2>1
  <2>4. RowOf(e) = Append(second, e.password)
    BY DEF RowOf
  <2> HIDE DEF second
  <2> QED
    BY <2>2, <2>3, <2>4, ReadEnd
<1>12. ASSUME NEW r, \/ r = State(R, first, <<>>, "field") \/ r = State(R, second, <<>>, "field")
       PROVE  InRow(r, R, e)
  <2>1. <<>> \in Seq(Chars) /\ <<>> = SubSeq(e.password, 1, 0) /\ 0 \in 0 .. Len(e.password)
    BY <1>3
  <2>2. r.at # "row"
    BY <1>12 DEF State
  <2> DEFINE two == Append(first, <<>>)
             three == Append(second, <<>>)
  <2>3. two \in Seq(Seq(Chars)) /\ CutRow(e, two)
    BY <2>1, RowFacts DEF CutRow
  <2>4. three \in Seq(Seq(Chars)) /\ CutRow(e, three)
    <3>1. /\ three \in Seq(Seq(Chars)) /\ Len(three) = 3 /\ three[1] = e.service
          /\ three[2] = e.login /\ three[3] = <<>>
      BY <2>1, RowFacts
    <3>2. three[3] = SubSeq(e.password, 1, 0)
      BY <2>1, <3>1
    <3> QED
      BY <2>1, <3>1, <3>2 DEF CutRow
  <2> HIDE DEF first, second
  <2>5. \/ EndRow(r) = State(Append(R, two), <<>>, <<>>, "row")
        \/ EndRow(r) = State(Append(R, three), <<>>, <<>>, "row")
    BY <1>12, EndRowOf
  <2> HIDE DEF two, three
  <2> QED
    BY <2>2, <2>3, <2>4, <2>5 DEF InRow
<1>13. ASSUME NEW i \in 1 .. l, o + i <= m, i < l PROVE InRow(st[o + i], R, e)
  <2>1. \/ i \in 1 .. Len(x) \/ i = u \/ (i - u \in 1 .. Len(y) /\ (o + u) + (i - u) = o + i /\ o + u <= m)
        \/ i = w \/ (i - w \in 1 .. Len(z) /\ (o + w) + (i - w) = o + i /\ o + w <= m)
    <3> HIDE DEF x, y, z
    <3> QED
      BY <1>2, <1>4, <1>13
  <2>2. CASE i \in 1 .. Len(x)
    BY <1>6, <1>13, <2>2, CutRows
  <2>3. CASE i = u
    BY <1>7, <1>12, <1>13, <2>3
  <2>4. CASE i - u \in 1 .. Len(y) /\ (o + u) + (i - u) = o + i /\ o + u <= m
    <3>1. InField(st[o + i], R, first, e.login)
      BY <1>8, <1>13, <2>4
    <3> QED
      BY <3>1, CutRows
  <2>5. CASE i = w
    BY <1>9, <1>12, <1>13, <2>5
  <2>6. CASE i - w \in 1 .. Len(z) /\ (o + w) + (i - w) = o + i /\ o + w <= m
    <3>1. InField(st[o + i], R, second, e.password)
      BY <1>10, <1>13, <2>6
    <3> QED
      BY <3>1, CutRows
  <2> QED
    BY <2>1, <2>2, <2>3, <2>4, <2>5, <2>6
<1> QED
  BY <1>2, <1>11, <1>13

----------------------------------------------------------------------------
(* csv: the rows of a document                                              *)

CsvBlocks(entries) == [i \in 1 .. Len(entries) |-> CsvRow(entries[i])]

\* Where the rows of a text are: row k begins behind begin[k - 1], and the
\* header is before the first.
CsvLaid(entries, doc, begin) ==
  /\ doc \in Seq(Chars) /\ Len(doc) \in Nat
  /\ begin \in [0 .. Len(entries) -> 1 .. Len(doc)]
  /\ begin[0] = 1 /\ begin[Len(entries)] = Len(doc)
  /\ \A k \in 1 .. Len(entries) :
       /\ begin[k] = begin[k - 1] + Len(CsvRow(entries[k]))
       /\ Len(CsvRow(entries[k])) \in Nat /\ Len(CsvRow(entries[k])) > 0
       /\ \A i \in 1 .. Len(CsvRow(entries[k])) :
            doc[begin[k - 1] + i] = CsvRow(entries[k])[i]
  /\ \A p \in 2 .. Len(doc) :
       \E k \in 1 .. Len(entries) : p > begin[k - 1] /\ p <= begin[k]

LEMMA CsvLayout ==
  ASSUME NEW entries, IsVault(entries)
  PROVE  \E begin : CsvLaid(entries, ToCsv(entries), begin)
<1> DEFINE n == Len(entries)
           blocks == CsvBlocks(entries)
           flat == FlattenSeq(blocks)
           doc == ToCsv(entries)
<1>1. n \in Nat /\ \A k \in 1 .. n : IsEntry(entries[k])
  BY VaultEntries
<1>2. \A k \in 1 .. n : blocks[k] = CsvRow(entries[k])
  BY DEF CsvBlocks
<1>3. \A k \in 1 .. n : /\ CsvRow(entries[k]) \in Seq(Chars)
                        /\ Len(CsvRow(entries[k])) \in Nat /\ Len(CsvRow(entries[k])) > 0
  <2> SUFFICES ASSUME NEW k \in 1 .. n
               PROVE  /\ CsvRow(entries[k]) \in Seq(Chars)
                      /\ Len(CsvRow(entries[k])) \in Nat /\ Len(CsvRow(entries[k])) > 0
    OBVIOUS
  <2>1. PICK u, w, l : CsvParts(entries[k], u, w, l)
    BY <1>1, CsvRowParts
  <2> QED
    BY <2>1 DEF CsvParts
<1>4. blocks \in Seq(Seq(Chars)) /\ Len(blocks) = n
  BY <1>1, <1>3 DEF CsvBlocks
<1>5. doc = <<"H">> \o flat
  BY DEF ToCsv, CsvBlocks
<1> HIDE DEF n, blocks
<1>6. flat \in Seq(Chars)
  BY <1>4, FlattenLayout
<1>7. PICK begin : Layout(flat, blocks, begin)
  BY <1>4, FlattenLayout
<1> HIDE DEF flat, doc
<1>8. doc \in Seq(Chars) /\ Len(flat) \in Nat /\ Len(doc) \in Nat /\ Len(doc) = Len(flat) + 1
  BY <1>5, <1>6 DEF Chars
<1>16. \A i \in 1 .. Len(flat) : doc[1 + i] = flat[i]
  <2>1. <<"H">> \in Seq(Chars) /\ Len(<<"H">>) = 1
    BY DEF Chars
  <2> QED
    BY <1>5, <1>6, <2>1, ConcatParts
<1>9. /\ begin \in [0 .. n -> 0 .. Len(flat)] /\ begin[0] = 0 /\ begin[n] = Len(flat)
      /\ \A k \in 1 .. n :
           /\ begin[k] = begin[k - 1] + Len(CsvRow(entries[k]))
           /\ \A i \in 1 .. Len(CsvRow(entries[k])) :
                flat[begin[k - 1] + i] = CsvRow(entries[k])[i]
  BY <1>2, <1>3, <1>4, <1>7 DEF Layout
<1>10. \A p \in 1 .. Len(flat) : \E k \in 1 .. n : p > begin[k - 1] /\ p <= begin[k]
  <2>1. \A p \in 1 .. Len(flat) :
          \E k \in 1 .. Len(blocks) : p > begin[k - 1] /\ p <= begin[k]
    BY <1>4, <1>6, <1>7, LayoutPlace
  <2> QED
    BY <1>4, <2>1
<1> DEFINE after == [k \in 0 .. n |-> begin[k] + 1]
<1>11. \A k \in 0 .. n : after[k] = begin[k] + 1 /\ begin[k] \in 0 .. Len(flat)
  BY <1>9
<1>17. \A k \in 1 .. n : k \in 0 .. n /\ k - 1 \in 0 .. n
  BY <1>1
<1>12. after \in [0 .. n -> 1 .. Len(doc)] /\ after[0] = 1 /\ after[n] = Len(doc)
  <2>1. 0 \in 0 .. n /\ n \in 0 .. n
    BY <1>1
  <2> QED
    BY <1>8, <1>9, <1>11, <2>1
<1> HIDE DEF after
<1>13. ASSUME NEW k \in 1 .. n
       PROVE  /\ after[k] = after[k - 1] + Len(CsvRow(entries[k]))
              /\ \A i \in 1 .. Len(CsvRow(entries[k])) :
                   doc[after[k - 1] + i] = CsvRow(entries[k])[i]
  <2>1. /\ after[k] = begin[k] + 1 /\ after[k - 1] = begin[k - 1] + 1
        /\ begin[k] \in 0 .. Len(flat) /\ begin[k - 1] \in 0 .. Len(flat)
        /\ Len(CsvRow(entries[k])) \in Nat /\ begin[k] = begin[k - 1] + Len(CsvRow(entries[k]))
    BY <1>3, <1>9, <1>11, <1>17
  <2>2. after[k] = after[k - 1] + Len(CsvRow(entries[k]))
    BY <1>8, <2>1
  <2>3. ASSUME NEW i \in 1 .. Len(CsvRow(entries[k]))
        PROVE  doc[after[k - 1] + i] = CsvRow(entries[k])[i]
    <3>a. begin[k - 1] + i \in 1 .. Len(flat)
      BY <1>8, <2>1
    <3>b. after[k - 1] + i = 1 + (begin[k - 1] + i)
      BY <1>8, <2>1
    <3>1. /\ begin[k - 1] + i \in 1 .. Len(flat)
          /\ after[k - 1] + i = 1 + (begin[k - 1] + i)
      BY <3>a, <3>b
    <3>2. doc[1 + (begin[k - 1] + i)] = flat[begin[k - 1] + i]
      BY <1>16, <3>1
    <3> QED
      BY <1>9, <3>1, <3>2
  <2> QED
    BY <2>2, <2>3
<1>14. ASSUME NEW p \in 2 .. Len(doc)
       PROVE  \E k \in 1 .. n : p > after[k - 1] /\ p <= after[k]
  <2>1. p - 1 \in 1 .. Len(flat)
    BY <1>8
  <2>2. PICK k \in 1 .. n : p - 1 > begin[k - 1] /\ p - 1 <= begin[k]
    BY <1>10, <2>1
  <2>3. /\ after[k] = begin[k] + 1 /\ after[k - 1] = begin[k - 1] + 1
        /\ begin[k] \in 0 .. Len(flat) /\ begin[k - 1] \in 0 .. Len(flat)
    BY <1>11, <1>17
  <2>4. p > after[k - 1] /\ p <= after[k]
    BY <1>8, <2>2, <2>3
  <2> QED
    BY <2>4
<1>15. CsvLaid(entries, doc, after)
  BY <1>3, <1>8, <1>12, <1>13, <1>14 DEF CsvLaid, n
<1> QED
  BY <1>15 DEF doc

\* Each row is read from where it begins, as far as the text goes.
LEMMA RowReading ==
  ASSUME NEW entries, IsVault(entries), NEW full, NEW begin, CsvLaid(entries, full, begin),
         NEW p \in 1 .. Len(full), NEW k \in 1 .. Len(entries)
  PROVE  ReadingFrom(CsvReader(SubSeq(full, 1, p)), begin[k - 1], p, CsvRow(entries[k]))
<1> DEFINE n == Len(entries)
           doc == SubSeq(full, 1, p)
           read == CsvReader(doc)
           row == CsvRow(entries[k])
           o == begin[k - 1]
<1>1. n \in Nat /\ full \in Seq(Chars) /\ Len(full) \in Nat
  BY VaultEntries DEF CsvLaid
<1>2. k - 1 \in 0 .. n
  BY <1>1
<1>3. /\ o \in 1 .. Len(full)
      /\ \A i \in 1 .. Len(row) : full[o + i] = row[i]
  BY <1>2 DEF CsvLaid, n
<1>4. doc \in Seq(Chars) /\ Len(doc) = p /\ p \in Nat /\ \A i \in 1 .. p : doc[i] = full[i]
  BY <1>1
<1> HIDE DEF doc, row, o
<1>5. \A i \in 0 .. p : read[i] = IF i <= 1 THEN CsvStart ELSE CsvRead(read[i - 1], doc[i])
  BY <1>4, ReaderSteps
<1> HIDE DEF read
<1>6. ReadingFrom(read, o, p, row)
  <2> SUFFICES ASSUME NEW i \in 1 .. Len(row), o + i <= p
               PROVE  read[o + i] = CsvRead(read[o + i - 1], row[i])
    BY DEF ReadingFrom
  <2>1. o + i \in 0 .. p /\ o + i \in 1 .. p /\ ~(o + i <= 1)
    BY <1>1, <1>3, <1>4
  <2> DEFINE q == o + i
  <2>3. q \in 0 .. p /\ ~(q <= 1)
    BY <2>1
  <2> HIDE DEF q
  <2>4. read[q] = CsvRead(read[q - 1], doc[q])
    BY <1>5, <2>3
  <2>5. q - 1 = o + i - 1
    BY <1>1, <1>3 DEF q
  <2>2. read[o + i] = CsvRead(read[o + i - 1], doc[o + i])
    BY <2>4, <2>5 DEF q
  <2> QED
    BY <1>3, <1>4, <2>1, <2>2
<1> QED
  BY <1>6 DEF read, doc, o, row

\* The rows of the first k entries.
Rows(entries, k) == [j \in 1 .. k |-> RowOf(entries[j])]

LEMMA RowOfEntry ==
  ASSUME NEW e, IsEntry(e)
  PROVE  /\ RowOf(e) \in Seq(Seq(Chars)) /\ Len(RowOf(e)) = 3
         /\ RowOf(e)[1] = e.service /\ RowOf(e)[2] = e.login /\ RowOf(e)[3] = e.password
<1>1. e.password \in Seq(Chars)
  BY EntryFacts
<1> QED
  BY <1>1, RowFacts DEF RowOf

LEMMA RowsNext ==
  ASSUME NEW entries, IsVault(entries), NEW k \in 0 .. Len(entries)
  PROVE  /\ Rows(entries, k) \in Seq(Seq(Seq(Chars))) /\ Len(Rows(entries, k)) = k
         /\ \A j \in 1 .. k : Rows(entries, k)[j] = RowOf(entries[j])
         /\ k < Len(entries) =>
              Append(Rows(entries, k), RowOf(entries[k + 1])) = Rows(entries, k + 1)
<1> DEFINE T == Seq(Seq(Chars))
<1>1. Len(entries) \in Nat /\ \A j \in 1 .. Len(entries) : IsEntry(entries[j])
  BY VaultEntries
<1>2. k \in Nat /\ \A j \in 1 .. k : j \in 1 .. Len(entries)
  BY <1>1
<1>3. \A j \in 1 .. Len(entries) : RowOf(entries[j]) \in T
  BY <1>1, RowOfEntry
<1> HIDE DEF T
<1>4. \A j \in 1 .. k : RowOf(entries[j]) \in T
  BY <1>2, <1>3
<1>5. Rows(entries, k) \in Seq(T) /\ Len(Rows(entries, k)) = k
  BY <1>2, <1>4 DEF Rows
<1>6. \A j \in 1 .. k : Rows(entries, k)[j] = RowOf(entries[j])
  BY DEF Rows
<1>7. ASSUME k < Len(entries)
      PROVE  Append(Rows(entries, k), RowOf(entries[k + 1])) = Rows(entries, k + 1)
  <2> DEFINE x == RowOf(entries[k + 1])
             s == Rows(entries, k)
             t == Rows(entries, k + 1)
  <2>1. k + 1 \in 1 .. Len(entries) /\ k + 1 \in Nat /\ \A j \in 1 .. k + 1 : j \in 1 .. Len(entries)
    BY <1>1, <1>2, <1>7
  <2>2. \A j \in 1 .. k + 1 : RowOf(entries[j]) \in T
    BY <1>3, <2>1
  <2>3. t \in Seq(T) /\ Len(t) = k + 1 /\ \A j \in 1 .. k + 1 : t[j] = RowOf(entries[j])
    BY <2>1, <2>2 DEF Rows
  <2>4. x \in T
    BY <1>3, <2>1
  <2> HIDE DEF s, t
  <2>5. Append(s, x) \in Seq(T) /\ Len(Append(s, x)) = k + 1
    BY <1>5, <2>4 DEF s
  <2>6. \A j \in 1 .. k + 1 : Append(s, x)[j] = t[j]
    BY <1>2, <1>5, <1>6, <2>3, <2>4 DEF s
  <2>7. Append(s, x) = t
    BY <2>3, <2>5, <2>6, SeqEqual
  <2> QED
    BY <2>7 DEF s, t
<1> QED
  BY <1>5, <1>6, <1>7 DEF T

\* Where a row begins, the reader has the rows before it and nothing else.
LEMMA RowsRead ==
  ASSUME NEW entries, IsVault(entries), NEW full, NEW begin, CsvLaid(entries, full, begin),
         NEW p \in 1 .. Len(full)
  PROVE  \A k \in 0 .. Len(entries) : begin[k] <= p =>
           CsvReader(SubSeq(full, 1, p))[begin[k]] = State(Rows(entries, k), <<>>, <<>>, "row")
<1> DEFINE n == Len(entries)
           doc == SubSeq(full, 1, p)
           read == CsvReader(doc)
           P == {k \in 0 .. n : begin[k] <= p =>
                   read[begin[k]] = State(Rows(entries, k), <<>>, <<>>, "row")}
<1>1. /\ n \in Nat /\ full \in Seq(Chars) /\ Len(full) \in Nat
      /\ \A k \in 1 .. n : IsEntry(entries[k])
  BY VaultEntries DEF CsvLaid
<1>2. /\ begin \in [0 .. n -> 1 .. Len(full)] /\ begin[0] = 1
      /\ \A k \in 1 .. n : begin[k] = begin[k - 1] + Len(CsvRow(entries[k]))
      /\ \A k \in 1 .. n : Len(CsvRow(entries[k])) \in Nat /\ Len(CsvRow(entries[k])) > 0
  BY DEF CsvLaid
<1>3. doc \in Seq(Chars) /\ Len(doc) = p /\ p \in Nat /\ p >= 1
  BY <1>1
<1>4. read[1] = CsvStart
  <2> HIDE DEF doc
  <2>1. 1 \in 0 .. Len(doc)
    BY <1>3
  <2> QED
    BY <1>3, <2>1, ReaderSteps
<1>5. \A k \in 1 .. n : ReadingFrom(read, begin[k - 1], p, CsvRow(entries[k]))
  BY RowReading
<1> HIDE DEF read, doc
<1>6. 0 \in P
  <2>1. Rows(entries, 0) = <<>>
    BY DEF Rows
  <2> QED
    BY <1>1, <1>2, <1>4, <2>1 DEF CsvStart, State
<1>7. ASSUME NEW k \in 0 .. n - 1, k \in P PROVE k + 1 \in P
  <2> DEFINE e == entries[k + 1]
             l == Len(CsvRow(e))
             o == begin[k]
             R == Rows(entries, k)
  <2>1. /\ k + 1 \in 1 .. n /\ k + 1 \in 0 .. n /\ (k + 1) - 1 = k /\ k \in 0 .. n /\ k < n
    BY <1>1
  <2>2. IsEntry(e) /\ l \in Nat /\ l > 0 /\ o \in 1 .. Len(full) /\ begin[k + 1] = o + l
    BY <1>1, <1>2, <2>1
  <2>3. ReadingFrom(read, o, p, CsvRow(e))
    BY <1>5, <2>1
  <2> HIDE DEF l, o
  <2>4. ASSUME begin[k + 1] <= p
        PROVE  read[begin[k + 1]] = State(Rows(entries, k + 1), <<>>, <<>>, "row")
    <3>1. o \in Nat /\ o <= p /\ l \in 1 .. l /\ o + l <= p /\ begin[k + 1] = o + l
      BY <1>1, <1>3, <2>2, <2>4
    <3>2. read[o] = State(R, <<>>, <<>>, "row")
      BY <1>7, <3>1 DEF o
    <3> HIDE DEF R, e
    <3>3. read[o + l] = State(Append(R, RowOf(e)), <<>>, <<>>, "row")
      BY <1>3, <2>2, <2>3, <3>1, <3>2, RowInside DEF l
    <3>4. Append(R, RowOf(e)) = Rows(entries, k + 1)
      BY <2>1, RowsNext DEF R, e, n
    <3> QED
      BY <3>1, <3>3, <3>4
  <2> QED
    BY <2>1, <2>4
<1>8. \A k \in 0 .. n : k \in P
  <2> HIDE DEF P
  <2> QED
    BY <1>1, <1>6, <1>7, Induction
<1> QED
  BY <1>8 DEF read, doc

\* What is read of a text: the rows of the first entries, and perhaps what is
\* left of the next one.
CsvCutAt(entries, rows) ==
  \E k \in 0 .. Len(entries) :
    \/ rows = Rows(entries, k)
    \/ /\ k < Len(entries)
       /\ \E row \in Seq(Seq(Chars)) :
            CutRow(entries[k + 1], row) /\ rows = Append(Rows(entries, k), row)

LEMMA CsvLines ==
  ASSUME NEW entries, IsVault(entries), NEW p \in 0 .. Len(ToCsv(entries))
  PROVE  /\ CsvCutAt(entries, CsvRows(SubSeq(ToCsv(entries), 1, p)))
         /\ p = Len(ToCsv(entries)) =>
              CsvRows(SubSeq(ToCsv(entries), 1, p)) = Rows(entries, Len(entries))
<1> DEFINE n == Len(entries)
           full == ToCsv(entries)
           doc == SubSeq(full, 1, p)
           read == CsvReader(doc)
<1>1. n \in Nat /\ \A k \in 1 .. n : IsEntry(entries[k])
  BY VaultEntries
<1>2. PICK begin : CsvLaid(entries, full, begin)
  BY CsvLayout
<1>3. /\ full \in Seq(Chars) /\ Len(full) \in Nat
      /\ begin \in [0 .. n -> 1 .. Len(full)] /\ begin[0] = 1 /\ begin[n] = Len(full)
      /\ \A k \in 1 .. n : begin[k] = begin[k - 1] + Len(CsvRow(entries[k]))
      /\ \A k \in 1 .. n : Len(CsvRow(entries[k])) \in Nat /\ Len(CsvRow(entries[k])) > 0
      /\ \A q \in 2 .. Len(full) : \E k \in 1 .. n : q > begin[k - 1] /\ q <= begin[k]
  BY <1>2 DEF CsvLaid
<1> HIDE DEF full
<1>4. doc \in Seq(Chars) /\ Len(doc) = p /\ p \in Nat /\ p <= Len(full)
  BY <1>3 DEF full
<1>5. CsvRows(doc) = IF read[p].at = "row" THEN read[p].rows ELSE EndRow(read[p]).rows
  BY <1>4 DEF CsvRows
<1>6. \A R : State(R, <<>>, <<>>, "row").rows = R /\ State(R, <<>>, <<>>, "row").at = "row"
  BY DEF State
<1>7. CASE p = 0
  <2>1. read[0] = CsvStart
    <3> HIDE DEF doc
    <3>1. 0 \in 0 .. Len(doc)
      BY <1>4
    <3> QED
      BY <1>4, <3>1, ReaderSteps
  <2>2. Rows(entries, 0) = <<>>
    BY DEF Rows
  <2>3. CsvRows(doc) = Rows(entries, 0)
    BY <1>5, <1>7, <2>1, <2>2 DEF CsvStart
  <2>4. 0 \in 0 .. n /\ p # Len(full)
    BY <1>1, <1>3, <1>7
  <2> QED
    BY <2>3, <2>4 DEF CsvCutAt, full, n, doc
<1>8. CASE p # 0
  <2>1. p \in 1 .. Len(full)
    BY <1>4, <1>8
  <2>2. \A k \in 0 .. n : begin[k] <= p =>
          read[begin[k]] = State(Rows(entries, k), <<>>, <<>>, "row")
    BY <1>2, <2>1, RowsRead
  <2>3. \A k \in 1 .. n : ReadingFrom(read, begin[k - 1], p, CsvRow(entries[k]))
    BY <1>2, <2>1, RowReading
  <2> HIDE DEF read, doc
  <2>4. ASSUME NEW k \in 0 .. n, begin[k] = p PROVE CsvRows(doc) = Rows(entries, k)
    <3>1. begin[k] <= p
      BY <1>4, <2>4
    <3>2. read[p] = State(Rows(entries, k), <<>>, <<>>, "row")
      BY <2>2, <2>4, <3>1
    <3> QED
      BY <1>5, <1>6, <3>2
  <2>5. p = Len(full) => CsvRows(doc) = Rows(entries, n)
    <3>1. n \in 0 .. n
      BY <1>1
    <3> QED
      BY <1>3, <2>4, <3>1
  <2>6. CASE \E k \in 0 .. n : begin[k] = p
    <3>1. CsvCutAt(entries, CsvRows(doc))
      BY <2>4, <2>6 DEF CsvCutAt, n
    <3> QED
      BY <2>5, <3>1 DEF full, doc, n
  <2>7. CASE \A k \in 0 .. n : begin[k] # p
    <3>1. p \in 2 .. Len(full)
      <4>1. p # 1
        BY <1>1, <1>3, <2>7
      <4> QED
        BY <1>3, <2>1, <4>1
    <3>2. PICK next \in 1 .. n : p > begin[next - 1] /\ p <= begin[next]
      BY <1>3, <3>1
    <3> DEFINE k == next - 1
               e == entries[next]
               o == begin[k]
               i == p - o
               R == Rows(entries, k)
    <3>3. k \in 0 .. n /\ k + 1 = next /\ next \in 0 .. n /\ k < n
      BY <1>1
    <3>4. IsEntry(e) /\ o \in 1 .. Len(full) /\ begin[next] = o + Len(CsvRow(e)) /\ Len(CsvRow(e)) \in Nat
      BY <1>1, <1>3, <3>3
    <3>5. begin[next] # p /\ p > o /\ p <= begin[next]
      BY <2>7, <3>2, <3>3
    <3> HIDE DEF k, e, o
    <3>6. /\ i \in 1 .. Len(CsvRow(e)) /\ i < Len(CsvRow(e)) /\ o + i = p /\ o + i <= p
          /\ o \in Nat /\ o <= p
      BY <1>4, <3>4, <3>5
    <3> HIDE DEF i, R
    <3>7. ReadingFrom(read, o, p, CsvRow(e)) /\ read[o] = State(R, <<>>, <<>>, "row")
      BY <2>2, <2>3, <3>3, <3>6 DEF o, k, e, R
    <3>8. InRow(read[o + i], R, e)
      BY <1>4, <3>4, <3>6, <3>7, RowInside
    <3>9. PICK row \in Seq(Seq(Chars)) :
            CutRow(e, row) /\ EndRow(read[p]) = State(Append(R, row), <<>>, <<>>, "row")
      BY <3>6, <3>8 DEF InRow
    <3>10. read[p].at # "row"
      BY <3>6, <3>8 DEF InRow
    <3>11. CsvRows(doc) = Append(R, row)
      BY <1>5, <1>6, <3>9, <3>10
    <3>12. CutRow(entries[k + 1], row) /\ CsvRows(doc) = Append(Rows(entries, k), row)
      BY <3>3, <3>9, <3>11 DEF R, e
    <3>13. CsvCutAt(entries, CsvRows(doc))
      BY <3>3, <3>12 DEF CsvCutAt, n
    <3> QED
      BY <2>5, <3>13 DEF full, doc, n
  <2> QED
    BY <2>6, <2>7
<1> QED
  BY <1>7, <1>8

CsvFull(rows) == {i \in 1 .. Len(rows) : Len(rows[i]) >= 3}

CsvEntry(row) == [service |-> row[1], login |-> row[2], password |-> row[3]]

CsvFound(rows) == [i \in CsvFull(rows) |-> CsvEntry(rows[i])]

LEMMA ParseCsvFacts ==
  ASSUME NEW doc, NEW n \in Nat, Len(CsvRows(doc)) = n
  PROVE  /\ ParseCsv(doc).data = Collect(CsvFound(CsvRows(doc)))
         /\ ParseCsv(doc).skipped = Cardinality((1 .. n) \ CsvFull(CsvRows(doc)))
         /\ ParseCsv(doc).skipped \in Nat
         /\ DOMAIN CsvFound(CsvRows(doc)) \subseteq 0 .. n
<1>1. /\ ParseCsv(doc).data = Collect(CsvFound(CsvRows(doc)))
      /\ ParseCsv(doc).skipped = Cardinality((1 .. n) \ CsvFull(CsvRows(doc)))
  BY DEF ParseCsv, CsvFound, CsvFull, CsvEntry
<1>2. Cardinality((1 .. n) \ CsvFull(CsvRows(doc))) \in Nat
  <2>1. IsFiniteSet(1 .. n)
    BY FS_Interval
  <2>2. IsFiniteSet((1 .. n) \ CsvFull(CsvRows(doc)))
    BY <2>1, FS_Subset
  <2> QED
    BY <2>2, FS_CardinalityType
<1>3. DOMAIN CsvFound(CsvRows(doc)) \subseteq 0 .. n
  BY DEF CsvFound, CsvFull
<1> QED
  BY <1>1, <1>2, <1>3

\* The row of an entry is read as the entry.
LEMMA EntryOfRow ==
  ASSUME NEW e, IsEntry(e)
  PROVE  Len(RowOf(e)) = 3 /\ CsvEntry(RowOf(e)) = e
<1>1. e = [service |-> e.service, login |-> e.login, password |-> e.password]
  BY DEF IsEntry, Entries
<1>2. /\ Len(RowOf(e)) = 3
      /\ RowOf(e)[1] = e.service /\ RowOf(e)[2] = e.login /\ RowOf(e)[3] = e.password
  BY RowOfEntry
<1> QED
  BY <1>1, <1>2 DEF CsvEntry

LEMMA EnoughFields ==
  ASSUME NEW n
  PROVE  (n = 3 => n >= 3) /\ (n \in {1, 2} => ~(n >= 3))
  OBVIOUS

\* Rows that are all whole bring the first entries.
LEMMA RowsFound ==
  ASSUME NEW entries, IsVault(entries), NEW k \in 0 .. Len(entries)
  PROVE  /\ CsvFull(Rows(entries, k)) = 1 .. k
         /\ Collect(CsvFound(Rows(entries, k))) = Collect(SubSeq(entries, 1, k))
<1> DEFINE rows == Rows(entries, k)
           found == CsvFound(rows)
           first == SubSeq(entries, 1, k)
           o == [j \in 1 .. k |-> j]
<1>1. /\ Len(entries) \in Nat /\ k \in Nat
      /\ \A j \in 1 .. k : j \in 1 .. Len(entries) /\ IsEntry(entries[j])
  BY VaultEntries
<1>2. Len(rows) = k /\ \A j \in 1 .. k : rows[j] = RowOf(entries[j])
  BY RowsNext
<1>3. DOMAIN first = 1 .. k /\ (\A j \in 1 .. k : first[j] = entries[j]) /\ Distinct(first)
  BY FirstEntries
<1> HIDE DEF rows, first
<1>4. \A j \in 1 .. k : Len(rows[j]) = 3 /\ CsvEntry(rows[j]) = entries[j]
  BY <1>1, <1>2, EntryOfRow
<1>5. CsvFull(rows) = 1 .. k
  <2>1. \A j \in 1 .. k : Len(rows[j]) >= 3
    BY <1>4, EnoughFields, Zenon
  <2> QED
    BY <1>2, <2>1 DEF CsvFull
<1>6. DOMAIN found = 1 .. k /\ \A j \in 1 .. k : found[j] = entries[j]
  BY <1>4, <1>5 DEF CsvFound
<1> HIDE DEF found
<1>7. Placed(found, first, o)
  BY <1>3, <1>6 DEF Placed
<1>8. DOMAIN found \subseteq 0 .. k
  BY <1>6
<1> HIDE DEF o
<1>9. Collect(found) = Collect(first)
  BY <1>1, <1>3, <1>7, <1>8, CollectPlaced
<1> QED
  BY <1>5, <1>9 DEF rows, found, first

\* A row that lacks a field is skipped, and any other brings what is left of
\* the password of its entry.
LEMMA CutRowFound ==
  ASSUME NEW entries, IsVault(entries), NEW k \in 0 .. Len(entries) - 1,
         NEW row \in Seq(Seq(Chars)), CutRow(entries[k + 1], row)
  PROVE  LET rows == Append(Rows(entries, k), row)
         IN  /\ Len(rows) = k + 1
             /\ \/ Collect(CsvFound(rows)) = Collect(SubSeq(entries, 1, k))
                \/ \E n \in 0 .. Len(entries[k + 1].password) :
                     Collect(CsvFound(rows))
                       = Collect(Append(SubSeq(entries, 1, k), CutTo(entries[k + 1], n)))
<1> DEFINE before == Rows(entries, k)
           rows == Append(before, row)
           found == CsvFound(rows)
           e == entries[k + 1]
<1>1. /\ Len(entries) \in Nat /\ k \in Nat /\ k \in 0 .. Len(entries) /\ k + 1 \in 1 .. Len(entries)
      /\ k \in 0 .. Len(entries) - 1
      /\ \A j \in 1 .. Len(entries) : IsEntry(entries[j])
  BY VaultEntries
<1>2. /\ before \in Seq(Seq(Seq(Chars))) /\ Len(before) = k
      /\ \A j \in 1 .. k : before[j] = RowOf(entries[j])
  BY <1>1, RowsNext
<1>3. IsEntry(e) /\ \A j \in 1 .. k : j \in 1 .. Len(entries) /\ IsEntry(entries[j])
  BY <1>1
<1> HIDE DEF before
<1>4. Len(rows) = k + 1 /\ rows[k + 1] = row /\ \A j \in 1 .. k : rows[j] = before[j]
  BY <1>1, <1>2
<1> HIDE DEF rows, e
<1>5. \A j \in 1 .. k : Len(rows[j]) = 3 /\ CsvEntry(rows[j]) = entries[j]
  BY <1>2, <1>3, <1>4, EntryOfRow
<1>6. \A j \in 1 .. k + 1 : j \in 1 .. k \/ j = k + 1
  BY <1>1
<1>7. CASE Len(row) \in {1, 2}
  <2> DEFINE first == SubSeq(entries, 1, k)
             o == [j \in 1 .. k |-> j]
  <2>1. CsvFull(rows) = 1 .. k
    <3>1. \A j \in 1 .. k : Len(rows[j]) >= 3
      BY <1>5, EnoughFields, Zenon
    <3>2. ~(Len(rows[k + 1]) >= 3)
      <4>1. rows[k + 1] = row
        BY <1>4
      <4>2. ~(Len(row) >= 3)
        BY <1>7, EnoughFields, Zenon
      <4> QED
        BY <4>1, <4>2
    <3>4. \A j \in 1 .. k : j \in 1 .. k + 1
      <4>1. k \in Nat
        BY <1>1
      <4> QED
        BY <4>1
    <3>3. CsvFull(rows) = {j \in 1 .. k + 1 : Len(rows[j]) >= 3}
      BY <1>4 DEF CsvFull
    <3> QED
      BY <1>6, <3>1, <3>2, <3>3, <3>4
  <2>2. DOMAIN first = 1 .. k /\ (\A j \in 1 .. k : first[j] = entries[j]) /\ Distinct(first)
    BY <1>1, FirstEntries
  <2>3. DOMAIN found = 1 .. k /\ \A j \in 1 .. k : found[j] = entries[j]
    BY <1>5, <2>1 DEF CsvFound
  <2> HIDE DEF found, first
  <2>4. Placed(found, first, o)
    BY <2>2, <2>3 DEF Placed
  <2>5. DOMAIN found \subseteq 0 .. k
    BY <2>3
  <2> HIDE DEF o
  <2>6. Collect(found) = Collect(first)
    BY <1>1, <2>2, <2>4, <2>5, CollectPlaced
  <2> QED
    BY <1>4, <2>6 DEF rows, before, found, first
<1>8. CASE ~(Len(row) \in {1, 2})
  <2>1. PICK n \in 0 .. Len(e.password) :
          /\ Len(row) = 3 /\ row[1] = e.service /\ row[2] = e.login
          /\ row[3] = SubSeq(e.password, 1, n)
    BY <1>8 DEF CutRow, e
  <2> DEFINE cut == CutTo(e, n)
             more == Append(SubSeq(entries, 1, k), CutTo(entries[k + 1], n))
             o == [j \in 1 .. k + 1 |-> j]
  <2>2. CsvEntry(row) = cut
    <3>1. cut = [service |-> e.service, login |-> e.login, password |-> SubSeq(e.password, 1, n)]
      BY <1>3, CutToFields
    <3> QED
      BY <2>1, <3>1 DEF CsvEntry
  <2>a. CutBehind(more, entries, k, cut)
    BY <1>1, FirstAndCut DEF e
  <2>3. /\ DOMAIN more = 1 .. k + 1 /\ (\A j \in 1 .. k : more[j] = entries[j])
        /\ more[k + 1] = cut /\ Distinct(more)
    BY <2>a, Zenon DEF CutBehind
  <2> HIDE DEF cut, more
  <2>4. CsvFull(rows) = 1 .. k + 1
    <3>1. \A j \in 1 .. k : Len(rows[j]) >= 3
      BY <1>5, EnoughFields, Zenon
    <3>2. Len(rows[k + 1]) >= 3
      <4>1. rows[k + 1] = row
        BY <1>4
      <4>2. Len(row) >= 3
        BY <2>1, EnoughFields, Zenon
      <4> QED
        BY <4>1, <4>2
    <3>3. CsvFull(rows) = {j \in 1 .. k + 1 : Len(rows[j]) >= 3}
      BY <1>4 DEF CsvFull
    <3> QED
      BY <1>6, <3>1, <3>2, <3>3
  <2>5. DOMAIN found = 1 .. k + 1 /\ \A j \in 1 .. k + 1 : found[j] = more[j]
    BY <1>1, <1>4, <1>5, <1>6, <2>2, <2>3, <2>4 DEF CsvFound
  <2> HIDE DEF found
  <2>6. Placed(found, more, o)
    BY <2>3, <2>5 DEF Placed
  <2>7. DOMAIN found \subseteq 0 .. k + 1 /\ k + 1 \in Nat
    BY <1>1, <2>5
  <2> HIDE DEF o
  <2>8. Collect(found) = Collect(more)
    BY <2>3, <2>6, <2>7, CollectPlaced
  <2> QED
    BY <1>4, <2>1, <2>8 DEF rows, before, found, more, e
<1> QED
  BY <1>7, <1>8

\* What a vault brings: all of its entries, and none of them empty.
LEMMA VaultCollected ==
  ASSUME NEW entries, IsVault(entries)
  PROVE  /\ Filled(Collect(entries))
         /\ \A i \in 1 .. Len(entries) : Holds(Collect(entries), entries[i])
<1>1. Len(entries) \in Nat /\ DOMAIN entries = 1 .. Len(entries)
  BY VaultEntries
<1>2. \A i, j \in DOMAIN entries : entries[i].service = entries[j].service => i = j
  BY <1>1 DEF IsVault
<1>3. DOMAIN entries \subseteq 0 .. Len(entries)
  BY <1>1
<1>4. /\ DOMAIN Collect(entries) = {entries[i].service : i \in DOMAIN entries}
      /\ \A i \in DOMAIN entries : Collect(entries)[entries[i].service] = Creds(entries[i])
  BY <1>1, <1>2, <1>3, CollectAll
<1>5. \A i \in 1 .. Len(entries) :
        <<>> \notin {entries[i].service, entries[i].login, entries[i].password}
  BY DEF IsVault
<1>6. \A i \in 1 .. Len(entries) : Creds(entries[i]).login = entries[i].login
                                   /\ Creds(entries[i]).password = entries[i].password
  BY DEF Creds
<1>7. Filled(Collect(entries))
  <2> DEFINE data == Collect(entries)
  <2> HIDE DEF data
  <2>1. \A s \in DOMAIN data : \E i \in 1 .. Len(entries) :
          s = entries[i].service /\ data[s] = Creds(entries[i])
    BY <1>1, <1>4 DEF data
  <2>2. Filled(data)
    BY <1>5, <1>6, <2>1 DEF Filled, Empty
  <2> QED
    BY <2>2 DEF data
<1> QED
  BY <1>1, <1>4, <1>7 DEF Holds

LEMMA CsvWhole ==
  ASSUME NEW entries, IsVault(entries)
  PROVE  LET parsed == ParseCsv(ToCsv(entries))
         IN  parsed.skipped = 0 /\ parsed.data = Collect(entries)
<1> DEFINE n == Len(entries)
           doc == ToCsv(entries)
<1>1. n \in Nat /\ n \in 0 .. n /\ SubSeq(entries, 1, n) = entries
  BY VaultEntries
<1>2. PICK begin : CsvLaid(entries, doc, begin)
  BY CsvLayout
<1>3. Len(doc) \in 0 .. Len(doc) /\ SubSeq(doc, 1, Len(doc)) = doc
  BY <1>2 DEF CsvLaid
<1>4. CsvRows(doc) = Rows(entries, n)
  BY <1>3, CsvLines
<1>5. Len(CsvRows(doc)) = n
  BY <1>1, <1>4, RowsNext
<1>6. /\ CsvFull(CsvRows(doc)) = 1 .. n
      /\ Collect(CsvFound(CsvRows(doc))) = Collect(entries)
  BY <1>1, <1>4, RowsFound
<1> HIDE DEF n, doc
<1>7. /\ ParseCsv(doc).data = Collect(CsvFound(CsvRows(doc)))
      /\ ParseCsv(doc).skipped = Cardinality((1 .. n) \ CsvFull(CsvRows(doc)))
  BY <1>1, <1>5, ParseCsvFacts
<1>8. ParseCsv(doc).skipped = 0
  <2>1. (1 .. n) \ CsvFull(CsvRows(doc)) = {}
    BY <1>6
  <2> QED
    BY <1>7, <2>1, FS_EmptySet
<1> QED
  BY <1>6, <1>7, <1>8 DEF doc

\* A text cut short either brings an empty password, which the import refuses,
\* or the first entries and a part of the next password.
LEMMA CsvCut ==
  ASSUME NEW entries, IsVault(entries), NEW p \in 0 .. Len(ToCsv(entries))
  PROVE  LET parsed == ParseCsv(SubSeq(ToCsv(entries), 1, p))
         IN  /\ parsed.skipped \in Nat
             /\ Filled(parsed.data) => Shortened(entries, parsed.data)
<1> DEFINE n == Len(entries)
           doc == SubSeq(ToCsv(entries), 1, p)
           rows == CsvRows(doc)
<1>1. n \in Nat /\ \A j \in 1 .. n : IsEntry(entries[j])
  BY VaultEntries
<1>2. CsvCutAt(entries, rows)
  BY CsvLines
<1> HIDE DEF doc, rows
<1>3. ASSUME Len(rows) \in Nat
      PROVE  ParseCsv(doc).data = Collect(CsvFound(rows)) /\ ParseCsv(doc).skipped \in Nat
  BY <1>3, ParseCsvFacts DEF rows
<1>4. PICK k \in 0 .. n :
        \/ rows = Rows(entries, k)
        \/ /\ k < n
           /\ \E row \in Seq(Seq(Chars)) :
                CutRow(entries[k + 1], row) /\ rows = Append(Rows(entries, k), row)
  BY <1>2 DEF CsvCutAt
<1>5. CASE rows = Rows(entries, k)
  <2>1. Len(rows) \in Nat
    BY <1>1, <1>5, RowsNext
  <2>2. Collect(CsvFound(rows)) = Collect(SubSeq(entries, 1, k))
    BY <1>5, RowsFound
  <2> QED
    BY <1>3, <2>1, <2>2 DEF Shortened, doc
<1>6. CASE rows # Rows(entries, k)
  <2>1. k \in 0 .. Len(entries) - 1 /\ k + 1 \in 1 .. n /\ k \in Nat
    BY <1>1, <1>4, <1>6
  <2>2. PICK row \in Seq(Seq(Chars)) :
          CutRow(entries[k + 1], row) /\ rows = Append(Rows(entries, k), row)
    BY <1>4, <1>6
  <2>3. /\ Len(rows) = k + 1
        /\ \/ Collect(CsvFound(rows)) = Collect(SubSeq(entries, 1, k))
           \/ \E m \in 0 .. Len(entries[k + 1].password) :
                Collect(CsvFound(rows))
                  = Collect(Append(SubSeq(entries, 1, k), CutTo(entries[k + 1], m)))
    BY <2>1, <2>2, CutRowFound
  <2>4. Len(rows) \in Nat
    BY <2>1, <2>3
  <2>5. ParseCsv(doc).data = Collect(CsvFound(rows)) /\ ParseCsv(doc).skipped \in Nat
    BY <1>3, <2>4
  <2>6. CASE Collect(CsvFound(rows)) = Collect(SubSeq(entries, 1, k))
    BY <2>5, <2>6 DEF Shortened, doc
  <2>7. ASSUME NEW m \in 0 .. Len(entries[k + 1].password), Filled(ParseCsv(doc).data),
               Collect(CsvFound(rows))
                 = Collect(Append(SubSeq(entries, 1, k), CutTo(entries[k + 1], m)))
        PROVE  Shortened(entries, ParseCsv(doc).data)
    <3> DEFINE e == entries[k + 1]
               more == Append(SubSeq(entries, 1, k), CutTo(entries[k + 1], m))
    <3>1. IsEntry(e)
      BY <1>1, <2>1
    <3>2. m # 0
      <4> SUFFICES ASSUME m = 0 PROVE FALSE
        OBVIOUS
      <4>1. /\ DOMAIN more = 1 .. k + 1 /\ more[k + 1] = CutTo(e, 0) /\ Distinct(more)
        <5>1. CutBehind(more, entries, k, CutTo(e, 0))
          BY <2>1, FirstAndCut
        <5> HIDE DEF more, e
        <5> QED
          BY <5>1 DEF CutBehind
      <4>2. CutTo(e, 0).service = e.service /\ CutTo(e, 0).password = SubSeq(e.password, 1, 0)
        BY <3>1, CutToFields
      <4> HIDE DEF more, e
      <4>3. \A i, j \in DOMAIN more : more[i].service = more[j].service => i = j
        BY <4>1 DEF Distinct
      <4>4. DOMAIN more \subseteq 0 .. k + 1 /\ k + 1 \in Nat /\ k + 1 \in DOMAIN more
        BY <2>1, <4>1
      <4>5. /\ DOMAIN Collect(more) = {more[i].service : i \in DOMAIN more}
            /\ \A i \in DOMAIN more : Collect(more)[more[i].service] = Creds(more[i])
        BY <4>3, <4>4, CollectAll
      <4>6. e.service \in DOMAIN Collect(more) /\ Collect(more)[e.service] = Creds(CutTo(e, 0))
        BY <4>1, <4>2, <4>4, <4>5
      <4>7. Creds(CutTo(e, 0)).password = <<>>
        <5>1. SubSeq(e.password, 1, 0) = <<>>
          BY <3>1, EntryFacts
        <5> QED
          BY <4>2, <5>1 DEF Creds
      <4>8. Empty(Collect(more), e.service)
        BY <4>6, <4>7 DEF Empty
      <4> QED
        BY <2>5, <2>7, <4>6, <4>8 DEF Filled, more
    <3>3. m \in 1 .. Len(e.password)
      BY <3>1, <3>2, EntryFacts
    <3>4. ParseCsv(doc).data = Collect(Append(SubSeq(entries, 1, k), CutTo(e, m)))
      BY <2>5, <2>7
    <3> QED
      BY <2>1, <3>3, <3>4 DEF Shortened
  <2> QED
    BY <2>3, <2>5, <2>6, <2>7 DEF doc
<1> QED
  BY <1>5, <1>6

----------------------------------------------------------------------------
(* What an import reads from a text, and what it makes of it                *)

LEMMA WholeParsed ==
  ASSUME IsVault(vault), NEW t, t.fmt \in Formats, t.fmt = "txt" => ~TxtRefuses(vault),
         t.doc = Serialized(t.fmt)
  PROVE  /\ Parse(t).skipped = 0
         /\ Filled(Parse(t).data)
         /\ \A i \in 1 .. Len(vault) :
              t.fmt = "txt" /\ ~Unambiguous(vault[i]) => ~Holds(Parse(t).data, vault[i])
         /\ (\A i \in 1 .. Len(vault) : t.fmt = "txt" => Unambiguous(vault[i]))
              => Parse(t).data = Collect(vault)
<1>1. CASE t.fmt = "txt"
  <2>1. t.doc = ToTxt(vault) /\ Parse(t) = ParseTxt(ToTxt(vault))
    BY <1>1 DEF Serialized, Parse
  <2>2. /\ Parse(t).skipped = 0
        /\ Filled(Parse(t).data)
        /\ \A i \in 1 .. Len(vault) : ~Unambiguous(vault[i]) => ~Holds(Parse(t).data, vault[i])
        /\ (\A i \in 1 .. Len(vault) : Unambiguous(vault[i])) => Parse(t).data = Collect(vault)
    BY <1>1, <2>1, TxtWhole
  <2> QED
    BY <1>1, <2>2
<1>2. CASE t.fmt = "csv"
  <2>1. t.doc = ToCsv(vault) /\ Parse(t) = ParseCsv(ToCsv(vault))
    BY <1>2 DEF Serialized, Parse
  <2>2. Parse(t).skipped = 0 /\ Parse(t).data = Collect(vault)
    BY <2>1, CsvWhole
  <2> QED
    BY <1>2, <2>2, VaultCollected
<1>3. CASE t.fmt = "json"
  <2>1. Parse(t) = [data |-> Collect(vault), skipped |-> 0]
    BY <1>3 DEF Serialized, Parse
  <2>2. Parse(t).skipped = 0 /\ Parse(t).data = Collect(vault)
    BY <2>1
  <2> QED
    BY <1>3, <2>2, VaultCollected
<1> QED
  BY <1>1, <1>2, <1>3 DEF Formats

LEMMA CutParsed ==
  ASSUME IsVault(vault), NEW t, t.fmt \in {"txt", "csv"}, t.fmt = "txt" => ~TxtRefuses(vault),
         NEW p \in 0 .. Len(Serialized(t.fmt)), t.doc = SubSeq(Serialized(t.fmt), 1, p)
  PROVE  /\ Parse(t).skipped \in Nat
         /\ /\ Filled(Parse(t).data)
            /\ t.fmt = "txt" => \A i \in 1 .. Len(vault) : Unambiguous(vault[i])
            => Shortened(vault, Parse(t).data)
<1>1. CASE t.fmt = "txt"
  <2>1. /\ Serialized(t.fmt) = ToTxt(vault) /\ p \in 0 .. Len(ToTxt(vault))
        /\ Parse(t) = ParseTxt(SubSeq(ToTxt(vault), 1, p))
    BY <1>1 DEF Serialized, Parse
  <2>2. PICK begin : TxtLaid(vault, ToTxt(vault), begin)
    BY TxtLayout
  <2>3. SubSeq(ToTxt(vault), 1, p) \in Seq(Chars)
    BY <2>1, <2>2 DEF TxtLaid
  <2>4. Parse(t).skipped \in Nat
    BY <2>1, <2>3, ParseTxtFacts
  <2>5. (\A i \in 1 .. Len(vault) : Unambiguous(vault[i])) => Shortened(vault, Parse(t).data)
    BY <1>1, <2>1, TxtCut
  <2> QED
    BY <1>1, <2>4, <2>5
<1>2. CASE t.fmt = "csv"
  <2>1. /\ Serialized(t.fmt) = ToCsv(vault) /\ p \in 0 .. Len(ToCsv(vault))
        /\ Parse(t) = ParseCsv(SubSeq(ToCsv(vault), 1, p))
    BY <1>2 DEF Serialized, Parse
  <2>2. /\ Parse(t).skipped \in Nat
        /\ Filled(Parse(t).data) => Shortened(vault, Parse(t).data)
    BY <2>1, CsvCut
  <2> QED
    BY <2>2
<1> QED
  BY <1>1, <1>2

LEMMA UpsertedHolds ==
  ASSUME NEW data, NEW old, NEW e
  PROVE  /\ Holds(data, e) => Holds(Upserted(data, old), e)
         /\ Holds(Upserted(data, old), e) /\ ~Holds(data, e) => Holds(old, e)
  BY DEF Holds, Upserted

LEMMA UpsertedFilled ==
  ASSUME NEW data, NEW old, Filled(data), Filled(old)
  PROVE  Filled(Upserted(data, old))
<1> DEFINE both == Upserted(data, old)
<1>1. ASSUME NEW s \in DOMAIN both PROVE ~Empty(both, s)
  <2>1. \/ s \in DOMAIN data /\ both[s] = data[s]
        \/ s \in DOMAIN old /\ both[s] = old[s]
    BY DEF Upserted
  <2> HIDE DEF both
  <2> QED
    BY <2>1 DEF Filled, Empty
<1> QED
  BY <1>1 DEF Filled

----------------------------------------------------------------------------
(* The safety invariants                                                    *)

\* The text is what the vault was serialized to, or the beginning of it, and a
\* txt text is of a vault that txt does not refuse.
TextOfVault ==
  text # None =>
    /\ text = [fmt |-> text.fmt, doc |-> text.doc, whole |-> text.whole]
    /\ text.fmt = "txt" => ~TxtRefuses(vault)
    /\ text.whole => text.doc = Serialized(text.fmt)
    /\ ~text.whole => \E length \in 0 .. Len(Serialized(text.fmt)) :
                        text.doc = SubSeq(Serialized(text.fmt), 1, length)

\* The account changes with the end of an import only, which needs a text.
ImportOnce ==
  /\ result = None => target = Existing
  /\ result # None => text # None

\* What has become of an entry that save_passwords has come past.
Prepared(s) ==
  IF s \in batch.pending THEN ~Empty(batch.data, s)
                         ELSE s \in DOMAIN Existing /\ Existing[s] = batch.data[s]

\* The open transaction is about the text and has come past the entries that are
\* not in todo.
BatchOK ==
  batch.open =>
    /\ result = None /\ text # None /\ ~ParseRaises(text)
    /\ batch.data = Parse(text).data /\ batch.skipped = Parse(text).skipped
    /\ batch = [open |-> batch.open, data |-> batch.data, skipped |-> batch.skipped,
                todo |-> batch.todo, pending |-> batch.pending]
    /\ batch.pending \cap batch.todo = {}
    /\ \A s \in DOMAIN batch.data \ batch.todo : Prepared(s)

\* The properties speak of the state after the import; these are the states
\* that can come before it.
IInv ==
  /\ TypeOK
  /\ TextOfVault
  /\ ImportOnce
  /\ BatchOK
  /\ ImportAllOrNothing
  /\ NothingSkipped
  /\ ReadsBackUnlessAmbiguous
  /\ CutHarmsOneEntry

LEMMA SerializedLength ==
  ASSUME IsVault(vault), NEW fmt \in Formats
  PROVE  Len(Serialized(fmt)) \in Nat
<1>1. \E begin : TxtLaid(vault, ToTxt(vault), begin)
  BY TxtLayout
<1>2. \E begin : CsvLaid(vault, ToCsv(vault), begin)
  BY CsvLayout
<1>3. Len(ToTxt(vault)) \in Nat /\ Len(ToCsv(vault)) \in Nat /\ Len(vault) \in Nat
  BY <1>1, <1>2, VaultEntries DEF TxtLaid, CsvLaid
<1> QED
  BY <1>3 DEF Serialized, Formats

\* Before the import, the account is what it was and the properties of the
\* imported account have nothing to say.
LEMMA BeforeImport ==
  ASSUME result = None, target = Existing
  PROVE  ImportAllOrNothing /\ NothingSkipped /\ ReadsBackUnlessAmbiguous /\ CutHarmsOneEntry
  BY DEF ImportAllOrNothing, NothingSkipped, ReadsBackUnlessAmbiguous, CutHarmsOneEntry, Imported

LEMMA NoBatchIdle ==
  /\ NoBatch.open = FALSE
  /\ NoBatch.todo \cup NoBatch.pending \subseteq DOMAIN NoBatch.data
  BY DEF NoBatch

LEMMA InitIInv == Init => IInv
<1> SUFFICES ASSUME Init PROVE IInv
  OBVIOUS
<1>1. TypeOK
  BY ExistingAssumption, NoBatchIdle DEF Init, TypeOK
<1>2. TextOfVault /\ ImportOnce /\ BatchOK
  BY NoBatchIdle DEF Init, TextOfVault, ImportOnce, BatchOK
<1>3. result = None /\ target = Existing
  BY DEF Init
<1> QED
  BY <1>1, <1>2, <1>3, BeforeImport DEF IInv

LEMMA SerializeStep ==
  ASSUME IInv, NEW fmt \in Formats, Serialize(fmt)
  PROVE  IInv'
<1>1. /\ TypeOK /\ result = None /\ target = Existing /\ ~batch.open
      /\ vault' = vault /\ target' = target /\ result' = result /\ batch' = batch
      /\ text' = [fmt |-> fmt, doc |-> Serialized(fmt), whole |-> TRUE]
      /\ fmt = "txt" => ~TxtRefuses(vault)
  BY DEF IInv, ImportOnce, BatchOK, Serialize
<1>2. text'.fmt = fmt /\ text'.doc = Serialized(fmt) /\ text'.whole = TRUE
  BY <1>1
<1>3. TypeOK'
  BY <1>1, <1>2 DEF TypeOK
<1>4. TextOfVault'
  <2>1. text' = [fmt |-> text'.fmt, doc |-> text'.doc, whole |-> text'.whole]
    BY <1>1, <1>2
  <2>2. text'.fmt = "txt" => ~TxtRefuses(vault')
    BY <1>1, <1>2
  <2>3. text'.doc = Serialized(text.fmt)'
    BY <1>1, <1>2 DEF Serialized
  <2> QED
    BY <1>2, <2>1, <2>2, <2>3 DEF TextOfVault
<1>5. ImportOnce' /\ BatchOK'
  BY <1>1 DEF ImportOnce, BatchOK
<1>6. (ImportAllOrNothing /\ NothingSkipped /\ ReadsBackUnlessAmbiguous /\ CutHarmsOneEntry)'
  BY <1>1 DEF ImportAllOrNothing, NothingSkipped, ReadsBackUnlessAmbiguous, CutHarmsOneEntry, Imported
<1> QED
  BY <1>3, <1>4, <1>5, <1>6 DEF IInv

LEMMA CutStep ==
  ASSUME IInv, NEW length \in 0 .. Len(text.doc) - 1, Cut(length)
  PROVE  IInv'
<1>1. /\ TypeOK /\ TextOfVault /\ target = Existing /\ result = None
      /\ vault' = vault /\ target' = target /\ result' = result /\ batch' = batch
      /\ text # None /\ text.whole /\ ~batch.open
      /\ text' = [text EXCEPT !.doc = SubSeq(@, 1, length), !.whole = FALSE]
  BY DEF IInv, ImportOnce, Cut
<1>2. /\ text.fmt \in Formats /\ vault \in Vaults
      /\ text = [fmt |-> text.fmt, doc |-> text.doc, whole |-> text.whole]
      /\ text.fmt = "txt" => ~TxtRefuses(vault)
      /\ text.doc = Serialized(text.fmt)
  BY <1>1 DEF TypeOK, TextOfVault
<1> DEFINE fmt == text.fmt
           cut == SubSeq(text.doc, 1, length)
<1>3. text' = [fmt |-> fmt, doc |-> cut, whole |-> FALSE]
  BY <1>1, <1>2
<1>4. text'.fmt = fmt /\ text'.doc = cut /\ text'.whole = FALSE
  BY <1>3
<1>5. length \in 0 .. Len(Serialized(fmt)) /\ cut = SubSeq(Serialized(fmt), 1, length)
  <2>1. Len(text.doc) \in Nat
    BY <1>2, VaultsAssumption, SerializedLength
  <2> QED
    BY <1>2, <2>1
<1> HIDE DEF cut
<1>6. TypeOK'
  BY <1>1, <1>2, <1>4 DEF TypeOK
<1>7. TextOfVault'
  <2>1. text' = [fmt |-> text'.fmt, doc |-> text'.doc, whole |-> text'.whole]
    BY <1>3, <1>4
  <2>2. text'.fmt = "txt" => ~TxtRefuses(vault')
    BY <1>1, <1>2, <1>4
  <2>3. Serialized(text.fmt)' = Serialized(fmt)
    BY <1>1, <1>4 DEF Serialized
  <2>4. text'.doc = SubSeq(Serialized(text.fmt)', 1, length) /\ length \in 0 .. Len(Serialized(text.fmt)')
    BY <1>4, <1>5, <2>3
  <2> QED
    BY <1>4, <2>1, <2>2, <2>4 DEF TextOfVault
<1>8. ImportOnce' /\ BatchOK'
  BY <1>1 DEF ImportOnce, BatchOK
<1>9. (ImportAllOrNothing /\ NothingSkipped /\ ReadsBackUnlessAmbiguous /\ CutHarmsOneEntry)'
  BY <1>1 DEF ImportAllOrNothing, NothingSkipped, ReadsBackUnlessAmbiguous, CutHarmsOneEntry, Imported
<1> QED
  BY <1>6, <1>7, <1>8, <1>9 DEF IInv

\* A step that ends no import, or ends it without a change, and leaves the text
\* alone.
LEMMA AccountKept ==
  ASSUME IInv, vault' = vault, text' = text, target' = target,
         \/ result' = result
         \/ result' # None /\ result'.raised = TRUE /\ ~text.whole /\ result = None
  PROVE  (ImportAllOrNothing /\ NothingSkipped /\ ReadsBackUnlessAmbiguous /\ CutHarmsOneEntry)'
<1>1. CASE result' = result
  BY <1>1 DEF IInv, ImportAllOrNothing, NothingSkipped, ReadsBackUnlessAmbiguous, ReadsBack,
              CutHarmsOneEntry, Imported
<1>2. CASE result' # None /\ result'.raised = TRUE /\ ~text.whole /\ result = None
  <2>1. target' = Existing
    BY <1>2 DEF IInv, ImportOnce
  <2> QED
    BY <1>2, <2>1
       DEF ImportAllOrNothing, NothingSkipped, ReadsBackUnlessAmbiguous, CutHarmsOneEntry, Imported
<1> QED
  BY <1>1, <1>2

\* What the parser finds in the text that an import reads.
LEMMA TextParsed ==
  ASSUME IInv, text # None, ~ParseRaises(text)
  PROVE  /\ Parse(text).skipped \in Nat
         /\ text.whole =>
              /\ Parse(text).skipped = 0 /\ Filled(Parse(text).data)
              /\ \A i \in 1 .. Len(vault) :
                   text.fmt = "txt" /\ ~Unambiguous(vault[i]) => ~Holds(Parse(text).data, vault[i])
              /\ (\A i \in 1 .. Len(vault) : text.fmt = "txt" => Unambiguous(vault[i]))
                   => Parse(text).data = Collect(vault)
         /\ ~text.whole =>
              (/\ Filled(Parse(text).data)
               /\ text.fmt = "txt" => \A i \in 1 .. Len(vault) : Unambiguous(vault[i])
               => Shortened(vault, Parse(text).data))
<1> DEFINE n == Len(vault)
           parsed == Parse(text)
           data == parsed.data
<1>1. /\ text.fmt \in Formats /\ text.whole \in BOOLEAN
      /\ IsVault(vault)
      /\ text.fmt = "txt" => ~TxtRefuses(vault)
  BY VaultsAssumption DEF IInv, TypeOK, TextOfVault
<1>2. ASSUME text.whole
      PROVE  /\ parsed.skipped = 0 /\ Filled(data)
             /\ \A i \in 1 .. n :
                  text.fmt = "txt" /\ ~Unambiguous(vault[i]) => ~Holds(data, vault[i])
             /\ (\A i \in 1 .. n : text.fmt = "txt" => Unambiguous(vault[i]))
                  => data = Collect(vault)
  <2>1. text.doc = Serialized(text.fmt)
    BY <1>2 DEF IInv, TextOfVault
  <2> QED
    BY <1>1, <2>1, WholeParsed
<1>3. ASSUME ~text.whole
      PROVE  /\ parsed.skipped \in Nat
             /\ /\ Filled(data)
                /\ text.fmt = "txt" => \A i \in 1 .. n : Unambiguous(vault[i])
                => Shortened(vault, data)
  <2>1. text.fmt \in {"txt", "csv"}
    BY <1>1, <1>3 DEF ParseRaises, Formats
  <2>2. PICK length \in 0 .. Len(Serialized(text.fmt)) :
          text.doc = SubSeq(Serialized(text.fmt), 1, length)
    BY <1>3 DEF IInv, TextOfVault
  <2> QED
    BY <1>1, <1>3, <2>1, <2>2, CutParsed
<1> HIDE DEF data
<1>4. parsed.skipped \in Nat
  BY <1>2, <1>3
<1> HIDE DEF parsed
<1> QED
  BY <1>2, <1>3, <1>4 DEF parsed, data

LEMMA ImportStep ==
  ASSUME IInv, Import
  PROVE  IInv'
<1>1. /\ TypeOK /\ TextOfVault /\ ImportOnce /\ ~batch.open /\ result = None /\ text # None
      /\ vault' = vault /\ text' = text /\ target' = target
  BY DEF IInv, Import
<1>2. TextOfVault'
  BY <1>1 DEF TextOfVault, Serialized
<1>3. CASE ParseRaises(text)
  <2>1. /\ result' = [raised |-> TRUE, skipped |-> 0] /\ batch' = batch /\ ~text.whole
    BY <1>3 DEF Import, ParseRaises
  <2>2. result'.raised = TRUE /\ result'.skipped = 0 /\ result' # None
    <3>1. result' \in [raised : BOOLEAN, skipped : Nat]
      BY <2>1
    <3> QED
      BY <2>1, <3>1, NoneAssumption
  <2>3. TypeOK' /\ ImportOnce' /\ BatchOK'
    BY <1>1, <2>1, <2>2 DEF TypeOK, ImportOnce, BatchOK
  <2>4. (ImportAllOrNothing /\ NothingSkipped /\ ReadsBackUnlessAmbiguous /\ CutHarmsOneEntry)'
    BY <1>1, <2>1, <2>2, AccountKept
  <2> QED
    BY <1>2, <2>3, <2>4 DEF IInv
<1>4. CASE ~ParseRaises(text)
  <2> DEFINE parsed == Parse(text)
  <2>1. /\ batch' = [open |-> TRUE, data |-> parsed.data, skipped |-> parsed.skipped,
                     todo |-> DOMAIN parsed.data, pending |-> {}]
        /\ result' = result
    BY <1>4 DEF Import
  <2>2. /\ batch'.open = TRUE /\ batch'.data = parsed.data /\ batch'.skipped = parsed.skipped
        /\ batch'.todo = DOMAIN parsed.data /\ batch'.pending = {}
        /\ batch' = [open |-> batch'.open, data |-> batch'.data, skipped |-> batch'.skipped,
                     todo |-> batch'.todo, pending |-> batch'.pending]
    BY <2>1
  <2>3. TypeOK' /\ ImportOnce'
    BY <1>1, <2>1, <2>2 DEF TypeOK, ImportOnce
  <2>4. BatchOK'
    BY <1>1, <1>4, <2>1, <2>2 DEF BatchOK, ParseRaises
  <2>5. (ImportAllOrNothing /\ NothingSkipped /\ ReadsBackUnlessAmbiguous /\ CutHarmsOneEntry)'
    BY <1>1, <2>1, AccountKept
  <2> QED
    BY <1>2, <2>3, <2>4, <2>5 DEF IInv
<1> QED
  BY <1>3, <1>4

LEMMA PrepareStep ==
  ASSUME IInv, NEW s \in batch.todo, PrepareEntry(s)
  PROVE  IInv'
<1> DEFINE now == IF IsUnchanged(s) THEN batch.pending ELSE batch.pending \cup {s}
<1>1. /\ TypeOK /\ TextOfVault /\ ImportOnce /\ BatchOK /\ batch.open
      /\ IsUnchanged(s) \/ ~Empty(batch.data, s)
      /\ vault' = vault /\ text' = text /\ target' = target /\ result' = result
      /\ batch' = [batch EXCEPT !.todo = @ \ {s}, !.pending = now]
  BY DEF IInv, PrepareEntry
<1>2. /\ result = None /\ text # None /\ ~ParseRaises(text) /\ target = Existing
      /\ batch.data = Parse(text).data /\ batch.skipped = Parse(text).skipped
      /\ batch = [open |-> batch.open, data |-> batch.data, skipped |-> batch.skipped,
                  todo |-> batch.todo, pending |-> batch.pending]
      /\ \A x \in DOMAIN batch.data \ batch.todo : Prepared(x)
      /\ batch.todo \subseteq DOMAIN batch.data /\ batch.pending \subseteq DOMAIN batch.data
      /\ batch.pending \cap batch.todo = {}
  BY <1>1 DEF TypeOK, ImportOnce, BatchOK
<1>3. now \subseteq DOMAIN batch.data /\ batch.pending \subseteq now /\ now \subseteq batch.pending \cup {s}
  BY <1>2
<1>4. s \in now \/ (s \in DOMAIN Existing /\ Existing[s] = batch.data[s])
  BY <1>2 DEF IsUnchanged
<1>5. s \in now => ~Empty(batch.data, s)
  BY <1>1, <1>2
<1> HIDE DEF now
<1>6. /\ batch'.open = batch.open /\ batch'.data = batch.data /\ batch'.skipped = batch.skipped
      /\ batch'.todo = batch.todo \ {s} /\ batch'.pending = now
      /\ batch' = [open |-> batch'.open, data |-> batch'.data, skipped |-> batch'.skipped,
                   todo |-> batch'.todo, pending |-> batch'.pending]
  BY <1>1, <1>2
<1>7. TypeOK' /\ ImportOnce'
  BY <1>1, <1>2, <1>3, <1>6 DEF TypeOK, ImportOnce
<1>8. TextOfVault'
  BY <1>1 DEF TextOfVault, Serialized
<1>9. BatchOK'
  <2>1. ASSUME NEW x \in DOMAIN batch'.data \ batch'.todo PROVE Prepared(x)'
    <3>1. CASE x = s
      BY <1>4, <1>5, <1>6, <3>1 DEF Prepared, Empty
    <3>2. CASE x # s
      <4>1. Prepared(x) /\ (x \in batch.pending <=> x \in now)
        BY <1>2, <1>3, <1>6, <2>1, <3>2
      <4> QED
        BY <1>6, <4>1 DEF Prepared, Empty
    <3> QED
      BY <3>1, <3>2
  <2>2. batch'.pending \cap batch'.todo = {}
    BY <1>2, <1>3, <1>6
  <2> QED
    BY <1>1, <1>2, <1>6, <2>1, <2>2 DEF BatchOK, ParseRaises
<1>10. (ImportAllOrNothing /\ NothingSkipped /\ ReadsBackUnlessAmbiguous /\ CutHarmsOneEntry)'
  BY <1>1, AccountKept
<1> QED
  BY <1>7, <1>8, <1>9, <1>10 DEF IInv

LEMMA RefuseStep ==
  ASSUME IInv, NEW s \in batch.todo, RefuseEntry(s)
  PROVE  IInv'
<1>1. /\ TypeOK /\ TextOfVault /\ ImportOnce /\ BatchOK /\ batch.open
      /\ Empty(batch.data, s)
      /\ vault' = vault /\ text' = text /\ target' = target
      /\ batch' = NoBatch /\ result' = [raised |-> TRUE, skipped |-> 0]
  BY DEF IInv, RefuseEntry
<1>2. /\ result = None /\ text # None /\ ~ParseRaises(text) /\ s \in DOMAIN Parse(text).data
      /\ batch.data = Parse(text).data
  BY <1>1 DEF TypeOK, BatchOK
<1>3. ~text.whole
  BY <1>1, <1>2, TextParsed DEF Filled
<1>4. result'.raised = TRUE /\ result'.skipped = 0 /\ result' # None
  <2>1. result' \in [raised : BOOLEAN, skipped : Nat]
    BY <1>1
  <2> QED
    BY <1>1, <2>1, NoneAssumption
<1>5. TypeOK'
  BY <1>1, <1>4, NoBatchIdle DEF TypeOK
<1>6. TextOfVault' /\ ImportOnce' /\ BatchOK'
  BY <1>1, <1>2, <1>4, NoBatchIdle DEF TextOfVault, Serialized, ImportOnce, BatchOK
<1>7. (ImportAllOrNothing /\ NothingSkipped /\ ReadsBackUnlessAmbiguous /\ CutHarmsOneEntry)'
  BY <1>1, <1>2, <1>3, <1>4, AccountKept
<1> QED
  BY <1>5, <1>6, <1>7 DEF IInv

LEMMA CrashStep ==
  ASSUME IInv, Crash
  PROVE  IInv'
<1>1. /\ TypeOK /\ TextOfVault /\ ImportOnce
      /\ vault' = vault /\ text' = text /\ target' = target /\ result' = result
      /\ batch' = NoBatch
  BY DEF IInv, Crash
<1>2. TypeOK' /\ TextOfVault' /\ ImportOnce' /\ BatchOK'
  BY <1>1, NoBatchIdle DEF TypeOK, TextOfVault, Serialized, ImportOnce, BatchOK
<1>3. (ImportAllOrNothing /\ NothingSkipped /\ ReadsBackUnlessAmbiguous /\ CutHarmsOneEntry)'
  BY <1>1, AccountKept
<1> QED
  BY <1>2, <1>3 DEF IInv

\* With nothing left to prepare, writing what is pending is writing all of data.
LEMMA PendingIsAll ==
  ASSUME IInv, batch.open, batch.todo = {}
  PROVE  Upserted([s \in batch.pending |-> batch.data[s]], Existing)
           = Upserted(batch.data, Existing)
<1> DEFINE data == batch.data
           written == [s \in batch.pending |-> data[s]]
<1>1. /\ batch.pending \subseteq DOMAIN data
      /\ \A s \in DOMAIN data : Prepared(s)
  BY DEF IInv, TypeOK, BatchOK
<1>2. DOMAIN written \cup DOMAIN Existing = DOMAIN data \cup DOMAIN Existing
  BY <1>1 DEF Prepared
<1>3. ASSUME NEW s \in DOMAIN data \cup DOMAIN Existing
      PROVE  (IF s \in DOMAIN written THEN written[s] ELSE Existing[s])
               = (IF s \in DOMAIN data THEN data[s] ELSE Existing[s])
  BY <1>1 DEF Prepared
<1> HIDE DEF data, written
<1>4. Upserted(written, Existing) = Upserted(data, Existing)
  BY <1>2, <1>3 DEF Upserted
<1> QED
  BY <1>4 DEF data, written

LEMMA CommitStep ==
  ASSUME IInv, CommitBatch
  PROVE  IInv'
<1> DEFINE parsed == Parse(text)
           data == parsed.data
           n == Len(vault)
<1>1. /\ TypeOK /\ TextOfVault /\ BatchOK /\ target = Existing /\ batch.open /\ batch.todo = {}
      /\ text # None /\ ~ParseRaises(text)
      /\ batch.data = data /\ batch.skipped = parsed.skipped
      /\ vault' = vault /\ text' = text /\ batch' = NoBatch
      /\ target' = Upserted([s \in batch.pending |-> batch.data[s]], target)
      /\ result' = [raised |-> FALSE, skipped |-> parsed.skipped]
  BY DEF IInv, ImportOnce, BatchOK, CommitBatch
<1>2. /\ text.fmt \in Formats /\ text.whole \in BOOLEAN /\ vault \in Vaults
      /\ IsVault(vault) /\ Filled(Existing)
  BY <1>1, VaultsAssumption, ExistingAssumption DEF TypeOK, Filled
<1>3. /\ parsed.skipped \in Nat
      /\ text.whole =>
           /\ parsed.skipped = 0
           /\ \A i \in 1 .. n :
                text.fmt = "txt" /\ ~Unambiguous(vault[i]) => ~Holds(data, vault[i])
           /\ (\A i \in 1 .. n : text.fmt = "txt" => Unambiguous(vault[i]))
                => data = Collect(vault)
      /\ ~text.whole =>
           (/\ Filled(data)
            /\ text.fmt = "txt" => \A i \in 1 .. n : Unambiguous(vault[i])
            => Shortened(vault, data))
  BY <1>1, TextParsed
<1>4. Filled(data)
  <2>1. ASSUME NEW s \in DOMAIN batch.data PROVE ~Empty(batch.data, s)
    <3>1. Prepared(s)
      BY <1>1 DEF BatchOK
    <3>2. s \in DOMAIN Existing /\ Existing[s] = batch.data[s] => ~Empty(batch.data, s)
      BY ExistingAssumption DEF Empty
    <3> QED
      BY <3>1, <3>2 DEF Prepared
  <2> QED
    BY <1>1, <2>1 DEF Filled
<1>5. target' = Upserted(data, Existing)
  BY <1>1, PendingIsAll
<1> HIDE DEF data
<1> HIDE DEF parsed
<1>6. result'.raised = FALSE /\ result'.skipped = parsed.skipped /\ result' # None
  <2>1. result' \in [raised : BOOLEAN, skipped : Nat]
    BY <1>1, <1>3
  <2> QED
    BY <1>1, <2>1, NoneAssumption
<1>7. TypeOK'
  <2>1. \A s \in DOMAIN target' : ~Empty(target', s)
    BY <1>2, <1>4, <1>5, UpsertedFilled DEF Filled
  <2> QED
    BY <1>1, <1>2, <1>3, <1>6, <2>1, NoBatchIdle DEF TypeOK
<1>8. TextOfVault' /\ ImportOnce' /\ BatchOK'
  BY <1>1, <1>6, NoBatchIdle DEF TextOfVault, Serialized, ImportOnce, BatchOK
<1>9. ImportAllOrNothing'
  BY <1>1, <1>5, <1>6 DEF ImportAllOrNothing, Imported, data, parsed
<1>10. NothingSkipped'
  BY <1>1, <1>3, <1>6 DEF NothingSkipped
<1>11. ReadsBackUnlessAmbiguous'
  <2> SUFFICES ASSUME text.whole
               PROVE  LET lost == {i \in 1 .. n : text.fmt = "txt" /\ ~Unambiguous(vault[i])}
                      IN  /\ lost = {} => \A i \in 1 .. n : Holds(target', vault[i])
                          /\ \A i \in lost : Holds(target', vault[i]) => Holds(Existing, vault[i])
    BY <1>1, <1>6 DEF ReadsBackUnlessAmbiguous, ReadsBack, Imported, n
  <2>1. ASSUME \A i \in 1 .. n : text.fmt = "txt" => Unambiguous(vault[i]), NEW i \in 1 .. n
        PROVE  Holds(target', vault[i])
    <3>1. Holds(data, vault[i])
      BY <1>2, <1>3, <2>1, VaultCollected
    <3> QED
      BY <1>5, <3>1, UpsertedHolds
  <2>2. ASSUME NEW i \in 1 .. n, text.fmt = "txt", ~Unambiguous(vault[i]),
               Holds(target', vault[i])
        PROVE  Holds(Existing, vault[i])
    <3>1. ~Holds(data, vault[i])
      BY <1>3, <2>2
    <3> QED
      BY <1>5, <2>2, <3>1, UpsertedHolds
  <2> QED
    BY <2>1, <2>2
<1>12. CutHarmsOneEntry'
  <2> SUFFICES ASSUME ~text.whole,
                      text.fmt = "txt" => \A i \in 1 .. n : Unambiguous(vault[i])
               PROVE  \E k \in 0 .. n :
                        LET first == SubSeq(vault, 1, k)
                        IN  \/ target' = Upserted(Collect(first), Existing)
                            \/ /\ k < n
                               /\ \E m \in 1 .. Len(vault[k + 1].password) :
                                    LET cut == [vault[k + 1] EXCEPT !.password = SubSeq(@, 1, m)]
                                    IN  target' = Upserted(Collect(Append(first, cut)), Existing)
    BY <1>1, <1>6 DEF CutHarmsOneEntry, Imported, n
  <2>1. Shortened(vault, data)
    BY <1>3, <1>4
  <2> QED
    BY <1>5, <2>1 DEF Shortened, CutTo
<1> QED
  BY <1>7, <1>8, <1>9, <1>10, <1>11, <1>12 DEF IInv

\* Every state the exporter and the importer reach satisfies the invariant.
THEOREM Invariance == Spec => []IInv
<1>1. ASSUME IInv, [Next]_vars PROVE IInv'
  <2>1. CASE \E fmt \in Formats : Serialize(fmt)
    BY <1>1, <2>1, SerializeStep
  <2>2. CASE \E length \in 0 .. (IF text = None THEN 0 ELSE Len(text.doc) - 1) : Cut(length)
    <3>1. PICK length \in 0 .. (IF text = None THEN 0 ELSE Len(text.doc) - 1) : Cut(length)
      BY <2>2
    <3>2. length \in 0 .. Len(text.doc) - 1
      BY <3>1 DEF Cut
    <3> QED
      BY <1>1, <3>1, <3>2, CutStep
  <2>3. CASE Import
    BY <1>1, <2>3, ImportStep
  <2>4. CASE \E s \in batch.todo : PrepareEntry(s) \/ RefuseEntry(s)
    BY <1>1, <2>4, PrepareStep, RefuseStep
  <2>5. CASE CommitBatch
    BY <1>1, <2>5, CommitStep
  <2>6. CASE Crash
    BY <1>1, <2>6, CrashStep
  <2>7. CASE UNCHANGED vars
    BY <1>1, <2>7
       DEF IInv, TypeOK, TextOfVault, Serialized, ImportOnce, BatchOK, Prepared, ParseRaises,
           ImportAllOrNothing, NothingSkipped, ReadsBackUnlessAmbiguous, ReadsBack,
           CutHarmsOneEntry, Imported, vars
  <2> QED
    BY <1>1, <2>1, <2>2, <2>3, <2>4, <2>5, <2>6, <2>7 DEF Next
<1> QED
  BY InitIInv, <1>1, PTL DEF Spec

\* Vault, document, transaction and outcome always have their types, and no entry of
\* the importing account ever has an empty value (save_passwords).
THEOREM Typing == Spec => []TypeOK
<1>1. IInv => TypeOK
  BY DEF IInv
<1> QED
  BY <1>1, Invariance, PTL

\* Whatever the text, cut or whole, and wherever an import is refused or its
\* process ends: the account holds all of its entries or none
\* (import_from_file, save_passwords).
THEOREM ImportIsAtomic == Spec => []ImportAllOrNothing
<1>1. IInv => ImportAllOrNothing
  BY DEF IInv
<1> QED
  BY <1>1, Invariance, PTL

\* Every line or row of a whole export is matched: nothing is refused and
\* nothing is skipped (Exporter.serialize, Importer.import_text).
THEOREM WholeExportIsRead == Spec => []NothingSkipped
<1>1. IInv => NothingSkipped
  BY DEF IInv
<1> QED
  BY <1>1, Invariance, PTL

\* A whole export of any vault is read back exactly, in each format, but for the
\* entries that a txt line cannot hold; none of those is read back
\* (Exporter.serialize, TXT_PATTERN).
THEOREM WholeExportReadsBack == Spec => []ReadsBackUnlessAmbiguous
<1>1. IInv => ReadsBackUnlessAmbiguous
  BY DEF IInv
<1> QED
  BY <1>1, Invariance, PTL

\* An export of any vault, cut short at any place, brings its first entries and at
\* most one shortened password (export_to_file, _parse_txt, _parse_csv).
THEOREM CutExportHarmsOneEntry == Spec => []CutHarmsOneEntry
<1>1. IInv => CutHarmsOneEntry
  BY DEF IInv
<1> QED
  BY <1>1, Invariance, PTL
=============================================================================
