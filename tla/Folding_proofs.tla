-------------------------- MODULE Folding_proofs --------------------------
(***************************************************************************)
(* Induction, and what reading a sequence from its first element to its    *)
(* last computes: the facts about sums, automata and concatenations of     *)
(* sequences that the proofs of the connection need.                       *)
(*                                                                         *)
(* The library's induction theorems take a predicate as an operator; these *)
(* take the set of the values that have the property.                      *)
(***************************************************************************)
EXTENDS Integers, SequencesExt, TLAPS, WellFoundedInduction

\* A set with 0 and the successor of each of its members has every number.
LEMMA NatInd ==
    ASSUME NEW S, 0 \in S, \A n \in Nat : n \in S => n + 1 \in S
    PROVE  \A n \in Nat : n \in S
  <1> DEFINE R == OpToRel(<, Nat)
             T == Nat \ S
  <1> SUFFICES ASSUME T # {} PROVE FALSE
    OBVIOUS
  <1>1. IsWellFoundedOn(R, Nat)
    BY NatLessThanWellFounded, Zenon
  <1>2. T \subseteq Nat
    OBVIOUS
  <1> HIDE DEF T
  <1>3. PICK x \in T : \A y \in T : <<y, x>> \notin R
    <2> HIDE DEF R
    <2> QED
      BY <1>1, <1>2, WFMin
  <1>4. \A y \in Nat : y < x => <<y, x>> \in R
    BY <1>2, Zenon DEF OpToRel
  <1>5. x # 0 /\ x - 1 \in Nat /\ x - 1 < x /\ (x - 1) + 1 = x
    BY <1>2 DEF T
  <1>6. x - 1 \in S
    BY <1>3, <1>4, <1>5 DEF T
  <1> QED
    BY <1>5, <1>6 DEF T

\* A set of numbers that is not empty has a least one.
LEMMA LeastIn ==
    ASSUME NEW S \in SUBSET Nat, S # {}
    PROVE  \E m \in S : \A n \in S : m <= n
  <1> SUFFICES ASSUME \A m \in S : \E n \in S : n < m PROVE FALSE
    OBVIOUS
  <1> DEFINE B == {k \in Nat : \A m \in S : k < m}
  <1>1. 0 \in B
    <2>1. ASSUME NEW m \in S PROVE 0 < m
      <3>1. PICK n \in S : n < m
        OBVIOUS
      <3> QED
        BY <3>1
    <2> QED
      BY <2>1
  <1>2. ASSUME NEW k \in Nat, k \in B PROVE k + 1 \in B
    <2>1. ASSUME NEW m \in S PROVE k + 1 < m
      <3>1. PICK n \in S : n < m
        OBVIOUS
      <3>2. k < n
        BY <1>2
      <3> QED
        BY <3>1, <3>2
    <2> QED
      BY <2>1
  <1> HIDE DEF B
  <1>3. \A k \in Nat : k \in B
    BY <1>1, <1>2, NatInd
  <1>4. PICK m \in S : TRUE
    OBVIOUS
  <1> QED
    BY <1>3, <1>4 DEF B

\* What holds of the empty sequence, and of every sequence with one more element
\* than one it holds of, holds of all of them.
LEMMA SeqInd ==
    ASSUME NEW T, NEW S, <<>> \in S,
           \A q \in Seq(T), e \in T : q \in S => Append(q, e) \in S
    PROVE  \A q \in Seq(T) : q \in S
  <1> DEFINE L == {n \in Nat : \A q \in Seq(T) : Len(q) = n => q \in S}
  <1>1. 0 \in L
    <2>1. \A q \in Seq(T) : Len(q) = 0 => q = <<>>
      OBVIOUS
    <2> QED
      BY <2>1
  <1>2. ASSUME NEW n \in Nat, n \in L PROVE n + 1 \in L
    <2> SUFFICES ASSUME NEW q \in Seq(T), Len(q) = n + 1 PROVE q \in S
      OBVIOUS
    <2>1. PICK r : r = SubSeq(q, 1, n)
      OBVIOUS
    <2>2. r \in Seq(T) /\ Len(r) = n /\ q[n + 1] \in T
      BY <2>1
    <2>3. q = Append(r, q[n + 1])
      BY <2>1, <2>2
    <2>4. r \in S
      BY <1>2, <2>2
    <2> QED
      BY <2>2, <2>3, <2>4
  <1> HIDE DEF L
  <1>3. \A n \in Nat : n \in L
    BY <1>1, <1>2, NatInd
  <1>4. ASSUME NEW q \in Seq(T) PROVE q \in S
    <2>1. Len(q) \in Nat
      OBVIOUS
    <2> QED
      BY <2>1, <1>3 DEF L
  <1> QED
    BY <1>4

\* A sequence with one more element than another and otherwise the same.
LEMMA AppendIs ==
    ASSUME NEW T, NEW q \in Seq(T), NEW e \in T, NEW a \in Seq(T), Len(a) = Len(q) + 1,
           a[Len(q) + 1] = e, \A i \in 1 .. Len(q) : a[i] = q[i]
    PROVE  a = Append(q, e)
  OBVIOUS

\* A sequence is its first elements and the others behind them.
LEMMA SplitSeq ==
    ASSUME NEW T, NEW q \in Seq(T), NEW n \in 0 .. Len(q)
    PROVE  /\ SubSeq(q, 1, n) \in Seq(T) /\ SubSeq(q, n + 1, Len(q)) \in Seq(T)
           /\ q = SubSeq(q, 1, n) \o SubSeq(q, n + 1, Len(q))
  <1>1. PICK l : l = Len(q)
    OBVIOUS
  <1>2. l \in Nat /\ n \in Nat /\ n <= l
    BY <1>1
  <1>3. PICK a : a = SubSeq(q, 1, n)
    OBVIOUS
  <1>4. PICK r : r = SubSeq(q, n + 1, l)
    OBVIOUS
  <1>5. a \in Seq(T) /\ Len(a) = n /\ \A i \in 1 .. n : a[i] = q[i]
    BY <1>1, <1>2, <1>3
  <1>6. r \in Seq(T) /\ Len(r) = l - n /\ \A i \in 1 .. l - n : r[i] = q[n + i]
    BY <1>1, <1>2, <1>4
  <1>7. PICK c : c = a \o r
    OBVIOUS
  <1>8. /\ c \in Seq(T) /\ Len(c) = l
        /\ \A i \in 1 .. l : c[i] = IF i <= n THEN a[i] ELSE r[i - n]
    <2>1. a \in Seq(T) /\ r \in Seq(T)
      BY <1>5, <1>6
    <2>2. a \o r \in Seq(T) /\ Len(a \o r) = Len(a) + Len(r)
      BY <2>1
    <2>3. ASSUME NEW i \in 1 .. Len(a) + Len(r)
          PROVE  c[i] = IF i <= Len(a) THEN a[i] ELSE r[i - Len(a)]
      BY <1>5, <1>6, <1>7
    <2>4. Len(a) + Len(r) = l
      BY <1>2, <1>5, <1>6
    <2> QED
      BY <1>5, <1>7, <2>2, <2>3, <2>4
  <1>9. ASSUME NEW i \in 1 .. l PROVE c[i] = q[i]
    <2>1. CASE i <= n
      BY <1>2, <1>5, <1>8, <2>1
    <2>2. CASE ~(i <= n)
      <3>1. i - n \in 1 .. l - n /\ n + (i - n) = i
        BY <1>2, <2>2
      <3>2. r[i - n] = q[n + (i - n)]
        BY <1>6, <3>1
      <3> QED
        BY <1>8, <2>2, <3>1, <3>2
    <2> QED
      BY <2>1, <2>2
  <1>10. c = q
    BY <1>1, <1>8, <1>9
  <1> QED
    BY <1>1, <1>3, <1>4, <1>5, <1>6, <1>7, <1>10

\* How sequences are put together does not matter.  The provers find this out
\* for themselves only when the concatenation is hidden behind a name.
Cat(p, q) == p \o q

\* A concatenation is a sequence over the same set.
LEMMA CatType == \A T : \A p, q \in Seq(T) : Cat(p, q) \in Seq(T)
  BY DEF Cat

\* How concatenations are bracketed makes no difference.
LEMMA CatAssoc ==
    ASSUME NEW T, NEW p \in Seq(T), NEW q \in Seq(T), NEW r \in Seq(T)
    PROVE  Cat(Cat(p, q), r) = Cat(p, Cat(q, r))
  BY DEF Cat

\* A sequence of one element.
LEMMA OneElement ==
    ASSUME NEW T, NEW q \in Seq(T), Len(q) = 1
    PROVE  q[1] \in T /\ q = <<q[1]>>
  OBVIOUS

\* A sequence without elements is the empty one.
LEMMA NoElements ==
    ASSUME NEW T, NEW q \in Seq(T), Len(q) = 0
    PROVE  q = <<>>
  OBVIOUS

-----------------------------------------------------------------------------
(* Folding *)

\* A reader has one of the values V and changes it with every element of T.
Reader(g, V, T) == g \in [V -> [T -> V]]

\* The values of a reader that starts with b and that each element takes on.
Trace(g, b, q, t) ==
    /\ t[0] = b
    /\ \A i \in 1 .. Len(q) : t[i] = g[t[i - 1]][q[i]]

Folds(g, b, q, x) == \E t : Trace(g, b, q, t) /\ x = t[Len(q)]

\* What the reader ends with.
Fold(g, b, q) == CHOOSE x : Folds(g, b, q, x)

\* A reader has values for every sequence.
LEMMA TraceExists ==
    ASSUME NEW V, NEW T, NEW g, Reader(g, V, T), NEW b \in V, NEW q \in Seq(T)
    PROVE  \E t \in [0 .. Len(q) -> V] : Trace(g, b, q, t)
  <1> DEFINE S == {r \in Seq(T) : \E t \in [0 .. Len(r) -> V] : Trace(g, b, r, t)}
  <1>1. <<>> \in S
    <2>1. PICK t : t = [i \in 0 .. 0 |-> b]
      OBVIOUS
    <2>2. t \in [0 .. Len(<<>>) -> V] /\ Trace(g, b, <<>>, t)
      BY <2>1 DEF Trace
    <2> QED
      BY <2>2
  <1>2. ASSUME NEW r \in Seq(T), NEW e \in T, r \in S PROVE Append(r, e) \in S
    <2>1. PICK n : n = Len(r)
      OBVIOUS
    <2>2. n \in Nat
      BY <2>1
    <2>3. PICK t \in [0 .. n -> V] : Trace(g, b, r, t)
      BY <1>2, <2>1
    <2>4. PICK a : a = Append(r, e)
      OBVIOUS
    <2>5. /\ a \in Seq(T) /\ Len(a) = n + 1 /\ a[n + 1] = e
          /\ \A i \in 1 .. n : a[i] = r[i]
      BY <2>1, <2>4
    <2>6. PICK u : u = [i \in 0 .. n + 1 |-> IF i = n + 1 THEN g[t[n]][e] ELSE t[i]]
      OBVIOUS
    <2>7. t[n] \in V /\ g[t[n]][e] \in V
      BY <2>2, <2>3 DEF Reader
    <2>8. u \in [0 .. n + 1 -> V]
      BY <2>2, <2>3, <2>6, <2>7
    <2>9. u[0] = b
      BY <2>2, <2>3, <2>6 DEF Trace
    <2>10. ASSUME NEW i \in 1 .. n + 1 PROVE u[i] = g[u[i - 1]][a[i]]
      <3>1. CASE i = n + 1
        BY <2>2, <2>5, <2>6, <3>1
      <3>2. CASE i # n + 1
        <4>1. i \in 1 .. n /\ i - 1 \in 0 .. n + 1 /\ i \in 0 .. n + 1 /\ i - 1 # n + 1
          BY <2>2, <3>2
        <4>2. t[i] = g[t[i - 1]][r[i]]
          BY <2>1, <2>3, <4>1 DEF Trace
        <4> QED
          BY <2>5, <2>6, <3>2, <4>1, <4>2
      <3> QED
        BY <3>1, <3>2
    <2>11. Trace(g, b, a, u)
      BY <2>5, <2>9, <2>10 DEF Trace
    <2> QED
      BY <2>4, <2>5, <2>8, <2>11
  <1> HIDE DEF S
  <1>3. q \in S
    BY <1>1, <1>2, SeqInd
  <1> QED
    BY <1>3 DEF S

\* They are the only ones.
LEMMA TraceUnique ==
    ASSUME NEW T, NEW q \in Seq(T), NEW g, NEW b, NEW t, NEW u,
           Trace(g, b, q, t), Trace(g, b, q, u)
    PROVE  t[Len(q)] = u[Len(q)]
  <1> DEFINE S == {n \in Nat : n <= Len(q) => t[n] = u[n]}
  <1>1. Len(q) \in Nat
    OBVIOUS
  <1>2. 0 \in S
    BY DEF Trace
  <1>3. ASSUME NEW n \in Nat, n \in S PROVE n + 1 \in S
    <2> SUFFICES ASSUME n + 1 <= Len(q) PROVE t[n + 1] = u[n + 1]
      OBVIOUS
    <2>1. n + 1 \in 1 .. Len(q) /\ (n + 1) - 1 = n /\ t[n] = u[n]
      BY <1>1, <1>3
    <2> QED
      BY <2>1 DEF Trace
  <1> HIDE DEF S
  <1>4. \A n \in Nat : n \in S
    BY <1>2, <1>3, NatInd
  <1> QED
    BY <1>1, <1>4 DEF S

\* Whoever has the values of the reader has what it ends with.
LEMMA FoldIs ==
    ASSUME NEW T, NEW q \in Seq(T), NEW g, NEW b, NEW t, Trace(g, b, q, t)
    PROVE  Fold(g, b, q) = t[Len(q)]
  <1>1. Folds(g, b, q, t[Len(q)])
    BY DEF Folds
  <1>2. Folds(g, b, q, Fold(g, b, q))
    BY <1>1 DEF Fold
  <1>3. PICK u : Trace(g, b, q, u) /\ Fold(g, b, q) = u[Len(q)]
    BY <1>2 DEF Folds
  <1> QED
    BY <1>3, TraceUnique

\* A reader of nothing ends with what it starts with.
LEMMA FoldEmpty ==
    ASSUME NEW V, NEW T, NEW g, Reader(g, V, T), NEW b \in V
    PROVE  Fold(g, b, <<>>) = b
  <1>1. <<>> \in Seq(T)
    OBVIOUS
  <1>2. PICK t : Trace(g, b, <<>>, t)
    BY <1>1, TraceExists
  <1>3. Fold(g, b, <<>>) = t[Len(<<>>)]
    BY <1>1, <1>2, FoldIs
  <1> QED
    BY <1>2, <1>3 DEF Trace

\* It ends with one of its values.
LEMMA FoldType ==
    ASSUME NEW V, NEW T, NEW g, Reader(g, V, T), NEW b \in V, NEW q \in Seq(T)
    PROVE  Fold(g, b, q) \in V
  <1>1. PICK t \in [0 .. Len(q) -> V] : Trace(g, b, q, t)
    BY TraceExists
  <1>2. Fold(g, b, q) = t[Len(q)]
    BY <1>1, FoldIs
  <1> QED
    BY <1>2

\* One more element is read after the others.
LEMMA FoldAppend ==
    ASSUME NEW V, NEW T, NEW g, Reader(g, V, T), NEW b \in V,
           NEW q \in Seq(T), NEW e \in T
    PROVE  Fold(g, b, Append(q, e)) = g[Fold(g, b, q)][e]
  <1>1. PICK a : a = Append(q, e)
    OBVIOUS
  <1>2. PICK n : n = Len(q)
    OBVIOUS
  <1>3. /\ n \in Nat /\ a \in Seq(T) /\ Len(a) = n + 1 /\ a[n + 1] = e
        /\ \A i \in 1 .. n : a[i] = q[i]
    BY <1>1, <1>2
  <1>4. PICK t : Trace(g, b, a, t)
    BY <1>3, TraceExists
  <1>5. Fold(g, b, a) = t[n + 1]
    BY <1>3, <1>4, FoldIs
  <1>6. Trace(g, b, q, t)
    <2>1. t[0] = b
      BY <1>4 DEF Trace
    <2>2. ASSUME NEW i \in 1 .. n PROVE t[i] = g[t[i - 1]][q[i]]
      <3>1. i \in 1 .. Len(a)
        BY <1>3
      <3>2. t[i] = g[t[i - 1]][a[i]]
        BY <1>4, <3>1 DEF Trace
      <3> QED
        BY <1>3, <3>2
    <2> QED
      BY <1>2, <2>1, <2>2 DEF Trace
  <1>7. Fold(g, b, q) = t[n]
    BY <1>2, <1>6, FoldIs
  <1>8. n + 1 \in 1 .. Len(a) /\ (n + 1) - 1 = n
    BY <1>3
  <1>9. t[n + 1] = g[t[n]][e]
    BY <1>3, <1>4, <1>8 DEF Trace
  <1> QED
    BY <1>1, <1>5, <1>7, <1>9

\* A sequence behind another is read from where that one ends.
LEMMA FoldConcat ==
    ASSUME NEW V, NEW T, NEW g, Reader(g, V, T), NEW b \in V,
           NEW q \in Seq(T), NEW r \in Seq(T)
    PROVE  Fold(g, b, q \o r) = Fold(g, Fold(g, b, q), r)
  <1>1. PICK c : c = Fold(g, b, q)
    OBVIOUS
  <1>2. c \in V
    BY <1>1, FoldType
  <1> DEFINE S == {s \in Seq(T) : Fold(g, b, q \o s) = Fold(g, c, s)}
  <1>3. <<>> \in S
    <2>1. q \o <<>> = q /\ <<>> \in Seq(T)
      OBVIOUS
    <2>2. Fold(g, c, <<>>) = c
      BY <1>2, FoldEmpty
    <2> QED
      BY <1>1, <2>1, <2>2
  <1>4. ASSUME NEW s \in Seq(T), NEW e \in T, s \in S PROVE Append(s, e) \in S
    <2>1. PICK p : p = q \o s
      OBVIOUS
    <2>2. q \o Append(s, e) = Append(p, e) /\ p \in Seq(T) /\ Append(s, e) \in Seq(T)
      BY <2>1
    <2>3. Fold(g, b, Append(p, e)) = g[Fold(g, b, p)][e]
      BY <2>2, FoldAppend
    <2>4. Fold(g, c, Append(s, e)) = g[Fold(g, c, s)][e]
      BY <1>2, FoldAppend
    <2> QED
      BY <1>4, <2>1, <2>2, <2>3, <2>4
  <1> HIDE DEF S
  <1>5. r \in S
    BY <1>3, <1>4, SeqInd
  <1> QED
    BY <1>1, <1>5 DEF S

\* One element is one step.
LEMMA FoldOne ==
    ASSUME NEW V, NEW T, NEW g, Reader(g, V, T), NEW b \in V, NEW e \in T
    PROVE  Fold(g, b, <<e>>) = g[b][e]
  <1>1. PICK p : p = <<>>
    OBVIOUS
  <1>2. p \in Seq(T) /\ <<e>> = Append(p, e)
    BY <1>1
  <1>3. Fold(g, b, Append(p, e)) = g[Fold(g, b, p)][e]
    BY <1>2, FoldAppend
  <1>4. Fold(g, b, p) = b
    BY <1>1, FoldEmpty
  <1> QED
    BY <1>2, <1>3, <1>4

\* The first element is read before the others.
LEMMA FoldCons ==
    ASSUME NEW V, NEW T, NEW g, Reader(g, V, T), NEW b \in V, NEW e \in T, NEW q \in Seq(T)
    PROVE  Fold(g, b, <<e>> \o q) = Fold(g, g[b][e], q)
  <1>1. PICK p : p = <<e>>
    OBVIOUS
  <1>2. p \in Seq(T)
    BY <1>1
  <1>3. Fold(g, b, p) = g[b][e]
    BY <1>1, FoldOne
  <1>4. Fold(g, b, p \o q) = Fold(g, Fold(g, b, p), q)
    BY <1>2, FoldConcat
  <1> QED
    BY <1>1, <1>3, <1>4

\* Sequences that are read alike may stand for each other.
LEMMA FoldSwap ==
    ASSUME NEW V, NEW T, NEW g, Reader(g, V, T), NEW b \in V,
           NEW p \in Seq(T), NEW x \in Seq(T), NEW y \in Seq(T), NEW r \in Seq(T),
           \A v \in V : Fold(g, v, x) = Fold(g, v, y)
    PROVE  Fold(g, b, (p \o x) \o r) = Fold(g, b, (p \o y) \o r)
  <1>1. PICK v : v = Fold(g, b, p)
    OBVIOUS
  <1>2. v \in V
    BY <1>1, FoldType
  <1>3. PICK px : px = p \o x
    OBVIOUS
  <1>4. PICK py : py = p \o y
    OBVIOUS
  <1>5. px \in Seq(T) /\ py \in Seq(T)
    BY <1>3, <1>4
  <1>6. Fold(g, b, p \o x) = Fold(g, v, x)
    BY <1>1, FoldConcat
  <1>7. Fold(g, b, p \o y) = Fold(g, v, y)
    BY <1>1, FoldConcat
  <1>8. Fold(g, b, px) = Fold(g, b, py)
    BY <1>2, <1>3, <1>4, <1>6, <1>7
  <1>9. Fold(g, b, px \o r) = Fold(g, Fold(g, b, px), r)
    BY <1>5, FoldConcat
  <1>10. Fold(g, b, py \o r) = Fold(g, Fold(g, b, py), r)
    BY <1>5, FoldConcat
  <1> QED
    BY <1>3, <1>4, <1>8, <1>9, <1>10

\* Values that no element leads out of are not left.
LEMMA FoldKeeps ==
    ASSUME NEW V, NEW T, NEW g, Reader(g, V, T), NEW W, W \subseteq V,
           \A w \in W, e \in T : g[w][e] \in W,
           NEW b \in W, NEW q \in Seq(T)
    PROVE  Fold(g, b, q) \in W
  <1> DEFINE S == {s \in Seq(T) : Fold(g, b, s) \in W}
  <1>1. b \in V /\ <<>> \in Seq(T)
    OBVIOUS
  <1>2. <<>> \in S
    <2>1. Fold(g, b, <<>>) = b
      BY <1>1, FoldEmpty
    <2> QED
      BY <1>1, <2>1
  <1>3. ASSUME NEW s \in Seq(T), NEW e \in T, s \in S PROVE Append(s, e) \in S
    <2>1. Fold(g, b, Append(s, e)) = g[Fold(g, b, s)][e]
      BY <1>1, FoldAppend
    <2> QED
      BY <1>3, <2>1
  <1> HIDE DEF S
  <1>4. q \in S
    BY <1>2, <1>3, SeqInd
  <1> QED
    BY <1>4 DEF S

\* Elements that change nothing leave the reader where it is.
LEMMA FoldIdle ==
    ASSUME NEW V, NEW T, NEW g, Reader(g, V, T), NEW b \in V, NEW q \in Seq(T),
           \A i \in 1 .. Len(q) : g[b][q[i]] = b
    PROVE  Fold(g, b, q) = b
  <1>1. PICK t : t = [i \in 0 .. Len(q) |-> b]
    OBVIOUS
  <1>2. Len(q) \in Nat
    OBVIOUS
  <1>3. t[0] = b /\ t[Len(q)] = b
    BY <1>1, <1>2
  <1>4. ASSUME NEW i \in 1 .. Len(q) PROVE t[i] = g[t[i - 1]][q[i]]
    <2>1. i \in 0 .. Len(q) /\ i - 1 \in 0 .. Len(q)
      BY <1>2
    <2> QED
      BY <1>1, <2>1
  <1>5. Trace(g, b, q, t)
    BY <1>3, <1>4 DEF Trace
  <1> QED
    BY <1>3, <1>5, FoldIs

\* A reader that cannot go on from {} was never there if it ends elsewhere.
LEMMA FoldStuck ==
    ASSUME NEW V, NEW T, NEW g, Reader(g, V, T), NEW b \in V, {} \in V,
           \A e \in T : g[{}][e] = {},
           NEW q \in Seq(T), NEW r \in Seq(T), Fold(g, b, q \o r) # {}
    PROVE  Fold(g, b, q) # {}
  <1> SUFFICES ASSUME Fold(g, b, q) = {} PROVE FALSE
    OBVIOUS
  <1>1. PICK z : z = {}
    OBVIOUS
  <1>2. z \in V /\ \A i \in 1 .. Len(r) : g[z][r[i]] = z
    BY <1>1
  <1>3. Fold(g, z, r) = z
    BY <1>2, FoldIdle
  <1>4. PICK p : p = q
    OBVIOUS
  <1>5. p \in Seq(T)
    BY <1>4
  <1> HIDE <1>4
  <1>6. Fold(g, b, p \o r) = Fold(g, Fold(g, b, p), r)
    BY <1>5, FoldConcat
  <1> QED
    BY <1>1, <1>3, <1>4, <1>6

\* Two functions that start alike and go on alike end alike.
LEMMA Agree ==
    ASSUME NEW n \in Nat, NEW t, NEW u, t[0] = u[0],
           \A i \in 1 .. n : t[i - 1] = u[i - 1] => t[i] = u[i]
    PROVE  t[n] = u[n]
  <1> DEFINE S == {k \in Nat : k <= n => t[k] = u[k]}
  <1>1. 0 \in S
    OBVIOUS
  <1>2. ASSUME NEW k \in Nat, k \in S PROVE k + 1 \in S
    <2> SUFFICES ASSUME k + 1 <= n PROVE t[k + 1] = u[k + 1]
      OBVIOUS
    <2>1. k + 1 \in 1 .. n /\ (k + 1) - 1 = k /\ t[k] = u[k]
      BY <1>2
    <2>2. t[(k + 1) - 1] = u[(k + 1) - 1] => t[k + 1] = u[k + 1]
      BY <2>1
    <2> QED
      BY <2>1, <2>2
  <1> HIDE DEF S
  <1>3. \A k \in Nat : k \in S
    BY <1>1, <1>2, NatInd
  <1> QED
    BY <1>3 DEF S

-----------------------------------------------------------------------------
(* Sequences of sequences put together *)

\* A function that FlattenSeq ends with the last value of.
FlatOf(fs, t) ==
    t = [i \in 1 .. Len(fs) |-> IF i = 1 THEN fs[i] ELSE t[i - 1] \o fs[i]]

\* One more sequence comes behind what the others make.
LEMMA FlatExists ==
    ASSUME NEW S, NEW fs \in Seq(Seq(S))
    PROVE  \E t \in [1 .. Len(fs) -> Seq(S)] : FlatOf(fs, t)
  <1> DEFINE D == {qs \in Seq(Seq(S)) : \E t \in [1 .. Len(qs) -> Seq(S)] : FlatOf(qs, t)}
  <1>1. <<>> \in D
    <2>1. PICK t : t = [i \in 1 .. 0 |-> <<>>]
      OBVIOUS
    <2>2. PICK p : p = <<>>
      OBVIOUS
    <2>3. p \in Seq(Seq(S)) /\ Len(p) = 0
      BY <2>2
    <2>4. t \in [1 .. Len(p) -> Seq(S)] /\ FlatOf(p, t)
      BY <2>1, <2>3 DEF FlatOf
    <2> QED
      BY <2>2, <2>3, <2>4
  <1>2. ASSUME NEW qs \in Seq(Seq(S)), NEW e \in Seq(S), qs \in D PROVE Append(qs, e) \in D
    <2>1. PICK n : n = Len(qs)
      OBVIOUS
    <2>2. n \in Nat
      BY <2>1
    <2>3. PICK t \in [1 .. n -> Seq(S)] : FlatOf(qs, t)
      BY <1>2, <2>1
    <2>4. PICK a : a = Append(qs, e)
      OBVIOUS
    <2>5. /\ a \in Seq(Seq(S)) /\ Len(a) = n + 1 /\ a[n + 1] = e
          /\ \A i \in 1 .. n : a[i] = qs[i]
      BY <2>1, <2>4
    <2>6. PICK u : u = [i \in 1 .. n + 1 |->
                          IF i # n + 1 THEN t[i] ELSE IF n = 0 THEN e ELSE t[n] \o e]
      OBVIOUS
    <2>7. u \in [1 .. n + 1 -> Seq(S)]
      <3>1. n # 0 => t[n] \in Seq(S) /\ t[n] \o e \in Seq(S)
        BY <2>2, <2>3
      <3> QED
        BY <2>2, <2>3, <2>6, <3>1
    <2>8. ASSUME NEW i \in 1 .. n + 1
          PROVE  u[i] = IF i = 1 THEN a[i] ELSE u[i - 1] \o a[i]
      <3>1. CASE i = n + 1
        BY <2>2, <2>5, <2>6, <3>1
      <3>2. CASE i # n + 1
        <4>1. i \in 1 .. n
          BY <2>2, <3>2
        <4>2. t[i] = IF i = 1 THEN qs[i] ELSE t[i - 1] \o qs[i]
          BY <2>1, <2>3, <4>1 DEF FlatOf
        <4>3. i # 1 => i - 1 \in 1 .. n + 1 /\ i - 1 # n + 1
          BY <2>2, <4>1
        <4> QED
          BY <2>5, <2>6, <3>2, <4>1, <4>2, <4>3
      <3> QED
        BY <3>1, <3>2
    <2>9. FlatOf(a, u)
      BY <2>5, <2>7, <2>8 DEF FlatOf
    <2> QED
      BY <2>4, <2>5, <2>7, <2>9
  <1> HIDE DEF D
  <1>3. fs \in D
    BY <1>1, <1>2, SeqInd
  <1> QED
    BY <1>3 DEF D

\* They are what it is defined by.
LEMMA FlattenIs ==
    ASSUME NEW S, NEW fs \in Seq(Seq(S)), NEW t, FlatOf(fs, t), fs # <<>>
    PROVE  FlattenSeq(fs) = t[Len(fs)]
  <1>1. PICK u : u = CHOOSE v : FlatOf(fs, v)
    OBVIOUS
  <1>2. FlatOf(fs, u)
    BY <1>1
  <1>3. FlattenSeq(fs) = u[Len(fs)]
    BY <1>1 DEF FlattenSeq, FlatOf
  <1>4. PICK n : n = Len(fs) - 1
    OBVIOUS
  <1>5. n \in Nat /\ n + 1 = Len(fs)
    BY <1>4
  <1> DEFINE K == {k \in Nat : k <= n => t[k + 1] = u[k + 1]}
  <1>6. 0 \in K
    BY <1>2, <1>5 DEF FlatOf
  <1>7. ASSUME NEW k \in Nat, k \in K PROVE k + 1 \in K
    <2> SUFFICES ASSUME k + 1 <= n PROVE t[(k + 1) + 1] = u[(k + 1) + 1]
      OBVIOUS
    <2>1. PICK i : i = (k + 1) + 1
      OBVIOUS
    <2>2. i \in 1 .. Len(fs) /\ i # 1 /\ i - 1 = k + 1 /\ t[k + 1] = u[k + 1]
      BY <1>5, <1>7, <2>1
    <2>3. t[i] = t[i - 1] \o fs[i]
      BY <2>2 DEF FlatOf
    <2>4. u[i] = u[i - 1] \o fs[i]
      BY <1>2, <2>2 DEF FlatOf
    <2> QED
      BY <2>1, <2>2, <2>3, <2>4
  <1> HIDE DEF K
  <1>8. \A k \in Nat : k \in K
    BY <1>6, <1>7, NatInd
  <1>9. t[n + 1] = u[n + 1]
    BY <1>5, <1>8 DEF K
  <1> QED
    BY <1>3, <1>5, <1>9

\* Nothing put together is nothing.
LEMMA FlattenEmpty == FlattenSeq(<<>>) = <<>>
  BY DEF FlattenSeq

\* What sequences over a set make is one over the set.
LEMMA FlattenType ==
    ASSUME NEW S, NEW fs \in Seq(Seq(S))
    PROVE  FlattenSeq(fs) \in Seq(S)
  <1>1. CASE fs = <<>>
    <2>1. FlattenSeq(fs) = <<>>
      BY <1>1, FlattenEmpty
    <2> QED
      BY <2>1
  <1>2. CASE fs # <<>>
    <2>1. PICK t \in [1 .. Len(fs) -> Seq(S)] : FlatOf(fs, t)
      BY FlatExists
    <2>2. FlattenSeq(fs) = t[Len(fs)]
      BY <1>2, <2>1, FlattenIs
    <2>3. Len(fs) \in 1 .. Len(fs)
      BY <1>2
    <2> QED
      BY <2>2, <2>3
  <1> QED
    BY <1>1, <1>2

\* One more sequence comes behind what the others make.
LEMMA FlattenAppend ==
    ASSUME NEW S, NEW fs \in Seq(Seq(S)), NEW e \in Seq(S)
    PROVE  FlattenSeq(Append(fs, e)) = FlattenSeq(fs) \o e
  <1>1. PICK a : a = Append(fs, e)
    OBVIOUS
  <1>2. PICK n : n = Len(fs)
    OBVIOUS
  <1>3. /\ n \in Nat /\ a \in Seq(Seq(S)) /\ a # <<>> /\ Len(a) = n + 1 /\ a[n + 1] = e
        /\ \A i \in 1 .. n : a[i] = fs[i]
    BY <1>1, <1>2
  <1>4. PICK t \in [1 .. Len(a) -> Seq(S)] : FlatOf(a, t)
    BY <1>3, FlatExists
  <1>5. FlattenSeq(a) = t[n + 1]
    BY <1>3, <1>4, FlattenIs
  <1>6. t[n + 1] = IF n = 0 THEN e ELSE t[n] \o e
    <2>1. PICK i : i = n + 1
      OBVIOUS
    <2>2. i \in 1 .. Len(a) /\ (i = 1 <=> n = 0) /\ i - 1 = n
      BY <1>3, <2>1
    <2>3. t[i] = IF i = 1 THEN a[i] ELSE t[i - 1] \o a[i]
      BY <1>4, <2>2 DEF FlatOf
    <2> QED
      BY <1>3, <2>1, <2>2, <2>3
  <1>7. CASE n = 0
    <2>1. fs = <<>>
      BY <1>2, <1>7, NoElements
    <2>2. FlattenSeq(fs) = <<>>
      BY <2>1, FlattenEmpty
    <2> QED
      BY <1>1, <1>5, <1>6, <1>7, <2>2
  <1>8. CASE n # 0
    <2>1. PICK u : u = [i \in 1 .. n |-> t[i]]
      OBVIOUS
    <2>2. ASSUME NEW i \in 1 .. n
          PROVE  u[i] = IF i = 1 THEN fs[i] ELSE u[i - 1] \o fs[i]
      <3>1. i \in 1 .. Len(a) /\ (i # 1 => i - 1 \in 1 .. n)
        BY <1>3
      <3>2. t[i] = IF i = 1 THEN a[i] ELSE t[i - 1] \o a[i]
        BY <1>4, <3>1 DEF FlatOf
      <3> QED
        BY <1>3, <2>1, <3>1, <3>2
    <2>3. FlatOf(fs, u)
      BY <1>2, <2>1, <2>2 DEF FlatOf
    <2>4. fs # <<>>
      BY <1>2, <1>8
    <2>5. FlattenSeq(fs) = u[n]
      BY <1>2, <2>3, <2>4, FlattenIs
    <2>6. u[n] = t[n]
      BY <1>3, <1>8, <2>1
    <2> QED
      BY <1>1, <1>3, <1>5, <1>6, <1>8, <2>5, <2>6
  <1> QED
    BY <1>7, <1>8

\* The first comes in front of what the rest make.
LEMMA FlattenCons ==
    ASSUME NEW S, NEW h \in Seq(S), NEW fs \in Seq(Seq(S))
    PROVE  FlattenSeq(<<h>> \o fs) = h \o FlattenSeq(fs)
  <1> DEFINE D == {qs \in Seq(Seq(S)) : FlattenSeq(<<h>> \o qs) = h \o FlattenSeq(qs)}
  <1>0. PICK one : one = <<h>>
    OBVIOUS
  <1>1. <<>> \in D
    <2>1. PICK p : p = <<>>
      OBVIOUS
    <2>2. p \in Seq(Seq(S)) /\ Append(p, h) = <<h>> \o p /\ FlattenSeq(p) = p
      BY <2>1, FlattenEmpty
    <2>3. FlattenSeq(Append(p, h)) = FlattenSeq(p) \o h
      BY <2>2, FlattenAppend
    <2>4. p \o h = h /\ h \o p = h
      BY <2>1
    <2> QED
      BY <2>1, <2>2, <2>3, <2>4
  <1>2. ASSUME NEW qs \in Seq(Seq(S)), NEW e \in Seq(S), qs \in D PROVE Append(qs, e) \in D
    <2>1. PICK p : p = one \o qs
      OBVIOUS
    <2>2. /\ p \in Seq(Seq(S)) /\ Append(qs, e) \in Seq(Seq(S))
          /\ one \o Append(qs, e) = Append(p, e)
      BY <1>0, <2>1
    <2>3. FlattenSeq(Append(p, e)) = FlattenSeq(p) \o e
      BY <2>2, FlattenAppend
    <2>4. FlattenSeq(Append(qs, e)) = FlattenSeq(qs) \o e
      BY FlattenAppend
    <2>5. FlattenSeq(p) = h \o FlattenSeq(qs)
      BY <1>0, <1>2, <2>1
    <2>6. FlattenSeq(qs) \in Seq(S)
      BY FlattenType
    <2>7. (h \o FlattenSeq(qs)) \o e = h \o (FlattenSeq(qs) \o e)
      BY <2>6
    <2> QED
      BY <1>0, <2>2, <2>3, <2>4, <2>5, <2>7
  <1> HIDE DEF D
  <1>3. fs \in D
    BY <1>1, <1>2, SeqInd
  <1> QED
    BY <1>3 DEF D

-----------------------------------------------------------------------------
(* How long they are *)

\* `t` is the length of what is left of them from each on.
Lengths(fs, t) ==
    /\ t[Len(fs) + 1] = 0
    /\ \A k \in 1 .. Len(fs) : t[k] = Len(fs[k]) + t[k + 1]

\* The lengths of the sequences add up to that of what they make.
LEMMA FlattenLengths ==
    ASSUME NEW S, NEW fs \in Seq(Seq(S))
    PROVE  \E t \in [1 .. Len(fs) + 1 -> Nat] :
              Lengths(fs, t) /\ t[1] = Len(FlattenSeq(fs))
  <1> DEFINE D == {qs \in Seq(Seq(S)) : \E t \in [1 .. Len(qs) + 1 -> Nat] :
                      Lengths(qs, t) /\ t[1] = Len(FlattenSeq(qs))}
  <1>1. <<>> \in D
    <2>1. PICK p : p = <<>>
      OBVIOUS
    <2>2. p \in Seq(Seq(S)) /\ Len(p) = 0
      BY <2>1
    <2>3. Len(FlattenSeq(p)) = 0
      BY <2>1, FlattenEmpty
    <2>4. PICK t : t = [k \in 1 .. 1 |-> 0]
      OBVIOUS
    <2>5. t \in [1 .. Len(p) + 1 -> Nat] /\ t[1] = 0
      BY <2>2, <2>4
    <2>6. Lengths(p, t)
      BY <2>2, <2>5 DEF Lengths
    <2> QED
      BY <2>1, <2>2, <2>3, <2>5, <2>6
  <1>2. ASSUME NEW qs \in Seq(Seq(S)), NEW e \in Seq(S), qs \in D PROVE Append(qs, e) \in D
    <2>1. PICK n \in Nat : n = Len(qs)
      OBVIOUS
    <2>2. PICK t \in [1 .. n + 1 -> Nat] : Lengths(qs, t) /\ t[1] = Len(FlattenSeq(qs))
      BY <1>2, <2>1
    <2>3. PICK a : a = Append(qs, e)
      OBVIOUS
    <2>4. /\ a \in Seq(Seq(S)) /\ Len(a) = n + 1 /\ a[n + 1] = e
          /\ \A k \in 1 .. n : a[k] = qs[k]
      BY <2>1, <2>3
    <2>5. PICK l \in Nat : l = Len(e)
      OBVIOUS
    <2>6. Len(FlattenSeq(a)) = Len(FlattenSeq(qs)) + l
      <3>1. FlattenSeq(a) = FlattenSeq(qs) \o e
        BY <2>3, FlattenAppend
      <3>2. PICK f \in Seq(S) : f = FlattenSeq(qs)
        BY FlattenType
      <3>3. Len(f \o e) = Len(f) + Len(e)
        OBVIOUS
      <3> QED
        BY <2>5, <3>1, <3>2, <3>3
    <2>7. PICK u : u = [k \in 1 .. n + 2 |-> IF k = n + 2 THEN 0 ELSE t[k] + l]
      OBVIOUS
    <2>8. \A k \in 1 .. n + 1 : u[k] = t[k] + l
      BY <2>7
    <2>9. u[n + 2] = 0
      BY <2>7
    <2>10. u \in [1 .. n + 2 -> Nat]
      BY <2>2, <2>7
    <2>11. t[n + 1] = 0 /\ \A k \in 1 .. n : t[k] = Len(qs[k]) + t[k + 1]
      BY <2>1, <2>2 DEF Lengths
    <2>12. ASSUME NEW k \in 1 .. n + 1 PROVE u[k] = Len(a[k]) + u[k + 1]
      <3>1. CASE k = n + 1
        BY <2>4, <2>5, <2>8, <2>9, <2>11, <3>1
      <3>2. CASE k # n + 1
        <4>1. k \in 1 .. n /\ k + 1 \in 1 .. n + 1
          BY <3>2
        <4>2. PICK x, y, z \in Nat : x = t[k] /\ y = t[k + 1] /\ z = Len(qs[k])
          <5>1. t[k] \in Nat /\ t[k + 1] \in Nat
            BY <2>2, <4>1
          <5>2. qs[k] \in Seq(S)
            BY <2>1, <4>1
          <5>3. Len(qs[k]) \in Nat
            BY <5>2
          <5> QED
            BY <5>1, <5>3
        <4>3. x = z + y
          BY <2>11, <4>1, <4>2
        <4>4. u[k] = x + l /\ u[k + 1] = y + l
          BY <2>8, <4>1, <4>2
        <4>5. Len(a[k]) = z
          BY <2>4, <4>1, <4>2
        <4> QED
          BY <4>3, <4>4, <4>5
      <3> QED
        BY <3>1, <3>2
    <2>13. Lengths(a, u)
      BY <2>4, <2>9, <2>12 DEF Lengths
    <2>14. u[1] = Len(FlattenSeq(a))
      <3>1. 1 \in 1 .. n + 1
        OBVIOUS
      <3> QED
        BY <2>2, <2>6, <2>8, <3>1
    <2>15. u \in [1 .. Len(a) + 1 -> Nat]
      BY <2>4, <2>10
    <2> QED
      BY <2>3, <2>4, <2>13, <2>14, <2>15
  <1> HIDE DEF D
  <1>3. fs \in D
    BY <1>1, <1>2, SeqInd
  <1> QED
    BY <1>3 DEF D
=============================================================================
