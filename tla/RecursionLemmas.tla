-------------------------- MODULE RecursionLemmas --------------------------
(***************************************************************************)
(* Lemmas about numbers, sequences and recursive definitions.  Induction   *)
(* is over the set of the numbers that have a property, which is a value   *)
(* and not an operator.                                                    *)
(***************************************************************************)
EXTENDS Integers, Sequences, SequencesExt, SequenceTheorems, WellFoundedInduction, TLAPS

\* A non-empty set of natural numbers has a least element.
LEMMA LeastOf ==
  ASSUME NEW E, E \subseteq Nat, E # {}
  PROVE  \E x \in E : \A y \in E : x <= y
  <1> DEFINE R == {ss \in Nat \X Nat : ss[1] < ss[2]}
  <1>1. IsWellFoundedOn(R, Nat)
    BY NatLessThanWellFounded, Zenon DEF OpToRel
  <1>2. PICK x \in E : \A y \in E : ~ (<<y, x>> \in R)
    <2> HIDE DEF R
    <2> QED BY <1>1, WFMin
  <1>3. ASSUME NEW y \in E
        PROVE  x <= y
    <2>1. <<y, x>> \in Nat \X Nat
      OBVIOUS
    <2>2. ~ (<<y, x>>[1] < <<y, x>>[2])
      BY <1>2, <2>1, Zenon
    <2> QED
      BY <2>2
  <1> QED
    BY <1>3

\* Induction, for a property given by the set of the numbers that have it.
LEMMA UpFromZero ==
  ASSUME NEW Shown, 0 \in Shown, \A n \in Nat : n \in Shown => n + 1 \in Shown
  PROVE  \A n \in Nat : n \in Shown
  <1> SUFFICES ASSUME NEW k \in Nat, k \notin Shown PROVE FALSE
    OBVIOUS
  <1> DEFINE E == {n \in Nat : n \notin Shown}
  <1>1. PICK x \in E : \A y \in E : x <= y
    <2>1. E \subseteq Nat /\ E # {}
      OBVIOUS
    <2> HIDE DEF E
    <2> QED BY <2>1, LeastOf
  <1>2. x # 0 /\ x \in Nat
    OBVIOUS
  <1>3. x - 1 \in Nat /\ x - 1 \notin E
    BY <1>1, <1>2
  <1>4. x - 1 + 1 \in Shown
    BY <1>3
  <1>5. QED
    BY <1>2, <1>4

\* A recursive definition on 0 .. n has a function that satisfies it.
StaysIn(T, n, g) == \A i \in 1 .. n : \A t \in T : g[i][t] \in T
Recursive(T, n, b, g) ==
  \E f \in [0 .. n -> T] : f[0] = b /\ \A i \in 1 .. n : f[i] = g[i][f[i - 1]]

\* The recursion theorem: with a start b and steps g[i] that stay in T there is such a
\* function.
LEMMA Recursion ==
  ASSUME NEW T, NEW n \in Nat, NEW b \in T, NEW g, StaysIn(T, n, g)
  PROVE  Recursive(T, n, b, g)
  <1> DEFINE Good(m, f) == f \in [0 .. m -> T] /\ f[0] = b /\ \A i \in 1 .. m : f[i] = g[i][f[i - 1]]
             Shown == {m \in Nat : m <= n => \E f \in [0 .. m -> T] : Good(m, f)}
  <1>1. 0 \in Shown
    <2> DEFINE f == [i \in 0 .. 0 |-> b]
    <2>1. Good(0, f)
      OBVIOUS
    <2>2. QED
      BY <2>1
  <1>2. ASSUME NEW m \in Nat, m \in Shown PROVE m + 1 \in Shown
    <2> SUFFICES ASSUME m + 1 <= n PROVE \E h \in [0 .. m + 1 -> T] : Good(m + 1, h)
      OBVIOUS
    <2>1. PICK f \in [0 .. m -> T] : Good(m, f)
      BY <1>2
    <2> DEFINE h == [i \in 0 .. m + 1 |-> IF i = m + 1 THEN g[m + 1][f[m]] ELSE f[i]]
    <2>2. m + 1 \in 1 .. n /\ m \in 0 .. m /\ f[m] \in T
      BY <2>1
    <2>0. g[m + 1][f[m]] \in T
      BY <2>2 DEF StaysIn
    <2>3. h \in [0 .. m + 1 -> T]
      <3>1. \A i \in 0 .. m + 1 : i = m + 1 \/ i \in 0 .. m
        OBVIOUS
      <3>2. QED
        BY <2>1, <2>0, <3>1
    <2>4. h[0] = b
      BY <2>1
    <2>5. \A i \in 1 .. m + 1 : h[i] = g[i][h[i - 1]]
      <3>1. ASSUME NEW i \in 1 .. m PROVE h[i] = g[i][h[i - 1]]
        <4>1. i \in 0 .. m + 1 /\ i # m + 1 /\ i - 1 \in 0 .. m + 1 /\ i - 1 # m + 1
          OBVIOUS
        <4>2. h[i] = f[i] /\ h[i - 1] = f[i - 1]
          BY <4>1
        <4>3. QED
          BY <2>1, <4>2
      <3>2. h[m + 1] = g[m + 1][h[m]]
        OBVIOUS
      <3>3. \A i \in 1 .. m + 1 : i \in 1 .. m \/ (i = m + 1 /\ i - 1 = m)
        OBVIOUS
      <3> HIDE DEF h
      <3>4. QED
        BY <3>1, <3>2, <3>3
    <2>6. QED
      BY <2>3, <2>4, <2>5
  <1>3. n \in Shown
    <2> HIDE DEF Shown
    <2> QED BY <1>1, <1>2, UpFromZero
  <1>4. QED
    BY <1>3 DEF Recursive

Follows(n, f, g) == \A i \in 1 .. n : f[i] = g[i][f[i - 1]]

\* There is but one.
LEMMA RecursionOnce ==
  ASSUME NEW n \in Nat, NEW f, NEW h, NEW g, f[0] = h[0], Follows(n, f, g), Follows(n, h, g)
  PROVE  \A i \in 0 .. n : f[i] = h[i]
  <1> DEFINE Shown == {m \in Nat : m <= n => f[m] = h[m]}
  <1>1. 0 \in Shown
    OBVIOUS
  <1>2. ASSUME NEW m \in Nat, m \in Shown PROVE m + 1 \in Shown
    <2> SUFFICES ASSUME m + 1 <= n PROVE f[m + 1] = h[m + 1]
      OBVIOUS
    <2>1. f[m] = h[m] /\ m + 1 \in 1 .. n /\ m + 1 - 1 = m
      BY <1>2
    <2>2. f[m + 1] = g[m + 1][f[m]] /\ h[m + 1] = g[m + 1][h[m]]
      BY <2>1 DEF Follows
    <2>3. QED
      BY <2>1, <2>2
  <1>3. \A m \in Nat : m \in Shown
    <2> HIDE DEF Shown
    <2> QED BY <1>1, <1>2, UpFromZero
  <1>4. QED
    BY <1>3

\* FlattenSeq appends one sequence after the other.
Flattens(E, ss, F) ==
  /\ F \in [0 .. Len(ss) -> Seq(E)]
  /\ F[0] = <<>> /\ \A i \in 1 .. Len(ss) : F[i] = F[i - 1] \o ss[i]
  /\ FlattenSeq(ss) = F[Len(ss)]

\* FlattenSeq, unfolded one sequence at a time.
LEMMA FlattenStepwise ==
  ASSUME NEW E, NEW ss \in Seq(Seq(E))
  PROVE  \E F : Flattens(E, ss, F)
  <1> DEFINE n == Len(ss)
             g == [i \in 1 .. n |-> [t \in Seq(E) |-> t \o ss[i]]]
             Body(h) == [i \in 1 .. n |-> IF i = 1 THEN ss[i] ELSE h[i - 1] \o ss[i]]
             flat == CHOOSE h : h = Body(h)
  <1>1. n \in Nat /\ \A i \in 1 .. n : ss[i] \in Seq(E)
    OBVIOUS
  <1>2. <<>> \in Seq(E) /\ \A i \in 1 .. n : \A t \in Seq(E) : g[i][t] = t \o ss[i] /\ g[i][t] \in Seq(E)
    BY <1>1, ConcatProperties
  <1>3. PICK f \in [0 .. n -> Seq(E)] : f[0] = <<>> /\ \A i \in 1 .. n : f[i] = g[i][f[i - 1]]
    <2>1. n \in Nat /\ <<>> \in Seq(E) /\ StaysIn(Seq(E), n, g)
      BY <1>1, <1>2 DEF StaysIn
    <2> HIDE DEF g, n
    <2>2. Recursive(Seq(E), n, <<>>, g)
      BY <2>1, Recursion
    <2>3. QED
      BY <2>2 DEF Recursive
  <1>4. \A i \in 1 .. n : f[i] = f[i - 1] \o ss[i] /\ f[i - 1] \in Seq(E) /\ f[i] \in Seq(E)
    <2> TAKE i \in 1 .. n
    <2>1. i - 1 \in 0 .. n /\ i \in 0 .. n
      BY <1>1
    <2> HIDE DEF g, n
    <2>2. QED
      BY <1>2, <1>3, <2>1
  <1>5. n > 0 => f[1] = ss[1]
    <2> SUFFICES ASSUME n > 0 PROVE f[1] = ss[1]
      OBVIOUS
    <2>1. 1 \in 1 .. n /\ 1 - 1 = 0
      BY <1>1
    <2>2. f[1] = <<>> \o ss[1] /\ ss[1] \in Seq(E)
      BY <1>1, <1>3, <1>4, <2>1
    <2>3. QED
      BY <2>2, ConcatEmptySeq
  <1>6. flat = Body(flat)
    <2> DEFINE h == [i \in 1 .. n |-> f[i]]
    <2>1. \A i \in 1 .. n : h[i] = (IF i = 1 THEN ss[i] ELSE h[i - 1] \o ss[i])
      <3> TAKE i \in 1 .. n
      <3>1. CASE i = 1
        BY <3>1, <1>5
      <3>2. CASE i # 1
        <4>1. i - 1 \in 1 .. n
          BY <3>2, <1>1
        <4>2. QED
          BY <1>4, <3>2, <4>1
      <3>3. QED
        BY <3>1, <3>2
    <2>2. h = Body(h)
      BY <2>1
    <2> HIDE DEF h, Body
    <2>3. QED
      BY <2>2
  <1>7. \A i \in 1 .. n : flat[i] = (IF i = 1 THEN ss[i] ELSE flat[i - 1] \o ss[i])
    <2>1. \A i \in 1 .. n : flat[i] = Body(flat)[i]
      <3> HIDE DEF flat, Body
      <3> QED BY <1>6
    <2> HIDE DEF flat
    <2>2. QED
      BY <2>1
  <1>8. \A i \in 1 .. n : flat[i] = f[i]
    <2> HIDE DEF flat
    <2> DEFINE Shown == {m \in Nat : m + 1 \in 1 .. n => flat[m + 1] = f[m + 1]}
    <2>1. 0 \in Shown
      BY <1>1, <1>5, <1>7
    <2>2. ASSUME NEW m \in Nat, m \in Shown PROVE m + 1 \in Shown
      <3> SUFFICES ASSUME m + 1 + 1 \in 1 .. n PROVE flat[m + 1 + 1] = f[m + 1 + 1]
        OBVIOUS
      <3> DEFINE k == m + 1 + 1
      <3>1. m + 1 \in 1 .. n /\ k \in 1 .. n /\ k # 1 /\ k - 1 = m + 1
        BY <1>1
      <3>2. flat[m + 1] = f[m + 1]
        BY <2>2, <3>1
      <3> HIDE DEF k
      <3>3. flat[k] = flat[k - 1] \o ss[k] /\ f[k] = f[k - 1] \o ss[k]
        BY <1>4, <1>7, <3>1
      <3>4. flat[k] = f[k]
        BY <3>1, <3>2, <3>3
      <3>5. QED
        BY <3>4 DEF k
    <2>3. \A m \in Nat : m \in Shown
      <3> HIDE DEF Shown
      <3> QED BY <2>1, <2>2, UpFromZero
    <2>4. \A i \in 1 .. n : i - 1 \in Nat /\ i - 1 + 1 = i
      BY <1>1
    <2>5. QED
      BY <2>3, <2>4
  <1>9. FlattenSeq(ss) = f[n]
    <2>1. CASE n = 0
      BY <2>1, <1>3, EmptySeq DEF FlattenSeq
    <2>2. CASE n # 0
      <3>1. FlattenSeq(ss) = flat[n]
        BY <2>2, Zenon DEF FlattenSeq
      <3>2. n \in 1 .. n
        BY <1>1, <2>2
      <3> HIDE DEF flat, n
      <3>3. QED
        BY <1>8, <3>1, <3>2
    <2>3. QED
      BY <2>1, <2>2
  <1>10. Flattens(E, ss, f)
    BY <1>3, <1>4, <1>9 DEF Flattens
  <1>11. QED
    BY <1>10

\* The first element goes.
LEMMA TakeHead ==
  ASSUME NEW E, NEW s \in Seq(E), s # <<>>
  PROVE  /\ Head(s) \in E /\ Tail(s) \in Seq(E) /\ Len(Tail(s)) = Len(s) - 1 /\ Len(s) > 0
         /\ Head(s) = s[1] /\ \A i \in 1 .. Len(Tail(s)) : Tail(s)[i] = s[i + 1]
  BY HeadTailProperties, EmptySeq

\* An element is put last.
LEMMA PutLast ==
  ASSUME NEW E, NEW s \in Seq(E), NEW x \in E
  PROVE  /\ Append(s, x) \in Seq(E) /\ Len(Append(s, x)) = Len(s) + 1
         /\ Append(s, x)[Len(s) + 1] = x /\ \A i \in 1 .. Len(s) : Append(s, x)[i] = s[i]
  BY AppendProperties

\* Emptiness and length are the same.
LEMMA EmptyOnce ==
  ASSUME NEW E
  PROVE  <<>> \in Seq(E) /\ Len(<<>>) = 0
  BY EmptySeq

\* The same, from the length.
LEMMA LenZero ==
  ASSUME NEW E, NEW s \in Seq(E)
  PROVE  Len(s) \in Nat /\ (Len(s) = 0 <=> s = <<>>)
  BY EmptySeq, LenProperties

\* Where each sequence lies in the whole.
Lies(E, ss, F) ==
  /\ \A i \in 0 .. Len(ss) : F[i] \in Seq(E) /\ Len(F[i]) \in Nat
  /\ Len(F[0]) = 0
  /\ \A i \in 1 .. Len(ss) :
       /\ Len(F[i]) = Len(F[i - 1]) + Len(ss[i]) /\ Len(F[i]) <= Len(FlattenSeq(ss))
       /\ \A j \in 1 .. Len(ss[i]) : FlattenSeq(ss)[Len(F[i - 1]) + j] = ss[i][j]

\* Flattened sequences lie there.
LEMMA FlattenPlaces ==
  ASSUME NEW E, NEW ss \in Seq(Seq(E)), NEW F, Flattens(E, ss, F)
  PROVE  Lies(E, ss, F)
  <1> DEFINE n == Len(ss)
  <1>1. /\ n \in Nat /\ F \in [0 .. n -> Seq(E)] /\ F[0] = <<>> /\ FlattenSeq(ss) = F[n]
        /\ \A i \in 1 .. n : F[i] = F[i - 1] \o ss[i] /\ ss[i] \in Seq(E)
    <2>1. \A i \in 1 .. n : ss[i] \in Seq(E)
      BY ElementOfSeq
    <2>2. n \in Nat
      BY LenProperties
    <2>3. QED
      BY <2>1, <2>2 DEF Flattens
  <1>2. \A i \in 0 .. n : F[i] \in Seq(E) /\ Len(F[i]) \in Nat
    <2> HIDE DEF n
    <2>1. \A i \in 0 .. n : F[i] \in Seq(E)
      BY <1>1
    <2>2. QED
      BY <2>1, LenProperties
  <1>3. ASSUME NEW i \in 1 .. n
        PROVE  /\ i - 1 \in 0 .. n /\ i \in 0 .. n /\ Len(ss[i]) \in Nat
               /\ Len(F[i]) = Len(F[i - 1]) + Len(ss[i])
               /\ \A x \in 1 .. Len(F[i - 1]) + Len(ss[i]) :
                    F[i][x] = IF x <= Len(F[i - 1]) THEN F[i - 1][x] ELSE ss[i][x - Len(F[i - 1])]
    <2>1. i - 1 \in 0 .. n /\ i \in 0 .. n
      BY <1>1
    <2> DEFINE a == F[i - 1]
               b == ss[i]
    <2>2. a \in Seq(E) /\ b \in Seq(E) /\ F[i] = a \o b
      BY <1>1, <1>2, <2>1
    <2> HIDE DEF a, b, n
    <2>3. /\ Len(a \o b) = Len(a) + Len(b) /\ Len(b) \in Nat
          /\ \A x \in 1 .. Len(a) + Len(b) : (a \o b)[x] = IF x <= Len(a) THEN a[x] ELSE b[x - Len(a)]
      BY <2>2, ConcatProperties, LenProperties
    <2>4. QED
      BY <2>1, <2>2, <2>3 DEF a, b
  <1> DEFINE Placed(k, i) ==
               /\ Len(F[i]) <= Len(F[k])
               /\ \A j \in 1 .. Len(ss[i]) : F[k][Len(F[i - 1]) + j] = ss[i][j]
             Shown == {k \in Nat : k <= n => \A i \in 1 .. k : Placed(k, i)}
  <1> HIDE DEF n
  <1>4. 0 \in Shown
    OBVIOUS
  <1>5. ASSUME NEW k \in Nat, k \in Shown PROVE k + 1 \in Shown
    <2> SUFFICES ASSUME k + 1 <= n, NEW i \in 1 .. k + 1 PROVE Placed(k + 1, i)
      OBVIOUS
    <2> DEFINE q == k + 1
    <2>1. q \in 1 .. n /\ q - 1 = k /\ k \in 0 .. n /\ i \in 1 .. n /\ (i = q \/ i \in 1 .. k)
      BY <1>1
    <2> HIDE DEF q
    <2>2. /\ Len(F[q]) = Len(F[k]) + Len(ss[q]) /\ Len(ss[q]) \in Nat /\ Len(F[k]) \in Nat
          /\ \A x \in 1 .. Len(F[k]) + Len(ss[q]) :
               F[q][x] = IF x <= Len(F[k]) THEN F[k][x] ELSE ss[q][x - Len(F[k])]
      BY <1>2, <1>3, <2>1
    <2>3. /\ Len(F[i]) = Len(F[i - 1]) + Len(ss[i]) /\ Len(ss[i]) \in Nat /\ Len(F[i - 1]) \in Nat /\ Len(F[i]) \in Nat
      BY <1>2, <1>3, <2>1
    <2> DEFINE low == Len(F[i - 1])
               more == Len(ss[i])
               all == Len(F[k])
               new == Len(ss[q])
    <2>4. CASE i = q
      <3>1. low = all /\ more = new
        BY <2>1, <2>4
      <3>2. ASSUME NEW j \in 1 .. more PROVE F[q][low + j] = ss[i][j]
        <4>1. low \in Nat /\ more \in Nat
          BY <2>3
        <4>2. \A x \in 1 .. low + more : F[q][x] = IF x <= low THEN F[k][x] ELSE ss[i][x - low]
          BY <2>2, <2>4, <3>1
        <4> HIDE DEF low, more
        <4> DEFINE x == low + j
        <4>3. x \in 1 .. low + more /\ ~(x <= low) /\ x - low = j
          BY <4>1
        <4> HIDE DEF x
        <4>4. F[q][x] = ss[i][j]
          BY <4>2, <4>3
        <4>5. QED
          BY <4>4 DEF x
      <3>3. Len(F[q]) <= Len(F[q])
        BY <2>2
      <3>4. Placed(q, i)
        BY <2>4, <3>2, <3>3
      <3>5. QED
        BY <3>4 DEF q
    <2>5. CASE i \in 1 .. k
      <3>1. Placed(k, i)
        BY <1>5, <2>1, <2>5
      <3>2. ASSUME NEW j \in 1 .. more PROVE F[q][low + j] = ss[i][j]
        <4>1. low \in Nat /\ more \in Nat /\ all \in Nat /\ new \in Nat /\ low + more <= all
          BY <2>2, <2>3, <3>1
        <4>2. F[k][low + j] = ss[i][j]
          BY <3>1
        <4>3. \A x \in 1 .. all + new : x <= all => F[q][x] = F[k][x]
          BY <2>2
        <4> HIDE DEF low, more, all, new
        <4> DEFINE x == low + j
        <4>4. x \in 1 .. all + new /\ x <= all
          BY <4>1
        <4> HIDE DEF x
        <4>5. F[q][x] = F[k][x]
          BY <4>3, <4>4
        <4>6. QED
          BY <4>2, <4>5 DEF x
      <3>3. Len(F[i]) <= Len(F[q])
        <4> DEFINE len == Len(F[i])
        <4>1. len \in Nat /\ all \in Nat /\ new \in Nat /\ Len(F[q]) = all + new /\ len <= all
          BY <2>2, <2>3, <3>1
        <4> HIDE DEF len, all, new
        <4>2. len <= all + new
          BY <4>1
        <4>3. QED
          BY <4>1, <4>2 DEF len
      <3>4. QED
        BY <3>2, <3>3 DEF q
    <2>6. QED
      BY <2>1, <2>4, <2>5
  <1>6. n \in Shown
    <2>1. \A k \in Nat : k \in Shown
      <3> HIDE DEF Shown
      <3>1. QED
        BY <1>4, <1>5, UpFromZero
    <2>2. QED
      BY <1>1, <2>1
  <1>7. \A i \in 1 .. n : Placed(n, i)
    BY <1>1, <1>6
  <1>8. QED
    BY <1>1, <1>2, <1>3, <1>7, EmptyOnce DEF n, Lies

\* A sequence is one of its own elements.
LEMMA OwnRange ==
  ASSUME NEW X, NEW q \in Seq(X)
  PROVE  q \in Seq(Range(q))
  <1>1. q \in [1 .. Len(q) -> X] /\ Len(q) \in Nat
    BY LenProperties
  <1>2. \A i \in 1 .. Len(q) : q[i] \in Range(q)
    BY <1>1 DEF Range
  <1>3. q \in [1 .. Len(q) -> Range(q)]
    BY <1>1, <1>2
  <1>4. QED
    BY <1>1, <1>3, SeqDef

\* Two elements, one appended to the other.
LEMMA TwoAppended ==
  ASSUME NEW v, NEW w
  PROVE  Append(<<v>>, w) = <<v, w>>
  <1> DEFINE q == <<v>>
             X == {v, w}
  <1>1. q \in Seq(X) /\ Len(q) = 1 /\ q[1] = v
    OBVIOUS
  <1> DEFINE r == <<v, w>>
  <1>2. r \in Seq(X) /\ Len(r) = 2 /\ r[1] = v /\ r[2] = w
    OBVIOUS
  <1> HIDE DEF q, r
  <1>3. /\ Append(q, w) \in Seq(X) /\ Len(Append(q, w)) = 2 /\ Append(q, w)[1] = v /\ Append(q, w)[2] = w
    <2>1. w \in X
      OBVIOUS
    <2> HIDE DEF X
    <2>2. /\ Append(q, w) \in Seq(X) /\ Len(Append(q, w)) = Len(q) + 1
          /\ \A i \in 1 .. Len(q) : Append(q, w)[i] = q[i]
          /\ Append(q, w)[Len(q) + 1] = w
      <3>1. q \in Seq(X)
        BY <1>1
      <3>2. QED
        BY <2>1, <3>1, AppendProperties
    <2>3. QED
      BY <1>1, <2>2
  <1>4. \A i \in 1 .. 2 : i = 1 \/ i = 2
    OBVIOUS
  <1>5. Append(q, w) = r
    BY <1>2, <1>3, <1>4, SeqEqual
  <1>6. QED
    BY <1>5 DEF q, r

\* A definition on 0 .. n that refers to larger numbers only.
LooksAhead(n, D, g)  == \A e \in 0 .. n : e \in D => g[e] \in e + 1 .. n
Ahead(n, D, g, h, f) == f = [e \in 0 .. n |-> IF e \in D THEN f[g[e]] ELSE h[e]]

\* A function that is defined so exists.
LEMMA Downward ==
  ASSUME NEW n \in Nat, NEW D, NEW g, NEW h, LooksAhead(n, D, g)
  PROVE  \E f : Ahead(n, D, g, h, f)
  <1> DEFINE Good(k, f) == f = [e \in n + 1 - k .. n |-> IF e \in D THEN f[g[e]] ELSE h[e]]
             Shown == {k \in Nat : k <= n + 1 => \E f : Good(k, f)}
  <1>1. 0 \in Shown
    <2> DEFINE f == [e \in n + 1 .. n |-> 0]
    <2>1. \A e : e \notin n + 1 - 0 .. n
      OBVIOUS
    <2>2. Good(0, f)
      BY <2>1
    <2>3. QED
      BY <2>2
  <1>2. ASSUME NEW k \in Nat, k \in Shown PROVE k + 1 \in Shown
    <2>0. \A e \in 0 .. n : e \in D => g[e] \in e + 1 .. n
      BY DEF LooksAhead
    <2> SUFFICES ASSUME k + 1 <= n + 1 PROVE \E f : Good(k + 1, f)
      OBVIOUS
    <2>1. PICK f : Good(k, f)
      BY <1>2
    <2> DEFINE b == n - k
               d == [e \in b .. n |-> IF e = b THEN (IF e \in D THEN f[g[e]] ELSE h[e]) ELSE f[e]]
    <2>2. b \in 0 .. n /\ n + 1 - k = b + 1 /\ n + 1 - (k + 1) = b
      OBVIOUS
    <2>3. f = [e \in b + 1 .. n |-> IF e \in D THEN f[g[e]] ELSE h[e]]
      BY <2>1, <2>2
    <2> HIDE DEF b
    <2>4. \A e \in b .. n : e \in 0 .. n /\ (e = b \/ e \in b + 1 .. n) /\ \A x \in e + 1 .. n : x \in b .. n /\ x # b
      BY <2>2
    <2>5. ASSUME NEW e \in b .. n PROVE d[e] = IF e \in D THEN d[g[e]] ELSE h[e]
      <3>1. e \in D => d[g[e]] = f[g[e]]
        BY <2>0, <2>4
      <3>2. e # b => f[e] = IF e \in D THEN f[g[e]] ELSE h[e]
        BY <2>3, <2>4
      <3>3. QED
        BY <3>1, <3>2
    <2>6. d = [e \in b .. n |-> IF e \in D THEN d[g[e]] ELSE h[e]]
      <3> DEFINE w == [e \in b .. n |-> IF e \in D THEN d[g[e]] ELSE h[e]]
      <3>1. d = [e \in b .. n |-> d[e]]
        OBVIOUS
      <3> HIDE DEF d
      <3>2. QED
        BY <2>5, <3>1
    <2> HIDE DEF d
    <2>7. Good(k + 1, d)
      BY <2>2, <2>6
    <2>8. QED
      BY <2>7
  <1>3. n + 1 \in Shown
    <2> HIDE DEF Shown
    <2>1. QED
      BY <1>1, <1>2, UpFromZero
  <1>4. n + 1 - (n + 1) = 0
    OBVIOUS
  <1>5. QED
    BY <1>3, <1>4 DEF Ahead
=============================================================================
