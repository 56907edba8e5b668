-------------------------- MODULE SplitMergeProofs --------------------------
(***************************************************************************)
(* Proofs about SplitMerge, for ranges of any length and any numbers of    *)
(* clients and threads.  What the recursive definition of FlattenSeq       *)
(* yields is shown by least counterexample: a set of naturals that is not  *)
(* empty has a least element (Least), which each induction applies to the  *)
(* set of the numbers for which its claim fails.                           *)
(***************************************************************************)
EXTENDS SplitMerge, SequenceTheorems, FiniteSetTheorems, FunctionTheorems,
        WellFoundedInduction, TLAPS

LessThan == {ss \in Nat \X Nat : ss[1] < ss[2]}

LEMMA LessThanWellFounded == IsWellFoundedOn(LessThan, Nat)
<1>1. LessThan = OpToRel(<, Nat)
  BY Zenon DEF LessThan, OpToRel
<1> QED
  BY <1>1, NatLessThanWellFounded, Zenon

\* Every set of naturals has a least element.
LEMMA Least ==
  ASSUME NEW S \in SUBSET Nat, S # {}
  PROVE  \E m \in S : \A k \in S : m <= k
<1>1. PICK m \in S : \A k \in S : ~(<<k, m>> \in LessThan)
  BY LessThanWellFounded, WFMin, Zenon
<1>2. ASSUME NEW k \in S PROVE m <= k
  <2>1. <<k, m>> \in Nat \X Nat
    OBVIOUS
  <2>2. ~(k < m)
    BY <1>1, <2>1 DEF LessThan
  <2> QED
    BY <2>2
<1> QED
  BY <1>2

\* A strictly increasing function from 1 .. n to 0 .. n - 1 is the only one.
LEMMA Ascending ==
  ASSUME NEW n \in Nat, NEW q \in [1 .. n -> 0 .. n - 1],
         \A i, j \in 1 .. n : i < j => q[i] < q[j]
  PROVE  \A i \in 1 .. n : q[i] = i - 1
<1>1. \A i \in 1 .. n : q[i] >= i - 1
  <2> DEFINE S == {i \in 1 .. n : ~(q[i] >= i - 1)}
  <2> SUFFICES ASSUME S # {} PROVE FALSE
    OBVIOUS
  <2>1. PICK m \in S : \A k \in S : m <= k
    <3>1. S \in SUBSET Nat
      OBVIOUS
    <3> HIDE DEF S
    <3> QED
      BY <3>1, Least
  <2>2. m > 1 /\ m - 1 \in 1 .. n
    BY <2>1
  <2>3. q[m - 1] >= m - 2
    BY <2>1, <2>2
  <2> QED
    BY <2>1, <2>2, <2>3
<1>2. \A i \in 1 .. n : q[i] <= i - 1
  <2> DEFINE S == {d \in 0 .. n - 1 : ~(q[n - d] <= n - d - 1)}
  <2> SUFFICES ASSUME S # {} PROVE FALSE
    <3> SUFFICES ASSUME NEW i \in 1 .. n, ~(q[i] <= i - 1) PROVE S # {}
      OBVIOUS
    <3>1. n - i \in 0 .. n - 1 /\ n - (n - i) = i
      OBVIOUS
    <3> QED
      BY <3>1
  <2>1. PICK m \in S : \A k \in S : m <= k
    <3>1. S \in SUBSET Nat
      OBVIOUS
    <3> HIDE DEF S
    <3> QED
      BY <3>1, Least
  <2>2. m > 0 /\ m - 1 \in 0 .. n - 1
    BY <2>1
  <2>3. q[n - (m - 1)] <= n - (m - 1) - 1
    <3>1. m \in Int /\ ~(m <= m - 1)
      BY <2>2
    <3>2. m - 1 \notin S
      BY <2>1, <3>1, Zenon
    <3> QED
      BY <2>2, <3>2
  <2>4. n - m \in 1 .. n /\ n - (m - 1) \in 1 .. n /\ n - m < n - (m - 1)
    BY <2>2
  <2>5. q[n - m] < q[n - (m - 1)] /\ ~(q[n - m] <= n - m - 1)
    BY <2>1, <2>4
  <2>6. q[n - m] \in Int /\ q[n - (m - 1)] \in Int /\ m \in Int
    BY <2>2, <2>4
  <2> HIDE DEF S
  <2> DEFINE a == q[n - m]  b == q[n - (m - 1)]
  <2>7. a \in Int /\ b \in Int /\ a < b /\ b <= n - m /\ ~(a <= n - m - 1)
    BY <2>3, <2>5, <2>6
  <2> HIDE DEF a, b
  <2> QED
    BY <2>6, <2>7
<1> QED
  BY <1>1, <1>2

-----------------------------------------------------------------------------
(* Concatenation. *)

\* f is a function, hence a sequence, on 1 .. n.
Array(f, n) == f = [i \in 1 .. n |-> f[i]]

\* f is the concatenation of the first m sequences of s, for every m up to n.
Flat(s, f, n) == f = [i \in 1 .. n |-> IF i = 1 THEN s[i] ELSE f[i - 1] \o s[i]]

\* What that says of each position.
FlatSteps(s, f, n) ==
  \A i \in 1 .. n : (i = 1 => f[i] = s[i]) /\ (i # 1 => f[i] = f[i - 1] \o s[i])

LEMMA FlatAt ==
  ASSUME NEW n, NEW s, NEW f, Flat(s, f, n)
  PROVE  FlatSteps(s, f, n)
<1> DEFINE h == [i \in 1 .. n |-> IF i = 1 THEN s[i] ELSE f[i - 1] \o s[i]]
<1>1. f = h
  BY DEF Flat
<1>2. \A i \in 1 .. n : h[i] = IF i = 1 THEN s[i] ELSE f[i - 1] \o s[i]
  OBVIOUS
<1> HIDE DEF h
<1> QED
  BY <1>1, <1>2 DEF FlatSteps

LEMMA FlatStep ==
  ASSUME NEW m \in Nat, m > 1, NEW s, NEW f, Flat(s, f, m - 1)
  PROVE  \E g : Flat(s, g, m)
<1> DEFINE g == [i \in 1 .. m |-> IF i = m THEN f[m - 1] \o s[m] ELSE f[i]]
<1>1. ASSUME NEW i \in 1 .. m
      PROVE  g[i] = IF i = 1 THEN s[i] ELSE g[i - 1] \o s[i]
  <2>1. CASE i = m
    <3>1. g[i] = f[m - 1] \o s[m]
      BY <2>1, Zenon
    <3>2. i - 1 \in 1 .. m /\ i - 1 # m /\ g[i - 1] = f[m - 1]
      BY <2>1
    <3>3. i # 1
      BY <2>1
    <3> HIDE DEF g
    <3> QED
      BY <2>1, <3>1, <3>2, <3>3, Zenon
  <2>2. CASE i # m
    <3>1. i \in 1 .. m - 1 /\ g[i] = f[i]
      BY <2>2
    <3>2. \A j \in 1 .. m - 1 : (j = 1 => f[j] = s[j]) /\ (j # 1 => f[j] = f[j - 1] \o s[j])
      <4>1. FlatSteps(s, f, m - 1)
        BY FlatAt
      <4> QED
        BY <4>1 DEF FlatSteps
    <3>3. i # 1 => i - 1 \in 1 .. m /\ i - 1 # m /\ g[i - 1] = f[i - 1]
      BY <3>1
    <3> HIDE DEF g
    <3> QED
      BY <3>1, <3>2, <3>3
  <2> QED
    BY <2>1, <2>2
<1>2. Flat(s, g, m)
  <2> DEFINE h == [i \in 1 .. m |-> IF i = 1 THEN s[i] ELSE g[i - 1] \o s[i]]
  <2>1. \A i \in 1 .. m : g[i] = h[i]
    BY <1>1, Zenon
  <2>2. g = h
    BY <2>1, Zenon
  <2> QED
    BY <2>2, Zenon DEF Flat
<1> QED
  BY <1>2, Zenon

LEMMA FlatExists ==
  ASSUME NEW n \in Nat \ {0}, NEW s
  PROVE  \E f : Flat(s, f, n)
<1> DEFINE S == {m \in Nat \ {0} : ~ \E f : Flat(s, f, m)}
<1> SUFFICES ASSUME S # {} PROVE FALSE
  BY Zenon
<1>1. PICK m \in S : \A k \in S : m <= k
  <2>1. S \in SUBSET Nat
    OBVIOUS
  <2> HIDE DEF S
  <2> QED
    BY <2>1, Least
<1>2. m \in Nat \ {0} /\ ~ \E f : Flat(s, f, m)
  BY <1>1
<1>3. CASE m = 1
  <2>1. Flat(s, [i \in 1 .. 1 |-> s[i]], 1)
    BY DEF Flat
  <2> QED
    BY <1>2, <1>3, <2>1
<1>4. CASE m # 1
  <2>1. m - 1 \in Nat \ {0} /\ m \in Nat /\ m > 1 /\ ~(m <= m - 1)
    BY <1>2, <1>4
  <2>2. m - 1 \notin S
    BY <1>1, <2>1, Zenon
  <2>3. PICK f : Flat(s, f, m - 1)
    BY <2>1, <2>2
  <2> QED
    BY <1>2, <2>1, <2>3, FlatStep
<1> QED
  BY <1>3, <1>4

\* FlattenSeq is what repeated concatenation yields.
LEMMA Flattened ==
  ASSUME NEW n \in Nat \ {0}, NEW s, Array(s, n)
  PROVE  \E f : Flat(s, f, n) /\ FlattenSeq(s) = f[n]
<1>1. Len(s) = n
  BY DEF Array
<1>2. FlattenSeq(s) = (CHOOSE f : Flat(s, f, n))[n]
  BY <1>1 DEF FlattenSeq, Flat
<1>3. PICK f : f = CHOOSE g : Flat(s, g, n)
  OBVIOUS
<1>4. Flat(s, f, n)
  BY <1>3, FlatExists, Zenon
<1> QED
  BY <1>2, <1>3, <1>4, Zenon

\* The integers from a to b in order: the values of a task from a to b.
Values(a, b) == [k \in 1 .. b - a + 1 |-> a + k - 1]

LEMMA ValuesSeq ==
  ASSUME NEW a \in Int, NEW b \in Int, a <= b + 1
  PROVE  /\ Values(a, b) \in Seq(Int) /\ Len(Values(a, b)) = b - a + 1
         /\ \A k \in 1 .. b - a + 1 : Values(a, b)[k] = a + k - 1
  BY DEF Values

LEMMA ValuesConcat ==
  ASSUME NEW a \in Int, NEW b \in Int, NEW c \in Int, a <= b, b < c
  PROVE  Values(a, b) \o Values(b + 1, c) = Values(a, c)
<1>1. /\ Values(a, b) \in Seq(Int) /\ Len(Values(a, b)) = b - a + 1
      /\ \A k \in 1 .. b - a + 1 : Values(a, b)[k] = a + k - 1
  BY ValuesSeq
<1>2. /\ Values(b + 1, c) \in Seq(Int) /\ Len(Values(b + 1, c)) = c - b
      /\ \A k \in 1 .. c - b : Values(b + 1, c)[k] = b + k
  <2>1. b + 1 \in Int /\ b + 1 <= c + 1 /\ c - (b + 1) + 1 = c - b
    OBVIOUS
  <2>2. \A k \in 1 .. c - b : b + 1 + k - 1 = b + k
    OBVIOUS
  <2> DEFINE d == b + 1
  <2>3. d \in Int /\ d <= c + 1 /\ c - d + 1 = c - b
    BY <2>1
  <2> HIDE DEF d
  <2>4. /\ Values(d, c) \in Seq(Int) /\ Len(Values(d, c)) = c - d + 1
        /\ \A k \in 1 .. c - d + 1 : Values(d, c)[k] = d + k - 1
    BY <2>3, ValuesSeq
  <2> QED
    BY <2>2, <2>3, <2>4 DEF d
<1>3. /\ Values(a, c) \in Seq(Int) /\ Len(Values(a, c)) = c - a + 1
      /\ \A k \in 1 .. c - a + 1 : Values(a, c)[k] = a + k - 1
  <2>1. a <= c + 1
    OBVIOUS
  <2> QED
    BY <2>1, ValuesSeq
<1> DEFINE s == Values(a, b)  t == Values(b + 1, c)  u == s \o t
<1> HIDE DEF s, t
<1>4. /\ u \in Seq(Int) /\ Len(u) = Len(s) + Len(t)
      /\ \A i \in 1 .. Len(s) + Len(t) : u[i] = IF i <= Len(s) THEN s[i] ELSE t[i - Len(s)]
  BY <1>1, <1>2, ConcatProperties, Zenon DEF s, t
<1> HIDE DEF u
<1>5. Len(u) = c - a + 1
  <2>1. Len(s) = b - a + 1 /\ Len(t) = c - b
    BY <1>1, <1>2 DEF s, t
  <2>2. Len(u) = Len(s) + Len(t)
    BY <1>4, Zenon
  <2>3. b - a + 1 + (c - b) = c - a + 1
    OBVIOUS
  <2> QED
    BY <2>1, <2>2, <2>3
<1>6. ASSUME NEW k \in 1 .. c - a + 1 PROVE u[k] = a + k - 1
  <2>1. k \in 1 .. Len(s) + Len(t) /\ Len(s) = b - a + 1
    BY <1>1, <1>2 DEF s, t
  <2>2. CASE k <= b - a + 1
    BY <1>1, <1>4, <2>1, <2>2 DEF s
  <2>3. CASE k > b - a + 1
    <3>1. k - (b - a + 1) \in 1 .. c - b
      BY <2>3
    <3>2. u[k] = t[k - (b - a + 1)]
      BY <1>4, <2>1, <2>3
    <3> QED
      BY <1>2, <3>1, <3>2 DEF t
  <2> QED
    BY <2>2, <2>3
<1>7. u = Values(a, c)
  BY <1>3, <1>4, <1>5, <1>6, SeqEqual
<1> QED
  BY <1>7 DEF u, s, t

\* The sequences of s are the values lo[i] .. hi[i], each after the one before.
Successive(s, lo, hi, n) ==
  /\ Array(s, n)
  /\ \A i \in 1 .. n : lo[i] \in Int /\ hi[i] \in Int /\ lo[i] <= hi[i]
  /\ \A i \in 1 .. n : s[i] = Values(lo[i], hi[i])
  /\ \A i \in 1 .. n : i > 1 => lo[i] = hi[i - 1] + 1

\* Ranges of values that follow one another are one range when concatenated.
LEMMA FlattenValues ==
  ASSUME NEW n \in Nat \ {0}, NEW s, NEW lo, NEW hi, Successive(s, lo, hi, n)
  PROVE  FlattenSeq(s) = Values(lo[1], hi[n])
<1>1. PICK f : Flat(s, f, n) /\ FlattenSeq(s) = f[n]
  BY Flattened, Zenon DEF Successive
<1>2. \A i \in 1 .. n : (i = 1 => f[i] = s[i]) /\ (i # 1 => f[i] = f[i - 1] \o s[i])
  <2>1. FlatSteps(s, f, n)
    BY <1>1, FlatAt
  <2> QED
    BY <2>1 DEF FlatSteps
<1> DEFINE P(m) == f[m] = Values(lo[1], hi[m]) /\ lo[1] <= hi[m]
<1> HIDE DEF P
<1> DEFINE S == {m \in 1 .. n : ~P(m)}
<1>3. S = {}
  <2> SUFFICES ASSUME S # {} PROVE FALSE
    OBVIOUS
  <2>1. PICK m \in S : \A k \in S : m <= k
    <3>1. S \in SUBSET Nat
      OBVIOUS
    <3> HIDE DEF S
    <3> QED
      BY <3>1, Least
  <2>2. m \in 1 .. n /\ ~P(m)
    BY <2>1, Zenon
  <2>3. 1 \in 1 .. n
    OBVIOUS
  <2>4. CASE m = 1
    <3>1. f[1] = s[1]
      BY <1>2, <2>3
    <3>2. s[1] = Values(lo[1], hi[1]) /\ lo[1] <= hi[1]
      BY <2>3 DEF Successive
    <3> QED
      BY <2>2, <2>4, <3>1, <3>2 DEF P
  <2>5. CASE m # 1
    <3>1. m - 1 \in 1 .. n /\ ~(m <= m - 1) /\ m > 1
      BY <2>2, <2>5
    <3>2. P(m - 1)
      BY <2>1, <3>1, Zenon
    <3>3. f[m] = f[m - 1] \o s[m]
      BY <1>2, <2>2, <2>5, Zenon
    <3>4. lo[m] = hi[m - 1] + 1 /\ lo[m] <= hi[m] /\ s[m] = Values(lo[m], hi[m])
      BY <2>2, <3>1 DEF Successive
    <3>5. lo[1] \in Int /\ hi[m - 1] \in Int /\ hi[m] \in Int
      BY <2>2, <2>3, <3>1 DEF Successive
    <3>6. f[m - 1] = Values(lo[1], hi[m - 1]) /\ lo[1] <= hi[m - 1]
      BY <3>2 DEF P
    <3>7. hi[m - 1] < hi[m] /\ lo[1] <= hi[m]
      BY <3>4, <3>5, <3>6
    <3>8. f[m] = Values(lo[1], hi[m])
      <4>1. Values(lo[1], hi[m - 1]) \o Values(hi[m - 1] + 1, hi[m]) = Values(lo[1], hi[m])
        BY <3>5, <3>6, <3>7, ValuesConcat
      <4> QED
        BY <3>3, <3>4, <3>6, <4>1
    <3> QED
      BY <2>2, <3>7, <3>8 DEF P
  <2> QED
    BY <2>4, <2>5
<1>4. P(n)
  <2>1. n \in 1 .. n
    OBVIOUS
  <2> QED
    BY <1>3, <2>1
<1> QED
  BY <1>1, <1>4 DEF P

-----------------------------------------------------------------------------
(* Splitting. *)

Tasks ==
  {t \in [number : Seq(Nat), total : Seq(Nat), first : Int, last : Int] :
     t.first <= t.last}

\* p has n pieces that cover t: none is empty, the first begins where t does,
\* each begins after the one before, the last ends where t does.
Covers(p, n, t) ==
  /\ Array(p, n)
  /\ \A i \in 1 .. n : p[i] \in Tasks
  /\ p[1].first = t.first /\ p[n].last = t.last
  /\ \A i \in 1 .. n : i > 1 => p[i].first = p[i - 1].last + 1
  /\ \A i, j \in 1 .. n : i < j => p[i].last < p[j].first

\* The pieces of t have its stacks with one more entry.
NumberedPieces(p, n, t) ==
  \A i \in 1 .. n : /\ p[i].number = Append(t.number, i - 1)
                    /\ p[i].total = Append(t.total, n)

\* Into how many pieces splitLocal splits t.
PieceCount(t, count) == IF Length(t) < count THEN Length(t) ELSE count

LEMMA Quotient ==
  ASSUME NEW v \in Nat, NEW n \in Nat, n >= 1, v >= n
  PROVE  v \div n \in Nat /\ v \div n >= 1 /\ n * (v \div n) <= v
OBVIOUS

LEMMA Multiples ==
  ASSUME NEW i \in Nat, NEW j \in Nat, NEW s \in Nat, i <= j
  PROVE  i * s \in Nat /\ i * s <= j * s
OBVIOUS

LEMMA Predecessor ==
  ASSUME NEW i \in Nat \ {0}, NEW s \in Nat
  PROVE  i * s = (i - 1) * s + s
OBVIOUS

LEMMA SplitLocalCovers ==
  ASSUME NEW t \in Tasks, NEW count \in Nat \ {0}
  PROVE  /\ PieceCount(t, count) \in Nat \ {0}
         /\ Covers(SplitLocal(t, count), PieceCount(t, count), t)
         /\ \A i \in 1 .. PieceCount(t, count) :
              /\ SplitLocal(t, count)[i].number = t.number
              /\ SplitLocal(t, count)[i].total = t.total
<1> DEFINE v == Length(t)  n == PieceCount(t, count)  step == v \div n
           p == SplitLocal(t, count)
           lo(i) == t.first + (i - 1) * step
           hi(i) == IF i = n THEN t.last ELSE t.first + i * step - 1
<1>1. v \in Nat \ {0} /\ t.first \in Int /\ t.last \in Int /\ v = t.last - t.first + 1
  BY DEF Tasks, Length
<1>2. n \in Nat \ {0} /\ n <= v
  BY <1>1 DEF PieceCount
<1>3. p = [i \in 1 .. n |-> [t EXCEPT !.first = lo(i), !.last = hi(i)]]
  BY Zenon DEF SplitLocal, PieceCount, Length
<1> HIDE DEF p, n, v
<1>4. step \in Nat /\ step >= 1 /\ n * step <= v
  <2>1. v \in Nat /\ n \in Nat /\ n >= 1 /\ v >= n
    BY <1>1, <1>2
  <2> QED
    BY <2>1, Quotient, Zenon
<1> HIDE DEF step
<1>5. ASSUME NEW i \in 1 .. n
      PROVE  /\ lo(i) \in Int /\ hi(i) \in Int /\ lo(i) <= hi(i)
             /\ (i - 1) * step \in Int /\ i * step = (i - 1) * step + step
             /\ i * step <= n * step
             /\ hi(i) <= t.last /\ t.first + i * step - 1 <= hi(i)
  <2>1. (i - 1) * step \in Int /\ i * step \in Int /\ n * step \in Int
    BY <1>2, <1>4
  <2>2. i * step = (i - 1) * step + step
    BY <1>4, Predecessor
  <2>3. i * step <= n * step
    BY <1>2, <1>4, Multiples
  <2> DEFINE x == (i - 1) * step  y == i * step  z == n * step
  <2>4. x \in Int /\ y \in Int /\ z \in Int /\ y = x + step /\ y <= z /\ z <= v
    BY <1>4, <2>1, <2>2, <2>3
  <2>5. lo(i) = t.first + x /\ hi(i) = IF i = n THEN t.last ELSE t.first + y - 1
    OBVIOUS
  <2>6. i = n => y = z
    OBVIOUS
  <2> HIDE DEF x, y, z, lo, hi
  <2>7. /\ lo(i) \in Int /\ hi(i) \in Int /\ lo(i) <= hi(i)
        /\ hi(i) <= t.last /\ t.first + y - 1 <= hi(i)
    BY <1>1, <1>4, <2>4, <2>5, <2>6
  <2> QED
    BY <2>1, <2>2, <2>3, <2>7 DEF y
<1>6. ASSUME NEW i \in 1 .. n
      PROVE  /\ p[i] \in Tasks /\ p[i].first = lo(i) /\ p[i].last = hi(i)
             /\ p[i].number = t.number /\ p[i].total = t.total
  <2>1. lo(i) \in Int /\ hi(i) \in Int /\ lo(i) <= hi(i)
    BY <1>5
  <2>2. p[i] = [t EXCEPT !.first = lo(i), !.last = hi(i)]
    BY <1>3, Zenon
  <2> HIDE DEF lo, hi
  <2> QED
    BY <2>1, <2>2 DEF Tasks
<1>7. p[1].first = t.first /\ p[n].last = t.last
  <2>1. 1 \in 1 .. n /\ n \in 1 .. n /\ lo(1) = t.first /\ hi(n) = t.last
    BY <1>1, <1>2, <1>4
  <2> QED
    BY <1>6, <2>1
<1>8. ASSUME NEW i \in 1 .. n, i > 1 PROVE p[i].first = p[i - 1].last + 1
  <2>1. i - 1 \in 1 .. n /\ i - 1 # n
    BY <1>2, <1>8
  <2>2. (i - 1) * step \in Int
    BY <1>5
  <2>3. hi(i - 1) = t.first + (i - 1) * step - 1
    BY <2>1
  <2>4. lo(i) = hi(i - 1) + 1
    BY <1>1, <2>2, <2>3
  <2> QED
    BY <1>6, <2>1, <2>4
<1>9. ASSUME NEW i \in 1 .. n, NEW j \in 1 .. n, i < j
      PROVE  p[i].last < p[j].first
  <2>1. i # n /\ i <= j - 1 /\ j - 1 \in Nat /\ i \in Nat
    BY <1>2, <1>9
  <2>2. i * step \in Int /\ i * step <= (j - 1) * step
    BY <1>4, <2>1, Multiples
  <2>3. (j - 1) * step \in Int
    BY <1>5
  <2>4. hi(i) = t.first + i * step - 1 /\ lo(j) = t.first + (j - 1) * step
    BY <2>1
  <2> DEFINE x == (j - 1) * step  y == i * step
  <2>5. hi(i) = t.first + y - 1 /\ lo(j) = t.first + x /\ x \in Int /\ y \in Int /\ y <= x
    BY <2>2, <2>3, <2>4
  <2> HIDE DEF x, y, lo, hi
  <2>6. hi(i) < lo(j)
    BY <1>1, <2>5
  <2> QED
    BY <1>6, <2>6
<1>10. Array(p, n)
  BY <1>3 DEF Array
<1>11. Covers(p, n, t)
  BY <1>6, <1>7, <1>8, <1>9, <1>10 DEF Covers
<1> QED
  BY <1>2, <1>6, <1>11 DEF p, n

\* Task::split: the pieces cover the task and are numbered in order, and each
\* knows how many they are.
THEOREM SplitCovers ==
  ASSUME NEW t \in Tasks, NEW count \in Nat \ {0}
  PROVE  /\ PieceCount(t, count) \in Nat \ {0}
         /\ Covers(Split(t, count), PieceCount(t, count), t)
         /\ NumberedPieces(Split(t, count), PieceCount(t, count), t)
<1> DEFINE p == SplitLocal(t, count)  q == Split(t, count)  n == PieceCount(t, count)
<1>1. /\ n \in Nat \ {0} /\ Covers(p, n, t)
      /\ \A i \in 1 .. n : p[i].number = t.number /\ p[i].total = t.total
  BY SplitLocalCovers
<1>2. DOMAIN p = 1 .. n /\ Len(p) = n
  BY <1>1 DEF Covers, Array
<1>3. q = [i \in 1 .. n |-> [p[i] EXCEPT !.number = Append(t.number, i - 1),
                                         !.total  = Append(t.total, n)]]
  BY <1>2, Zenon DEF Split
<1>4. t.number \in Seq(Nat) /\ t.total \in Seq(Nat)
  BY DEF Tasks
<1> HIDE DEF p, q, n
<1>5. ASSUME NEW i \in 1 .. n
      PROVE  /\ q[i] \in Tasks /\ q[i].first = p[i].first /\ q[i].last = p[i].last
             /\ q[i].number = Append(t.number, i - 1) /\ q[i].total = Append(t.total, n)
  <2>1. p[i] \in Tasks
    BY <1>1 DEF Covers
  <2>2. i - 1 \in Nat /\ n \in Nat
    BY <1>1
  <2>3. Append(t.number, i - 1) \in Seq(Nat) /\ Append(t.total, n) \in Seq(Nat)
    BY <1>4, <2>2
  <2>4. q[i] = [p[i] EXCEPT !.number = Append(t.number, i - 1), !.total = Append(t.total, n)]
    BY <1>3, Zenon
  <2> DEFINE a == Append(t.number, i - 1)  b == Append(t.total, n)
  <2> HIDE DEF a, b
  <2>5. q[i] = [p[i] EXCEPT !.number = a, !.total = b] /\ a \in Seq(Nat) /\ b \in Seq(Nat)
    BY <2>3, <2>4 DEF a, b
  <2>6. /\ q[i] \in Tasks /\ q[i].first = p[i].first /\ q[i].last = p[i].last
        /\ q[i].number = a /\ q[i].total = b
    BY <2>1, <2>5 DEF Tasks
  <2> QED
    BY <2>6 DEF a, b
<1>6. 1 \in 1 .. n /\ n \in 1 .. n /\ \A i \in 1 .. n : i > 1 => i - 1 \in 1 .. n
  BY <1>1
<1>7. Array(q, n)
  BY <1>3 DEF Array
<1>8. Covers(q, n, t)
  BY <1>1, <1>5, <1>6, <1>7 DEF Covers
<1>9. NumberedPieces(q, n, t)
  BY <1>5 DEF NumberedPieces
<1> QED
  BY <1>1, <1>8, <1>9 DEF q, n

-----------------------------------------------------------------------------
(* Merging. *)

\* The values a task covers.
Val(t) == Values(t.first, t.last)

LEMMA RunFields ==
  ASSUME NEW t
  PROVE  Run(t).number = t.number /\ Run(t).total = t.total /\ Run(t).values = Val(t)
BY DEF Run, Val, Values

LEMMA LastFrontAppend ==
  ASSUME NEW s \in Seq(Nat), NEW e \in Nat
  PROVE  /\ Append(s, e) \in Seq(Nat) /\ Len(Append(s, e)) = Len(s) + 1
         /\ Last(Append(s, e)) = e /\ Front(Append(s, e)) = s
<1> DEFINE a == Append(s, e)
<1>1. /\ a \in Seq(Nat) /\ Len(a) = Len(s) + 1 /\ Len(s) \in Nat
      /\ \A i \in 1 .. Len(s) : a[i] = s[i]
      /\ a[Len(s) + 1] = e
  BY AppendProperties, LenProperties
<1> HIDE DEF a
<1>2. Last(a) = e
  BY <1>1 DEF Last
<1>3. /\ SubSeq(a, 1, Len(s)) \in Seq(Nat) /\ Len(SubSeq(a, 1, Len(s))) = Len(s)
      /\ \A i \in 1 .. Len(s) : SubSeq(a, 1, Len(s))[i] = a[i]
  BY <1>1
<1>4. SubSeq(a, 1, Len(s)) = s
  BY <1>1, <1>3, SeqEqual
<1>5. Front(a) = s
  BY <1>1, <1>4 DEF Front
<1> QED
  BY <1>1, <1>2, <1>5 DEF a

LEMMA SecondEntry ==
  ASSUME NEW s \in Seq(Nat), Len(s) = 1, NEW e \in Nat
  PROVE  Last(Append(s, e)) = e /\ Len(Append(s, e)) = 2
<1>1. Last(Append(s, e)) = e /\ Len(Append(s, e)) = Len(s) + 1
  BY LastFrontAppend
<1> QED
  BY <1>1

\* g is a permutation of 1 .. n.
Permutes(g, n) ==
  /\ g \in [1 .. n -> 1 .. n]
  /\ \A i, j \in 1 .. n : g[i] = g[j] => i = j

LEMMA PermutesOnto ==
  ASSUME NEW n \in Nat, NEW g, Permutes(g, n)
  PROVE  \A k \in 1 .. n : \E i \in 1 .. n : g[i] = k
<1> DEFINE D == 1 .. n
<1>1. IsFiniteSet(D)
  BY FS_Interval
<1>2. g \in [D -> D] /\ \A a, b \in D : g[a] = g[b] => a = b
  BY DEF Permutes
<1> HIDE DEF D
<1>3. g \in Injection(D, D)
  BY <1>2 DEF Injection, IsInjective
<1>4. g \in Surjection(D, D)
  BY <1>1, <1>3, FS_Injection
<1>5. \A k \in D : \E i \in D : g[i] = k
  BY <1>4 DEF Surjection
<1> QED
  BY <1>5 DEF D

LEMMA PermutesBijection ==
  ASSUME NEW n \in Nat, NEW g
  PROVE  Permutes(g, n) <=> g \in Bijection(1 .. n, 1 .. n)
<1> DEFINE D == 1 .. n
<1>1. ASSUME Permutes(g, n) PROVE g \in Bijection(D, D)
  <2>1. \A k \in D : \E i \in D : g[i] = k
    BY <1>1, PermutesOnto, Zenon
  <2>2. g \in [D -> D] /\ \A a, b \in D : g[a] = g[b] => a = b
    BY <1>1 DEF Permutes
  <2> HIDE DEF D
  <2> QED
    BY <2>1, <2>2 DEF Bijection, Injection, IsInjective, Surjection
<1>2. ASSUME g \in Bijection(D, D) PROVE Permutes(g, n)
  <2> HIDE DEF D
  <2>1. g \in [D -> D] /\ \A a, b \in D : g[a] = g[b] => a = b
    BY <1>2 DEF Bijection, Injection, IsInjective
  <2> QED
    BY <2>1 DEF D, Permutes
<1> QED
  BY <1>1, <1>2

\* rs has at position i the result with the number g[i] - 1.
Numbered(rs, g, n) ==
  /\ Array(rs, n)
  /\ Permutes(g, n)
  /\ \A i \in 1 .. n : Last(rs[i].number) = g[i] - 1

\* q takes the results of rs in order of number.
TakesInOrder(q, rs, n) ==
  \A i, j \in 1 .. n : i < j => Last(rs[q[i]].number) <= Last(rs[q[j]].number)

\* There is such an order, the inverse of g,
LEMMA OrderExists ==
  ASSUME NEW n \in Nat, NEW rs, NEW g, Numbered(rs, g, n)
  PROVE  \E q : Permutes(q, n) /\ TakesInOrder(q, rs, n)
<1> DEFINE q == [k \in 1 .. n |-> CHOOSE i \in 1 .. n : g[i] = k]
<1>1. \A k \in 1 .. n : \E i \in 1 .. n : g[i] = k
  BY PermutesOnto DEF Numbered
<1>2. ASSUME NEW k \in 1 .. n PROVE q[k] \in 1 .. n /\ g[q[k]] = k
  <2>1. q[k] = CHOOSE i \in 1 .. n : g[i] = k
    OBVIOUS
  <2> HIDE DEF q
  <2> QED
    BY <1>1, <2>1, Zenon
<1>3. q \in [1 .. n -> 1 .. n]
  BY <1>2
<1> HIDE DEF q
<1>4. Permutes(q, n)
  <2>1. ASSUME NEW a \in 1 .. n, NEW b \in 1 .. n, q[a] = q[b] PROVE a = b
    BY <1>2, <2>1, Zenon
  <2> QED
    BY <1>3, <2>1 DEF Permutes
<1>5. TakesInOrder(q, rs, n)
  <2>1. ASSUME NEW i \in 1 .. n PROVE Last(rs[q[i]].number) = i - 1
    BY <1>2 DEF Numbered
  <2> QED
    BY <2>1 DEF TakesInOrder
<1> QED
  BY <1>4, <1>5

\* and it is the only one.
LEMMA OrderUnique ==
  ASSUME NEW n \in Nat, NEW rs, NEW g, Numbered(rs, g, n),
         NEW q, Permutes(q, n), TakesInOrder(q, rs, n)
  PROVE  \A i \in 1 .. n : q[i] \in 1 .. n /\ g[q[i]] = i
<1> DEFINE m == [i \in 1 .. n |-> g[q[i]] - 1]
<1>1. ASSUME NEW i \in 1 .. n
      PROVE  /\ q[i] \in 1 .. n /\ g[q[i]] \in 1 .. n
             /\ Last(rs[q[i]].number) = g[q[i]] - 1
  <2>1. q[i] \in 1 .. n
    BY DEF Permutes
  <2> QED
    BY <2>1 DEF Numbered, Permutes
<1>2. \A i \in 1 .. n : m[i] = g[q[i]] - 1 /\ g[q[i]] - 1 \in 0 .. n - 1
  BY <1>1
<1>3. m \in [1 .. n -> 0 .. n - 1]
  BY <1>2
<1> HIDE DEF m
<1>4. ASSUME NEW i \in 1 .. n, NEW j \in 1 .. n, i < j PROVE m[i] < m[j]
  <2>1. g[q[i]] - 1 <= g[q[j]] - 1
    BY <1>1, <1>4 DEF TakesInOrder
  <2>2. i # j
    BY <1>4
  <2>3. q[i] # q[j]
    BY <2>2 DEF Permutes
  <2>4. g[q[i]] # g[q[j]]
    BY <1>1, <2>3 DEF Numbered, Permutes
  <2>5. g[q[i]] \in Int /\ g[q[j]] \in Int
    BY <1>1
  <2>6. m[i] = g[q[i]] - 1 /\ m[j] = g[q[j]] - 1
    BY <1>2
  <2> QED
    BY <2>1, <2>4, <2>5, <2>6
<1>5. \A i \in 1 .. n : m[i] = i - 1
  BY <1>3, <1>4, Ascending
<1>6. ASSUME NEW i \in 1 .. n PROVE q[i] \in 1 .. n /\ g[q[i]] = i
  <2>1. m[i] = g[q[i]] - 1 /\ g[q[i]] \in Int /\ q[i] \in 1 .. n /\ m[i] = i - 1
    BY <1>1, <1>2, <1>5
  <2> QED
    BY <2>1
<1> QED
  BY <1>6

LEMMA InOrderInverts ==
  ASSUME NEW n \in Nat, NEW rs, NEW g, Numbered(rs, g, n)
  PROVE  \A i \in 1 .. n : InOrder(rs)[i] \in 1 .. n /\ g[InOrder(rs)[i]] = i
<1>1. DOMAIN rs = 1 .. n
  BY DEF Numbered, Array
<1> DEFINE q == InOrder(rs)
<1>2. q = CHOOSE p \in Bijection(1 .. n, 1 .. n) : TakesInOrder(p, rs, n)
  BY <1>1, Zenon DEF InOrder, TakesInOrder
<1> HIDE DEF q
<1>3. \E p \in Bijection(1 .. n, 1 .. n) : TakesInOrder(p, rs, n)
  BY OrderExists, PermutesBijection
<1>4. q \in Bijection(1 .. n, 1 .. n) /\ TakesInOrder(q, rs, n)
  BY <1>2, <1>3, Zenon
<1>5. Permutes(q, n)
  BY <1>4, PermutesBijection, Zenon
<1>6. \A i \in 1 .. n : q[i] \in 1 .. n /\ g[q[i]] = i
  BY <1>4, <1>5, OrderUnique
<1> QED
  BY <1>6 DEF q

\* rs has the results of the pieces p, in the order g.
ResultsOf(rs, p, g, n) ==
  /\ Array(rs, n)
  /\ Permutes(g, n)
  /\ \A i \in 1 .. n : rs[i] = Run(p[g[i]])

LEMMA MergeCovers ==
  ASSUME NEW t \in Tasks, NEW n \in Nat \ {0}, NEW p, NEW rs, NEW g,
         Covers(p, n, t), NumberedPieces(p, n, t), ResultsOf(rs, p, g, n)
  PROVE  Merge(rs) = Run(t)
<1>1. t.number \in Seq(Nat) /\ t.total \in Seq(Nat)
  BY DEF Tasks
<1>2. ASSUME NEW i \in 1 .. n
      PROVE  /\ g[i] \in 1 .. n
             /\ Last(rs[i].number) = g[i] - 1
             /\ rs[i].values = Val(p[g[i]])
             /\ Front(rs[i].number) = t.number /\ Front(rs[i].total) = t.total
  <2>1. g[i] \in 1 .. n /\ rs[i] = Run(p[g[i]])
    BY DEF ResultsOf, Permutes
  <2>2. /\ rs[i].number = p[g[i]].number /\ rs[i].total = p[g[i]].total
        /\ rs[i].values = Val(p[g[i]])
    BY <2>1, RunFields
  <2>3. g[i] - 1 \in Nat
    BY <2>1
  <2>4. /\ Last(Append(t.number, g[i] - 1)) = g[i] - 1
        /\ Front(Append(t.number, g[i] - 1)) = t.number
    BY <1>1, <2>3, LastFrontAppend
  <2>5. Front(Append(t.total, n)) = t.total
    BY <1>1, LastFrontAppend
  <2> QED
    BY <2>1, <2>2, <2>4, <2>5 DEF NumberedPieces
<1> DEFINE q == InOrder(rs)
<1>3. \A i \in 1 .. n : q[i] \in 1 .. n /\ g[q[i]] = i
  <2>1. Numbered(rs, g, n)
    BY <1>2 DEF Numbered, ResultsOf
  <2> QED
    BY <2>1, InOrderInverts
<1> HIDE DEF q
<1> DEFINE lo == [i \in 1 .. n |-> p[i].first]  hi == [i \in 1 .. n |-> p[i].last]
           vs == [i \in 1 .. n |-> rs[q[i]].values]
<1>4. \A i \in 1 .. n : lo[i] = p[i].first /\ hi[i] = p[i].last /\ vs[i] = rs[q[i]].values
  OBVIOUS
<1>5. Array(vs, n)
  BY DEF Array
<1> HIDE DEF lo, hi, vs
<1>6. ASSUME NEW i \in 1 .. n
      PROVE  /\ lo[i] \in Int /\ hi[i] \in Int /\ lo[i] <= hi[i]
             /\ vs[i] = Values(lo[i], hi[i])
  <2>1. p[i] \in Tasks
    BY DEF Covers
  <2>2. p[i].first \in Int /\ p[i].last \in Int /\ p[i].first <= p[i].last
    BY <2>1 DEF Tasks
  <2>3. q[i] \in 1 .. n /\ g[q[i]] = i
    BY <1>3
  <2>4. rs[q[i]].values = Val(p[g[q[i]]])
    BY <1>2, <2>3
  <2>5. lo[i] = p[i].first /\ hi[i] = p[i].last /\ vs[i] = rs[q[i]].values
    BY <1>4
  <2> QED
    BY <2>2, <2>3, <2>4, <2>5 DEF Val
<1>7. ASSUME NEW i \in 1 .. n, i > 1 PROVE lo[i] = hi[i - 1] + 1
  <2>1. i - 1 \in 1 .. n
    BY <1>7
  <2>2. p[i].first = p[i - 1].last + 1
    BY <1>7 DEF Covers
  <2> QED
    BY <1>4, <2>1, <2>2
<1>8. 1 \in 1 .. n /\ n \in 1 .. n
  OBVIOUS
<1>9. lo[1] = t.first /\ hi[n] = t.last
  BY <1>4, <1>8 DEF Covers
<1>10. FlattenSeq([i \in DOMAIN rs |-> rs[InOrder(rs)[i]].values]) = FlattenSeq(vs)
  <2>1. DOMAIN rs = 1 .. n
    BY DEF ResultsOf, Array
  <2> QED
    BY <2>1, Zenon DEF q, vs
<1>11. FlattenSeq(vs) = Val(t)
  <2>1. Successive(vs, lo, hi, n)
    BY <1>5, <1>6, <1>7 DEF Successive
  <2>2. FlattenSeq(vs) = Values(lo[1], hi[n])
    BY <2>1, FlattenValues
  <2> QED
    BY <1>9, <2>2 DEF Val
<1>12. Merge(rs) = [number |-> t.number, total |-> t.total, values |-> Val(t)]
  BY <1>2, <1>8, <1>10, <1>11, Zenon DEF Merge
<1> QED
  BY <1>12, Zenon DEF Run, Val, Values

\* Result::merge: the results of all pieces of a split, in any order, merge into
\* the result of the task run in one piece.
THEOREM MergeRight ==
  ASSUME NEW t \in Tasks, NEW count \in Nat \ {0}, NEW rs, NEW g,
         ResultsOf(rs, Split(t, count), g, PieceCount(t, count))
  PROVE  Merge(rs) = Run(t)
BY SplitCovers, MergeCovers, Zenon

-----------------------------------------------------------------------------
(* What a node makes of a part. *)

Computed == [number : Seq(Nat), total : Seq(Nat), values : Seq(Int)]

\* r was computed from t: it is what running t in one piece yields, or a node
\* had one value for several threads and left another total on the stack.
Of(r, t) ==
  r \in Computed /\ r.values = Val(t) /\ (r = Run(t) \/ Last(r.total) = 1)

LEMMA RunOf ==
  ASSUME NEW t \in Tasks
  PROVE  Run(t) \in Computed /\ Of(Run(t), t)
<1>1. Val(t) \in Seq(Int)
  BY ValuesSeq DEF Tasks, Val
<1>2. Run(t) = [number |-> t.number, total |-> t.total, values |-> Val(t)]
  BY Zenon DEF Run, Val, Values
<1>3. t.number \in Seq(Nat) /\ t.total \in Seq(Nat)
  BY DEF Tasks
<1>4. Run(t) \in Computed
  BY <1>1, <1>2, <1>3 DEF Computed
<1> QED
  BY <1>4, RunFields DEF Of

\* Client::processTaskThread: a node that can split its part computes what it would in one piece; one that
\* cannot still computes the values of its part.
THEOREM NodeResultRight ==
  ASSUME NEW t \in Tasks, NEW k \in Nat \ {0}
  PROVE  /\ Of(NodeResult(t, k), t)
         /\ k = 1 \/ Length(t) > 1 => NodeResult(t, k) = Run(t)
<1> DEFINE pieces == IF k > 1 THEN Split(t, k) ELSE <<t>>
           rs == [i \in DOMAIN pieces |-> Run(pieces[i])]
<1>1. NodeResult(t, k) = IF Len(rs) > 1 THEN Merge(rs) ELSE rs[1]
  BY Zenon DEF NodeResult
<1>2. CASE k = 1
  <2>1. pieces = <<t>> /\ DOMAIN <<t>> = 1 .. 1
    BY <1>2
  <2>2. rs = [i \in 1 .. 1 |-> Run(<<t>>[i])]
    BY <2>1, Zenon
  <2>3. Len(rs) = 1 /\ rs[1] = Run(t)
    BY <2>2
  <2> HIDE DEF rs
  <2>4. NodeResult(t, k) = Run(t)
    BY <1>1, <2>3
  <2> QED
    BY <2>4, RunOf
<1>3. CASE k > 1
  <2> DEFINE n == PieceCount(t, k)  p == Split(t, k)
  <2>1. n \in Nat \ {0} /\ Covers(p, n, t) /\ NumberedPieces(p, n, t)
    BY SplitCovers
  <2>2. pieces = p /\ DOMAIN p = 1 .. n
    BY <1>3, <2>1 DEF Covers, Array
  <2>3. rs = [i \in 1 .. n |-> Run(p[i])]
    BY <2>2, Zenon
  <2>4. n > 1 <=> Length(t) > 1
    <3>1. Length(t) \in Int /\ k \in Int
      BY DEF Length, Tasks
    <3> QED
      BY <1>3, <3>1 DEF PieceCount
  <2> HIDE DEF rs, n, p
  <2>5. Len(rs) = n /\ rs[1] = Run(p[1])
    BY <2>1, <2>3
  <2>6. CASE n > 1
    <3> DEFINE g == [i \in 1 .. n |-> i]
    <3>1. Permutes(g, n) /\ \A i \in 1 .. n : g[i] = i
      BY DEF Permutes
    <3> HIDE DEF g
    <3>2. ResultsOf(rs, p, g, n)
      BY <2>1, <2>3, <3>1 DEF ResultsOf, Array
    <3>3. Merge(rs) = Run(t)
      BY <3>2, MergeRight DEF n, p
    <3>4. NodeResult(t, k) = Run(t)
      BY <1>1, <2>5, <2>6, <3>3
    <3> QED
      BY <3>4, RunOf
  <2>7. CASE n = 1
    <3>1. NodeResult(t, k) = Run(p[1])
      BY <1>1, <2>5, <2>7
    <3>2. p[1] \in Tasks /\ p[1].first = t.first /\ p[1].last = t.last
      BY <2>1, <2>7 DEF Covers
    <3>3. Run(p[1]) \in Computed /\ Run(p[1]).values = Val(t)
      BY <3>2, RunOf, RunFields DEF Val
    <3>4. p[1].total = Append(t.total, 1) /\ t.total \in Seq(Nat)
      BY <2>1, <2>7 DEF NumberedPieces, Tasks
    <3>5. Last(Run(p[1]).total) = 1
      <4>1. Last(Append(t.total, 1)) = 1
        BY <3>4, LastFrontAppend
      <4> QED
        BY <3>4, <4>1, RunFields
    <3>6. Of(NodeResult(t, k), t)
      BY <3>1, <3>3, <3>5 DEF Of
    <3> QED
      BY <1>3, <2>4, <2>7, <3>6
  <2> QED
    BY <2>1, <2>6, <2>7
<1> QED
  BY <1>2, <1>3

-----------------------------------------------------------------------------
(* The parts of the task. *)

SetupOK ==
  /\ task \in Tasks /\ task.number = <<0>> /\ task.total = <<1>>
  /\ setup \in [clients : Nat \ {0}, threads : Nat \ {0}]

\* The parts in order, and how many they are.
Parts == IF setup.clients > 1 THEN Split(task, setup.clients) ELSE <<task>>
Count == IF setup.clients > 1 THEN PieceCount(task, setup.clients) ELSE 1

LEMMA PartsCover ==
  ASSUME SetupOK
  PROVE  Count \in Nat \ {0} /\ Covers(Parts, Count, task)
<1>1. CASE setup.clients > 1
  BY <1>1, SplitCovers DEF SetupOK, Parts, Count
<1>2. CASE ~(setup.clients > 1)
  <2>1. Parts = <<task>> /\ Count = 1
    BY <1>2 DEF Parts, Count
  <2>2. Array(<<task>>, 1)
    BY DEF Array
  <2>3. Covers(<<task>>, 1, task)
    BY <2>2 DEF Covers, SetupOK, Tasks
  <2> QED
    BY <2>1, <2>3
<1> QED
  BY <1>1, <1>2

LEMMA PartStacks ==
  ASSUME SetupOK, NEW i \in 1 .. Count
  PROVE  /\ Last(Parts[i].number) = i - 1 /\ Last(Parts[i].total) = Count
         /\ Count > 1 => Len(Parts[i].number) = 2 /\ Len(Parts[i].total) = 2
<1>1. CASE setup.clients > 1
  <2>1. Parts = Split(task, setup.clients) /\ Count = PieceCount(task, setup.clients)
    BY <1>1 DEF Parts, Count
  <2>2. NumberedPieces(Parts, Count, task)
    BY <2>1, SplitCovers DEF SetupOK
  <2>3. /\ Parts[i].number = Append(task.number, i - 1)
        /\ Parts[i].total = Append(task.total, Count)
    BY <2>2 DEF NumberedPieces
  <2>4. i - 1 \in Nat /\ Count \in Nat
    BY PartsCover
  <2>5. /\ task.number \in Seq(Nat) /\ task.total \in Seq(Nat)
        /\ Len(task.number) = 1 /\ Len(task.total) = 1
    BY DEF SetupOK, Tasks
  <2>6. Last(Append(task.number, i - 1)) = i - 1 /\ Len(Append(task.number, i - 1)) = 2
    BY <2>4, <2>5, SecondEntry, Zenon
  <2>7. Last(Append(task.total, Count)) = Count /\ Len(Append(task.total, Count)) = 2
    BY <2>4, <2>5, SecondEntry, Zenon
  <2> QED
    BY <2>3, <2>6, <2>7
<1>2. CASE ~(setup.clients > 1)
  <2>1. Parts = <<task>> /\ Count = 1 /\ i = 1
    BY <1>2 DEF Parts, Count
  <2>2. Last(<<0>>) = 0 /\ Last(<<1>>) = 1
    BY DEF Last
  <2> QED
    BY <2>1, <2>2 DEF SetupOK
<1> QED
  BY <1>1, <1>2

LEMMA PartIndex ==
  ASSUME SetupOK
  PROVE  /\ Division(task, setup.clients) = ToSet(Parts)
         /\ \A t : t \in ToSet(Parts) <=> \E i \in 1 .. Count : t = Parts[i]
         /\ ToSet(Parts) \subseteq Tasks
<1>1. DOMAIN Parts = 1 .. Count /\ \A i \in 1 .. Count : Parts[i] \in Tasks
  BY PartsCover DEF Covers, Array
<1>2. \A t : t \in ToSet(Parts) <=> \E i \in 1 .. Count : t = Parts[i]
  BY <1>1 DEF ToSet
<1>3. Division(task, setup.clients) = ToSet(Parts)
  <2>1. CASE setup.clients > 1
    BY <2>1 DEF Division, Parts
  <2>2. CASE ~(setup.clients > 1)
    BY <2>2 DEF Division, Parts, ToSet
  <2> QED
    BY <2>1, <2>2
<1> QED
  BY <1>1, <1>2, <1>3

\* Parts differ in their numbers, and no value is in two of them.
LEMMA PartsDiffer ==
  ASSUME SetupOK, NEW t \in ToSet(Parts), NEW u \in ToSet(Parts), t # u
  PROVE  /\ Last(t.number) # Last(u.number)
         /\ ToSet(Val(t)) \cap ToSet(Val(u)) = {}
         /\ Val(t) # Val(u)
<1>1. PICK i \in 1 .. Count : t = Parts[i]
  BY PartIndex
<1>2. PICK j \in 1 .. Count : u = Parts[j]
  BY PartIndex
<1>3. i # j
  BY <1>1, <1>2
<1>4. Last(t.number) = i - 1 /\ Last(u.number) = j - 1
  BY <1>1, <1>2, PartStacks
<1>5. \A x \in ToSet(Parts) :
        x.first \in Int /\ x.last \in Int /\ x.first <= x.last /\ x.first <= x.last + 1
  BY PartIndex DEF Tasks
<1>6. t.last < u.first \/ u.last < t.first
  BY <1>1, <1>2, <1>3, PartsCover DEF Covers
<1>7. ASSUME NEW x \in ToSet(Parts), NEW v \in ToSet(Val(x))
      PROVE  v \in x.first .. x.last
  <2>1. x.first \in Int /\ x.last \in Int /\ x.first <= x.last + 1
    BY <1>5
  <2>2. /\ Val(x) \in Seq(Int) /\ Len(Val(x)) = x.last - x.first + 1
        /\ \A k \in 1 .. x.last - x.first + 1 : Val(x)[k] = x.first + k - 1
    BY <2>1, ValuesSeq DEF Val
  <2>3. DOMAIN Val(x) = 1 .. x.last - x.first + 1
    BY <2>2
  <2>4. PICK k \in 1 .. x.last - x.first + 1 : v = Val(x)[k]
    BY <1>7, <2>3 DEF ToSet
  <2> QED
    BY <2>1, <2>2, <2>4
<1>8. ToSet(Val(t)) \cap ToSet(Val(u)) = {}
  BY <1>5, <1>6, <1>7
<1>9. ToSet(Val(t)) # {}
  <2>1. t.first \in Int /\ t.last \in Int /\ t.first <= t.last + 1 /\ t.first <= t.last
    BY <1>5
  <2>2. Val(t) \in Seq(Int) /\ Len(Val(t)) = t.last - t.first + 1
    BY <2>1, ValuesSeq DEF Val
  <2>3. 1 \in DOMAIN Val(t)
    BY <2>1, <2>2
  <2> QED
    BY <2>3 DEF ToSet
<1> QED
  BY <1>3, <1>4, <1>8, <1>9

\* rs has the results of n different parts.
PartResults(rs, n) ==
  /\ Array(rs, n)
  /\ \A i \in 1 .. n : \E t \in ToSet(Parts) : rs[i] = Run(t)
  /\ \A i, j \in 1 .. n : i # j => rs[i].values # rs[j].values

\* Of which part the result at a position is.
PartAt(rs, n) == [i \in 1 .. n |-> Last(rs[i].number) + 1]

LEMMA PartAtRight ==
  ASSUME SetupOK, NEW n \in Nat, NEW rs, PartResults(rs, n)
  PROVE  /\ PartAt(rs, n) \in [1 .. n -> 1 .. Count]
         /\ \A i, j \in 1 .. n : PartAt(rs, n)[i] = PartAt(rs, n)[j] => i = j
         /\ \A i \in 1 .. n : rs[i] = Run(Parts[PartAt(rs, n)[i]])
<1> DEFINE g == PartAt(rs, n)
<1>1. ASSUME NEW i \in 1 .. n PROVE g[i] \in 1 .. Count /\ rs[i] = Run(Parts[g[i]])
  <2>1. PICK t \in ToSet(Parts) : rs[i] = Run(t)
    BY DEF PartResults
  <2>2. PICK k \in 1 .. Count : t = Parts[k]
    BY PartIndex
  <2>3. Last(rs[i].number) = k - 1
    BY <2>1, <2>2, RunFields, PartStacks
  <2>4. g[i] = Last(rs[i].number) + 1
    BY DEF PartAt
  <2>5. g[i] = k
    BY <2>3, <2>4
  <2> QED
    BY <2>1, <2>2, <2>5
<1>2. g \in [1 .. n -> 1 .. Count]
  BY <1>1 DEF PartAt
<1> HIDE DEF g
<1>3. \A i, j \in 1 .. n : g[i] = g[j] => i = j
  BY <1>1 DEF PartResults
<1> QED
  BY <1>1, <1>2, <1>3 DEF g

\* There are at most as many as parts, and as many only if none is missing.
LEMMA PartsCounted ==
  ASSUME SetupOK, NEW n \in Nat, NEW rs, PartResults(rs, n)
  PROVE  /\ n <= Count
         /\ n = Count <=> \A t \in ToSet(Parts) : \E i \in 1 .. n : rs[i] = Run(t)
<1> DEFINE g == PartAt(rs, n)  D == 1 .. n  C == 1 .. Count
<1>1. /\ g \in [D -> C]
      /\ \A i, j \in D : g[i] = g[j] => i = j
      /\ \A i \in D : rs[i] = Run(Parts[g[i]])
  BY PartAtRight, Zenon
<1>2. Count \in Nat \ {0}
  BY PartsCover
<1>3. IsFiniteSet(D) /\ Cardinality(D) = n
  BY FS_Interval
<1>4. IsFiniteSet(C) /\ Cardinality(C) = Count
  BY <1>2, FS_Interval
<1> HIDE DEF g, D, C
<1>5. g \in Injection(D, C)
  BY <1>1 DEF Injection, IsInjective
<1>6. n <= Count /\ (n = Count <=> g \in Surjection(D, C))
  BY <1>3, <1>4, <1>5, FS_Injection
<1>7. g \in Surjection(D, C) <=> \A k \in C : \E i \in D : g[i] = k
  BY <1>1 DEF Surjection
<1>8. \A t : t \in ToSet(Parts) <=> \E i \in C : t = Parts[i]
  BY PartIndex DEF C
<1>9. ASSUME NEW k \in C, NEW i \in D, rs[i] = Run(Parts[k]) PROVE g[i] = k
  <2>1. g[i] \in 1 .. Count /\ k \in 1 .. Count
    BY <1>1 DEF C
  <2>2. Run(Parts[g[i]]).number = Run(Parts[k]).number
    BY <1>1, <1>9
  <2>3. Parts[g[i]].number = Parts[k].number
    BY <2>2, RunFields
  <2>4. Last(Parts[g[i]].number) = g[i] - 1 /\ Last(Parts[k].number) = k - 1
    BY <2>1, PartStacks
  <2> QED
    BY <2>1, <2>3, <2>4
<1>10. ASSUME \A k \in C : \E i \in D : g[i] = k
       PROVE  \A t \in ToSet(Parts) : \E i \in D : rs[i] = Run(t)
  BY <1>1, <1>8, <1>10
<1>11. ASSUME \A t \in ToSet(Parts) : \E i \in D : rs[i] = Run(t)
       PROVE  \A k \in C : \E i \in D : g[i] = k
  BY <1>8, <1>9, <1>11
<1> QED
  BY <1>6, <1>7, <1>10, <1>11 DEF D

\* The results of all parts, in any order, merge into the result of the task.
LEMMA WholeMerges ==
  ASSUME SetupOK, Count > 1, NEW rs, PartResults(rs, Count)
  PROVE  Merge(rs) = Run(task)
<1>1. Count \in Nat \ {0}
  BY PartsCover
<1>2. setup.clients > 1
  BY DEF Count
<1>3. Parts = Split(task, setup.clients) /\ Count = PieceCount(task, setup.clients)
  BY <1>2 DEF Parts, Count
<1>4. /\ PartAt(rs, Count) \in [1 .. Count -> 1 .. Count]
      /\ \A i, j \in 1 .. Count : PartAt(rs, Count)[i] = PartAt(rs, Count)[j] => i = j
      /\ \A i \in 1 .. Count : rs[i] = Run(Parts[PartAt(rs, Count)[i]])
  BY <1>1, PartAtRight
<1>5. Permutes(PartAt(rs, Count), Count)
  BY <1>4 DEF Permutes
<1>6. ResultsOf(rs, Parts, PartAt(rs, Count), Count)
  BY <1>4, <1>5 DEF ResultsOf, PartResults
<1>7. task \in Tasks /\ setup.clients \in Nat \ {0}
  BY DEF SetupOK
<1> QED
  BY <1>3, <1>6, <1>7, MergeRight, Zenon

-----------------------------------------------------------------------------
(* Collecting. *)

\* The queue with the result at i in front.
Fronted(q, i) == <<q[i]>> \o RemoveAt(q, i)

\* The position in q of what is at position k then.
Before(i, k) == IF k = 1 THEN i ELSE IF k <= i THEN k - 1 ELSE k

LEMMA FrontedAt ==
  ASSUME NEW S, NEW q \in Seq(S), NEW i \in 1 .. Len(q)
  PROVE  /\ Array(Fronted(q, i), Len(q))
         /\ \A k \in 1 .. Len(q) : Fronted(q, i)[k] = q[Before(i, k)]
<1> DEFINE n == Len(q)  a == SubSeq(q, 1, i - 1)  b == SubSeq(q, i + 1, n)
           c == a \o b  d == <<q[i]>>  e == d \o c
<1>1. n \in Nat /\ \A k \in 1 .. n : q[k] \in S
  BY LenProperties, ElementOfSeq
<1>2. i \in 1 .. n
  OBVIOUS
<1> HIDE DEF n
<1>3. /\ a \in Seq(S) /\ Len(a) = i - 1
      /\ \A k \in 1 .. i - 1 : a[k] = q[k]
  <2>1. \A k \in 1 .. i - 1 : q[k] \in S
    BY <1>1, <1>2
  <2>2. /\ a \in Seq(S) /\ Len(a) = IF 1 <= i - 1 THEN i - 1 - 1 + 1 ELSE 0
        /\ \A k \in 1 .. i - 1 - 1 + 1 : a[k] = q[1 + k - 1]
    BY <2>1, SubSeqProperties
  <2> QED
    BY <1>2, <2>2
<1>4. /\ b \in Seq(S) /\ Len(b) = n - i
      /\ \A k \in 1 .. n - i : b[k] = q[i + k]
  <2>1. \A k \in i + 1 .. n : q[k] \in S
    BY <1>1, <1>2
  <2>2. /\ b \in Seq(S) /\ Len(b) = IF i + 1 <= n THEN n - (i + 1) + 1 ELSE 0
        /\ \A k \in 1 .. n - (i + 1) + 1 : b[k] = q[i + 1 + k - 1]
    BY <1>1, <1>2, <2>1, SubSeqProperties
  <2> HIDE DEF b
  <2>3. \A k \in 1 .. n - i : k \in 1 .. n - (i + 1) + 1 /\ i + 1 + k - 1 = i + k
    BY <1>1, <1>2
  <2> QED
    BY <1>1, <1>2, <2>2, <2>3
<1> HIDE DEF a, b
<1>5. /\ c \in Seq(S) /\ Len(c) = n - 1
      /\ \A k \in 1 .. n - 1 : c[k] = IF k <= i - 1 THEN q[k] ELSE q[k + 1]
  <2>1. /\ c \in Seq(S) /\ Len(c) = Len(a) + Len(b)
        /\ \A k \in 1 .. Len(a) + Len(b) : c[k] = IF k <= Len(a) THEN a[k] ELSE b[k - Len(a)]
    BY <1>3, <1>4, ConcatProperties
  <2> HIDE DEF c
  <2>2. Len(a) + Len(b) = n - 1
    BY <1>1, <1>2, <1>3, <1>4
  <2>3. ASSUME NEW k \in 1 .. n - 1 PROVE c[k] = IF k <= i - 1 THEN q[k] ELSE q[k + 1]
    <3>1. CASE k <= i - 1
      <4>1. k \in 1 .. i - 1 /\ k \in 1 .. Len(a) + Len(b) /\ k <= Len(a)
        BY <1>2, <1>3, <2>2, <3>1
      <4>2. c[k] = a[k] /\ a[k] = q[k]
        BY <1>3, <2>1, <4>1
      <4> QED
        BY <3>1, <4>2
    <3>2. CASE ~(k <= i - 1)
      <4>1. k - (i - 1) \in 1 .. n - i /\ i + (k - (i - 1)) = k + 1
        BY <1>1, <1>2, <3>2
      <4>2. b[k - (i - 1)] = q[k + 1]
        BY <1>4, <4>1
      <4> QED
        BY <1>3, <2>1, <2>2, <3>2, <4>2
    <3> QED
      BY <3>1, <3>2
  <2> QED
    BY <2>1, <2>2, <2>3
<1> HIDE DEF c
<1>6. d \in Seq(S) /\ Len(d) = 1 /\ d[1] = q[i]
  BY <1>1, <1>2
<1> HIDE DEF d
<1>7. /\ e \in Seq(S) /\ Len(e) = Len(d) + Len(c)
      /\ \A k \in 1 .. Len(d) + Len(c) : e[k] = IF k <= Len(d) THEN d[k] ELSE c[k - Len(d)]
  BY <1>5, <1>6, ConcatProperties
<1>8. e = Fronted(q, i)
  BY Zenon DEF Fronted, RemoveAt, a, b, c, d, n
<1> HIDE DEF e
<1>9. Len(e) = n
  BY <1>1, <1>5, <1>6, <1>7
<1>10. ASSUME NEW k \in 1 .. n PROVE e[k] = q[Before(i, k)]
  <2>1. k \in 1 .. Len(d) + Len(c)
    BY <1>1, <1>5, <1>6
  <2>2. CASE k = 1
    BY <1>6, <1>7, <2>1, <2>2 DEF Before
  <2>3. CASE k # 1
    <3>1. k - 1 \in 1 .. n - 1 /\ ~(k <= 1)
      BY <1>1, <2>3
    <3>2. e[k] = c[k - 1]
      BY <1>6, <1>7, <2>1, <3>1
    <3>3. c[k - 1] = IF k - 1 <= i - 1 THEN q[k - 1] ELSE q[k - 1 + 1]
      BY <1>5, <3>1
    <3>4. k - 1 + 1 = k /\ (k - 1 <= i - 1 <=> k <= i)
      BY <1>1, <1>2
    <3> QED
      BY <2>3, <3>2, <3>3, <3>4 DEF Before
  <2> QED
    BY <2>2, <2>3
<1>11. Array(e, n)
  <2>1. e \in [1 .. n -> S]
    BY <1>7, <1>9, LenProperties
  <2> QED
    BY <2>1 DEF Array
<1> QED
  BY <1>8, <1>10, <1>11 DEF n

LEMMA BeforePermutes ==
  ASSUME NEW n \in Nat, NEW i \in 1 .. n
  PROVE  /\ \A k \in 1 .. n : Before(i, k) \in 1 .. n
         /\ \A k, l \in 1 .. n : Before(i, k) = Before(i, l) => k = l
         /\ \A l \in 1 .. n : \E k \in 1 .. n : Before(i, k) = l
<1>1. \A k \in 1 .. n : Before(i, k) \in 1 .. n
  BY DEF Before
<1>2. \A k, l \in 1 .. n : Before(i, k) = Before(i, l) => k = l
  BY DEF Before
<1>3. ASSUME NEW l \in 1 .. n PROVE \E k \in 1 .. n : Before(i, k) = l
  <2>1. CASE l = i
    <3>1. 1 \in 1 .. n /\ Before(i, 1) = l
      BY <2>1 DEF Before
    <3> QED
      BY <3>1
  <2>2. CASE l < i
    <3>1. l + 1 \in 1 .. n /\ Before(i, l + 1) = l
      BY <2>2 DEF Before
    <3> QED
      BY <3>1
  <2>3. CASE l > i
    <3>1. Before(i, l) = l
      BY <2>3 DEF Before
    <3> QED
      BY <3>1
  <2> QED
    BY <2>1, <2>2, <2>3
<1> QED
  BY <1>1, <1>2, <1>3

\* What checkForCompleteResults does with a queue.
Keeps(q) ==
  /\ \A i \in 1 .. Len(q) : Last(q[i].total) # Len(q)
  /\ incomplete' = q /\ UNCHANGED <<complete, thrown>>
Fails(q, i) ==
  /\ Len(q) > 1 /\ ~Mergeable(Fronted(q, i))
  /\ thrown' /\ UNCHANGED <<incomplete, complete>>
Finishes(q, r) ==
  complete' = Append(complete, r) /\ incomplete' = <<>> /\ UNCHANGED thrown
PassesOn(q, i) == Len(q) = 1 /\ Finishes(q, q[1])
Merges(q, i) ==
  Len(q) > 1 /\ Mergeable(Fronted(q, i)) /\ Finishes(q, Merge(Fronted(q, i)))

LEMMA CollectCases ==
  ASSUME NEW q \in Seq(Computed), Collect(q)
  PROVE  \/ Keeps(q)
         \/ \E i \in 1 .. Len(q) :
              /\ Last(q[i].total) = Len(q)
              /\ Fails(q, i) \/ PassesOn(q, i) \/ Merges(q, i)
<1> DEFINE n == Len(q)
<1>1. n \in Nat /\ DOMAIN q = 1 .. n
  BY LenProperties
<1>2. CASE ~ \E i \in DOMAIN q : Completes(q, i)
  <2>1. incomplete' = q /\ UNCHANGED <<complete, thrown>>
    BY <1>2 DEF Collect
  <2> DEFINE S == {i \in 1 .. n : Last(q[i].total) = n}
  <2>2. S = {}
    <3> SUFFICES ASSUME S # {} PROVE FALSE
      OBVIOUS
    <3>1. PICK m \in S : \A k \in S : m <= k
      <4>1. S \in SUBSET Nat
        BY <1>1
      <4> HIDE DEF S
      <4> QED
        BY <4>1, Least
    <3>2. m \in 1 .. n /\ Last(q[m].total) = n
      BY <3>1
    <3>3. ASSUME NEW l \in 1 .. m - 1 PROVE Last(q[l].total) # n
      <4>1. l \in 1 .. n /\ ~(m <= l)
        BY <1>1, <3>2
      <4>2. l \notin S
        BY <3>1, <4>1, Zenon
      <4> QED
        BY <4>1, <4>2
    <3>4. Completes(q, m)
      BY <3>2, <3>3 DEF Completes
    <3> QED
      BY <1>1, <1>2, <3>2, <3>4
  <2> QED
    BY <2>1, <2>2 DEF Keeps
<1>3. CASE \E i \in DOMAIN q : Completes(q, i)
  <2> DEFINE i == CHOOSE i \in DOMAIN q : Completes(q, i)  set == Fronted(q, i)
  <2>1. i \in DOMAIN q /\ Completes(q, i)
    BY <1>3, Zenon
  <2>2. IF Len(set) > 1 /\ ~Mergeable(set)
        THEN thrown' = TRUE /\ UNCHANGED <<incomplete, complete>>
        ELSE /\ complete' = Append(complete, IF Len(set) > 1 THEN Merge(set) ELSE set[1])
             /\ incomplete' = <<>>
             /\ UNCHANGED thrown
    BY <1>3, Zenon DEF Collect, Fronted
  <2> HIDE DEF i
  <2>3. i \in 1 .. n /\ Last(q[i].total) = n
    BY <1>1, <2>1 DEF Completes
  <2>4. Array(set, n) /\ \A k \in 1 .. n : set[k] = q[Before(i, k)]
    BY <2>3, FrontedAt, Zenon
  <2>5. Len(set) = n
    BY <1>1, <2>4 DEF Array
  <2> HIDE DEF set
  <2>6. CASE n > 1 /\ ~Mergeable(set)
    <3>1. Fails(q, i)
      BY <2>2, <2>5, <2>6 DEF Fails, set
    <3> QED
      BY <2>3, <3>1
  <2>7. CASE n > 1 /\ Mergeable(set)
    <3>1. Merges(q, i)
      BY <2>2, <2>5, <2>7 DEF Merges, Finishes, set
    <3> QED
      BY <2>3, <3>1
  <2>8. CASE ~(n > 1)
    <3>1. n = 1 /\ i = 1
      BY <1>1, <2>3, <2>8
    <3>2. set[1] = q[1]
      BY <2>4, <3>1 DEF Before
    <3>3. PassesOn(q, i)
      BY <2>2, <2>5, <3>1, <3>2 DEF PassesOn, Finishes
    <3> QED
      BY <2>3, <3>3
  <2> QED
    BY <2>6, <2>7, <2>8
<1> QED
  BY <1>2, <1>3

LEMMA FrontedResults ==
  ASSUME SetupOK, NEW q \in Seq(Computed), PartResults(q, Len(q)), NEW i \in 1 .. Len(q)
  PROVE  PartResults(Fronted(q, i), Len(q))
<1> DEFINE n == Len(q)  f == Fronted(q, i)
<1>1. n \in Nat
  BY LenProperties
<1>2. Array(f, n) /\ \A k \in 1 .. n : f[k] = q[Before(i, k)]
  BY FrontedAt
<1>3. /\ \A k \in 1 .. n : Before(i, k) \in 1 .. n
      /\ \A k, l \in 1 .. n : Before(i, k) = Before(i, l) => k = l
  BY <1>1, BeforePermutes
<1> HIDE DEF f
<1>4. \A k \in 1 .. n : \E t \in ToSet(Parts) : f[k] = Run(t)
  BY <1>2, <1>3 DEF PartResults
<1>5. ASSUME NEW k \in 1 .. n, NEW l \in 1 .. n, k # l
      PROVE  f[k].values # f[l].values
  <2>1. /\ Before(i, k) \in 1 .. n /\ Before(i, l) \in 1 .. n
        /\ Before(i, k) # Before(i, l)
    BY <1>3, <1>5
  <2>2. q[Before(i, k)].values # q[Before(i, l)].values
    BY <2>1 DEF PartResults
  <2> QED
    BY <1>2, <2>2
<1> QED
  BY <1>2, <1>4, <1>5 DEF PartResults, f

-----------------------------------------------------------------------------
(* The inductive invariant. *)

\* A queue has results of different parts that are computed.
QueueOK(q) ==
  /\ q \in Seq(Computed)
  /\ \A i \in 1 .. Len(q) : \E t \in ToSet(Parts) \ todo : Of(q[i], t)
  /\ \A i, j \in 1 .. Len(q) : i # j => q[i].values # q[j].values

QueuesOK ==
  /\ todo \subseteq ToSet(Parts)
  /\ \A x \in results : \E t \in ToSet(Parts) \ todo : Of(x.res, t)
  /\ \A x, y \in results : x # y => x.res.values # y.res.values
  /\ QueueOK(incomplete)
  /\ \A x \in results, i \in 1 .. Len(incomplete) : x.res.values # incomplete[i].values
  /\ complete \in Seq(Computed)

\* The application has the values of the whole task, and nothing is left,
Whole ==
  /\ Len(complete) = 1 /\ complete[1].values = Val(task)
  /\ todo = {} /\ results = {} /\ incomplete = <<>>

\* or it has those of parts that are nowhere else.
Apart ==
  /\ \A i \in 1 .. Len(complete) : \E t \in ToSet(Parts) \ todo : complete[i].values = Val(t)
  /\ \A i, j \in 1 .. Len(complete) : i # j => complete[i].values # complete[j].values
  /\ \A i \in 1 .. Len(complete), x \in results : complete[i].values # x.res.values
  /\ \A i \in 1 .. Len(complete), j \in 1 .. Len(incomplete) :
       complete[i].values # incomplete[j].values

ValuesInv == SetupOK /\ QueuesOK /\ (Whole \/ Apart)

\* What holds as long as parts can be split on their nodes: each part is with a
\* node, on its way, on the queue or in the result of the whole task.
Orderly ==
  /\ ~rejected /\ ~thrown
  /\ tracked \subseteq ToSet(Parts) /\ todo \subseteq tracked
  /\ \A x \in results : \E t \in tracked \ todo : x.res = Run(t)
  /\ \A t \in tracked \ todo : \E x \in results : x.res = Run(t)
  /\ \A i \in 1 .. Len(incomplete) : \E t \in ToSet(Parts) \ tracked : incomplete[i] = Run(t)
  /\ complete = <<>> =>
       /\ tracked # {}
       /\ \A t \in ToSet(Parts) \ tracked :
            \E i \in 1 .. Len(incomplete) : incomplete[i] = Run(t)
  /\ complete # <<>> => Whole /\ tracked = {}

Inv == ValuesInv /\ (Divisible => Orderly)

LEMMA InitInv == Init => Inv
<1> SUFFICES ASSUME Init PROVE Inv
  OBVIOUS
<1>1. PICK range \in Ranges : task = Task(range)
  BY DEF Init
<1>2. range \in Int \X Int /\ range[1] <= range[2]
  BY SplitConstants
<1>3. task = [number |-> <<0>>, total |-> <<1>>, first |-> range[1], last |-> range[2]]
  BY <1>1 DEF Task
<1>4. <<0>> \in Seq(Nat) /\ <<1>> \in Seq(Nat) /\ range[1] \in Int /\ range[2] \in Int
  BY <1>2
<1>5. task \in Tasks /\ task.number = <<0>> /\ task.total = <<1>>
  BY <1>2, <1>3, <1>4 DEF Tasks
<1>6. setup \in [clients : Nat \ {0}, threads : Nat \ {0}]
  BY SplitConstants DEF Init
<1>7. SetupOK
  BY <1>5, <1>6 DEF SetupOK
<1>8. tracked = ToSet(Parts) /\ todo = tracked
  BY <1>7, PartIndex DEF Init
<1>9. results = {} /\ incomplete = <<>> /\ complete = <<>> /\ ~rejected /\ ~thrown
  BY DEF Init
<1>10. <<>> \in Seq(Computed) /\ Len(<<>>) = 0
  OBVIOUS
<1>11. QueuesOK
  BY <1>8, <1>9, <1>10 DEF QueuesOK, QueueOK
<1>12. Apart
  BY <1>9, <1>10 DEF Apart
<1>13. tracked # {}
  <2>1. 1 \in 1 .. Count
    BY <1>7, PartsCover
  <2> QED
    BY <1>7, <1>8, <2>1, PartIndex
<1>14. Orderly
  BY <1>8, <1>9, <1>10, <1>13 DEF Orderly
<1> QED
  BY <1>7, <1>11, <1>12, <1>14 DEF Inv, ValuesInv

\* A part that is computed has other values than one that is not.
LEMMA TodoApart ==
  ASSUME ValuesInv, NEW t \in todo, NEW r, NEW u \in ToSet(Parts) \ todo, r.values = Val(u)
  PROVE  r.values # Val(t)
<1>1. t \in ToSet(Parts) /\ t # u
  BY DEF ValuesInv, QueuesOK
<1> QED
  BY <1>1, PartsDiffer DEF ValuesInv

LEMMA ComputeValues ==
  ASSUME ValuesInv, NEW k \in 1 .. setup.threads, NEW byHost \in BOOLEAN, Compute(k, byHost)
  PROVE  ValuesInv'
<1>1. PICK t \in todo :
        /\ todo' = todo \ {t}
        /\ results' = results \cup {[res |-> NodeResult(t, k), byHost |-> byHost]}
  BY DEF Compute
<1>2. /\ task' = task /\ setup' = setup /\ incomplete' = incomplete /\ complete' = complete
      /\ Parts' = Parts /\ SetupOK'
  BY DEF Compute, Parts, SetupOK, ValuesInv
<1> DEFINE r == [res |-> NodeResult(t, k), byHost |-> byHost]
<1>3. t \in ToSet(Parts) /\ t \in Tasks /\ k \in Nat \ {0}
  BY PartIndex DEF ValuesInv, QueuesOK, SetupOK
<1>4. Of(r.res, t) /\ r.res.values = Val(t)
  BY <1>3, NodeResultRight DEF Of
<1> HIDE DEF r
<1>5. \A x \in results : x.res.values # r.res.values
  BY <1>4, TodoApart DEF ValuesInv, QueuesOK, Of
<1>6. \A i \in 1 .. Len(incomplete) : incomplete[i].values # r.res.values
  BY <1>4, TodoApart DEF ValuesInv, QueuesOK, QueueOK, Of
<1>7. QueueOK(incomplete)'
  BY <1>1, <1>2 DEF ValuesInv, QueuesOK, QueueOK
<1>8. \A x \in results' : x \in results \/ x = r
  BY <1>1 DEF r
<1>9. todo' \subseteq ToSet(Parts)' /\ t \in ToSet(Parts)' \ todo'
  BY <1>1, <1>2, <1>3 DEF ValuesInv, QueuesOK
<1>10. \A x \in results' : \E u \in ToSet(Parts)' \ todo' : Of(x.res, u)
  BY <1>1, <1>2, <1>4, <1>8, <1>9 DEF ValuesInv, QueuesOK
<1>11. \A x, y \in results' : x # y => x.res.values # y.res.values
  BY <1>5, <1>8 DEF ValuesInv, QueuesOK
<1>12. \A x \in results', i \in 1 .. Len(incomplete) : x.res.values # incomplete[i].values
  BY <1>6, <1>8 DEF ValuesInv, QueuesOK
<1>13. QueuesOK'
  BY <1>2, <1>7, <1>9, <1>10, <1>11, <1>12 DEF ValuesInv, QueuesOK
<1>14. Apart
  BY DEF ValuesInv, Whole
<1>15. \A i \in 1 .. Len(complete) : complete[i].values # r.res.values
  BY <1>4, <1>14, TodoApart DEF Apart
<1>16. Apart'
  BY <1>1, <1>2, <1>8, <1>14, <1>15 DEF Apart
<1> QED
  BY <1>2, <1>13, <1>16 DEF ValuesInv

LEMMA ComputeOrderly ==
  ASSUME ValuesInv, Orderly, Divisible,
         NEW k \in 1 .. setup.threads, NEW byHost \in BOOLEAN, Compute(k, byHost)
  PROVE  Orderly'
<1>1. PICK t \in todo :
        /\ todo' = todo \ {t}
        /\ results' = results \cup {[res |-> NodeResult(t, k), byHost |-> byHost]}
  BY DEF Compute
<1>2. /\ task' = task /\ setup' = setup /\ incomplete' = incomplete /\ complete' = complete
      /\ tracked' = tracked /\ rejected' = rejected /\ thrown' = thrown
      /\ Parts' = Parts
  BY DEF Compute, Parts
<1> DEFINE r == [res |-> NodeResult(t, k), byHost |-> byHost]
<1>3. t \in ToSet(Parts) /\ t \in Tasks /\ t \in tracked /\ setup.threads \in Nat
  BY PartIndex DEF ValuesInv, QueuesOK, SetupOK, Orderly
<1>4. r.res = Run(t)
  <2>1. t \in Division(task, setup.clients)
    BY <1>3, PartIndex DEF ValuesInv
  <2>2. k \in Nat \ {0} /\ (k = 1 \/ Length(t) > 1)
    BY <1>3, <2>1 DEF Divisible
  <2> QED
    BY <1>3, <2>2, NodeResultRight
<1> HIDE DEF r
<1>5. complete = <<>>
  BY DEF Orderly, Whole
<1>6. results' = results \cup {r}
  BY <1>1 DEF r
<1>7. \A x \in results' : \E u \in tracked' \ todo' : x.res = Run(u)
  BY <1>1, <1>2, <1>3, <1>4, <1>6 DEF Orderly
<1>8. \A u \in tracked' \ todo' : \E x \in results' : x.res = Run(u)
  BY <1>1, <1>2, <1>4, <1>6 DEF Orderly
<1>9. tracked' \subseteq ToSet(Parts)' /\ todo' \subseteq tracked'
  BY <1>1, <1>2 DEF Orderly
<1> QED
  BY <1>2, <1>5, <1>7, <1>8, <1>9 DEF Orderly

LEMMA NotFoundValues ==
  ASSUME ValuesInv, NEW r \in results, NotFound(r)
  PROVE  ValuesInv'
<1>1. /\ task' = task /\ setup' = setup /\ incomplete' = incomplete /\ complete' = complete
      /\ todo' = todo /\ results' = results \ {r} /\ Parts' = Parts /\ SetupOK'
  BY DEF NotFound, Parts, SetupOK, ValuesInv
<1>2. QueueOK(incomplete)'
  BY <1>1 DEF ValuesInv, QueuesOK, QueueOK
<1>3. QueuesOK'
  BY <1>1, <1>2 DEF ValuesInv, QueuesOK
<1>4. Apart
  BY DEF ValuesInv, Whole
<1>5. Apart'
  BY <1>1, <1>4 DEF Apart
<1> QED
  BY <1>1, <1>3, <1>5 DEF ValuesInv

\* Of the parts tracked, the one with the number of a result is the one that
\* result was computed from.
LEMMA PartFound ==
  ASSUME ValuesInv, Orderly, NEW r \in results
  PROVE  \E t \in tracked \ todo :
           /\ r.res = Run(t)
           /\ \A u \in tracked : Last(u.number) = Last(r.res.number) <=> u = t
<1>1. PICK t \in tracked \ todo : r.res = Run(t)
  BY DEF Orderly
<1>2. Last(r.res.number) = Last(t.number)
  BY <1>1, RunFields
<1>3. ASSUME NEW u \in tracked, u # t PROVE Last(u.number) # Last(t.number)
  BY <1>3, PartsDiffer DEF Orderly, ValuesInv
<1> QED
  BY <1>1, <1>2, <1>3

LEMMA NotFoundOrderly ==
  ASSUME ValuesInv, Orderly, NEW r \in results, NotFound(r)
  PROVE  FALSE
BY PartFound DEF NotFound

\* The queue with a result that has just arrived.
LEMMA QueueGrows ==
  ASSUME ValuesInv, NEW r \in results
  PROVE  LET q == Append(incomplete, r.res)
         IN  /\ QueueOK(q) /\ Len(q) = Len(incomplete) + 1
             /\ \A i \in 1 .. Len(incomplete) : q[i] = incomplete[i]
             /\ q[Len(q)] = r.res
             /\ \A x \in results \ {r}, i \in 1 .. Len(q) : x.res.values # q[i].values
             /\ Apart => \A j \in 1 .. Len(complete), i \in 1 .. Len(q) :
                           complete[j].values # q[i].values
<1> DEFINE q == Append(incomplete, r.res)  n == Len(incomplete)
<1>1. incomplete \in Seq(Computed) /\ r.res \in Computed
  BY DEF ValuesInv, QueuesOK, QueueOK, Of
<1>2. n \in Nat
  BY <1>1, LenProperties
<1>3. /\ q \in Seq(Computed) /\ Len(q) = n + 1
      /\ \A i \in 1 .. n : q[i] = incomplete[i]
      /\ q[n + 1] = r.res
  BY <1>1, AppendProperties
<1> HIDE DEF q, n
<1>4. ASSUME NEW i \in 1 .. Len(q)
      PROVE  \/ i \in 1 .. n /\ q[i] = incomplete[i]
             \/ i = n + 1 /\ q[i] = r.res
  BY <1>2, <1>3
<1>5. \A i \in 1 .. Len(q) : \E t \in ToSet(Parts) \ todo : Of(q[i], t)
  BY <1>4 DEF ValuesInv, QueuesOK, QueueOK, n
<1>6. \A i, j \in 1 .. Len(q) : i # j => q[i].values # q[j].values
  BY <1>4 DEF ValuesInv, QueuesOK, QueueOK, n
<1>7. QueueOK(q)
  BY <1>3, <1>5, <1>6 DEF QueueOK
<1>8. \A x \in results \ {r}, i \in 1 .. Len(q) : x.res.values # q[i].values
  BY <1>4 DEF ValuesInv, QueuesOK, n
<1>9. Apart => \A j \in 1 .. Len(complete), i \in 1 .. Len(q) :
                 complete[j].values # q[i].values
  BY <1>4 DEF Apart, n
<1> QED
  BY <1>3, <1>7, <1>8, <1>9, Zenon DEF q, n

\* Results that merge are those of all the parts.
LEMMA MergeableWhole ==
  ASSUME SetupOK, NEW q, QueueOK(q), NEW i \in 1 .. Len(q),
         Len(q) > 1, Mergeable(Fronted(q, i))
  PROVE  Len(q) = Count /\ PartResults(q, Count)
<1> DEFINE n == Len(q)  f == Fronted(q, i)
<1>1. q \in Seq(Computed) /\ n \in Nat
  BY LenProperties DEF QueueOK
<1>2. Array(f, n) /\ \A k \in 1 .. n : f[k] = q[Before(i, k)]
  BY <1>1, FrontedAt
<1>3. Len(f) = n /\ DOMAIN f = 1 .. n
  BY <1>1, <1>2 DEF Array
<1> HIDE DEF f
<1>4. ASSUME NEW l \in 1 .. n PROVE \E t \in ToSet(Parts) : q[l] = Run(t) /\ n = Count
  <2>1. PICK k \in 1 .. n : Before(i, k) = l
    BY <1>1, BeforePermutes
  <2>2. Last(f[k].total) = n
    BY <1>3, <2>1 DEF Mergeable, f
  <2>3. Last(q[l].total) = n /\ n # 1
    BY <1>2, <2>1, <2>2
  <2>4. PICK t \in ToSet(Parts) : Of(q[l], t)
    BY DEF QueueOK
  <2>5. q[l] = Run(t)
    BY <2>3, <2>4 DEF Of
  <2>6. PICK m \in 1 .. Count : t = Parts[m]
    BY PartIndex
  <2>7. Last(q[l].total) = Count
    BY <2>5, <2>6, PartStacks, RunFields
  <2> QED
    BY <2>3, <2>5, <2>7
<1>5. n = Count
  <2>1. 1 \in 1 .. n
    BY <1>1
  <2> QED
    BY <1>4, <2>1
<1>6. Array(q, n)
  BY <1>1, LenProperties DEF Array
<1>7. PartResults(q, n)
  BY <1>4, <1>6 DEF PartResults, QueueOK
<1> QED
  BY <1>5, <1>7

LEMMA MarkFinishedValues ==
  ASSUME ValuesInv, NEW r \in results, MarkFinished(r)
  PROVE  ValuesInv'
<1> DEFINE q == Append(incomplete, r.res)
<1>1. /\ task' = task /\ setup' = setup /\ todo' = todo /\ results' = results \ {r}
      /\ Parts' = Parts /\ SetupOK /\ SetupOK' /\ Collect(q)
  BY DEF MarkFinished, Parts, SetupOK, ValuesInv
<1>2. /\ QueueOK(q)
      /\ \A x \in results \ {r}, i \in 1 .. Len(q) : x.res.values # q[i].values
      /\ Apart => \A j \in 1 .. Len(complete), i \in 1 .. Len(q) :
                    complete[j].values # q[i].values
  BY QueueGrows
<1>3. Len(q) = Len(incomplete) + 1 /\ \A i \in 1 .. Len(incomplete) : q[i] = incomplete[i]
  BY QueueGrows
<1> HIDE DEF q
<1>4. q \in Seq(Computed) /\ Len(q) \in Nat
  BY <1>2, LenProperties DEF QueueOK
<1>5. Apart
  BY DEF ValuesInv, Whole
<1>6. /\ todo' \subseteq ToSet(Parts)'
      /\ \A x \in results' : \E t \in ToSet(Parts)' \ todo' : Of(x.res, t)
      /\ \A x, y \in results' : x # y => x.res.values # y.res.values
  BY <1>1 DEF ValuesInv, QueuesOK
<1>7. complete \in Seq(Computed) /\ Len(complete) \in Nat
  BY LenProperties DEF ValuesInv, QueuesOK
<1>8. <<>> \in Seq(Computed) /\ Len(<<>>) = 0
  OBVIOUS
<1>9. CASE Keeps(q)
  <2>1. incomplete' = q /\ complete' = complete
    BY <1>9 DEF Keeps
  <2>2. QueueOK(incomplete)'
    BY <1>1, <1>2, <2>1 DEF QueueOK
  <2>3. QueuesOK'
    BY <1>1, <1>2, <1>6, <1>7, <2>1, <2>2 DEF QueuesOK
  <2>4. Apart'
    BY <1>1, <1>2, <1>5, <2>1 DEF Apart
  <2> QED
    BY <1>1, <2>3, <2>4 DEF ValuesInv
<1>10. ASSUME NEW i \in 1 .. Len(q), Fails(q, i) PROVE ValuesInv'
  <2>1. incomplete' = incomplete /\ complete' = complete
    BY <1>10 DEF Fails
  <2>2. QueueOK(incomplete)'
    BY <1>1, <2>1 DEF ValuesInv, QueuesOK, QueueOK
  <2>3. QueuesOK'
    BY <1>1, <1>6, <1>7, <2>1, <2>2 DEF ValuesInv, QueuesOK
  <2>4. Apart'
    BY <1>1, <1>5, <2>1 DEF Apart
  <2> QED
    BY <1>1, <2>3, <2>4 DEF ValuesInv
<1>11. ASSUME incomplete' = <<>>, complete' \in Seq(Computed) PROVE QueuesOK'
  <2>1. QueueOK(incomplete)'
    BY <1>1, <1>8, <1>11 DEF QueueOK
  <2> QED
    BY <1>6, <1>8, <1>11, <2>1 DEF QueuesOK
<1>12. ASSUME NEW i \in 1 .. Len(q), PassesOn(q, i) PROVE ValuesInv'
  <2>1. incomplete' = <<>> /\ complete' = Append(complete, q[1]) /\ Len(q) = 1
    BY <1>12 DEF PassesOn, Finishes
  <2>2. 1 \in 1 .. Len(q) /\ q[1] \in Computed
    <3>1. 1 \in 1 .. Len(q)
      BY <2>1
    <3> QED
      BY <1>4, <3>1, ElementOfSeq
  <2>3. /\ complete' \in Seq(Computed) /\ Len(complete') = Len(complete) + 1
        /\ \A j \in 1 .. Len(complete) : complete'[j] = complete[j]
        /\ complete'[Len(complete) + 1] = q[1]
    BY <1>7, <2>1, <2>2, AppendProperties
  <2>4. QueuesOK'
    BY <1>11, <2>1, <2>3
  <2>5. ASSUME NEW j \in 1 .. Len(complete')
        PROVE  \/ j \in 1 .. Len(complete) /\ complete'[j] = complete[j]
               \/ j = Len(complete) + 1 /\ complete'[j] = q[1]
    BY <1>7, <2>3
  <2>6. \E t \in ToSet(Parts) \ todo : q[1].values = Val(t)
    BY <1>2, <2>2 DEF QueueOK, Of
  <2>7. \A j \in 1 .. Len(complete') : \E t \in ToSet(Parts)' \ todo' : complete'[j].values = Val(t)
    BY <1>1, <1>5, <2>5, <2>6 DEF Apart
  <2>8. \A j, k \in 1 .. Len(complete') : j # k => complete'[j].values # complete'[k].values
    BY <1>2, <1>5, <2>2, <2>5 DEF Apart
  <2>9. \A j \in 1 .. Len(complete'), x \in results' : complete'[j].values # x.res.values
    BY <1>1, <1>2, <1>5, <2>2, <2>5 DEF Apart
  <2>10. Apart'
    BY <1>8, <2>1, <2>7, <2>8, <2>9 DEF Apart
  <2> QED
    BY <1>1, <2>4, <2>10 DEF ValuesInv
<1>13. ASSUME NEW i \in 1 .. Len(q), Merges(q, i) PROVE ValuesInv'
  <2>1. /\ incomplete' = <<>> /\ complete' = Append(complete, Merge(Fronted(q, i)))
        /\ Len(q) > 1 /\ Mergeable(Fronted(q, i))
    BY <1>13 DEF Merges, Finishes
  <2>2. Len(q) = Count /\ PartResults(q, Count)
    BY <1>1, <1>2, <2>1, MergeableWhole
  <2>3. Merge(Fronted(q, i)) = Run(task)
    <3>1. PartResults(Fronted(q, i), Count)
      BY <1>1, <1>4, <2>2, FrontedResults
    <3> QED
      BY <1>1, <2>1, <2>2, <3>1, WholeMerges
  <2>4. \A t \in ToSet(Parts) : \E l \in 1 .. Len(q) : q[l] = Run(t)
    BY <1>1, <1>4, <2>2, PartsCounted
  <2>5. \A t \in ToSet(Parts) : \E l \in 1 .. Len(q) : q[l].values = Val(t)
    BY <2>4, RunFields
  <2>6. Len(complete) = 0
    <3> SUFFICES ASSUME 1 \in 1 .. Len(complete) PROVE FALSE
      BY <1>7
    <3>1. PICK t \in ToSet(Parts) : complete[1].values = Val(t)
      BY <1>5 DEF Apart
    <3> QED
      BY <1>2, <1>5, <2>5, <3>1
  <2>7. todo = {}
    <3> SUFFICES ASSUME NEW t \in todo PROVE FALSE
      OBVIOUS
    <3>1. PICK l \in 1 .. Len(q) : q[l].values = Val(t)
      BY <2>5 DEF ValuesInv, QueuesOK
    <3>2. PICK u \in ToSet(Parts) \ todo : Of(q[l], u)
      BY <1>2 DEF QueueOK
    <3> QED
      BY <3>1, <3>2, TodoApart DEF Of
  <2>8. results' = {}
    <3> SUFFICES ASSUME NEW x \in results \ {r} PROVE FALSE
      BY <1>1
    <3>1. PICK t \in ToSet(Parts) : x.res.values = Val(t)
      BY DEF ValuesInv, QueuesOK, Of
    <3> QED
      BY <1>2, <2>5, <3>1
  <2>9. complete = <<>>
    BY <1>7, <2>6
  <2>10. Run(task) \in Computed /\ Run(task).values = Val(task)
    BY <1>1, RunOf, RunFields DEF SetupOK
  <2>11. complete' = <<Run(task)>>
    BY <2>1, <2>3, <2>9
  <2>12. complete' \in Seq(Computed) /\ Len(complete') = 1 /\ complete'[1] = Run(task)
    BY <2>10, <2>11
  <2>13. QueuesOK'
    BY <1>11, <2>1, <2>12
  <2>14. Val(task)' = Val(task)
    BY <1>1 DEF Val
  <2>15. Whole'
    BY <1>1, <2>1, <2>7, <2>8, <2>10, <2>12, <2>14 DEF Whole
  <2> QED
    BY <1>1, <2>13, <2>15 DEF ValuesInv
<1> QED
  BY <1>1, <1>4, <1>9, <1>10, <1>12, <1>13, CollectCases

\* The results of all parts are a set that merges.
LEMMA WholeMergeable ==
  ASSUME SetupOK, Count > 1, NEW rs, PartResults(rs, Count)
  PROVE  Mergeable(rs)
<1>1. Count \in Nat \ {0}
  BY PartsCover
<1>2. DOMAIN rs = 1 .. Count /\ Len(rs) = Count
  BY <1>1 DEF PartResults, Array
<1>3. ASSUME NEW i \in 1 .. Count
      PROVE  Len(rs[i].number) = 2 /\ Len(rs[i].total) = 2 /\ Last(rs[i].total) = Count
  <2>1. PICK t \in ToSet(Parts) : rs[i] = Run(t)
    BY DEF PartResults
  <2>2. PICK k \in 1 .. Count : t = Parts[k]
    BY PartIndex
  <2> QED
    BY <2>1, <2>2, PartStacks, RunFields
<1>4. 1 \in 1 .. Count
  BY <1>1
<1> QED
  BY <1>2, <1>3, <1>4 DEF Mergeable

LEMMA MarkFinishedOrderly ==
  ASSUME ValuesInv, Orderly, NEW r \in results, MarkFinished(r), ValuesInv'
  PROVE  Orderly'
<1> DEFINE q == Append(incomplete, r.res)
<1>1. /\ task' = task /\ setup' = setup /\ todo' = todo /\ results' = results \ {r}
      /\ rejected' = rejected /\ Parts' = Parts /\ SetupOK /\ Collect(q)
  BY DEF MarkFinished, Parts, ValuesInv
<1>2. PICK t \in tracked \ todo :
        /\ r.res = Run(t)
        /\ \A u \in tracked : Last(u.number) = Last(r.res.number) <=> u = t
  BY PartFound
<1>3. tracked' = tracked \ {t}
  BY <1>2 DEF MarkFinished
<1>4. complete = <<>>
  BY DEF Orderly, Whole
<1>5. /\ QueueOK(q) /\ Len(q) = Len(incomplete) + 1
      /\ \A i \in 1 .. Len(incomplete) : q[i] = incomplete[i]
      /\ q[Len(q)] = r.res
  BY QueueGrows
<1> HIDE DEF q
<1>6. q \in Seq(Computed) /\ Len(q) \in Nat /\ Len(incomplete) \in Nat
  BY <1>5, LenProperties DEF QueueOK, ValuesInv, QueuesOK
<1>7. ASSUME NEW i \in 1 .. Len(q)
      PROVE  \/ i \in 1 .. Len(incomplete) /\ q[i] = incomplete[i]
             \/ i = Len(q) /\ q[i] = Run(t)
  BY <1>2, <1>5, <1>6
<1>8. t \in ToSet(Parts) /\ tracked \subseteq ToSet(Parts)
  BY <1>2 DEF Orderly
<1>9. \A i \in 1 .. Len(q) : \E u \in ToSet(Parts) \ tracked' : q[i] = Run(u)
  BY <1>3, <1>7, <1>8 DEF Orderly
<1>10. PartResults(q, Len(q))
  <2>1. Array(q, Len(q))
    BY <1>6, LenProperties DEF Array
  <2> QED
    BY <1>5, <1>9, <2>1 DEF PartResults, QueueOK
<1>11. \A u \in ToSet(Parts) \ tracked' : \E i \in 1 .. Len(q) : q[i] = Run(u)
  <2>1. Len(q) \in 1 .. Len(q) /\ q[Len(q)] = Run(t)
    BY <1>2, <1>5, <1>6
  <2>2. \A i \in 1 .. Len(incomplete) : i \in 1 .. Len(q) /\ q[i] = incomplete[i]
    BY <1>5, <1>6
  <2> QED
    BY <1>3, <1>4, <2>1, <2>2 DEF Orderly
<1>12. \A u, w \in ToSet(Parts) : Run(u) = Run(w) => u = w
  <2> SUFFICES ASSUME NEW u \in ToSet(Parts), NEW w \in ToSet(Parts), Run(u) = Run(w)
               PROVE  u = w
    OBVIOUS
  <2>1. Val(u) = Val(w)
    BY RunFields
  <2> QED
    BY <1>1, <2>1, PartsDiffer
<1>13. Len(q) = Count <=> tracked' = {}
  <2>1. Len(q) = Count <=> \A u \in ToSet(Parts) : \E i \in 1 .. Len(q) : q[i] = Run(u)
    BY <1>1, <1>6, <1>10, PartsCounted
  <2>2. ASSUME tracked' = {}
        PROVE  \A u \in ToSet(Parts) : \E i \in 1 .. Len(q) : q[i] = Run(u)
    BY <1>11, <2>2
  <2>3. ASSUME NEW u \in tracked', NEW i \in 1 .. Len(q) PROVE q[i] # Run(u)
    BY <1>3, <1>8, <1>9, <1>12
  <2>4. tracked' \subseteq ToSet(Parts)
    BY <1>3, <1>8
  <2> QED
    BY <2>1, <2>2, <2>3, <2>4
<1>14. \A x \in results' : \E u \in tracked' \ todo' : x.res = Run(u)
  <2> SUFFICES ASSUME NEW x \in results, x # r
               PROVE  \E u \in tracked' \ todo' : x.res = Run(u)
    BY <1>1
  <2>1. PICK u \in tracked \ todo : x.res = Run(u)
    BY DEF Orderly
  <2>2. x.res.values # r.res.values
    BY DEF ValuesInv, QueuesOK
  <2>3. u # t
    BY <1>2, <2>1, <2>2
  <2> QED
    BY <1>1, <1>3, <2>1, <2>3
<1>15. \A u \in tracked' \ todo' : \E x \in results' : x.res = Run(u)
  <2> SUFFICES ASSUME NEW u \in tracked \ todo, u # t
               PROVE  \E x \in results' : x.res = Run(u)
    BY <1>1, <1>3
  <2>1. PICK x \in results : x.res = Run(u)
    BY DEF Orderly
  <2>2. x # r
    BY <1>2, <1>8, <1>12, <2>1
  <2> QED
    BY <1>1, <2>1, <2>2
<1>16. tracked' \subseteq ToSet(Parts)' /\ todo' \subseteq tracked' /\ ~rejected'
  BY <1>1, <1>2, <1>3 DEF Orderly
<1>17. CASE Keeps(q)
  <2>1. incomplete' = q /\ complete' = complete /\ thrown' = thrown
    BY <1>17 DEF Keeps
  <2>2. Len(q) # Count
    <3>1. 1 \in 1 .. Len(q)
      BY <1>5, <1>6
    <3>2. PICK u \in ToSet(Parts) : q[1] = Run(u)
      BY <1>9, <3>1
    <3>3. PICK k \in 1 .. Count : u = Parts[k]
      BY <1>1, PartIndex
    <3>4. Last(q[1].total) = Count
      BY <1>1, <3>2, <3>3, PartStacks, RunFields
    <3> QED
      BY <1>17, <3>1, <3>4 DEF Keeps
  <2>3. tracked' # {}
    BY <1>13, <2>2
  <2>4. ~thrown' /\ complete' = <<>>
    BY <1>4, <2>1 DEF Orderly
  <2> QED
    BY <1>1, <1>9, <1>11, <1>14, <1>15, <1>16, <2>1, <2>3, <2>4 DEF Orderly
<1>18. ASSUME NEW i \in 1 .. Len(q), Last(q[i].total) = Len(q) PROVE tracked' = {} /\ Len(q) = Count
  <2>1. PICK u \in ToSet(Parts) : q[i] = Run(u)
    BY <1>9
  <2>2. PICK k \in 1 .. Count : u = Parts[k]
    BY <1>1, PartIndex
  <2>3. Last(q[i].total) = Count
    BY <1>1, <2>1, <2>2, PartStacks, RunFields
  <2> QED
    BY <1>13, <1>18, <2>3
<1>19. ASSUME NEW i \in 1 .. Len(q), Last(q[i].total) = Len(q), Fails(q, i) PROVE FALSE
  <2>1. Len(q) = Count /\ Len(q) > 1 /\ ~Mergeable(Fronted(q, i))
    BY <1>18, <1>19 DEF Fails
  <2>2. PartResults(Fronted(q, i), Count)
    BY <1>1, <1>6, <1>10, <2>1, FrontedResults
  <2> QED
    BY <1>1, <2>1, <2>2, WholeMergeable
<1>20. ASSUME tracked' = {}, incomplete' = <<>>, thrown' = thrown,
              Len(complete') = 1, complete'[1].values = Val(task)
       PROVE  Orderly'
  <2>1. todo' = {} /\ results' = {}
    BY <1>14, <1>16, <1>20
  <2>2. Val(task)' = Val(task)
    BY <1>1 DEF Val
  <2>3. Whole'
    BY <1>20, <2>1, <2>2 DEF Whole
  <2>4. complete' # <<>> /\ Len(<<>>) = 0
    BY <1>20
  <2>5. ~thrown'
    BY <1>20 DEF Orderly
  <2> QED
    BY <1>14, <1>15, <1>16, <1>20, <2>1, <2>3, <2>4, <2>5 DEF Orderly
<1>21. ASSUME NEW i \in 1 .. Len(q), Last(q[i].total) = Len(q), PassesOn(q, i) PROVE Orderly'
  <2>1. /\ tracked' = {} /\ Count = 1 /\ Len(q) = 1
        /\ incomplete' = <<>> /\ complete' = Append(complete, q[1]) /\ thrown' = thrown
    BY <1>18, <1>21 DEF PassesOn, Finishes
  <2>2. 1 \in 1 .. Len(q)
    BY <2>1
  <2>3. PICK u \in ToSet(Parts) : q[1] = Run(u)
    BY <1>9, <2>2
  <2>4. u = Parts[1]
    BY <1>1, <2>1, <2>3, PartIndex
  <2>5. Parts[1].first = task.first /\ Parts[1].last = task.last
    BY <1>1, <2>1, PartsCover DEF Covers
  <2>6. q[1].values = Val(task)
    BY <2>3, <2>4, <2>5, RunFields DEF Val
  <2>7. complete' = <<q[1]>>
    BY <1>4, <2>1
  <2> QED
    BY <1>20, <2>1, <2>6, <2>7
<1>22. ASSUME NEW i \in 1 .. Len(q), Last(q[i].total) = Len(q), Merges(q, i) PROVE Orderly'
  <2>1. /\ tracked' = {} /\ Len(q) = Count /\ Len(q) > 1
        /\ incomplete' = <<>> /\ complete' = Append(complete, Merge(Fronted(q, i)))
        /\ thrown' = thrown
    BY <1>18, <1>22 DEF Merges, Finishes
  <2>2. PartResults(Fronted(q, i), Count)
    BY <1>1, <1>6, <1>10, <2>1, FrontedResults
  <2>3. Merge(Fronted(q, i)) = Run(task)
    BY <1>1, <2>1, <2>2, WholeMerges
  <2>4. complete' = <<Run(task)>> /\ Run(task).values = Val(task)
    BY <1>4, <2>1, <2>3, RunFields
  <2> QED
    BY <1>20, <2>1, <2>4
<1> QED
  BY <1>1, <1>6, <1>17, <1>19, <1>21, <1>22, CollectCases

-----------------------------------------------------------------------------
(* Theorems about the specification. *)

LEMMA InvStep == Inv /\ [Next]_vars => Inv'
<1> SUFFICES ASSUME Inv, [Next]_vars PROVE Inv'
  OBVIOUS
<1>1. ValuesInv /\ (Divisible => Orderly)
  BY DEF Inv
<1>2. task' = task /\ setup' = setup /\ (Divisible' <=> Divisible)
  BY DEF Next, Compute, MarkFinished, NotFound, vars, Divisible
<1>3. ASSUME NEW k \in 1 .. setup.threads, NEW byHost \in BOOLEAN, Compute(k, byHost)
      PROVE  Inv'
  BY <1>1, <1>2, <1>3, ComputeValues, ComputeOrderly DEF Inv
<1>4. ASSUME NEW r \in results, MarkFinished(r) PROVE Inv'
  BY <1>1, <1>2, <1>4, MarkFinishedValues, MarkFinishedOrderly DEF Inv
<1>5. ASSUME NEW r \in results, NotFound(r) PROVE Inv'
  BY <1>1, <1>2, <1>5, NotFoundValues, NotFoundOrderly DEF Inv
<1>6. CASE UNCHANGED vars
  BY <1>1, <1>6 DEF vars, Inv, ValuesInv, SetupOK, QueuesOK, QueueOK, Whole, Apart,
     Orderly, Divisible, Parts
<1> QED
  BY <1>3, <1>4, <1>5, <1>6 DEF Next

\* Between divideTasksIntoSubTaskQueue and the complete queue each part is with a
\* node, on its way, on the incomplete queue or in the one result of the task, or,
\* where parts of one value were confused, values in play stay those of
\* different parts.
THEOREM SplitMergeInv == Spec => []Inv
  BY InitInv, InvStep, PTL DEF Spec

\* What checkForCompleteResults gives the application is the result of the task run
\* in one piece, where parts can be split on their nodes.
THEOREM CompleteIsRight == Spec => []CompleteRight
<1>1. Inv => CompleteRight
  <2> SUFFICES ASSUME Inv, Divisible, NEW i \in DOMAIN complete
               PROVE  complete[i].values = Run(task).values
    BY DEF CompleteRight, Right
  <2>1. complete \in Seq(Computed)
    BY DEF Inv, ValuesInv, QueuesOK
  <2>2. i \in 1 .. Len(complete) /\ complete # <<>>
    BY <2>1
  <2>3. Whole
    BY <2>2 DEF Inv, Orderly
  <2> QED
    BY <2>2, <2>3, RunFields DEF Whole
<1> QED
  BY <1>1, SplitMergeInv, PTL

\* markTaskFinished finds for every result the part it was computed from: none is
\* rejected and the host does not fail.
THEOREM ResultsMatch == Spec => []AllMatched
<1>1. Inv => AllMatched
  BY DEF Inv, Orderly, AllMatched
<1> QED
  BY <1>1, SplitMergeInv, PTL

\* When every part was computed and every result arrived the task is complete, and
\* nothing is left on the incomplete queue or with the clients.
THEOREM TaskSettles == Spec => []Settles
<1>1. Inv => Settles
  <2> SUFFICES ASSUME Inv, Divisible, todo \cup results = {}
               PROVE  Len(complete) = 1 /\ tracked = {} /\ incomplete = <<>>
    BY DEF Settles
  <2>1. Orderly /\ todo = {} /\ results = {}
    BY DEF Inv
  <2>2. tracked = {}
    BY <2>1 DEF Orderly
  <2>3. complete # <<>>
    BY <2>1, <2>2 DEF Orderly
  <2> QED
    BY <2>1, <2>2, <2>3 DEF Orderly, Whole
<1> QED
  BY <1>1, SplitMergeInv, PTL

\* Even when parts are confused, no value reaches the application twice or out
\* of order within a result.
THEOREM ValuesOnce == Spec => []NoValueTwice
<1>1. Inv => NoValueTwice
  <2> SUFFICES ASSUME Inv PROVE NoValueTwice
    OBVIOUS
  <2>1. SetupOK /\ complete \in Seq(Computed) /\ DOMAIN complete = 1 .. Len(complete)
    BY LenProperties DEF Inv, ValuesInv, QueuesOK
  <2>2. ASSUME NEW t \in Tasks, NEW k \in DOMAIN Val(t), NEW l \in DOMAIN Val(t), k < l
        PROVE  Val(t)[k] < Val(t)[l]
    BY <2>2 DEF Val, Values, Tasks
  <2>3. CASE Whole
    <3>1. task \in Tasks /\ DOMAIN complete = {1}
      BY <2>1, <2>3 DEF SetupOK, Whole
    <3> QED
      BY <2>2, <2>3, <3>1 DEF NoValueTwice, Whole
  <2>4. CASE Apart
    <3>1. ASSUME NEW i \in DOMAIN complete
          PROVE  \E t \in ToSet(Parts) : t \in Tasks /\ complete[i].values = Val(t)
      BY <2>1, <2>4, PartIndex DEF Apart
    <3>2. ASSUME NEW i \in DOMAIN complete, NEW j \in DOMAIN complete, i # j
          PROVE  ToSet(complete[i].values) \cap ToSet(complete[j].values) = {}
      <4>1. PICK t \in ToSet(Parts) : complete[i].values = Val(t)
        BY <3>1
      <4>2. PICK u \in ToSet(Parts) : complete[j].values = Val(u)
        BY <3>1
      <4>3. t # u
        BY <2>1, <2>4, <3>2, <4>1, <4>2 DEF Apart
      <4> QED
        BY <2>1, <4>1, <4>2, <4>3, PartsDiffer
    <3>3. ASSUME NEW i \in DOMAIN complete,
                 NEW k \in DOMAIN complete[i].values, NEW l \in DOMAIN complete[i].values,
                 k < l
          PROVE  complete[i].values[k] < complete[i].values[l]
      BY <2>2, <3>1, <3>3
    <3> QED
      BY <3>2, <3>3 DEF NoValueTwice
  <2> QED
    BY <2>3, <2>4 DEF Inv, ValuesInv
<1> QED
  BY <1>1, SplitMergeInv, PTL
=============================================================================
