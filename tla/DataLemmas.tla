------------------------------ MODULE DataLemmas ------------------------------
(***************************************************************************)
(* Facts about finite sets, sums, sequences and arithmetic modulo a number  *)
(* that the proofs of the components share: a finite set has extremal       *)
(* elements, what holds of 0 and passes from k to k + 1 holds up to n, what *)
(* FlattenSeq returns, and Fermat's little theorem.                        *)
(***************************************************************************)
EXTENDS Integers, Sequences, FiniteSets, SequencesExt, FiniteSetTheorems,
        SequenceTheorems, WellFoundedInduction, TLAPS

-----------------------------------------------------------------------------
(* Finite sets.                                                            *)

\* A finite set has an element nothing is above, in any strict order.
LEMMA FiniteMaximal ==
  ASSUME NEW S, IsFiniteSet(S), S # {}, NEW R,
         \A x \in S : <<x, x>> \notin R,
         \A x, y, z \in S : <<x, y>> \in R /\ <<y, z>> \in R => <<x, z>> \in R
  PROVE  \E x \in S : \A y \in S : <<x, y>> \notin R
<1> DEFINE Up(x) == {y \in S : <<x, y>> \in R}
           T     == {Up(x) : x \in S}
<1>1. T \subseteq FiniteSubsetsOf(S)
  <2>1. \A x \in S : Up(x) \in SUBSET S
    OBVIOUS
  <2>2. \A x \in S : IsFiniteSet(Up(x))
    BY <2>1, FS_Subset
  <2>3. \A x \in S : Up(x) \in FiniteSubsetsOf(S)
    <3> HIDE DEF Up
    <3> QED
      BY <2>1, <2>2 DEF FiniteSubsetsOf
  <2> QED
    BY <2>3
<1>2. IsWellFoundedOn(StrictSubsetOrdering(S), FiniteSubsetsOf(S))
  BY FS_StrictSubsetOrderingWellFounded
<1>3. T # {}
  <2> PICK x \in S : TRUE
    OBVIOUS
  <2> Up(x) \in T
    OBVIOUS
  <2> QED
    OBVIOUS
<1>4. PICK u \in T : \A v \in T : ~ (<<v, u>> \in StrictSubsetOrdering(S))
  <2> HIDE DEF T
  <2> QED
    BY <1>1, <1>2, <1>3, WFMin
<1>5. PICK x \in S : u = Up(x)
  BY <1>4
<1>6. ASSUME NEW y \in S, <<x, y>> \in R
      PROVE  FALSE
  <2>1. Up(y) \subseteq Up(x)
    BY <1>6
  <2>2. y \in Up(x) /\ y \notin Up(y)
    BY <1>6
  <2>3. Up(y) \in T
    OBVIOUS
  <2>4. <<Up(y), Up(x)>> \in StrictSubsetOrdering(S)
    <3> Up(y) \in SUBSET S /\ Up(x) \in SUBSET S
      OBVIOUS
    <3> HIDE DEF Up
    <3> QED
      BY <2>1, <2>2 DEF StrictSubsetOrdering
  <2> QED
    BY <2>3, <2>4, <1>4, <1>5
<1> QED
  BY <1>6

\* The image of a finite set is finite.
LEMMA ImageFinite ==
  ASSUME NEW S, IsFiniteSet(S), NEW f
  PROVE  IsFiniteSet({f[x] : x \in S})
<1> DEFINE g == [x \in S |-> f[x]]
           T == {f[x] : x \in S}
<1>1. g \in Surjection(S, T)
  BY DEF Surjection
<1> QED
  BY <1>1, FS_Surjection

\* A nonempty finite set of integers has a least element.
LEMMA FiniteMinimum ==
  ASSUME NEW S \in SUBSET Int, IsFiniteSet(S), S # {}
  PROVE  \E x \in S : \A y \in S : x <= y
<1> DEFINE R == {p \in S \X S : p[2] < p[1]}
<1>1. \A x, y \in S : <<x, y>> \in R <=> y < x
  OBVIOUS
<1>2. /\ \A x \in S : <<x, x>> \notin R
      /\ \A x, y, z \in S : <<x, y>> \in R /\ <<y, z>> \in R => <<x, z>> \in R
  <2> HIDE DEF R
  <2> QED
    BY <1>1
<1>3. \E x \in S : \A y \in S : <<x, y>> \notin R
  <2> HIDE DEF R
  <2> QED
    BY <1>2, FiniteMaximal
<1>4. \A x, y \in S : ~(y < x) => x <= y
  OBVIOUS
<1> HIDE DEF R
<1> QED
  BY <1>1, <1>3, <1>4

-----------------------------------------------------------------------------
(* Induction up to a bound, stated of a set: a theorem with an operator for  *)
(* a parameter is out of the provers' reach.                               *)

LEMMA Induction ==
  ASSUME NEW n \in Nat, NEW P, 0 \in P, \A k \in 0..n - 1 : k \in P => k + 1 \in P
  PROVE  0..n \subseteq P
<1> DEFINE Out == (0..n) \ P
<1>1. SUFFICES ASSUME Out # {} PROVE FALSE
  OBVIOUS
<1>2. Out \in SUBSET Int /\ IsFiniteSet(Out)
  <2>1. 0 \in Int /\ n \in Int
    OBVIOUS
  <2>2. IsFiniteSet(0..n)
    BY <2>1, FS_Interval, Zenon
  <2> QED
    BY <2>2, FS_Subset
<1>3. PICK m \in Out : \A y \in Out : m <= y
  <2> HIDE DEF Out
  <2> QED
    BY <1>1, <1>2, FiniteMinimum
<1>4. m \in 1..n
  BY <1>3
<1>5. m - 1 \in 0..n - 1 /\ m - 1 \notin Out
  BY <1>3, <1>4
<1>6. (m - 1) + 1 \in P
  BY <1>5
<1> QED
  BY <1>3, <1>4, <1>6

Rises(f, n) ==
  /\ \A k \in 0..n : f[k] \in Int
  /\ \A k \in 0..n - 1 : f[k] <= f[k + 1]

LEMMA Ascending ==
  ASSUME NEW n \in Nat, NEW f, Rises(f, n), NEW a \in 0..n, NEW b \in 0..n, a <= b
  PROVE  f[a] <= f[b]
<1> DEFINE P == {k \in 0..n : a <= k => f[a] <= f[k]}
<1>1. 0 \in P
  BY DEF Rises
<1>2. \A k \in 0..n - 1 : k \in P => k + 1 \in P
  <2>1. TAKE k \in 0..n - 1
  <2>2. HAVE k \in P
  <2>3. k \in 0..n /\ k + 1 \in 0..n /\ f[k] <= f[k + 1]
    BY DEF Rises
  <2>4. f[k] \in Int /\ f[k + 1] \in Int /\ f[a] \in Int
    BY <2>3 DEF Rises
  <2> QED
    BY <2>2, <2>3, <2>4
<1>3. 0..n \subseteq P
  <2> HIDE DEF P
  <2> QED
    BY <1>1, <1>2, Induction
<1> QED
  BY <1>3

-----------------------------------------------------------------------------
(* Products and quotients.                                                 *)

LEMMA ProductGrows ==
  ASSUME NEW a \in Nat, NEW b \in Nat, NEW d \in Nat, a <= b
  PROVE  a * d <= b * d /\ a * d \in Nat /\ b * d \in Nat
<1>1. PICK c \in Nat : b = a + c
  <2>1. b - a \in Nat /\ b = a + (b - a)
    OBVIOUS
  <2> QED
    BY <2>1
<1>2. b * d = a * d + c * d /\ c * d \in Nat /\ a * d \in Nat
  BY <1>1
<1> QED
  BY <1>2

LEMMA Division ==
  ASSUME NEW n \in Nat, NEW k \in Nat \ {0}
  PROVE  /\ n \div k \in Nat /\ n % k \in 0..k - 1
         /\ k * (n \div k) <= n /\ n < k * (n \div k) + k
         /\ n = k * (n \div k) + (n % k)
  OBVIOUS

\* A quotient is known by the multiple below it.
LEMMA Quotient ==
  ASSUME NEW n \in Nat, NEW k \in Nat \ {0}, NEW q \in Nat,
         k * q <= n, n < k * q + k
  PROVE  n \div k = q
<1> DEFINE d == n \div k
<1>1. d \in Nat /\ k * d <= n /\ n < k * d + k
  BY Division
<1> HIDE DEF d
<1>2. CASE d < q
  <2>1. k * (d + 1) <= k * q
    BY <1>1, <1>2
  <2> QED
    BY <1>1, <2>1
<1>3. CASE q < d
  <2>1. k * (q + 1) <= k * d
    BY <1>1, <1>3
  <2> QED
    BY <1>1, <2>1
<1> QED
  BY <1>1, <1>2, <1>3 DEF d

\* Every number below a * s has one digit below a before one below s.
LEMMA Digits ==
  ASSUME NEW a \in Nat, NEW s \in Nat, NEW i \in 0..a * s - 1
  PROVE  /\ s # 0 /\ i \div s \in 0..a - 1 /\ i % s \in 0..s - 1
         /\ i = (i \div s) * s + (i % s)
<1>1. a * s \in Nat /\ i \in Nat /\ i < a * s
  OBVIOUS
<1>2. s # 0
  BY <1>1
<1>3. PICK q, r : q = i \div s /\ r = i % s
  OBVIOUS
<1>4. q \in Nat /\ r \in 0..s - 1 /\ s * q <= i /\ i = s * q + r
  BY <1>1, <1>2, <1>3, Division
<1>5. q < a
  <2>1. SUFFICES ASSUME a <= q PROVE FALSE
    BY <1>4
  <2>2. a * s <= q * s
    BY <1>4, <2>1, ProductGrows
  <2> QED
    BY <1>1, <1>4, <2>2
<1>6. q \in 0..a - 1 /\ i = q * s + r
  BY <1>4, <1>5
<1> QED
  BY <1>2, <1>3, <1>4, <1>6

\* ... and the number of two digits has these digits.
LEMMA DigitsOf ==
  ASSUME NEW a \in Nat, NEW s \in Nat, NEW q \in 0..a - 1, NEW r \in 0..s - 1
  PROVE  /\ q * s + r \in 0..a * s - 1
         /\ (q * s + r) \div s = q /\ (q * s + r) % s = r
<1>1. q \in Nat /\ r \in Nat /\ r < s /\ q + 1 \in Nat /\ q + 1 <= a /\ s \in Nat \ {0}
  OBVIOUS
<1>2. (q + 1) * s <= a * s /\ a * s \in Nat /\ q * s \in Nat
  BY <1>1, ProductGrows
<1>3. (q + 1) * s = q * s + s /\ s * q = q * s
  BY <1>1
<1>4. PICK p, b, i : p = q * s /\ b = a * s /\ i = q * s + r
  OBVIOUS
<1>5. p \in Nat /\ b \in Nat /\ p + s <= b /\ i = p + r
  BY <1>2, <1>3, <1>4
<1>6. i \in Nat /\ i \in 0..b - 1 /\ p <= i /\ i < p + s
  BY <1>1, <1>5
<1>7. i \div s = q
  BY <1>1, <1>3, <1>4, <1>6, Quotient
<1>8. i = s * (i \div s) + (i % s) /\ i % s \in 0..s - 1
  BY <1>1, <1>6, Division
<1>9. i % s = r
  BY <1>1, <1>3, <1>4, <1>5, <1>7, <1>8
<1> QED
  BY <1>4, <1>6, <1>7, <1>9

-----------------------------------------------------------------------------
(* Sums of lengths: start[k] is the sum of the lengths in front of k.      *)

Sums(n, len, start) ==
  /\ len \in [1..n -> Nat]
  /\ start[1] = 0
  /\ \A k \in 1..n : start[k + 1] = start[k] + len[k]

LEMMA SumsAreNat ==
  ASSUME NEW n \in Nat, NEW len, NEW start, Sums(n, len, start)
  PROVE  \A k \in 1..n + 1 : start[k] \in Nat
<1> DEFINE P == {k \in 0..n : start[k + 1] \in Nat}
<1>1. 0 \in P
  BY DEF Sums
<1>2. \A k \in 0..n - 1 : k \in P => k + 1 \in P
  <2>1. TAKE k \in 0..n - 1
  <2>2. k + 1 \in 1..n
    BY <2>1
  <2>3. start[(k + 1) + 1] = start[k + 1] + len[k + 1] /\ len[k + 1] \in Nat
    BY <2>2 DEF Sums
  <2> QED
    BY <2>2, <2>3
<1>3. 0..n \subseteq P
  <2> HIDE DEF P
  <2> QED
    BY <1>1, <1>2, Induction
<1>4. TAKE k \in 1..n + 1
<1>5. k - 1 \in 0..n /\ (k - 1) + 1 = k
  BY <1>4
<1> QED
  BY <1>3, <1>5

\* The parts follow one another.
LEMMA SumsGrow ==
  ASSUME NEW n \in Nat, NEW len, NEW start, Sums(n, len, start),
         NEW i \in 1..n, NEW k \in 1..n + 1, i < k
  PROVE  start[i] + len[i] <= start[k]
<1> DEFINE P == {j \in 0..n : j >= i => start[i] + len[i] <= start[j + 1]}
<1>1. \A j \in 1..n + 1 : start[j] \in Nat
  BY SumsAreNat
<1>2. 0 \in P
  OBVIOUS
<1>3. \A j \in 0..n - 1 : j \in P => j + 1 \in P
  <2>1. TAKE j \in 0..n - 1
  <2>2. HAVE j \in P
  <2>3. j + 1 \in 1..n /\ (j + 1) + 1 \in 1..n + 1
    BY <2>1
  <2>4. start[(j + 1) + 1] = start[j + 1] + len[j + 1] /\ len[j + 1] \in Nat
    BY <2>3 DEF Sums
  <2>5. start[i] \in Nat /\ len[i] \in Nat /\ start[j + 1] \in Nat
    BY <1>1, <2>3 DEF Sums
  <2>6. CASE j + 1 = i
    <3>1. start[i] + len[i] <= start[(j + 1) + 1]
      BY <2>4, <2>5, <2>6
    <3> QED
      BY <2>3, <3>1
  <2>7. CASE j >= i
    <3>1. start[i] + len[i] <= start[j + 1]
      BY <2>2, <2>7
    <3> QED
      BY <2>3, <2>4, <2>5, <3>1
  <2> QED
    BY <2>3, <2>6, <2>7
<1>4. 0..n \subseteq P
  <2> HIDE DEF P
  <2> QED
    BY <1>2, <1>3, Induction
<1>5. k - 1 \in 0..n /\ (k - 1) + 1 = k /\ k - 1 >= i
  OBVIOUS
<1> QED
  BY <1>4, <1>5

\* Every place belongs to a part.
LEMMA SumsCover ==
  ASSUME NEW n \in Nat, NEW len, NEW start, Sums(n, len, start),
         NEW t \in 1..start[n + 1]
  PROVE  \E k \in 1..n : \E j \in 1..len[k] : t = start[k] + j
<1> DEFINE P == {m \in 0..n : t <= start[m + 1] =>
                                \E k \in 1..n : \E j \in 1..len[k] : t = start[k] + j}
<1>1. \A j \in 1..n + 1 : start[j] \in Nat
  BY SumsAreNat
<1>2. t \in Nat \ {0}
  <2>1. start[n + 1] \in Nat
    BY <1>1
  <2> QED
    BY <2>1
<1>3. 0 \in P
  BY <1>2 DEF Sums
<1>4. \A m \in 0..n - 1 : m \in P => m + 1 \in P
  <2>1. TAKE m \in 0..n - 1
  <2>2. HAVE m \in P
  <2>3. m + 1 \in 1..n
    BY <2>1
  <2>4. start[(m + 1) + 1] = start[m + 1] + len[m + 1] /\ len[m + 1] \in Nat
        /\ start[m + 1] \in Nat
    BY <1>1, <2>3 DEF Sums
  <2>5. CASE t <= start[m + 1]
    BY <2>2, <2>3, <2>5
  <2>6. CASE start[m + 1] < t /\ t <= start[(m + 1) + 1]
    <3> DEFINE j == t - start[m + 1]
    <3>1. j \in 1..len[m + 1] /\ t = start[m + 1] + j
      BY <1>2, <2>4, <2>6
    <3> QED
      BY <2>3, <3>1
  <2>7. CASE start[(m + 1) + 1] < t
    BY <1>2, <2>3, <2>4, <2>7
  <2> QED
    BY <1>2, <2>4, <2>5, <2>6, <2>7
<1>5. 0..n \subseteq P
  <2> HIDE DEF P
  <2> QED
    BY <1>3, <1>4, Induction
<1> QED
  BY <1>5

\* ... and to one part only.
LEMMA SumsSplit ==
  ASSUME NEW n \in Nat, NEW len, NEW start, Sums(n, len, start),
         NEW i \in 1..n, NEW k \in 1..n, NEW a \in 1..len[i], NEW b \in 1..len[k],
         start[i] + a = start[k] + b
  PROVE  i = k /\ a = b
<1>1. start[i] \in Nat /\ start[k] \in Nat /\ len[i] \in Nat /\ len[k] \in Nat
  <2>1. \A j \in 1..n + 1 : start[j] \in Nat
    BY SumsAreNat
  <2> QED
    BY <2>1 DEF Sums
<1>2. i < k => start[i] + len[i] <= start[k]
  BY SumsGrow
<1>3. k < i => start[k] + len[k] <= start[i]
  BY SumsGrow
<1> QED
  BY <1>1, <1>2, <1>3

Iterates(f, c, st, m) == \A i \in 1..m : f[i] = IF i = 1 THEN c ELSE st[i][f[i - 1]]

\* A function given by its first value and by steps exists.
LEMMA Recursion ==
  ASSUME NEW S, NEW c \in S, NEW n \in Nat, NEW st \in [1..n -> [S -> S]]
  PROVE  \E f \in [1..n -> S] : Iterates(f, c, st, n)
<1> DEFINE P == {m \in 0..n : \E f \in [1..m -> S] : Iterates(f, c, st, m)}
<1>1. 0 \in P
  <2>1. PICK f : f = [i \in 1..0 |-> c]
    OBVIOUS
  <2>2. f \in [1..0 -> S] /\ Iterates(f, c, st, 0)
    BY <2>1 DEF Iterates
  <2>3. \E h \in [1..0 -> S] : Iterates(h, c, st, 0)
    BY <2>2, Zenon
  <2>4. 0 \in 0..n
    OBVIOUS
  <2> QED
    BY <2>3, <2>4, Zenon
<1>2. \A m \in 0..n - 1 : m \in P => m + 1 \in P
  <2>1. TAKE m \in 0..n - 1
  <2>2. HAVE m \in P
  <2>3. PICK f \in [1..m -> S] : Iterates(f, c, st, m)
    BY <2>2
  <2> DEFINE last == IF m = 0 THEN c ELSE st[m + 1][f[m]]
             g == [i \in 1..m + 1 |-> IF i = m + 1 THEN last ELSE f[i]]
  <2>4. last \in S
    <3>1. CASE m # 0
      <4>1. m \in 1..m /\ m + 1 \in 1..n
        BY <3>1
      <4>2. f[m] \in S /\ st[m + 1] \in [S -> S]
        BY <4>1
      <4> QED
        BY <3>1, <4>2
    <3> QED
      BY <3>1
  <2>5. g \in [1..m + 1 -> S]
    <3> HIDE DEF last
    <3> QED
      BY <2>4
  <2>6. ASSUME NEW i \in 1..m + 1
        PROVE  g[i] = IF i = 1 THEN c ELSE st[i][g[i - 1]]
    <3>1. CASE i = m + 1
      BY <3>1
    <3>2. CASE i # m + 1
      <4>1. i \in 1..m /\ g[i] = f[i] /\ (i # 1 => g[i - 1] = f[i - 1])
        BY <3>2
      <4> HIDE DEF g
      <4> QED
        BY <2>3, <4>1 DEF Iterates
    <3> QED
      BY <3>1, <3>2
  <2>7. Iterates(g, c, st, m + 1)
    <3> HIDE DEF g
    <3> QED
      BY <2>6 DEF Iterates
  <2> HIDE DEF g
  <2> QED
    BY <2>1, <2>5, <2>7
<1>3. 0..n \subseteq P
  <2> HIDE DEF P
  <2> QED
    BY <1>1, <1>2, Induction
<1> QED
  BY <1>3

\* The same from any first index.
Follows(f, c, st, lo, hi) ==
  f = [i \in lo..hi |-> IF i = lo THEN c ELSE st[i][f[i - 1]]]

LEMMA RecursionFrom ==
  ASSUME NEW S, NEW c \in S, NEW lo \in Int, NEW hi \in Int, lo <= hi,
         NEW st \in [lo + 1..hi -> [S -> S]]
  PROVE  \E f \in [lo..hi -> S] : Follows(f, c, st, lo, hi)
<1> DEFINE n == hi - lo + 1
           sh == [i \in 1..n |-> IF i = 1 THEN [x \in S |-> x] ELSE st[lo + i - 1]]
<1>1. n \in Nat
  OBVIOUS
<1>2. sh \in [1..n -> [S -> S]]
  <2>1. \A i \in 1..n : i # 1 => lo + i - 1 \in lo + 1..hi
    OBVIOUS
  <2> QED
    BY <2>1
<1>3. PICK g \in [1..n -> S] : Iterates(g, c, sh, n)
  <2> HIDE DEF n, sh
  <2> QED
    BY <1>1, <1>2, Recursion
<1> DEFINE f == [i \in lo..hi |-> g[i - lo + 1]]
<1>4. \A i \in lo..hi : i - lo + 1 \in 1..n
  OBVIOUS
<1>5. f \in [lo..hi -> S]
  BY <1>4
<1>6. ASSUME NEW i \in lo..hi
      PROVE  f[i] = IF i = lo THEN c ELSE st[i][f[i - 1]]
  <2>1. g[i - lo + 1] = IF i - lo + 1 = 1 THEN c ELSE sh[i - lo + 1][g[(i - lo + 1) - 1]]
    <3> HIDE DEF sh, n
    <3> QED
      BY <1>3, <1>4, <1>6 DEF Iterates
  <2>2. i # lo => sh[i - lo + 1] = st[i] /\ f[i - 1] = g[(i - lo + 1) - 1]
    <3>1. SUFFICES ASSUME i # lo
                   PROVE  sh[i - lo + 1] = st[i] /\ f[i - 1] = g[(i - lo + 1) - 1]
      OBVIOUS
    <3>2. /\ i - lo + 1 \in 1..n /\ i - lo + 1 # 1 /\ lo + (i - lo + 1) - 1 = i
          /\ i - 1 \in lo..hi /\ (i - 1) - lo + 1 = (i - lo + 1) - 1
      BY <1>4, <1>6, <3>1
    <3> HIDE DEF n
    <3> QED
      BY <3>2
  <2>3. i - lo + 1 = 1 <=> i = lo
    BY <1>6
  <2>4. f[i] = g[i - lo + 1]
    BY <1>6
  <2> HIDE DEF f, sh, n
  <2> QED
    BY <2>1, <2>2, <2>3, <2>4
<1>7. f = [i \in lo..hi |-> f[i]]
  OBVIOUS
<1> HIDE DEF f
<1>8. f = [i \in lo..hi |-> IF i = lo THEN c ELSE st[i][f[i - 1]]]
  BY <1>6, <1>7
<1> QED
  BY <1>5, <1>8, Zenon DEF Follows

-----------------------------------------------------------------------------
(* FlattenSeq.                                                             *)

Concat(S, c, a, b) ==
  /\ c \in Seq(S) /\ Len(c) = Len(a) + Len(b)
  /\ \A i \in 1..Len(a) : c[i] = a[i]
  /\ \A j \in 1..Len(b) : c[Len(a) + j] = b[j]

LEMMA ConcatParts ==
  ASSUME NEW S, NEW a \in Seq(S), NEW b \in Seq(S)
  PROVE  Concat(S, a \o b, a, b)
<1>1. Len(a) \in Nat /\ Len(b) \in Nat
  BY LenProperties
<1> QED
  BY <1>1, ConcatProperties DEF Concat

\* h holds each of the first m parts at its start.
HoldsParts(h, seqs, len, start, m) ==
  \A k \in 1..m : \A j \in 1..len[k] : h[start[k] + j] = seqs[k][j]

\* h holds the first p parts as g does, and the next part behind them.
LEMMA PartsJoined ==
  ASSUME NEW n \in Nat, NEW len, NEW start, Sums(n, len, start),
         NEW g, NEW h, NEW seqs, NEW p \in 1..n, NEW q \in 1..n, q = p + 1,
         HoldsParts(g, seqs, len, start, p),
         \A i \in 1..start[q] : h[i] = g[i],
         \A j \in 1..len[q] : h[start[q] + j] = seqs[q][j]
  PROVE  HoldsParts(h, seqs, len, start, q)
<1> SUFFICES ASSUME NEW k \in 1..q, NEW j \in 1..len[k]
             PROVE  h[start[k] + j] = seqs[k][j]
  BY DEF HoldsParts
<1>1. start[k] \in Nat /\ start[q] \in Nat /\ len[k] \in Nat
  <2>1. \A i \in 1..n + 1 : start[i] \in Nat
    BY SumsAreNat
  <2>2. k \in 1..n
    OBVIOUS
  <2>3. len[k] \in Nat
    BY <2>2 DEF Sums
  <2> QED
    BY <2>1, <2>2, <2>3
<1>2. CASE k # q
  <2>1. k \in 1..p /\ k < q /\ k \in 1..n /\ q \in 1..n + 1
    BY <1>2
  <2>2. start[k] + len[k] <= start[q]
    BY <2>1, SumsGrow
  <2>3. start[k] + j \in 1..start[q]
    BY <1>1, <2>2
  <2>4. g[start[k] + j] = seqs[k][j]
    BY <2>1 DEF HoldsParts
  <2> QED
    BY <2>3, <2>4
<1> QED
  BY <1>2

\* The function FlattenSeq chooses exists.
FlattenOf(f, seqs, n) ==
  f = [i \in 1..n |-> IF i = 1 THEN seqs[i] ELSE f[i - 1] \o seqs[i]]

LEMMA FlattenFunction ==
  ASSUME NEW seqs, NEW n \in Nat
  PROVE  \E f : FlattenOf(f, seqs, n)
<1> DEFINE P == {m \in 0..n : \E f : FlattenOf(f, seqs, m)}
<1>1. 0 \in P
  <2>1. FlattenOf([i \in 1..0 |-> 0], seqs, 0)
    BY DEF FlattenOf
  <2> QED
    BY <2>1
<1>2. \A m \in 0..n - 1 : m \in P => m + 1 \in P
  <2>1. TAKE m \in 0..n - 1
  <2>2. HAVE m \in P
  <2>3. PICK f : FlattenOf(f, seqs, m)
    BY <2>2
  <2>4. PICK last : last = IF m = 0 THEN seqs[1] ELSE f[m] \o seqs[m + 1]
    OBVIOUS
  <2> DEFINE g == [i \in 1..m + 1 |-> IF i = m + 1 THEN last ELSE f[i]]
  <2>5. ASSUME NEW i \in 1..m + 1
        PROVE  g[i] = IF i = 1 THEN seqs[i] ELSE g[i - 1] \o seqs[i]
    <3>1. CASE i = m + 1
      BY <2>4, <3>1
    <3>2. CASE i # m + 1
      <4>1. i \in 1..m /\ g[i] = f[i] /\ (i # 1 => g[i - 1] = f[i - 1])
        BY <3>2
      <4>2. f[i] = IF i = 1 THEN seqs[i] ELSE f[i - 1] \o seqs[i]
        BY <2>3, <4>1 DEF FlattenOf
      <4> QED
        BY <4>1, <4>2
    <3> QED
      BY <3>1, <3>2
  <2>6. FlattenOf(g, seqs, m + 1)
    <3>1. g = [i \in 1..m + 1 |-> g[i]]
      OBVIOUS
    <3> HIDE DEF g
    <3> QED
      BY <2>5, <3>1 DEF FlattenOf
  <2> QED
    BY <2>1, <2>6
<1>3. 0..n \subseteq P
  <2> HIDE DEF P
  <2> QED
    BY <1>1, <1>2, Induction
<1> QED
  BY <1>3

\* h is the first m parts, one after the other.
IsJoin(S, h, seqs, len, start, m) ==
  /\ h \in Seq(S) /\ Len(h) = start[m + 1]
  /\ HoldsParts(h, seqs, len, start, m)

HasLengths(seqs, len, n) == \A k \in 1..n : Len(seqs[k]) = len[k]

LEMMA JoinOne ==
  ASSUME NEW S, NEW n \in Nat, NEW len, NEW start, Sums(n, len, start),
         NEW seqs \in [1..n -> Seq(S)], HasLengths(seqs, len, n),
         NEW f, FlattenOf(f, seqs, n),
         NEW p \in 1..n, NEW q \in 1..n, q = p + 1, IsJoin(S, f[p], seqs, len, start, p)
  PROVE  IsJoin(S, f[q], seqs, len, start, q)
<1>1. f[q] = f[p] \o seqs[q]
  <2>1. q # 1 /\ q - 1 = p
    OBVIOUS
  <2>2. f[q] = IF q = 1 THEN seqs[q] ELSE f[q - 1] \o seqs[q]
    BY DEF FlattenOf
  <2> QED
    BY <2>1, <2>2
<1>2. start[q + 1] = start[q] + len[q]
  BY DEF Sums
<1>3. f[p] \in Seq(S) /\ Len(f[p]) = start[q]
  BY DEF IsJoin
<1>4. seqs[q] \in Seq(S) /\ Len(seqs[q]) = len[q]
  BY DEF HasLengths
<1>5. PICK g, h, s : g = f[p] /\ h = f[q] /\ s = seqs[q]
  OBVIOUS
<1>6. h = g \o s /\ g \in Seq(S) /\ s \in Seq(S) /\ Len(g) = start[q] /\ Len(s) = len[q]
  BY <1>1, <1>3, <1>4, <1>5
<1>7. /\ h \in Seq(S) /\ Len(h) = start[q] + len[q]
      /\ \A i \in 1..start[q] : h[i] = g[i]
      /\ \A j \in 1..len[q] : h[start[q] + j] = s[j]
  <2>1. Concat(S, h, g, s)
    BY <1>6, ConcatParts, Zenon
  <2> QED
    BY <1>6, <2>1 DEF Concat
<1>8. HoldsParts(h, seqs, len, start, q)
  <2>1. HoldsParts(g, seqs, len, start, p)
    BY <1>5 DEF IsJoin
  <2>2. \A j \in 1..len[q] : h[start[q] + j] = seqs[q][j]
    BY <1>5, <1>7
  <2>3. \A i \in 1..start[q] : h[i] = g[i]
    BY <1>7
  <2> QED
    BY <2>1, <2>2, <2>3, PartsJoined
<1> QED
  BY <1>2, <1>5, <1>7, <1>8, Zenon DEF IsJoin

\* The parts stand one after the other, each at the sum of the lengths in
\* front of it.
LEMMA FlattenParts ==
  ASSUME NEW S, NEW n \in Nat, NEW seqs \in [1..n -> Seq(S)], NEW len, NEW start,
         Sums(n, len, start), HasLengths(seqs, len, n)
  PROVE  IsJoin(S, FlattenSeq(seqs), seqs, len, start, n)
<1>1. Len(seqs) = n
  OBVIOUS
<1> DEFINE F == CHOOSE f : f = [i \in 1..Len(seqs) |->
                                  IF i = 1 THEN seqs[i] ELSE f[i - 1] \o seqs[i]]
<1>2. FlattenSeq(seqs) = IF Len(seqs) = 0 THEN seqs ELSE F[Len(seqs)]
  BY DEF FlattenSeq
<1>3. FlattenOf(F, seqs, n)
  <2>1. \E f : FlattenOf(f, seqs, n)
    BY FlattenFunction
  <2> QED
    BY <1>1, <2>1, Zenon DEF FlattenOf
<1> HIDE DEF F
<1>4. CASE n = 0
  <2>1. seqs = << >>
    BY <1>4
  <2> QED
    BY <1>1, <1>2, <1>4, <2>1 DEF Sums, HoldsParts, IsJoin
<1>5. CASE n # 0
  <2> DEFINE P == {m \in 0..n - 1 : IsJoin(S, F[m + 1], seqs, len, start, m + 1)}
  <2>1. 0 \in P
    <3>1. F[1] = seqs[1] /\ seqs[1] \in Seq(S) /\ Len(seqs[1]) = len[1]
      BY <1>3, <1>5 DEF FlattenOf, HasLengths
    <3>2. start[1] = 0 /\ start[1 + 1] = len[1] /\ len[1] \in Nat
      BY <1>5 DEF Sums
    <3>3. IsJoin(S, F[1], seqs, len, start, 1)
      BY <3>1, <3>2 DEF IsJoin, HoldsParts
    <3> QED
      BY <1>5, <3>3
  <2>2. \A m \in 0..(n - 1) - 1 : m \in P => m + 1 \in P
    <3>1. TAKE m \in 0..(n - 1) - 1
    <3>2. HAVE m \in P
    <3>3. m + 1 \in 1..n /\ (m + 1) + 1 \in 1..n
      BY <3>1
    <3>4. IsJoin(S, F[(m + 1) + 1], seqs, len, start, (m + 1) + 1)
      BY <1>3, <3>2, <3>3, JoinOne
    <3> QED
      BY <3>3, <3>4
  <2>3. n - 1 \in Nat
    BY <1>5
  <2>4. 0..n - 1 \subseteq P
    <3> HIDE DEF P
    <3> QED
      BY <2>1, <2>2, <2>3, Induction
  <2>5. IsJoin(S, F[n], seqs, len, start, n)
    <3>1. n - 1 \in 0..n - 1 /\ (n - 1) + 1 = n
      BY <1>5
    <3> QED
      BY <2>4, <3>1
  <2> QED
    BY <1>1, <1>2, <1>5, <2>5 DEF IsJoin
<1> QED
  BY <1>4, <1>5

-----------------------------------------------------------------------------
(* Arithmetic modulo p.                                                    *)

Mul(p, a, b) == (a * b) % p

\* No number between 1 and p divides p.
Prime(p) == p \in Nat /\ p >= 2 /\ \A d \in 2..p - 1 : p % d # 0

\* Multiples of p vanish modulo p.
LEMMA ShiftMod ==
  ASSUME NEW p \in Nat \ {0}, NEW k \in Nat, NEW x \in Nat
  PROVE  (p * k + x) % p = x % p
<1>1. PICK q, r : q = x \div p /\ r = x % p
  OBVIOUS
<1>2. q \in Nat /\ r \in 0..p - 1 /\ x = p * q + r
  BY <1>1, Division
<1>3. PICK a \in Nat : a = k + q
  BY <1>2
<1>4. (a * p + r) % p = r
  <2>1. a \in 0..(a + 1) - 1 /\ a + 1 \in Nat /\ p \in Nat
    OBVIOUS
  <2> QED
    BY <1>2, <2>1, DigitsOf
<1>5. a * p = p * k + p * q
  BY <1>2, <1>3
<1>6. p * k + x = a * p + r
  <2>1. PICK u, v \in Nat : u = p * k /\ v = p * q
    BY <1>2
  <2> QED
    BY <1>2, <1>5, <2>1
<1> QED
  BY <1>1, <1>4, <1>6

\* A factor may be reduced first.
LEMMA ModProduct ==
  ASSUME NEW p \in Nat \ {0}, NEW a \in Nat, NEW b \in Nat
  PROVE  (a * b) % p = ((a % p) * b) % p
<1>1. PICK q, r : q = a \div p /\ r = a % p
  OBVIOUS
<1>2. q \in Nat /\ r \in 0..p - 1 /\ a = p * q + r
  BY <1>1, Division
<1>3. a * b = p * (q * b) + r * b /\ q * b \in Nat /\ r * b \in Nat
  BY <1>2
<1>4. PICK k, x \in Nat : k = q * b /\ x = r * b
  BY <1>3
<1>5. (p * k + x) % p = x % p
  BY ShiftMod
<1> QED
  BY <1>1, <1>3, <1>4, <1>5

\* Multiplication modulo p is commutative and associative, with unit 1.
LEMMA MulLaws ==
  ASSUME NEW p \in Nat \ {0}, NEW a \in Nat, NEW b \in Nat, NEW c \in Nat
  PROVE  /\ Mul(p, a, b) \in 0..p - 1 /\ Mul(p, a, b) \in Nat
         /\ Mul(p, a, b) = Mul(p, b, a)
         /\ Mul(p, Mul(p, a, b), c) = Mul(p, a, Mul(p, b, c))
         /\ Mul(p, 1, a) = a % p /\ (a < p => Mul(p, 1, a) = a)
         /\ Mul(p, a, b % p) = Mul(p, a, b)
<1>1. a * b \in Nat /\ b * c \in Nat /\ a * b = b * a
  OBVIOUS
<1>2. Mul(p, a, b) \in 0..p - 1 /\ Mul(p, b, c) \in 0..p - 1 /\ b % p \in 0..p - 1
  BY <1>1, Division DEF Mul
<1>3. Mul(p, a, b) = Mul(p, b, a)
  BY <1>1 DEF Mul
<1>4. PICK u, v \in Nat : u = a * b /\ v = b * c
  BY <1>1
<1>5. (u * c) % p = ((u % p) * c) % p /\ (v * a) % p = ((v % p) * a) % p
  BY ModProduct
<1>6. u * c = v * a
  BY <1>4
<1>7. Mul(p, Mul(p, a, b), c) = Mul(p, Mul(p, b, c), a)
  BY <1>4, <1>5, <1>6 DEF Mul
<1>8. PICK w \in Nat : w = Mul(p, b, c)
  BY <1>2
<1>9. Mul(p, w, a) = Mul(p, a, w)
  <2>1. w * a = a * w
    OBVIOUS
  <2> QED
    BY <2>1 DEF Mul
<1>10. Mul(p, 1, a) = a % p
  <2>1. 1 * a = a
    OBVIOUS
  <2> QED
    BY <2>1 DEF Mul
<1>11. a < p => a % p = a
  OBVIOUS
<1>12. Mul(p, a, b % p) = Mul(p, a, b)
  <2>1. PICK r \in Nat : r = b % p
    BY <1>2
  <2>2. (b * a) % p = (r * a) % p
    BY <2>1, ModProduct
  <2>3. b * a = a * b /\ r * a = a * r
    OBVIOUS
  <2> QED
    BY <2>1, <2>2, <2>3 DEF Mul
<1> QED
  BY <1>2, <1>3, <1>7, <1>8, <1>9, <1>10, <1>11, <1>12

LEMMA MulOne ==
  ASSUME NEW p \in Nat \ {0}, NEW x \in 0..p - 1
  PROVE  Mul(p, x, 1) = x /\ Mul(p, 1, x) = x
<1>1. x * 1 = x /\ 1 * x = x /\ x % p = x
  OBVIOUS
<1> QED
  BY <1>1 DEF Mul

LEMMA MulAssociates ==
  ASSUME NEW p \in Nat \ {0}, NEW a \in Nat, NEW b \in Nat, NEW c \in Nat
  PROVE  Mul(p, Mul(p, a, b), c) = Mul(p, a, Mul(p, b, c))
BY MulLaws

LEMMA MulCommutes ==
  ASSUME NEW p \in Nat \ {0}, NEW a \in Nat, NEW b \in Nat
  PROVE  Mul(p, a, b) = Mul(p, b, a) /\ Mul(p, a, b) \in 0..p - 1 /\ Mul(p, a, b) \in Nat
BY MulLaws

LEMMA MulSwaps ==
  ASSUME NEW p \in Nat \ {0}, NEW a \in Nat, NEW b \in Nat, NEW c \in Nat
  PROVE  Mul(p, Mul(p, a, b), c) = Mul(p, Mul(p, a, c), b)
<1>1. Mul(p, Mul(p, a, b), c) = Mul(p, a, Mul(p, b, c))
  BY MulAssociates
<1>2. Mul(p, Mul(p, a, c), b) = Mul(p, a, Mul(p, c, b))
  BY MulAssociates
<1>3. Mul(p, b, c) = Mul(p, c, b)
  BY MulCommutes
<1> QED
  BY <1>1, <1>2, <1>3

\* Euclid: a prime divides no product of numbers it does not divide.
LEMMA NoZeroProduct ==
  ASSUME NEW p, Prime(p), NEW a \in 1..p - 1, NEW b \in 1..p - 1
  PROVE  Mul(p, a, b) # 0
<1> DEFINE D == {x \in 1..p - 1 : Mul(p, a, x) = 0}
<1>1. p \in Nat \ {0} /\ p >= 2 /\ a \in Nat /\ b \in Nat
  BY DEF Prime
<1>2. SUFFICES ASSUME D # {} PROVE FALSE
  OBVIOUS
<1>3. PICK x \in D : \A y \in D : x <= y
  <2>1. 1 \in Int /\ p - 1 \in Int
    BY <1>1
  <2>2. IsFiniteSet(1..p - 1)
    BY <2>1, FS_Interval, Zenon
  <2>3. IsFiniteSet(D)
    BY <2>2, FS_Subset
  <2>4. D \in SUBSET Int
    BY <1>1
  <2> HIDE DEF D
  <2> QED
    BY <1>2, <2>3, <2>4, FiniteMinimum
<1>4. x \in Nat \ {0} /\ x < p /\ Mul(p, a, x) = 0
  BY <1>1, <1>3
<1>5. x # 1
  <2>1. Mul(p, a, 1) = a
    BY <1>1, MulLaws
  <2> QED
    BY <1>4, <2>1
<1>6. PICK q, r : q = p \div x /\ r = p % x
  OBVIOUS
<1>7. q \in Nat /\ r \in 0..x - 1 /\ p = x * q + r
  BY <1>1, <1>4, <1>6, Division
<1>8. r # 0
  BY <1>1, <1>4, <1>5, <1>6 DEF Prime
<1>9. PICK m \in Nat : a * x = p * m
  <2>1. a * x \in Nat
    BY <1>1, <1>4
  <2>2. PICK z \in Nat : z = a * x
    BY <2>1
  <2>3. z = p * (z \div p) + (z % p) /\ z \div p \in Nat
    BY <1>1, Division
  <2>4. z % p = 0
    BY <1>4, <2>2 DEF Mul
  <2>5. PICK m \in Nat : m = z \div p
    BY <2>3
  <2>6. p * m \in Nat
    BY <1>1
  <2>7. a * x = p * m
    BY <2>2, <2>3, <2>4, <2>5, <2>6
  <2> QED
    BY <2>7
<1>10. p * a = p * (m * q) + a * r
  <2>1. a * p = a * (x * q) + a * r
    BY <1>1, <1>4, <1>7
  <2>2. a * (x * q) = (a * x) * q /\ (p * m) * q = p * (m * q) /\ a * p = p * a
    BY <1>1, <1>4, <1>7
  <2> QED
    BY <1>9, <2>1, <2>2
<1>11. (p * a) % p = 0
  <2>1. (p * a + 0) % p = 0 % p /\ 0 % p = 0 /\ p * a + 0 = p * a
    BY <1>1, ShiftMod
  <2> QED
    BY <2>1
<1>12. (a * r) % p = 0
  <2>1. PICK k, z \in Nat : k = m * q /\ z = a * r
    BY <1>1, <1>7
  <2>2. (p * k + z) % p = z % p
    BY <1>1, ShiftMod
  <2> QED
    BY <1>10, <1>11, <2>1, <2>2
<1>13. r \in D
  BY <1>1, <1>4, <1>7, <1>8, <1>12 DEF Mul
<1> QED
  BY <1>3, <1>4, <1>7, <1>13

\* A factor that is not a multiple of the prime can be cancelled.
LEMMA Cancel ==
  ASSUME NEW p, Prime(p), NEW a \in 1..p - 1, NEW x \in 0..p - 1, NEW y \in 0..p - 1,
         Mul(p, a, x) = Mul(p, a, y)
  PROVE  x = y
<1>1. p \in Nat \ {0} /\ p >= 2 /\ a \in Nat
  BY DEF Prime
<1>2. ASSUME NEW u \in 0..p - 1, NEW v \in 0..p - 1, Mul(p, a, u) = Mul(p, a, v), u < v
      PROVE  FALSE
  <2>1. PICK d \in 1..p - 1 : v = u + d
    <3>1. v - u \in 1..p - 1 /\ v = u + (v - u)
      BY <1>1, <1>2
    <3> QED
      BY <3>1
  <2>2. PICK z, e \in Nat : z = a * u /\ e = a * d
    BY <1>1, <2>1
  <2>3. a * v = z + e
    BY <1>1, <2>1, <2>2
  <2>4. PICK m, r, n : m = z \div p /\ r = z % p /\ n = (z + e) \div p
    OBVIOUS
  <2>5. /\ m \in Nat /\ r \in 0..p - 1 /\ z = p * m + r
        /\ n \in Nat /\ z + e = p * n + r
    <3>1. (z + e) % p = r
      BY <1>2, <2>2, <2>3, <2>4 DEF Mul
    <3>2. m \in Nat /\ r \in 0..p - 1 /\ z = p * m + r
      BY <1>1, <2>4, Division
    <3>3. PICK g \in Nat : g = z + e
      OBVIOUS
    <3>4. n \in Nat /\ g = p * n + r
      BY <1>1, <2>4, <3>1, <3>3, Division
    <3> QED
      BY <3>2, <3>3, <3>4
  <2>6. m <= n
    <3>1. SUFFICES ASSUME n < m PROVE FALSE
      BY <2>5
    <3>2. p * (n + 1) <= p * m
      <4>1. (n + 1) * p <= m * p
        BY <1>1, <2>5, <3>1, ProductGrows
      <4>2. (n + 1) * p = p * (n + 1) /\ m * p = p * m
        BY <1>1, <2>5
      <4> QED
        BY <4>1, <4>2
    <3>3. p * (n + 1) = p * n + p
      BY <1>1, <2>5
    <3>4. PICK s, t \in Nat : s = p * n /\ t = p * m
      BY <1>1, <2>5
    <3> QED
      BY <1>1, <2>5, <3>2, <3>3, <3>4
  <2>7. PICK k \in Nat : n = m + k
    <3>1. n - m \in Nat /\ n = m + (n - m)
      BY <2>5, <2>6
    <3> QED
      BY <3>1
  <2>8. e = p * k
    <3>1. p * n = p * m + p * k
      BY <1>1, <2>5, <2>7
    <3>2. PICK s, t, w \in Nat : s = p * n /\ t = p * m /\ w = p * k
      BY <1>1, <2>5
    <3> QED
      BY <2>5, <3>1, <3>2
  <2>9. e % p = 0
    <3>1. (p * k + 0) % p = 0 % p /\ 0 % p = 0 /\ p * k + 0 = p * k
      BY <1>1, ShiftMod
    <3> QED
      BY <2>8, <3>1
  <2> QED
    BY <2>1, <2>2, <2>9, NoZeroProduct DEF Mul
<1> QED
  BY <1>1, <1>2

\* Modulo a prime, 1 has no roots but 1 and -1.
LEMMA RootsOfOne ==
  ASSUME NEW p, Prime(p), NEW y \in 0..p - 1, Mul(p, y, y) = 1
  PROVE  y = 1 \/ y = p - 1
<1>1. p \in Nat \ {0} /\ p >= 2
  BY DEF Prime
<1>2. SUFFICES ASSUME y # 1, y # p - 1 PROVE FALSE
  OBVIOUS
<1>3. y # 0
  <2>1. 0 * 0 = 0 /\ 0 % p = 0
    BY <1>1
  <2> QED
    BY <2>1 DEF Mul
<1>4. y - 1 \in 1..p - 1 /\ y + 1 \in 1..p - 1 /\ y \in Nat
  BY <1>1, <1>2, <1>3
<1>5. PICK s \in Nat : s = y * y
  BY <1>4
<1>6. PICK m \in Nat : s = p * m + 1
  <2>1. s % p = 1
    BY <1>5 DEF Mul
  <2> QED
    BY <1>1, <2>1, Division
<1>7. (y - 1) * (y + 1) = s - 1
  BY <1>4, <1>5
<1>8. (y - 1) * (y + 1) = p * m
  <2>1. PICK t \in Nat : t = p * m
    BY <1>1
  <2> QED
    BY <1>6, <1>7, <2>1
<1>9. (p * m) % p = 0
  <2>1. (p * m + 0) % p = 0 % p /\ 0 % p = 0 /\ p * m + 0 = p * m
    BY <1>1, ShiftMod
  <2> QED
    BY <2>1
<1> QED
  BY <1>4, <1>8, <1>9, NoZeroProduct DEF Mul

-----------------------------------------------------------------------------
(* Powers modulo p.                                                        *)

Powers(f, p, b, n) ==
  /\ f \in [0..n -> 0..p - 1] /\ f[0] = 1
  /\ \A k \in 0..n - 1 : f[k + 1] = Mul(p, f[k], b)

\* The powers of a number are defined by recursion.
LEMMA PowersExist ==
  ASSUME NEW p \in Nat \ {0}, p >= 2, NEW b \in Nat, NEW n \in Nat
  PROVE  \E f : Powers(f, p, b, n)
<1> DEFINE st == [i \in 0 + 1..n |-> [v \in 0..p - 1 |-> Mul(p, v, b)]]
<1>1. \A v \in 0..p - 1 : Mul(p, v, b) \in 0..p - 1
  BY MulLaws
<1>2. st \in [0 + 1..n -> [0..p - 1 -> 0..p - 1]]
  BY <1>1
<1>3. PICK f \in [0..n -> 0..p - 1] : Follows(f, 1, st, 0, n)
  <2>1. 1 \in 0..p - 1 /\ 0 \in Int /\ n \in Int /\ 0 <= n
    OBVIOUS
  <2> HIDE DEF st
  <2> QED
    BY <1>2, <2>1, RecursionFrom
<1>4. f = [k \in 0..n |-> IF k = 0 THEN 1 ELSE st[k][f[k - 1]]]
  BY <1>3, Zenon DEF Follows
<1>5. f[0] = 1
  <2>1. 0 \in 0..n
    OBVIOUS
  <2> QED
    BY <1>4, <2>1
<1>6. ASSUME NEW k \in 0..n - 1
      PROVE  f[k + 1] = Mul(p, f[k], b)
  <2>1. k + 1 \in 0..n /\ k + 1 # 0 /\ (k + 1) - 1 = k /\ k + 1 \in 0 + 1..n /\ k \in 0..n
    OBVIOUS
  <2>2. f[k + 1] = st[k + 1][f[k]]
    BY <1>4, <2>1
  <2>3. f[k] \in 0..p - 1
    BY <1>3, <2>1
  <2> QED
    BY <2>1, <2>2, <2>3
<1>7. Powers(f, p, b, n)
  BY <1>3, <1>5, <1>6 DEF Powers
<1> QED
  BY <1>7

\* Exponents add.
LEMMA PowersAdd ==
  ASSUME NEW p \in Nat \ {0}, p >= 2, NEW b \in Nat, NEW n \in Nat, NEW f, Powers(f, p, b, n),
         NEW i \in Nat, NEW j \in Nat, i + j <= n
  PROVE  f[i + j] = Mul(p, f[i], f[j])
<1> DEFINE P == {k \in 0..j : f[i + k] = Mul(p, f[i], f[k])}
<1>1. \A k \in 0..n : f[k] \in 0..p - 1 /\ f[k] \in Nat
  BY DEF Powers
<1>2. i \in 0..n /\ \A k \in 0..j : k \in 0..n /\ i + k \in 0..n
  OBVIOUS
<1>3. 0 \in P
  <2>1. PICK x \in 0..p - 1 : x = f[i]
    BY <1>1, <1>2
  <2>2. Mul(p, x, 1) = x
    BY <2>1, MulOne
  <2>3. i + 0 = i /\ 0 \in 0..j /\ f[0] = 1
    BY DEF Powers
  <2> QED
    BY <2>1, <2>2, <2>3
<1>4. ASSUME NEW k \in 0..j - 1, k \in P
      PROVE  k + 1 \in P
  <2>1. k \in 0..n - 1 /\ i + k \in 0..n - 1 /\ i + (k + 1) = (i + k) + 1 /\ k + 1 \in 0..j
        /\ k \in 0..n
    OBVIOUS
  <2>2. f[k + 1] = Mul(p, f[k], b) /\ f[i + (k + 1)] = Mul(p, f[i + k], b)
    BY <2>1 DEF Powers
  <2>3. PICK x, y \in Nat : x = f[i] /\ y = f[k]
    BY <1>1, <1>2, <2>1
  <2>4. f[i + k] = Mul(p, x, y)
    BY <1>4, <2>3
  <2>5. Mul(p, Mul(p, x, y), b) = Mul(p, x, Mul(p, y, b))
    BY MulLaws
  <2> QED
    BY <2>1, <2>2, <2>3, <2>4, <2>5
<1>5. j \in 0..j
  OBVIOUS
<1> HIDE DEF P
<1>6. 0..j \subseteq P
  BY <1>3, <1>4, Induction
<1> QED
  BY <1>5, <1>6 DEF P

-----------------------------------------------------------------------------
(* Fermat: a product over a set does not depend on the order.              *)

\* g[k] is the product of the members of S up to k.
Product(g, p, S) ==
  /\ g \in [0..p - 1 -> 0..p - 1] /\ g[0] = 1
  /\ \A k \in 0..p - 2 : g[k + 1] = IF k + 1 \in S THEN Mul(p, g[k], k + 1) ELSE g[k]

ProductOf(p, S) == (CHOOSE g : Product(g, p, S))[p - 1]

\* The product over a range is defined by recursion.
LEMMA ProductExists ==
  ASSUME NEW p \in Nat \ {0}, p >= 2, NEW S
  PROVE  \E g : Product(g, p, S) /\ ProductOf(p, S) = g[p - 1]
<1> DEFINE n == p - 1
           st == [i \in 0 + 1..n |-> [v \in 0..n |-> IF i \in S THEN Mul(p, v, i) ELSE v]]
<1>1. n \in Nat /\ 0 \in Int /\ n \in Int /\ 0 <= n /\ 1 \in 0..n
  OBVIOUS
<1>2. \A i \in 0 + 1..n : \A v \in 0..n : Mul(p, v, i) \in 0..n
  BY MulLaws
<1>3. st \in [0 + 1..n -> [0..n -> 0..n]]
  BY <1>2
<1>4. PICK f \in [0..n -> 0..n] : Follows(f, 1, st, 0, n)
  <2> HIDE DEF st, n
  <2> QED
    BY <1>1, <1>3, RecursionFrom
<1>5. f = [k \in 0..n |-> IF k = 0 THEN 1 ELSE st[k][f[k - 1]]]
  BY <1>4, Zenon DEF Follows
<1>6. f[0] = 1
  <2>1. 0 \in 0..n
    OBVIOUS
  <2> QED
    BY <1>5, <2>1
<1>7. ASSUME NEW k \in 0..p - 2
      PROVE  f[k + 1] = IF k + 1 \in S THEN Mul(p, f[k], k + 1) ELSE f[k]
  <2>1. k + 1 \in 0..n /\ k + 1 # 0 /\ (k + 1) - 1 = k /\ k + 1 \in 0 + 1..n /\ k \in 0..n
    OBVIOUS
  <2>2. f[k + 1] = st[k + 1][f[k]]
    BY <1>5, <2>1
  <2>3. f[k] \in 0..n
    BY <1>4, <2>1
  <2> QED
    BY <2>1, <2>2, <2>3
<1>8. Product(f, p, S)
  BY <1>4, <1>6, <1>7 DEF Product
<1>9. PICK g : g = (CHOOSE h : Product(h, p, S))
  OBVIOUS
<1>10. Product(g, p, S)
  BY <1>8, <1>9, Zenon
<1>11. ProductOf(p, S) = g[p - 1]
  BY <1>9, Zenon DEF ProductOf
<1> QED
  BY <1>10, <1>11

LEMMA ProductTypes ==
  ASSUME NEW p \in Nat \ {0}, p >= 2, NEW S
  PROVE  ProductOf(p, S) \in 0..p - 1
<1>1. PICK g : Product(g, p, S) /\ ProductOf(p, S) = g[p - 1]
  BY ProductExists
<1>2. p - 1 \in 0..p - 1
  OBVIOUS
<1> QED
  BY <1>1, <1>2 DEF Product

LEMMA ProductOfNone ==
  ASSUME NEW p \in Nat \ {0}, p >= 2
  PROVE  ProductOf(p, {}) = 1
<1>1. PICK g : Product(g, p, {}) /\ ProductOf(p, {}) = g[p - 1]
  BY ProductExists
<1> DEFINE P == {k \in 0..p - 1 : g[k] = 1}
<1>2. 0 \in P
  BY <1>1 DEF Product
<1>3. ASSUME NEW k \in 0..(p - 1) - 1, k \in P
      PROVE  k + 1 \in P
  <2>1. k \in 0..p - 2 /\ k + 1 \in 0..p - 1
    OBVIOUS
  <2> QED
    BY <1>1, <1>3, <2>1 DEF Product
<1>4. p - 1 \in 0..p - 1 /\ p - 1 \in Nat
  OBVIOUS
<1> HIDE DEF P
<1>5. 0..p - 1 \subseteq P
  BY <1>2, <1>3, <1>4, Induction
<1> QED
  BY <1>1, <1>4, <1>5 DEF P

\* A product over a set splits off an element.
LEMMA ProductAdd ==
  ASSUME NEW p \in Nat \ {0}, p >= 2, NEW S, NEW x \in 1..p - 1, x \notin S
  PROVE  ProductOf(p, S \cup {x}) = Mul(p, ProductOf(p, S), x)
<1>1. PICK g : Product(g, p, S) /\ ProductOf(p, S) = g[p - 1]
  BY ProductExists
<1>2. PICK h : Product(h, p, S \cup {x}) /\ ProductOf(p, S \cup {x}) = h[p - 1]
  BY ProductExists
<1> DEFINE P == {k \in 0..p - 1 : h[k] = IF k < x THEN g[k] ELSE Mul(p, g[k], x)}
<1>3. 0 \in P
  BY <1>1, <1>2 DEF Product
<1>4. ASSUME NEW k \in 0..(p - 1) - 1, k \in P
      PROVE  k + 1 \in P
  <2>1. k \in 0..p - 2 /\ k + 1 \in 0..p - 1 /\ k + 1 \in Nat /\ x \in Nat
    OBVIOUS
  <2>2. /\ g[k + 1] = IF k + 1 \in S THEN Mul(p, g[k], k + 1) ELSE g[k]
        /\ h[k + 1] = IF k + 1 \in S \cup {x} THEN Mul(p, h[k], k + 1) ELSE h[k]
    BY <1>1, <1>2, <2>1 DEF Product
  <2>3. PICK y \in Nat : y = g[k]
    BY <1>1, <2>1 DEF Product
  <2>4. CASE k + 1 < x
    <3>1. k < x /\ k + 1 # x
      BY <2>1, <2>4
    <3> QED
      BY <1>4, <2>1, <2>2, <2>4, <3>1
  <2>5. CASE k + 1 = x
    <3>1. k < x /\ ~(k + 1 < x)
      BY <2>1, <2>5
    <3>2. g[k + 1] = g[k] /\ h[k + 1] = Mul(p, h[k], x) /\ h[k] = g[k]
      BY <1>4, <2>2, <2>5, <3>1
    <3> QED
      BY <2>1, <3>1, <3>2
  <2>6. CASE x < k + 1
    <3>1. ~(k < x) /\ ~(k + 1 < x) /\ k + 1 # x
      BY <2>1, <2>6
    <3>2. h[k] = Mul(p, y, x)
      BY <1>4, <2>3, <3>1
    <3>3. Mul(p, Mul(p, y, x), k + 1) = Mul(p, Mul(p, y, k + 1), x)
      BY <2>1, MulSwaps
    <3> QED
      BY <2>1, <2>2, <2>3, <3>1, <3>2, <3>3
  <2> QED
    BY <2>1, <2>4, <2>5, <2>6
<1>5. p - 1 \in 0..p - 1 /\ p - 1 \in Nat /\ ~(p - 1 < x)
  OBVIOUS
<1> HIDE DEF P
<1>6. 0..p - 1 \subseteq P
  BY <1>3, <1>4, <1>5, Induction
<1> QED
  BY <1>1, <1>2, <1>5, <1>6 DEF P

\* Fermat's little theorem: the numbers 1..p - 1 times a are the same numbers
\* in another order.
LEMMA Fermat ==
  ASSUME NEW p, Prime(p), NEW b \in Nat, b % p # 0, NEW f, Powers(f, p, b, p - 1)
  PROVE  f[p - 1] = 1
<1> DEFINE n == p - 1
           c == b % p
           T(k) == {Mul(p, c, i) : i \in 1..k}
<1>1. p \in Nat \ {0} /\ p >= 2 /\ n \in Nat
  BY DEF Prime
<1>2. c \in 1..p - 1 /\ c \in Nat
  BY <1>1, Division
<1> HIDE DEF c
<1>3. ASSUME NEW i \in 1..n
      PROVE  Mul(p, c, i) \in 1..n
  <2>1. Mul(p, c, i) \in 0..p - 1
    <3>1. i \in Nat
      BY <1>1
    <3> QED
      BY <1>1, <1>2, <3>1, MulCommutes
  <2>2. Mul(p, c, i) # 0
    BY <1>2, NoZeroProduct
  <2> QED
    BY <1>1, <2>1, <2>2
<1>4. ASSUME NEW i \in 1..n, NEW j \in 1..n, Mul(p, c, i) = Mul(p, c, j)
      PROVE  i = j
  <2>1. i \in 0..p - 1 /\ j \in 0..p - 1
    BY <1>1
  <2> QED
    BY <1>2, <1>4, <2>1, Cancel
<1>5. \A k \in 0..n : f[k] \in 0..p - 1 /\ f[k] \in Nat
  BY <1>1 DEF Powers
<1> DEFINE Good(k) == /\ IsFiniteSet(T(k)) /\ Cardinality(T(k)) = k /\ T(k) \subseteq 1..n
                      /\ ProductOf(p, 1..k) # 0
                      /\ ProductOf(p, T(k)) = Mul(p, f[k], ProductOf(p, 1..k))
           P == {k \in 0..n : Good(k)}
<1>6. 0 \in P
  <2>1. 1..0 = {} /\ T(0) = {} /\ 0 \in 0..n
    BY <1>1
  <2>2. f[0] = 1 /\ ProductOf(p, {}) = 1
    BY <1>1, ProductOfNone DEF Powers
  <2>3. 1 \in 0..p - 1
    BY <1>1
  <2>4. Mul(p, 1, 1) = 1
    BY <1>1, <2>3, MulOne
  <2>5. IsFiniteSet({}) /\ Cardinality({}) = 0
    BY FS_EmptySet
  <2> HIDE DEF T
  <2> QED
    BY <2>1, <2>2, <2>4, <2>5
<1>7. ASSUME NEW k \in 0..n - 1, k \in P
      PROVE  k + 1 \in P
  <2>1. k + 1 \in 1..n /\ k \in 0..n /\ k \in Nat /\ k + 1 \in Nat /\ k + 1 \in 0..n
    BY <1>1
  <2>2. PICK x : x = Mul(p, c, k + 1)
    OBVIOUS
  <2>3. x \in 1..n
    BY <1>3, <2>1, <2>2
  <2>4. 1..k + 1 = (1..k) \cup {k + 1} /\ k + 1 \notin 1..k
    BY <2>1
  <2>5. T(k + 1) = T(k) \cup {x}
    <3>1. T(k + 1) = {Mul(p, c, i) : i \in (1..k) \cup {k + 1}}
      BY <2>4
    <3> QED
      BY <2>2, <3>1
  <2>6. x \notin T(k)
    <3>1. SUFFICES ASSUME NEW i \in 1..k, x = Mul(p, c, i) PROVE FALSE
      OBVIOUS
    <3>2. i \in 1..n
      BY <1>1, <2>1
    <3>3. i = k + 1
      BY <1>4, <2>1, <2>2, <3>1, <3>2
    <3> QED
      BY <2>4, <3>3
  <2>7. PICK y \in 0..p - 1 : y = ProductOf(p, 1..k)
    BY <1>1, ProductTypes
  <2>8. y \in 1..p - 1 /\ y \in Nat
    BY <1>1, <1>7, <2>7
  <2>9. ProductOf(p, 1..k + 1) = Mul(p, y, k + 1)
    <3>1. PICK V, m : V = 1..k /\ m = k + 1
      OBVIOUS
    <3>2. m \in 1..p - 1 /\ m \notin V
      BY <2>1, <2>4, <3>1
    <3>3. ProductOf(p, V \cup {m}) = Mul(p, ProductOf(p, V), m)
      BY <1>1, <3>2, ProductAdd
    <3> QED
      BY <2>4, <2>7, <3>1, <3>3
  <2>10. Mul(p, y, k + 1) # 0
    BY <2>1, <2>8, NoZeroProduct
  <2>11. ProductOf(p, T(k + 1)) = Mul(p, Mul(p, f[k], y), x)
    <3>1. PICK U : U = T(k)
      OBVIOUS
    <3>2. ProductOf(p, U \cup {x}) = Mul(p, ProductOf(p, U), x)
      BY <1>1, <2>3, <2>6, <3>1, ProductAdd
    <3>3. ProductOf(p, U) = Mul(p, f[k], y)
      BY <1>7, <2>7, <3>1
    <3> QED
      BY <2>5, <3>1, <3>2, <3>3
  <2>12. f[k + 1] = Mul(p, f[k], c)
    <3>1. f[k + 1] = Mul(p, f[k], b)
      BY <1>1 DEF Powers
    <3>2. PICK z \in Nat : z = f[k]
      BY <1>5, <2>1
    <3>3. Mul(p, z, b % p) = Mul(p, z, b)
      BY <1>1, MulLaws
    <3> QED
      BY <3>1, <3>2, <3>3 DEF c
  <2>13. Mul(p, Mul(p, f[k], y), x) = Mul(p, f[k + 1], Mul(p, y, k + 1))
    <3>1. PICK z, m \in Nat : z = f[k] /\ m = k + 1
      BY <1>5, <2>1
    <3>2. PICK a, u, v \in Nat : a = Mul(p, y, c) /\ u = Mul(p, c, m) /\ v = Mul(p, y, m)
      BY <1>1, <1>2, <2>8, MulCommutes
    <3>3. Mul(p, Mul(p, z, y), u) = Mul(p, z, Mul(p, y, u))
      BY <1>1, <2>8, MulAssociates
    <3>4. Mul(p, y, u) = Mul(p, a, m)
      BY <1>1, <1>2, <2>8, <3>2, MulAssociates
    <3>5. Mul(p, a, m) = Mul(p, v, c)
      BY <1>1, <1>2, <2>8, <3>2, MulSwaps
    <3>6. Mul(p, v, c) = Mul(p, c, v)
      BY <1>1, <1>2, MulCommutes
    <3>7. Mul(p, z, Mul(p, c, v)) = Mul(p, Mul(p, z, c), v)
      BY <1>1, <1>2, MulAssociates
    <3> QED
      BY <2>2, <2>12, <3>1, <3>2, <3>3, <3>4, <3>5, <3>6, <3>7
  <2>14. IsFiniteSet(T(k + 1)) /\ Cardinality(T(k + 1)) = k + 1
    <3>1. PICK U : U = T(k)
      OBVIOUS
    <3>2. IsFiniteSet(U) /\ Cardinality(U) = k
      BY <1>7, <3>1
    <3>3. x \notin U
      BY <2>6, <3>1
    <3>4. IsFiniteSet(U \cup {x}) /\ Cardinality(U \cup {x}) = k + 1
      BY <3>2, <3>3, FS_AddElement
    <3> QED
      BY <2>5, <3>1, <3>4
  <2>15. T(k + 1) \subseteq 1..n
    BY <1>7, <2>3, <2>5
  <2> HIDE DEF T
  <2> QED
    BY <2>1, <2>9, <2>10, <2>11, <2>13, <2>14, <2>15
<1>8. Good(n)
  <2>1. n \in 0..n
    BY <1>1
  <2> HIDE DEF P
  <2>2. 0..n \subseteq P
    BY <1>1, <1>6, <1>7, Induction
  <2>3. n \in P
    BY <2>1, <2>2
  <2> HIDE DEF Good
  <2> QED
    BY <2>3 DEF P
<1>9. T(n) = 1..n
  <2>1. PICK U : U = T(n)
    OBVIOUS
  <2>2. 1 \in Int /\ n \in Int /\ n >= 1
    BY <1>1
  <2>3. IsFiniteSet(1..n) /\ Cardinality(1..n) = n
    BY <2>2, FS_Interval
  <2>4. U \in SUBSET (1..n) /\ Cardinality(U) = n
    BY <1>8, <2>1
  <2>5. 1..n = U
    BY <2>3, <2>4, FS_Subset
  <2> QED
    BY <2>1, <2>5
<1>10. PICK X \in 0..p - 1 : X = ProductOf(p, 1..n)
  BY <1>1, ProductTypes
<1>11. X \in 1..p - 1 /\ X = Mul(p, f[n], X)
  <2>1. PICK U : U = T(n)
    OBVIOUS
  <2>2. U = 1..n /\ ProductOf(p, U) = Mul(p, f[n], ProductOf(p, 1..n)) /\ ProductOf(p, 1..n) # 0
    BY <1>8, <1>9, <2>1
  <2> QED
    BY <1>1, <1>10, <2>2
<1>12. PICK z \in 0..p - 1 : z = f[n]
  <2>1. n \in 0..n
    BY <1>1
  <2> QED
    BY <1>5, <2>1
<1>13. Mul(p, X, z) = Mul(p, X, 1)
  <2>1. Mul(p, X, 1) = X
    BY <1>1, <1>10, MulOne
  <2>2. X \in Nat /\ z \in Nat
    BY <1>1, <1>11, <1>12
  <2>3. Mul(p, X, z) = Mul(p, z, X)
    BY <1>1, <2>2, MulCommutes
  <2> QED
    BY <1>11, <1>12, <2>1, <2>3
<1>14. 1 \in 0..p - 1
  BY <1>1
<1>15. z = 1
  BY <1>11, <1>13, <1>14, Cancel
<1> QED
  BY <1>12, <1>15

==============================================================================
