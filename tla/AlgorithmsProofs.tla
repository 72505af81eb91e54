--------------------------- MODULE AlgorithmsProofs ---------------------------
(***************************************************************************)
(* What TLC compares over bounded inputs in MCAlgorithms, proved for every  *)
(* input; of the primality test, what it refuses up to the run's bound.    *)
(***************************************************************************)
EXTENDS MCAlgorithms, DataLemmas

-----------------------------------------------------------------------------
(* Routed-experts capture.                                                 *)

\* The places at which the parts of a batch begin.
Starts(sizes) == [k \in 1..Len(sizes) + 1 |-> Prefix(sizes)[k - 1]]

LEMMA PrefixSums ==
  ASSUME NEW n \in Nat, NEW sizes \in [1..n -> Nat]
  PROVE  /\ Sums(n, sizes, Starts(sizes))
         /\ Prefix(sizes)[0] = 0 /\ Total(sizes) = Prefix(sizes)[n]
         /\ \A k \in 0..n : Prefix(sizes)[k] = Starts(sizes)[k + 1]
<1> DEFINE st == [i \in 0 + 1..n |-> [v \in Nat |-> v + sizes[i]]]
           sum == Prefix(sizes)
<1>1. Len(sizes) = n
  OBVIOUS
<1>2. st \in [0 + 1..n -> [Nat -> Nat]]
  OBVIOUS
<1>3. PICK f \in [0..n -> Nat] : Follows(f, 0, st, 0, n)
  <2>1. 0 \in Nat /\ 0 \in Int /\ n \in Int /\ 0 <= n
    OBVIOUS
  <2> HIDE DEF st
  <2> QED
    BY <1>2, <2>1, RecursionFrom
<1>4. \A i \in 0..n : f[i] = IF i = 0 THEN 0 ELSE f[i - 1] + sizes[i]
  <2>1. TAKE i \in 0..n
  <2>2. f[i] = IF i = 0 THEN 0 ELSE st[i][f[i - 1]]
    <3> HIDE DEF st
    <3> QED
      BY <1>3 DEF Follows
  <2>3. i # 0 => i \in 0 + 1..n /\ f[i - 1] \in Nat
    <3>1. i # 0 => i \in 0 + 1..n /\ i - 1 \in 0..n
      OBVIOUS
    <3>2. \A k \in 0..n : f[k] \in Nat
      BY <1>3
    <3> QED
      BY <3>1, <3>2
  <2>4. i # 0 => st[i][f[i - 1]] = f[i - 1] + sizes[i]
    BY <2>3
  <2> HIDE DEF st
  <2> QED
    BY <2>2, <2>4
<1>5. f = [k \in 0..Len(sizes) |-> IF k = 0 THEN 0 ELSE f[k - 1] + sizes[k]]
  <2>1. f = [k \in 0..n |-> f[k]]
    BY <1>3
  <2> QED
    BY <1>1, <1>4, <2>1
<1>6. sum = [k \in 0..Len(sizes) |-> IF k = 0 THEN 0 ELSE sum[k - 1] + sizes[k]]
  <2>1. \E h : h = [k \in 0..Len(sizes) |-> IF k = 0 THEN 0 ELSE h[k - 1] + sizes[k]]
    BY <1>5
  <2> QED
    BY <2>1, Zenon DEF Prefix
<1> HIDE DEF sum
<1>7. sum[0] = 0 /\ \A k \in 1..n : sum[k] = sum[k - 1] + sizes[k]
  BY <1>1, <1>6
<1>8. \A k \in 1..n + 1 : Starts(sizes)[k] = sum[k - 1]
  BY <1>1 DEF Starts, sum
<1>9. Starts(sizes)[1] = 0 /\ \A k \in 1..n : Starts(sizes)[k + 1] = Starts(sizes)[k] + sizes[k]
  <2>1. Starts(sizes)[1] = sum[0]
    BY <1>8
  <2>2. \A k \in 1..n : Starts(sizes)[k + 1] = sum[k] /\ Starts(sizes)[k] = sum[k - 1]
    <3>1. TAKE k \in 1..n
    <3>2. k + 1 \in 1..n + 1 /\ k \in 1..n + 1 /\ (k + 1) - 1 = k
      OBVIOUS
    <3> HIDE DEF st
    <3>3. Starts(sizes)[k + 1] = sum[(k + 1) - 1] /\ Starts(sizes)[k] = sum[k - 1]
      BY <1>8, <3>2, Zenon
    <3> QED
      BY <3>2, <3>3
  <2> QED
    BY <1>7, <2>1, <2>2
<1>10. \A k \in 0..n : sum[k] = Starts(sizes)[k + 1]
  BY <1>8
<1> QED
  BY <1>1, <1>7, <1>9, <1>10 DEF Sums, sum, Total

\* A part is no longer than the whole, and the sums grow.
LEMMA PrefixBounds ==
  ASSUME NEW n \in Nat, NEW sizes \in [1..n -> Nat], NEW d \in 0..n - 1
  PROVE  /\ Prefix(sizes)[d] \in Nat /\ Total(sizes) \in Nat
         /\ Prefix(sizes)[d + 1] = Prefix(sizes)[d] + sizes[d + 1]
         /\ Prefix(sizes)[d] + sizes[d + 1] <= Total(sizes)
<1>1. d + 1 \in 1..n /\ n + 1 \in 1..n + 1 /\ d + 1 < n + 1 /\ d \in 0..n /\ d + 1 \in 0..n
      /\ n \in 0..n /\ d + 1 \in 1..n + 1
  OBVIOUS
<1>2. /\ Sums(n, sizes, Starts(sizes)) /\ Total(sizes) = Prefix(sizes)[n]
      /\ Prefix(sizes)[d] = Starts(sizes)[d + 1]
      /\ Prefix(sizes)[d + 1] = Starts(sizes)[(d + 1) + 1]
      /\ Prefix(sizes)[n] = Starts(sizes)[n + 1]
  BY <1>1, PrefixSums
<1>3. Starts(sizes)[d + 1] \in Nat /\ Starts(sizes)[n + 1] \in Nat
  BY <1>1, <1>2, SumsAreNat
<1>4. Starts(sizes)[d + 1] + sizes[d + 1] <= Starts(sizes)[n + 1]
  BY <1>1, <1>2, SumsGrow
<1>5. Starts(sizes)[(d + 1) + 1] = Starts(sizes)[d + 1] + sizes[d + 1]
  BY <1>1, <1>2 DEF Sums
<1> QED
  BY <1>2, <1>3, <1>4, <1>5

\* A rank's rows, and how they are cut into shards.
LEMMA CeilIsEnough ==
  ASSUME NEW m \in Nat, NEW k \in Nat \ {0}
  PROVE  /\ CeilDiv(m, k) \in Nat /\ m <= CeilDiv(m, k) * k
         /\ CeilDiv(m, k) <= m
<1>1. m + k - 1 \in Nat
  OBVIOUS
<1>2. PICK q : q = CeilDiv(m, k)
  OBVIOUS
<1>3. q \in Nat /\ k * q <= m + k - 1 /\ m + k - 1 < k * q + k
  BY <1>1, <1>2, Division DEF CeilDiv
<1>4. k * q = q * k
  BY <1>3
<1>5. m <= q * k
  <2>1. PICK p : p = k * q
    OBVIOUS
  <2>2. p \in Nat
    BY <1>3, <2>1
  <2> QED
    BY <1>3, <1>4, <2>1, <2>2
<1>6. q <= m
  <2>1. SUFFICES ASSUME m < q PROVE FALSE
    BY <1>3
  <2>2. (m + 1) * k <= q * k
    BY <1>3, <2>1, ProductGrows
  <2>3. (m + 1) * k = m * k + k /\ m * k \in Nat
    OBVIOUS
  <2>4. m <= m * k
    <3>1. 1 * m <= k * m
      BY ProductGrows
    <3> QED
      BY <3>1
  <2> QED
    BY <1>3, <1>4, <2>2, <2>3, <2>4
<1> QED
  BY <1>2, <1>3, <1>5, <1>6

Rows == (Int \X Int) \cup {Pad}

\* Behind place start, source holds the tokens of rank d in their order.
Holds(source, start, d, own) ==
  /\ source \in Seq(Rows) /\ start \in Nat /\ start + own <= Len(source)
  /\ \A i \in 1..own : source[start + i] = <<d, i>>

LEMMA TokensAreRows ==
  ASSUME NEW n \in Nat, NEW counts \in [1..n -> Nat], NEW d \in 0..n - 1
  PROVE  /\ Tokens(counts, d) \in Seq(Rows) /\ Len(Tokens(counts, d)) = counts[d + 1]
         /\ \A i \in 1..counts[d + 1] : Tokens(counts, d)[i] = <<d, i>>
<1>1. d + 1 \in 1..n
  OBVIOUS
<1>2. counts[d + 1] \in Nat
  BY <1>1
<1>3. PICK m \in Nat : m = counts[d + 1]
  BY <1>2
<1>4. Tokens(counts, d) = [i \in 1..m |-> <<d, i>>]
  BY <1>3 DEF Tokens
<1>5. \A i \in 1..m : <<d, i>> \in Rows
  BY DEF Rows
<1>6. PICK s : s = [i \in 1..m |-> <<d, i>>]
  OBVIOUS
<1>7. s \in Seq(Rows) /\ Len(s) = m /\ \A i \in 1..m : s[i] = <<d, i>>
  BY <1>5, <1>6
<1> QED
  BY <1>3, <1>4, <1>6, <1>7

\* A window of a sequence.
LEMMA Window ==
  ASSUME NEW S, NEW p \in Seq(S), NEW a \in Nat, NEW e \in Nat, a + e <= Len(p)
  PROVE  /\ SubSeq(p, a + 1, a + e) \in Seq(S) /\ Len(SubSeq(p, a + 1, a + e)) = e
         /\ \A j \in 1..e : SubSeq(p, a + 1, a + e)[j] = p[a + j]
<1>1. SubSeq(p, a + 1, a + e) = [j \in 1..(a + e) - (a + 1) + 1 |-> p[(a + 1) + j - 1]]
  BY DEF SubSeq
<1>2. (a + e) - (a + 1) + 1 = e /\ \A j \in 1..e : (a + 1) + j - 1 = a + j
  OBVIOUS
<1>3. PICK s : s = SubSeq(p, a + 1, a + e)
  OBVIOUS
<1>4. s = [j \in 1..e |-> p[a + j]]
  BY <1>1, <1>2, <1>3
<1>5. \A j \in 1..e : p[a + j] \in S
  <2>1. TAKE j \in 1..e
  <2>2. a + j \in 1..Len(p)
    BY LenProperties
  <2> QED
    BY <2>2, ElementOfSeq
<1>6. s \in Seq(S) /\ Len(s) = e /\ \A j \in 1..e : s[j] = p[a + j]
  BY <1>4, <1>5
<1> QED
  BY <1>3, <1>6

\* A shard begins behind the first a tokens of rank d.
IsShard(s, d, a, size, own) ==
  /\ s \in Seq(Rows) /\ Len(s) = size
  /\ \A j \in 1..size : a + j <= own => s[j] = <<d, a + j>>

LEMMA ShardRows ==
  ASSUME NEW n \in Nat, NEW counts \in [1..n -> Nat], NEW d \in 0..n - 1,
         NEW tp \in Nat \ {0}, NEW t \in 0..tp - 1, NEW size, size = CeilDiv(counts[d + 1], tp)
  PROVE  IsShard(ShardOf(counts, tp, d, t), d, t * size, size, counts[d + 1])
<1>1. d + 1 \in 1..n
  OBVIOUS
<1>2. PICK own \in Nat : own = counts[d + 1]
  BY <1>1
<1>3. size \in Nat
  BY <1>2, CeilIsEnough
<1>4. /\ t * size \in Nat /\ size * tp \in Nat /\ (t + 1) * size <= tp * size
      /\ (t + 1) * size = t * size + size /\ tp * size = size * tp
  <2>1. t \in Nat /\ tp \in Nat /\ t + 1 \in Nat /\ t + 1 <= tp
    OBVIOUS
  <2>2. PICK e : e = size
    OBVIOUS
  <2>3. e \in Nat
    BY <1>3, <2>2
  <2>4. (t + 1) * e <= tp * e /\ tp * e \in Nat
    BY <2>1, <2>3, ProductGrows
  <2>5. t * e \in Nat /\ (t + 1) * e = t * e + e /\ tp * e = e * tp
    BY <2>1, <2>3
  <2> QED
    BY <2>2, <2>4, <2>5
<1>5. PICK a, b : a = t * size /\ b = size * tp
  OBVIOUS
<1>6. a \in Nat /\ b \in Nat /\ a + size <= b /\ (t + 1) * size = a + size
  BY <1>3, <1>4, <1>5
<1> DEFINE toks == Tokens(counts, d)
           padded == Padded(toks, size * tp)
<1>7. toks \in Seq(Rows) /\ Len(toks) = own /\ \A i \in 1..own : toks[i] = <<d, i>>
  BY <1>2, TokensAreRows
<1>8. padded \in Seq(Rows) /\ Len(padded) = b
      /\ \A i \in 1..b : i <= own => padded[i] = <<d, i>>
  <2>1. padded = [i \in 1..b |-> IF i <= own THEN toks[i] ELSE Pad]
    BY <1>5, <1>7 DEF Padded
  <2>2. \A i \in 1..b : padded[i] = IF i <= own THEN toks[i] ELSE Pad
    BY <2>1
  <2>3. \A i \in 1..b : i <= own => padded[i] = <<d, i>>
    BY <1>2, <1>7, <2>2
  <2>4. \A i \in 1..b : padded[i] \in Rows
    <3>1. TAKE i \in 1..b
    <3>2. CASE i <= own
      <4>1. <<d, i>> \in Int \X Int
        BY <1>6
      <4> QED
        BY <2>3, <3>2, <4>1 DEF Rows
    <3>3. CASE ~(i <= own)
      BY <2>2, <3>3 DEF Rows
    <3> QED
      BY <3>2, <3>3
  <2> HIDE DEF padded
  <2> QED
    BY <1>6, <2>1, <2>3, <2>4
<1>9. ShardOf(counts, tp, d, t) = SubSeq(padded, a + 1, a + size)
  BY <1>2, <1>5, <1>6 DEF ShardOf
<1> HIDE DEF padded, toks
<1>10. PICK s : s = SubSeq(padded, a + 1, a + size)
  OBVIOUS
<1>11. s \in Seq(Rows) /\ Len(s) = size /\ \A j \in 1..size : s[j] = padded[a + j]
  <2>1. PICK p, e : p = padded /\ e = size
    OBVIOUS
  <2>2. p \in Seq(Rows) /\ Len(p) = b /\ e \in Nat /\ a + e <= b /\ s = SubSeq(p, a + 1, a + e)
    BY <1>3, <1>6, <1>8, <1>10, <2>1
  <2>3. s \in Seq(Rows) /\ Len(s) = e /\ \A j \in 1..e : s[j] = p[a + j]
    BY <1>6, <2>2, Window
  <2> QED
    BY <2>1, <2>3
<1>12. \A j \in 1..size : a + j <= own => s[j] = <<d, a + j>>
  <2>1. SUFFICES ASSUME NEW j \in 1..size, a + j <= own PROVE s[j] = <<d, a + j>>
    OBVIOUS
  <2>2. a + j \in 1..b
    BY <1>3, <1>6
  <2>3. padded[a + j] = <<d, a + j>>
    BY <1>8, <2>1, <2>2, Zenon
  <2> QED
    BY <1>11, <2>3, Zenon
<1> QED
  BY <1>2, <1>5, <1>9, <1>10, <1>11, <1>12, Zenon DEF IsShard

\* The position of a rank's token in the shards of its rank, one after the other.
InShard(i, tp, size) == \E t \in 0..tp - 1 : \E j \in 1..size : i = t * size + j

LEMMA ShardOfToken ==
  ASSUME NEW own \in Nat, NEW tp \in Nat \ {0}, NEW size \in Nat, own <= size * tp,
         NEW i \in 1..own
  PROVE  InShard(i, tp, size)
<1>1. size * tp = tp * size /\ tp * size \in Nat /\ tp \in Nat
  OBVIOUS
<1>2. i - 1 \in 0..tp * size - 1
  BY <1>1
<1>3. PICK x : x = i - 1
  OBVIOUS
<1>4. PICK t \in 0..tp - 1, r \in 0..size - 1 : x = t * size + r
  <2>1. x \in 0..tp * size - 1
    BY <1>2, <1>3
  <2>2. x \div size \in 0..tp - 1 /\ x % size \in 0..size - 1
        /\ x = (x \div size) * size + (x % size)
    BY <1>1, <2>1, Digits
  <2> QED
    BY <2>2, Zenon
<1>5. t * size \in Nat
  BY <1>4
<1>6. r + 1 \in 1..size /\ i = t * size + (r + 1)
  BY <1>3, <1>4, <1>5
<1> QED
  BY <1>4, <1>6 DEF InShard

\* The shards of one rank, one after the other.
LEMMA SequenceJoin ==
  ASSUME NEW n \in Nat, NEW counts \in [1..n -> Nat], NEW d \in 0..n - 1,
         NEW tp \in Nat \ {0},
         NEW whole, whole = FlattenSeq([k \in 1..tp |-> ShardOf(counts, tp, d, k - 1)])
  PROVE  Holds(whole, 0, d, counts[d + 1])
<1> DEFINE seqs == [k \in 1..tp |-> ShardOf(counts, tp, d, k - 1)]
<1>1. d + 1 \in 1..n
  OBVIOUS
<1>2. PICK own \in Nat, size \in Nat : own = counts[d + 1] /\ size = CeilDiv(own, tp)
  <2>1. counts[d + 1] \in Nat
    BY <1>1
  <2> QED
    BY <2>1, CeilIsEnough
<1>3. own <= size * tp
  BY <1>2, CeilIsEnough
<1> DEFINE len == [k \in 1..tp |-> size]
           start == [k \in 1..tp + 1 |-> (k - 1) * size]
<1>4. Sums(tp, len, start)
  <2>1. start[1] = 0
    OBVIOUS
  <2>2. ASSUME NEW k \in 1..tp PROVE start[k + 1] = start[k] + len[k]
    <3>1. start[k + 1] = ((k + 1) - 1) * size /\ start[k] = (k - 1) * size /\ len[k] = size
      OBVIOUS
    <3>2. ((k + 1) - 1) * size = (k - 1) * size + size
      OBVIOUS
    <3> QED
      BY <3>1, <3>2
  <2>3. len \in [1..tp -> Nat]
    OBVIOUS
  <2> QED
    BY <2>1, <2>2, <2>3 DEF Sums
<1>5. \A k \in 1..tp : len[k] = size /\ IsShard(seqs[k], d, (k - 1) * size, size, own)
  <2>1. TAKE k \in 1..tp
  <2>2. PICK t \in 0..tp - 1 : t = k - 1
    OBVIOUS
  <2>3. size = CeilDiv(counts[d + 1], tp)
    BY <1>2
  <2>4. IsShard(ShardOf(counts, tp, d, t), d, t * size, size, counts[d + 1])
    BY <2>3, ShardRows
  <2>5. seqs[k] = ShardOf(counts, tp, d, t) /\ len[k] = size
    BY <2>2
  <2> HIDE DEF seqs, len
  <2> QED
    BY <1>2, <2>2, <2>4, <2>5, Zenon
<1>6. seqs \in [1..tp -> Seq(Rows)] /\ HasLengths(seqs, len, tp)
  <2>1. seqs = [k \in 1..tp |-> seqs[k]]
    OBVIOUS
  <2> HIDE DEF seqs, len
  <2> QED
    BY <1>5, <2>1 DEF HasLengths, IsShard
<1>7. whole = FlattenSeq(seqs)
  OBVIOUS
<1>8. IsJoin(Rows, whole, seqs, len, start, tp)
  <2>1. tp \in Nat
    OBVIOUS
  <2> HIDE DEF seqs, len, start
  <2>2. IsJoin(Rows, FlattenSeq(seqs), seqs, len, start, tp)
    BY <1>4, <1>6, <2>1, FlattenParts
  <2> QED
    BY <1>7, <2>2, Zenon
<1>9. Len(whole) = tp * size /\ whole \in Seq(Rows)
  <2>1. start[tp + 1] = ((tp + 1) - 1) * size
    OBVIOUS
  <2> HIDE DEF start
  <2> QED
    BY <1>8, <2>1 DEF IsJoin
<1>10. ASSUME NEW i \in 1..own PROVE whole[i] = <<d, i>>
  <2>1. PICK t \in 0..tp - 1, j \in 1..size : i = t * size + j
    <3>1. InShard(i, tp, size)
      BY <1>3, ShardOfToken
    <3> QED
      BY <3>1 DEF InShard
  <2>2. PICK k \in 1..tp : k - 1 = t
    <3>1. t + 1 \in 1..tp /\ (t + 1) - 1 = t
      OBVIOUS
    <3> QED
      BY <3>1
  <2>3. start[k] = t * size /\ len[k] = size
    BY <2>2
  <2>4. whole[start[k] + j] = seqs[k][j]
    <3> HIDE DEF seqs, start, len
    <3> QED
      BY <1>8, <2>1, <2>3 DEF IsJoin, HoldsParts
  <2>5. seqs[k][j] = <<d, t * size + j>>
    <3>1. t * size + j <= own
      BY <2>1
    <3> HIDE DEF seqs
    <3> QED
      BY <1>5, <2>2, <3>1 DEF IsShard
  <2> HIDE DEF seqs, start
  <2> QED
    BY <2>1, <2>3, <2>4, <2>5
<1>11. own <= Len(whole)
  BY <1>3, <1>9
<1> HIDE DEF len, start
<1> QED
  <2> HIDE DEF seqs
  <2>1. PICK w : w = whole
    OBVIOUS
  <2>3. w \in Seq(Rows) /\ own <= Len(w) /\ \A i \in 1..own : w[i] = <<d, i>>
    BY <1>9, <1>10, <1>11, <2>1, Zenon
  <2>4. 0 + own = own /\ \A i \in 1..own : 0 + i = i
    OBVIOUS
  <2>2. Holds(whole, 0, d, own)
    BY <2>1, <2>3, <2>4 DEF Holds
  <2> QED
    BY <1>2, <2>2

\* The sums of the gathered sizes where the shards of rank d begin, and
\* inside them.
IsGathered(sizes, counts, n, tp) ==
  /\ sizes \in [1..n * tp -> Nat]
  /\ \A d \in 0..n - 1 : \A t \in 0..tp - 1 :
       /\ d * tp + t + 1 \in 1..n * tp
       /\ sizes[d * tp + t + 1] = CeilDiv(counts[d + 1], tp)
       /\ Prefix(sizes)[d * tp + t] = Prefix(sizes)[d * tp] + t * CeilDiv(counts[d + 1], tp)
  /\ \A d \in 0..n - 1 :
       Prefix(sizes)[(d + 1) * tp] = Prefix(sizes)[d * tp] + tp * CeilDiv(counts[d + 1], tp)

LEMMA GatheredStarts ==
  ASSUME NEW n \in Nat, NEW counts \in [1..n -> Nat], NEW tp \in Nat \ {0},
         NEW sizes, sizes = LocalSizes("gathered", counts, tp)
  PROVE  IsGathered(sizes, counts, n, tp)
<1>1. n * tp \in Nat /\ Len(counts) = n
  OBVIOUS
<1>2. sizes = [k \in 1..n * tp |-> CeilDiv(counts[((k - 1) \div tp) + 1], tp)]
  BY <1>1 DEF LocalSizes
<1>3. PICK c : c = n * tp
  OBVIOUS
<1>4. \A d \in 0..n - 1 : \A t \in 0..tp - 1 :
        /\ d * tp + t + 1 \in 1..c /\ d * tp + t \in 0..c - 1
        /\ sizes[d * tp + t + 1] = CeilDiv(counts[d + 1], tp)
  <2>1. TAKE d \in 0..n - 1
  <2>2. TAKE t \in 0..tp - 1
  <2>3. tp \in Nat /\ d \in Nat /\ t \in Nat /\ d * tp \in Nat
    OBVIOUS
  <2>4. d * tp + t \in 0..n * tp - 1 /\ (d * tp + t) \div tp = d
    BY <2>3, DigitsOf
  <2>5. PICK x : x = d * tp + t
    OBVIOUS
  <2>6. x \in 0..c - 1 /\ x \div tp = d
    BY <1>3, <2>4, <2>5
  <2>7. x + 1 \in 1..c /\ (x + 1) - 1 = x /\ d * tp + t + 1 = x + 1
    BY <1>1, <1>3, <2>3, <2>5, <2>6
  <2>8. sizes[x + 1] = CeilDiv(counts[(x \div tp) + 1], tp)
    BY <1>2, <1>3, <2>7
  <2> QED
    BY <2>5, <2>6, <2>7, <2>8
<1>5. sizes \in [1..c -> Nat]
  <2>1. ASSUME NEW k \in 1..c PROVE CeilDiv(counts[((k - 1) \div tp) + 1], tp) \in Nat
    <3>1. PICK x : x = k - 1
      OBVIOUS
    <3>2. x \in 0..n * tp - 1 /\ tp \in Nat
      BY <1>1, <1>3, <2>1, <3>1
    <3>3. x \div tp \in 0..n - 1
      BY <3>2, Digits
    <3>4. (x \div tp) + 1 \in 1..n
      BY <3>3
    <3>5. counts[(x \div tp) + 1] \in Nat
      BY <3>4
    <3>6. CeilDiv(counts[(x \div tp) + 1], tp) \in Nat
      BY <3>5, CeilIsEnough
    <3> QED
      BY <3>1, <3>6
  <2> QED
    BY <1>2, <1>3, <2>1
<1>6. \A k \in 0..c - 1 : Prefix(sizes)[k + 1] = Prefix(sizes)[k] + sizes[k + 1]
                         /\ Prefix(sizes)[k] \in Nat
  BY <1>1, <1>3, <1>5, PrefixBounds
<1>7. ASSUME NEW d \in 0..n - 1
      PROVE  \A t \in 0..tp : Prefix(sizes)[d * tp + t]
                              = Prefix(sizes)[d * tp] + t * CeilDiv(counts[d + 1], tp)
  <2>1. PICK size \in Nat : size = CeilDiv(counts[d + 1], tp)
    <3>1. d + 1 \in 1..n
      OBVIOUS
    <3>2. counts[d + 1] \in Nat
      BY <3>1
    <3> QED
      BY <3>2, CeilIsEnough
  <2>2. PICK b : b = d * tp
    OBVIOUS
  <2>3. b \in Nat /\ b \in 0..c - 1
    <3>1. 0 \in 0..tp - 1 /\ d * tp + 0 = d * tp /\ d * tp \in Nat
      OBVIOUS
    <3>2. d * tp + 0 \in 0..c - 1
      BY <1>4, <3>1
    <3> QED
      BY <2>2, <3>1, <3>2
  <2> DEFINE P == {t \in 0..tp : Prefix(sizes)[b + t] = Prefix(sizes)[b] + t * size}
  <2>4. 0 \in P
    <3>1. b + 0 = b /\ 0 * size = 0 /\ Prefix(sizes)[b] \in Nat
      BY <1>6, <2>3
    <3> QED
      BY <3>1
  <2>5. \A t \in 0..tp - 1 : t \in P => t + 1 \in P
    <3>1. TAKE t \in 0..tp - 1
    <3>2. HAVE t \in P
    <3>3. b + t \in 0..c - 1 /\ sizes[b + t + 1] = size
      BY <1>4, <2>1, <2>2
    <3>4. PICK x : x = b + t
      OBVIOUS
    <3>5. /\ Prefix(sizes)[x + 1] = Prefix(sizes)[x] + sizes[x + 1]
          /\ Prefix(sizes)[x] = Prefix(sizes)[b] + t * size
          /\ Prefix(sizes)[b] \in Nat /\ sizes[x + 1] = size
      BY <1>6, <2>3, <3>2, <3>3, <3>4
    <3>6. x + 1 = b + (t + 1) /\ (t + 1) * size = t * size + size /\ t * size \in Nat
      BY <2>3, <3>4
    <3>7. Prefix(sizes)[x + 1] = Prefix(sizes)[b] + (t + 1) * size
      BY <3>5, <3>6
    <3> QED
      BY <3>6, <3>7
  <2>6. 0..tp \subseteq P
    <3> HIDE DEF P
    <3> QED
      BY <2>4, <2>5, Induction
  <2> QED
    BY <2>1, <2>2, <2>6
<1>8. ASSUME NEW d \in 0..n - 1
      PROVE  Prefix(sizes)[(d + 1) * tp] = Prefix(sizes)[d * tp] + tp * CeilDiv(counts[d + 1], tp)
  <2>1. tp \in 0..tp /\ (d + 1) * tp = d * tp + tp
    OBVIOUS
  <2> QED
    BY <1>7, <2>1
<1>9. \A t \in 0..tp - 1 : t \in 0..tp
  OBVIOUS
<1> QED
  BY <1>1, <1>3, <1>4, <1>5, <1>7, <1>8, <1>9 DEF IsGathered

\* The place of shard t of rank d among the gathered ones.
IsPlace(k, n, tp, d, t) ==
  /\ k \in 1..n * tp /\ k - 1 = d * tp + t /\ k = (k - 1) + 1 /\ k - 1 \in 0..n * tp
  /\ (k - 1) \div tp = d /\ (k - 1) % tp = t

LEMMA ShardPlace ==
  ASSUME NEW n \in Nat, NEW tp \in Nat \ {0}, NEW d \in 0..n - 1, NEW t \in 0..tp - 1,
         NEW k, k = d * tp + t + 1
  PROVE  IsPlace(k, n, tp, d, t)
<1>1. tp \in Nat /\ d \in Nat /\ t \in Nat /\ d * tp \in Nat /\ n * tp \in Nat
  OBVIOUS
<1>2. PICK x : x = d * tp + t
  OBVIOUS
<1>3. x \in 0..n * tp - 1 /\ x \div tp = d /\ x % tp = t
  <2>1. d * tp + t \in 0..n * tp - 1 /\ (d * tp + t) \div tp = d /\ (d * tp + t) % tp = t
    BY <1>1, DigitsOf
  <2> QED
    BY <1>2, <2>1
<1>4. x \in Nat /\ k = x + 1
  BY <1>1, <1>2
<1>5. k - 1 = x /\ k \in 1..n * tp /\ k - 1 \in 0..n * tp
  BY <1>1, <1>3, <1>4
<1> QED
  BY <1>2, <1>3, <1>4, <1>5 DEF IsPlace

\* The gathered shards, one rank after the other.
HoldsAll(whole, sizes, counts, n, tp) ==
  /\ whole \in Seq(Rows) /\ Len(whole) = Total(sizes)
  /\ \A d \in 0..n - 1 : \A i \in 1..counts[d + 1] :
       whole[Prefix(sizes)[d * tp] + i] = <<d, i>>

LEMMA GatheredJoin ==
  ASSUME NEW n \in Nat, NEW counts \in [1..n -> Nat], NEW tp \in Nat \ {0},
         NEW sizes, sizes = LocalSizes("gathered", counts, tp),
         NEW whole, whole = FlattenSeq([k \in 1..n * tp |->
                                          ShardOf(counts, tp, (k - 1) \div tp, (k - 1) % tp)])
  PROVE  HoldsAll(whole, sizes, counts, n, tp)
<1> DEFINE seqs == [k \in 1..n * tp |-> ShardOf(counts, tp, (k - 1) \div tp, (k - 1) % tp)]
           c == n * tp
<1>1. /\ c \in Nat /\ sizes \in [1..c -> Nat]
      /\ \A d \in 0..n - 1 : \A t \in 0..tp - 1 :
           /\ d * tp + t + 1 \in 1..c
           /\ sizes[d * tp + t + 1] = CeilDiv(counts[d + 1], tp)
           /\ Prefix(sizes)[d * tp + t] = Prefix(sizes)[d * tp] + t * CeilDiv(counts[d + 1], tp)
  <2>1. IsGathered(sizes, counts, n, tp)
    BY GatheredStarts
  <2>2. n * tp \in Nat
    OBVIOUS
  <2> QED
    BY <2>1, <2>2 DEF IsGathered
<1>2. ASSUME NEW d \in 0..n - 1, NEW t \in 0..tp - 1, NEW k \in 1..c, k = d * tp + t + 1
      PROVE  /\ seqs[k] = ShardOf(counts, tp, d, t)
             /\ IsShard(seqs[k], d, t * sizes[k], sizes[k], counts[d + 1])
  <2>5. (k - 1) \div tp = d /\ (k - 1) % tp = t
    <3>1. IsPlace(k, n, tp, d, t)
      BY <1>2, ShardPlace
    <3> QED
      BY <3>1 DEF IsPlace
  <2>6. seqs[k] = ShardOf(counts, tp, d, t)
    BY <2>5
  <2>7. sizes[k] = CeilDiv(counts[d + 1], tp)
    BY <1>1, <1>2
  <2>8. IsShard(ShardOf(counts, tp, d, t), d, t * sizes[k], sizes[k], counts[d + 1])
    BY <2>7, ShardRows
  <2> HIDE DEF seqs
  <2> QED
    BY <2>6, <2>8, Zenon
<1>3. ASSUME NEW k \in 1..c
      PROVE  \E d \in 0..n - 1 : \E t \in 0..tp - 1 : k = d * tp + t + 1
  <2>1. PICK x : x = k - 1
    OBVIOUS
  <2>2. x \in 0..n * tp - 1 /\ tp \in Nat /\ k = x + 1
    BY <1>1, <1>3, <2>1
  <2>3. x \div tp \in 0..n - 1 /\ x % tp \in 0..tp - 1 /\ x = (x \div tp) * tp + (x % tp)
    BY <2>2, Digits
  <2> QED
    BY <2>2, <2>3, Zenon
<1>4. seqs \in [1..c -> Seq(Rows)] /\ HasLengths(seqs, sizes, c)
  <2>1. \A k \in 1..c : seqs[k] \in Seq(Rows) /\ Len(seqs[k]) = sizes[k]
    <3>1. TAKE k \in 1..c
    <3>2. PICK d \in 0..n - 1 : \E t \in 0..tp - 1 : k = d * tp + t + 1
      BY <1>3
    <3>3. PICK t \in 0..tp - 1 : k = d * tp + t + 1
      BY <3>2
    <3>4. IsShard(seqs[k], d, t * sizes[k], sizes[k], counts[d + 1])
      BY <1>2, <3>3
    <3> QED
      BY <3>4 DEF IsShard
  <2>2. seqs = [k \in 1..c |-> seqs[k]]
    OBVIOUS
  <2> HIDE DEF seqs, c
  <2> QED
    BY <2>1, <2>2 DEF HasLengths
<1>5. Sums(c, sizes, Starts(sizes)) /\ Total(sizes) = Prefix(sizes)[c]
      /\ \A k \in 0..c : Prefix(sizes)[k] = Starts(sizes)[k + 1]
  <2> HIDE DEF c
  <2> QED
    BY <1>1, PrefixSums
<1>6. IsJoin(Rows, whole, seqs, sizes, Starts(sizes), c)
  <2>1. whole = FlattenSeq(seqs)
    OBVIOUS
  <2>2. c \in Nat /\ seqs \in [1..c -> Seq(Rows)] /\ HasLengths(seqs, sizes, c)
        /\ Sums(c, sizes, Starts(sizes))
    BY <1>1, <1>4, <1>5
  <2> HIDE DEF seqs, c
  <2>3. IsJoin(Rows, FlattenSeq(seqs), seqs, sizes, Starts(sizes), c)
    BY <2>2, FlattenParts
  <2> QED
    BY <2>1, <2>3, Zenon
<1>7. whole \in Seq(Rows) /\ Len(whole) = Total(sizes)
  <2>1. c \in 0..c
    BY <1>1
  <2> HIDE DEF seqs, c
  <2> QED
    BY <1>5, <1>6, <2>1 DEF IsJoin
<1>8. ASSUME NEW d \in 0..n - 1, NEW i \in 1..counts[d + 1]
      PROVE  whole[Prefix(sizes)[d * tp] + i] = <<d, i>>
  <2>1. d + 1 \in 1..n
    OBVIOUS
  <2>2. PICK own \in Nat, size \in Nat : own = counts[d + 1] /\ size = CeilDiv(own, tp)
    <3>1. counts[d + 1] \in Nat
      BY <2>1
    <3> QED
      BY <3>1, CeilIsEnough
  <2>3. own <= size * tp /\ i \in 1..own
    BY <1>8, <2>2, CeilIsEnough
  <2>4. InShard(i, tp, size)
    BY <2>3, ShardOfToken
  <2>5. PICK t \in 0..tp - 1, j \in 1..size : i = t * size + j
    BY <2>4 DEF InShard
  <2>6. PICK k : k = d * tp + t + 1
    OBVIOUS
  <2>7. /\ k \in 1..c /\ sizes[k] = size
        /\ Prefix(sizes)[d * tp + t] = Prefix(sizes)[d * tp] + t * size
    BY <1>1, <2>2, <2>6
  <2>8. d * tp + t \in 0..c /\ Starts(sizes)[k] = Prefix(sizes)[d * tp + t]
    <3>1. k - 1 = d * tp + t /\ k = (k - 1) + 1 /\ k - 1 \in 0..n * tp
      <4>1. IsPlace(k, n, tp, d, t)
        BY <2>6, ShardPlace
      <4> QED
        BY <4>1 DEF IsPlace
    <3>2. k - 1 \in 0..c /\ d * tp + t \in 0..c
      BY <3>1
    <3>3. Prefix(sizes)[k - 1] = Starts(sizes)[(k - 1) + 1]
      BY <1>5, <3>2
    <3> HIDE DEF c
    <3> QED
      BY <3>1, <3>2, <3>3
  <2>9. whole[Starts(sizes)[k] + j] = seqs[k][j]
    <3> HIDE DEF seqs, c
    <3> QED
      BY <1>6, <2>7 DEF IsJoin, HoldsParts
  <2>10. seqs[k][j] = <<d, t * size + j>>
    <3>1. t * size + j <= own
      BY <2>3, <2>5
    <3>2. IsShard(seqs[k], d, t * sizes[k], sizes[k], counts[d + 1])
      BY <1>2, <2>6, <2>7
    <3> HIDE DEF seqs, c
    <3> QED
      BY <2>2, <2>7, <3>1, <3>2 DEF IsShard
  <2>11. Starts(sizes)[k] + j = Prefix(sizes)[d * tp] + i
    <3>1. PICK p : p = Prefix(sizes)[d * tp]
      OBVIOUS
    <3>2. p \in Nat
      <4>1. 0 \in 0..tp - 1 /\ d * tp + 0 + 1 = d * tp + 1 /\ d * tp \in Nat
        OBVIOUS
      <4>2. d * tp + 0 + 1 \in 1..c
        BY <1>1, <4>1
      <4>3. d * tp \in 0..c - 1
        BY <1>1, <4>1, <4>2
      <4> HIDE DEF c
      <4> QED
        BY <1>1, <3>1, <4>3, PrefixBounds
    <3>3. Starts(sizes)[k] = p + t * size /\ t * size \in Nat
      BY <2>7, <2>8, <3>1
    <3> QED
      BY <2>5, <3>1, <3>2, <3>3
  <2> HIDE DEF seqs, c
  <2> QED
    BY <2>5, <2>9, <2>10, <2>11
<1> HIDE DEF c
<1> QED
  BY <1>7, <1>8 DEF HoldsAll

\* The gathered shards hold every token and the padding between them; without
\* padding they are the ranks' tokens in order.
HasSlack(sizes, counts, tp, d) ==
  /\ Prefix(sizes)[d * tp] \in Nat /\ Total(sizes) \in Nat
  /\ Prefix(sizes)[d * tp] + counts[d + 1] <= Total(sizes)
  /\ Total(counts) <= Total(sizes)
  /\ Total(counts) = Total(sizes) => Prefix(counts)[d] = Prefix(sizes)[d * tp]

LEMMA GatheredSlack ==
  ASSUME NEW n \in Nat \ {0}, NEW counts \in [1..n -> Nat], NEW tp \in Nat \ {0},
         NEW sizes, sizes = LocalSizes("gathered", counts, tp), NEW d \in 0..n - 1
  PROVE  HasSlack(sizes, counts, tp, d)
<1>1. PICK c \in Nat : c = n * tp
  OBVIOUS
<1>2. /\ sizes \in [1..c -> Nat]
      /\ \A e \in 0..n - 1 : \A t \in 0..tp - 1 : e * tp + t + 1 \in 1..c
      /\ \A e \in 0..n - 1 :
           Prefix(sizes)[(e + 1) * tp] = Prefix(sizes)[e * tp] + tp * CeilDiv(counts[e + 1], tp)
  <2>1. IsGathered(sizes, counts, n, tp)
    BY GatheredStarts
  <2> QED
    BY <1>1, <2>1 DEF IsGathered
<1>3. \A e \in 0..n - 1 : e * tp \in 0..c - 1
  <2>1. TAKE e \in 0..n - 1
  <2>2. 0 \in 0..tp - 1 /\ e * tp + 0 + 1 = e * tp + 1 /\ e * tp \in Nat
    OBVIOUS
  <2>3. e * tp + 0 + 1 \in 1..c
    BY <1>2, <2>2
  <2> QED
    BY <2>2, <2>3
<1>4. /\ \A e \in 0..n - 1 : Prefix(sizes)[e * tp] \in Nat
      /\ Total(sizes) \in Nat /\ Total(sizes) = Prefix(sizes)[n * tp]
  <2>1. \A e \in 0..n - 1 : Prefix(sizes)[e * tp] \in Nat
    BY <1>2, <1>3, PrefixBounds
  <2>2. 0 \in 0..n - 1
    OBVIOUS
  <2>3. 0 * tp \in 0..c - 1
    BY <1>3, <2>2
  <2> QED
    BY <1>1, <1>2, <2>1, <2>3, PrefixBounds, PrefixSums
<1>5. /\ \A e \in 0..n - 1 : /\ Prefix(counts)[e] \in Nat /\ counts[e + 1] \in Nat
                              /\ Prefix(counts)[e + 1] = Prefix(counts)[e] + counts[e + 1]
      /\ Prefix(counts)[0] = 0 /\ Total(counts) = Prefix(counts)[n] /\ Total(counts) \in Nat
      /\ Prefix(sizes)[0] = 0
  <2>1. n \in Nat /\ 0 \in 0..n - 1
    OBVIOUS
  <2>2. \A e \in 0..n - 1 : counts[e + 1] \in Nat
    OBVIOUS
  <2> QED
    BY <1>2, <2>1, <2>2, PrefixBounds, PrefixSums
<1> DEFINE f == [e \in 0..n |-> Prefix(sizes)[e * tp] - Prefix(counts)[e]]
           g == [e \in 0..n |-> Prefix(sizes)[e * tp]]
<1>6. \A e \in 0..n : Prefix(sizes)[e * tp] \in Nat /\ Prefix(counts)[e] \in Nat
  <2>1. TAKE e \in 0..n
  <2>2. CASE e = n
    BY <1>4, <1>5, <2>2
  <2>3. CASE e # n
    <3>1. e \in 0..n - 1
      BY <2>3
    <3> QED
      BY <1>4, <1>5, <3>1
  <2> QED
    BY <2>2, <2>3
<1>7. /\ \A e \in 0..n : f[e] \in Int
      /\ \A e \in 0..n - 1 : f[e] <= f[e + 1] /\ g[e] + counts[e + 1] <= g[e + 1]
      /\ \A e \in 0..n : g[e] \in Int
  <2>1. \A e \in 0..n : f[e] \in Int /\ g[e] \in Int
    BY <1>6
  <2>2. ASSUME NEW e \in 0..n - 1 PROVE f[e] <= f[e + 1] /\ g[e] + counts[e + 1] <= g[e + 1]
    <3>1. e \in 0..n /\ e + 1 \in 0..n
      OBVIOUS
    <3>2. /\ f[e] = Prefix(sizes)[e * tp] - Prefix(counts)[e] /\ g[e] = Prefix(sizes)[e * tp]
          /\ f[e + 1] = Prefix(sizes)[(e + 1) * tp] - Prefix(counts)[e + 1]
          /\ g[e + 1] = Prefix(sizes)[(e + 1) * tp]
      BY <3>1
    <3>3. PICK size \in Nat : size = CeilDiv(counts[e + 1], tp) /\ counts[e + 1] <= size * tp
      BY <1>5, CeilIsEnough
    <3>4. tp * size = size * tp /\ tp * size \in Nat
      OBVIOUS
    <3>5. /\ Prefix(sizes)[(e + 1) * tp] = Prefix(sizes)[e * tp] + tp * size
          /\ Prefix(counts)[e + 1] = Prefix(counts)[e] + counts[e + 1]
          /\ Prefix(sizes)[e * tp] \in Nat /\ Prefix(counts)[e] \in Nat
          /\ counts[e + 1] \in Nat
      BY <1>2, <1>4, <1>5, <3>3
    <3>6. PICK x, y, z, o : /\ x = Prefix(sizes)[e * tp] /\ y = Prefix(counts)[e]
                            /\ z = tp * size /\ o = counts[e + 1]
      OBVIOUS
    <3>7. /\ x \in Nat /\ y \in Nat /\ z \in Nat /\ o \in Nat /\ o <= z
          /\ f[e] = x - y /\ g[e] = x /\ f[e + 1] = (x + z) - (y + o) /\ g[e + 1] = x + z
      BY <3>2, <3>3, <3>4, <3>5, <3>6
    <3> HIDE DEF f, g
    <3>8. x - y <= (x + z) - (y + o) /\ x + o <= x + z
      BY <3>7
    <3> QED
      BY <3>6, <3>7, <3>8
  <2> HIDE DEF f, g
  <2> QED
    BY <2>1, <2>2
<1>8. /\ f[0] = 0 /\ f[n] = Total(sizes) - Total(counts) /\ g[n] = Total(sizes)
      /\ f[d] = Prefix(sizes)[d * tp] - Prefix(counts)[d] /\ g[d] = Prefix(sizes)[d * tp]
  <2>1. 0 \in 0..n /\ n \in 0..n /\ d \in 0..n /\ 0 * tp = 0
    OBVIOUS
  <2>2. f[0] = Prefix(sizes)[0 * tp] - Prefix(counts)[0]
    BY <2>1
  <2> QED
    BY <1>4, <1>5, <2>1, <2>2
<1> HIDE DEF f, g
<1>9. f[0] <= f[d] /\ f[d] <= f[n] /\ g[d + 1] <= g[n]
  <2>1. n \in Nat /\ 0 \in 0..n /\ n \in 0..n /\ d \in 0..n /\ d + 1 \in 0..n
    OBVIOUS
  <2>2. Rises(f, n)
    BY <1>7 DEF Rises
  <2>3. f[0] <= f[d] /\ f[d] <= f[n]
    BY <2>1, <2>2, Ascending
  <2>4. \A e \in 0..n - 1 : g[e] <= g[e + 1]
    <3>1. TAKE e \in 0..n - 1
    <3>2. e \in 0..n /\ e + 1 \in 0..n
      OBVIOUS
    <3>3. g[e] \in Int /\ g[e + 1] \in Int /\ counts[e + 1] \in Nat
      BY <1>5, <1>7, <3>2
    <3> QED
      BY <1>7, <3>3
  <2>6. Rises(g, n)
    BY <1>7, <2>4 DEF Rises
  <2>5. g[d + 1] <= g[n]
    BY <2>1, <2>6, Ascending
  <2> QED
    BY <2>3, <2>5
<1>10. g[d] + counts[d + 1] <= g[d + 1] /\ g[d] \in Int /\ g[d + 1] \in Int /\ g[n] \in Int
       /\ counts[d + 1] \in Nat
  <2>1. d \in 0..n /\ d + 1 \in 0..n /\ n \in 0..n
    OBVIOUS
  <2> QED
    BY <1>5, <1>7, <2>1
<1>11. Prefix(counts)[d] \in Nat /\ Prefix(sizes)[d * tp] \in Nat
  BY <1>4, <1>5
<1>12. PICK x, y, o, u, v : /\ x = Prefix(sizes)[d * tp] /\ y = Prefix(counts)[d]
                            /\ o = counts[d + 1] /\ u = Total(sizes) /\ v = Total(counts)
  OBVIOUS
<1>13. PICK h : h = g[d + 1]
  OBVIOUS
<1>14. /\ x \in Nat /\ y \in Nat /\ o \in Nat /\ u \in Nat /\ v \in Nat /\ h \in Int
       /\ 0 <= x - y /\ x - y <= u - v /\ x + o <= h /\ h <= u
  BY <1>4, <1>5, <1>8, <1>9, <1>10, <1>11, <1>12, <1>13
<1>15. x + o <= u /\ v <= u /\ (v = u => y = x)
  BY <1>14
<1> QED
  BY <1>12, <1>14, <1>15 DEF HasSlack

LEMMA TokensHold ==
  ASSUME NEW n \in Nat, NEW counts \in [1..n -> Nat], NEW d \in 0..n - 1
  PROVE  /\ Len(Tokens(counts, d)) = counts[d + 1]
         /\ Holds(Tokens(counts, d), 0, d, counts[d + 1])
<1>1. d + 1 \in 1..n
  OBVIOUS
<1>2. PICK own, k : own \in Nat /\ own = counts[d + 1] /\ k = Tokens(counts, d)
  BY <1>1
<1>3. k \in Seq(Rows) /\ Len(k) = own /\ \A i \in 1..own : k[i] = <<d, i>>
  BY <1>2, TokensAreRows
<1>4. 0 + own = own /\ \A i \in 1..own : 0 + i = i
  BY <1>2
<1>5. Holds(k, 0, d, own)
  BY <1>3, <1>4 DEF Holds
<1> QED
  BY <1>2, <1>3, <1>5

LEMMA GatheredHolds ==
  ASSUME NEW n \in Nat \ {0}, NEW counts \in [1..n -> Nat], NEW tp \in Nat \ {0},
         NEW sizes, NEW d \in 0..n - 1, NEW whole,
         HasSlack(sizes, counts, tp, d), HoldsAll(whole, sizes, counts, n, tp)
  PROVE  Holds(whole, Prefix(sizes)[d * tp], d, counts[d + 1])
BY DEF HasSlack, HoldsAll, Holds

LEMMA OwnWindow ==
  ASSUME NEW n \in Nat, NEW counts \in [1..n -> Nat], NEW d \in 0..n - 1,
         NEW source, NEW start, Holds(source, start, d, counts[d + 1])
  PROVE  SubSeq(source, start + 1, start + counts[d + 1]) = Tokens(counts, d)
<1>1. d + 1 \in 1..n
  OBVIOUS
<1>2. PICK own \in Nat : own = counts[d + 1]
  BY <1>1
<1>3. PICK w : w = SubSeq(source, start + 1, start + own)
  OBVIOUS
<1>4. w \in Seq(Rows) /\ Len(w) = own /\ \A j \in 1..own : w[j] = <<d, j>>
  <2>1. /\ source \in Seq(Rows) /\ start \in Nat /\ start + own <= Len(source)
        /\ \A i \in 1..own : source[start + i] = <<d, i>>
    BY <1>2 DEF Holds
  <2>2. w \in Seq(Rows) /\ Len(w) = own /\ \A j \in 1..own : w[j] = source[start + j]
    BY <1>3, <2>1, Window
  <2> QED
    BY <2>1, <2>2
<1>5. PICK k : k = Tokens(counts, d)
  OBVIOUS
<1>6. k \in Seq(Rows) /\ Len(k) = own /\ \A j \in 1..own : k[j] = <<d, j>>
  BY <1>2, <1>5, TokensAreRows
<1>7. w = k
  BY <1>4, <1>6, SeqEqual
<1> QED
  BY <1>2, <1>3, <1>5, <1>7

\* Every rank's tokens, one rank after the other.
LEMMA NaiveJoin ==
  ASSUME NEW n \in Nat, NEW counts \in [1..n -> Nat], NEW d \in 0..n - 1,
         NEW whole, whole = FlattenSeq([k \in 1..n |-> Tokens(counts, k - 1)])
  PROVE  /\ Holds(whole, Prefix(counts)[d], d, counts[d + 1])
         /\ Len(whole) = Total(counts)
<1> DEFINE seqs == [k \in 1..n |-> Tokens(counts, k - 1)]
<1>1. \A k \in 1..n : seqs[k] \in Seq(Rows) /\ Len(seqs[k]) = counts[k]
  <2>1. TAKE k \in 1..n
  <2>2. PICK e \in 0..n - 1 : e = k - 1 /\ e + 1 = k
    OBVIOUS
  <2>3. Tokens(counts, e) \in Seq(Rows) /\ Len(Tokens(counts, e)) = counts[e + 1]
    BY TokensAreRows
  <2>4. seqs[k] = Tokens(counts, e)
    BY <2>2
  <2> HIDE DEF seqs
  <2> QED
    BY <2>2, <2>3, <2>4
<1>2. seqs \in [1..n -> Seq(Rows)] /\ HasLengths(seqs, counts, n)
  <2>1. seqs = [k \in 1..n |-> seqs[k]]
    OBVIOUS
  <2> HIDE DEF seqs
  <2> QED
    BY <1>1, <2>1 DEF HasLengths
<1>3. /\ Sums(n, counts, Starts(counts)) /\ Total(counts) = Prefix(counts)[n]
      /\ \A k \in 0..n : Prefix(counts)[k] = Starts(counts)[k + 1]
  BY PrefixSums
<1>4. IsJoin(Rows, whole, seqs, counts, Starts(counts), n)
  <2>1. whole = FlattenSeq(seqs)
    OBVIOUS
  <2> HIDE DEF seqs
  <2>2. IsJoin(Rows, FlattenSeq(seqs), seqs, counts, Starts(counts), n)
    BY <1>2, <1>3, FlattenParts
  <2> QED
    BY <2>1, <2>2, Zenon
<1>5. PICK own, a, m : own \in Nat /\ own = counts[d + 1] /\ a = Prefix(counts)[d] /\ m = Total(counts)
  <2>1. d + 1 \in 1..n
    OBVIOUS
  <2> QED
    BY <2>1
<1>6. a \in Nat /\ m \in Nat /\ a + own <= m
  BY <1>5, PrefixBounds
<1>7. a = Starts(counts)[d + 1] /\ whole \in Seq(Rows) /\ Len(whole) = m
  <2>1. d \in 0..n /\ n \in 0..n
    OBVIOUS
  <2>2. whole \in Seq(Rows) /\ Len(whole) = Starts(counts)[n + 1]
    <3> HIDE DEF seqs
    <3> QED
      BY <1>4 DEF IsJoin
  <2> QED
    BY <1>3, <1>5, <2>1, <2>2
<1>8. ASSUME NEW i \in 1..own PROVE whole[a + i] = <<d, i>>
  <2>1. d + 1 \in 1..n /\ (d + 1) - 1 = d
    OBVIOUS
  <2>2. whole[Starts(counts)[d + 1] + i] = seqs[d + 1][i]
    <3> HIDE DEF seqs
    <3> QED
      BY <1>4, <1>5, <2>1 DEF IsJoin, HoldsParts
  <2>3. seqs[d + 1] = Tokens(counts, d)
    BY <2>1
  <2>4. Tokens(counts, d)[i] = <<d, i>>
    BY <1>5, TokensAreRows
  <2> HIDE DEF seqs
  <2> QED
    BY <1>7, <2>2, <2>3, <2>4
<1>9. Holds(whole, a, d, own)
  BY <1>6, <1>7, <1>8 DEF Holds
<1> QED
  BY <1>5, <1>7, <1>9

Layouts == {"single", "naive", "modular", "gathered", "sequence"}

\* capture returns the rows of its own tokens, for any number of ranks, any
\* numbers of tokens and any TP size.
THEOREM CapturesOwn ==
  ASSUME NEW n \in Nat \ {0}, NEW counts \in [1..n -> Nat], NEW tp \in Nat \ {0},
         NEW layout \in Layouts
  PROVE  CapturesOwnTokens(layout, counts, tp)
<1>1. SUFFICES ASSUME NEW d \in 0..n - 1
               PROVE  Captured(layout, counts, tp, d, 0) = Tokens(counts, d)
  BY DEF CapturesOwnTokens, DpRanks
<1> DEFINE rows   == RowsSeen(layout, counts, tp, d, 0)
           sizes  == LocalSizes(layout, counts, tp)
           own    == counts[d + 1]
           branch == Branch(Len(rows), counts, sizes, tp, d)
           start  == CASE branch = "naive"    -> Prefix(counts)[d + 1] - own
                       [] branch = "gathered" -> GatheredStart(counts, sizes, d)
                       [] OTHER -> 0
           joined == FlattenSeq([k \in 1..tp |-> RowsSeen(layout, counts, tp, d, k - 1)])
           source == IF branch = "sequence" THEN joined ELSE rows
<1>2. Captured(layout, counts, tp, d, 0)
        = IF layout = "single" THEN rows
          ELSE IF branch = "unexpected" THEN <<"AssertionError">>
          ELSE SubSeq(source, start + 1, start + own)
  BY Zenon DEF Captured
<1>3. branch = IF Len(rows) = Total(counts) THEN "naive"
               ELSE IF Len(rows) = own THEN "modular"
               ELSE IF sizes # << >> /\ Len(rows) = Total(sizes) THEN "gathered"
               ELSE IF tp > 1 /\ Len(rows) = CeilDiv(own, tp) THEN "sequence"
               ELSE "unexpected"
  BY Zenon DEF Branch
<1>4. /\ own \in Nat /\ Prefix(counts)[d] \in Nat /\ Total(counts) \in Nat
      /\ Prefix(counts)[d + 1] - own = Prefix(counts)[d]
      /\ Prefix(counts)[d] + own <= Total(counts)
  <2>1. d + 1 \in 1..n /\ n \in Nat
    OBVIOUS
  <2>2. own \in Nat
    BY <2>1
  <2> HIDE DEF own
  <2>3. /\ Prefix(counts)[d] \in Nat /\ Total(counts) \in Nat
        /\ Prefix(counts)[d + 1] = Prefix(counts)[d] + own
        /\ Prefix(counts)[d] + own <= Total(counts)
    BY <2>1, PrefixBounds DEF own
  <2> QED
    BY <2>2, <2>3
<1>5. n \in Nat /\ Len(counts) = n
  OBVIOUS
<1> HIDE DEF branch, start, source
<1>6. SUFFICES ASSUME layout # "single"
               PROVE  branch # "unexpected" /\ Holds(source, start, d, own)
  <2>1. ASSUME layout = "single" PROVE Captured(layout, counts, tp, d, 0) = Tokens(counts, d)
    <3>1. rows = Tokens(counts, d)
      BY <2>1 DEF RowsSeen
    <3> QED
      BY <1>2, <2>1, <3>1
  <2>2. ASSUME branch # "unexpected", Holds(source, start, d, own), layout # "single"
        PROVE  Captured(layout, counts, tp, d, 0) = Tokens(counts, d)
    <3>1. SubSeq(source, start + 1, start + own) = Tokens(counts, d)
      BY <1>5, <2>2, OwnWindow
    <3> HIDE DEF own, rows
    <3> QED
      BY <1>2, <2>2, <3>1, Zenon
  <2> QED
    BY <2>1, <2>2
<1>7. /\ branch = "naive" => start = Prefix(counts)[d]
      /\ branch = "gathered" => start = GatheredStart(counts, sizes, d)
      /\ branch \in {"modular", "sequence"} => start = 0
      /\ branch = "sequence" => source = joined
      /\ branch # "sequence" => source = rows
  BY <1>4 DEF start, source
<1>8. CASE layout = "modular"
  <2>1. rows = Tokens(counts, d) /\ sizes = << >>
    BY <1>8 DEF RowsSeen, LocalSizes
  <2>2. Len(rows) = own /\ Holds(rows, 0, d, own)
    <3> HIDE DEF rows
    <3> QED
      BY <1>5, <2>1, TokensHold
  <2>3. branch \in {"naive", "modular"} /\ (branch = "naive" => Total(counts) = own)
    BY <1>3, <2>2
  <2>4. branch = "naive" => Prefix(counts)[d] = 0
    <3> HIDE DEF own
    <3> QED
      BY <1>4, <2>3
  <2> HIDE DEF rows, own
  <2> QED
    BY <1>7, <2>2, <2>3, <2>4
<1>9. CASE layout = "naive"
  <2>1. rows = FlattenSeq([k \in 1..n |-> Tokens(counts, k - 1)])
    BY <1>5, <1>9 DEF RowsSeen
  <2>2. Len(rows) = Total(counts) /\ Holds(rows, Prefix(counts)[d], d, own)
    <3> HIDE DEF rows
    <3> QED
      BY <1>5, <2>1, NaiveJoin
  <2>3. branch = "naive"
    BY <1>3, <2>2
  <2> HIDE DEF rows, own
  <2> QED
    BY <1>7, <2>2, <2>3
<1>10. CASE layout = "gathered"
  <2>1. rows = FlattenSeq([k \in 1..n * tp |->
                             ShardOf(counts, tp, (k - 1) \div tp, (k - 1) % tp)])
    BY <1>5, <1>10 DEF RowsSeen
  <2>2. sizes = LocalSizes("gathered", counts, tp)
    BY <1>10
  <2> HIDE DEF rows, sizes
  <2>8. HoldsAll(rows, sizes, counts, n, tp)
    BY <1>5, <2>1, <2>2, GatheredJoin
  <2>9. HasSlack(sizes, counts, tp, d)
    BY <2>2, GatheredSlack
  <2>5. Holds(rows, Prefix(sizes)[d * tp], d, own)
    BY <2>8, <2>9, GatheredHolds
  <2>3. rows \in Seq(Rows) /\ Len(rows) = Total(sizes)
    BY <2>8 DEF HoldsAll
  <2>4. /\ Prefix(sizes)[d * tp] \in Nat /\ Total(sizes) \in Nat
        /\ Prefix(sizes)[d * tp] + own <= Total(sizes)
        /\ Total(counts) <= Total(sizes)
        /\ Total(counts) = Total(sizes) => Prefix(counts)[d] = Prefix(sizes)[d * tp]
    BY <2>9 DEF HasSlack
  <2> HIDE DEF own
  <2>6. CASE Len(rows) = Total(counts)
    BY <1>3, <1>7, <2>3, <2>4, <2>5, <2>6
  <2>7. CASE Len(rows) # Total(counts)
    <3>1. Len(rows) # own
      BY <1>4, <2>3, <2>4, <2>7
    <3>2. sizes # << >> /\ Len(sizes) = n * tp /\ (n * tp) \div n = tp
      <4>1. IsGathered(sizes, counts, n, tp)
        BY <1>5, <2>2, GatheredStarts
      <4>2. n * tp \in Nat \ {0}
        <5>1. 1 * tp <= n * tp /\ n * tp \in Nat
          BY ProductGrows
        <5> QED
          BY <5>1
      <4>3. Len(sizes) = n * tp /\ 1 \in DOMAIN sizes
        BY <4>1, <4>2 DEF IsGathered
      <4>4. (n * tp) \div n = tp
        <5>1. PICK b \in Nat : b = n * tp
          BY <4>2
        <5>2. n * tp <= b /\ b < n * tp + n
          BY <4>2, <5>1
        <5>3. b \div n = tp
          BY <5>1, <5>2, Quotient
        <5> QED
          BY <5>1, <5>3
      <4> QED
        BY <4>3, <4>4
    <3>3. branch = "gathered"
      BY <1>3, <2>3, <2>7, <3>1, <3>2
    <3>4. GatheredStart(counts, sizes, d) = Prefix(sizes)[d * tp]
      BY <1>5, <3>2, Zenon DEF GatheredStart
    <3> QED
      BY <1>7, <2>5, <3>3, <3>4
  <2> QED
    BY <2>6, <2>7
<1>11. CASE layout = "sequence"
  <2>1. rows = ShardOf(counts, tp, d, 0) /\ sizes = << >>
    BY <1>11 DEF RowsSeen, LocalSizes
  <2>2. joined = FlattenSeq([k \in 1..tp |-> ShardOf(counts, tp, d, k - 1)])
    BY <1>11 DEF RowsSeen
  <2> HIDE DEF rows, sizes, joined
  <2>3. Holds(joined, 0, d, own)
    BY <1>5, <2>2, SequenceJoin
  <2>4. PICK size : size = CeilDiv(own, tp)
    OBVIOUS
  <2>5. size \in Nat /\ size <= own
    <3> HIDE DEF own
    <3> QED
      BY <1>4, <2>4, CeilIsEnough
  <2>6. IsShard(rows, d, 0 * size, size, own)
    <3>1. 0 \in 0..tp - 1
      OBVIOUS
    <3> QED
      BY <1>5, <2>1, <2>4, <3>1, ShardRows
  <2> HIDE DEF own
  <2>7. Len(rows) = size /\ (size = own => Holds(rows, 0, d, own))
    <3>1. 0 * size = 0
      BY <2>5
    <3> QED
      BY <1>4, <2>5, <2>6, <3>1 DEF IsShard, Holds
  <2>8. CASE Len(rows) = Total(counts)
    BY <1>3, <1>4, <1>7, <2>5, <2>7, <2>8
  <2>9. CASE Len(rows) # Total(counts) /\ size = own
    BY <1>3, <1>7, <2>7, <2>9
  <2>10. CASE Len(rows) # Total(counts) /\ size # own
    <3>1. tp > 1
      <4>1. tp = 1 => own <= size
        BY <1>4, <2>4, CeilIsEnough
      <4> QED
        BY <1>4, <2>5, <2>10, <4>1
    <3>2. branch = "sequence"
      BY <1>3, <2>1, <2>4, <2>7, <2>10, <3>1
    <3> QED
      BY <1>7, <2>3, <3>2
  <2> QED
    BY <2>8, <2>9, <2>10
<1> QED
  BY <1>6, <1>8, <1>9, <1>10, <1>11 DEF Layouts

-----------------------------------------------------------------------------
(* Hyper-connections.                                                      *)

\* What may be added to the state, and the marker of a forward that raised.
Kinds  == {"linear_attn", "self_attn", "moe", "mlp"}
Mixes  == [layer : Nat, hc : {"attn", "mlp"}, saw : Nat]
Blocks == [by : {"ple", "deepstack"}, input : Seq(Nat)]
Outs   == [out : [by : Kinds, input : Mixes], injection : Mixes]
Items  == Blocks \cup Outs \cup {"raised"}

IsModel(m) ==
  /\ m.layers \in Nat /\ m.deepstack \in Nat
  /\ m.ple \subseteq Int /\ IsFiniteSet(m.ple)

AppendIs(s, t, x) == /\ t \in Seq(Items) /\ t = s \o <<x>> /\ t # << >>

LEMMA AppendOne ==
  ASSUME NEW s \in Seq(Items), NEW x \in Items
  PROVE  AppendIs(s, Append(s, x), x) /\ <<x>> \in Seq(Items)
<1>1. <<x>> \in Seq(Items) /\ Append(s, x) \in Seq(Items)
  OBVIOUS
<1>2. Append(s, x) = s \o <<x>>
  OBVIOUS
<1>3. Append(s, x) # << >>
  BY AppendProperties
<1> QED
  BY <1>1, <1>2, <1>3 DEF AppendIs

LEMMA KindsAreNames ==
  ASSUME NEW m, NEW l
  PROVE  AttentionKind(m, l) \in Kinds /\ MlpKind(m, l) \in Kinds
BY DEF AttentionKind, MlpKind, Kinds

LEMMA BlockItem ==
  ASSUME NEW a \in Nat, NEW b \in Nat
  PROVE  Block("ple", <<a, b>>) \in Items /\ Block("deepstack", <<a>>) \in Items
<1>1. <<a, b>> \in Seq(Nat) /\ <<a>> \in Seq(Nat)
  OBVIOUS
<1>2. PICK s, t : s = <<a, b>> /\ t = <<a>>
  OBVIOUS
<1>3. Block("ple", s) \in Blocks /\ Block("deepstack", t) \in Blocks
  BY <1>1, <1>2 DEF Block, Blocks
<1> QED
  BY <1>2, <1>3 DEF Items

LEMMA OutItem ==
  ASSUME NEW l \in Nat, NEW n \in Nat, NEW hc \in {"attn", "mlp"}, NEW kind \in Kinds,
         NEW mix, mix = [layer |-> l, hc |-> hc, saw |-> n]
  PROVE  [out |-> Block(kind, mix), injection |-> mix] \in Items
<1>1. mix \in Mixes
  BY DEF Mixes
<1>2. Block(kind, mix) \in [by : Kinds, input : Mixes]
  BY <1>1 DEF Block
<1> QED
  BY <1>1, <1>2 DEF Items, Outs

\* What a layer does to state and pending is what EagerLayer adds to both.
IsLayer(m, l, deep, after, before) ==
  /\ after.state \in Seq(Items) /\ after.pending \in Seq(Items)
  /\ after = [state |-> after.state, pending |-> after.pending]
  /\ after.state \o after.pending = EagerLayer(m, l, deep, before)
  /\ ~(deep /\ l < m.deepstack) => after.pending # << >>

LEMMA LayerAdds ==
  ASSUME NEW m, IsModel(m), NEW l \in Nat, NEW deep \in BOOLEAN,
         NEW state \in Seq(Items), NEW pending \in Seq(Items)
  PROVE  IsLayer(m, l, deep, WithDeepstack(m, l, deep, DecoderLayer(m, l, state, pending)),
                 state \o pending)
<1>1. PICK before : before = state \o pending
  OBVIOUS
<1>2. before \in Seq(Items) /\ Len(before) \in Nat
  BY <1>1
<1>3. PICK dense : dense = Cardinality({i \in m.ple : i < l + 1})
  OBVIOUS
<1>4. dense \in Nat /\ dense = Cardinality({i \in m.ple : i <= l})
  <2>1. {i \in m.ple : i < l + 1} = {i \in m.ple : i <= l}
    BY DEF IsModel
  <2>2. IsFiniteSet({i \in m.ple : i < l + 1})
    BY FS_Subset DEF IsModel
  <2> QED
    BY <1>3, <2>1, <2>2, FS_CardinalityType, Zenon
<1>5. PICK x : x = Block("ple", <<dense, Len(before)>>)
  OBVIOUS
<1>6. x \in Items
  BY <1>2, <1>4, <1>5, BlockItem
<1> DEFINE ple     == IF l + 1 \in m.ple THEN <<x>> ELSE << >>
           withPle == IF l + 1 \in m.ple THEN Append(before, x) ELSE before
<1>7. withPle = before \o ple /\ withPle \in Seq(Items)
  BY <1>2, <1>6, AppendOne DEF AppendIs
<1>8. PICK p : p = withPle
  OBVIOUS
<1> HIDE DEF ple, withPle
<1>9. p \in Seq(Items) /\ Len(p) \in Nat
  BY <1>7, <1>8
<1> DEFINE attn == [layer |-> l, hc |-> "attn", saw |-> Len(p)]
           y    == [out |-> Block(AttentionKind(m, l), attn), injection |-> attn]
<1>10. y \in Items
  <2> HIDE DEF attn
  <2> QED
    BY <1>9, KindsAreNames, OutItem DEF attn
<1>11. PICK atMlp : atMlp = p \o <<y>>
  OBVIOUS
<1>12. atMlp \in Seq(Items) /\ Len(atMlp) \in Nat /\ Append(p, y) = atMlp
  <2> HIDE DEF y
  <2> QED
    BY <1>9, <1>10, <1>11, AppendOne DEF AppendIs
<1> DEFINE mlp == [layer |-> l, hc |-> "mlp", saw |-> Len(atMlp)]
           z   == [out |-> Block(MlpKind(m, l), mlp), injection |-> mlp]
<1>13. z \in Items
  <2> HIDE DEF mlp
  <2> QED
    BY <1>12, KindsAreNames, OutItem DEF mlp
<1>14. PICK whole : whole = Append(atMlp, z)
  OBVIOUS
<1>15. whole \in Seq(Items) /\ whole = atMlp \o <<z>> /\ <<z>> \in Seq(Items) /\ <<z>> # << >>
  <2> HIDE DEF z
  <2> QED
    BY <1>12, <1>13, <1>14, AppendOne DEF AppendIs
<1>16. PICK w : w = Block("deepstack", <<l>>)
  OBVIOUS
<1>17. w \in Items
  BY <1>16, BlockItem
<1>18. DecoderLayer(m, l, state, pending) = [state |-> atMlp, pending |-> <<z>>]
  BY <1>1, <1>3, <1>5, <1>8, <1>11 DEF DecoderLayer, HasPle, Combine, Mixed, PleDenseId, withPle
<1>19. EagerLayer(m, l, deep, before)
         = IF deep /\ l < m.deepstack THEN Append(whole, w) ELSE whole
  BY <1>4, <1>5, <1>7, <1>8, <1>12, <1>14, <1>16, ZenonT(30) DEF EagerLayer, ple
<1> HIDE DEF y, z, attn, mlp
<1>20. PICK after : after = WithDeepstack(m, l, deep, DecoderLayer(m, l, state, pending))
  OBVIOUS
<1>21. CASE deep /\ l < m.deepstack
  <2>1. after = [state |-> Append(whole, w), pending |-> << >>]
    BY <1>15, <1>16, <1>18, <1>20, <1>21 DEF WithDeepstack, Combine
  <2>2. Append(whole, w) \in Seq(Items)
    BY <1>15, <1>17, AppendOne DEF AppendIs
  <2>3. Append(whole, w) \o << >> = Append(whole, w) /\ << >> \in Seq(Items)
    BY <2>2
  <2>4. after.state = Append(whole, w) /\ after.pending = << >>
    BY <2>1
  <2>5. EagerLayer(m, l, deep, before) = Append(whole, w)
    BY <1>19, <1>21
  <2>6. IsLayer(m, l, deep, after, before)
    BY <1>21, <2>1, <2>2, <2>3, <2>4, <2>5 DEF IsLayer
  <2> QED
    BY <1>1, <1>20, <2>6
<1>22. CASE ~(deep /\ l < m.deepstack)
  <2>1. after = [state |-> atMlp, pending |-> <<z>>]
    BY <1>18, <1>20, <1>22 DEF WithDeepstack
  <2> QED
    BY <1>1, <1>12, <1>15, <1>19, <1>20, <1>22, <2>1 DEF IsLayer
<1> QED
  BY <1>20, <1>21, <1>22

LEMMA EagerLayerType ==
  ASSUME NEW m, IsModel(m), NEW l \in Nat, NEW deep \in BOOLEAN, NEW before \in Seq(Items)
  PROVE  EagerLayer(m, l, deep, before) \in Seq(Items)
<1>1. << >> \in Seq(Items) /\ before \o << >> = before
  OBVIOUS
<1>2. PICK none : none = << >>
  OBVIOUS
<1>3. PICK after : IsLayer(m, l, deep, after, before \o none)
  BY <1>1, <1>2, LayerAdds
<1>4. IsLayer(m, l, deep, after, before)
  BY <1>1, <1>2, <1>3
<1>5. after.state \o after.pending = EagerLayer(m, l, deep, before)
      /\ after.state \in Seq(Items) /\ after.pending \in Seq(Items)
  BY <1>4 DEF IsLayer
<1>6. PICK a, b : a = after.state /\ b = after.pending
  OBVIOUS
<1>7. a \o b \in Seq(Items)
  BY <1>5, <1>6, ConcatProperties
<1> QED
  BY <1>5, <1>6, <1>7

\* The states before every layer of a model, by its recursion.
AreEager(e, m, embeds) ==
  /\ e \in [0..m.layers -> Seq(Items)] /\ e[0] = << >>
  /\ \A l \in 0..m.layers - 1 : e[l + 1] = EagerLayer(m, l, embeds, e[l])

LEMMA EagerSteps ==
  ASSUME NEW m, IsModel(m), NEW embeds \in BOOLEAN
  PROVE  AreEager(EagerStates(m, embeds), m, embeds)
<1> DEFINE st == [l \in 0 + 1..m.layers |->
                    [s \in Seq(Items) |-> EagerLayer(m, l - 1, embeds, s)]]
           e  == EagerStates(m, embeds)
<1>1. m.layers \in Nat /\ 0 \in Int /\ m.layers \in Int /\ 0 <= m.layers /\ << >> \in Seq(Items)
  BY DEF IsModel
<1>2. st \in [0 + 1..m.layers -> [Seq(Items) -> Seq(Items)]]
  <2>1. \A l \in 0 + 1..m.layers : \A s \in Seq(Items) :
          EagerLayer(m, l - 1, embeds, s) \in Seq(Items)
    <3>1. TAKE l \in 0 + 1..m.layers
    <3>2. TAKE s \in Seq(Items)
    <3>3. l - 1 \in Nat
      BY <1>1
    <3> QED
      BY <3>3, EagerLayerType
  <2> QED
    BY <2>1
<1>3. PICK f \in [0..m.layers -> Seq(Items)] : Follows(f, << >>, st, 0, m.layers)
  <2> HIDE DEF st
  <2> QED
    BY <1>1, <1>2, RecursionFrom
<1>4. f = [l \in 0..m.layers |-> IF l = 0 THEN << >> ELSE EagerLayer(m, l - 1, embeds, f[l - 1])]
  <2>1. ASSUME NEW l \in 0..m.layers
        PROVE  f[l] = IF l = 0 THEN << >> ELSE EagerLayer(m, l - 1, embeds, f[l - 1])
    <3>1. f[l] = IF l = 0 THEN << >> ELSE st[l][f[l - 1]]
      <4> HIDE DEF st
      <4> QED
        BY <1>3 DEF Follows
    <3>2. ASSUME l # 0 PROVE st[l][f[l - 1]] = EagerLayer(m, l - 1, embeds, f[l - 1])
      <4>1. l \in 0 + 1..m.layers /\ l - 1 \in 0..m.layers
        BY <1>1, <3>2
      <4>2. f[l - 1] \in Seq(Items)
        BY <4>1
      <4> QED
        BY <4>1, <4>2
    <3> HIDE DEF st
    <3> QED
      BY <3>1, <3>2
  <2>2. f = [l \in 0..m.layers |-> f[l]]
    BY <1>3
  <2> HIDE DEF st
  <2> QED
    BY <2>1, <2>2
<1>5. e = [l \in 0..m.layers |-> IF l = 0 THEN << >> ELSE EagerLayer(m, l - 1, embeds, e[l - 1])]
  <2>1. \E h : h = [l \in 0..m.layers |->
                      IF l = 0 THEN << >> ELSE EagerLayer(m, l - 1, embeds, h[l - 1])]
    BY <1>4
  <2> QED
    BY <2>1, Zenon DEF EagerStates
<1> HIDE DEF e
<1>6. e[0] = << >> /\ \A l \in 0..m.layers - 1 : e[l + 1] = EagerLayer(m, l, embeds, e[l])
  <2>1. 0 \in 0..m.layers
    BY <1>1
  <2>2. ASSUME NEW l \in 0..m.layers - 1 PROVE e[l + 1] = EagerLayer(m, l, embeds, e[l])
    <3>1. l + 1 \in 0..m.layers /\ l + 1 # 0 /\ (l + 1) - 1 = l
      BY <1>1
    <3>2. e[l + 1] = EagerLayer(m, (l + 1) - 1, embeds, e[(l + 1) - 1])
      BY <1>5, <3>1
    <3> QED
      BY <3>1, <3>2
  <2> QED
    BY <1>5, <2>1, <2>2
<1>7. \A l \in 0..m.layers : e[l] \in Seq(Items)
  <2> DEFINE P == {l \in 0..m.layers : e[l] \in Seq(Items)}
  <2>1. 0 \in P
    <3>1. 0 \in 0..m.layers /\ e[0] \in Seq(Items)
      BY <1>1, <1>6
    <3> QED
      BY <3>1
  <2>2. \A l \in 0..m.layers - 1 : l \in P => l + 1 \in P
    <3>1. TAKE l \in 0..m.layers - 1
    <3>2. HAVE l \in P
    <3>3. l \in Nat /\ l + 1 \in 0..m.layers
      BY <1>1
    <3> QED
      BY <1>6, <3>2, <3>3, EagerLayerType
  <2>3. 0..m.layers \subseteq P
    <3> HIDE DEF P
    <3> QED
      BY <1>1, <2>1, <2>2, Induction
  <2> QED
    BY <2>3
<1>8. e \in [0..m.layers -> Seq(Items)]
  <2>1. e = [l \in 0..m.layers |-> e[l]]
    BY <1>5
  <2> QED
    BY <1>7, <2>1
<1> QED
  BY <1>6, <1>8 DEF AreEager, e

Pairs == [state : Seq(Items), pending : Seq(Items)]

\* What layer l makes of a state and its pending combine.
LayerOf(m, l, deep, x) == WithDeepstack(m, l, deep, DecoderLayer(m, l, x.state, x.pending))

LEMMA LayerOfType ==
  ASSUME NEW m, IsModel(m), NEW l \in Nat, NEW deep \in BOOLEAN, NEW x \in Pairs
  PROVE  /\ LayerOf(m, l, deep, x) \in Pairs
         /\ IsLayer(m, l, deep, LayerOf(m, l, deep, x), x.state \o x.pending)
<1>1. PICK a, b : a = x.state /\ b = x.pending
  OBVIOUS
<1>2. a \in Seq(Items) /\ b \in Seq(Items)
  BY <1>1 DEF Pairs
<1>3. IsLayer(m, l, deep, WithDeepstack(m, l, deep, DecoderLayer(m, l, a, b)), a \o b)
  BY <1>2, LayerAdds
<1>4. IsLayer(m, l, deep, LayerOf(m, l, deep, x), x.state \o x.pending)
  BY <1>1, <1>3 DEF LayerOf
<1>5. PICK y : y = LayerOf(m, l, deep, x)
  OBVIOUS
<1>6. /\ y.state \in Seq(Items) /\ y.pending \in Seq(Items)
      /\ y = [state |-> y.state, pending |-> y.pending]
  BY <1>4, <1>5 DEF IsLayer
<1>7. y \in Pairs
  BY <1>6 DEF Pairs
<1> QED
  BY <1>4, <1>5, <1>7

\* The layers of a rank, one after the other.
AreRank(after, m, first, last, deep, state) ==
  /\ after \in [first..last -> Pairs]
  /\ after[first] = [state |-> state, pending |-> << >>]
  /\ \A l \in first..last - 1 : after[l + 1] = LayerOf(m, l, deep, after[l])
  /\ RankLayers(m, first, last, deep, state) = after[last]

LEMMA RankSteps ==
  ASSUME NEW m, IsModel(m), NEW first \in Nat, NEW last \in Nat, first <= last,
         NEW deep \in BOOLEAN, NEW state \in Seq(Items)
  PROVE  \E after : AreRank(after, m, first, last, deep, state)
<1> DEFINE st == [l \in first + 1..last |-> [x \in Pairs |-> LayerOf(m, l - 1, deep, x)]]
           start == [state |-> state, pending |-> << >>]
<1>1. start \in Pairs /\ first \in Int /\ last \in Int
  BY DEF Pairs
<1>2. st \in [first + 1..last -> [Pairs -> Pairs]]
  <2>1. \A l \in first + 1..last : \A x \in Pairs : LayerOf(m, l - 1, deep, x) \in Pairs
    <3>1. TAKE l \in first + 1..last
    <3>2. TAKE x \in Pairs
    <3>3. l - 1 \in Nat
      OBVIOUS
    <3> QED
      BY <3>3, LayerOfType
  <2> QED
    BY <2>1
<1>3. PICK f \in [first..last -> Pairs] : Follows(f, start, st, first, last)
  <2> HIDE DEF st, start
  <2> QED
    BY <1>1, <1>2, RecursionFrom
<1>4. \A l \in first..last :
        f[l] = IF l = first THEN start ELSE LayerOf(m, l - 1, deep, f[l - 1])
  <2>1. TAKE l \in first..last
  <2>2. f[l] = IF l = first THEN start ELSE st[l][f[l - 1]]
    <3> HIDE DEF st, start
    <3> QED
      BY <1>3 DEF Follows
  <2>3. ASSUME l # first PROVE st[l][f[l - 1]] = LayerOf(m, l - 1, deep, f[l - 1])
    <3>1. l \in first + 1..last /\ l - 1 \in first..last
      BY <2>3
    <3>2. f[l - 1] \in Pairs
      BY <3>1
    <3> QED
      BY <3>1, <3>2
  <2> HIDE DEF st, start
  <2> QED
    BY <2>2, <2>3
<1> DEFINE body(h) == [l \in first..last |->
                        IF l = first THEN start
                        ELSE WithDeepstack(m, l - 1, deep,
                               DecoderLayer(m, l - 1, h[l - 1].state, h[l - 1].pending))]
<1>5. f = body(f)
  <2>1. f = [l \in first..last |-> f[l]]
    BY <1>3
  <2>2. \A l \in first..last :
          f[l] = IF l = first THEN start
                 ELSE WithDeepstack(m, l - 1, deep,
                        DecoderLayer(m, l - 1, f[l - 1].state, f[l - 1].pending))
    <3> HIDE DEF start
    <3> QED
      BY <1>4, Zenon DEF LayerOf
  <2> HIDE DEF start
  <2> QED
    BY <2>1, <2>2
<1>6. PICK h : h = (CHOOSE g : g = body(g)) /\ h = body(h)
  <2>1. \E g : g = body(g)
    BY <1>5, Zenon
  <2> HIDE DEF body
  <2> QED
    BY <2>1, Zenon
<1>7. RankLayers(m, first, last, deep, state) = h[last]
  BY <1>6, Zenon DEF RankLayers, body, start
<1>8. \A l \in first..last : h[l] = IF l = first THEN start ELSE LayerOf(m, l - 1, deep, h[l - 1])
  <2> HIDE DEF start
  <2>1. h = [l \in first..last |-> IF l = first THEN start ELSE LayerOf(m, l - 1, deep, h[l - 1])]
    BY <1>6, Zenon DEF body, LayerOf
  <2> QED
    BY <2>1
<1> HIDE DEF start, st
<1>9. h[first] = start /\ \A l \in first..last - 1 : h[l + 1] = LayerOf(m, l, deep, h[l])
  <2>1. first \in first..last
    OBVIOUS
  <2>2. ASSUME NEW l \in first..last - 1 PROVE h[l + 1] = LayerOf(m, l, deep, h[l])
    <3>1. l + 1 \in first..last /\ l + 1 # first /\ (l + 1) - 1 = l
      OBVIOUS
    <3>2. h[l + 1] = LayerOf(m, (l + 1) - 1, deep, h[(l + 1) - 1])
      BY <1>8, <3>1
    <3> QED
      BY <3>1, <3>2
  <2> QED
    BY <1>8, <2>1, <2>2
<1>10. h = f
  <2> DEFINE P == {i \in 0..last - first : h[first + i] = f[first + i]}
  <2>1. last - first \in Nat
    OBVIOUS
  <2>2. 0 \in P
    <3>1. first + 0 = first /\ first \in first..last
      OBVIOUS
    <3> QED
      BY <1>4, <1>9, <2>1, <3>1
  <2>3. \A i \in 0..(last - first) - 1 : i \in P => i + 1 \in P
    <3>1. TAKE i \in 0..(last - first) - 1
    <3>2. HAVE i \in P
    <3>3. PICK l : l = first + i
      OBVIOUS
    <3>4. /\ l \in first..last - 1 /\ l + 1 = first + (i + 1) /\ i + 1 \in 0..last - first
          /\ l + 1 \in first..last /\ l + 1 # first /\ (l + 1) - 1 = l
      BY <3>3
    <3>5. f[l + 1] = LayerOf(m, l, deep, f[l])
      <4>1. f[l + 1] = LayerOf(m, (l + 1) - 1, deep, f[(l + 1) - 1])
        BY <1>4, <3>4
      <4> QED
        BY <3>4, <4>1
    <3>6. h[l + 1] = LayerOf(m, l, deep, h[l]) /\ h[l] = f[l]
      BY <1>9, <3>2, <3>3, <3>4
    <3> QED
      BY <3>4, <3>5, <3>6
  <2>4. 0..last - first \subseteq P
    <3> HIDE DEF P
    <3> QED
      BY <2>1, <2>2, <2>3, Induction
  <2>5. \A l \in first..last : h[l] = f[l]
    <3>1. TAKE l \in first..last
    <3>2. l - first \in 0..last - first /\ first + (l - first) = l
      OBVIOUS
    <3> QED
      BY <2>4, <3>2
  <2>6. h = [l \in first..last |-> h[l]]
    <3>1. h = body(h)
      BY <1>6
    <3> QED
      BY <3>1
  <2>7. f = [l \in first..last |-> f[l]]
    BY <1>3
  <2> HIDE DEF body
  <2> QED
    BY <2>5, <2>6, <2>7
<1>11. AreRank(h, m, first, last, deep, state)
  BY <1>3, <1>7, <1>9, <1>10 DEF AreRank, start
<1> QED
  BY <1>11

\* On a rank that adds the deepstack levels of its layers, state and pending
\* together are always the state in which nothing was delayed.
SameLevels(m, first, last, deep, embeds) ==
  \A l \in first..last - 1 : (deep /\ l < m.deepstack) <=> (embeds /\ l < m.deepstack)

RankEnds(x, m, last, e) ==
  /\ x \in Pairs /\ x.state \o x.pending = e[last]
  /\ m.deepstack < last => x.pending # << >>

LEMMA RankKeeps ==
  ASSUME NEW m, IsModel(m), NEW embeds \in BOOLEAN, NEW deep \in BOOLEAN,
         NEW e, AreEager(e, m, embeds),
         NEW first \in Nat, NEW last \in Nat, first < last, last <= m.layers,
         SameLevels(m, first, last, deep, embeds),
         NEW after, AreRank(after, m, first, last, deep, e[first])
  PROVE  RankEnds(after[last], m, last, e)
<1> DEFINE P == {i \in 0..last - first :
                   after[first + i].state \o after[first + i].pending = e[first + i]}
<1>1. last - first \in Nat /\ m.layers \in Nat /\ m.deepstack \in Nat
  BY DEF IsModel
<1>2. 0 \in P
  <2>1. first + 0 = first /\ first \in 0..m.layers
    BY <1>1
  <2>2. e[first] \in Seq(Items)
    BY <2>1 DEF AreEager
  <2>3. PICK a : a = e[first]
    OBVIOUS
  <2>4. after[first].state = a /\ after[first].pending = << >>
    BY <2>3 DEF AreRank
  <2>5. a \o << >> = a
    BY <2>2, <2>3
  <2>6. after[first].state \o after[first].pending = e[first]
    BY <2>3, <2>4, <2>5, Zenon
  <2>7. PICK z : z = first + 0
    OBVIOUS
  <2>8. z = first /\ 0 \in 0..last - first
    BY <1>1, <2>7
  <2>9. after[z].state \o after[z].pending = e[z]
    BY <2>6, <2>8, Zenon
  <2> QED
    BY <2>7, <2>8, <2>9, Zenon
<1>3. ASSUME NEW l \in first..last - 1
      PROVE  /\ after[l] \in Pairs /\ after[l + 1] \in Pairs
             /\ IsLayer(m, l, deep, after[l + 1], after[l].state \o after[l].pending)
  <2>1. l \in Nat /\ l \in first..last /\ l + 1 \in first..last
    OBVIOUS
  <2>2. after[l] \in Pairs /\ after[l + 1] \in Pairs /\ after[l + 1] = LayerOf(m, l, deep, after[l])
    BY <2>1 DEF AreRank
  <2> QED
    BY <2>1, <2>2, LayerOfType
<1>4. \A i \in 0..(last - first) - 1 : i \in P => i + 1 \in P
  <2>1. TAKE i \in 0..(last - first) - 1
  <2>2. HAVE i \in P
  <2>3. PICK l : l = first + i
    OBVIOUS
  <2>4. l \in first..last - 1 /\ l + 1 = first + (i + 1) /\ i + 1 \in 0..last - first
        /\ l \in 0..m.layers - 1
    BY <1>1, <2>3
  <2>5. after[l].state \o after[l].pending = e[l]
    BY <2>2, <2>3
  <2>6. after[l + 1].state \o after[l + 1].pending = EagerLayer(m, l, deep, e[l])
    BY <1>3, <2>4, <2>5 DEF IsLayer
  <2>7. EagerLayer(m, l, deep, e[l]) = EagerLayer(m, l, embeds, e[l])
    <3>1. (deep /\ l < m.deepstack) <=> (embeds /\ l < m.deepstack)
      BY <2>4 DEF SameLevels
    <3> QED
      BY <3>1 DEF EagerLayer
  <2>8. e[l + 1] = EagerLayer(m, l, embeds, e[l])
    BY <2>4 DEF AreEager
  <2> QED
    BY <2>4, <2>6, <2>7, <2>8
<1>5. 0..last - first \subseteq P
  <2> HIDE DEF P
  <2> QED
    BY <1>1, <1>2, <1>4, Induction
<1>6. after[last].state \o after[last].pending = e[last]
  <2>1. last - first \in 0..last - first /\ first + (last - first) = last
    BY <1>1
  <2> QED
    BY <1>5, <2>1
<1>7. PICK l : l = last - 1
  OBVIOUS
<1>8. l \in first..last - 1 /\ l + 1 = last
  BY <1>7
<1>9. after[last] \in Pairs
  BY <1>3, <1>8
<1>10. ASSUME m.deepstack < last PROVE after[last].pending # << >>
  <2>1. ~(l < m.deepstack)
    BY <1>1, <1>7, <1>10
  <2>2. IsLayer(m, l, deep, after[last], after[l].state \o after[l].pending)
    BY <1>3, <1>8
  <2> QED
    BY <2>1, <2>2 DEF IsLayer
<1> QED
  BY <1>6, <1>9, <1>10 DEF RankEnds

LEMMA RankForwardType ==
  ASSUME NEW m, IsModel(m), NEW first \in Nat, NEW last \in Nat, first <= last,
         NEW isLast \in BOOLEAN, NEW deep \in BOOLEAN, NEW state \in Seq(Items)
  PROVE  RankForward(m, first, last, isLast, deep, state) \in Seq(Items)
<1>1. PICK after : AreRank(after, m, first, last, deep, state)
  BY RankSteps
<1>2. PICK x : x = after[last]
  OBVIOUS
<1>3. x \in Pairs /\ RankLayers(m, first, last, deep, state) = x
  <2>1. last \in first..last
    OBVIOUS
  <2> QED
    BY <1>1, <1>2, <2>1 DEF AreRank
<1>4. PICK a, b : a = x.state /\ b = x.pending
  OBVIOUS
<1>5. a \in Seq(Items) /\ b \in Seq(Items)
  BY <1>3, <1>4 DEF Pairs
<1>6. a \o b \in Seq(Items)
  BY <1>5, ConcatProperties
<1>7. Raised \in Seq(Items)
  <2>1. "raised" \in Items
    BY DEF Items
  <2> QED
    BY <2>1 DEF Raised
<1>8. RankForward(m, first, last, isLast, deep, state) \in {Raised, a \o b}
  BY <1>3, <1>4 DEF RankForward, Combine
<1> QED
  BY <1>6, <1>7, <1>8

\* A rank takes the state in which nothing was delayed to the one behind its
\* last layer.
LEMMA RankAdds ==
  ASSUME NEW m, IsModel(m), NEW embeds \in BOOLEAN, NEW deep \in BOOLEAN,
         NEW e, AreEager(e, m, embeds),
         NEW first \in Nat, NEW last \in Nat, first < last, last <= m.layers,
         SameLevels(m, first, last, deep, embeds),
         NEW isLast \in BOOLEAN, isLast => m.deepstack < last
  PROVE  RankForward(m, first, last, isLast, deep, e[first]) = e[last]
<1>1. e[first] \in Seq(Items)
  <2>1. first \in 0..m.layers
    BY DEF IsModel
  <2> QED
    BY <2>1 DEF AreEager
<1>2. PICK after : AreRank(after, m, first, last, deep, e[first])
  BY <1>1, RankSteps
<1>5. RankEnds(after[last], m, last, e)
  BY <1>2, RankKeeps
<1>3. /\ after[last].state \o after[last].pending = e[last]
      /\ m.deepstack < last => after[last].pending # << >>
  BY <1>5 DEF RankEnds
<1>4. RankLayers(m, first, last, deep, e[first]) = after[last]
  BY <1>2 DEF AreRank
<1> QED
  BY <1>3, <1>4 DEF RankForward, Combine

\* A model's layers in n ranks, none of them empty, that are not refused.
AreBounds(m, bounds, n) ==
  /\ bounds \in [1..n + 1 -> 0..m.layers]
  /\ bounds[1] = 0 /\ bounds[n + 1] = m.layers
  /\ \A k \in 1..n : bounds[k] < bounds[k + 1]
  /\ ~Refused(m, bounds) /\ m.deepstack < m.layers

LevelsOf(m, embeds, k) == k = 1 /\ embeds /\ m.deepstack > 0

LEMMA OneRank ==
  ASSUME NEW m, IsModel(m), NEW embeds \in BOOLEAN, NEW n \in Nat \ {0}, NEW bounds,
         AreBounds(m, bounds, n), NEW e, AreEager(e, m, embeds), NEW k \in 1..n
  PROVE  RankForward(m, bounds[k], bounds[k + 1], k = n, LevelsOf(m, embeds, k), e[bounds[k]])
           = e[bounds[k + 1]]
<1>1. k \in 1..n + 1 /\ k + 1 \in 1..n + 1 /\ m.layers \in Nat /\ m.deepstack \in Nat
  BY DEF IsModel
<1>2. PICK a, b : a = bounds[k] /\ b = bounds[k + 1]
  OBVIOUS
<1>3. a \in Nat /\ b \in Nat /\ a < b /\ b <= m.layers /\ (k = n => b = m.layers)
      /\ (k = 1 => a = 0)
  BY <1>1, <1>2 DEF AreBounds
<1>4. Ranks(bounds) = n
  <2>1. Len(bounds) = n + 1
    BY DEF AreBounds
  <2> QED
    BY <2>1 DEF Ranks
<1>5. PICK deep : deep = LevelsOf(m, embeds, k)
  OBVIOUS
<1>6. deep \in BOOLEAN
  BY <1>5 DEF LevelsOf
<1>7. SameLevels(m, a, b, deep, embeds)
  <2>1. CASE k = 1
    BY <1>1, <1>3, <1>5, <2>1 DEF SameLevels, LevelsOf
  <2>2. CASE k # 1
    <3>1. k \in 2..Ranks(bounds)
      BY <1>4, <2>2
    <3>2. m.deepstack > 0 => ~(a < m.deepstack)
      BY <1>2, <3>1 DEF AreBounds, Refused
    <3> QED
      BY <1>1, <1>3, <1>5, <2>2, <3>2 DEF SameLevels, LevelsOf
  <2> QED
    BY <2>1, <2>2
<1>8. PICK isLast : isLast = (k = n)
  OBVIOUS
<1>9. isLast \in BOOLEAN /\ (isLast => m.deepstack < b)
  BY <1>3, <1>8 DEF AreBounds
<1>10. RankForward(m, a, b, isLast, deep, e[a]) = e[b]
  BY <1>3, <1>6, <1>7, <1>9, RankAdds
<1> QED
  BY <1>2, <1>5, <1>8, <1>10, Zenon

LEMMA ForwardIsEager ==
  ASSUME NEW m, IsModel(m), NEW embeds \in BOOLEAN, NEW n \in Nat \ {0}, NEW bounds,
         AreBounds(m, bounds, n)
  PROVE  Forward(m, bounds, embeds) = EagerState(m, embeds)
<1> DEFINE Step(k, x) == RankForward(m, bounds[k], bounds[k + 1], k = n, LevelsOf(m, embeds, k), x)
           st == [k \in 0 + 1..n |-> [x \in Seq(Items) |-> Step(k, x)]]
           body(h) == [k \in 0..n |-> IF k = 0 THEN << >> ELSE Step(k, h[k - 1])]
           e == EagerStates(m, embeds)
<1>1. n \in Nat /\ 0 \in Int /\ n \in Int /\ 0 <= n /\ << >> \in Seq(Items) /\ Ranks(bounds) = n
  <2>1. Len(bounds) = n + 1
    BY DEF AreBounds
  <2> QED
    BY <2>1 DEF Ranks
<1>2. st \in [0 + 1..n -> [Seq(Items) -> Seq(Items)]]
  <2>1. \A k \in 0 + 1..n : \A x \in Seq(Items) : Step(k, x) \in Seq(Items)
    <3>1. TAKE k \in 0 + 1..n
    <3>2. TAKE x \in Seq(Items)
    <3>3. PICK a, b, isLast, deep : /\ a = bounds[k] /\ b = bounds[k + 1]
                                    /\ isLast = (k = n) /\ deep = LevelsOf(m, embeds, k)
      OBVIOUS
    <3>4. a \in Nat /\ b \in Nat /\ a <= b /\ isLast \in BOOLEAN /\ deep \in BOOLEAN
      <4>1. k \in 1..n /\ k \in 1..n + 1 /\ k + 1 \in 1..n + 1
        OBVIOUS
      <4> QED
        BY <3>3, <4>1 DEF AreBounds, IsModel, LevelsOf
    <3>5. RankForward(m, a, b, isLast, deep, x) \in Seq(Items)
      BY <3>4, RankForwardType
    <3> QED
      BY <3>3, <3>5, Zenon
  <2> HIDE DEF Step
  <2> QED
    BY <2>1
<1>3. PICK f \in [0..n -> Seq(Items)] : Follows(f, << >>, st, 0, n)
  <2> HIDE DEF st
  <2> QED
    BY <1>1, <1>2, RecursionFrom
<1>4. f = body(f)
  <2>1. f = [k \in 0..n |-> f[k]]
    BY <1>3
  <2>2. ASSUME NEW k \in 0..n PROVE f[k] = IF k = 0 THEN << >> ELSE Step(k, f[k - 1])
    <3>1. f[k] = IF k = 0 THEN << >> ELSE st[k][f[k - 1]]
      <4> HIDE DEF st
      <4> QED
        BY <1>3 DEF Follows
    <3>2. ASSUME k # 0 PROVE st[k][f[k - 1]] = Step(k, f[k - 1])
      <4>1. k \in 0 + 1..n /\ k - 1 \in 0..n
        BY <3>2
      <4>2. f[k - 1] \in Seq(Items)
        BY <4>1
      <4> HIDE DEF Step
      <4> QED
        BY <4>1, <4>2
    <3> HIDE DEF st, Step
    <3> QED
      BY <3>1, <3>2
  <2> HIDE DEF Step
  <2> QED
    BY <2>1, <2>2
<1>5. PICK h : h = (CHOOSE g : g = body(g)) /\ h = body(h)
  <2>1. \E g : g = body(g)
    BY <1>4, Zenon
  <2> HIDE DEF body
  <2> QED
    BY <2>1, Zenon
<1>6. Forward(m, bounds, embeds) = h[n]
  <2>1. Forward(m, bounds, embeds) = (CHOOSE g : g = body(g))[n]
    BY <1>1, Zenon DEF Forward, LevelsOf
  <2> HIDE DEF body
  <2> QED
    BY <1>5, <2>1, Zenon
<1>7. AreEager(e, m, embeds)
  BY EagerSteps
<1>8. h[0] = << >> /\ \A k \in 0..n - 1 : h[k + 1] = Step(k + 1, h[k])
  <2>1. \A k \in 0..n : h[k] = IF k = 0 THEN << >> ELSE Step(k, h[k - 1])
    <3> HIDE DEF Step
    <3> QED
      BY <1>5
  <2>2. 0 \in 0..n
    BY <1>1
  <2>3. ASSUME NEW k \in 0..n - 1 PROVE h[k + 1] = Step(k + 1, h[k])
    <3>1. k + 1 \in 0..n /\ k + 1 # 0 /\ (k + 1) - 1 = k
      OBVIOUS
    <3> HIDE DEF Step
    <3>2. h[k + 1] = Step(k + 1, h[(k + 1) - 1])
      BY <2>1, <3>1
    <3> QED
      BY <3>1, <3>2
  <2> HIDE DEF Step
  <2> QED
    BY <2>1, <2>2, <2>3
<1> DEFINE P == {k \in 0..n : h[k] = e[bounds[k + 1]]}
<1>9. 0 \in P
  <2>1. bounds[0 + 1] = 0 /\ e[0] = << >>
    BY <1>7 DEF AreBounds, AreEager
  <2>2. 0 \in 0..n /\ h[0] = << >>
    BY <1>1, <1>8
  <2> HIDE DEF e
  <2> QED
    BY <2>1, <2>2
<1>10. \A k \in 0..n - 1 : k \in P => k + 1 \in P
  <2>1. TAKE k \in 0..n - 1
  <2>2. HAVE k \in P
  <2>3. PICK j \in 1..n : j = k + 1
    OBVIOUS
  <2>4. h[j] = Step(j, h[k]) /\ h[k] = e[bounds[j]]
    <3> HIDE DEF Step, e
    <3> QED
      BY <1>8, <2>2, <2>3
  <2>5. Step(j, e[bounds[j]]) = e[bounds[j + 1]]
    <3> HIDE DEF e
    <3> QED
      BY <1>7, OneRank
  <2>6. h[j] = e[bounds[j + 1]] /\ j \in 0..n
    <3> HIDE DEF Step, e
    <3> QED
      BY <2>4, <2>5
  <2> HIDE DEF Step, e
  <2> QED
    BY <2>3, <2>6
<1>11. 0..n \subseteq P
  <2> HIDE DEF P
  <2> QED
    BY <1>1, <1>9, <1>10, Induction
<1>12. h[n] = e[m.layers]
  <2>1. n \in 0..n /\ bounds[n + 1] = m.layers
    BY <1>1 DEF AreBounds
  <2> HIDE DEF e
  <2> QED
    BY <1>11, <2>1
<1> QED
  BY <1>6, <1>12 DEF EagerState

\* The experts' outputs in a state.
HasMoe(s, j) == \E i \in DOMAIN s : IsMoeOutput(s[i], j)

LEMMA MoeOfAppend ==
  ASSUME NEW s \in Seq(Items), NEW x \in Items, NEW j
  PROVE  HasMoe(Append(s, x), j) <=> HasMoe(s, j) \/ IsMoeOutput(x, j)
<1>1. PICK t : t = Append(s, x)
  OBVIOUS
<1>2. PICK n \in Nat : n = Len(s) /\ DOMAIN s = 1..n
  BY LenProperties
<1>3. /\ DOMAIN t = 1..n + 1 /\ t[n + 1] = x
      /\ \A i \in 1..n : t[i] = s[i]
  <2>1. t \in Seq(Items) /\ Len(t) = n + 1
    BY <1>1, <1>2, AppendProperties
  <2>2. DOMAIN t = 1..Len(t)
    BY <2>1, LenProperties
  <2> QED
    BY <1>1, <1>2, <2>1, <2>2, AppendProperties
<1>4. HasMoe(t, j) <=> \E i \in 1..n + 1 : IsMoeOutput(t[i], j)
  BY <1>3 DEF HasMoe
<1>5. HasMoe(s, j) <=> \E i \in 1..n : IsMoeOutput(s[i], j)
  BY <1>2 DEF HasMoe
<1>6. \A i \in 1..n + 1 : i \in 1..n \/ i = n + 1
  OBVIOUS
<1>7. n + 1 \in 1..n + 1 /\ 1..n \subseteq 1..n + 1
  OBVIOUS
<1>8. (\E i \in 1..n + 1 : IsMoeOutput(t[i], j)) <=> (\E i \in 1..n : IsMoeOutput(s[i], j)) \/ IsMoeOutput(x, j)
  BY <1>3, <1>6, <1>7, Zenon
<1> QED
  BY <1>1, <1>4, <1>5, <1>8

LEMMA MoeOfLayer ==
  ASSUME NEW m, IsModel(m), NEW l \in Nat, NEW before \in Seq(Items), NEW j
  PROVE  HasMoe(EagerLayer(m, l, FALSE, before), j)
           <=> HasMoe(before, j) \/ (j = l /\ MlpKind(m, l) = "moe")
<1>1. PICK dense : dense = Cardinality({i \in m.ple : i <= l})
  OBVIOUS
<1>2. dense \in Nat
  <2>1. IsFiniteSet({i \in m.ple : i <= l})
    BY FS_Subset DEF IsModel
  <2> QED
    BY <1>1, <2>1, FS_CardinalityType
<1>3. PICK x : x = Block("ple", <<dense, Len(before)>>)
  OBVIOUS
<1>4. x \in Items /\ ~IsMoeOutput(x, j)
  <2>1. x \in Items
    <3>1. Len(before) \in Nat
      BY LenProperties
    <3> QED
      BY <1>2, <1>3, <3>1, BlockItem
  <2>2. "out" \notin DOMAIN x
    BY <1>3 DEF Block
  <2> QED
    BY <2>1, <2>2 DEF IsMoeOutput
<1>5. PICK p : p = before \o (IF l + 1 \in m.ple THEN <<x>> ELSE << >>)
  OBVIOUS
<1>6. p \in Seq(Items) /\ (HasMoe(p, j) <=> HasMoe(before, j))
  <2>1. CASE l + 1 \in m.ple
    <3>1. AppendIs(before, Append(before, x), x)
      BY <1>4, AppendOne
    <3>2. p = Append(before, x) /\ p \in Seq(Items)
      BY <1>5, <2>1, <3>1 DEF AppendIs
    <3> QED
      BY <1>4, <3>2, MoeOfAppend
  <2>2. CASE l + 1 \notin m.ple
    <3>1. p = before
      BY <1>5, <2>2
    <3> QED
      BY <3>1
  <2> QED
    BY <2>1, <2>2
<1> DEFINE attn == [layer |-> l, hc |-> "attn", saw |-> Len(p)]
           y    == [out |-> Block(AttentionKind(m, l), attn), injection |-> attn]
<1>7. y \in Items /\ ~IsMoeOutput(y, j)
  <2>1. Len(p) \in Nat
    BY <1>6, LenProperties
  <2>2. y \in Items
    <3> HIDE DEF attn
    <3> QED
      BY <2>1, KindsAreNames, OutItem DEF attn
  <2>3. y.out.by = AttentionKind(m, l) /\ AttentionKind(m, l) # "moe"
    BY DEF Block, AttentionKind
  <2> QED
    BY <2>2, <2>3 DEF IsMoeOutput
<1>8. PICK atMlp : atMlp = Append(p, y)
  OBVIOUS
<1> DEFINE mlp == [layer |-> l, hc |-> "mlp", saw |-> Len(atMlp)]
           z   == [out |-> Block(MlpKind(m, l), mlp), injection |-> mlp]
<1>9. EagerLayer(m, l, FALSE, before) = Append(atMlp, z)
  BY <1>1, <1>3, <1>5, <1>8 DEF EagerLayer
<1>10. atMlp \in Seq(Items) /\ (HasMoe(atMlp, j) <=> HasMoe(p, j))
  <2> HIDE DEF y
  <2> QED
    BY <1>6, <1>7, <1>8, MoeOfAppend, AppendProperties
<1>11. z \in Items /\ (IsMoeOutput(z, j) <=> j = l /\ MlpKind(m, l) = "moe")
  <2>1. Len(atMlp) \in Nat
    BY <1>10, LenProperties
  <2>2. z \in Items
    <3> HIDE DEF mlp
    <3> QED
      BY <2>1, KindsAreNames, OutItem DEF mlp
  <2>3. z.out.by = MlpKind(m, l) /\ z.injection.layer = l /\ "out" \in DOMAIN z
    BY DEF Block
  <2> HIDE DEF z
  <2> QED
    BY <2>2, <2>3 DEF IsMoeOutput
<1>12. HasMoe(Append(atMlp, z), j) <=> HasMoe(atMlp, j) \/ IsMoeOutput(z, j)
  <2> HIDE DEF z
  <2> QED
    BY <1>10, <1>11, MoeOfAppend
<1> HIDE DEF y, z
<1> QED
  BY <1>6, <1>9, <1>10, <1>11, <1>12

LEMMA MoeOfModel ==
  ASSUME NEW m, IsModel(m), NEW j \in 0..m.layers - 1
  PROVE  HasMoe(EagerState(m, FALSE), j) <=> MlpKind(m, j) = "moe"
<1> DEFINE e == EagerStates(m, FALSE)
           P == {l \in 0..m.layers : HasMoe(e[l], j) <=> j < l /\ MlpKind(m, j) = "moe"}
<1>1. AreEager(e, m, FALSE)
  BY EagerSteps
<1>2. m.layers \in Nat
  BY DEF IsModel
<1> HIDE DEF e
<1>3. 0 \in P
  <2>1. e[0] = << >> /\ 0 \in 0..m.layers /\ ~(j < 0)
    BY <1>1, <1>2 DEF AreEager
  <2>2. ~HasMoe(e[0], j)
    BY <2>1 DEF HasMoe
  <2> QED
    BY <2>1, <2>2
<1>4. \A l \in 0..m.layers - 1 : l \in P => l + 1 \in P
  <2>1. TAKE l \in 0..m.layers - 1
  <2>2. HAVE l \in P
  <2>3. l \in Nat /\ l \in 0..m.layers /\ l + 1 \in 0..m.layers
    BY <1>2
  <2>4. e[l] \in Seq(Items) /\ e[l + 1] = EagerLayer(m, l, FALSE, e[l])
    BY <1>1, <2>3 DEF AreEager
  <2>5. HasMoe(e[l + 1], j) <=> HasMoe(e[l], j) \/ (j = l /\ MlpKind(m, l) = "moe")
    <3>1. PICK b : b = e[l]
      OBVIOUS
    <3>2. HasMoe(EagerLayer(m, l, FALSE, b), j)
            <=> HasMoe(b, j) \/ (j = l /\ MlpKind(m, l) = "moe")
      BY <2>3, <2>4, <3>1, MoeOfLayer
    <3> QED
      BY <2>4, <3>1, <3>2, Zenon
  <2>6. j < l + 1 <=> j < l \/ j = l
    BY <2>3
  <2> QED
    BY <2>2, <2>3, <2>5, <2>6
<1>5. 0..m.layers \subseteq P
  <2> HIDE DEF P
  <2> QED
    BY <1>2, <1>3, <1>4, Induction
<1>6. m.layers \in P /\ j < m.layers
  BY <1>2, <1>5
<1> QED
  BY <1>6 DEF EagerState, e

\* set_moe_parameters collects the layers of the rank with experts.
LayersAre(moe, m, first, last) ==
  {moe[i] : i \in DOMAIN moe} = {l \in first..last - 1 : MlpKind(m, l) = "moe"}

LEMMA MoeLayersRange ==
  ASSUME NEW m, NEW first \in Nat, NEW last \in Nat, first <= last, NEW moe,
         moe = MoeLayers(m, first, last)
  PROVE  LayersAre(moe, m, first, last)
<1> DEFINE Step(l, x) == IF MlpKind(m, l - 1) = "moe" THEN Append(x, l - 1) ELSE x
           st == [l \in first + 1..last |-> [x \in Seq(Int) |-> Step(l, x)]]
           body(h) == [l \in first..last |-> IF l = first THEN << >> ELSE Step(l, h[l - 1])]
           Occurs(s, j) == \E i \in DOMAIN s : s[i] = j
<1>1. first \in Int /\ last \in Int /\ << >> \in Seq(Int) /\ last - first \in Nat
  OBVIOUS
<1>2. \A l \in first + 1..last : \A x \in Seq(Int) : Step(l, x) \in Seq(Int)
  <2>1. TAKE l \in first + 1..last
  <2>2. TAKE x \in Seq(Int)
  <2>3. l - 1 \in Int
    OBVIOUS
  <2>4. Append(x, l - 1) \in Seq(Int)
    BY <2>3, AppendProperties
  <2> QED
    BY <2>4
<1>3. st \in [first + 1..last -> [Seq(Int) -> Seq(Int)]]
  <2> HIDE DEF Step
  <2> QED
    BY <1>2
<1>4. PICK f \in [first..last -> Seq(Int)] : Follows(f, << >>, st, first, last)
  <2> HIDE DEF st
  <2> QED
    BY <1>1, <1>3, RecursionFrom
<1>5. f = body(f)
  <2>1. f = [l \in first..last |-> f[l]]
    BY <1>4
  <2>2. ASSUME NEW l \in first..last PROVE f[l] = IF l = first THEN << >> ELSE Step(l, f[l - 1])
    <3>1. f[l] = IF l = first THEN << >> ELSE st[l][f[l - 1]]
      <4> HIDE DEF st
      <4> QED
        BY <1>4 DEF Follows
    <3>2. ASSUME l # first PROVE st[l][f[l - 1]] = Step(l, f[l - 1])
      <4>1. l \in first + 1..last /\ l - 1 \in first..last
        BY <3>2
      <4>2. f[l - 1] \in Seq(Int)
        BY <4>1
      <4> HIDE DEF Step
      <4> QED
        BY <4>1, <4>2
    <3> HIDE DEF st, Step
    <3> QED
      BY <3>1, <3>2
  <2> HIDE DEF Step
  <2> QED
    BY <2>1, <2>2
<1>6. PICK h : h = (CHOOSE g : g = body(g)) /\ h = body(h)
  <2>1. \E g : g = body(g)
    BY <1>5, Zenon
  <2> HIDE DEF body
  <2> QED
    BY <2>1, Zenon
<1>7. moe = h[last]
  BY <1>6, Zenon DEF MoeLayers
<1>8. \A l \in first..last : h[l] = IF l = first THEN << >> ELSE Step(l, h[l - 1])
  <2> HIDE DEF Step
  <2> QED
    BY <1>6
<1> DEFINE Upto(l) == /\ h[l] \in Seq(Int)
                      /\ \A j : Occurs(h[l], j) <=> j \in first..l - 1 /\ MlpKind(m, j) = "moe"
           P == {i \in 0..last - first : Upto(first + i)}
<1>9. 0 \in P
  <2>1. first + 0 = first /\ first \in first..last /\ 0 \in 0..last - first
    BY <1>1
  <2>2. h[first] = << >>
    BY <1>8, <2>1
  <2>3. \A j : ~Occurs(h[first], j)
    BY <2>2
  <2>4. \A j : j \notin first..first - 1
    OBVIOUS
  <2>5. Upto(first)
    <3> HIDE DEF Has
    <3> QED
      BY <1>1, <2>2, <2>3, <2>4
  <2> HIDE DEF Upto
  <2> QED
    BY <2>1, <2>5
<1>10. \A i \in 0..(last - first) - 1 : i \in P => i + 1 \in P
  <2>1. TAKE i \in 0..(last - first) - 1
  <2>2. HAVE i \in P
  <2>3. PICK l, k : l = first + i /\ k = first + (i + 1)
    OBVIOUS
  <2>4. /\ l \in first..last - 1 /\ k = l + 1 /\ k \in first..last /\ k # first /\ k - 1 = l
        /\ i + 1 \in 0..last - first
    BY <2>3
  <2>5. PICK s : s = h[l]
    OBVIOUS
  <2>6. s \in Seq(Int) /\ \A j : Occurs(s, j) <=> j \in first..l - 1 /\ MlpKind(m, j) = "moe"
    <3> HIDE DEF Has
    <3> QED
      BY <2>2, <2>3, <2>5
  <2>7. h[k] = IF MlpKind(m, l) = "moe" THEN Append(s, l) ELSE s
    BY <1>8, <2>4, <2>5
  <2>8. Append(s, l) \in Seq(Int) /\ \A j : Occurs(Append(s, l), j) <=> Occurs(s, j) \/ j = l
    <3>1. PICK t : t = Append(s, l)
      OBVIOUS
    <3>2. PICK n \in Nat : n = Len(s)
      BY <2>6, LenProperties
    <3>3. t \in Seq(Int) /\ Len(t) = n + 1 /\ t[n + 1] = l /\ \A x \in 1..n : t[x] = s[x]
      BY <2>4, <2>6, <3>1, <3>2, AppendProperties
    <3>4. DOMAIN t = 1..n + 1 /\ DOMAIN s = 1..n
      BY <2>6, <3>2, <3>3, LenProperties
    <3>5. \A x \in 1..n + 1 : x \in 1..n \/ x = n + 1
      OBVIOUS
    <3>6. n + 1 \in 1..n + 1 /\ 1..n \subseteq 1..n + 1
      OBVIOUS
    <3>7. \A j : Occurs(t, j) <=> Occurs(s, j) \/ j = l
      BY <3>3, <3>4, <3>5, <3>6, Zenon
    <3> QED
      BY <3>1, <3>3, <3>7
  <2>9. \A j : j \in first..k - 1 <=> j \in first..l - 1 \/ j = l
    BY <2>4
  <2>10. h[k] \in Seq(Int) /\ \A j : Occurs(h[k], j) <=> j \in first..k - 1 /\ MlpKind(m, j) = "moe"
    <3> HIDE DEF Has
    <3> QED
      BY <2>6, <2>7, <2>8, <2>9
  <2> HIDE DEF Has
  <2> QED
    BY <2>3, <2>4, <2>10
<1>11. 0..last - first \subseteq P
  <2> HIDE DEF P
  <2> QED
    BY <1>1, <1>9, <1>10, Induction
<1>12. \A j : Occurs(moe, j) <=> j \in first..last - 1 /\ MlpKind(m, j) = "moe"
  <2>1. last - first \in 0..last - first /\ first + (last - first) = last
    BY <1>1
  <2>2. last - first \in P
    <3> HIDE DEF P
    <3> QED
      BY <1>11, <2>1
  <2> HIDE DEF Has
  <2> QED
    BY <1>7, <2>1, <2>2
<1> HIDE DEF P, body, st
<1> QED
  BY <1>12 DEF LayersAre

\* Every addition reaches the final mixer once and in order, for any model
\* and any division of its layers among ranks.
THEOREM CombinesOnceAlways ==
  ASSUME NEW m, IsModel(m), NEW embeds \in BOOLEAN, NEW n \in Nat \ {0},
         NEW bounds \in [1..n + 1 -> 0..m.layers], bounds[1] = 0, bounds[n + 1] = m.layers
  PROVE  CombinesOnce(m, bounds, embeds)
<1>1. Ranks(bounds) = n
  <2>1. Len(bounds) = n + 1
    OBVIOUS
  <2> QED
    BY <2>1 DEF Ranks
<1>2. SUFFICES ASSUME ~Refused(m, bounds), m.deepstack < m.layers,
                      \A k \in 1..n : bounds[k] < bounds[k + 1]
               PROVE  /\ Forward(m, bounds, embeds) = EagerState(m, embeds)
                      /\ \A k \in 1..n :
                           LET moe == MoeLayers(m, bounds[k], bounds[k + 1])
                           IN  {moe[i] : i \in DOMAIN moe} =
                                 {l \in bounds[k]..bounds[k + 1] - 1 : HasMoe(EagerState(m, FALSE), l)}
  BY <1>1 DEF CombinesOnce, HasMoe
<1>3. AreBounds(m, bounds, n)
  BY <1>2 DEF AreBounds
<1>4. Forward(m, bounds, embeds) = EagerState(m, embeds)
  BY <1>3, ForwardIsEager
<1>5. ASSUME NEW k \in 1..n
      PROVE  LET moe == MoeLayers(m, bounds[k], bounds[k + 1])
             IN  {moe[i] : i \in DOMAIN moe} =
                   {l \in bounds[k]..bounds[k + 1] - 1 : HasMoe(EagerState(m, FALSE), l)}
  <2>1. PICK a, b : a = bounds[k] /\ b = bounds[k + 1]
    OBVIOUS
  <2>2. a \in Nat /\ b \in Nat /\ a <= b /\ b <= m.layers /\ m.layers \in Nat
    <3>1. k \in 1..n + 1 /\ k + 1 \in 1..n + 1
      OBVIOUS
    <3> QED
      BY <1>2, <2>1, <3>1 DEF IsModel
  <2>3. PICK moe : moe = MoeLayers(m, a, b)
    OBVIOUS
  <2>4. {moe[i] : i \in DOMAIN moe} = {l \in a..b - 1 : MlpKind(m, l) = "moe"}
    <3>1. LayersAre(moe, m, a, b)
      BY <2>2, <2>3, MoeLayersRange
    <3> QED
      BY <3>1 DEF LayersAre
  <2>5. \A l \in a..b - 1 : HasMoe(EagerState(m, FALSE), l) <=> MlpKind(m, l) = "moe"
    <3>1. TAKE l \in a..b - 1
    <3>2. l \in 0..m.layers - 1
      BY <2>2
    <3> QED
      BY <3>2, MoeOfModel
  <2>6. {l \in a..b - 1 : MlpKind(m, l) = "moe"} = {l \in a..b - 1 : HasMoe(EagerState(m, FALSE), l)}
    BY <2>5
  <2> QED
    BY <2>1, <2>3, <2>4, <2>6
<1> QED
  BY <1>4, <1>5

-----------------------------------------------------------------------------
(* Block selection and split attention.                                   *)

LEMMA MinOfTwo ==
  ASSUME NEW a \in Int, NEW b \in Int
  PROVE  Min({a, b}) = IF a <= b THEN a ELSE b
<1>1. Min({a, b}) = CHOOSE x \in {a, b} : \A y \in {a, b} : x <= y
  BY DEF Min
<1>2. \E x \in {a, b} : \A y \in {a, b} : x <= y
  OBVIOUS
<1>3. Min({a, b}) \in {a, b} /\ \A y \in {a, b} : Min({a, b}) <= y
  BY <1>1, <1>2
<1> QED
  BY <1>3

LEMMA MinOfThree ==
  ASSUME NEW a \in Int, NEW b \in Int, NEW c \in Int
  PROVE  Min({a, b, c}) = IF a <= b /\ a <= c THEN a ELSE IF b <= c THEN b ELSE c
<1>1. Min({a, b, c}) = CHOOSE x \in {a, b, c} : \A y \in {a, b, c} : x <= y
  BY DEF Min
<1>2. \E x \in {a, b, c} : \A y \in {a, b, c} : x <= y
  OBVIOUS
<1>3. Min({a, b, c}) \in {a, b, c} /\ \A y \in {a, b, c} : Min({a, b, c}) <= y
  BY <1>1, <1>2
<1> QED
  BY <1>3

LEMMA MaxOfTwo ==
  ASSUME NEW a \in Int, NEW b \in Int
  PROVE  Max({a, b}) = IF a >= b THEN a ELSE b
<1>1. Max({a, b}) = CHOOSE x \in {a, b} : \A y \in {a, b} : x >= y
  BY DEF Max
<1>2. \E x \in {a, b} : \A y \in {a, b} : x >= y
  OBVIOUS
<1>3. Max({a, b}) \in {a, b} /\ \A y \in {a, b} : Max({a, b}) >= y
  BY <1>1, <1>2
<1> QED
  BY <1>3

\* A nonempty finite set of integers has a greatest element.
LEMMA MaxOfFinite ==
  ASSUME NEW S \in SUBSET Int, IsFiniteSet(S), S # {}
  PROVE  Max(S) \in S /\ \A y \in S : Max(S) >= y
<1> DEFINE R == {p \in S \X S : p[1] < p[2]}
<1>1. /\ \A x \in S : <<x, x>> \notin R
      /\ \A x, y, z \in S : <<x, y>> \in R /\ <<y, z>> \in R => <<x, z>> \in R
  OBVIOUS
<1>2. \A x, y \in S : <<x, y>> \notin R => x >= y
  OBVIOUS
<1>3. \E x \in S : \A y \in S : <<x, y>> \notin R
  <2> HIDE DEF R
  <2> QED
    BY <1>1, FiniteMaximal
<1>4. \E x \in S : \A y \in S : x >= y
  <2> HIDE DEF R
  <2> QED
    BY <1>2, <1>3
<1> QED
  BY <1>4, Zenon DEF Max

-----------------------------------------------------------------------------
\* s is the start of the chunk of p rows that holds row t.
StartsChunk(s, p, t) == s \in Nat /\ s % p = 0 /\ s <= t /\ t < s + p

LEMMA ChunkOf ==
  ASSUME NEW p \in Nat \ {0}, NEW t \in Nat
  PROVE  \E s : StartsChunk(s, p, t)
<1>1. PICK q \in Nat : q = t \div p
  BY Division
<1>2. p * q <= t /\ t < p * q + p
  BY <1>1, Division
<1>3. PICK s : s = p * q
  OBVIOUS
<1>4. s \in Nat
  BY <1>3, <1>1
<1>5. s % p = 0
  <2>1. q \in 0..(q + 1) - 1 /\ 0 \in 0..p - 1 /\ q + 1 \in Nat
    OBVIOUS
  <2>2. (q * p + 0) % p = 0
    BY <2>1, DigitsOf
  <2>3. q * p + 0 = s
    BY <1>3
  <2> QED
    BY <2>2, <2>3
<1> QED
  BY <1>2, <1>3, <1>4, <1>5 DEF StartsChunk

LEMMA OneChunk ==
  ASSUME NEW p \in Nat \ {0}, NEW t \in Nat, NEW s, StartsChunk(s, p, t)
  PROVE  s = p * (t \div p)
<1> USE DEF StartsChunk
<1>1. PICK q \in Nat : q = s \div p
  BY Division
<1>2. s = p * q
  <2>1. s = p * q + (s % p)
    BY <1>1, Division
  <2> QED
    BY <2>1
<1>3. p * q <= t /\ t < p * q + p
  BY <1>2
<1>4. t \div p = q
  BY <1>3, Quotient
<1> QED
  BY <1>2, <1>4

LEMMA ChunksDivide ==
  ASSUME NEW rows \in Nat, NEW columns \in Nat, NEW workspace \in Nat
  PROVE  /\ UNION Chunks(rows, columns, workspace) = 0..rows - 1
         /\ \A a, b \in Chunks(rows, columns, workspace) : a = b \/ a \cap b = {}
<1>1. PICK p \in Nat \ {0} : p = Max({1, workspace \div Max({columns * 4, 1})})
  <2>1. PICK w \in Nat \ {0} : w = Max({columns * 4, 1})
    BY MaxOfTwo
  <2>2. workspace \div w \in Nat
    BY Division
  <2> QED
    BY <2>1, <2>2, MaxOfTwo
<1> DEFINE Chunk(s) == s..Min({s + p, rows}) - 1
           S == {s \in 0..rows - 1 : s % p = 0}
<1>2. Chunks(rows, columns, workspace) = {Chunk(s) : s \in S}
  BY <1>1 DEF Chunks
<1>3. ASSUME NEW s \in S
      PROVE  Chunk(s) = {t \in 0..rows - 1 : s <= t /\ t < s + p}
  BY MinOfTwo
<1>4. ASSUME NEW t \in 0..rows - 1
      PROVE  \E s \in S : t \in Chunk(s)
  <2>1. PICK s : StartsChunk(s, p, t)
    <3>1. t \in Nat
      OBVIOUS
    <3> QED
      BY <3>1, ChunkOf
  <2>2. s \in S /\ s <= t /\ t < s + p
    BY <2>1 DEF StartsChunk
  <2> QED
    BY <1>3, <2>2
<1>5. ASSUME NEW s \in S, NEW u \in S, NEW t \in Chunk(s), t \in Chunk(u)
      PROVE  s = u
  <2>1. /\ Chunk(s) = {x \in 0..rows - 1 : s <= x /\ x < s + p}
        /\ Chunk(u) = {x \in 0..rows - 1 : u <= x /\ x < u + p}
    BY <1>3
  <2>2. t \in Nat /\ StartsChunk(s, p, t) /\ StartsChunk(u, p, t)
    <3> HIDE DEF Chunk
    <3> QED
      BY <1>5, <2>1 DEF StartsChunk
  <2>3. s = p * (t \div p) /\ u = p * (t \div p)
    BY <2>2, OneChunk
  <2> QED
    BY <2>3
<1>6. \A s \in S : Chunk(s) \subseteq 0..rows - 1
  BY <1>3
<1> HIDE DEF S, Chunk
<1> QED
  BY <1>2, <1>4, <1>5, <1>6
-----------------------------------------------------------------------------
(* Splits.                                                                 *)
LEMMA CeilBounds ==
  ASSUME NEW n \in Nat, NEW k \in Nat \ {0}
  PROVE  CeilOf(n, k) \in Nat /\ n <= k * CeilOf(n, k) /\ k * CeilOf(n, k) < n + k
<1>1. PICK m \in Nat : m = n + k - 1
  OBVIOUS
<1>2. m \div k \in Nat /\ k * (m \div k) <= m /\ m < k * (m \div k) + k
  BY Division
<1>3. PICK c \in Nat : c = m \div k
  BY <1>2
<1>4. PICK p : p = k * c
  OBVIOUS
<1>5. p \in Int
  BY <1>4
<1>6. p <= m /\ m < p + k
  BY <1>2, <1>3, <1>4
<1>7. n <= p /\ p < n + k
  BY <1>1, <1>5, <1>6
<1> QED
  BY <1>1, <1>3, <1>4, <1>7 DEF CeilOf

LEMMA FloorPower ==
  ASSUME NEW n \in Nat \ {0}
  PROVE  FloorPowerOf2(n) \in 1..n
<1> DEFINE st == [k \in 0 + 1..30 |-> [x \in Nat |-> 2 * x]]
           body(h) == [k \in 0..30 |-> IF k = 0 THEN 1 ELSE 2 * h[k - 1]]
<1>1. PICK f \in [0..30 -> Nat] : Follows(f, 1, st, 0, 30)
  <2>1. st \in [0 + 1..30 -> [Nat -> Nat]] /\ 1 \in Nat /\ 0 \in Int /\ 30 \in Int /\ 0 <= 30
    OBVIOUS
  <2> HIDE DEF st
  <2> QED
    BY <2>1, RecursionFrom
<1>2. f = body(f)
  <2>1. f = [k \in 0..30 |-> f[k]]
    BY <1>1
  <2>2. ASSUME NEW k \in 0..30 PROVE f[k] = IF k = 0 THEN 1 ELSE 2 * f[k - 1]
    <3>1. f[k] = IF k = 0 THEN 1 ELSE st[k][f[k - 1]]
      <4> HIDE DEF st
      <4> QED
        BY <1>1 DEF Follows
    <3>2. k # 0 => st[k][f[k - 1]] = 2 * f[k - 1]
      <4>1. k # 0 => k \in 0 + 1..30 /\ k - 1 \in 0..30
        OBVIOUS
      <4>2. k # 0 => f[k - 1] \in Nat
        BY <4>1
      <4> QED
        BY <4>1, <4>2
    <3> HIDE DEF st
    <3> QED
      BY <3>1, <3>2
  <2> QED
    BY <2>1, <2>2
<1>3. PICK h : h = (CHOOSE g : g = body(g)) /\ h = body(h)
  <2> HIDE DEF body
  <2> QED
    BY <1>2, Zenon
<1>4. h[0] = 1 /\ \A k \in 0..29 : h[k] \in Nat => h[k + 1] \in Nat
  <2>1. \A k \in 0..30 : h[k] = IF k = 0 THEN 1 ELSE 2 * h[k - 1]
    BY <1>3
  <2>2. ASSUME NEW k \in 0..29, h[k] \in Nat PROVE h[k + 1] \in Nat
    <3>1. k + 1 \in 0..30 /\ k + 1 # 0 /\ (k + 1) - 1 = k
      OBVIOUS
    <3>2. h[k + 1] = 2 * h[k]
      BY <2>1, <3>1
    <3> QED
      BY <2>2, <3>2
  <2> QED
    BY <2>1, <2>2
<1>5. \A k \in 0..30 : h[k] \in Nat
  <2> DEFINE P == {k \in 0..30 : h[k] \in Nat}
  <2>1. 0 \in P /\ 30 \in Nat
    BY <1>4
  <2>2. ASSUME NEW k \in 0..30 - 1, k \in P PROVE k + 1 \in P
    BY <1>4, <2>2
  <2>3. 0..30 \subseteq P
    <3> HIDE DEF P
    <3> QED
      BY <2>1, <2>2, Induction
  <2> QED
    BY <2>3
<1> DEFINE D == {k \in 0..30 : h[k] <= n}
           S == {h[k] : k \in D}
<1>6. FloorPowerOf2(n) = Max(S)
  BY <1>3, Zenon DEF FloorPowerOf2
<1>7. S \in SUBSET Nat /\ 1 \in S /\ \A x \in S : x <= n
  BY <1>4, <1>5
<1>8. IsFiniteSet(S)
  <2>1. n \in Nat
    OBVIOUS
  <2> HIDE DEF S
  <2> QED
    BY <1>7, <2>1, FS_BoundedSetOfNaturals
<1> HIDE DEF S
<1>9. Max(S) \in S /\ \A y \in S : Max(S) >= y
  <2>1. S \in SUBSET Int /\ S # {}
    BY <1>7
  <2> QED
    BY <1>8, <2>1, MaxOfFinite
<1>10. PICK x \in Nat : x = Max(S) /\ x >= 1 /\ x <= n
  BY <1>7, <1>9
<1> QED
  BY <1>6, <1>10

LEMMA ProfileValues ==
  ASSUME NEW programs \in Nat, NEW groupSize \in Nat
  PROVE  /\ Profile(programs, groupSize).tile \in {16, 64}
         /\ Profile(programs, groupSize).splits \in {1, 4, 8, 32, 64}
<1>1. PICK small \in {4, 8} : small = IF groupSize <= 8 THEN 8 ELSE 4
  OBVIOUS
<1>2. Profile(programs, groupSize) =
        CASE programs <= small -> [tile |-> 16, splits |-> 64]
          [] programs > small /\ programs < 32 -> [tile |-> 16, splits |-> 32]
          [] programs >= 32 /\ programs <= 256 -> [tile |-> 64, splits |-> 8]
          [] programs > 256 /\ programs <= 512 -> [tile |-> 64, splits |-> 4]
          [] OTHER -> [tile |-> 64, splits |-> 1]
  BY <1>1 DEF Profile
<1> QED
  BY <1>2

\* A split that the work is cut into: at most as many as there are tiles.
Cut(width, tile, splits) ==
  /\ width \in Nat \ {0} /\ tile \in Nat \ {0}
  /\ splits \in 1..CeilOf(width, tile)

LEMMA ProfileCuts ==
  ASSUME NEW width \in Nat \ {0}, NEW programs \in Nat, NEW groupSize \in Nat
  PROVE  LET profile == Profile(programs, groupSize)
         IN  Cut(width, profile.tile, NumSplits(width, profile))
<1>1. PICK tile, wished : /\ tile = Profile(programs, groupSize).tile
                          /\ wished = Profile(programs, groupSize).splits
  OBVIOUS
<1>2. tile \in Nat \ {0} /\ wished \in Nat \ {0}
  BY <1>1, ProfileValues
<1>3. PICK tiles : tiles = CeilOf(width, tile)
  OBVIOUS
<1>4. tiles \in Nat \ {0}
  <2>1. tiles \in Nat /\ width <= tile * tiles
    BY <1>2, <1>3, CeilBounds
  <2> QED
    BY <1>2, <2>1
<1>5. PICK power \in 1..tiles : power = FloorPowerOf2(tiles)
  BY <1>4, FloorPower
<1>6. Min({power, wished}) \in 1..tiles
  BY <1>2, <1>4, <1>5, MinOfTwo
<1> QED
  BY <1>1, <1>2, <1>3, <1>5, <1>6 DEF Cut, NumSplits

\* Split s begins at tile First(s, splits, tiles).
First(s, splits, tiles) == (s * tiles) \div splits

LEMMA FirstGrows ==
  ASSUME NEW tiles \in Nat, NEW splits \in 1..tiles, NEW s \in Nat
  PROVE  /\ First(s, splits, tiles) \in Nat
         /\ First(s + 1, splits, tiles) \in Nat
         /\ First(s, splits, tiles) < First(s + 1, splits, tiles)
<1>1. PICK a : a = s * tiles
  OBVIOUS
<1>2. a \in Nat
  BY <1>1
<1>3. (s + 1) * tiles = a + tiles
  BY <1>1
<1>4. splits \in Nat \ {0} /\ a + tiles \in Nat
  BY <1>2
<1>5. PICK q \in Nat : q = a \div splits
  BY <1>2, <1>4, Division
<1>6. PICK r \in Nat : r = (a + tiles) \div splits
  BY <1>4, Division
<1>7. splits * q <= a /\ a + tiles < splits * r + splits
  BY <1>2, <1>4, <1>5, <1>6, Division
<1>8. splits * q + splits < splits * r + splits
  BY <1>2, <1>7
<1>9. q < r
  <2>1. SUFFICES ASSUME r <= q PROVE FALSE
    OBVIOUS
  <2>2. r * splits <= q * splits
    BY <2>1, <1>4, ProductGrows
  <2> QED
    BY <1>8, <2>2
<1> QED
  BY <1>1, <1>3, <1>5, <1>6, <1>9 DEF First

LEMMA FirstEnds ==
  ASSUME NEW tiles \in Nat, NEW splits \in 1..tiles
  PROVE  First(0, splits, tiles) = 0 /\ First(splits, splits, tiles) = tiles
<1>1. splits \in Nat \ {0} /\ splits * 0 = 0 /\ 0 * tiles = 0
  OBVIOUS
<1>2. 0 \div splits = 0
  BY <1>1, Quotient
<1>3. PICK a : a = splits * tiles
  OBVIOUS
<1>4. a \in Nat /\ splits * tiles <= a /\ a < splits * tiles + splits
  BY <1>3
<1>5. a \div splits = tiles
  BY <1>1, <1>4, Quotient
<1> QED
  BY <1>1, <1>2, <1>3, <1>5 DEF First

\* The tiles of the splits as partial sums.
LEMMA FirstSums ==
  ASSUME NEW tiles \in Nat, NEW splits \in 1..tiles
  PROVE  Sums(splits, [k \in 1..splits |-> First(k, splits, tiles) - First(k - 1, splits, tiles)],
              [k \in 1..splits + 1 |-> First(k - 1, splits, tiles)])
<1> DEFINE len == [k \in 1..splits |-> First(k, splits, tiles) - First(k - 1, splits, tiles)]
           start == [k \in 1..splits + 1 |-> First(k - 1, splits, tiles)]
<1>1. ASSUME NEW k \in 1..splits
      PROVE  /\ First(k, splits, tiles) \in Nat /\ First(k - 1, splits, tiles) \in Nat
             /\ First(k - 1, splits, tiles) < First(k, splits, tiles)
  <2>1. k - 1 \in Nat /\ (k - 1) + 1 = k
    OBVIOUS
  <2> QED
    BY <2>1, FirstGrows
<1>2. len \in [1..splits -> Nat]
  BY <1>1
<1>3. start[1] = 0
  BY FirstEnds
<1>4. ASSUME NEW k \in 1..splits PROVE start[k + 1] = start[k] + len[k]
  <2>1. k \in 1..splits + 1 /\ k + 1 \in 1..splits + 1 /\ (k + 1) - 1 = k
    OBVIOUS
  <2>2. start[k + 1] = First(k, splits, tiles) /\ start[k] = First(k - 1, splits, tiles)
    BY <2>1
  <2> QED
    BY <1>1, <2>2
<1> HIDE DEF len, start
<1>5. Sums(splits, len, start)
  BY <1>2, <1>3, <1>4 DEF Sums
<1> QED
  BY <1>5 DEF len, start

\* Tile q is one of split s.
TileOf(q, s, splits, tiles) ==
  First(s, splits, tiles) <= q /\ q < First(s + 1, splits, tiles)

LEMMA TileHasSplit ==
  ASSUME NEW tiles \in Nat, NEW splits \in 1..tiles, NEW q \in 0..tiles - 1
  PROVE  \E s \in 0..splits - 1 : TileOf(q, s, splits, tiles)
<1>1. PICK len, start :
        /\ len = [k \in 1..splits |-> First(k, splits, tiles) - First(k - 1, splits, tiles)]
        /\ start = [k \in 1..splits + 1 |-> First(k - 1, splits, tiles)]
  OBVIOUS
<1>2. Sums(splits, len, start)
  BY <1>1, FirstSums
<1>3. start[splits + 1] = tiles
  <2>1. splits + 1 \in 1..splits + 1 /\ (splits + 1) - 1 = splits
    OBVIOUS
  <2> QED
    BY <1>1, <2>1, FirstEnds
<1>4. q + 1 \in 1..start[splits + 1] /\ splits \in Nat
  BY <1>3
<1>5. PICK k \in 1..splits : \E j \in 1..len[k] : q + 1 = start[k] + j
  BY <1>2, <1>4, SumsCover
<1>6. PICK j \in 1..len[k] : q + 1 = start[k] + j
  BY <1>5
<1>7. k - 1 \in Nat /\ (k - 1) + 1 = k /\ k \in 1..splits + 1 /\ k - 1 \in 0..splits - 1
  OBVIOUS
<1>8. PICK a, b \in Nat : a = First(k - 1, splits, tiles) /\ b = First(k, splits, tiles)
  BY <1>7, FirstGrows
<1>9. start[k] = a /\ len[k] = b - a
  BY <1>1, <1>7, <1>8
<1>10. a <= q /\ q < b
  BY <1>6, <1>9
<1> QED
  BY <1>7, <1>8, <1>10 DEF TileOf

LEMMA FirstAscends ==
  ASSUME NEW tiles \in Nat, NEW splits \in 1..tiles, NEW a \in 0..splits, NEW b \in 0..splits, a <= b
  PROVE  First(a, splits, tiles) <= First(b, splits, tiles)
<1>1. PICK f : f = [k \in 0..splits |-> First(k, splits, tiles)]
  OBVIOUS
<1>2. Rises(f, splits)
  <2>1. ASSUME NEW k \in 0..splits PROVE f[k] \in Int
    BY <1>1, FirstGrows
  <2>2. ASSUME NEW k \in 0..splits - 1 PROVE f[k] <= f[k + 1]
    <3>1. k \in Nat /\ k \in 0..splits /\ k + 1 \in 0..splits
      OBVIOUS
    <3>2. PICK x, y \in Nat : x = First(k, splits, tiles) /\ y = First(k + 1, splits, tiles) /\ x < y
      BY <3>1, FirstGrows
    <3>3. f[k] = x /\ f[k + 1] = y
      BY <1>1, <3>1, <3>2
    <3> QED
      BY <3>2, <3>3
  <2> QED
    BY <2>1, <2>2 DEF Rises
<1>3. f[a] <= f[b]
  BY <1>2, Ascending
<1> QED
  BY <1>1, <1>3

LEMMA OneSplit ==
  ASSUME NEW tiles \in Nat, NEW splits \in 1..tiles, NEW q \in Nat,
         NEW s \in 0..splits - 1, NEW t \in 0..splits - 1,
         TileOf(q, s, splits, tiles), TileOf(q, t, splits, tiles)
  PROVE  ~(t < s)
<1>1. SUFFICES ASSUME t < s PROVE FALSE
  OBVIOUS
<1>2. t + 1 \in 0..splits /\ s \in 0..splits /\ t + 1 <= s
  BY <1>1
<1>3. First(t + 1, splits, tiles) <= First(s, splits, tiles)
  BY <1>2, FirstAscends
<1>4. PICK a, b \in Nat : a = First(t + 1, splits, tiles) /\ b = First(s, splits, tiles)
  BY <1>2, FirstGrows
<1> QED
  BY <1>3, <1>4 DEF TileOf

LEMMA MultipleBelow ==
  ASSUME NEW a \in Nat, NEW k \in Nat \ {0}, NEW c \in Nat
  PROVE  a * k <= c <=> a <= c \div k
<1>1. PICK q \in Nat : q = c \div k
  BY Division
<1>2. k * q <= c /\ c < k * q + k
  BY <1>1, Division
<1>3. PICK p : p = q * k
  OBVIOUS
<1>4. p \in Nat /\ p <= c /\ c < p + k /\ (q + 1) * k = p + k
  BY <1>2, <1>3
<1>5. PICK m : m = a * k
  OBVIOUS
<1>6. m \in Nat
  BY <1>5
<1>7. a <= q => m <= p
  BY <1>3, <1>5, ProductGrows
<1>8. q < a => p + k <= m
  <2>1. q + 1 \in Nat
    OBVIOUS
  <2> QED
    BY <1>4, <1>5, <2>1, ProductGrows
<1>9. m <= c <=> a <= q
  BY <1>4, <1>6, <1>7, <1>8
<1> QED
  BY <1>1, <1>5, <1>9

LEMMA ColumnOfTile ==
  ASSUME NEW width, NEW tile, NEW splits, Cut(width, tile, splits),
         NEW s \in 0..splits - 1, NEW c
  PROVE  c \in SplitColumns(s, splits, width, tile) <=>
           c \in 0..width - 1 /\ TileOf(c \div tile, s, splits, CeilOf(width, tile))
<1>1. PICK tiles \in Nat : tiles = CeilOf(width, tile)
  BY CeilBounds DEF Cut
<1>2. splits \in 1..tiles /\ tile \in Nat \ {0} /\ width \in Nat
  BY <1>1 DEF Cut
<1>3. PICK a, b : a = First(s, splits, tiles) /\ b = First(s + 1, splits, tiles)
  OBVIOUS
<1>4. a \in Nat /\ b \in Nat
  BY <1>2, <1>3, FirstGrows
<1>5. PICK lo, hi : lo = a * tile /\ hi = b * tile
  OBVIOUS
<1>6. lo \in Nat /\ hi \in Nat
  BY <1>2, <1>4, <1>5, ProductGrows
<1>7. SplitColumns(s, splits, width, tile) = {x \in lo..hi - 1 : x < width}
  <2>1. a = (s * tiles) \div splits /\ b = ((s + 1) * tiles) \div splits
    BY <1>3, Zenon DEF First
  <2> QED
    BY <1>1, <1>5, <2>1, Zenon DEF SplitColumns
<1>8. ASSUME c \in Nat PROVE (lo <= c <=> a <= c \div tile) /\ (hi <= c <=> b <= c \div tile)
  BY <1>2, <1>4, <1>5, <1>8, MultipleBelow
<1>9. ASSUME c \in Nat PROVE c \div tile \in Nat
  BY <1>2, <1>9, Division
<1>10. PICK q : q = c \div tile
  OBVIOUS
<1>11. TileOf(q, s, splits, tiles) <=> a <= q /\ q < b
  BY <1>3 DEF TileOf
<1>12. c \in Nat => /\ q \in Nat /\ (lo <= c <=> a <= q) /\ (hi <= c <=> b <= q)
  BY <1>8, <1>9, <1>10
<1>13. c \in {x \in lo..hi - 1 : x < width} <=> c \in 0..width - 1 /\ a <= q /\ q < b
  BY <1>2, <1>4, <1>6, <1>12
<1> QED
  BY <1>1, <1>7, <1>10, <1>11, <1>13

\* Every column belongs to a split, to one only, and every split has some.
Divides(width, tile, splits) ==
  /\ \A c \in 0..width - 1 : \E s \in 0..splits - 1 : c \in SplitColumns(s, splits, width, tile)
  /\ \A s \in 0..splits - 1 : /\ SplitColumns(s, splits, width, tile) # {}
                              /\ SplitColumns(s, splits, width, tile) \subseteq 0..width - 1
  /\ \A s \in 0..splits - 1 : \A t \in 0..s - 1 :
       SplitColumns(s, splits, width, tile) \cap SplitColumns(t, splits, width, tile) = {}

LEMMA CutDivides ==
  ASSUME NEW width, NEW tile, NEW splits, Cut(width, tile, splits)
  PROVE  Divides(width, tile, splits)
<1>1. PICK tiles \in Nat : tiles = CeilOf(width, tile)
  BY CeilBounds DEF Cut
<1>2. splits \in 1..tiles /\ tile \in Nat \ {0} /\ width \in Nat \ {0}
  BY <1>1 DEF Cut
<1>3. width <= tile * tiles /\ tile * tiles < width + tile
  BY <1>1, <1>2, CeilBounds
<1>4. ASSUME NEW s \in 0..splits - 1, NEW c
      PROVE  c \in SplitColumns(s, splits, width, tile) <=>
               c \in 0..width - 1 /\ TileOf(c \div tile, s, splits, tiles)
  BY <1>1, ColumnOfTile
<1>5. ASSUME NEW c \in 0..width - 1
      PROVE  \E s \in 0..splits - 1 : c \in SplitColumns(s, splits, width, tile)
  <2>1. c \div tile \in 0..tiles - 1
    <3>1. c \in 0..tiles * tile - 1
      BY <1>2, <1>3
    <3> QED
      BY <1>2, <3>1, Digits
  <2>2. PICK s \in 0..splits - 1 : TileOf(c \div tile, s, splits, tiles)
    BY <1>2, <2>1, TileHasSplit
  <2> QED
    BY <1>4, <2>2
<1>6. ASSUME NEW s \in 0..splits - 1
      PROVE  SplitColumns(s, splits, width, tile) # {}
  <2>1. PICK a, b \in Nat : a = First(s, splits, tiles) /\ b = First(s + 1, splits, tiles) /\ a < b
    <3>1. s \in Nat
      OBVIOUS
    <3> QED
      BY <1>2, <3>1, FirstGrows
  <2>2. b <= tiles
    <3>1. s + 1 \in 0..splits /\ splits \in 0..splits /\ s + 1 <= splits
      BY <1>2
    <3> QED
      BY <1>2, <2>1, <3>1, FirstAscends, FirstEnds
  <2>3. PICK c : c = a * tile
    OBVIOUS
  <2>4. c \in Nat /\ c + tile <= tile * tiles
    <3>1. a + 1 \in Nat /\ a + 1 <= tiles
      BY <2>1, <2>2
    <3>2. a * tile \in Nat /\ (a + 1) * tile <= tiles * tile
      BY <1>2, <3>1, ProductGrows
    <3>3. (a + 1) * tile = c + tile /\ tiles * tile = tile * tiles
      BY <1>2, <2>3
    <3> QED
      BY <2>3, <3>2, <3>3
  <2>5. c < width
    <3>1. PICK x \in Nat : x = tile * tiles
      BY <1>2
    <3> QED
      BY <1>2, <1>3, <2>4, <3>1
  <2>6. c \div tile = a
    <3>1. tile * a <= c /\ c < tile * a + tile
      BY <1>2, <2>3
    <3> QED
      BY <1>2, <2>4, <3>1, Quotient
  <2>7. TileOf(c \div tile, s, splits, tiles)
    BY <2>1, <2>6 DEF TileOf
  <2>8. c \in 0..width - 1
    BY <1>2, <2>4, <2>5
  <2>9. c \in SplitColumns(s, splits, width, tile)
    BY <1>4, <2>7, <2>8
  <2> QED
    BY <2>9
<1>7. ASSUME NEW s \in 0..splits - 1, NEW t \in 0..s - 1, NEW c \in SplitColumns(s, splits, width, tile),
             c \in SplitColumns(t, splits, width, tile)
      PROVE  FALSE
  <2>1. t \in 0..splits - 1 /\ t < s
    BY <1>2
  <2>2. c \in 0..width - 1
    BY <1>4
  <2>3. c \div tile \in Nat
    <3>1. c \in Nat
      BY <1>2, <2>2
    <3> QED
      BY <1>2, <3>1, Division
  <2>4. TileOf(c \div tile, s, splits, tiles) /\ TileOf(c \div tile, t, splits, tiles)
    BY <1>4, <1>7, <2>1
  <2> QED
    BY <1>2, <2>1, <2>3, <2>4, OneSplit
<1> QED
  BY <1>4, <1>5, <1>6, <1>7 DEF Divides

\* The splits divide the columns among them, none twice and none empty.
LEMMA SplitsDivide ==
  ASSUME NEW width \in Nat \ {0}, NEW programs \in Nat, NEW groupSize \in Nat
  PROVE  SplitsPartition(width, programs, groupSize)
<1>1. PICK tile, splits : /\ tile = Profile(programs, groupSize).tile
                          /\ splits = NumSplits(width, Profile(programs, groupSize))
  OBVIOUS
<1>2. Divides(width, tile, splits)
  BY <1>1, ProfileCuts, CutDivides
<1> DEFINE Columns(s) == SplitColumns(s, splits, width, tile)
<1>3. UNION {Columns(s) : s \in 0..splits - 1} = 0..width - 1
  BY <1>2 DEF Divides
<1>4. \A s \in 0..splits - 1 :
        Columns(s) # {} /\ \A t \in 0..s - 1 : Columns(s) \cap Columns(t) = {}
  BY <1>2 DEF Divides
<1> QED
  BY <1>1, <1>3, <1>4 DEF SplitsPartition

-----------------------------------------------------------------------------
(* Scores.                                                                 *)
LEMMA BelowCeil ==
  ASSUME NEW n \in Nat, NEW k \in Nat \ {0}, NEW q \in Nat, q * k < n
  PROVE  q < CeilOf(n, k)
<1>1. PICK c \in Nat : c = CeilOf(n, k) /\ n <= k * c
  BY CeilBounds
<1>2. SUFFICES ASSUME c <= q PROVE FALSE
  BY <1>1
<1>3. c * k <= q * k
  BY <1>2, ProductGrows
<1> QED
  BY <1>1, <1>3

\* Row i of the request's cache holds the key of i, for each of n keys.
Stores(cache, table, pageSize, n) ==
  /\ n <= Len(table) * pageSize
  /\ \A i \in 0..n - 1 : PagedLoad(cache, table, pageSize, i) = i

\* Some program writes column c.
Scored(c, visible, columns, width, tiles) ==
  \E p \in 0..CeilOf(columns, width * tiles) - 1 :
    c \in ProgramColumns(p, visible, columns, width, tiles)

LEMMA ProgramOfColumn ==
  ASSUME NEW visible \in Nat, NEW columns \in Nat, NEW width \in Nat \ {0}, NEW tiles \in Nat \ {0},
         NEW c \in Nat, c < visible, c < columns
  PROVE  Scored(c, visible, columns, width, tiles)
<1>1. PICK q \in Nat : q = c \div width
  BY Division
<1>2. PICK p \in Nat : p = q \div tiles
  BY <1>1, Division
<1>3. PICK start : start = p * tiles
  OBVIOUS
<1>4. start \in Nat
  BY <1>3
<1>5. start <= q /\ q < start + tiles
  BY <1>2, <1>3, Division
<1>6. q * width <= c
  BY <1>1, MultipleBelow
<1>7. PICK a : a = q * width
  OBVIOUS
<1>8. a \in Nat
  BY <1>7
<1>9. q < CeilOf(visible, width) /\ q < CeilOf(columns, width)
  BY <1>6, <1>7, <1>8, BelowCeil
<1>10. PICK u, v : u = CeilOf(visible, width) /\ v = CeilOf(columns, width)
  OBVIOUS
<1>11. u \in Nat /\ v \in Nat
  BY <1>10, CeilBounds
<1>12. PICK end \in Nat : end = Min({start + tiles, u, v}) /\ q < end
  BY <1>4, <1>5, <1>9, <1>10, <1>11, MinOfThree
<1>13. PICK b : b = start * width
  OBVIOUS
<1>14. b \in Nat /\ b <= c
  <2>1. b \in Nat /\ b <= a
    BY <1>4, <1>5, <1>7, <1>13, ProductGrows
  <2> QED
    BY <1>6, <1>7, <1>8, <2>1
<1>15. PICK d : d = end * width
  OBVIOUS
<1>16. d \in Nat /\ c < d
  <2>1. ~(end <= q)
    BY <1>12
  <2>2. d <= c <=> end <= q
    BY <1>1, <1>12, <1>15, MultipleBelow
  <2>3. d \in Nat
    BY <1>12, <1>15
  <2> QED
    BY <2>1, <2>2, <2>3
<1>17. c \in ProgramColumns(p, visible, columns, width, tiles)
  <2>1. ProgramColumns(p, visible, columns, width, tiles) =
          IF b >= visible THEN {} ELSE {x \in b..d - 1 : x < visible /\ x < columns}
    BY <1>3, <1>10, <1>12, <1>13, <1>15, Zenon DEF ProgramColumns
  <2> QED
    BY <1>14, <1>16, <2>1
<1>18. p < CeilOf(columns, width * tiles)
  <2>1. PICK w : w = width * tiles
    OBVIOUS
  <2>2. w \in Nat \ {0}
    <3>1. w \in Nat
      BY <2>1
    <3>2. width <= w
      <4>1. 1 * width <= tiles * width
        BY ProductGrows
      <4> QED
        BY <2>1, <4>1
    <3> QED
      BY <3>1, <3>2
  <2>3. p * w = b
    BY <1>3, <1>13, <2>1
  <2>4. p * w < columns
    BY <1>14, <2>3
  <2> QED
    BY <2>1, <2>2, <2>4, BelowCeil
<1>19. CeilOf(columns, width * tiles) \in Int
  <2>1. width * tiles \in Int
    OBVIOUS
  <2>2. PICK w \in Nat \ {0} : w = width * tiles
    <3>1. 1 * width <= tiles * width
      BY ProductGrows
    <3> QED
      BY <3>1
  <2> QED
    BY <2>2, CeilBounds
<1> QED
  BY <1>17, <1>18, <1>19 DEF Scored

\* The blocks that are complete at qp are those the request has.
LEMMA VisibleBlocks ==
  ASSUME NEW length \in Nat, NEW qp \in 0..length - 1, NEW ratio \in Nat \ {0}
  PROVE  /\ Visible(qp, length, ratio) = (qp + 1) \div ratio
         /\ (qp + 1) \div ratio \in Nat
         /\ ((qp + 1) \div ratio) * ratio <= qp + 1
<1>1. qp + 1 \in Nat /\ qp + 1 <= length
  OBVIOUS
<1>2. PICK a \in Nat : a = (qp + 1) \div ratio
  BY <1>1, Division
<1>3. PICK b \in Nat : b = length \div ratio
  BY Division
<1>4. a * ratio <= qp + 1
  BY <1>1, <1>2, MultipleBelow
<1>5. a <= b
  <2>1. a * ratio \in Nat
    OBVIOUS
  <2>2. a * ratio <= length
    BY <1>1, <1>4, <2>1
  <2> QED
    BY <1>3, <2>2, MultipleBelow
<1>6. Min({a, b}) = a
  BY <1>5, MinOfTwo
<1> QED
  BY <1>2, <1>3, <1>4, <1>6 DEF Visible

LEMMA ScoresAreVisible ==
  ASSUME NEW length \in Nat, NEW qp \in 0..length - 1, NEW ratio \in Nat \ {0}, NEW rows \in Nat,
         NEW tileWidth \in Nat \ {0}, NEW cache, NEW table, NEW pageSize \in Nat,
         Len(table) \in Nat, Stores(cache, table, pageSize, (qp + 1) \div ratio)
  PROVE  ScoresVisible(qp, length, ratio, rows, cache, table, pageSize, tileWidth)
<1>1. PICK visible \in Nat : visible = Visible(qp, length, ratio) /\ visible = (qp + 1) \div ratio
  BY VisibleBlocks
<1>2. PICK columns \in Nat : columns = Len(table) * pageSize
  OBVIOUS
<1>3. PICK tiles \in Nat \ {0} : tiles = IF rows <= 32 THEN 1 ELSE 8
  OBVIOUS
<1>4. PICK logits : logits = Logits(cache, table, pageSize, visible, tileWidth, tiles)
  OBVIOUS
<1>5. ASSUME NEW c \in 0..visible - 1 PROVE logits[c] = c
  <2>1. c < columns /\ PagedLoad(cache, table, pageSize, c) = c
    BY <1>1, <1>2 DEF Stores
  <2>2. Scored(c, visible, columns, tileWidth, tiles)
    <3>1. c \in Nat /\ c < visible
      OBVIOUS
    <3> QED
      BY <2>1, <3>1, ProgramOfColumn
  <2>3. c # Masked /\ c \in 0..columns - 1
    BY <2>1 DEF Masked
  <2> QED
    BY <1>2, <1>4, <2>1, <2>2, <2>3 DEF Logits, Scored
<1>6. ScoreRow(cache, table, pageSize, qp, length, ratio, rows, tileWidth) = logits
  BY <1>1, <1>3, <1>4, Zenon DEF ScoreRow
<1> QED
  BY <1>1, <1>5, <1>6 DEF ScoresVisible

-----------------------------------------------------------------------------
(* The selection and what is attended to.                                  *)

\* Distinct values, as many as there are indices.
Distinct(f, n) == \A i, j \in 0..n - 1 : f[i] = f[j] => i = j

LEMMA ImageSize ==
  ASSUME NEW n \in Nat, NEW f, Distinct(f, n)
  PROVE  Cardinality({f[i] : i \in 0..n - 1}) = n
<1> DEFINE S == 0..n - 1
           T == {f[i] : i \in S}
<1>1. IsFiniteSet(S) /\ Cardinality(S) = n
  <2>1. 0 \in Int /\ n - 1 \in Int
    OBVIOUS
  <2>2. IsFiniteSet(0..n - 1) /\ Cardinality(0..n - 1) = IF 0 > n - 1 THEN 0 ELSE (n - 1) - 0 + 1
    BY <2>1, FS_Interval, Zenon
  <2> QED
    BY <2>2
<1>2. ExistsBijection(S, T)
  <2>1. PICK g : g = [i \in S |-> f[i]]
    OBVIOUS
  <2>2. g \in [S -> T] /\ \A t \in T : \E i \in S : g[i] = t
    BY <2>1
  <2>3. \A i, j \in S : g[i] = g[j] => i = j
    BY <2>1 DEF Distinct
  <2>4. g \in Bijection(S, T)
    <3> HIDE DEF S, T
    <3> QED
      BY <2>2, <2>3 DEF Bijection, Injection, Surjection, IsInjective
  <2> QED
    BY <2>4 DEF ExistsBijection
<1> HIDE DEF S
<1>3. Cardinality(T) = Cardinality(S)
  <2> HIDE DEF T
  <2> QED
    BY <1>1, <1>2, FS_Bijection
<1> QED
  BY <1>1, <1>3 DEF S

\* The first n columns of a selection name tokens up to qp, the rest none.
Selects(sel, n, qp, width) ==
  /\ DOMAIN sel = 0..width - 1 /\ n \in 0..width
  /\ \A c \in 0..n - 1 : sel[c] \in 0..qp
  /\ \A c \in n..width - 1 : sel[c] = NoToken

LEMMA AttendsToSelection ==
  ASSUME NEW width \in Nat \ {0}, NEW qp \in Nat, NEW n, NEW sel, Selects(sel, n, qp, width),
         NEW programs \in Nat, NEW groupSize \in Nat,
         NEW cache, NEW table, NEW pageSize \in Nat, Stores(cache, table, pageSize, qp + 1)
  PROVE  Attended(sel, programs, groupSize, cache, table, pageSize) = {<<c, sel[c]>> : c \in 0..n - 1}
<1>1. Cardinality(DOMAIN sel) = width
  <2>1. 0 \in Int /\ width - 1 \in Int
    OBVIOUS
  <2>2. Cardinality(0..width - 1) = IF 0 > width - 1 THEN 0 ELSE (width - 1) - 0 + 1
    BY <2>1, FS_Interval, Zenon
  <2> QED
    BY <2>2 DEF Selects
<1>2. PICK tile, splits : /\ tile = Profile(programs, groupSize).tile
                          /\ splits = NumSplits(width, Profile(programs, groupSize))
  OBVIOUS
<1>3. Divides(width, tile, splits)
  BY <1>2, ProfileCuts, CutDivides
<1> DEFINE Columns(s) == SplitColumns(s, splits, width, tile)
           Part(s) == SplitPartial(sel, Columns(s), cache, table, pageSize)
           Load(c) == PagedLoad(cache, table, pageSize, sel[c])
<1>4. Attended(sel, programs, groupSize, cache, table, pageSize) = UNION {Part(s) : s \in 0..splits - 1}
  BY <1>1, <1>2, Zenon DEF Attended, Merge
<1>5. ASSUME NEW c \in 0..n - 1 PROVE Load(c) = sel[c] /\ Load(c) # Masked
  <2>1. sel[c] \in 0..(qp + 1) - 1
    BY DEF Selects
  <2> QED
    BY <2>1 DEF Stores, Masked
<1>6. ASSUME NEW c \in n..width - 1 PROVE Load(c) = Masked
  <2>1. sel[c] = -1
    BY DEF Selects, NoToken
  <2> QED
    BY <2>1 DEF PagedLoad
<1>7. ASSUME NEW s \in 0..splits - 1
      PROVE  Part(s) = {<<c, sel[c]>> : c \in {c \in Columns(s) : c \in 0..n - 1}}
  <2>1. Columns(s) \subseteq 0..width - 1
    BY <1>3 DEF Divides
  <2>2. \A c \in Columns(s) : IF c \in 0..n - 1 THEN Load(c) = sel[c] /\ Load(c) # Masked
                              ELSE Load(c) = Masked
    <3>1. TAKE c \in Columns(s)
    <3>2. c \in 0..width - 1
      BY <2>1
    <3>3. n \in 0..width
      BY DEF Selects
    <3>4. c \notin 0..n - 1 => c \in n..width - 1
      BY <3>2, <3>3
    <3> QED
      BY <1>5, <1>6, <3>4
  <2>3. Part(s) = {<<c, Load(c)>> : c \in {c \in Columns(s) : Load(c) # Masked}}
    BY Zenon DEF SplitPartial
  <2> HIDE DEF Columns, Load, Part
  <2> QED
    BY <2>2, <2>3
<1>8. \A c \in 0..n - 1 : \E s \in 0..splits - 1 : c \in Columns(s)
  <2>1. \A c \in 0..n - 1 : c \in 0..width - 1
    BY DEF Selects
  <2> QED
    BY <1>3, <2>1 DEF Divides
<1> HIDE DEF Columns, Part
<1>9. UNION {Part(s) : s \in 0..splits - 1} = {<<c, sel[c]>> : c \in 0..n - 1}
  BY <1>7, <1>8
<1> QED
  BY <1>4, <1>9

\* The numbers of a query at qp: its visible blocks, those that are expanded,
\* the columns and the first token they take, the tokens of the open group.
Query(qp, ratio, topk, visible, complete, e, start, tail, width) ==
  /\ qp \in Nat /\ ratio \in Nat \ {0} /\ topk \in Nat \ {0}
  /\ visible \in Nat /\ visible = (qp + 1) \div ratio
  /\ complete \in Nat /\ complete <= visible /\ complete <= topk
  /\ e = complete * ratio /\ e \in Nat
  /\ start = visible * ratio /\ start \in Nat /\ e <= start
  /\ tail \in 0..ratio - 1 /\ start + tail = qp + 1
  /\ width = topk * ratio + ratio - 1 /\ width \in Nat \ {0} /\ e + tail <= width

LEMMA QueryNumbers ==
  ASSUME NEW qp \in Nat, NEW ratio \in Nat \ {0}, NEW topk \in Nat \ {0},
         NEW visible \in Nat, visible = (qp + 1) \div ratio,
         NEW complete \in Nat, complete <= visible, complete <= topk
  PROVE  Query(qp, ratio, topk, visible, complete, complete * ratio, visible * ratio,
               qp + 1 - visible * ratio, topk * ratio + ratio - 1)
<1>1. PICK e, start, most : e = complete * ratio /\ start = visible * ratio /\ most = topk * ratio
  OBVIOUS
<1>2. e \in Nat /\ start \in Nat /\ e <= start /\ most \in Nat /\ e <= most
  BY <1>1, ProductGrows
<1>3. ratio <= most
  <2>1. 1 * ratio <= topk * ratio
    BY ProductGrows
  <2> QED
    BY <1>1, <2>1
<1>4. start <= qp + 1 /\ qp + 1 < start + ratio
  <2>1. qp + 1 \in Nat
    OBVIOUS
  <2>2. ratio * visible <= qp + 1 /\ qp + 1 < ratio * visible + ratio
    BY <2>1, Division
  <2>3. ratio * visible = start
    BY <1>1
  <2> QED
    BY <2>2, <2>3
<1>5. PICK tail, width : tail = qp + 1 - start /\ width = most + ratio - 1
  OBVIOUS
<1>6. /\ tail \in 0..ratio - 1 /\ start + tail = qp + 1
      /\ width \in Nat \ {0} /\ e + tail <= width
  BY <1>2, <1>3, <1>4, <1>5
<1>7. /\ visible * ratio = start /\ qp + 1 - visible * ratio = tail
      /\ topk * ratio + ratio - 1 = width /\ complete * ratio = e
  BY <1>1, <1>5
<1> QED
  BY <1>1, <1>2, <1>5, <1>6, <1>7 DEF Query

LEMMA BlockToken ==
  ASSUME NEW a \in Nat, NEW ratio \in Nat \ {0}, NEW b \in 0..a - 1, NEW r \in 0..ratio - 1
  PROVE  /\ b * ratio + r \in 0..a * ratio - 1
         /\ (b * ratio + r) \div ratio = b /\ (b * ratio + r) % ratio = r
  BY DigitsOf

\* blocks names distinct visible blocks, `complete` of them.
Chosen(blocks, visible, complete) ==
  /\ \A i \in 0..complete - 1 : blocks[i] \in 0..visible - 1
  /\ Distinct(blocks, complete)

LEMMA TopKChooses ==
  ASSUME NEW visible \in Nat, NEW topk \in Nat \ {0}, NEW blocks \in TopK(visible, topk)
  PROVE  Chosen(blocks, visible, Min({visible, topk}))
<1>1. PICK count \in Nat : count = Min({visible, topk}) /\ count <= topk
  BY MinOfTwo
<1>2. /\ blocks \in [0..topk - 1 -> (0..visible - 1) \cup {NoToken}]
      /\ \A i \in 0..topk - 1 : (blocks[i] # NoToken) = (i < count)
      /\ \A i, j \in 0..count - 1 : blocks[i] = blocks[j] => i = j
  BY <1>1 DEF TopK
<1>3. ASSUME NEW i \in 0..count - 1 PROVE blocks[i] \in 0..visible - 1
  <2>1. i \in 0..topk - 1 /\ i < count
    BY <1>1
  <2> QED
    BY <1>2, <2>1
<1> QED
  BY <1>1, <1>2, <1>3 DEF Chosen, Distinct

\* What _expand_qsa_indices_kernel writes.
Expanded(sel, blocks, ratio, e, start, tail, width) ==
  /\ DOMAIN sel = 0..width - 1
  /\ \A c \in 0..e - 1 : sel[c] = blocks[c \div ratio] * ratio + (c % ratio)
  /\ \A c \in e..e + tail - 1 : sel[c] = start + c - e
  /\ \A c \in e + tail..width - 1 : sel[c] = NoToken

\* Column c is one of an expanded block, and t the token it names.
InBlock(t, blocks, ratio, complete, visible, c) ==
  /\ c \div ratio \in 0..complete - 1 /\ c % ratio \in 0..ratio - 1
  /\ c = (c \div ratio) * ratio + (c % ratio)
  /\ blocks[c \div ratio] \in 0..visible - 1
  /\ t \in 0..visible * ratio - 1
  /\ t \div ratio = blocks[c \div ratio]
  /\ t % ratio = c % ratio

LEMMA TokenOfColumn ==
  ASSUME NEW visible \in Nat, NEW complete \in Nat, NEW ratio \in Nat \ {0},
         NEW blocks, Chosen(blocks, visible, complete), NEW c \in 0..complete * ratio - 1
  PROVE  InBlock(blocks[c \div ratio] * ratio + (c % ratio), blocks, ratio, complete, visible, c)
<1>1. /\ c \div ratio \in 0..complete - 1 /\ c % ratio \in 0..ratio - 1
      /\ c = (c \div ratio) * ratio + (c % ratio)
  BY Digits
<1>2. blocks[c \div ratio] \in 0..visible - 1
  BY <1>1 DEF Chosen
<1>3. PICK b \in 0..visible - 1, r \in 0..ratio - 1 : b = blocks[c \div ratio] /\ r = c % ratio
  BY <1>1, <1>2
<1>4. /\ b * ratio + r \in 0..visible * ratio - 1
      /\ (b * ratio + r) \div ratio = b /\ (b * ratio + r) % ratio = r
  BY BlockToken
<1> QED
  BY <1>1, <1>2, <1>3, <1>4, Zenon DEF InBlock

LEMMA ExpansionOf ==
  ASSUME NEW qp, NEW ratio, NEW topk, NEW visible, NEW complete, NEW e, NEW start, NEW tail, NEW width,
         Query(qp, ratio, topk, visible, complete, e, start, tail, width),
         complete = Min({visible, topk}),
         NEW length \in Nat, qp < length, NEW blocks, Chosen(blocks, visible, complete)
  PROVE  Expanded(ExpandRow(blocks, qp, length, ratio, topk), blocks, ratio, e, start, tail, width)
<1> USE DEF Query
<1>1. Visible(qp, length, ratio) = visible
  <2>1. qp \in 0..length - 1
    OBVIOUS
  <2> QED
    BY <2>1, VisibleBlocks
<1> DEFINE Token(c) == IF c < e THEN blocks[c \div ratio] * ratio + (c % ratio)
                       ELSE IF c - e < tail /\ c - e < ratio - 1
                            THEN start + c - e ELSE NoToken
           sel == [c \in 0..topk * ratio + ratio - 2 |->
                     IF Token(c) \in 0..length - 1 THEN Token(c) ELSE NoToken]
<1>2. ExpandRow(blocks, qp, length, ratio, topk) = sel
  <2>1. e = complete * ratio /\ start = ((qp + 1) \div ratio) * ratio /\ tail = qp + 1 - start
    OBVIOUS
  <2> QED
    BY <1>1, <2>1, Zenon DEF ExpandRow
<1>3. DOMAIN sel = 0..width - 1
  <2>1. PICK most \in Nat : most = topk * ratio
    OBVIOUS
  <2> QED
    BY <2>1
<1>4. ASSUME NEW c \in 0..e - 1 PROVE sel[c] = blocks[c \div ratio] * ratio + (c % ratio)
  <2>1. c \in 0..complete * ratio - 1
    OBVIOUS
  <2>2. blocks[c \div ratio] * ratio + (c % ratio) \in 0..start - 1
    <3>1. InBlock(blocks[c \div ratio] * ratio + (c % ratio), blocks, ratio, complete, visible, c)
      BY <2>1, TokenOfColumn
    <3> QED
      BY <3>1 DEF InBlock
  <2>3. c \in 0..width - 1 /\ 0..start - 1 \subseteq 0..length - 1 /\ c < e
    OBVIOUS
  <2> QED
    BY <1>3, <2>2, <2>3
<1>5. ASSUME NEW c \in e..e + tail - 1 PROVE sel[c] = start + c - e
  <2>1. c \in 0..width - 1 /\ start + c - e \in 0..length - 1 /\ ~(c < e) /\ c - e < tail /\ c - e < ratio - 1
    OBVIOUS
  <2> QED
    BY <1>3, <2>1
<1>6. ASSUME NEW c \in e + tail..width - 1 PROVE sel[c] = NoToken
  <2>1. c \in 0..width - 1 /\ ~(c < e) /\ ~(c - e < tail)
    OBVIOUS
  <2> QED
    BY <1>3, <2>1
<1> HIDE DEF sel
<1> QED
  BY <1>2, <1>3, <1>4, <1>5, <1>6 DEF Expanded

\* A selection seen by its columns: the first e hold distinct blocks' tokens,
\* all below start, the next ones the open group from start on.
LEMMA ColumnsOfSelection ==
  ASSUME NEW qp, NEW ratio, NEW topk, NEW visible, NEW complete, NEW e, NEW start, NEW tail, NEW width,
         Query(qp, ratio, topk, visible, complete, e, start, tail, width),
         NEW blocks, Chosen(blocks, visible, complete),
         NEW sel, Expanded(sel, blocks, ratio, e, start, tail, width)
  PROVE  /\ \A c \in 0..e - 1 : InBlock(sel[c], blocks, ratio, complete, visible, c)
         /\ \A c \in 0..e - 1 : sel[c] \in 0..start - 1
         /\ \A c \in e..e + tail - 1 : sel[c] = start + c - e
<1>1. visible \in Nat /\ complete \in Nat /\ ratio \in Nat \ {0} /\ e = complete * ratio /\ start = visible * ratio
  BY DEF Query
<1>2. ASSUME NEW c \in 0..e - 1 PROVE InBlock(sel[c], blocks, ratio, complete, visible, c)
  <2>1. c \in 0..complete * ratio - 1
    BY <1>1
  <2>2. InBlock(blocks[c \div ratio] * ratio + (c % ratio), blocks, ratio, complete, visible, c)
    BY <1>1, <2>1, TokenOfColumn
  <2>3. sel[c] = blocks[c \div ratio] * ratio + (c % ratio)
    BY DEF Expanded
  <2> QED
    BY <2>2, <2>3, Zenon
<1>3. \A c \in 0..e - 1 : sel[c] \in 0..start - 1
  BY <1>1, <1>2 DEF InBlock
<1> QED
  BY <1>2, <1>3 DEF Expanded

LEMMA SelectionIsDistinct ==
  ASSUME NEW qp, NEW ratio, NEW topk, NEW visible, NEW complete, NEW e, NEW start, NEW tail, NEW width,
         Query(qp, ratio, topk, visible, complete, e, start, tail, width),
         NEW blocks, Chosen(blocks, visible, complete),
         NEW sel, Expanded(sel, blocks, ratio, e, start, tail, width)
  PROVE  Selects(sel, e + tail, qp, width) /\ Distinct(sel, e + tail)
<1>1. /\ e \in Nat /\ tail \in Nat /\ start \in Nat /\ start + tail = qp + 1 /\ qp \in Nat
      /\ width \in Nat /\ e + tail <= width
  BY DEF Query
<1>2. \A c \in 0..e - 1 : InBlock(sel[c], blocks, ratio, complete, visible, c)
  BY ColumnsOfSelection
<1>3. \A c \in 0..e - 1 : sel[c] \in 0..start - 1
  BY ColumnsOfSelection
<1>4. \A c \in e..e + tail - 1 : sel[c] = start + c - e
  BY ColumnsOfSelection
<1>0. PICK n \in Nat : n = e + tail
  BY <1>1
<1>5. ASSUME NEW c \in 0..n - 1 PROVE sel[c] \in 0..qp
  <2>1. CASE c < e
    <3>1. c \in 0..e - 1
      BY <1>0, <1>1, <2>1
    <3> QED
      BY <1>1, <1>3, <3>1
  <2>2. CASE e <= c
    <3>1. c \in e..e + tail - 1
      BY <1>0, <1>1, <2>2
    <3> QED
      BY <1>1, <1>4, <3>1
  <2> QED
    BY <1>0, <1>1, <2>1, <2>2
<1>6. ASSUME NEW c \in 0..n - 1, NEW d \in 0..n - 1, sel[c] = sel[d] PROVE c = d
  <2>1. CASE c < e /\ d < e
    <3>1. c \in 0..e - 1 /\ d \in 0..e - 1
      BY <1>0, <1>1, <2>1
    <3>2. /\ c \div ratio \in 0..complete - 1 /\ d \div ratio \in 0..complete - 1
          /\ blocks[c \div ratio] = blocks[d \div ratio] /\ c % ratio = d % ratio
      BY <1>2, <1>6, <3>1, Zenon DEF InBlock
    <3>3. c \div ratio = d \div ratio
      BY <3>2, Zenon DEF Chosen, Distinct
    <3>4. c = (c \div ratio) * ratio + (c % ratio) /\ d = (d \div ratio) * ratio + (d % ratio)
      BY <1>2, <3>1 DEF InBlock
    <3> QED
      BY <3>2, <3>3, <3>4, Zenon
  <2>2. CASE c < e /\ ~(d < e)
    <3>1. c \in 0..e - 1 /\ d \in e..e + tail - 1
      BY <1>0, <1>1, <2>2
    <3> QED
      BY <1>1, <1>3, <1>4, <1>6, <3>1
  <2>3. CASE ~(c < e) /\ d < e
    <3>1. d \in 0..e - 1 /\ c \in e..e + tail - 1
      BY <1>0, <1>1, <2>3
    <3> QED
      BY <1>1, <1>3, <1>4, <1>6, <3>1
  <2>4. CASE ~(c < e) /\ ~(d < e)
    <3>1. d \in e..e + tail - 1 /\ c \in e..e + tail - 1
      BY <1>0, <1>1, <2>4
    <3> QED
      BY <1>1, <1>4, <1>6, <3>1
  <2> QED
    BY <2>1, <2>2, <2>3, <2>4
<1>7. n \in 0..width
  BY <1>0, <1>1
<1>8. DOMAIN sel = 0..width - 1 /\ \A c \in n..width - 1 : sel[c] = NoToken
  BY <1>0 DEF Expanded
<1> QED
  BY <1>0, <1>5, <1>6, <1>7, <1>8 DEF Selects, Distinct

\* Every token of an expanded block, and of the open group, has a column.
LEMMA BlocksAreWhole ==
  ASSUME NEW qp, NEW ratio, NEW topk, NEW visible, NEW complete, NEW e, NEW start, NEW tail, NEW width,
         Query(qp, ratio, topk, visible, complete, e, start, tail, width),
         NEW blocks, Chosen(blocks, visible, complete),
         NEW sel, Expanded(sel, blocks, ratio, e, start, tail, width),
         NEW c \in 0..e - 1, NEW u \in Nat, u \div ratio = sel[c] \div ratio
  PROVE  \E d \in 0..e - 1 : sel[d] = u
<1>1. ratio \in Nat \ {0} /\ complete \in Nat /\ e = complete * ratio
  BY DEF Query
<1>2. PICK q \in 0..complete - 1 : q = c \div ratio /\ sel[c] \div ratio = blocks[q]
  <2>1. InBlock(sel[c], blocks, ratio, complete, visible, c)
    BY ColumnsOfSelection
  <2> QED
    BY <2>1 DEF InBlock
<1>3. PICK r \in 0..ratio - 1 : r = u % ratio
  BY <1>1, Division
<1>4. PICK d : d = q * ratio + r
  OBVIOUS
<1>5. d \in 0..e - 1 /\ d \div ratio = q /\ d % ratio = r
  BY <1>1, <1>4, BlockToken
<1>6. PICK m : m = u \div ratio
  OBVIOUS
<1>7. u = ratio * m + r /\ m \in Nat
  BY <1>1, <1>3, <1>6, Division
<1>8. m = blocks[q]
  BY <1>2, <1>6
<1>9. sel[d] = m * ratio + r
  BY <1>5, <1>8, Zenon DEF Expanded
<1>10. m * ratio + r = u
  BY <1>1, <1>7
<1> QED
  BY <1>5, <1>9, <1>10

\* The first n columns with what they name, and what they name.
ColumnsWith(f, n)  == {<<c, f[c]>> : c \in 0..n - 1}
Values(f, n) == {f[c] : c \in 0..n - 1}

LEMMA SecondsOfPairs ==
  ASSUME NEW f, NEW n
  PROVE  {entry[2] : entry \in ColumnsWith(f, n)} = Values(f, n)
<1>0. PICK S : S = 0..n - 1
  OBVIOUS
<1> DEFINE P == {<<c, f[c]>> : c \in S}
<1>1. \A entry \in P : \E c \in S : entry[2] = f[c]
  OBVIOUS
<1>2. \A c \in S : \E entry \in P : entry[2] = f[c]
  <2>1. TAKE c \in S
  <2>2. <<c, f[c]>> \in P /\ <<c, f[c]>>[2] = f[c]
    OBVIOUS
  <2> HIDE DEF P
  <2> QED
    BY <2>2
<1> HIDE DEF P
<1>3. {entry[2] : entry \in P} = {f[c] : c \in S}
  BY <1>1, <1>2
<1> QED
  BY <1>0, <1>3 DEF P, ColumnsWith, Values

\* A query of sparse attention attends to each token at most once and to none
\* after its own, for any launch profile, page table and number of blocks.
THEOREM AttendsCausally ==
  ASSUME NEW length \in Nat, NEW qp \in 0..length - 1, NEW ratio \in Nat \ {0},
         NEW blockTopk \in Nat \ {0}, NEW programs \in Nat, NEW groupSize \in Nat,
         NEW cache, NEW table, NEW pageSize \in Nat, Stores(cache, table, pageSize, qp + 1)
  PROVE  CausalOnce(qp, length, ratio, blockTopk, programs, groupSize, cache, table, pageSize)
<1>1. PICK visible \in Nat : /\ visible = Visible(qp, length, ratio)
                            /\ visible = (qp + 1) \div ratio
  BY VisibleBlocks
<1>2. PICK complete \in Nat : /\ complete = Min({visible, blockTopk})
                             /\ complete <= visible /\ complete <= blockTopk
  BY MinOfTwo
<1>3. PICK e, start, tail, width :
        /\ e = complete * ratio /\ start = visible * ratio
        /\ tail = qp + 1 - visible * ratio /\ width = blockTopk * ratio + ratio - 1
  OBVIOUS
<1>4. Query(qp, ratio, blockTopk, visible, complete, e, start, tail, width)
  <2>1. qp \in Nat
    OBVIOUS
  <2> QED
    BY <1>1, <1>2, <1>3, <2>1, QueryNumbers
<1>5. /\ e \in Nat /\ tail \in Nat /\ start \in Nat /\ start + tail = qp + 1
      /\ width \in Nat \ {0} /\ e + tail <= width /\ qp \in Nat
  BY <1>4 DEF Query
<1>6. PICK n \in Nat : n = e + tail
  BY <1>5
<1> DEFINE open == ((qp + 1) \div ratio) * ratio..qp
<1>7. open = start..qp /\ Cardinality(open) = tail
  <2>1. open = start..qp
    BY <1>1, <1>3
  <2>2. start \in Int /\ qp \in Int
    BY <1>5
  <2>3. Cardinality(start..qp) = IF start > qp THEN 0 ELSE qp - start + 1
    BY <2>2, FS_Interval, Zenon
  <2>4. (IF start > qp THEN 0 ELSE qp - start + 1) = tail
    BY <1>5
  <2> HIDE DEF open
  <2> QED
    BY <2>1, <2>3, <2>4
<1> HIDE DEF open
<1>8. ASSUME NEW blocks \in TopK(visible, blockTopk),
             NEW read, read = Attended(ExpandRow(blocks, qp, length, ratio, blockTopk),
                                       programs, groupSize, cache, table, pageSize),
             NEW tokens, tokens = {entry[2] : entry \in read}
      PROVE  /\ Cardinality(read) = Cardinality(tokens)
             /\ tokens \subseteq 0..qp
             /\ open \subseteq tokens
             /\ Cardinality(tokens) = Cardinality(open) + ratio * complete
             /\ \A t \in tokens \ open :
                  {u \in 0..qp : u \div ratio = t \div ratio} \subseteq tokens
  <2>1. Chosen(blocks, visible, complete)
    BY <1>2, TopKChooses
  <2>2. PICK sel : sel = ExpandRow(blocks, qp, length, ratio, blockTopk)
    OBVIOUS
  <2>3. Expanded(sel, blocks, ratio, e, start, tail, width)
    <3>1. qp < length
      OBVIOUS
    <3> QED
      BY <1>2, <1>4, <2>1, <2>2, <3>1, ExpansionOf
  <2>4. Selects(sel, n, qp, width) /\ Distinct(sel, n)
    BY <1>4, <1>6, <2>1, <2>3, SelectionIsDistinct
  <2>5. read = {<<c, sel[c]>> : c \in 0..n - 1}
    <3>1. read = Attended(sel, programs, groupSize, cache, table, pageSize)
      BY <1>8, <2>2
    <3> QED
      BY <1>5, <2>4, <3>1, AttendsToSelection
  <2>6. tokens = {sel[c] : c \in 0..n - 1}
    <3>1. read = ColumnsWith(sel, n)
      BY <2>5 DEF ColumnsWith
    <3>2. tokens = Values(sel, n)
      BY <1>8, <3>1, SecondsOfPairs, Zenon
    <3> QED
      BY <3>2 DEF Values
  <2>7. Cardinality(tokens) = n
    BY <2>4, <2>6, ImageSize
  <2>8. Cardinality(read) = n
    <3>1. PICK f : f = [c \in 0..n - 1 |-> <<c, sel[c]>>]
      OBVIOUS
    <3>2. Distinct(f, n)
      BY <3>1 DEF Distinct
    <3>3. read = {f[c] : c \in 0..n - 1}
      BY <2>5, <3>1
    <3> QED
      BY <3>2, <3>3, ImageSize
  <2>9. tokens \subseteq 0..qp
    BY <2>4, <2>6 DEF Selects
  <2>10. open \subseteq tokens
    <3>1. SUFFICES ASSUME NEW t \in start..qp PROVE t \in tokens
      BY <1>7
    <3>2. PICK c : c = e + (t - start)
      OBVIOUS
    <3>3. c \in e..e + tail - 1 /\ c \in 0..n - 1 /\ start + c - e = t
      BY <1>5, <1>6, <3>2
    <3>4. sel[c] = t
      BY <2>3, <3>3 DEF Expanded
    <3> QED
      BY <2>6, <3>3, <3>4
  <2>11. Cardinality(tokens) = Cardinality(open) + ratio * complete
    <3>1. ratio * complete = e
      BY <1>3
    <3> QED
      BY <1>5, <1>6, <1>7, <2>7, <3>1
  <2>12. ASSUME NEW t \in tokens \ open, NEW u \in 0..qp, u \div ratio = t \div ratio
         PROVE  u \in tokens
    <3>1. PICK c \in 0..n - 1 : t = sel[c]
      BY <2>6
    <3>2. c \in 0..e - 1
      <4>1. SUFFICES ASSUME c \in e..e + tail - 1 PROVE FALSE
        BY <1>5, <1>6
      <4>2. t = start + c - e
        BY <2>3, <3>1, <4>1 DEF Expanded
      <4>3. t \in start..qp
        BY <1>5, <4>1, <4>2
      <4> QED
        BY <1>7, <4>3
    <3>3. u \in Nat /\ u \div ratio = sel[c] \div ratio
      BY <2>12, <3>1
    <3>4. PICK d \in 0..e - 1 : sel[d] = u
      BY <1>4, <2>1, <2>3, <3>2, <3>3, BlocksAreWhole
    <3>5. d \in 0..n - 1
      BY <1>5, <1>6
    <3> QED
      BY <2>6, <3>4, <3>5
  <2> QED
    BY <2>7, <2>8, <2>9, <2>10, <2>11, <2>12
<1>9. SUFFICES ASSUME NEW blocks \in TopK(visible, blockTopk)
               PROVE  LET read   == Attended(ExpandRow(blocks, qp, length, ratio, blockTopk),
                                             programs, groupSize, cache, table, pageSize)
                          tokens == {entry[2] : entry \in read}
                      IN  /\ Cardinality(read) = Cardinality(tokens)
                          /\ tokens \subseteq 0..qp
                          /\ open \subseteq tokens
                          /\ Cardinality(tokens) = Cardinality(open) + ratio * complete
                          /\ \A t \in tokens \ open :
                               {u \in 0..qp : u \div ratio = t \div ratio} \subseteq tokens
  BY <1>1, <1>2, Zenon DEF CausalOnce, open
<1>10. PICK read : read = Attended(ExpandRow(blocks, qp, length, ratio, blockTopk),
                                   programs, groupSize, cache, table, pageSize)
  OBVIOUS
<1>11. PICK tokens : tokens = {entry[2] : entry \in read}
  OBVIOUS
<1> QED
  BY <1>8, <1>10, <1>11, Zenon

-----------------------------------------------------------------------------
(* N-gram keys.                                                            *)

\* A request whose step runs the tokens after `computed` up to `upto`.
IsStep(request, Tok) ==
  /\ request.history \in Seq(Tok) /\ request.computed \in Nat /\ request.upto \in Nat
  /\ request.computed <= request.upto /\ request.upto <= Len(request.history)

StepsOf(requests, n, Tok) ==
  /\ Len(requests) = n /\ DOMAIN requests = 1..n
  /\ \A r \in 1..n : IsStep(requests[r], Tok)

\* The batch of n requests whose parts have the lengths len and begin at start.
IsBatch(batch, requests, n, len, start, pads, Tok) ==
  /\ Sums(n, len, start) /\ start = [r \in 1..n + 1 |-> start[r]]
  /\ batch.start = start
  /\ batch.ids \in Seq(Tok) /\ Len(batch.ids) = start[n + 1] + pads
  /\ \A r \in 1..n : len[r] = requests[r].upto - requests[r].computed
  /\ \A r \in 1..n : \A j \in 1..len[r] :
       batch.ids[start[r] + j] = requests[r].history[requests[r].computed + j]
  /\ \A r \in 1..n : batch.context[r] = ContextAt(requests[r].history, requests[r].computed)

Lengths(requests) == [r \in DOMAIN requests |-> requests[r].upto - requests[r].computed]

\* query_start_loc is the sums of the lengths.
LEMMA StartsAreSums ==
  ASSUME NEW n \in Nat, NEW Tok, NEW requests, StepsOf(requests, n, Tok)
  PROVE  /\ Sums(n, Lengths(requests), StartsOf(requests))
         /\ StartsOf(requests) = [r \in 1..n + 1 |-> StartsOf(requests)[r]]
<1> DEFINE len == Lengths(requests)
           body(g) == [r \in 1..Len(requests) + 1 |->
                         IF r = 1 THEN 0
                         ELSE g[r - 1] + (requests[r - 1].upto - requests[r - 1].computed)]
<1>1. len \in [1..n -> Nat]
  BY DEF StepsOf, IsStep, Lengths
<1>2. Len(requests) = n /\ DOMAIN requests = 1..n
  BY DEF StepsOf
<1>3. PICK m \in Nat : m = n + 1
  OBVIOUS
<1> DEFINE st == [r \in 1 + 1..m |-> [v \in Nat |-> v + len[r - 1]]]
<1>4. st \in [1 + 1..m -> [Nat -> Nat]]
  <2>1. \A r \in 1 + 1..m : r - 1 \in 1..n
    BY <1>3
  <2> HIDE DEF len
  <2> QED
    BY <1>1, <2>1
<1>5. PICK f \in [1..m -> Nat] : Follows(f, 0, st, 1, m)
  <2>1. 0 \in Nat /\ 1 \in Int /\ m \in Int /\ 1 <= m
    BY <1>3
  <2> HIDE DEF st
  <2> QED
    BY <1>4, <2>1, RecursionFrom
<1>6. \A r \in 1..m : f[r] = IF r = 1 THEN 0 ELSE f[r - 1] + len[r - 1]
  <2>1. TAKE r \in 1..m
  <2>2. f[r] = IF r = 1 THEN 0 ELSE st[r][f[r - 1]]
    <3> HIDE DEF st
    <3> QED
      BY <1>5 DEF Follows
  <2>3. r # 1 => r \in 1 + 1..m /\ f[r - 1] \in Nat
    <3>1. r # 1 => r \in 1 + 1..m /\ r - 1 \in 1..m
      BY <1>3
    <3> QED
      BY <3>1
  <2>4. r # 1 => st[r][f[r - 1]] = f[r - 1] + len[r - 1]
    <3> HIDE DEF len
    <3> QED
      BY <2>3
  <2> HIDE DEF st, len
  <2> QED
    BY <2>2, <2>4
<1>7. \A r \in 1..m : r # 1 => len[r - 1] = requests[r - 1].upto - requests[r - 1].computed
  <2>1. TAKE r \in 1..m
  <2>2. r # 1 => r - 1 \in 1..n
    BY <1>3
  <2> QED
    BY <1>2, <2>2 DEF Lengths
<1> HIDE DEF len, st
<1>8. f = body(f)
  <2>1. f = [r \in 1..m |-> f[r]]
    OBVIOUS
  <2> QED
    BY <1>2, <1>3, <1>6, <1>7, <2>1
<1> DEFINE g == CHOOSE g : g = body(g)
<1>9. PICK h : h = g /\ h = body(h)
  <2> HIDE DEF body
  <2> QED
    BY <1>8, Zenon
<1>10. StartsOf(requests) = h
  BY <1>9, Zenon DEF StartsOf
<1> HIDE DEF g
<1>11. \A r \in 1..m : h[r] = IF r = 1 THEN 0 ELSE h[r - 1] + len[r - 1]
  BY <1>2, <1>3, <1>7, <1>9
<1>12. h[1] = 0 /\ \A k \in 1..n : h[k + 1] = h[k] + len[k]
  <2>1. h[1] = 0
    BY <1>3, <1>11
  <2>2. ASSUME NEW k \in 1..n PROVE h[k + 1] = h[k] + len[k]
    <3>1. k + 1 \in 1..m /\ k + 1 # 1 /\ (k + 1) - 1 = k
      BY <1>3
    <3> QED
      BY <1>11, <3>1
  <2> QED
    BY <2>1, <2>2
<1>13. h = [r \in 1..n + 1 |-> h[r]]
  BY <1>2, <1>9
<1> QED
  BY <1>1, <1>10, <1>12, <1>13 DEF Sums, len

LEMMA BatchParts ==
  ASSUME NEW n \in Nat, NEW Tok, NEW requests, StepsOf(requests, n, Tok),
         NEW padding \in Seq(Tok)
  PROVE  IsBatch(BatchOf(requests, padding), requests, n, Lengths(requests),
                 StartsOf(requests), Len(padding), Tok)
<1>1. PICK len, start : len = Lengths(requests) /\ start = StartsOf(requests)
  OBVIOUS
<1>2. Sums(n, len, start) /\ start = [r \in 1..n + 1 |-> start[r]]
  BY <1>1, StartsAreSums
<1>3. Len(requests) = n /\ DOMAIN requests = 1..n /\ \A r \in 1..n : IsStep(requests[r], Tok)
  BY DEF StepsOf
<1>4. \A r \in 1..n : len[r] = requests[r].upto - requests[r].computed
  BY <1>1, <1>3 DEF Lengths
<1> DEFINE part(r) == SubSeq(requests[r].history, requests[r].computed + 1, requests[r].upto)
<1>5. ASSUME NEW r \in 1..n
      PROVE  /\ part(r) \in Seq(Tok) /\ Len(part(r)) = len[r]
             /\ \A j \in 1..len[r] : part(r)[j] = requests[r].history[requests[r].computed + j]
  <2>1. PICK p, a, b : p = requests[r].history /\ a = requests[r].computed /\ b = requests[r].upto
    OBVIOUS
  <2>2. p \in Seq(Tok) /\ a \in Nat /\ b \in Nat /\ a <= b /\ b <= Len(p)
    BY <1>3, <2>1 DEF IsStep
  <2>3. PICK e \in Nat : b = a + e
    <3>1. b - a \in Nat /\ b = a + (b - a)
      BY <2>2
    <3> QED
      BY <3>1
  <2>4. len[r] = e
    <3>1. len[r] = b - a
      BY <1>4, <2>1
    <3> QED
      BY <2>2, <2>3, <3>1
  <2>5. a + e <= Len(p)
    BY <2>2, <2>3
  <2>6. /\ SubSeq(p, a + 1, a + e) \in Seq(Tok) /\ Len(SubSeq(p, a + 1, a + e)) = e
        /\ \A j \in 1..e : SubSeq(p, a + 1, a + e)[j] = p[a + j]
    BY <2>2, <2>5, Window
  <2> QED
    BY <2>1, <2>3, <2>4, <2>6
<1>6. PICK seqs : seqs = [r \in DOMAIN requests |-> part(r)]
  OBVIOUS
<1>7. seqs = [r \in 1..n |-> part(r)]
  BY <1>3, <1>6
<1> HIDE DEF part
<1>8. seqs \in [1..n -> Seq(Tok)] /\ HasLengths(seqs, len, n)
  BY <1>5, <1>7 DEF HasLengths
<1>9. IsJoin(Tok, FlattenSeq(seqs), seqs, len, start, n)
  BY <1>2, <1>8, FlattenParts
<1>10. PICK ids : ids = FlattenSeq(seqs)
  OBVIOUS
<1>11. ids \in Seq(Tok) /\ Len(ids) = start[n + 1]
       /\ \A r \in 1..n : \A j \in 1..len[r] : ids[start[r] + j] = seqs[r][j]
  BY <1>9, <1>10 DEF IsJoin, HoldsParts
<1>12. IdsOf(requests) = ids
  BY <1>6, <1>10, Zenon DEF IdsOf, part
<1>13. PICK all : all = ids \o padding
  OBVIOUS
<1>14. Concat(Tok, all, ids, padding)
  BY <1>11, <1>13, ConcatParts
<1>15. /\ all \in Seq(Tok) /\ Len(all) = start[n + 1] + Len(padding)
       /\ \A i \in 1..start[n + 1] : all[i] = ids[i]
  BY <1>11, <1>14 DEF Concat
<1>16. ASSUME NEW r \in 1..n, NEW j \in 1..len[r]
       PROVE  all[start[r] + j] = requests[r].history[requests[r].computed + j]
  <2>1. start[r] \in Nat /\ start[n + 1] \in Nat /\ len[r] \in Nat
    <3>1. \A k \in 1..n + 1 : start[k] \in Nat
      BY <1>2, SumsAreNat
    <3>2. len \in [1..n -> Nat]
      BY <1>2 DEF Sums
    <3> QED
      BY <3>1, <3>2
  <2>2. start[r] + len[r] <= start[n + 1]
    <3>1. n + 1 \in 1..n + 1 /\ r < n + 1
      OBVIOUS
    <3> QED
      BY <1>2, <3>1, SumsGrow
  <2>3. start[r] + j \in 1..start[n + 1]
    BY <2>1, <2>2
  <2>4. all[start[r] + j] = ids[start[r] + j]
    BY <1>15, <2>3
  <2>5. ids[start[r] + j] = seqs[r][j]
    BY <1>11
  <2>6. seqs[r][j] = requests[r].history[requests[r].computed + j]
    BY <1>5, <1>7
  <2> QED
    BY <2>4, <2>5, <2>6
<1>17. PICK batch : batch = BatchOf(requests, padding)
  OBVIOUS
<1>18. /\ batch.start = start /\ batch.ids = all
       /\ batch.context = [r \in DOMAIN requests |->
                             ContextAt(requests[r].history, requests[r].computed)]
  BY <1>1, <1>12, <1>13, <1>17 DEF BatchOf
<1>19. \A r \in 1..n : batch.context[r] = ContextAt(requests[r].history, requests[r].computed)
  BY <1>3, <1>18
<1>20. IsBatch(batch, requests, n, len, start, Len(padding), Tok)
  BY <1>2, <1>4, <1>15, <1>16, <1>18, <1>19 DEF IsBatch
<1> QED
  BY <1>1, <1>17, <1>20

\* The token at a position belongs to the last request that starts at or before it.
LEMMA RequestOfPosition ==
  ASSUME NEW n \in Nat, NEW Tok, NEW requests, NEW batch, NEW len, NEW start, NEW pads \in Nat,
         IsBatch(batch, requests, n, len, start, pads, Tok),
         NEW pos \in Nat, NEW m \in 1..n + 1,
         \A i \in 1..n + 1 : start[i] <= pos <=> i <= m
  PROVE  RequestOf(batch, pos) = IF m <= n THEN m ELSE n
<1>1. start = [r \in 1..n + 1 |-> start[r]] /\ batch.start = start
  BY DEF IsBatch
<1>2. Len(start) = n + 1 /\ DOMAIN start = 1..n + 1
  <2>1. n + 1 \in Nat
    OBVIOUS
  <2> QED
    BY <1>1, <2>1
<1>3. NumReqs(batch) = n
  BY <1>1, <1>2 DEF NumReqs
<1>4. {i \in DOMAIN batch.start : batch.start[i] <= pos} = 1..m
  BY <1>1, <1>2
<1>5. Cardinality(1..m) = m
  <2>1. 1 \in Int /\ m \in Int /\ ~(1 > m) /\ m - 1 + 1 = m
    OBVIOUS
  <2>2. Cardinality(1..m) = IF 1 > m THEN 0 ELSE m - 1 + 1
    BY <2>1, FS_Interval, Zenon
  <2> QED
    BY <2>1, <2>2
<1>6. RequestOf(batch, pos) = Min({m, n})
  BY <1>3, <1>4, <1>5, Zenon DEF RequestOf
<1>7. m \in Int /\ n \in Int
  OBVIOUS
<1> QED
  BY <1>6, <1>7, MinOfTwo

LEMMA RequestOfToken ==
  ASSUME NEW n \in Nat, NEW Tok, NEW requests, NEW batch, NEW len, NEW start, NEW pads \in Nat,
         IsBatch(batch, requests, n, len, start, pads, Tok),
         NEW r \in 1..n, NEW j \in 1..len[r], NEW pos, pos = start[r] + j - 1
  PROVE  RequestOf(batch, pos) = r /\ pos \in 0..start[n + 1] - 1
<1>1. Sums(n, len, start)
  BY DEF IsBatch
<1>2. \A k \in 1..n + 1 : start[k] \in Nat
  BY <1>1, SumsAreNat
<1>3. start[r] \in Nat /\ len[r] \in Nat
  BY <1>1, <1>2 DEF Sums
<1>4. ASSUME NEW i \in 1..n + 1 PROVE start[i] <= pos <=> i <= r
  <2>1. start[i] \in Nat
    BY <1>2
  <2>2. CASE i = r
    BY <1>3, <2>2
  <2>3. CASE i < r
    <3>1. i \in 1..n /\ r \in 1..n + 1
      BY <2>3
    <3>2. start[i] + len[i] <= start[r]
      BY <1>1, <2>3, <3>1, SumsGrow
    <3>3. len[i] \in Nat
      BY <1>1, <3>1 DEF Sums
    <3> QED
      BY <1>3, <2>1, <2>3, <3>2, <3>3
  <2>4. CASE r < i
    <3>1. start[r] + len[r] <= start[i]
      BY <1>1, <2>4, SumsGrow
    <3> QED
      BY <1>3, <2>1, <2>4, <3>1
  <2> QED
    BY <2>2, <2>3, <2>4
<1>5. pos \in Nat
  BY <1>3
<1>6. RequestOf(batch, pos) = r
  <2>1. r \in 1..n + 1 /\ r <= n
    OBVIOUS
  <2>2. RequestOf(batch, pos) = IF r <= n THEN r ELSE n
    BY <1>4, <1>5, <2>1, RequestOfPosition
  <2> QED
    BY <2>1, <2>2
<1>7. n + 1 \in 1..n + 1 /\ r < n + 1
  OBVIOUS
<1>8. start[r] + len[r] <= start[n + 1] /\ start[n + 1] \in Nat
  BY <1>1, <1>2, <1>7, SumsGrow
<1> QED
  BY <1>3, <1>6, <1>8

\* ... and the padding to the last request.
LEMMA RequestOfPadding ==
  ASSUME NEW n \in Nat, NEW Tok, NEW requests, NEW batch, NEW len, NEW start, NEW pads \in Nat,
         IsBatch(batch, requests, n, len, start, pads, Tok),
         NEW pos \in Nat, start[n + 1] <= pos
  PROVE  RequestOf(batch, pos) = n
<1>1. Sums(n, len, start)
  BY DEF IsBatch
<1>2. \A k \in 1..n + 1 : start[k] \in Nat
  BY <1>1, SumsAreNat
<1>3. n + 1 \in 1..n + 1
  OBVIOUS
<1>4. ASSUME NEW i \in 1..n + 1 PROVE start[i] <= pos <=> i <= n + 1
  <2>1. start[i] <= start[n + 1]
    <3>1. CASE i < n + 1
      <4>1. i \in 1..n
        BY <3>1
      <4>2. start[i] + len[i] <= start[n + 1]
        BY <1>1, <1>3, <3>1, <4>1, SumsGrow
      <4>3. len[i] \in Nat
        BY <1>1, <4>1 DEF Sums
      <4> QED
        BY <1>2, <1>3, <4>2, <4>3
    <3>2. CASE i = n + 1
      BY <1>2, <3>2
    <3> QED
      BY <3>1, <3>2
  <2> QED
    BY <1>2, <1>3, <2>1
<1>5. RequestOf(batch, pos) = IF n + 1 <= n THEN n + 1 ELSE n
  BY <1>3, <1>4, RequestOfPosition
<1> QED
  BY <1>5

\* A position of the batch is a request's token or padding.
IsToken(pos, n, len, start) == \E r \in 1..n : \E j \in 1..len[r] : pos = start[r] + j - 1

LEMMA PositionKinds ==
  ASSUME NEW n \in Nat, NEW len, NEW start, Sums(n, len, start), NEW pos \in Nat
  PROVE  start[n + 1] <= pos \/ IsToken(pos, n, len, start)
<1>1. start[n + 1] \in Nat
  <2>1. n + 1 \in 1..n + 1
    OBVIOUS
  <2>2. \A k \in 1..n + 1 : start[k] \in Nat
    BY SumsAreNat
  <2> QED
    BY <2>1, <2>2
<1>2. SUFFICES ASSUME pos < start[n + 1]
               PROVE  \E r \in 1..n : \E j \in 1..len[r] : pos = start[r] + j - 1
  BY <1>1 DEF IsToken
<1>3. PICK t : t = pos + 1
  OBVIOUS
<1>4. t \in 1..start[n + 1]
  BY <1>1, <1>2, <1>3
<1>5. PICK r \in 1..n : \E j \in 1..len[r] : t = start[r] + j
  BY <1>4, SumsCover
<1>6. PICK j \in 1..len[r] : t = start[r] + j
  BY <1>5
<1>7. pos = start[r] + j - 1
  <2>1. start[r] \in Nat
    <3>1. \A k \in 1..n + 1 : start[k] \in Nat
      BY SumsAreNat
    <3>2. r \in 1..n + 1
      OBVIOUS
    <3> QED
      BY <3>1, <3>2
  <2> QED
    BY <1>3, <1>6, <2>1
<1> QED
  BY <1>7

\* The rows are wide enough for every token; on the GPU also for the padding.
LEMMA WidthIsEnough ==
  ASSUME NEW n \in Nat, NEW Tok, NEW requests, NEW batch, NEW len, NEW start, NEW pads \in Nat,
         IsBatch(batch, requests, n, len, start, pads, Tok), MaxTotalTokens \in Nat,
         start[n + 1] + pads <= MaxTotalTokens, NEW offload \in BOOLEAN
  PROVE  /\ Width(batch, offload) \in Nat
         /\ \A r \in 1..n : len[r] <= Width(batch, offload)
         /\ ~offload => Width(batch, offload) = MaxTotalTokens
<1>1. Sums(n, len, start) /\ len \in [1..n -> Nat]
  BY DEF IsBatch, Sums
<1>2. \A k \in 1..n + 1 : start[k] \in Nat
  BY <1>1, SumsAreNat
<1>3. batch.start = start /\ start = [r \in 1..n + 1 |-> start[r]]
  BY DEF IsBatch
<1>4. NumReqs(batch) = n
  <2>1. n + 1 \in Nat
    OBVIOUS
  <2>2. Len(start) = n + 1
    BY <1>3, <2>1
  <2> QED
    BY <1>3, <2>2 DEF NumReqs
<1>5. CASE offload
  <2> DEFINE S == {1} \cup {batch.start[r + 1] - batch.start[r] : r \in 1..NumReqs(batch)}
  <2>1. \A r \in 1..n : batch.start[r + 1] - batch.start[r] = len[r]
    <3>1. TAKE r \in 1..n
    <3>2. start[r + 1] = start[r] + len[r] /\ r \in 1..n + 1 /\ len[r] \in Nat
      BY <1>1 DEF Sums
    <3>3. start[r] \in Nat
      BY <1>2, <3>2
    <3> QED
      BY <1>3, <3>2, <3>3
  <2>2. S = {1} \cup {len[r] : r \in 1..n}
    BY <1>4, <2>1
  <2>3. IsFiniteSet(S)
    <3>1. 1 \in Int /\ n \in Int
      OBVIOUS
    <3>2. IsFiniteSet(1..n)
      BY <3>1, FS_Interval, Zenon
    <3>3. IsFiniteSet({len[r] : r \in 1..n})
      BY <3>2, ImageFinite
    <3>4. IsFiniteSet({1})
      BY FS_Singleton
    <3>5. IsFiniteSet({1} \cup {len[r] : r \in 1..n})
      BY <3>3, <3>4, FS_Union
    <3> QED
      BY <2>2, <3>5
  <2>4. S \in SUBSET Nat /\ S \in SUBSET Int /\ S # {} /\ \A r \in 1..n : len[r] \in S
    <3> HIDE DEF S
    <3>1. ASSUME NEW r \in 1..n PROVE len[r] \in Nat
      BY <1>1
    <3>2. \A x \in S : x \in Nat
      BY <2>2, <3>1
    <3>3. \A r \in 1..n : len[r] \in S
      BY <2>2
    <3>4. 1 \in S
      BY <2>2
    <3> QED
      BY <3>2, <3>3, <3>4
  <2>5. Width(batch, offload) = Max(S)
    BY <1>5 DEF Width
  <2> HIDE DEF S
  <2>6. Max(S) \in S /\ \A y \in S : Max(S) >= y
    BY <2>3, <2>4, MaxOfFinite
  <2>7. PICK w : w = Max(S)
    OBVIOUS
  <2>8. w \in Nat /\ \A r \in 1..n : len[r] <= w
    <3>1. w \in Nat /\ \A y \in S : y \in Nat /\ w >= y
      BY <2>4, <2>6, <2>7
    <3>2. ASSUME NEW r \in 1..n PROVE len[r] <= w
      <4>1. len[r] \in S
        BY <2>4
      <4>2. len[r] \in Nat /\ w >= len[r]
        BY <3>1, <4>1
      <4> QED
        BY <3>1, <4>2
    <3> QED
      BY <3>1, <3>2
  <2> QED
    BY <1>5, <2>5, <2>7, <2>8
<1>6. CASE ~offload
  <2>1. Width(batch, offload) = MaxTotalTokens
    BY <1>6 DEF Width
  <2>2. ASSUME NEW r \in 1..n PROVE len[r] <= MaxTotalTokens
    <3>1. r \in 1..n + 1 /\ n + 1 \in 1..n + 1 /\ r < n + 1
      OBVIOUS
    <3>2. start[r] \in Nat /\ start[n + 1] \in Nat /\ len[r] \in Nat
      BY <1>1, <1>2, <3>1
    <3>3. start[r] + len[r] <= start[n + 1]
      BY <1>1, <3>1, SumsGrow
    <3> QED
      BY <3>2, <3>3
  <2> QED
    BY <2>1, <2>2
<1> QED
  BY <1>5, <1>6

\* The column of a position that fits into the row of its request.
LEMMA ColumnOf ==
  ASSUME NEW batch, NEW offload, NEW pos, NEW r, RequestOf(batch, pos) = r,
         NEW k \in Nat, pos - batch.start[r] = k,
         Width(batch, offload) \in Nat, k < Width(batch, offload)
  PROVE  Column(batch, offload, pos) = k + 1
<1>1. PICK w \in Nat : w = Width(batch, offload)
  OBVIOUS
<1>2. Column(batch, offload, pos) = 1 + Max({0, Min({k, w - 1})})
  BY <1>1 DEF Column
<1>3. k \in Int /\ w - 1 \in Int /\ k <= w - 1 /\ 0 \in Int
  BY <1>1
<1>4. Min({k, w - 1}) = k
  BY <1>3, MinOfTwo
<1>5. Max({0, k}) = k
  BY <1>3, MaxOfTwo
<1>6. Column(batch, offload, pos) = 1 + k
  BY <1>2, <1>4, <1>5
<1> QED
  BY <1>6

\* Only the token itself is written into its column.
LEMMA OneWriter ==
  ASSUME NEW n \in Nat, NEW Tok, NEW requests, NEW batch, NEW len, NEW start, NEW pads \in Nat,
         IsBatch(batch, requests, n, len, start, pads, Tok), MaxTotalTokens \in Nat,
         start[n + 1] + pads <= MaxTotalTokens, NEW offload \in BOOLEAN,
         NEW r \in 1..n, NEW c \in 1..len[r], NEW own, own = start[r] + c - 1
  PROVE  /\ Writers(batch, offload, r, c) = {own}
         /\ RequestOf(batch, own) = r /\ Column(batch, offload, own) = c
<1>1. Sums(n, len, start) /\ len \in [1..n -> Nat]
  BY DEF IsBatch, Sums
<1>2. \A k \in 1..n + 1 : start[k] \in Nat
  BY <1>1, SumsAreNat
<1>3. /\ batch.start = start /\ start = [i \in 1..n + 1 |-> start[i]]
      /\ Len(batch.ids) = start[n + 1] + pads
  BY DEF IsBatch
<1>4. n + 1 \in 1..n + 1 /\ r \in 1..n + 1 /\ n \in 1..n
  OBVIOUS
<1>5. PICK total \in Nat : total = start[n + 1]
  BY <1>2, <1>4
<1>6. /\ Width(batch, offload) \in Nat
      /\ \A k \in 1..n : len[k] <= Width(batch, offload)
      /\ ~offload => Width(batch, offload) = MaxTotalTokens
  BY WidthIsEnough
<1>7. PICK w \in Nat : w = Width(batch, offload)
  BY <1>6
<1>8. ASSUME NEW k \in 1..n, NEW j \in 1..len[k], NEW pos, pos = start[k] + j - 1
      PROVE  /\ RequestOf(batch, pos) = k /\ Column(batch, offload, pos) = j
             /\ pos \in 0..total - 1
  <2>1. RequestOf(batch, pos) = k /\ pos \in 0..total - 1
    BY <1>5, <1>8, RequestOfToken
  <2>2. start[k] \in Nat /\ len[k] \in Nat
    <3>1. k \in 1..n + 1
      OBVIOUS
    <3> QED
      BY <1>1, <1>2, <3>1
  <2>3. j - 1 \in Nat /\ pos - start[k] = j - 1 /\ (j - 1) + 1 = j
    BY <1>8, <2>2
  <2>4. j - 1 < w
    <3>1. len[k] <= w
      BY <1>6, <1>7
    <3> QED
      BY <1>7, <2>2, <3>1
  <2>5. pos - batch.start[k] = j - 1
    BY <1>3, <2>3
  <2>6. Column(batch, offload, pos) = (j - 1) + 1
    BY <1>6, <1>7, <2>1, <2>3, <2>4, <2>5, ColumnOf
  <2> QED
    BY <2>1, <2>3, <2>6
<1>9. PICK valid : valid = ValidTokens(batch, offload)
  OBVIOUS
<1>10. /\ valid \in Nat /\ total <= valid /\ valid <= total + pads
       /\ offload => valid = total
  <2>1. NumReqs(batch) = n
    <3>1. n + 1 \in Nat
      OBVIOUS
    <3>2. Len(start) = n + 1
      BY <1>3, <3>1
    <3> QED
      BY <1>3, <3>2 DEF NumReqs
  <2>2. NumTokens(batch) = total + pads
    BY <1>3, <1>5 DEF NumTokens
  <2>3. Min({total, total + pads}) = total
    <3>1. total \in Int /\ total + pads \in Int /\ total <= total + pads
      OBVIOUS
    <3> QED
      BY <3>1, MinOfTwo
  <2>4. offload => valid = total
    BY <1>3, <1>5, <1>9, <2>1, <2>2, <2>3 DEF ValidTokens
  <2>5. ~offload => valid = total + pads
    BY <1>9, <2>2 DEF ValidTokens
  <2> QED
    BY <2>4, <2>5
<1>11. ASSUME NEW pos \in 0..valid - 1, RequestOf(batch, pos) = r,
              Column(batch, offload, pos) = c
       PROVE  pos = own
  <2>1. pos \in Nat
    OBVIOUS
  <2>2. CASE total <= pos
    <3>1. ~offload /\ w = MaxTotalTokens /\ pos < w
      BY <1>5, <1>6, <1>7, <1>10, <2>1, <2>2
    <3>2. r = n
      <4>1. RequestOf(batch, pos) = n
        BY <1>5, <2>1, <2>2, RequestOfPadding
      <4> QED
        BY <1>11, <4>1
    <3>3. start[n] \in Nat /\ len[n] \in Nat /\ start[n + 1] = start[n] + len[n]
      <4>1. n \in 1..n + 1
        BY <1>4
      <4> QED
        BY <1>1, <1>2, <1>4, <4>1 DEF Sums
    <3>4. PICK k \in Nat : pos = start[n] + k
      <4>1. pos - start[n] \in Nat /\ pos = start[n] + (pos - start[n])
        BY <1>5, <2>1, <2>2, <3>3
      <4> QED
        BY <4>1
    <3>5. k < w /\ len[n] <= k
      BY <1>5, <2>2, <3>1, <3>3, <3>4
    <3>6. pos - batch.start[r] = k
      BY <1>3, <3>2, <3>3, <3>4
    <3>7. Column(batch, offload, pos) = k + 1
      BY <1>6, <1>7, <1>11, <3>5, <3>6, ColumnOf
    <3> QED
      BY <1>11, <3>2, <3>3, <3>5, <3>7
  <2>3. CASE ~(total <= pos)
    <3>1. PICK k \in 1..n : \E j \in 1..len[k] : pos = start[k] + j - 1
      <4>1. start[n + 1] <= pos \/ IsToken(pos, n, len, start)
        BY <1>1, <2>1, PositionKinds
      <4> QED
        BY <1>5, <2>3, <4>1 DEF IsToken
    <3>2. PICK j \in 1..len[k] : pos = start[k] + j - 1
      BY <3>1
    <3>3. RequestOf(batch, pos) = k /\ Column(batch, offload, pos) = j
      BY <1>8, <3>2
    <3> QED
      BY <1>11, <3>2, <3>3
  <2> QED
    BY <2>2, <2>3
<1>12. /\ RequestOf(batch, own) = r /\ Column(batch, offload, own) = c
       /\ own \in 0..total - 1
  BY <1>8
<1>13. own \in 0..valid - 1
  BY <1>10, <1>12
<1>14. Writers(batch, offload, r, c) =
         {pos \in 0..valid - 1 : RequestOf(batch, pos) = r /\ Column(batch, offload, pos) = c}
  BY <1>9 DEF Writers
<1>15. Writers(batch, offload, r, c) = {own}
  BY <1>11, <1>12, <1>13, <1>14
<1> QED
  BY <1>12, <1>15

\* What the scatter leaves in a column.
LEMMA CellsOfRow ==
  ASSUME NEW n \in Nat, NEW Tok, EOS \in Tok, NEW requests, NEW batch, NEW len, NEW start,
         NEW pads \in Nat,
         IsBatch(batch, requests, n, len, start, pads, Tok), MaxTotalTokens \in Nat,
         start[n + 1] + pads <= MaxTotalTokens, NEW offload \in BOOLEAN, NEW r \in 1..n
  PROVE  /\ \A c \in Nat : Cells(batch, offload, r, c) # {} /\ Cells(batch, offload, r, c) \subseteq Tok
         /\ \A c \in 1..len[r] :
              Cells(batch, offload, r, c) = {requests[r].history[requests[r].computed + c]}
<1>1. /\ Sums(n, len, start) /\ batch.start = start
      /\ batch.ids \in Seq(Tok) /\ Len(batch.ids) = start[n + 1] + pads
      /\ start = [i \in 1..n + 1 |-> start[i]]
  BY DEF IsBatch
<1>2. \A k \in 1..n + 1 : start[k] \in Nat
  BY <1>1, SumsAreNat
<1>3. PICK total \in Nat : total = start[n + 1]
  <2>1. n + 1 \in 1..n + 1
    OBVIOUS
  <2> QED
    BY <1>2, <2>1
<1>4. PICK valid : valid = ValidTokens(batch, offload)
  OBVIOUS
<1>5. valid \in Int /\ valid <= Len(batch.ids)
  <2>1. NumTokens(batch) = total + pads
    BY <1>1, <1>3 DEF NumTokens
  <2>2. NumReqs(batch) = n
    <3>1. n + 1 \in Nat
      OBVIOUS
    <3>2. Len(start) = n + 1
      BY <1>1, <3>1
    <3> QED
      BY <1>1, <3>2 DEF NumReqs
  <2>3. Min({total, total + pads}) = total
    <3>1. total \in Int /\ total + pads \in Int /\ total <= total + pads
      OBVIOUS
    <3> QED
      BY <3>1, MinOfTwo
  <2>4. offload => valid = total
    BY <1>1, <1>3, <1>4, <2>1, <2>2, <2>3 DEF ValidTokens
  <2>5. ~offload => valid = total + pads
    BY <1>4, <2>1 DEF ValidTokens
  <2>6. Len(batch.ids) = total + pads
    BY <1>1, <1>3
  <2> QED
    BY <2>4, <2>5, <2>6
<1>6. ASSUME NEW c \in Nat
      PROVE  Cells(batch, offload, r, c) # {} /\ Cells(batch, offload, r, c) \subseteq Tok
  <2>1. PICK writers : writers = Writers(batch, offload, r, c)
    OBVIOUS
  <2>2. Cells(batch, offload, r, c) =
          IF writers = {} THEN {EOS} ELSE {batch.ids[pos + 1] : pos \in writers}
    BY <2>1, Zenon DEF Cells
  <2>3. \A pos \in writers : batch.ids[pos + 1] \in Tok
    <3>1. TAKE pos \in writers
    <3>2. pos \in 0..valid - 1
      BY <1>4, <2>1 DEF Writers
    <3>3. PICK ids : ids = batch.ids
      OBVIOUS
    <3>4. ids \in Seq(Tok) /\ pos + 1 \in 1..Len(ids)
      BY <1>1, <1>5, <3>2, <3>3
    <3> QED
      BY <3>3, <3>4, ElementOfSeq
  <2> QED
    BY <2>2, <2>3
<1>7. ASSUME NEW c \in 1..len[r]
      PROVE  Cells(batch, offload, r, c) = {requests[r].history[requests[r].computed + c]}
  <2>1. PICK own : own = start[r] + c - 1
    OBVIOUS
  <2>2. Writers(batch, offload, r, c) = {own}
    BY <2>1, OneWriter
  <2>3. Cells(batch, offload, r, c) = {batch.ids[own + 1]}
    BY <2>2 DEF Cells
  <2>4. own + 1 = start[r] + c
    <3>1. start[r] \in Nat
      <4>1. r \in 1..n + 1
        OBVIOUS
      <4> QED
        BY <1>2, <4>1
    <3>2. len[r] \in Nat
      BY <1>1 DEF Sums
    <3> QED
      BY <2>1, <3>1, <3>2
  <2>5. batch.ids[start[r] + c] = requests[r].history[requests[r].computed + c]
    BY DEF IsBatch
  <2> QED
    BY <2>3, <2>4, <2>5
<1> QED
  BY <1>6, <1>7

\* A row the scatter can leave, up to column k.
IsRow(row, batch, offload, r, k, Tok) ==
  /\ row \in Seq(Tok) /\ Len(row) = k
  /\ \A c \in 1..k : row[c] \in Cells(batch, offload, r, c)

AreRows(rows, batch, offload, r, k, Tok) ==
  rows # {} /\ \A row \in rows : IsRow(row, batch, offload, r, k, Tok)

HasCells(batch, offload, r, Tok) ==
  \A c \in Nat : Cells(batch, offload, r, c) # {} /\ Cells(batch, offload, r, c) \subseteq Tok

LEMMA RowsLengthened ==
  ASSUME NEW rows, NEW ids, NEW x
  PROVE  x \in AnyBehind(rows, ids) <=> \E row \in rows : \E id \in ids : x = Append(row, id)
  BY DEF AnyBehind

LEMMA PackedRows ==
  ASSUME NEW batch, NEW offload, NEW r, NEW Tok, NEW w \in Nat, w = Width(batch, offload),
         HasCells(batch, offload, r, Tok)
  PROVE  AreRows(Packed(batch, offload, r), batch, offload, r, w, Tok)
<1>1. PICK cells : cells = [c \in Nat |-> Cells(batch, offload, r, c)]
  OBVIOUS
<1>2. \A c \in Nat : cells[c] = Cells(batch, offload, r, c) /\ cells[c] # {} /\ cells[c] \subseteq Tok
  BY <1>1 DEF HasCells
<1> DEFINE S == SUBSET Seq(Tok)
           st == [c \in 0 + 1..w |-> [rows \in S |-> AnyBehind(rows, cells[c])]]
           body(g) == [c \in 0..Width(batch, offload) |->
                         IF c = 0 THEN {<< >>}
                         ELSE AnyBehind(g[c - 1], Cells(batch, offload, r, c))]
<1>3. ASSUME NEW rows \in S, NEW c \in 0 + 1..w PROVE AnyBehind(rows, cells[c]) \in S
  <2>1. cells[c] \subseteq Tok
    BY <1>2
  <2>2. ASSUME NEW row \in rows, NEW id \in cells[c] PROVE Append(row, id) \in Seq(Tok)
    <3>1. row \in Seq(Tok) /\ id \in Tok
      BY <2>1
    <3> QED
      BY <3>1, AppendProperties
  <2>3. AnyBehind(rows, cells[c]) \subseteq Seq(Tok)
    BY <2>2, RowsLengthened
  <2> QED
    BY <2>3
<1>4. st \in [0 + 1..w -> [S -> S]]
  <2> HIDE DEF S
  <2> QED
    BY <1>3
<1>5. PICK f \in [0..w -> S] : Follows(f, {<< >>}, st, 0, w)
  <2>1. {<< >>} \in S
    <3>1. << >> \in Seq(Tok)
      BY EmptySeq
    <3> QED
      BY <3>1
  <2>2. 0 \in Int /\ w \in Int /\ 0 <= w
    OBVIOUS
  <2> HIDE DEF st, S
  <2> QED
    BY <1>4, <2>1, <2>2, RecursionFrom
<1>6. \A c \in 0..w : f[c] = IF c = 0 THEN {<< >>} ELSE AnyBehind(f[c - 1], cells[c])
  <2>1. TAKE c \in 0..w
  <2>2. f[c] = IF c = 0 THEN {<< >>} ELSE st[c][f[c - 1]]
    <3> HIDE DEF st, S
    <3> QED
      BY <1>5 DEF Follows
  <2>3. c # 0 => st[c][f[c - 1]] = AnyBehind(f[c - 1], cells[c])
    <3>1. SUFFICES ASSUME c # 0 PROVE st[c][f[c - 1]] = AnyBehind(f[c - 1], cells[c])
      OBVIOUS
    <3>2. c \in 0 + 1..w /\ c - 1 \in 0..w
      BY <3>1
    <3>3. f[c - 1] \in S
      <4> HIDE DEF S
      <4> QED
        BY <1>5, <3>2
    <3> HIDE DEF S
    <3> QED
      BY <3>2, <3>3
  <2> HIDE DEF st, S
  <2> QED
    BY <2>2, <2>3
<1>7. f = body(f)
  <2>1. f = [c \in 0..w |-> f[c]]
    <3> HIDE DEF S
    <3> QED
      BY <1>5
  <2>2. ASSUME NEW c \in 0..w
        PROVE  f[c] = IF c = 0 THEN {<< >>}
                      ELSE AnyBehind(f[c - 1], Cells(batch, offload, r, c))
    <3>1. cells[c] = Cells(batch, offload, r, c)
      BY <1>2
    <3>2. f[c] = IF c = 0 THEN {<< >>} ELSE AnyBehind(f[c - 1], cells[c])
      <4> HIDE DEF S
      <4> QED
        BY <1>6
    <3> QED
      BY <3>1, <3>2
  <2> HIDE DEF S
  <2> QED
    BY <2>1, <2>2
<1> DEFINE g == CHOOSE g : g = body(g)
<1>8. PICK h : h = g /\ h = body(h)
  <2> HIDE DEF body
  <2> QED
    BY <1>7, Zenon
<1>9. Packed(batch, offload, r) = h[w]
  <2>1. Packed(batch, offload, r) = g[Width(batch, offload)]
    BY Zenon DEF Packed
  <2> HIDE DEF g
  <2> QED
    BY <1>8, <2>1
<1> HIDE DEF g
<1>10. ASSUME NEW c \in 0..w
       PROVE  h[c] = IF c = 0 THEN {<< >>} ELSE AnyBehind(h[c - 1], cells[c])
  <2>1. cells[c] = Cells(batch, offload, r, c)
    BY <1>2
  <2>2. h[c] = IF c = 0 THEN {<< >>}
               ELSE AnyBehind(h[c - 1], Cells(batch, offload, r, c))
    BY <1>8
  <2> QED
    BY <2>1, <2>2
<1> DEFINE P == {k \in 0..w : AreRows(h[k], batch, offload, r, k, Tok)}
<1>11. 0 \in P
  <2>1. h[0] = {<< >>}
    BY <1>10
  <2>2. IsRow(<< >>, batch, offload, r, 0, Tok)
    <3>1. << >> \in Seq(Tok) /\ Len(<< >>) = 0
      BY EmptySeq
    <3> QED
      BY <3>1 DEF IsRow
  <2> QED
    BY <2>1, <2>2 DEF AreRows
<1>12. \A k \in 0..w - 1 : k \in P => k + 1 \in P
  <2>1. TAKE k \in 0..w - 1
  <2>2. HAVE k \in P
  <2>3. k \in 0..w /\ k + 1 \in 0..w /\ k + 1 # 0 /\ (k + 1) - 1 = k /\ k + 1 \in Nat
    OBVIOUS
  <2>4. h[k + 1] = AnyBehind(h[k], cells[k + 1])
    BY <1>10, <2>3
  <2>5. h[k] # {} /\ \A row \in h[k] : IsRow(row, batch, offload, r, k, Tok)
    BY <2>2 DEF AreRows
  <2>6. cells[k + 1] = Cells(batch, offload, r, k + 1) /\ cells[k + 1] # {} /\ cells[k + 1] \subseteq Tok
    BY <1>2, <2>3
  <2>7. ASSUME NEW row \in h[k], NEW id \in cells[k + 1]
        PROVE  IsRow(Append(row, id), batch, offload, r, k + 1, Tok)
    <3>1. row \in Seq(Tok) /\ Len(row) = k /\ \A c \in 1..k : row[c] \in Cells(batch, offload, r, c)
      BY <2>5 DEF IsRow
    <3>2. id \in Tok
      BY <2>6
    <3>3. PICK long : long = Append(row, id)
      OBVIOUS
    <3>4. /\ long \in Seq(Tok) /\ Len(long) = k + 1
          /\ \A c \in 1..k : long[c] = row[c]
          /\ long[k + 1] = id
      BY <3>1, <3>2, <3>3, AppendProperties
    <3>5. ASSUME NEW c \in 1..k + 1 PROVE long[c] \in Cells(batch, offload, r, c)
      <4>1. CASE c = k + 1
        BY <2>6, <3>4, <4>1
      <4>2. CASE c # k + 1
        <5>1. c \in 1..k
          BY <4>2
        <5> QED
          BY <3>1, <3>4, <5>1
      <4> QED
        BY <4>1, <4>2
    <3> QED
      BY <3>3, <3>4, <3>5 DEF IsRow
  <2>8. \A row \in h[k + 1] : IsRow(row, batch, offload, r, k + 1, Tok)
    <3>1. TAKE row \in h[k + 1]
    <3>2. row \in AnyBehind(h[k], cells[k + 1])
      BY <2>4
    <3>3. \E short \in h[k] : \E id \in cells[k + 1] : row = Append(short, id)
      BY <3>2 DEF AnyBehind
    <3>4. PICK short \in h[k], id \in cells[k + 1] : row = Append(short, id)
      BY <3>3
    <3> QED
      BY <2>7, <3>4
  <2>9. h[k + 1] # {}
    <3>1. PICK short \in h[k], id \in cells[k + 1] : TRUE
      BY <2>5, <2>6
    <3>2. Append(short, id) \in AnyBehind(h[k], cells[k + 1])
      BY RowsLengthened, Zenon
    <3> QED
      BY <2>4, <3>2
  <2> QED
    BY <2>3, <2>8, <2>9 DEF AreRows
<1>13. 0..w \subseteq P
  <2> HIDE DEF P
  <2> QED
    BY <1>11, <1>12, Induction
<1>14. w \in P
  <2>1. w \in 0..w
    OBVIOUS
  <2> QED
    BY <1>13, <2>1
<1> QED
  BY <1>9, <1>14

\* The first p columns of row are the p tokens up to token i, EOS before the first.
TokensUpTo(row, history, p, i) ==
  \A q \in 1..p : row[q] = IF i - p + q >= 1 THEN history[i - p + q] ELSE EOS

\* The first len columns of row are the tokens that follow the computed ones.
HoldsPart(row, history, computed, len) ==
  \A c \in 1..len : row[c] = history[computed + c]

\* A context with a row of the step behind it.
IsFull(full, row, history, p, i, Tok) ==
  /\ full \in Seq(Tok) /\ Len(full) = NgramSize - 1 + Len(row)
  /\ TokensUpTo(full, history, p, i)

LEMMA ContextThenRow ==
  ASSUME NgramSizeAssumption, NEW Tok, EOS \in Tok, NEW history \in Seq(Tok),
         NEW computed \in Nat, NEW upto \in Nat, upto <= Len(history),
         NEW len \in Nat, upto = computed + len,
         NEW row \in Seq(Tok), len <= Len(row), HoldsPart(row, history, computed, len),
         NEW j \in 1..len, NEW full, full = ContextAt(history, computed) \o row,
         NEW p, p = j + NgramSize - 1, NEW i, i = computed + j
  PROVE  IsFull(full, row, history, p, i, Tok)
<1>1. PICK size : size = NgramSize - 1
  OBVIOUS
<1>2. size \in Nat /\ NgramSize = size + 1 /\ NgramSize \in Nat
  BY <1>1 DEF NgramSizeAssumption
<1>3. PICK context : context = ContextAt(history, computed)
  OBVIOUS
<1>4. context = [k \in 1..size |-> IF computed - size + k >= 1
                                   THEN history[computed - size + k] ELSE EOS]
  BY <1>1, <1>2, <1>3 DEF ContextAt
<1>5. \A x \in 1..upto : history[x] \in Tok
  <2>1. TAKE x \in 1..upto
  <2>2. Len(history) \in Nat
    BY <1>2, LenProperties
  <2>3. x \in 1..Len(history)
    BY <1>2, <2>2
  <2> QED
    BY <1>2, <2>3, ElementOfSeq
<1>6. context \in Seq(Tok) /\ Len(context) = size
  <2>1. ASSUME NEW k \in 1..size PROVE context[k] \in Tok
    <3>1. CASE computed - size + k >= 1
      <4>1. computed - size + k \in 1..upto
        BY <1>2, <3>1
      <4>2. context[k] = history[computed - size + k]
        BY <1>4, <3>1
      <4> QED
        BY <1>5, <4>1, <4>2
    <3>2. CASE ~(computed - size + k >= 1)
      BY <1>4, <3>2
    <3> QED
      BY <3>1, <3>2
  <2> QED
    BY <1>2, <1>4, <2>1
<1>7. Concat(Tok, full, context, row)
  BY <1>1, <1>3, <1>6, ConcatParts
<1>8. /\ full \in Seq(Tok) /\ Len(full) = size + Len(row)
      /\ \A k \in 1..size : full[k] = context[k]
      /\ \A c \in 1..Len(row) : full[size + c] = row[c]
  BY <1>6, <1>7 DEF Concat
<1>10. p = j + size /\ i - p = computed - size /\ p \in Nat /\ i \in Nat
  BY <1>2
<1>11. ASSUME NEW q \in 1..p
       PROVE  full[q] = IF i - p + q >= 1 THEN history[i - p + q] ELSE EOS
  <2>1. CASE q <= size
    <3>1. q \in 1..size
      BY <1>2, <1>10, <2>1
    <3>2. full[q] = context[q]
      BY <1>8, <3>1
    <3>3. context[q] = IF computed - size + q >= 1 THEN history[computed - size + q] ELSE EOS
      BY <1>4, <3>1
    <3> QED
      BY <1>10, <3>2, <3>3
  <2>2. CASE size < q
    <3>1. PICK c : c = q - size
      OBVIOUS
    <3>2. c \in 1..len /\ q = size + c /\ i - p + q = computed + c /\ computed + c >= 1
      BY <1>2, <1>10, <2>2, <3>1
    <3>3. Len(row) \in Nat
      BY LenProperties
    <3>4. c \in 1..Len(row)
      BY <3>2, <3>3
    <3>5. full[q] = row[c]
      BY <1>8, <3>2, <3>4
    <3>6. row[c] = history[computed + c]
      BY <1>1, <3>2 DEF HoldsPart
    <3> QED
      BY <3>2, <3>5, <3>6
  <2>3. q <= size \/ size < q
    BY <1>2, <1>10
  <2> QED
    BY <2>1, <2>2, <2>3
<1>12. TokensUpTo(full, history, p, i)
  BY <1>11, Zenon DEF TokensUpTo
<1> QED
  BY <1>1, <1>8, <1>12 DEF IsFull

\* The shift stops at the last EOS before the token.
LEMMA ShiftStopsAtEOS ==
  ASSUME NEW row, NEW history, NEW p \in DOMAIN row, NEW i \in Nat, NEW shift \in Nat,
         p \in Nat, i >= 1, 1 <= shift, shift < p, TokensUpTo(row, history, p, i)
  PROVE  Shifted(row, shift)[p] =
           IF i - shift >= 1 /\ \A q \in i - shift..i - 1 : history[q] # EOS
           THEN history[i - shift] ELSE EOS
<1> DEFINE ends == {q \in 1..p - 1 : row[q] = EOS} \cup {0}
<1>1. ends \in SUBSET Int /\ IsFiniteSet(ends) /\ ends # {} /\ 0 \in ends
      /\ \A q \in ends : q \in Nat
  <2>1. 1 \in Int /\ p - 1 \in Int
    OBVIOUS
  <2>2. IsFiniteSet(1..p - 1)
    BY <2>1, FS_Interval, Zenon
  <2>3. IsFiniteSet({q \in 1..p - 1 : row[q] = EOS})
    <3>1. {q \in 1..p - 1 : row[q] = EOS} \in SUBSET (1..p - 1)
      OBVIOUS
    <3> QED
      BY <2>2, <3>1, FS_Subset
  <2>4. IsFiniteSet({0})
    BY FS_Singleton
  <2>5. IsFiniteSet(ends)
    BY <2>3, <2>4, FS_Union
  <2> QED
    BY <2>5
<1>2. PICK last : last = Max(ends)
  OBVIOUS
<1>3. last \in ends /\ last \in Nat /\ \A q \in ends : last >= q
  <2> HIDE DEF ends
  <2> QED
    BY <1>1, <1>2, MaxOfFinite
<1>4. PositionInSegment(row)[p] = p - 1 - last
  BY <1>2 DEF PositionInSegment
<1>5. Shifted(row, shift)[p] = IF p - shift >= 1 /\ p - 1 - last >= shift
                               THEN row[p - shift] ELSE EOS
  BY <1>4 DEF Shifted
<1>6. p - shift >= 1 /\ p - shift \in 1..p /\ p - shift \in 1..p - 1
  OBVIOUS
<1>7. i - p + (p - shift) = i - shift
  OBVIOUS
<1>8. row[p - shift] = IF i - shift >= 1 THEN history[i - shift] ELSE EOS
  BY <1>6, <1>7 DEF TokensUpTo
<1>9. ASSUME i - shift >= 1, \A q \in i - shift..i - 1 : history[q] # EOS
      PROVE  p - 1 - last >= shift
  <2>1. SUFFICES ASSUME last > p - 1 - shift PROVE FALSE
    BY <1>3
  <2>2. last \in p - shift..p - 1 /\ row[last] = EOS
    BY <1>3, <1>6, <2>1
  <2>3. last \in 1..p
    BY <1>6, <2>2
  <2>4. PICK x : x = i - p + last
    OBVIOUS
  <2>5. x \in i - shift..i - 1 /\ x >= 1
    BY <1>9, <2>2, <2>4
  <2>6. row[last] = IF x >= 1 THEN history[x] ELSE EOS
    BY <2>3, <2>4 DEF TokensUpTo
  <2> QED
    BY <1>9, <2>2, <2>5, <2>6
<1>10. ASSUME i - shift >= 1, p - 1 - last >= shift, NEW q \in i - shift..i - 1
       PROVE  history[q] # EOS
  <2>1. PICK x : x = q - (i - p)
    OBVIOUS
  <2>2. x \in 1..p /\ x \in 1..p - 1 /\ x > last /\ i - p + x = q /\ q >= 1
    BY <1>3, <1>10, <2>1
  <2>3. row[x] = history[q]
    <3>1. row[x] = IF i - p + x >= 1 THEN history[i - p + x] ELSE EOS
      BY <2>2 DEF TokensUpTo
    <3> QED
      BY <2>2, <3>1
  <2>4. x \notin ends
    <3>1. x \in ends => last >= x
      BY <1>3
    <3> HIDE DEF ends
    <3> QED
      BY <1>3, <2>2, <3>1
  <2> QED
    BY <2>2, <2>3, <2>4
<1> HIDE DEF ends
<1>11. CASE i - shift >= 1 /\ \A q \in i - shift..i - 1 : history[q] # EOS
  BY <1>5, <1>6, <1>8, <1>9, <1>11
<1>12. CASE ~(i - shift >= 1)
  BY <1>5, <1>8, <1>12
<1>13. CASE i - shift >= 1 /\ ~ \A q \in i - shift..i - 1 : history[q] # EOS
  <2>1. ~(p - 1 - last >= shift)
    BY <1>10, <1>13
  <2> QED
    BY <1>5, <1>13, <2>1
<1> QED
  BY <1>11, <1>12, <1>13

IsShifted(shifted, row) == shifted = [s \in 1..NgramSize |-> Shifted(row, s - 1)]

\* The key of a row that holds the tokens up to i is the key of the history.
LEMMA KeyOfRow ==
  ASSUME NgramSizeAssumption, NEW row, NEW history, NEW p \in DOMAIN row, p \in Nat, NgramSize <= p,
         NEW i \in Nat, i >= 1, TokensUpTo(row, history, p, i),
         NEW shifted, IsShifted(shifted, row),
         NEW ngram \in 2..NgramSize
  PROVE  Key(shifted, p, ngram) = HistoryKey(history, i, ngram)
<1>1. NgramSize \in Nat /\ 1 <= p
  BY DEF NgramSizeAssumption
<1>2. ASSUME NEW s \in 1..ngram
      PROVE  shifted[s][p] =
               IF i - s + 1 >= 1 /\ \A q \in i - s + 1..i - 1 : history[q] # EOS
               THEN history[i - s + 1] ELSE EOS
  <2>1. s \in 1..NgramSize
    BY <1>1
  <2>2. shifted[s][p] = Shifted(row, s - 1)[p]
    BY <2>1 DEF IsShifted
  <2>3. CASE s = 1
    <3>1. s - 1 = 0 /\ i - s + 1 = i /\ p \in 1..p /\ i - p + p = i
      BY <1>1, <2>3
    <3>2. row[p] = history[i]
      BY <3>1 DEF TokensUpTo
    <3>3. Shifted(row, s - 1) = row
      BY <3>1 DEF Shifted
    <3>4. \A q \in i..i - 1 : FALSE
      OBVIOUS
    <3> QED
      BY <2>2, <3>1, <3>2, <3>3, <3>4
  <2>4. CASE s # 1
    <3>1. PICK shift \in Nat : shift = s - 1
      OBVIOUS
    <3>2. 1 <= shift /\ shift < p /\ i - shift = i - s + 1
      BY <1>1, <2>1, <2>4, <3>1
    <3>3. Shifted(row, shift)[p] =
            IF i - shift >= 1 /\ \A q \in i - shift..i - 1 : history[q] # EOS
            THEN history[i - shift] ELSE EOS
      BY <3>2, ShiftStopsAtEOS
    <3> QED
      BY <2>2, <3>1, <3>2, <3>3
  <2> QED
    BY <2>3, <2>4
<1> QED
  BY <1>2 DEF Key, HistoryKey

\* The keys of one row.
LEMMA KeysOfRow ==
  ASSUME NgramSizeAssumption, NEW Tok, EOS \in Tok, NEW history \in Seq(Tok),
         NEW computed \in Nat, NEW upto \in Nat, upto <= Len(history),
         NEW len \in Nat, upto = computed + len,
         NEW row \in Seq(Tok), len <= Len(row), HoldsPart(row, history, computed, len),
         NEW j \in 1..len, NEW context, context = ContextAt(history, computed),
         NEW p, p = j + NgramSize - 1, NEW i, i = computed + j
  PROVE  KeysAt(context \o row, p) = HistoryKeys(history, i)
<1>1. PICK full : full = context \o row
  OBVIOUS
<1>2. IsFull(full, row, history, p, i, Tok)
  BY <1>1, ContextThenRow
<1>3. /\ full \in Seq(Tok) /\ Len(full) = NgramSize - 1 + Len(row)
      /\ TokensUpTo(full, history, p, i)
  BY <1>2 DEF IsFull
<1>4. NgramSize \in Nat /\ NgramSize >= 2 /\ Len(row) \in Nat
  BY LenProperties DEF NgramSizeAssumption
<1>5. i \in Nat /\ i >= 1 /\ p \in Nat /\ NgramSize <= p /\ p <= NgramSize - 1 + Len(row)
  BY <1>4
<1>6. p \in DOMAIN full
  <2>1. DOMAIN full = 1..Len(full)
    BY <1>3
  <2> QED
    BY <1>3, <1>4, <1>5, <2>1
<1>7. PICK shifted : IsShifted(shifted, full)
  BY DEF IsShifted
<1>8. \A ngram \in 2..NgramSize : Key(shifted, p, ngram) = HistoryKey(history, i, ngram)
  BY <1>3, <1>5, <1>6, <1>7, KeyOfRow
<1>9. KeysAt(full, p) = [ngram \in 2..NgramSize |-> Key(shifted, p, ngram)]
  BY <1>7, Zenon DEF KeysAt, IsShifted
<1>10. KeysAt(full, p) = HistoryKeys(history, i)
  BY <1>8, <1>9 DEF HistoryKeys
<1> QED
  BY <1>1, <1>10

KeysAre(batch, offload, pos, request, j) ==
  NgramIds(batch, offload, pos) = {HistoryKeys(request.history, request.computed + j)}

\* The keys of one token, for every row the scatter can leave.
LEMMA KeysOfToken ==
  ASSUME NgramSizeAssumption, MaxTotalTokens \in Nat,
         NEW n \in Nat, NEW Tok, EOS \in Tok, NEW requests, StepsOf(requests, n, Tok),
         NEW batch, NEW len, NEW start, NEW pads \in Nat,
         IsBatch(batch, requests, n, len, start, pads, Tok),
         start[n + 1] + pads <= MaxTotalTokens, NEW offload \in BOOLEAN,
         NEW r \in 1..n, NEW j \in 1..len[r], NEW pos, pos = start[r] + j - 1
  PROVE  KeysAre(batch, offload, pos, requests[r], j)
<1>1. RequestOf(batch, pos) = r /\ Column(batch, offload, pos) = j
  BY OneWriter
<1>2. /\ \A c \in Nat : Cells(batch, offload, r, c) # {} /\ Cells(batch, offload, r, c) \subseteq Tok
      /\ \A c \in 1..len[r] :
           Cells(batch, offload, r, c) = {requests[r].history[requests[r].computed + c]}
  BY CellsOfRow
<1>3. HasCells(batch, offload, r, Tok)
  BY <1>2, Zenon DEF HasCells
<1>4. PICK w : w = Width(batch, offload)
  OBVIOUS
<1>5. w \in Nat /\ len[r] <= w
  BY <1>4, WidthIsEnough
<1>6. AreRows(Packed(batch, offload, r), batch, offload, r, w, Tok)
  BY <1>3, <1>4, <1>5, PackedRows
<1>7. PICK history, computed, upto, m, context :
        /\ history = requests[r].history /\ computed = requests[r].computed
        /\ upto = requests[r].upto /\ m = len[r] /\ context = batch.context[r]
  OBVIOUS
<1>8. PICK i, p : i = computed + j /\ p = j + NgramSize - 1
  OBVIOUS
<1>9. m \in Nat /\ m = upto - computed /\ context = ContextAt(history, computed)
  <2>1. len \in [1..n -> Nat] /\ len[r] = requests[r].upto - requests[r].computed
        /\ batch.context[r] = ContextAt(requests[r].history, requests[r].computed)
    BY DEF IsBatch, Sums
  <2> QED
    BY <1>7, <2>1
<1>10. /\ history \in Seq(Tok) /\ computed \in Nat /\ upto \in Nat /\ upto <= Len(history)
  <2>1. IsStep(requests[r], Tok)
    BY DEF StepsOf
  <2> QED
    BY <1>7, <2>1 DEF IsStep
<1>11. upto = computed + m /\ j \in 1..m
  BY <1>7, <1>9, <1>10, SMTT(30)
<1>12. ASSUME NEW row \in Packed(batch, offload, r)
       PROVE  KeysAt(context \o row, p) = HistoryKeys(history, i)
  <2>1. IsRow(row, batch, offload, r, w, Tok)
    BY <1>6 DEF AreRows
  <2>2. /\ row \in Seq(Tok) /\ Len(row) = w
        /\ \A c \in 1..w : row[c] \in Cells(batch, offload, r, c)
    BY <2>1 DEF IsRow
  <2>3. m <= Len(row)
    BY <1>5, <1>7, <2>2
  <2>4. HoldsPart(row, history, computed, m)
    <3> SUFFICES ASSUME NEW c \in 1..m PROVE row[c] = history[computed + c]
      BY DEF HoldsPart
    <3>1. c \in 1..w /\ c \in 1..len[r]
      BY <1>5, <1>7, <1>9
    <3>2. row[c] \in {requests[r].history[requests[r].computed + c]}
      BY <1>2, <2>2, <3>1
    <3> QED
      BY <1>7, <3>2
  <2> QED
    BY <1>8, <1>9, <1>10, <1>11, <2>2, <2>3, <2>4, KeysOfRow
<1>13. NgramIds(batch, offload, pos) = {KeysAt(context \o row, p) : row \in Packed(batch, offload, r)}
  <2>1. Column(batch, offload, pos) + NgramSize - 1 = p
    BY <1>1, <1>8
  <2> QED
    BY <1>1, <1>7, <2>1 DEF NgramIds
<1>14. Packed(batch, offload, r) # {}
  BY <1>6 DEF AreRows
<1>15. NgramIds(batch, offload, pos) = {HistoryKeys(history, i)}
  <2>1. \A row \in Packed(batch, offload, r) : KeysAt(context \o row, p) = HistoryKeys(history, i)
    BY <1>12
  <2>2. PICK R, k : R = Packed(batch, offload, r) /\ k = HistoryKeys(history, i)
    OBVIOUS
  <2>3. {KeysAt(context \o row, p) : row \in R} = {k}
    BY <1>14, <2>1, <2>2
  <2> QED
    BY <1>13, <2>2, <2>3
<1> QED
  BY <1>7, <1>8, <1>15 DEF KeysAre

\* Whatever was computed before, however long the parts, whatever the padding, on
\* the GPU and in the offload process, each token of a step gets the keys of its
\* request's whole history, as long as the batch fits (compute_ngram_ids).
THEOREM KeysAlwaysMatch ==
  ASSUME NgramSizeAssumption, MaxTotalTokens \in Nat,
         NEW n \in Nat, NEW Tok, EOS \in Tok, NEW requests, StepsOf(requests, n, Tok),
         NEW padding \in Seq(Tok), NEW offload \in BOOLEAN,
         StartsOf(requests)[n + 1] + Len(padding) <= MaxTotalTokens
  PROVE  KeysMatchHistory(requests, padding, offload)
<1>1. PICK batch, len, start, pads :
        /\ batch = BatchOf(requests, padding) /\ len = Lengths(requests)
        /\ start = StartsOf(requests) /\ pads = Len(padding)
  OBVIOUS
<1>2. /\ IsBatch(batch, requests, n, len, start, pads, Tok) /\ pads \in Nat
      /\ start[n + 1] + pads <= MaxTotalTokens
  <2>1. IsBatch(BatchOf(requests, padding), requests, n, Lengths(requests),
                StartsOf(requests), Len(padding), Tok)
    BY BatchParts
  <2>2. Len(padding) \in Nat
    BY LenProperties
  <2> QED
    BY <1>1, <2>1, <2>2
<1>3. /\ Sums(n, len, start) /\ batch.start = start
      /\ \A r \in 1..n : len[r] = requests[r].upto - requests[r].computed
  BY <1>2 DEF IsBatch
<1>4. DOMAIN requests = 1..n
  BY DEF StepsOf
<1>5. ASSUME NEW r \in 1..n, NEW j \in 1..len[r], NEW pos, pos = start[r] + j - 1
      PROVE  KeysAre(batch, offload, pos, requests[r], j)
  BY <1>2, <1>5, KeysOfToken
<1>6. ASSUME NEW r \in 1..n, NEW i \in requests[r].computed + 1..requests[r].upto
      PROVE  NgramIds(batch, offload, batch.start[r] + i - requests[r].computed - 1) =
               {HistoryKeys(requests[r].history, i)}
  <2>1. PICK c, u, s : c = requests[r].computed /\ u = requests[r].upto /\ s = start[r]
    OBVIOUS
  <2>2. c \in Nat /\ u \in Nat /\ s \in Nat
    <3>1. IsStep(requests[r], Tok)
      BY DEF StepsOf
    <3>2. \A k \in 1..n + 1 : start[k] \in Nat
      BY <1>3, SumsAreNat
    <3>3. r \in 1..n + 1
      OBVIOUS
    <3> QED
      BY <2>1, <3>1, <3>2, <3>3 DEF IsStep
  <2>3. i \in c + 1..u
    BY <2>1
  <2>4. PICK j, pos : j = i - c /\ pos = s + j - 1
    OBVIOUS
  <2>5. j \in 1..len[r] /\ c + j = i /\ pos = s + i - c - 1
    <3>1. len[r] = u - c
      BY <1>3, <2>1
    <3> QED
      BY <2>2, <2>3, <2>4, <3>1
  <2>6. KeysAre(batch, offload, pos, requests[r], j)
    BY <1>5, <2>1, <2>4, <2>5
  <2> QED
    BY <1>3, <2>1, <2>5, <2>6 DEF KeysAre
<1> QED
  BY <1>1, <1>4, <1>6, Zenon DEF KeysMatchHistory

-----------------------------------------------------------------------------
(* Starting the runner of the PLE offload.                                 *)

\* A layer's name is a strict prefix of its parameters' names.
LEMMA AppendedIsLonger ==
  ASSUME NEW S, NEW l \in Seq(S), NEW name \in S
  PROVE  IsStrictPrefix(l, Append(l, name))
<1>1. Len(l) \in Nat /\ DOMAIN l = 1..Len(l)
  BY LenProperties
<1>2. Len(Append(l, name)) = Len(l) + 1
  BY AppendProperties
<1>3. \A i \in 1..Len(l) : Append(l, name)[i] = l[i]
  BY AppendProperties
<1>4. SubSeq(l, 1, Len(l)) = SubSeq(Append(l, name), 1, Len(l))
  <2>1. SubSeq(l, 1, Len(l)) = [i \in 1..Len(l) |-> l[i]]
    BY <1>1
  <2>2. SubSeq(Append(l, name), 1, Len(l)) = [i \in 1..Len(l) |-> Append(l, name)[i]]
    BY <1>1, <1>2
  <2> QED
    BY <1>3, <2>1, <2>2
<1>5. Len(l) <= Len(Append(l, name)) /\ l # Append(l, name)
  <2>1. PICK t : t = Append(l, name)
    OBVIOUS
  <2>2. Len(t) = Len(l) + 1
    BY <1>2, <2>1
  <2>3. Len(l) <= Len(t) /\ l # t
    BY <1>1, <2>2
  <2> QED
    BY <2>1, <2>3
<1> QED
  BY <1>4, <1>5 DEF IsStrictPrefix, IsPrefix

\* A parameter is named after its layer.
OwnsParams(model) == \A p \in model.params : InOffloadLayer(p, model.layers)

\* The runner accepts a checkpoint exactly when it has PLE layers and finds a
\* tensor for each of their parameters (_load_weights).
LEMMA WeightsComplete ==
  ASSUME NEW model, OwnsParams(model), NEW checkpoint
  PROVE  LoadsItsLayers(model, checkpoint)
<1> DEFINE Used == Materialized(checkpoint, model.layers)
           Names(t) == t.mapped # << >> /\ InOffloadLayer(t.mapped[1], model.layers)
<1>1. \A t : t \in Used <=> t \in checkpoint /\ Names(t)
  BY DEF Materialized
<1>2. Used = {} <=> ~ \E t \in checkpoint : Names(t)
  <2> HIDE DEF Used, Names
  <2> QED
    BY <1>1
<1>3. model.params \subseteq LoadedParams(checkpoint, model.layers) <=>
        \A p \in model.params : \E t \in checkpoint : t.mapped # << >> /\ t.mapped[1] = p
  <2>1. \A p : p \in LoadedParams(checkpoint, model.layers) <=>
                 \E t \in Used : p = t.mapped[1]
    BY DEF LoadedParams
  <2>2. ASSUME NEW p \in model.params
        PROVE  p \in LoadedParams(checkpoint, model.layers) <=>
                 \E t \in checkpoint : t.mapped # << >> /\ t.mapped[1] = p
    <3>1. InOffloadLayer(p, model.layers)
      BY DEF OwnsParams
    <3>2. \A t \in checkpoint : t.mapped # << >> /\ t.mapped[1] = p => Names(t)
      BY <3>1
    <3>3. \A t \in checkpoint : Names(t) => t.mapped # << >>
      OBVIOUS
    <3> HIDE DEF Used, Names
    <3> QED
      BY <1>1, <2>1, <3>2, <3>3
  <2> QED
    BY <2>2
<1>4. \A t : Head(t.mapped) = t.mapped[1]
  BY DEF Head
<1>5. WeightsRefused("default", model, checkpoint) <=>
        \/ model.layers = {}
        \/ Used = {}
        \/ ~(model.params \subseteq LoadedParams(checkpoint, model.layers))
  BY DEF WeightsRefused
<1> HIDE DEF Used
<1> QED
  BY <1>2, <1>3, <1>4, <1>5 DEF LoadsItsLayers, InOffloadLayer

-----------------------------------------------------------------------------
\* The registrations of n workers.
AreItems(items, n) ==
  /\ Len(items) = n /\ DOMAIN items = 1..n
  /\ \A i \in 1..n :
       items[i] = [dp |-> items[i].dp, tp |-> items[i].tp, layers |-> items[i].layers]

\* Every pair of ranks registered.
AllRanks(items, dpSize, tpSize) ==
  /\ {items[i].dp : i \in DOMAIN items} = 0..dpSize - 1
  /\ \A d \in 0..dpSize - 1 : {items[i].tp : i \in RanksIn(items, d)} = 0..tpSize - 1

\* As many registrations as pairs of ranks, and every pair there: none twice.
LEMMA RanksOnce ==
  ASSUME NEW dpSize \in Nat, NEW tpSize \in Nat, NEW n \in Nat, n = dpSize * tpSize,
         NEW items, AreItems(items, n), AllRanks(items, dpSize, tpSize),
         NEW i \in 1..n, NEW j \in 1..n, items[i].dp = items[j].dp, items[i].tp = items[j].tp
  PROVE  i = j
<1> DEFINE Ds == 0..dpSize - 1
           Ts == 0..tpSize - 1
           f  == [k \in 1..n |-> <<items[k].dp, items[k].tp>>]
<1>1. DOMAIN items = 1..n
  BY DEF AreItems
<1>2. ASSUME NEW k \in 1..n PROVE f[k] \in Ds \X Ts
  <2>1. items[k].dp \in Ds
    BY <1>1 DEF AllRanks
  <2>2. k \in RanksIn(items, items[k].dp)
    BY <1>1 DEF RanksIn
  <2>3. items[k].tp \in {items[m].tp : m \in RanksIn(items, items[k].dp)}
    BY <2>2
  <2>4. items[k].tp \in Ts
    BY <2>1, <2>3 DEF AllRanks
  <2> QED
    BY <2>1, <2>4
<1>3. ASSUME NEW d \in Ds, NEW t \in Ts PROVE \E k \in 1..n : f[k] = <<d, t>>
  <2>1. t \in {items[m].tp : m \in RanksIn(items, d)}
    BY DEF AllRanks
  <2>2. PICK k \in RanksIn(items, d) : items[k].tp = t
    BY <2>1
  <2>3. k \in 1..n /\ items[k].dp = d
    BY <1>1 DEF RanksIn
  <2> QED
    BY <2>2, <2>3
<1>4. f \in Surjection(1..n, Ds \X Ts)
  <2>1. f \in [1..n -> Ds \X Ts]
    <3>1. f = [k \in 1..n |-> f[k]]
      OBVIOUS
    <3> HIDE DEF f, Ds, Ts
    <3> QED
      BY <1>2, <3>1
  <2>2. \A p \in Ds \X Ts : \E k \in 1..n : f[k] = p
    <3>1. TAKE p \in Ds \X Ts
    <3>2. p[1] \in Ds /\ p[2] \in Ts /\ p = <<p[1], p[2]>>
      OBVIOUS
    <3> HIDE DEF f
    <3> QED
      BY <1>3, <3>2
  <2> HIDE DEF f, Ds, Ts
  <2> QED
    BY <2>1, <2>2 DEF Surjection
<1>5. IsFiniteSet(1..n) /\ Cardinality(1..n) = n
  <2>1. 1 \in Int /\ n \in Int /\ n = (IF 1 > n THEN 0 ELSE n - 1 + 1)
    OBVIOUS
  <2>2. IsFiniteSet(1..n) /\ Cardinality(1..n) = IF 1 > n THEN 0 ELSE n - 1 + 1
    BY <2>1, FS_Interval, Zenon
  <2> QED
    BY <2>1, <2>2
<1>6. ASSUME NEW m \in Nat PROVE IsFiniteSet(0..m - 1) /\ Cardinality(0..m - 1) = m
  <2>1. 0 \in Int /\ m - 1 \in Int /\ m = (IF 0 > m - 1 THEN 0 ELSE (m - 1) - 0 + 1)
    OBVIOUS
  <2>2. IsFiniteSet(0..m - 1)
        /\ Cardinality(0..m - 1) = IF 0 > m - 1 THEN 0 ELSE (m - 1) - 0 + 1
    BY <2>1, FS_Interval, Zenon
  <2> QED
    BY <2>1, <2>2
<1>7. Cardinality(Ds \X Ts) = n
  <2>1. /\ IsFiniteSet(Ds) /\ Cardinality(Ds) = dpSize
        /\ IsFiniteSet(Ts) /\ Cardinality(Ts) = tpSize
    BY <1>6
  <2> HIDE DEF Ds, Ts
  <2>2. Cardinality(Ds \X Ts) = Cardinality(Ds) * Cardinality(Ts)
    BY <2>1, FS_Product
  <2> QED
    BY <2>1, <2>2
<1>8. f \in Injection(1..n, Ds \X Ts)
  <2> HIDE DEF f, Ds, Ts
  <2> QED
    BY <1>4, <1>5, <1>7, FS_SurjSameCardinalityImpliesInj
<1>9. f[i] = f[j]
  OBVIOUS
<1> HIDE DEF f
<1> QED
  BY <1>8, <1>9 DEF Injection, IsInjective

\* The registration of TP rank t of a DP rank, and what stands in front of it.
LEMMA RankPlace ==
  ASSUME NEW dpSize \in Nat, NEW tpSize \in Nat, NEW n \in Nat, n = dpSize * tpSize,
         NEW items, AreItems(items, n), AllRanks(items, dpSize, tpSize),
         NEW d \in 0..dpSize - 1
  PROVE  /\ Cardinality(RanksIn(items, d)) = tpSize
         /\ \A i \in RanksIn(items, d) :
              items[i].tp \in 0..tpSize - 1 /\ Cardinality(SortedBefore(items, d, i)) = items[i].tp
         /\ \A t \in 0..tpSize - 1 : \E i \in RanksIn(items, d) : items[i].tp = t
         /\ \A i, j \in RanksIn(items, d) : items[i].tp = items[j].tp => i = j
<1> DEFINE R == RanksIn(items, d)
<1>1. R \subseteq 1..n /\ \A i \in R : items[i].dp = d
  BY DEF RanksIn, AreItems
<1>2. ASSUME NEW i \in R, NEW j \in R, items[i].tp = items[j].tp PROVE i = j
  <2>1. i \in 1..n /\ j \in 1..n /\ items[i].dp = items[j].dp
    BY <1>1
  <2> QED
    BY <1>2, <2>1, RanksOnce
<1>3. {items[i].tp : i \in R} = 0..tpSize - 1
  BY DEF AllRanks
<1>4. \A i \in R : items[i].tp \in 0..tpSize - 1 /\ items[i].tp \in Nat
  <2> HIDE DEF R
  <2>1. \A i \in R : items[i].tp \in 0..tpSize - 1
    BY <1>3
  <2> QED
    BY <2>1
<1>5. \A t \in 0..tpSize - 1 : \E i \in R : items[i].tp = t
  <2> HIDE DEF R
  <2> QED
    BY <1>3
<1> HIDE DEF R
<1>6. ASSUME NEW m \in 0..tpSize
      PROVE  Cardinality({i \in R : items[i].tp < m}) = m
  <2> DEFINE S == {i \in R : items[i].tp < m}
             g == [i \in S |-> items[i].tp]
  <2>1. g \in [S -> 0..m - 1]
    BY <1>4
  <2>2. \A i, j \in S : g[i] = g[j] => i = j
    BY <1>2
  <2>3. \A t \in 0..m - 1 : \E i \in S : g[i] = t
    <3>1. TAKE t \in 0..m - 1
    <3>2. t \in 0..tpSize - 1 /\ t < m
      OBVIOUS
    <3>3. PICK i \in R : items[i].tp = t
      BY <1>5, <3>2
    <3>4. i \in S
      BY <3>2, <3>3
    <3> QED
      BY <3>3, <3>4
  <2>4. m \in Nat
    OBVIOUS
  <2>5. IsFiniteSet(0..m - 1) /\ Cardinality(0..m - 1) = m
    <3>1. 0 \in Int /\ m - 1 \in Int /\ m = (IF 0 > m - 1 THEN 0 ELSE (m - 1) - 0 + 1)
      BY <2>4
    <3>2. IsFiniteSet(0..m - 1)
          /\ Cardinality(0..m - 1) = IF 0 > m - 1 THEN 0 ELSE (m - 1) - 0 + 1
      BY <3>1, FS_Interval, Zenon
    <3> QED
      BY <3>1, <3>2
  <2> HIDE DEF g, S
  <2>6. g \in Injection(S, 0..m - 1) /\ g \in Surjection(S, 0..m - 1)
    BY <2>1, <2>2, <2>3 DEF Injection, Surjection, IsInjective
  <2>7. IsFiniteSet(S) /\ (Cardinality(S) = Cardinality(0..m - 1) <=> g \in Surjection(S, 0..m - 1))
    BY <2>5, <2>6, FS_Injection
  <2>8. Cardinality(S) = m
    BY <2>5, <2>6, <2>7
  <2> QED
    BY <2>8 DEF S
<1>7. Cardinality(R) = tpSize
  <2>1. tpSize \in 0..tpSize
    OBVIOUS
  <2>2. {i \in R : items[i].tp < tpSize} = R
    BY <1>4
  <2> QED
    BY <1>6, <2>1, <2>2
<1>8. ASSUME NEW i \in R PROVE Cardinality(SortedBefore(items, d, i)) = items[i].tp
  <2>1. PICK t : t = items[i].tp
    OBVIOUS
  <2>2. t \in 0..tpSize
    BY <1>4, <2>1
  <2>3. \A j \in R : items[j].tp = t => j = i
    BY <1>2, <2>1
  <2>4. i \in Nat
    BY <1>1
  <2>5. SortedBefore(items, d, i) = {j \in R : items[j].tp < t}
    <3>1. ASSUME NEW j \in R
          PROVE  (items[j].tp < items[i].tp \/ (items[j].tp = items[i].tp /\ j < i))
                   <=> items[j].tp < t
      <4>1. items[j].tp = t => ~(j < i)
        BY <2>3, <2>4
      <4> QED
        BY <2>1, <4>1
    <3> QED
      BY <3>1 DEF SortedBefore, R
  <2> QED
    BY <1>6, <2>1, <2>2, <2>5
<1> QED
  BY <1>2, <1>4, <1>5, <1>7, <1>8 DEF R

\* Registrations accepted from workers that serve the runner's own layers.
LEMMA AcceptedAreRanks ==
  ASSUME NEW dpSize, NEW tpSize, NEW layers, NEW n,
         NEW items, AreItems(items, n), ~RegistrationsRefused(items, dpSize, tpSize, layers)
  PROVE  /\ n = dpSize * tpSize
         /\ AllRanks(items, dpSize, tpSize)
         /\ \A i \in DOMAIN items : items[i].layers = layers
BY DEF RegistrationsRefused, RanksRefused, AllRanks, AreItems

\* The destinations of one DP rank.
TargetsOfRank(items, d, tpSize, layers) ==
  /\ TargetsOf(items, d) = [t \in 1..tpSize |-> [dp |-> d, tp |-> t - 1, layers |-> layers]]
  /\ InputsOf(items, d) = TargetsOf(items, d)[1]

LEMMA RankTargets ==
  ASSUME NEW dpSize \in Nat, NEW tpSize \in Nat \ {0}, NEW n \in Nat, n = dpSize * tpSize,
         NEW items, AreItems(items, n), AllRanks(items, dpSize, tpSize),
         NEW layers, \A i \in DOMAIN items : items[i].layers = layers,
         NEW d \in 0..dpSize - 1
  PROVE  TargetsOfRank(items, d, tpSize, layers)
<1> DEFINE R == RanksIn(items, d)
<1>1. /\ Cardinality(R) = tpSize
      /\ \A i \in R : items[i].tp \in 0..tpSize - 1 /\ Cardinality(SortedBefore(items, d, i)) = items[i].tp
      /\ \A t \in 0..tpSize - 1 : \E i \in R : items[i].tp = t
      /\ \A i, j \in R : items[i].tp = items[j].tp => i = j
  BY RankPlace
<1>2. \A i \in R : items[i] = [dp |-> d, tp |-> items[i].tp, layers |-> layers]
  BY DEF AreItems, RanksIn
<1>3. R \subseteq Nat
  BY DEF AreItems, RanksIn
<1>4. ASSUME NEW t \in 1..tpSize
      PROVE  items[CHOOSE i \in R : Cardinality(SortedBefore(items, d, i)) = t - 1]
               = [dp |-> d, tp |-> t - 1, layers |-> layers]
  <2> HIDE DEF R
  <2>1. t - 1 \in 0..tpSize - 1
    OBVIOUS
  <2>2. \E i \in R : Cardinality(SortedBefore(items, d, i)) = t - 1
    BY <1>1, <2>1
  <2>3. PICK i : i = (CHOOSE k \in R : Cardinality(SortedBefore(items, d, k)) = t - 1)
    OBVIOUS
  <2>4. i \in R /\ Cardinality(SortedBefore(items, d, i)) = t - 1
    BY <2>2, <2>3, Zenon
  <2>5. items[i].tp = t - 1
    BY <1>1, <2>4
  <2>6. items[i] = [dp |-> d, tp |-> t - 1, layers |-> layers]
    BY <1>2, <2>4, <2>5
  <2> QED
    BY <2>3, <2>6
<1>5. TargetsOf(items, d) = [t \in 1..tpSize |-> [dp |-> d, tp |-> t - 1, layers |-> layers]]
  <2>1. TargetsOf(items, d) =
          [t \in 1..tpSize |-> items[CHOOSE i \in R : Cardinality(SortedBefore(items, d, i)) = t - 1]]
    BY <1>1, Zenon DEF TargetsOf
  <2> HIDE DEF R
  <2> QED
    BY <1>4, <2>1
<1>6. InputsOf(items, d) = [dp |-> d, tp |-> 0, layers |-> layers]
  <2> HIDE DEF R
  <2>1. 0 \in 0..tpSize - 1
    OBVIOUS
  <2>2. PICK k \in R : items[k].tp = 0
    BY <1>1, <2>1
  <2>3. \A j \in R : items[j].tp = 0 => j = k
    BY <1>1, <2>2
  <2>4. k <= k
    BY <1>3
  <2>5. \A j \in R : items[j].tp = 0 => j <= k
    BY <2>3, <2>4
  <2>6. \E i \in R : items[i].tp = 0 /\ \A j \in R : items[j].tp = 0 => j <= i
    BY <2>2, <2>5
  <2>7. PICK i : i = (CHOOSE h \in R : items[h].tp = 0 /\ \A j \in R : items[j].tp = 0 => j <= h)
    OBVIOUS
  <2>8. i \in R /\ items[i].tp = 0
    BY <2>6, <2>7, Zenon
  <2>9. items[i] = [dp |-> d, tp |-> 0, layers |-> layers]
    BY <1>2, <2>8
  <2>10. InputsOf(items, d) = items[i]
    BY <2>7, Zenon DEF InputsOf, R
  <2> QED
    BY <2>9, <2>10
<1>7. TargetsOf(items, d)[1] = [dp |-> d, tp |-> 0, layers |-> layers]
  <2>1. 1 \in 1..tpSize /\ 1 - 1 = 0
    OBVIOUS
  <2> QED
    BY <1>5, <2>1
<1> QED
  BY <1>5, <1>6, <1>7 DEF TargetsOfRank

\* Workers on every pair of ranks are ranks of every DP rank.
LEMMA PairsAreRanks ==
  ASSUME NEW dpSize \in Nat, NEW tpSize \in Nat \ {0}, NEW items,
         {<<items[i].dp, items[i].tp>> : i \in DOMAIN items} = (0..dpSize - 1) \X (0..tpSize - 1)
  PROVE  AllRanks(items, dpSize, tpSize)
<1> DEFINE Ds == 0..dpSize - 1
           Ts == 0..tpSize - 1
<1>1. 0 \in Ts
  OBVIOUS
<1>2. \A i \in DOMAIN items : items[i].dp \in Ds /\ items[i].tp \in Ts
  <2>1. TAKE i \in DOMAIN items
  <2>2. <<items[i].dp, items[i].tp>> \in Ds \X Ts
    OBVIOUS
  <2> QED
    BY <2>2
<1>3. \A d \in Ds, t \in Ts : \E i \in DOMAIN items : items[i].dp = d /\ items[i].tp = t
  <2>1. TAKE d \in Ds, t \in Ts
  <2>2. <<d, t>> \in {<<items[i].dp, items[i].tp>> : i \in DOMAIN items}
    OBVIOUS
  <2>3. PICK i \in DOMAIN items : <<items[i].dp, items[i].tp>> = <<d, t>>
    BY <2>2
  <2> QED
    BY <2>3
<1> HIDE DEF Ds, Ts
<1>4. {items[i].dp : i \in DOMAIN items} = Ds
  BY <1>1, <1>2, <1>3
<1>5. ASSUME NEW d \in Ds PROVE {items[i].tp : i \in RanksIn(items, d)} = Ts
  BY <1>2, <1>3 DEF RanksIn
<1> QED
  BY <1>4, <1>5 DEF AllRanks, Ds, Ts

\* Registrations that are accepted give each layer one destination per TP rank, in
\* TP order, whatever the order they came in; a complete set is accepted.
THEOREM TargetsAlwaysComplete ==
  ASSUME NEW dpSize \in Nat, NEW tpSize \in Nat \ {0}, NEW n \in Nat,
         NEW items, AreItems(items, n), NEW layers
  PROVE  TargetsComplete(items, dpSize, tpSize, layers)
<1>1. ASSUME ~RegistrationsRefused(items, dpSize, tpSize, layers), NEW d \in 0..dpSize - 1
      PROVE  TargetsOfRank(items, d, tpSize, layers)
  BY <1>1, AcceptedAreRanks, RankTargets
<1>2. ASSUME {<<items[i].dp, items[i].tp>> : i \in DOMAIN items} = (0..dpSize - 1) \X (0..tpSize - 1),
             Len(items) = dpSize * tpSize,
             \A i \in DOMAIN items : items[i].layers = layers
      PROVE  ~RegistrationsRefused(items, dpSize, tpSize, layers)
  <2>1. AllRanks(items, dpSize, tpSize)
    BY <1>2, PairsAreRanks
  <2> QED
    BY <1>2, <2>1 DEF AllRanks, RegistrationsRefused, RanksRefused
<1> QED
  BY <1>1, <1>2 DEF TargetsComplete, TargetsOfRank

-----------------------------------------------------------------------------
(* The calibration of the scales.                                          *)

\* The calls of a rank at the end of an arm.
LEMMA CallsAreNat ==
  ASSUME NEW before \in Nat, NEW prefill \in Nat \ {0}, NEW n \in 0..Len(Arms),
         NEW decodes \in [1..Len(Arms) -> Nat]
  PROVE  CallsAfter(n, before, prefill, decodes) \in Nat
<1> DEFINE st == [k \in 0 + 1..n |-> [v \in Nat |-> v + QsaLayers * ArmForwards(k, prefill, decodes)]]
           Step(h) == [k \in 0..n |->
                         IF k = 0 THEN before
                         ELSE h[k - 1] + QsaLayers * ArmForwards(k, prefill, decodes)]
<1>1. Len(Arms) = 8 /\ n \in Nat /\ n <= 8
  BY DEF Arms
<1>2. ASSUME NEW k \in 1..n PROVE QsaLayers * ArmForwards(k, prefill, decodes) \in Nat
  <2>1. k \in 1..8
    BY <1>1
  <2>2. Arms[k] \in Nat /\ decodes[k] \in Nat
    BY <1>1, <2>1 DEF Arms
  <2>3. Arms[k] + prefill - 1 \in Nat
    BY <2>2
  <2>4. (Arms[k] + prefill - 1) \div prefill \in Nat
    BY <2>3, Division
  <2>5. ArmForwards(k, prefill, decodes) \in Nat
    BY <2>2, <2>4 DEF ArmForwards
  <2> QED
    BY <2>5 DEF QsaLayers
<1>3. st \in [0 + 1..n -> [Nat -> Nat]]
  BY <1>2
<1>4. PICK f \in [0..n -> Nat] : Follows(f, before, st, 0, n)
  <2>1. 0 \in Int /\ n \in Int /\ 0 <= n
    BY <1>1
  <2> HIDE DEF st
  <2> QED
    BY <1>3, <2>1, RecursionFrom
<1>5. \A k \in 0..n : f[k] = IF k = 0 THEN before ELSE st[k][f[k - 1]]
  <2> HIDE DEF st
  <2> QED
    BY <1>4 DEF Follows
<1>6. \A k \in 0..n : f[k] = IF k = 0 THEN before
                             ELSE f[k - 1] + QsaLayers * ArmForwards(k, prefill, decodes)
  <2>1. TAKE k \in 0..n
  <2>2. k # 0 => k \in 0 + 1..n /\ k - 1 \in 0..n
    BY <1>1
  <2>3. k # 0 => f[k - 1] \in Nat
    BY <1>4, <2>2
  <2>4. k # 0 => st[k][f[k - 1]] = f[k - 1] + QsaLayers * ArmForwards(k, prefill, decodes)
    BY <2>2, <2>3
  <2> HIDE DEF st
  <2> QED
    BY <1>5, <2>4
<1>7. f = Step(f)
  <2>1. f = [k \in 0..n |-> f[k]]
    BY <1>4
  <2> HIDE DEF st
  <2> QED
    BY <1>6, <2>1
<1>8. PICK h : h = (CHOOSE g : g = Step(g)) /\ h = Step(h)
  <2> HIDE DEF Step
  <2> QED
    BY <1>7, Zenon
<1>9. CallsAfter(n, before, prefill, decodes) = h[n]
  BY <1>8, Zenon DEF CallsAfter
<1>10. h[0] = before /\ \A k \in 1..n : h[k] = h[k - 1] + QsaLayers * ArmForwards(k, prefill, decodes)
  <2>1. 0 \in 0..n /\ \A k \in 1..n : k \in 0..n /\ k # 0
    BY <1>1
  <2> QED
    BY <1>8, <2>1
<1> DEFINE P == {k \in 0..n : h[k] \in Nat}
<1>11. 0 \in P
  <2>1. 0 \in 0..n /\ h[0] \in Nat
    <3> HIDE DEF st, Step
    <3> QED
      BY <1>1, <1>10
  <2> HIDE DEF st, Step
  <2> QED
    BY <2>1
<1>12. \A k \in 0..n - 1 : k \in P => k + 1 \in P
  <2>1. SUFFICES ASSUME NEW k \in 0..n - 1, k \in P PROVE k + 1 \in P
    OBVIOUS
  <2>2. k + 1 \in 1..n /\ k + 1 \in 0..n /\ (k + 1) - 1 = k
    BY <1>1
  <2>3. h[k + 1] = h[k] + QsaLayers * ArmForwards(k + 1, prefill, decodes)
    BY <1>10, <2>2
  <2>4. h[k + 1] \in Nat
    <3>1. PICK more : more = QsaLayers * ArmForwards(k + 1, prefill, decodes) /\ more \in Nat
      BY <1>2, <2>2
    <3> QED
      BY <2>1, <2>3, <3>1
  <2> QED
    BY <2>2, <2>4
<1>13. n \in P
  <2>1. n \in Nat /\ n \in 0..n
    BY <1>1
  <2> HIDE DEF P, st, Step
  <2>2. 0..n \subseteq P
    BY <1>11, <1>12, <2>1, Induction
  <2> QED
    BY <2>1, <2>2
<1> QED
  BY <1>9, <1>13

\* The completions after the deepest prompt carry the collector past a dump.
DumpsDeepest(traffic) ==
  traffic.ok =>
    /\ traffic.deep \in Nat /\ traffic.calls \in Nat
    /\ traffic.deep <= Dumped(traffic.calls)

LEMMA FlushReachesDump ==
  ASSUME NEW before \in Nat, NEW prefill \in Nat \ {0},
         NEW decodes \in [1..Len(Arms) -> Nat], NEW ratio, NEW actual
  PROVE  DumpsDeepest(Traffic(before, prefill, decodes, ratio, actual))
<1>1. PICK traffic : traffic = Traffic(before, prefill, decodes, ratio, actual)
  OBVIOUS
<1>2. PICK deep : deep = CallsAfter(Len(Arms), before, prefill, decodes)
  OBVIOUS
<1>3. deep \in Nat
  <2>1. Len(Arms) \in 0..Len(Arms)
    BY DEF Arms
  <2> QED
    BY <1>2, <2>1, CallsAreNat
<1>4. traffic.ok => traffic.deep = deep /\ traffic.calls = deep + 9216
  <2>1. QsaLayers * FlushForwards = 9216
    BY DEF QsaLayers, FlushForwards
  <2>2. PICK yes : yes = [ok |-> TRUE, deep |-> deep, calls |-> deep + QsaLayers * FlushForwards]
    OBVIOUS
  <2>3. PICK deepest : traffic = IF deepest < DeepestMin THEN Fail ELSE yes
    BY <1>1, <1>2, <2>2, Zenon DEF Traffic
  <2>4. traffic = Fail \/ traffic = yes
    BY <2>3
  <2>5. yes.deep = deep /\ yes.calls = deep + 9216
    BY <2>1, <2>2
  <2>6. Fail.ok = FALSE
    BY DEF Fail
  <2> QED
    BY <2>4, <2>5, <2>6
<1>5. deep <= Dumped(deep + 9216) /\ deep + 9216 \in Nat
  BY <1>3 DEF Dumped, DumpPeriod
<1> QED
  BY <1>1, <1>3, <1>4, <1>5 DEF DumpsDeepest

\* A scale of a layer and a rank.
LEMMA ScaleCovers ==
  ASSUME NEW S, IsFiniteSet(S), NEW f, \A s \in S : f[s] \in Nat, NEW r \in S,
         NEW margin \in Nat, 100 <= margin
  PROVE  Max({f[s] : s \in S}) * margin >= 100 * f[r]
<1>1. IsFiniteSet({f[s] : s \in S})
  BY ImageFinite
<1>2. PICK top : top = Max({f[s] : s \in S})
  OBVIOUS
<1>3. {f[s] : s \in S} \in SUBSET Int /\ f[r] \in {f[s] : s \in S}
  OBVIOUS
<1>4. top \in {f[s] : s \in S} /\ f[r] <= top
  BY <1>1, <1>2, <1>3, MaxOfFinite
<1>5. top \in Nat /\ f[r] \in Nat
  BY <1>4
<1>6. 100 * top <= margin * top /\ margin * top \in Nat
  BY <1>5, ProductGrows
<1>7. margin * top = top * margin /\ 100 * f[r] <= 100 * top
  BY <1>4, <1>5
<1> QED
  BY <1>2, <1>5, <1>6, <1>7

\* The dumps of the ranks whose traffic reaches the peaks.
AreDumps(dumps, peaks, ranks, calls) ==
  /\ \A r \in DOMAIN dumps : dumps[r] = RankDump(peaks[r], calls)
  /\ \A r \in 0..ranks - 1 : \A name \in DOMAIN peaks[r] :
       peaks[r][name].call \in Int /\ peaks[r][name].k \in Int /\ peaks[r][name].v \in Int

\* A sidecar that main writes covers the peaks of every call up to the deepest
\* prompt, on every rank, when the traffic has flushed them to the dumps.
THEOREM SidecarAlwaysCovers ==
  ASSUME NEW traffic, DumpsDeepest(traffic), NEW ranks \in Nat, NEW layers, NEW margin,
         NEW peaks, NEW dumps, traffic.ok => AreDumps(dumps, peaks, ranks, traffic.calls)
  PROVE  SidecarCovers(traffic, peaks, dumps, ranks, layers, margin)
<1>1. PICK sidecar : sidecar = Sidecar(dumps, ranks, layers, margin)
  OBVIOUS
<1>2. SUFFICES ASSUME traffic.ok, sidecar.ok
               PROVE  /\ DOMAIN sidecar.scales = UNION {DOMAIN peaks[r] : r \in 0..ranks - 1}
                      /\ \A r \in 0..ranks - 1 : \A name \in DOMAIN peaks[r] :
                           peaks[r][name].call <= traffic.deep =>
                             /\ sidecar.scales[name].k >= 100 * peaks[r][name].k
                             /\ sidecar.scales[name].v >= 100 * peaks[r][name].v
  BY <1>1, Zenon DEF SidecarCovers
<1> DEFINE All == 0..ranks - 1
           merged == Merged(dumps, ranks)
           With(name) == {r \in All : name \in DOMAIN dumps[r]}
<1>3. Fail.ok = FALSE
  BY DEF Fail
<1>4. /\ margin \in 100..200 /\ All \subseteq DOMAIN dumps
      /\ \A r \in All : \A name \in DOMAIN dumps[r] : Good(dumps[r][name].k) /\ Good(dumps[r][name].v)
      /\ sidecar.scales = [name \in DOMAIN merged |->
                             [k |-> merged[name].k * margin, v |-> merged[name].v * margin]]
  <2> HIDE DEF merged
  <2> QED
    BY <1>1, <1>2, <1>3 DEF Sidecar, merged
<1>5. merged = [name \in UNION {DOMAIN dumps[r] : r \in All} |->
                  [k |-> Max({dumps[r][name].k : r \in With(name)}),
                   v |-> Max({dumps[r][name].v : r \in With(name)})]]
  BY DEF Merged
<1>6. \A r \in All : dumps[r] = RankDump(peaks[r], traffic.calls) /\ DOMAIN dumps[r] = DOMAIN peaks[r]
  BY <1>2, <1>4 DEF AreDumps, RankDump
<1>7. DOMAIN sidecar.scales = UNION {DOMAIN peaks[r] : r \in All}
  <2>1. DOMAIN sidecar.scales = UNION {DOMAIN dumps[r] : r \in All}
    <3> HIDE DEF merged, All, With
    <3>1. DOMAIN merged = UNION {DOMAIN dumps[r] : r \in All}
      BY <1>5
    <3>2. DOMAIN sidecar.scales = DOMAIN merged
      BY <1>4
    <3> QED
      BY <3>1, <3>2
  <2> HIDE DEF merged, All, With
  <2> QED
    BY <1>6, <2>1
<1>8. IsFiniteSet(All)
  <2>1. 0 \in Int /\ ranks - 1 \in Int
    OBVIOUS
  <2> QED
    BY <2>1, FS_Interval, Zenon
<1>9. ASSUME NEW r \in All, NEW name \in DOMAIN peaks[r], peaks[r][name].call <= traffic.deep
      PROVE  /\ sidecar.scales[name].k >= 100 * peaks[r][name].k
             /\ sidecar.scales[name].v >= 100 * peaks[r][name].v
  <2> DEFINE W  == With(name)
             fk == [s \in W |-> dumps[s][name].k]
             fv == [s \in W |-> dumps[s][name].v]
  <2>1. r \in W /\ IsFiniteSet(W)
    <3>1. W \subseteq All
      OBVIOUS
    <3>2. r \in W
      BY <1>6
    <3> HIDE DEF W, All
    <3> QED
      BY <1>8, <3>1, <3>2, FS_Subset
  <2>2. \A s \in W : fk[s] = dumps[s][name].k /\ fv[s] = dumps[s][name].v
    OBVIOUS
  <2>3. \A s \in W : dumps[s][name].k \in Nat /\ dumps[s][name].v \in Nat
    <3>1. TAKE s \in W
    <3>2. s \in All /\ s \in DOMAIN dumps /\ name \in DOMAIN dumps[s]
      BY <1>4
    <3>3. dumps[s][name].k > 0 /\ dumps[s][name].v > 0
      BY <1>4, <3>2 DEF Good
    <3>4. dumps[s][name].k \in Int /\ dumps[s][name].v \in Int
      <4>1. name \in DOMAIN peaks[s] /\ dumps[s] = RankDump(peaks[s], traffic.calls)
        BY <1>6, <3>2
      <4>2. peaks[s][name].k \in Int /\ peaks[s][name].v \in Int
        BY <1>2, <3>2, <4>1 DEF AreDumps
      <4> QED
        BY <4>1, <4>2 DEF RankDump
    <3> QED
      BY <3>3, <3>4
  <2>4. dumps[r][name].k = peaks[r][name].k /\ dumps[r][name].v = peaks[r][name].v
    <3>1. peaks[r][name].call \in Int /\ traffic.deep <= Dumped(traffic.calls)
          /\ Dumped(traffic.calls) \in Int /\ traffic.deep \in Nat
      BY <1>2 DEF AreDumps, DumpsDeepest, Dumped, DumpPeriod
    <3>2. peaks[r][name].call <= Dumped(traffic.calls)
      BY <1>9, <3>1
    <3>3. dumps[r][name] = [k |-> peaks[r][name].k, v |-> peaks[r][name].v]
      BY <1>6, <3>2 DEF RankDump
    <3> QED
      BY <3>3
  <2>5. merged[name] = [k |-> Max({dumps[s][name].k : s \in W}), v |-> Max({dumps[s][name].v : s \in W})]
    <3>1. name \in UNION {DOMAIN dumps[s] : s \in All}
      BY <1>6
    <3> HIDE DEF merged, All
    <3> QED
      BY <1>5, <3>1
  <2>6. {dumps[s][name].k : s \in W} = {fk[s] : s \in W} /\ {dumps[s][name].v : s \in W} = {fv[s] : s \in W}
    <3> HIDE DEF fk, fv, W
    <3> QED
      BY <2>2
  <2>7. sidecar.scales[name] = [k |-> merged[name].k * margin, v |-> merged[name].v * margin]
    <3>1. name \in DOMAIN merged
      <4>1. name \in UNION {DOMAIN dumps[s] : s \in All}
        BY <1>6
      <4> HIDE DEF merged, All
      <4> QED
        BY <1>5, <4>1
    <3> HIDE DEF merged, All
    <3> QED
      BY <1>4, <3>1
  <2> HIDE DEF W, fk, fv, merged
  <2>8. margin \in Nat /\ 100 <= margin
    BY <1>4
  <2>9. \A s \in W : fk[s] \in Nat /\ fv[s] \in Nat
    BY <2>2, <2>3
  <2>10. Max({fk[s] : s \in W}) * margin >= 100 * fk[r] /\ Max({fv[s] : s \in W}) * margin >= 100 * fv[r]
    BY <2>1, <2>8, <2>9, ScaleCovers
  <2>11. /\ sidecar.scales[name].k = Max({fk[s] : s \in W}) * margin
         /\ sidecar.scales[name].v = Max({fv[s] : s \in W}) * margin
    <3>1. Max({dumps[s][name].k : s \in W}) = Max({fk[s] : s \in W})
      BY <2>6, Zenon
    <3>2. Max({dumps[s][name].v : s \in W}) = Max({fv[s] : s \in W})
      BY <2>6, Zenon
    <3>3. PICK k, v : k = Max({fk[s] : s \in W}) /\ v = Max({fv[s] : s \in W})
      OBVIOUS
    <3>4. merged[name] = [k |-> k, v |-> v]
      BY <2>5, <3>1, <3>2, <3>3, Zenon
    <3> QED
      BY <2>7, <3>3, <3>4
  <2>12. fk[r] = peaks[r][name].k /\ fv[r] = peaks[r][name].v
    BY <2>1, <2>2, <2>4
  <2> QED
    BY <2>10, <2>11, <2>12
<1> QED
  BY <1>7, <1>9 DEF All

-----------------------------------------------------------------------------
(* The edit of config.json.                                                *)

\* Removing a key, entry by entry.
KeptBy(E, f, s, key) ==
  /\ f \in [0..Len(s) -> Seq(E)]
  /\ f[0] = << >>
  /\ \A i \in 1..Len(s) : f[i] = IF s[i].key = key THEN f[i - 1] ELSE Append(f[i - 1], s[i])
  /\ Without(s, key) = f[Len(s)]

LEMMA WithoutSteps ==
  ASSUME NEW E, NEW s \in Seq(E), NEW key
  PROVE  \E f : KeptBy(E, f, s, key)
<1> DEFINE st == [i \in 0 + 1..Len(s) |->
                    [x \in Seq(E) |-> IF s[i].key = key THEN x ELSE Append(x, s[i])]]
           Step(h) == [i \in 0..Len(s) |->
                         IF i = 0 THEN << >>
                         ELSE IF s[i].key = key THEN h[i - 1] ELSE Append(h[i - 1], s[i])]
<1>1. Len(s) \in Nat /\ \A i \in 1..Len(s) : s[i] \in E
  BY LenProperties
<1>2. st \in [0 + 1..Len(s) -> [Seq(E) -> Seq(E)]]
  BY <1>1
<1>3. PICK f \in [0..Len(s) -> Seq(E)] : Follows(f, << >>, st, 0, Len(s))
  <2>1. << >> \in Seq(E) /\ 0 \in Int /\ Len(s) \in Int /\ 0 <= Len(s)
    BY <1>1
  <2> HIDE DEF st
  <2> QED
    BY <1>2, <2>1, RecursionFrom
<1>4. \A i \in 0..Len(s) : f[i] = IF i = 0 THEN << >> ELSE st[i][f[i - 1]]
  <2> HIDE DEF st
  <2> QED
    BY <1>3 DEF Follows
<1>5. ASSUME NEW i \in 1..Len(s)
      PROVE  f[i] = IF s[i].key = key THEN f[i - 1] ELSE Append(f[i - 1], s[i])
  <2>1. i \in 0..Len(s) /\ i # 0 /\ i - 1 \in 0..Len(s) /\ i \in 0 + 1..Len(s)
    BY <1>1
  <2>2. f[i - 1] \in Seq(E)
    BY <1>3, <2>1
  <2>3. st[i][f[i - 1]] = IF s[i].key = key THEN f[i - 1] ELSE Append(f[i - 1], s[i])
    BY <2>1, <2>2
  <2> HIDE DEF st
  <2> QED
    BY <1>4, <2>1, <2>3
<1>6. f[0] = << >>
  <2>1. 0 \in 0..Len(s)
    BY <1>1
  <2> HIDE DEF st
  <2> QED
    BY <1>4, <2>1
<1>7. f = Step(f)
  <2>1. f = [i \in 0..Len(s) |-> f[i]]
    BY <1>3
  <2>2. \A i \in 0..Len(s) : i # 0 => i \in 1..Len(s)
    BY <1>1
  <2>3. \A i \in 0..Len(s) :
          f[i] = IF i = 0 THEN << >>
                 ELSE IF s[i].key = key THEN f[i - 1] ELSE Append(f[i - 1], s[i])
    BY <1>5, <1>6, <2>2
  <2> HIDE DEF st
  <2> QED
    BY <2>1, <2>3
<1>8. PICK h : h = (CHOOSE g : g = Step(g)) /\ h = Step(h)
  <2> HIDE DEF Step
  <2> QED
    BY <1>7, Zenon
<1>9. Without(s, key) = h[Len(s)]
  BY <1>8, Zenon DEF Without
<1>10. h[0] = << >> /\ \A i \in 1..Len(s) :
         h[i] = IF s[i].key = key THEN h[i - 1] ELSE Append(h[i - 1], s[i])
  <2>1. 0 \in 0..Len(s) /\ \A i \in 1..Len(s) : i \in 0..Len(s) /\ i # 0
    BY <1>1
  <2> QED
    BY <1>8, <2>1
<1>11. \A i \in 0..Len(s) : h[i] = f[i]
  <2> DEFINE P == {i \in 0..Len(s) : h[i] = f[i]}
  <2>1. 0 \in P
    BY <1>1, <1>6, <1>10
  <2>2. \A i \in 0..Len(s) - 1 : i \in P => i + 1 \in P
    <3>1. SUFFICES ASSUME NEW i \in 0..Len(s) - 1, i \in P PROVE i + 1 \in P
      OBVIOUS
    <3>2. i + 1 \in 1..Len(s) /\ i + 1 \in 0..Len(s) /\ (i + 1) - 1 = i
      BY <1>1
    <3>3. h[i + 1] = f[i + 1]
      BY <1>5, <1>10, <3>1, <3>2
    <3> QED
      BY <3>2, <3>3
  <2>3. 0..Len(s) \subseteq P
    <3> HIDE DEF P
    <3> QED
      BY <1>1, <2>1, <2>2, Induction
  <2> QED
    BY <2>3
<1>12. Without(s, key) = f[Len(s)]
  BY <1>1, <1>9, <1>11
<1> QED
  BY <1>3, <1>5, <1>6, <1>12 DEF KeptBy

\* The key is gone.
LEMMA WithoutHasNot ==
  ASSUME NEW E, NEW s \in Seq(E), NEW key
  PROVE  Without(s, key) \in Seq(E) /\ ~Has(Without(s, key), key)
<1>1. Len(s) \in Nat /\ \A i \in 1..Len(s) : s[i] \in E
  BY LenProperties
<1>2. PICK f : KeptBy(E, f, s, key)
  BY WithoutSteps
<1> DEFINE P == {i \in 0..Len(s) : \A j \in 1..Len(f[i]) : f[i][j].key # key}
<1>3. 0 \in P
  BY <1>1, <1>2 DEF KeptBy
<1>4. \A i \in 0..Len(s) - 1 : i \in P => i + 1 \in P
  <2>1. SUFFICES ASSUME NEW i \in 0..Len(s) - 1, i \in P PROVE i + 1 \in P
    OBVIOUS
  <2>2. i + 1 \in 1..Len(s) /\ i + 1 \in 0..Len(s) /\ (i + 1) - 1 = i /\ i \in 0..Len(s)
    BY <1>1
  <2>3. f[i + 1] = IF s[i + 1].key = key THEN f[i] ELSE Append(f[i], s[i + 1])
    BY <1>2, <2>2 DEF KeptBy
  <2>4. f[i] \in Seq(E) /\ Len(f[i]) \in Nat /\ s[i + 1] \in E
    BY <1>1, <1>2, <2>2 DEF KeptBy
  <2>5. \A j \in 1..Len(f[i]) : f[i][j].key # key
    BY <2>1
  <2>6. CASE s[i + 1].key = key
    BY <2>2, <2>3, <2>5, <2>6
  <2>7. CASE s[i + 1].key # key
    <3>1. PICK g : g = f[i] /\ g \in Seq(E) /\ Len(g) \in Nat
      BY <2>4
    <3>2. f[i + 1] = Append(g, s[i + 1])
      BY <2>3, <2>7, <3>1
    <3>3. Len(f[i + 1]) = Len(g) + 1 /\ f[i + 1][Len(g) + 1] = s[i + 1]
          /\ \A j \in 1..Len(g) : f[i + 1][j] = g[j]
      BY <2>4, <3>1, <3>2
    <3>4. \A j \in 1..Len(g) + 1 : j \in 1..Len(g) \/ j = Len(g) + 1
      BY <3>1
    <3>5. \A j \in 1..Len(f[i + 1]) : f[i + 1][j].key # key
      BY <2>5, <2>7, <3>1, <3>3, <3>4
    <3> QED
      BY <2>2, <3>5
  <2> QED
    BY <2>6, <2>7
<1>5. Len(s) \in P
  <2>1. Len(s) \in Nat /\ Len(s) \in 0..Len(s)
    BY <1>1
  <2> HIDE DEF P
  <2>2. 0..Len(s) \subseteq P
    BY <1>3, <1>4, <2>1, Induction
  <2> QED
    BY <2>1, <2>2
<1>6. Without(s, key) = f[Len(s)] /\ f[Len(s)] \in Seq(E)
  BY <1>1, <1>2 DEF KeptBy
<1>7. DOMAIN f[Len(s)] = 1..Len(f[Len(s)])
  BY <1>6, LenProperties
<1> QED
  BY <1>5, <1>6, <1>7 DEF Has

\* Nothing else is touched.
LEMMA WithoutNothing ==
  ASSUME NEW E, NEW s \in Seq(E), NEW key, ~Has(s, key)
  PROVE  Without(s, key) = s
<1>1. Len(s) \in Nat /\ (\A i \in 1..Len(s) : s[i] \in E) /\ DOMAIN s = 1..Len(s)
  BY LenProperties
<1>2. PICK f : KeptBy(E, f, s, key)
  BY WithoutSteps
<1>3. \A i \in 1..Len(s) : s[i].key # key
  BY <1>1 DEF Has
<1> DEFINE P == {i \in 0..Len(s) : Len(f[i]) = i /\ \A j \in 1..i : f[i][j] = s[j]}
<1>4. 0 \in P
  BY <1>1, <1>2 DEF KeptBy
<1>5. \A i \in 0..Len(s) - 1 : i \in P => i + 1 \in P
  <2>1. SUFFICES ASSUME NEW i \in 0..Len(s) - 1, i \in P PROVE i + 1 \in P
    OBVIOUS
  <2>2. i + 1 \in 1..Len(s) /\ i + 1 \in 0..Len(s) /\ (i + 1) - 1 = i /\ i \in 0..Len(s)
    BY <1>1
  <2>3. f[i + 1] = Append(f[i], s[i + 1])
    BY <1>2, <1>3, <2>2 DEF KeptBy
  <2>4. PICK g : g = f[i] /\ g \in Seq(E) /\ Len(g) = i /\ \A j \in 1..i : g[j] = s[j]
    BY <1>2, <2>1, <2>2 DEF KeptBy
  <2>5. s[i + 1] \in E
    BY <1>1, <2>2
  <2>6. Len(f[i + 1]) = i + 1 /\ f[i + 1][i + 1] = s[i + 1] /\ \A j \in 1..i : f[i + 1][j] = g[j]
    BY <2>3, <2>4, <2>5
  <2>7. \A j \in 1..i + 1 : j \in 1..i \/ j = i + 1
    OBVIOUS
  <2>8. \A j \in 1..i + 1 : f[i + 1][j] = s[j]
    BY <2>4, <2>6, <2>7
  <2> QED
    BY <2>2, <2>6, <2>8
<1>6. Len(s) \in P
  <2>1. Len(s) \in Nat /\ Len(s) \in 0..Len(s)
    BY <1>1
  <2> HIDE DEF P
  <2>2. 0..Len(s) \subseteq P
    BY <1>4, <1>5, <2>1, Induction
  <2> QED
    BY <2>1, <2>2
<1>7. Without(s, key) = f[Len(s)] /\ f[Len(s)] \in Seq(E)
  BY <1>1, <1>2 DEF KeptBy
<1>8. PICK g : g = Without(s, key)
  OBVIOUS
<1>9. g \in Seq(E) /\ Len(g) = Len(s) /\ \A j \in 1..Len(s) : g[j] = s[j]
  BY <1>6, <1>7, <1>8
<1>10. g = s
  BY <1>1, <1>9, SeqEqual
<1> QED
  BY <1>8, <1>10

\* A key put in front and removed.
LEMMA WithoutFront ==
  ASSUME NEW E, NEW s \in Seq(E), NEW e \in E, NEW key, e.key = key
  PROVE  Without(<<e>> \o s, key) = Without(s, key)
<1> DEFINE t == <<e>> \o s
<1>1. Len(s) \in Nat /\ t \in Seq(E) /\ Len(t) = Len(s) + 1 /\ t[1] = e
      /\ \A i \in 1..Len(s) : t[i + 1] = s[i]
  OBVIOUS
<1> HIDE DEF t
<1>2. PICK f : KeptBy(E, f, s, key)
  BY WithoutSteps
<1>3. PICK g : KeptBy(E, g, t, key)
  BY <1>1, WithoutSteps
<1> DEFINE P == {i \in 0..Len(s) : g[i + 1] = f[i]}
<1>4. 0 \in P
  <2>1. 1 \in 1..Len(t) /\ 1 - 1 = 0
    BY <1>1
  <2>2. g[1] = g[0]
    BY <1>1, <1>3, <2>1 DEF KeptBy
  <2>3. g[0] = << >> /\ f[0] = << >>
    BY <1>2, <1>3 DEF KeptBy
  <2> QED
    BY <1>1, <2>2, <2>3
<1>5. \A i \in 0..Len(s) - 1 : i \in P => i + 1 \in P
  <2>1. SUFFICES ASSUME NEW i \in 0..Len(s) - 1, i \in P PROVE i + 1 \in P
    OBVIOUS
  <2>2. /\ i + 1 \in 1..Len(s) /\ i + 1 \in 0..Len(s) /\ (i + 1) - 1 = i
        /\ (i + 1) + 1 \in 1..Len(t) /\ ((i + 1) + 1) - 1 = i + 1
    BY <1>1
  <2>3. f[i + 1] = IF s[i + 1].key = key THEN f[i] ELSE Append(f[i], s[i + 1])
    BY <1>2, <2>2 DEF KeptBy
  <2>4. g[(i + 1) + 1] = IF t[(i + 1) + 1].key = key THEN g[i + 1]
                         ELSE Append(g[i + 1], t[(i + 1) + 1])
    BY <1>3, <2>2 DEF KeptBy
  <2>5. t[(i + 1) + 1] = s[i + 1] /\ g[i + 1] = f[i]
    BY <1>1, <2>1, <2>2
  <2>6. g[(i + 1) + 1] = f[i + 1]
    BY <2>3, <2>4, <2>5
  <2> QED
    BY <2>2, <2>6
<1>6. Len(s) \in P
  <2>1. Len(s) \in Nat /\ Len(s) \in 0..Len(s)
    BY <1>1
  <2> HIDE DEF P
  <2>2. 0..Len(s) \subseteq P
    BY <1>4, <1>5, <2>1, Induction
  <2> QED
    BY <2>1, <2>2
<1>7. Without(s, key) = f[Len(s)] /\ Without(t, key) = g[Len(s) + 1]
  BY <1>1, <1>2, <1>3 DEF KeptBy
<1> QED
  BY <1>6, <1>7 DEF t

\* The files of the model directory before the change: config.json and the
\* published file, of its own or the same, hold what they held.
Untouched(disk, config, published) ==
  /\ DOMAIN disk.link = FileNames /\ DOMAIN disk.file = FileNames
  /\ disk.link["config"] = "config"
  /\ disk.link["published"] = published /\ published \in {"config", "published"}
  /\ disk.link["backup"] \in {"backup", NoFile}
  /\ disk.link["temp"] \in {"temp", NoFile}
  /\ disk.file["config"] = config /\ disk.file["published"] = config

\* A write of the backup or of the temporary file reaches that file alone.
LEMMA WriteReachesItsFile ==
  ASSUME NEW disk, NEW config, NEW published, Untouched(disk, config, published),
         NEW name, name = "backup" \/ name = "temp", NEW contents,
         NEW after, after = WriteFile(disk, name, contents)
  PROVE  /\ Untouched(after, config, published)
         /\ after.link = [disk.link EXCEPT ![name] = name]
         /\ after.file = [disk.file EXCEPT ![name] = contents]
<1>2. (IF disk.link[name] = NoFile THEN name ELSE disk.link[name]) = name
  BY DEF Untouched, NoFile
<1>3. /\ after.link = [disk.link EXCEPT ![name] = name]
      /\ after.file = [disk.file EXCEPT ![name] = contents]
  BY <1>2 DEF WriteFile
<1>4. Untouched(after, config, published)
  BY <1>3 DEF Untouched, FileNames
<1> QED
  BY <1>3, <1>4

\* Cut off at any of its writes, the script leaves the published file untouched,
\* config.json whole, old or new, and a whole backup before the change.
LEMMA WritesAreSafe ==
  ASSUME NEW config, NEW new, NEW linked \in BOOLEAN, NEW steps \in Steps
  PROVE  LET disk == WriteSteps(config, new, linked, steps)
         IN  /\ ReadFile(disk, "published") = config
             /\ ReadFile(disk, "config") \in {config, new}
             /\ ReadFile(disk, "config") # config => ReadFile(disk, "backup") = config
<1>1. PICK start : start = Directory(config, linked)
  OBVIOUS
<1>p. PICK published : published = IF linked THEN "config" ELSE "published"
  OBVIOUS
<1>2. Untouched(start, config, published)
  BY <1>1, <1>p DEF Directory, Untouched, FileNames, NoFile
<1>3. PICK backed : backed = WriteFile(start, "backup", config)
  OBVIOUS
<1>4. /\ Untouched(backed, config, published)
      /\ backed.link["backup"] = "backup" /\ backed.file["backup"] = config
  <2>1. /\ backed.link = [start.link EXCEPT !["backup"] = "backup"]
        /\ backed.file = [start.file EXCEPT !["backup"] = config]
        /\ Untouched(backed, config, published)
    BY <1>2, <1>3, WriteReachesItsFile
  <2> QED
    BY <1>2, <2>1 DEF Untouched, FileNames
<1>5. PICK copied : copied = WriteFile(backed, "temp", new)
  OBVIOUS
<1>6. /\ Untouched(copied, config, published)
      /\ copied.link["temp"] = "temp" /\ copied.file["temp"] = new
      /\ copied.link["backup"] = "backup" /\ copied.file["backup"] = config
  <2>1. /\ copied.link = [backed.link EXCEPT !["temp"] = "temp"]
        /\ copied.file = [backed.file EXCEPT !["temp"] = new]
        /\ Untouched(copied, config, published)
    BY <1>4, <1>5, WriteReachesItsFile
  <2> QED
    BY <1>4, <2>1 DEF Untouched, FileNames
<1>7. PICK disk : disk = WriteSteps(config, new, linked, steps)
  OBVIOUS
<1>8. CASE steps = 5
  <2>1. disk = Replace(copied, "temp", "config")
    BY <1>1, <1>3, <1>5, <1>7, <1>8 DEF WriteSteps
  <2>2. /\ disk.link["config"] = "temp" /\ disk.link["published"] = copied.link["published"]
        /\ disk.link["backup"] = "backup" /\ disk.file = copied.file
    BY <1>6, <2>1 DEF Replace, FileNames
  <2> QED
    BY <1>6, <1>7, <2>2 DEF ReadFile, Untouched
<1>9. CASE steps # 5
  <2>1. \/ disk = start \/ disk = backed \/ disk = copied
        \/ disk = WriteFile(start, "backup", Torn) \/ disk = WriteFile(backed, "temp", Torn)
    <3>1. steps \in {0, 1, 2, 3, 4}
      BY <1>9 DEF Steps
    <3> QED
      BY <1>1, <1>3, <1>5, <1>7, <3>1 DEF WriteSteps
  <2>2. ASSUME disk = WriteFile(start, "backup", Torn) PROVE Untouched(disk, config, published)
    BY <1>2, <2>2, WriteReachesItsFile
  <2>3. ASSUME disk = WriteFile(backed, "temp", Torn) PROVE Untouched(disk, config, published)
    BY <1>4, <2>3, WriteReachesItsFile
  <2>4. Untouched(disk, config, published)
    BY <1>2, <1>4, <1>6, <2>1, <2>2, <2>3
  <2> QED
    BY <1>7, <2>4 DEF ReadFile, Untouched
<1> QED
  BY <1>8, <1>9

\* The edit of config.json adds or moves the one key and keeps every other entry
\* in its order, on any file whose entries have a key and a value, a hard link
\* or not; cut off at any write it harms neither config.json nor the published
\* file (make-e1-config.py).
THEOREM EditChangesOneKey ==
  ASSUME NEW E, NEW top \in Seq(E), NEW text \in Seq(E), [key |-> KEY, val |-> VAL] \in E,
         NEW linked \in BOOLEAN
  PROVE  OneKeyChanges([top |-> top, text |-> text], linked)
<1> DEFINE config == [top |-> top, text |-> text]
           set == [key |-> KEY, val |-> VAL]
<1>1. PICK edited : edited = Edited(config)
  OBVIOUS
<1>2. PICK new : new = [top |-> edited.top, text |-> edited.text]
  OBVIOUS
<1>x. SUFFICES ASSUME edited.ok
               PROVE  /\ \A steps \in Steps :
                           LET disk == WriteSteps(config, new, linked, steps)
                           IN  /\ ReadFile(disk, "published") = config
                               /\ ReadFile(disk, "config") \in {config, new}
                               /\ ReadFile(disk, "config") # config => ReadFile(disk, "backup") = config
                      /\ new.text[ValueIn(new.text, KEY)].val = VAL
                      /\ ~Has(new.top, KEY)
                      /\ Without(new.text, KEY) = Without(config.text, KEY)
                      /\ Without(new.top, KEY) = Without(config.top, KEY)
                      /\ ~Edited(new).ok
  BY <1>1, <1>2, Zenon DEF OneKeyChanges
<1>3. config.top = top /\ config.text = text
  OBVIOUS
<1>4. Fail.ok = FALSE
  BY DEF Fail
<1>5. /\ Has(text, KEY) => text[ValueIn(text, KEY)].val = VAL
      /\ edited.top = Without(top, KEY)
      /\ edited.text = IF Has(text, KEY) THEN text ELSE <<set>> \o text
  <2> HIDE DEF set
  <2> QED
    BY <1>1, <1>x, <1>3, <1>4 DEF Edited, set
<1>6. Without(top, KEY) \in Seq(E) /\ ~Has(edited.top, KEY)
  BY <1>5, WithoutHasNot
<1>7. Without(edited.top, KEY) = Without(top, KEY)
  BY <1>5, <1>6, WithoutNothing
<1>8. Without(edited.text, KEY) = Without(text, KEY)
  <2>1. set \in E /\ set.key = KEY
    OBVIOUS
  <2> HIDE DEF set
  <2>2. Without(<<set>> \o text, KEY) = Without(text, KEY)
    BY <2>1, WithoutFront
  <2> QED
    BY <1>5, <2>2
<1>9. Has(edited.text, KEY) /\ edited.text[ValueIn(edited.text, KEY)].val = VAL
  <2>1. CASE Has(text, KEY)
    BY <1>5, <2>1
  <2>2. CASE ~Has(text, KEY)
    <3>1. PICK t : t = edited.text /\ t = <<set>> \o text
      BY <1>5, <2>2
    <3>2. DOMAIN text = 1..Len(text) /\ Len(text) \in Nat
      BY LenProperties
    <3>3. DOMAIN t = 1..Len(text) + 1 /\ t[1] = set /\ \A i \in 1..Len(text) : t[i + 1] = text[i]
      BY <3>1, <3>2
    <3>4. \A i \in DOMAIN t : i = 1 \/ i - 1 \in 1..Len(text)
      BY <3>2, <3>3
    <3>5. ASSUME NEW i \in DOMAIN t, t[i].key = KEY PROVE i = 1
      <4>1. SUFFICES ASSUME i - 1 \in 1..Len(text) PROVE FALSE
        BY <3>4
      <4>2. i \in Int /\ (i - 1) + 1 = i
        BY <3>2, <3>3
      <4>3. t[i] = text[i - 1]
        BY <3>3, <4>1, <4>2
      <4> QED
        BY <2>2, <3>2, <3>5, <4>1, <4>3 DEF Has
    <3>6. 1 \in DOMAIN t /\ t[1].key = KEY /\ t[1].val = VAL
      BY <3>2, <3>3
    <3>7. \E i \in DOMAIN t : t[i].key = KEY
      BY <3>6
    <3>8. ValueIn(t, KEY) \in DOMAIN t /\ t[ValueIn(t, KEY)].key = KEY
      BY <3>7, Zenon DEF ValueIn
    <3>9. ValueIn(t, KEY) = 1
      BY <3>5, <3>8
    <3> QED
      BY <3>1, <3>6, <3>7, <3>9 DEF Has
  <2> QED
    BY <2>1, <2>2
<1>10. new.top = edited.top /\ new.text = edited.text
  BY <1>2
<1>11. ~Edited(new).ok
  <2>1. Edited(new) = Fail
    BY <1>6, <1>9, <1>10 DEF Edited
  <2> QED
    BY <1>4, <2>1
<1>12. \A steps \in Steps :
         LET disk == WriteSteps(config, new, linked, steps)
         IN  /\ ReadFile(disk, "published") = config
             /\ ReadFile(disk, "config") \in {config, new}
             /\ ReadFile(disk, "config") # config => ReadFile(disk, "backup") = config
  BY WritesAreSafe
<1> HIDE DEF config
<1> QED
  BY <1>3, <1>6, <1>7, <1>8, <1>9, <1>10, <1>11, <1>12

-----------------------------------------------------------------------------
(* The embedding table of the PLE.                                         *)

\* A checkpoint of a table: the scales of its shards are numbers.
IsCheckpoint(c) ==
  /\ c.vocab \in Nat /\ c.parts \in Nat \ {0}
  /\ c.method \in {"none", "fp8", "nvfp4"}
  /\ c.outers \in [0..c.parts - 1 -> Nat]

\* The part of its table a rank holds.
IsPart(emb, c) ==
  /\ emb.vocab = c.vocab /\ emb.parts = c.parts
  /\ emb.lo \in Nat /\ emb.hi \in Nat /\ emb.hi <= c.vocab

\* Every row of the table is in one of the shards.
LEMMA RowInShard ==
  ASSUME NEW c, IsCheckpoint(c), NEW emb, IsPart(emb, c), NEW r \in 0..c.vocab - 1
  PROVE  \E s \in 0..c.parts - 1 :
           r \in ShardStart(emb, s)..ShardStart(emb, s) + ExpectedRows(emb, s) - 1
<1>1. PICK vocab, parts : vocab = c.vocab /\ parts = c.parts
  OBVIOUS
<1>2. vocab \in Nat /\ parts \in Nat \ {0} /\ emb.vocab = vocab /\ emb.parts = parts
  BY <1>1 DEF IsCheckpoint, IsPart
<1>3. PICK size : size = (vocab + parts - 1) \div parts
  OBVIOUS
<1>4. ShardSize(emb) = size
  BY <1>2, <1>3 DEF ShardSize
<1>5. size \in Nat /\ vocab + parts - 1 < parts * size + parts
  <2>1. vocab + parts - 1 \in Nat
    BY <1>2
  <2> QED
    BY <1>2, <1>3, <2>1, Division
<1>6. vocab <= parts * size /\ parts * size \in Nat
  BY <1>2, <1>5
<1>7. r \in 0..parts * size - 1 /\ r \in Nat /\ r < vocab
  BY <1>1, <1>2, <1>6
<1>8. PICK s, rest : s = r \div size /\ rest = r % size
  OBVIOUS
<1>9. size # 0 /\ s \in 0..parts - 1 /\ rest \in 0..size - 1 /\ r = s * size + rest
  BY <1>2, <1>5, <1>7, <1>8, Digits, ZenonT(30)
<1>10. PICK from : from = s * size
  OBVIOUS
<1>11. from \in Nat /\ r = from + rest
  BY <1>5, <1>9, <1>10
<1>12. ShardStart(emb, s) = from
  BY <1>4, <1>10 DEF ShardStart
<1>13. ExpectedRows(emb, s) = Max({0, Min({size, vocab - from})})
  BY <1>2, <1>4, <1>12 DEF ExpectedRows
<1>14. PICK low : low = Min({size, vocab - from})
  OBVIOUS
<1>15. low = IF size <= vocab - from THEN size ELSE vocab - from
  <2>1. size \in Int /\ vocab - from \in Int
    BY <1>2, <1>5, <1>11
  <2> QED
    BY <1>14, <2>1, MinOfTwo
<1>16. ExpectedRows(emb, s) = IF 0 >= low THEN 0 ELSE low
  <2>1. 0 \in Int /\ low \in Int
    BY <1>2, <1>5, <1>11, <1>15
  <2> QED
    BY <1>13, <1>14, <2>1, MaxOfTwo
<1>17. rest < ExpectedRows(emb, s)
  BY <1>2, <1>5, <1>7, <1>9, <1>11, <1>15, <1>16
<1>18. ExpectedRows(emb, s) \in Int
  BY <1>2, <1>5, <1>11, <1>15, <1>16
<1>19. r \in ShardStart(emb, s)..ShardStart(emb, s) + ExpectedRows(emb, s) - 1
  BY <1>5, <1>9, <1>11, <1>12, <1>17, <1>18
<1> QED
  BY <1>1, <1>9, <1>19

\* Memory nobody wrote.
Blank(emb) == [row \in 0..emb.hi - emb.lo - 1 |-> Garbage]

\* The rows of a rank, once it has copied every shard.
LEMMA RowsCopied ==
  ASSUME NEW c, IsCheckpoint(c), NEW emb, IsPart(emb, c), NEW r \in emb.lo..emb.hi - 1
  PROVE  CopyShards(emb, Blank(emb), 0..c.parts - 1)[r - emb.lo] = r
<1>1. emb.lo \in Nat /\ emb.hi \in Nat /\ c.vocab \in Nat /\ emb.hi <= c.vocab
  BY DEF IsCheckpoint, IsPart
<1>2. r \in 0..c.vocab - 1 /\ r - emb.lo \in 0..emb.hi - emb.lo - 1 /\ emb.lo + (r - emb.lo) = r
  BY <1>1
<1>3. \E s \in 0..c.parts - 1 :
        r \in ShardStart(emb, s)..ShardStart(emb, s) + ExpectedRows(emb, s) - 1
  BY <1>2, RowInShard
<1>4. DOMAIN Blank(emb) = 0..emb.hi - emb.lo - 1
  BY DEF Blank
<1>5. CopyShards(emb, Blank(emb), 0..c.parts - 1)[r - emb.lo] =
        IF \E s \in 0..c.parts - 1 :
             emb.lo + (r - emb.lo) \in ShardStart(emb, s)..ShardStart(emb, s) + ExpectedRows(emb, s) - 1
        THEN emb.lo + (r - emb.lo) ELSE Blank(emb)[r - emb.lo]
  BY <1>2, <1>4, Zenon DEF CopyShards
<1> QED
  BY <1>2, <1>3, <1>5

\* Shards copied one set after the other.
LEMMA CopiedInTwo ==
  ASSUME NEW emb, NEW A, NEW B
  PROVE  /\ CopyShards(emb, CopyShards(emb, Blank(emb), A), B) = CopyShards(emb, Blank(emb), A \cup B)
         /\ CopyShards(emb, Blank(emb), {}) = Blank(emb)
<1> DEFINE Held == 0..emb.hi - emb.lo - 1
           In(S, row) == \E s \in S : emb.lo + row \in
                           ShardStart(emb, s)..ShardStart(emb, s) + ExpectedRows(emb, s) - 1
<1>1. DOMAIN Blank(emb) = Held /\ Blank(emb) = [row \in Held |-> Garbage]
  BY DEF Blank
<1>2. \A S : CopyShards(emb, Blank(emb), S) =
               [row \in Held |-> IF In(S, row) THEN emb.lo + row ELSE Garbage]
  <2>1. TAKE S
  <2>2. CopyShards(emb, Blank(emb), S) =
          [row \in Held |-> IF In(S, row) THEN emb.lo + row ELSE Blank(emb)[row]]
    BY <1>1, Zenon DEF CopyShards
  <2>3. \A row \in Held : Blank(emb)[row] = Garbage
    BY <1>1
  <2> HIDE DEF Held, In
  <2> QED
    BY <2>2, <2>3
<1>3. CopyShards(emb, CopyShards(emb, Blank(emb), A), B) =
        [row \in Held |-> IF In(B, row) THEN emb.lo + row
                          ELSE IF In(A, row) THEN emb.lo + row ELSE Garbage]
  <2>1. PICK t : t = CopyShards(emb, Blank(emb), A)
    OBVIOUS
  <2>2. DOMAIN t = Held /\ \A row \in Held : t[row] = IF In(A, row) THEN emb.lo + row ELSE Garbage
    <3> HIDE DEF Held, In
    <3> QED
      BY <1>2, <2>1
  <2>3. CopyShards(emb, t, B) = [row \in Held |-> IF In(B, row) THEN emb.lo + row ELSE t[row]]
    BY <2>2, Zenon DEF CopyShards
  <2> HIDE DEF Held, In
  <2> QED
    BY <2>1, <2>2, <2>3
<1>4. \A row : In(A \cup B, row) <=> In(A, row) \/ In(B, row)
  OBVIOUS
<1>5. \A row : ~In({}, row)
  OBVIOUS
<1> HIDE DEF Held, In
<1>6. CopyShards(emb, Blank(emb), A \cup B) =
        [row \in Held |-> IF In(B, row) THEN emb.lo + row
                          ELSE IF In(A, row) THEN emb.lo + row ELSE Garbage]
  BY <1>2, <1>4
<1>7. CopyShards(emb, Blank(emb), {}) = Blank(emb)
  BY <1>1, <1>2, <1>5
<1> QED
  BY <1>3, <1>6, <1>7

\* Two parts of the same table expect the same rows of a shard.
LEMMA SameRows ==
  ASSUME NEW a, NEW b, a.vocab = b.vocab, a.parts = b.parts, NEW s
  PROVE  ExpectedRows(a, s) = ExpectedRows(b, s)
<1>1. ShardSize(a) = ShardSize(b)
  BY Zenon DEF ShardSize
<1>2. ShardStart(a, s) = ShardStart(b, s)
  BY <1>1, Zenon DEF ShardStart
<1> QED
  BY <1>1, <1>2, Zenon DEF ExpectedRows

\* The tensors of a whole checkpoint.
Whole(c) == Tensors(c, 0..c.parts - 1)

\* Its tensors that a table in its storage dtype takes.
PlainTensors(c, emb) ==
  /\ \A w \in Whole(c) :
       \/ w.part = "weight" /\ w.shard \in 0..c.parts - 1 /\ w.rows = ExpectedRows(emb, w.shard)
       \/ w.part = "global" /\ w.outer = c.outers[0]
  /\ \A s \in 0..c.parts - 1 : \E w \in Whole(c) : w.part = "weight" /\ w.shard = s
  /\ c.method = "fp8" => \E w \in Whole(c) : w.part = "global"

LEMMA WholePlain ==
  ASSUME NEW c, IsCheckpoint(c), c.method # "nvfp4", NEW emb, IsPart(emb, c)
  PROVE  PlainTensors(c, emb)
<1> DEFINE all == [vocab |-> c.vocab, parts |-> c.parts, lo |-> 0, hi |-> c.vocab]
           W(s) == [part |-> "weight", shard |-> s, rows |-> ExpectedRows(all, s), outer |-> 0]
           G == [part |-> "global", shard |-> 0, rows |-> 0, outer |-> c.outers[0]]
<1>1. \A s : ExpectedRows(all, s) = ExpectedRows(emb, s)
  <2>1. all.vocab = emb.vocab /\ all.parts = emb.parts
    BY DEF IsPart
  <2> HIDE DEF all
  <2> QED
    BY <2>1, SameRows
<1>2. c.method = "none" \/ c.method = "fp8"
  BY DEF IsCheckpoint
<1> HIDE DEF all
<1>3. Whole(c) = {W(s) : s \in 0..c.parts - 1} \cup (IF c.method = "fp8" THEN {G} ELSE {})
  BY <1>2 DEF Whole, Tensors, all
<1>4. \A s : W(s).part = "weight" /\ W(s).shard = s /\ W(s).rows = ExpectedRows(emb, s)
  BY <1>1
<1>5. G.part = "global" /\ G.outer = c.outers[0]
  OBVIOUS
<1> HIDE DEF W, G
<1> QED
  BY <1>3, <1>4, <1>5 DEF PlainTensors


\* A table, and the scale a worker retains, after the tensors of `seen`.
PlainAfter(c, emb, seen) ==
  [error  |-> FALSE,
   codes  |-> CopyShards(emb, Blank(emb), ShardsOf(PartOf(seen, "weight"))),
   scales |-> Blank(emb),
   outer  |-> IF PartOf(seen, "global") = {} THEN Garbage ELSE c.outers[0],
   loaded |-> {w.part : w \in seen}]

RetainedAfter(c, seen) ==
  [error |-> FALSE,
   outer |-> IF c.method = "fp8" /\ PartOf(seen, "global") # {} THEN c.outers[0] ELSE Missing]

\* The tensors of the first n calls.
SeenAfter(groups, n) == UNION {groups[i] : i \in 1..n}

\* The scale of a set of global weights.
LEMMA GlobalScale ==
  ASSUME NEW c, NEW emb, PlainTensors(c, emb), NEW group \in SUBSET Whole(c),
         PartOf(group, "global") # {}
  PROVE  (CHOOSE o \in OuterScales(PartOf(group, "global")) : TRUE) = c.outers[0]
<1>1. \A w \in PartOf(group, "global") : w.outer = c.outers[0]
  BY DEF PartOf, PlainTensors
<1>2. OuterScales(PartOf(group, "global")) = {c.outers[0]}
  BY <1>1 DEF OuterScales
<1> QED
  BY <1>2

\* One call on a table in its storage dtype.
LEMMA PlainCall ==
  ASSUME NEW c, NEW emb, IsCheckpoint(c), IsPart(emb, c), c.method # "nvfp4", PlainTensors(c, emb),
         NEW seen \in SUBSET Whole(c), NEW group \in SUBSET Whole(c)
  PROVE  LoadTable(c.method, emb, PlainAfter(c, emb, seen), group) = PlainAfter(c, emb, seen \cup group)
<1> DEFINE table  == PlainAfter(c, emb, seen)
           shards == PartOf(group, "weight")
           global == PartOf(group, "global")
<1>1. ~BadBuffer(emb, group)
  BY DEF BadBuffer, PartOf, PlainTensors
<1>2. ~WrongShape(emb, shards)
  <2>1. emb.parts = c.parts /\ c.parts \in Nat
    BY DEF IsPart, IsCheckpoint
  <2>2. \A w \in shards : w.shard \in 0..c.parts - 1 /\ w.rows = ExpectedRows(emb, w.shard)
    BY DEF PartOf, PlainTensors
  <2> HIDE DEF shards
  <2> QED
    BY <2>1, <2>2 DEF WrongShape
<1>3. \A S, T, p : PartOf(S \cup T, p) = PartOf(S, p) \cup PartOf(T, p)
  BY DEF PartOf
<1>4. \A S, T : ShardsOf(S \cup T) = ShardsOf(S) \cup ShardsOf(T)
  BY DEF ShardsOf
<1>5. CopyShards(emb, table.codes, ShardsOf(shards))
        = CopyShards(emb, Blank(emb), ShardsOf(PartOf(seen \cup group, "weight")))
  <2>1. table.codes = CopyShards(emb, Blank(emb), ShardsOf(PartOf(seen, "weight")))
    BY DEF PlainAfter
  <2>2. ShardsOf(PartOf(seen \cup group, "weight")) = ShardsOf(PartOf(seen, "weight")) \cup ShardsOf(shards)
    BY <1>3, <1>4
  <2>3. PICK A, B : A = ShardsOf(PartOf(seen, "weight")) /\ B = ShardsOf(shards)
    OBVIOUS
  <2> HIDE DEF table, shards
  <2>4. CopyShards(emb, CopyShards(emb, Blank(emb), A), B) = CopyShards(emb, Blank(emb), A \cup B)
    BY CopiedInTwo
  <2> QED
    BY <2>1, <2>2, <2>3, <2>4
<1>6. (IF global = {} THEN table.outer ELSE CHOOSE o \in OuterScales(global) : TRUE)
        = IF PartOf(seen \cup group, "global") = {} THEN Garbage ELSE c.outers[0]
  <2>1. table.outer = IF PartOf(seen, "global") = {} THEN Garbage ELSE c.outers[0]
    BY DEF PlainAfter
  <2>2. PartOf(seen \cup group, "global") = PartOf(seen, "global") \cup global
    BY <1>3
  <2>3. global # {} => (CHOOSE o \in OuterScales(global) : TRUE) = c.outers[0]
    BY GlobalScale
  <2> HIDE DEF table, global
  <2> QED
    BY <2>1, <2>2, <2>3
<1>7. table.loaded \cup {w.part : w \in shards \cup global} = {w.part : w \in seen \cup group}
  <2>1. table.loaded = {w.part : w \in seen}
    BY DEF PlainAfter
  <2>2. shards \cup global = group
    BY DEF PartOf, PlainTensors
  <2> HIDE DEF table, shards, global
  <2> QED
    BY <2>1, <2>2
<1>8. table.error = FALSE /\ table.scales = Blank(emb)
      /\ table = [error |-> FALSE, codes |-> table.codes, scales |-> table.scales,
                  outer |-> table.outer, loaded |-> table.loaded]
  BY DEF PlainAfter
<1>9. LoadTable(c.method, emb, table, group) = LoadPlain(emb, table, group)
  BY <1>8 DEF LoadTable
<1> DEFINE outer  == IF global = {} THEN table.outer ELSE CHOOSE o \in OuterScales(global) : TRUE
           codes  == CopyShards(emb, table.codes, ShardsOf(shards))
           loaded == table.loaded \cup {w.part : w \in shards \cup global}
<1> HIDE DEF table
<1>10. LoadPlain(emb, table, group)
         = [table EXCEPT !.codes = codes, !.outer = outer, !.loaded = loaded]
  BY <1>1, <1>2 DEF LoadPlain
<1> HIDE DEF outer, codes, loaded
<1>11. LoadPlain(emb, table, group)
         = [error |-> FALSE, codes |-> codes, scales |-> Blank(emb), outer |-> outer, loaded |-> loaded]
  BY <1>8, <1>10
<1>12. codes = CopyShards(emb, Blank(emb), ShardsOf(PartOf(seen \cup group, "weight")))
  BY <1>5 DEF codes
<1>13. outer = IF PartOf(seen \cup group, "global") = {} THEN Garbage ELSE c.outers[0]
  BY <1>6 DEF outer
<1>14. loaded = {w.part : w \in seen \cup group}
  BY <1>7 DEF loaded
<1> QED
  BY <1>9, <1>11, <1>12, <1>13, <1>14, Zenon DEF PlainAfter, table

\* One call on a worker that retains the scale only.
LEMMA RetainedCall ==
  ASSUME NEW c, NEW emb, IsCheckpoint(c), c.method # "nvfp4", PlainTensors(c, emb),
         NEW seen \in SUBSET Whole(c), NEW group \in SUBSET Whole(c)
  PROVE  LoadRetained(c.method, RetainedAfter(c, seen), group) = RetainedAfter(c, seen \cup group)
<1> DEFINE global == PartOf(group, "global")
<1>1. PICK kept : kept = RetainedAfter(c, seen)
  OBVIOUS
<1>2. kept.error = FALSE /\ kept = [error |-> FALSE, outer |-> kept.outer]
      /\ kept.outer = IF c.method = "fp8" /\ PartOf(seen, "global") # {} THEN c.outers[0] ELSE Missing
  BY <1>1 DEF RetainedAfter
<1>3. PartOf(seen \cup group, "global") = PartOf(seen, "global") \cup global
  BY DEF PartOf
<1>4. CASE c.method = "fp8"
  <2> DEFINE outer == IF global = {} THEN kept.outer ELSE CHOOSE o \in OuterScales(global) : TRUE
  <2>1. LoadRetained(c.method, kept, group) = [kept EXCEPT !.outer = outer]
    BY <1>2, <1>4 DEF LoadRetained
  <2>2. global # {} => (CHOOSE o \in OuterScales(global) : TRUE) = c.outers[0]
    BY GlobalScale
  <2> HIDE DEF global
  <2>3. outer = IF PartOf(seen \cup group, "global") # {} THEN c.outers[0] ELSE Missing
    BY <1>2, <1>3, <1>4, <2>2
  <2> HIDE DEF outer
  <2> QED
    BY <1>1, <1>2, <1>4, <2>1, <2>3 DEF RetainedAfter
<1>5. CASE c.method = "none"
  <2>1. LoadRetained(c.method, kept, group) = kept
    BY <1>2, <1>5 DEF LoadRetained
  <2> QED
    BY <1>1, <1>5, <2>1 DEF RetainedAfter
<1>6. c.method = "fp8" \/ c.method = "none"
  BY DEF IsCheckpoint
<1> QED
  BY <1>4, <1>5, <1>6

\* The state after each call, and the calls' result.
TableSteps(f, method, emb, groups, n) ==
  f = [k \in 0..n |-> IF k = 0 THEN EmptyTable(emb)
                      ELSE LoadTable(method, emb, f[k - 1], groups[k])]

LEMMA TableOf ==
  ASSUME NEW method, NEW emb, NEW groups, NEW n \in Nat, Len(groups) = n,
         NEW f, TableSteps(f, method, emb, groups, n)
  PROVE  LoadedTable(method, emb, groups) = f[n]
<1> DEFINE Step(g) == [k \in 0..Len(groups) |->
                         IF k = 0 THEN EmptyTable(emb) ELSE LoadTable(method, emb, g[k - 1], groups[k])]
<1>1. f = Step(f)
  BY Zenon DEF TableSteps
<1>2. PICK h : h = (CHOOSE g : g = Step(g)) /\ h = Step(h)
  <2> HIDE DEF Step
  <2> QED
    BY <1>1, Zenon
<1>3. LoadedTable(method, emb, groups) = h[n]
  BY <1>2, Zenon DEF LoadedTable
<1> DEFINE P == {k \in 0..n : h[k] = f[k]}
<1>4. 0 \in P
  BY <1>1, <1>2
<1>5. \A k \in 0..n - 1 : k \in P => k + 1 \in P
  <2>1. SUFFICES ASSUME NEW k \in 0..n - 1, k \in P PROVE k + 1 \in P
    OBVIOUS
  <2>2. k + 1 \in 0..n /\ k + 1 # 0 /\ (k + 1) - 1 = k
    OBVIOUS
  <2>3. h[k + 1] = LoadTable(method, emb, h[k], groups[k + 1])
    BY <1>2, <2>2
  <2>4. f[k + 1] = LoadTable(method, emb, f[k], groups[k + 1])
    BY <1>1, <2>2
  <2> QED
    BY <2>1, <2>2, <2>3, <2>4
<1>6. n \in 0..n
  OBVIOUS
<1> HIDE DEF P, Step
<1>7. 0..n \subseteq P
  BY <1>4, <1>5, Induction
<1> QED
  BY <1>3, <1>6, <1>7 DEF P

RetainedSteps(f, method, groups, n) ==
  f = [k \in 0..n |-> IF k = 0 THEN [error |-> FALSE, outer |-> Missing]
                      ELSE LoadRetained(method, f[k - 1], groups[k])]

LEMMA RetainedOf ==
  ASSUME NEW method, NEW groups, NEW n \in Nat, Len(groups) = n,
         NEW f, RetainedSteps(f, method, groups, n)
  PROVE  RetainedScale(method, groups) = f[n]
<1> DEFINE Step(g) == [k \in 0..Len(groups) |->
                         IF k = 0 THEN [error |-> FALSE, outer |-> Missing]
                         ELSE LoadRetained(method, g[k - 1], groups[k])]
<1>1. f = Step(f)
  BY Zenon DEF RetainedSteps
<1>2. PICK h : h = (CHOOSE g : g = Step(g)) /\ h = Step(h)
  <2> HIDE DEF Step
  <2> QED
    BY <1>1, Zenon
<1>3. RetainedScale(method, groups) = h[n]
  BY <1>2, Zenon DEF RetainedScale
<1> DEFINE P == {k \in 0..n : h[k] = f[k]}
<1>4. 0 \in P
  <2>1. 0 \in 0..n
    OBVIOUS
  <2>2. h[0] = [error |-> FALSE, outer |-> Missing]
    BY <1>2, <2>1
  <2>3. f[0] = [error |-> FALSE, outer |-> Missing]
    BY <1>1, <2>1
  <2> HIDE DEF Step
  <2> QED
    BY <2>1, <2>2, <2>3
<1>5. \A k \in 0..n - 1 : k \in P => k + 1 \in P
  <2>1. SUFFICES ASSUME NEW k \in 0..n - 1, k \in P PROVE k + 1 \in P
    OBVIOUS
  <2>2. k + 1 \in 0..n /\ k + 1 # 0 /\ (k + 1) - 1 = k
    OBVIOUS
  <2>3. h[k + 1] = LoadRetained(method, h[k], groups[k + 1])
    BY <1>2, <2>2
  <2>4. f[k + 1] = LoadRetained(method, f[k], groups[k + 1])
    BY <1>1, <2>2
  <2> QED
    BY <2>1, <2>2, <2>3, <2>4
<1>6. n \in 0..n
  OBVIOUS
<1> HIDE DEF P, Step
<1>7. 0..n \subseteq P
  BY <1>4, <1>5, Induction
<1> QED
  BY <1>3, <1>6, <1>7 DEF P

\* The calls of one load, together the whole checkpoint.
AreCalls(groups, n, c) ==
  /\ Len(groups) = n
  /\ \A i \in 1..n : groups[i] \subseteq Whole(c)
  /\ Whole(c) \subseteq SeenAfter(groups, n)

LEMMA SeenGrows ==
  ASSUME NEW c, NEW groups, NEW n \in Nat, AreCalls(groups, n, c)
  PROVE  /\ SeenAfter(groups, 0) = {} /\ SeenAfter(groups, n) = Whole(c)
         /\ \A k \in 0..n : SeenAfter(groups, k) \in SUBSET Whole(c)
         /\ \A k \in 1..n : SeenAfter(groups, k) = SeenAfter(groups, k - 1) \cup groups[k]
<1>1. SeenAfter(groups, 0) = {}
  <2>1. 1..0 = {}
    OBVIOUS
  <2> QED
    BY <2>1 DEF SeenAfter
<1>2. \A k \in 0..n : SeenAfter(groups, k) \in SUBSET Whole(c)
  <2>1. TAKE k \in 0..n
  <2>2. \A i \in 1..k : groups[i] \subseteq Whole(c)
    BY DEF AreCalls
  <2> QED
    BY <2>2 DEF SeenAfter
<1>3. \A k \in 1..n : SeenAfter(groups, k) = SeenAfter(groups, k - 1) \cup groups[k]
  <2>1. TAKE k \in 1..n
  <2>2. 1..k = (1..k - 1) \cup {k}
    OBVIOUS
  <2>3. \A w : w \in SeenAfter(groups, k) <=> \E i \in 1..k : w \in groups[i]
    BY DEF SeenAfter
  <2>4. \A w : w \in SeenAfter(groups, k - 1) <=> \E i \in 1..k - 1 : w \in groups[i]
    BY DEF SeenAfter
  <2> QED
    BY <2>2, <2>3, <2>4
<1>4. SeenAfter(groups, n) = Whole(c)
  <2>1. n \in 0..n
    OBVIOUS
  <2> QED
    BY <1>2, <2>1 DEF AreCalls
<1> QED
  BY <1>1, <1>2, <1>3, <1>4

\* What a load in any number of calls leaves.
LEMMA PlainLoaded ==
  ASSUME NEW c, IsCheckpoint(c), c.method # "nvfp4", NEW emb, IsPart(emb, c),
         NEW groups, NEW n \in Nat, AreCalls(groups, n, c)
  PROVE  /\ LoadedTable(c.method, emb, groups) = PlainAfter(c, emb, Whole(c))
         /\ RetainedScale(c.method, groups) = RetainedAfter(c, Whole(c))
<1>1. PlainTensors(c, emb)
  BY WholePlain
<1>2. /\ SeenAfter(groups, 0) = {} /\ SeenAfter(groups, n) = Whole(c)
      /\ \A k \in 0..n : SeenAfter(groups, k) \in SUBSET Whole(c)
      /\ \A k \in 1..n : SeenAfter(groups, k) = SeenAfter(groups, k - 1) \cup groups[k]
  BY SeenGrows
<1>3. \A k \in 0..n : k = 0 \/ (k \in 1..n /\ k - 1 \in 0..n)
  OBVIOUS
<1>4. \A k \in 1..n : groups[k] \in SUBSET Whole(c)
  BY DEF AreCalls
<1>5. LoadedTable(c.method, emb, groups) = PlainAfter(c, emb, Whole(c))
  <2> DEFINE f == [k \in 0..n |-> PlainAfter(c, emb, SeenAfter(groups, k))]
  <2>1. PlainAfter(c, emb, {}) = EmptyTable(emb)
    <3>1. PartOf({}, "weight") = {} /\ PartOf({}, "global") = {}
      BY DEF PartOf
    <3>2. ShardsOf({}) = {}
      BY DEF ShardsOf
    <3>3. CopyShards(emb, Blank(emb), {}) = Blank(emb)
      BY CopiedInTwo
    <3>4. {w.part : w \in {}} = {}
      OBVIOUS
    <3>5. PlainAfter(c, emb, {}) = [error |-> FALSE, codes |-> Blank(emb), scales |-> Blank(emb),
                                    outer |-> Garbage, loaded |-> {}]
      BY <3>1, <3>2, <3>3, <3>4, Zenon DEF PlainAfter
    <3> QED
      BY <3>5, Zenon DEF EmptyTable, Blank
  <2>2. ASSUME NEW k \in 0..n
        PROVE  f[k] = IF k = 0 THEN EmptyTable(emb) ELSE LoadTable(c.method, emb, f[k - 1], groups[k])
    <3>1. CASE k = 0
      BY <1>2, <2>1, <3>1
    <3>2. CASE k # 0
      <4>1. k \in 1..n /\ k - 1 \in 0..n
        BY <1>3, <3>2
      <4>2. f[k - 1] = PlainAfter(c, emb, SeenAfter(groups, k - 1))
        BY <4>1
      <4>3. SeenAfter(groups, k - 1) \in SUBSET Whole(c) /\ groups[k] \in SUBSET Whole(c)
        BY <1>2, <1>4, <4>1
      <4>4. LoadTable(c.method, emb, f[k - 1], groups[k])
              = PlainAfter(c, emb, SeenAfter(groups, k - 1) \cup groups[k])
        <5> HIDE DEF f
        <5> QED
          BY <1>1, <4>2, <4>3, PlainCall
      <4>5. f[k] = PlainAfter(c, emb, SeenAfter(groups, k))
        OBVIOUS
      <4> HIDE DEF f
      <4> QED
        BY <1>2, <3>2, <4>1, <4>4, <4>5
    <3> QED
      BY <3>1, <3>2
  <2>3. f = [k \in 0..n |-> f[k]]
    OBVIOUS
  <2>4. f[n] = PlainAfter(c, emb, Whole(c))
    BY <1>2
  <2> HIDE DEF f
  <2>5. TableSteps(f, c.method, emb, groups, n)
    BY <2>2, <2>3 DEF TableSteps
  <2>6. Len(groups) = n
    BY DEF AreCalls
  <2> QED
    BY <2>4, <2>5, <2>6, TableOf
<1>6. RetainedScale(c.method, groups) = RetainedAfter(c, Whole(c))
  <2> DEFINE f == [k \in 0..n |-> RetainedAfter(c, SeenAfter(groups, k))]
  <2>1. RetainedAfter(c, {}) = [error |-> FALSE, outer |-> Missing]
    BY DEF RetainedAfter, PartOf
  <2>2. ASSUME NEW k \in 0..n
        PROVE  f[k] = IF k = 0 THEN [error |-> FALSE, outer |-> Missing]
                      ELSE LoadRetained(c.method, f[k - 1], groups[k])
    <3>1. CASE k = 0
      BY <1>2, <2>1, <3>1
    <3>2. CASE k # 0
      <4>1. k \in 1..n /\ k - 1 \in 0..n
        BY <1>3, <3>2
      <4>2. f[k - 1] = RetainedAfter(c, SeenAfter(groups, k - 1))
        BY <4>1
      <4>3. SeenAfter(groups, k - 1) \in SUBSET Whole(c) /\ groups[k] \in SUBSET Whole(c)
        BY <1>2, <1>4, <4>1
      <4>4. LoadRetained(c.method, f[k - 1], groups[k])
              = RetainedAfter(c, SeenAfter(groups, k - 1) \cup groups[k])
        <5> HIDE DEF f
        <5>1. LoadRetained(c.method, RetainedAfter(c, SeenAfter(groups, k - 1)), groups[k])
                = RetainedAfter(c, SeenAfter(groups, k - 1) \cup groups[k])
          BY <1>1, <4>3, RetainedCall
        <5> QED
          BY <4>2, <5>1, Zenon
      <4>5. f[k] = RetainedAfter(c, SeenAfter(groups, k))
        OBVIOUS
      <4> HIDE DEF f
      <4> QED
        BY <1>2, <3>2, <4>1, <4>4, <4>5
    <3> QED
      BY <3>1, <3>2
  <2>3. f = [k \in 0..n |-> f[k]]
    OBVIOUS
  <2>4. f[n] = RetainedAfter(c, Whole(c))
    BY <1>2
  <2> HIDE DEF f
  <2>5. RetainedSteps(f, c.method, groups, n)
    BY <2>2, <2>3 DEF RetainedSteps
  <2>6. Len(groups) = n
    BY DEF AreCalls
  <2> QED
    BY <2>4, <2>5, <2>6, RetainedOf
<1> QED
  BY <1>5, <1>6


\* The tensors of a packed table: one of each part per shard.
PackedTensors(c, emb) ==
  LET codes  == PartOf(Whole(c), "weight")
      scales == PartOf(Whole(c), "scale")
      outers == PartOf(Whole(c), "outer")
  IN  /\ ShardsOf(codes) = 0..c.parts - 1 /\ ShardsOf(scales) = 0..c.parts - 1
      /\ ShardsOf(outers) = 0..c.parts - 1
      /\ OuterScales(outers) = Range(c.outers)
      /\ PartOf(Whole(c), "buffer") = {}
      /\ \A w \in codes \cup scales : w.rows = ExpectedRows(emb, w.shard)

LEMMA WholePacked ==
  ASSUME NEW c, IsCheckpoint(c), c.method = "nvfp4", NEW emb, IsPart(emb, c)
  PROVE  PackedTensors(c, emb)
<1> DEFINE all == [vocab |-> c.vocab, parts |-> c.parts, lo |-> 0, hi |-> c.vocab]
           T(part, s, o) == [part |-> part, shard |-> s, rows |-> ExpectedRows(all, s), outer |-> o]
           D == 0..c.parts - 1
<1>1. \A s : ExpectedRows(all, s) = ExpectedRows(emb, s)
  <2>1. all.vocab = emb.vocab /\ all.parts = emb.parts
    BY DEF IsPart
  <2> HIDE DEF all
  <2> QED
    BY <2>1, SameRows
<1> HIDE DEF all
<1>2. Whole(c) = {T("weight", s, 0) : s \in D} \cup
                 ({T("scale", s, 0) : s \in D} \cup {T("outer", s, c.outers[s]) : s \in D})
  BY DEF Whole, Tensors, all
<1>3. \A part, s, o : /\ T(part, s, o).part = part /\ T(part, s, o).shard = s
                      /\ T(part, s, o).rows = ExpectedRows(emb, s) /\ T(part, s, o).outer = o
  BY <1>1
<1> HIDE DEF T
<1>4. PartOf(Whole(c), "weight") = {T("weight", s, 0) : s \in D}
  BY <1>2, <1>3 DEF PartOf
<1>5. PartOf(Whole(c), "scale") = {T("scale", s, 0) : s \in D}
  BY <1>2, <1>3 DEF PartOf
<1>6. PartOf(Whole(c), "outer") = {T("outer", s, c.outers[s]) : s \in D}
  BY <1>2, <1>3 DEF PartOf
<1>7. PartOf(Whole(c), "buffer") = {}
  BY <1>2, <1>3 DEF PartOf
<1>8. DOMAIN c.outers = D
  BY DEF IsCheckpoint
<1> HIDE DEF D
<1>9. ShardsOf(PartOf(Whole(c), "weight")) = D /\ ShardsOf(PartOf(Whole(c), "scale")) = D
  BY <1>3, <1>4, <1>5 DEF ShardsOf
<1>10. ShardsOf(PartOf(Whole(c), "outer")) = D
  BY <1>3, <1>6 DEF ShardsOf
<1>11. OuterScales(PartOf(Whole(c), "outer")) = Range(c.outers)
  BY <1>3, <1>6, <1>8 DEF OuterScales, Range
<1>12. \A w \in PartOf(Whole(c), "weight") \cup PartOf(Whole(c), "scale") :
         w.rows = ExpectedRows(emb, w.shard)
  BY <1>3, <1>4, <1>5
<1> QED
  BY <1>7, <1>9, <1>10, <1>11, <1>12, Zenon DEF PackedTensors, D

\* One call with all of a packed table.
PackedResult(c, emb) ==
  [error  |-> FALSE,
   codes  |-> CopyShards(emb, Blank(emb), 0..c.parts - 1),
   scales |-> CopyShards(emb, Blank(emb), 0..c.parts - 1),
   outer  |-> c.outers[0],
   loaded |-> {"weight", "scale", "outer"}]

LEMMA PackedCall ==
  ASSUME NEW c, IsCheckpoint(c), c.method = "nvfp4", NEW emb, IsPart(emb, c)
  PROVE  /\ Cardinality(Range(c.outers)) # 1 =>
              LoadTable(c.method, emb, EmptyTable(emb), Whole(c)) = Raise
         /\ Range(c.outers) = {c.outers[0]} =>
              LoadTable(c.method, emb, EmptyTable(emb), Whole(c)) = PackedResult(c, emb)
<1> DEFINE table  == EmptyTable(emb)
           group  == Whole(c)
           codes  == PartOf(group, "weight")
           scales == PartOf(group, "scale")
           outer0 == PartOf(group, "outer")
           outers == {w \in outer0 : w.shard \in ShardsOf(codes)}
           D      == 0..c.parts - 1
<1>1. PackedTensors(c, emb)
  BY WholePacked
<1>2. /\ ShardsOf(codes) = D /\ ShardsOf(scales) = D /\ ShardsOf(outer0) = D
      /\ OuterScales(outer0) = Range(c.outers)
      /\ PartOf(group, "buffer") = {}
      /\ \A w \in codes \cup scales : w.rows = ExpectedRows(emb, w.shard)
  BY <1>1 DEF PackedTensors
<1>3. c.parts \in Nat \ {0} /\ emb.parts = c.parts
  BY DEF IsCheckpoint, IsPart
<1>4. table = [error |-> FALSE, codes |-> Blank(emb), scales |-> Blank(emb), outer |-> Garbage,
               loaded |-> {}]
  BY Zenon DEF EmptyTable, Blank
<1>5. table.error = FALSE /\ table.codes = Blank(emb) /\ table.scales = Blank(emb) /\ table.loaded = {}
  BY <1>4
<1>6. LoadTable(c.method, emb, table, group) = LoadPacked(emb, table, group)
  <2> HIDE DEF table, group
  <2> QED
    BY <1>5 DEF LoadTable
<1>7. outers = outer0
  <2>1. \A w \in outer0 : w.shard \in ShardsOf(outer0)
    BY DEF ShardsOf
  <2> HIDE DEF outer0, codes
  <2> QED
    BY <1>2, <2>1
<1>8. ~BadBuffer(emb, group)
  BY <1>2 DEF BadBuffer
<1>9. \A w \in codes \cup scales \cup outer0 : w.shard \in D
  <2>1. \A w \in codes : w.shard \in ShardsOf(codes)
    BY DEF ShardsOf
  <2>2. \A w \in scales : w.shard \in ShardsOf(scales)
    BY DEF ShardsOf
  <2>3. \A w \in outer0 : w.shard \in ShardsOf(outer0)
    BY DEF ShardsOf
  <2> HIDE DEF codes, scales, outer0
  <2> QED
    BY <1>2, <2>1, <2>2, <2>3
<1>10. ~(\E w \in codes \cup scales \cup outer0 : w.shard >= emb.parts)
  <2>1. \A s \in D : ~(s >= emb.parts)
    BY <1>3
  <2> HIDE DEF codes, scales, outer0, D
  <2> QED
    BY <1>9, <2>1
<1>11. codes # {}
  <2>1. 0 \in D /\ ShardsOf({}) = {}
    BY <1>3 DEF ShardsOf
  <2> HIDE DEF codes
  <2> QED
    BY <1>2, <2>1
<1>12. ShardsOf(codes) \subseteq ShardsOf(scales) \cap ShardsOf(outers)
  <2> HIDE DEF codes, scales, outers, outer0
  <2> QED
    BY <1>2, <1>7
<1>13. ~WrongShape(emb, codes) /\ ~WrongShape(emb, {w \in scales : w.shard \in ShardsOf(codes)})
  <2> HIDE DEF codes, scales, outer0
  <2> QED
    BY <1>2, <1>10 DEF WrongShape
<1>14. OuterScales(outers) = Range(c.outers)
  <2> HIDE DEF outers, outer0
  <2> QED
    BY <1>2, <1>7
<1> HIDE DEF table, group
<1>15. ASSUME Cardinality(Range(c.outers)) # 1 PROVE LoadPacked(emb, table, group) = Raise
  <2>1. Cardinality(OuterScales(outers)) # 1
    <3> HIDE DEF outers
    <3> QED
      BY <1>14, <1>15, Zenon
  <2> QED
    BY <2>1, Zenon DEF LoadPacked
<1>16. ASSUME Range(c.outers) = {c.outers[0]}
       PROVE  LoadPacked(emb, table, group) = PackedResult(c, emb)
  <2>1. Cardinality(OuterScales(outers)) = 1
    <3> HIDE DEF outers
    <3> QED
      BY <1>14, <1>16, FS_Singleton
  <2>2. (CHOOSE o \in OuterScales(outers) : TRUE) = c.outers[0]
    <3> HIDE DEF outers
    <3> QED
      BY <1>14, <1>16
  <2> DEFINE newCodes  == CopyShards(emb, table.codes, ShardsOf(codes))
             newScales == CopyShards(emb, table.scales, ShardsOf(codes))
             outer     == CHOOSE o \in OuterScales(outers) : TRUE
             loaded    == table.loaded \cup {"weight", "scale", "outer"}
  <2>3. LoadPacked(emb, table, group) =
          [table EXCEPT !.codes = newCodes, !.scales = newScales, !.outer = outer, !.loaded = loaded]
    BY <1>8, <1>10, <1>11, <1>12, <1>13, <2>1 DEF LoadPacked
  <2>4. newCodes = CopyShards(emb, Blank(emb), D) /\ newScales = CopyShards(emb, Blank(emb), D)
        /\ loaded = {"weight", "scale", "outer"}
    <3> HIDE DEF codes, D
    <3> QED
      BY <1>2, <1>5
  <2> HIDE DEF newCodes, newScales, outer, loaded, codes, outers
  <2>5. LoadPacked(emb, table, group) =
          [error |-> FALSE, codes |-> newCodes, scales |-> newScales, outer |-> outer, loaded |-> loaded]
    BY <1>4, <2>3
  <2> QED
    BY <2>2, <2>4, <2>5, Zenon DEF PackedResult, D, outer
<1> QED
  BY <1>6, <1>15, <1>16 DEF table, group

LEMMA PackedLoaded ==
  ASSUME NEW c, IsCheckpoint(c), c.method = "nvfp4", NEW emb, IsPart(emb, c),
         NEW groups, Len(groups) = 1, groups[1] = Whole(c)
  PROVE  /\ LoadedTable(c.method, emb, groups) = LoadTable(c.method, emb, EmptyTable(emb), Whole(c))
         /\ RetainedScale(c.method, groups) =
              IF Cardinality(Range(c.outers)) # 1 THEN Raise
              ELSE [error |-> FALSE, outer |-> CHOOSE o \in Range(c.outers) : TRUE]
<1>1. LoadedTable(c.method, emb, groups) = LoadTable(c.method, emb, EmptyTable(emb), Whole(c))
  <2>1. PICK t : t = LoadTable(c.method, emb, EmptyTable(emb), Whole(c))
    OBVIOUS
  <2> DEFINE f == [k \in 0..1 |-> IF k = 0 THEN EmptyTable(emb) ELSE t]
  <2>2. \A k \in 0..1 : f[k] = IF k = 0 THEN EmptyTable(emb)
                               ELSE LoadTable(c.method, emb, f[k - 1], groups[k])
    BY <2>1
  <2>3. f = [k \in 0..1 |-> f[k]] /\ f[1] = t
    OBVIOUS
  <2> HIDE DEF f
  <2>4. TableSteps(f, c.method, emb, groups, 1)
    BY <2>2, <2>3 DEF TableSteps
  <2>5. 1 \in Nat /\ Len(groups) = 1
    OBVIOUS
  <2>6. LoadedTable(c.method, emb, groups) = f[1]
    <3>1. PICK g, n : g = f /\ n = 1
      OBVIOUS
    <3>2. n \in Nat /\ Len(groups) = n /\ TableSteps(g, c.method, emb, groups, n)
      BY <2>4, <2>5, <3>1
    <3>3. LoadedTable(c.method, emb, groups) = g[n]
      BY <3>2, TableOf
    <3> QED
      BY <3>1, <3>3
  <2> QED
    BY <2>1, <2>3, <2>6
<1>2. RetainedScale(c.method, groups) =
        LoadRetained(c.method, [error |-> FALSE, outer |-> Missing], Whole(c))
  <2>1. PICK start : start = [error |-> FALSE, outer |-> Missing]
    OBVIOUS
  <2>2. PICK t : t = LoadRetained(c.method, start, Whole(c))
    OBVIOUS
  <2> DEFINE f == [k \in 0..1 |-> IF k = 0 THEN start ELSE t]
  <2>3. \A k \in 0..1 : f[k] = IF k = 0 THEN start ELSE LoadRetained(c.method, f[k - 1], groups[k])
    BY <2>2
  <2>4. f = [k \in 0..1 |-> f[k]] /\ f[1] = t
    OBVIOUS
  <2> HIDE DEF f
  <2>5. f = [k \in 0..1 |-> IF k = 0 THEN start ELSE LoadRetained(c.method, f[k - 1], groups[k])]
    BY <2>3, <2>4
  <2>6. RetainedSteps(f, c.method, groups, 1)
    BY <2>1, <2>5, Zenon DEF RetainedSteps
  <2>7. 1 \in Nat /\ Len(groups) = 1
    OBVIOUS
  <2>8. RetainedScale(c.method, groups) = f[1]
    BY <2>6, <2>7, RetainedOf, Zenon
  <2> QED
    BY <2>1, <2>2, <2>4, <2>8
<1>3. OuterScales(PartOf(Whole(c), "outer")) = Range(c.outers)
  BY WholePacked DEF PackedTensors
<1>4. LoadRetained(c.method, [error |-> FALSE, outer |-> Missing], Whole(c)) =
        IF Cardinality(Range(c.outers)) # 1 THEN Raise
        ELSE [error |-> FALSE, outer |-> CHOOSE o \in Range(c.outers) : TRUE]
  <2>1. PICK start : start = [error |-> FALSE, outer |-> Missing]
    OBVIOUS
  <2>2. start.error = FALSE
    BY <2>1
  <2> DEFINE scales == OuterScales(PartOf(Whole(c), "outer"))
             outer  == CHOOSE o \in scales : TRUE
  <2>3. LoadRetained(c.method, start, Whole(c)) =
          IF Cardinality(scales) # 1 THEN Raise ELSE [start EXCEPT !.outer = outer]
    BY <2>2 DEF LoadRetained
  <2>4. outer = CHOOSE o \in Range(c.outers) : TRUE
    BY <1>3, Zenon
  <2> HIDE DEF outer, scales
  <2>5. [start EXCEPT !.outer = outer] = [error |-> FALSE, outer |-> outer]
    <3>1. \A e, m, o : [[error |-> e, outer |-> m] EXCEPT !.outer = o] = [error |-> e, outer |-> o]
      OBVIOUS
    <3> QED
      BY <2>1, <3>1, ZenonT(30)
  <2> QED
    BY <1>3, <2>1, <2>3, <2>4, <2>5, Zenon DEF scales
<1> QED
  BY <1>1, <1>2, <1>4

\* load_weights, for any checkpoint, any grouping of its tensors into calls (an
\* NVFP4 table comes in one) and any part of the table: every row dequantizes to
\* what the checkpoint says, and outer scales that differ are refused.
THEOREM TableAlwaysHolds ==
  ASSUME NEW c, IsCheckpoint(c), NEW lo \in Nat, NEW hi \in Nat, hi <= c.vocab,
         NEW groups, NEW n \in Nat, AreCalls(groups, n, c),
         c.method = "nvfp4" => n = 1 /\ groups[1] = Whole(c)
  PROVE  RowsOfCheckpoint(c, groups, lo, hi)
<1>1. PICK emb : emb = [vocab |-> c.vocab, parts |-> c.parts, lo |-> lo, hi |-> hi]
  OBVIOUS
<1>2. IsPart(emb, c) /\ emb.lo = lo /\ emb.hi = hi
  BY <1>1 DEF IsPart
<1>3. PICK table, kept : table = LoadedTable(c.method, emb, groups) /\ kept = RetainedScale(c.method, groups)
  OBVIOUS
<1>4. SUFFICES
        IF c.method = "nvfp4" /\ Cardinality(Range(c.outers)) > 1 THEN table.error /\ kept.error
        ELSE /\ ~table.error /\ ~kept.error
             /\ \A r \in lo..hi - 1, owner \in {table, kept} :
                  Dequantize(c.method, Lookup(c.method, emb, table, r), owner) =
                    Reference(c.method, r, c.outers[0])
  BY <1>1, <1>3, Zenon DEF RowsOfCheckpoint
<1>5. 0 \in 0..c.parts - 1 /\ c.outers[0] \in Nat
  BY DEF IsCheckpoint
<1>6. ASSUME NEW r \in lo..hi - 1
      PROVE  CopyShards(emb, Blank(emb), 0..c.parts - 1)[r - lo] = r
  BY <1>2, RowsCopied
<1>7. CASE c.method # "nvfp4"
  <2>1. table = PlainAfter(c, emb, Whole(c)) /\ kept = RetainedAfter(c, Whole(c))
    BY <1>2, <1>3, <1>7, PlainLoaded
  <2>2. PlainTensors(c, emb)
    BY <1>2, <1>7, WholePlain
  <2>3. ShardsOf(PartOf(Whole(c), "weight")) = 0..c.parts - 1
    BY <2>2 DEF PlainTensors, PartOf, ShardsOf
  <2>4. c.method = "fp8" => PartOf(Whole(c), "global") # {}
    BY <2>2 DEF PlainTensors, PartOf
  <2>5. table.codes = CopyShards(emb, Blank(emb), 0..c.parts - 1)
    <3>1. table.codes = CopyShards(emb, Blank(emb), ShardsOf(PartOf(Whole(c), "weight")))
      BY <2>1 DEF PlainAfter
    <3> QED
      BY <2>3, <3>1
  <2>6. table.error = FALSE /\ kept.error = FALSE
        /\ (c.method = "fp8" => table.outer = c.outers[0] /\ kept.outer = c.outers[0])
    BY <2>1, <2>4 DEF PlainAfter, RetainedAfter
  <2>7. ASSUME NEW r \in lo..hi - 1, NEW owner \in {table, kept}
        PROVE  Dequantize(c.method, Lookup(c.method, emb, table, r), owner) =
                 Reference(c.method, r, c.outers[0])
    <3>1. PICK row : row = Lookup(c.method, emb, table, r)
      OBVIOUS
    <3>2. row.codes = r /\ row.scales = Garbage /\ row.dtype = OffloadDtype(c.method, "bf16")
      BY <1>2, <1>6, <1>7, <2>5, <3>1 DEF Lookup
    <3>3. CASE c.method = "none"
      <4>1. row.dtype = "bf16"
        BY <3>2, <3>3 DEF OffloadDtype
      <4> QED
        BY <3>1, <3>2, <3>3, <4>1 DEF Dequantize, Reference
    <3>4. CASE c.method = "fp8"
      <4>1. row.dtype = "fp8"
        BY <3>2, <3>4 DEF OffloadDtype
      <4>2. owner.error = FALSE /\ owner.outer = c.outers[0] /\ owner.outer # Missing
        BY <1>5, <2>6, <3>4 DEF Missing
      <4> QED
        BY <3>1, <3>2, <3>4, <4>1, <4>2 DEF Dequantize, Reference
    <3> QED
      BY <1>7, <3>3, <3>4 DEF IsCheckpoint
  <2> QED
    BY <1>7, <2>6, <2>7
<1>8. CASE c.method = "nvfp4"
  <2>1. Len(groups) = 1 /\ groups[1] = Whole(c)
    BY <1>8 DEF AreCalls
  <2>2. table = LoadTable(c.method, emb, EmptyTable(emb), Whole(c))
    BY <1>2, <1>3, <1>8, <2>1, PackedLoaded
  <2>3. kept = IF Cardinality(Range(c.outers)) # 1 THEN Raise
               ELSE [error |-> FALSE, outer |-> CHOOSE o \in Range(c.outers) : TRUE]
    BY <1>2, <1>3, <1>8, <2>1, PackedLoaded
  <2>4. /\ Cardinality(Range(c.outers)) # 1 => table = Raise
        /\ Range(c.outers) = {c.outers[0]} => table = PackedResult(c, emb)
    BY <1>2, <1>8, <2>2, PackedCall
  <2>5. IsFiniteSet(Range(c.outers)) /\ c.outers[0] \in Range(c.outers)
    <3>1. IsFiniteSet(0..c.parts - 1)
      <4>1. 0 \in Int /\ c.parts - 1 \in Int
        BY DEF IsCheckpoint
      <4> QED
        BY <4>1, FS_Interval, Zenon
    <3>2. Range(c.outers) = {c.outers[s] : s \in 0..c.parts - 1}
      BY DEF IsCheckpoint, Range
    <3>3. IsFiniteSet({c.outers[s] : s \in 0..c.parts - 1})
      BY <3>1, ImageFinite
    <3> QED
      BY <1>5, <3>2, <3>3
  <2>6. CASE Cardinality(Range(c.outers)) > 1
    <3>1. Cardinality(Range(c.outers)) # 1
      BY <2>6
    <3>2. table = Raise /\ kept = Raise
      BY <2>3, <2>4, <3>1
    <3> QED
      BY <1>8, <2>6, <3>2 DEF Raise
  <2>7. CASE ~(Cardinality(Range(c.outers)) > 1)
    <3>1. Cardinality(Range(c.outers)) = 1
      <4>1. Cardinality(Range(c.outers)) \in Nat /\ Cardinality(Range(c.outers)) # 0
        BY <2>5, FS_CardinalityType, FS_EmptySet
      <4> QED
        BY <2>7, <4>1
    <3>2. Range(c.outers) = {c.outers[0]}
      <4>1. PICK x : Range(c.outers) = {x}
        BY <2>5, <3>1, FS_Singleton
      <4> QED
        BY <2>5, <4>1
    <3>3. table = PackedResult(c, emb)
      BY <2>4, <3>2
    <3>4. kept = [error |-> FALSE, outer |-> c.outers[0]]
      <4>1. (CHOOSE o \in Range(c.outers) : TRUE) = c.outers[0]
        BY <3>2
      <4> QED
        BY <2>3, <3>1, <4>1
    <3>5. /\ table.error = FALSE /\ kept.error = FALSE
          /\ table.outer = c.outers[0] /\ kept.outer = c.outers[0]
          /\ table.codes = CopyShards(emb, Blank(emb), 0..c.parts - 1)
          /\ table.scales = CopyShards(emb, Blank(emb), 0..c.parts - 1)
      BY <3>3, <3>4 DEF PackedResult
    <3>6. ASSUME NEW r \in lo..hi - 1, NEW owner \in {table, kept}
          PROVE  Dequantize(c.method, Lookup(c.method, emb, table, r), owner) =
                   Reference(c.method, r, c.outers[0])
      <4>1. PICK row : row = Lookup(c.method, emb, table, r)
        OBVIOUS
      <4>2. row.codes = r /\ row.scales = r
        BY <1>2, <1>6, <1>8, <3>5, <4>1 DEF Lookup
      <4>3. owner.error = FALSE /\ owner.outer = c.outers[0] /\ owner.outer # Missing
        BY <1>5, <3>5 DEF Missing
      <4> QED
        BY <1>8, <4>1, <4>2, <4>3 DEF Dequantize, Reference
    <3> QED
      BY <2>7, <3>5, <3>6
  <2> QED
    BY <2>6, <2>7
<1> QED
  BY <1>7, <1>8

\* A row is no error.
LEMMA RowsAreNoErrors ==
  ASSUME NEW codes, NEW scales, NEW outer
  PROVE  [codes |-> codes, scales |-> scales, outer |-> outer] # Raise
<1>1. DOMAIN [codes |-> codes, scales |-> scales, outer |-> outer] = {"codes", "scales", "outer"}
  OBVIOUS
<1>2. DOMAIN Raise = {"error"}
  BY DEF Raise
<1> QED
  BY <1>1, <1>2

\* Rows of any table are as wide as the worker expects, and dummy weights do.
LEMMA RowsAlwaysFit ==
  ASSUME NEW q, NEW fp8Table, NEW heads \in Nat, NEW headDim \in Nat
  PROVE  RowsFit(q, fp8Table, heads, headDim)
<1>1. PICK method : method = QuantMethod(q, fp8Table)
  OBVIOUS
<1>2. method \in {"fp8", "nvfp4", "none"}
  BY <1>1 DEF QuantMethod
<1>3. PICK row : row = [dtype |-> OffloadDtype(method, "bf16"), codes |-> 0, scales |-> 0]
  OBVIOUS
<1>4. SUFFICES ASSUME ~HeadDimRefused(method, headDim)
               PROVE  /\ OffloadDim(method, heads * headDim) = heads * RowWidth(method, headDim)
                      /\ Dequantize(method, row, DummyMetadata(method)) # Raise
  BY <1>1, <1>3, Zenon DEF RowsFit
<1>5. OffloadDim(method, heads * headDim) = heads * RowWidth(method, headDim)
  <2>1. CASE method # "nvfp4"
    BY <2>1 DEF OffloadDim, RowWidth
  <2>2. CASE method = "nvfp4"
    <3>1. headDim % 16 = 0
      BY <1>4, <2>2 DEF HeadDimRefused, BlockSize
    <3>2. PICK k \in Nat : headDim = 16 * k
      BY <3>1
    <3>3. headDim \div 2 + headDim \div 16 = 9 * k
      BY <3>2
    <3>4. PICK p \in Nat : p = heads * k
      OBVIOUS
    <3>5. heads * headDim = 16 * p
      BY <3>2, <3>4
    <3>6. (heads * headDim) \div 2 + (heads * headDim) \div 16 = 9 * p
      BY <3>5
    <3>7. heads * (9 * k) = 9 * p
      BY <3>4
    <3> QED
      BY <2>2, <3>3, <3>6, <3>7 DEF OffloadDim, RowWidth, BlockSize
  <2> QED
    BY <2>1, <2>2
<1>6. Dequantize(method, row, DummyMetadata(method)) # Raise
  <2>1. DummyMetadata(method).error = FALSE
        /\ (method # "none" => DummyMetadata(method).outer = 1)
    BY <1>2 DEF DummyMetadata
  <2>2. method = "none" => row.dtype = "bf16"
    BY <1>3 DEF OffloadDtype
  <2>3. CASE method = "none"
    <3>1. Dequantize(method, row, DummyMetadata(method)) =
            [codes |-> row.codes, scales |-> Garbage, outer |-> Garbage]
      BY <2>2, <2>3 DEF Dequantize
    <3> QED
      BY <3>1, RowsAreNoErrors
  <2>4. CASE method # "none"
    <3>1. PICK owner : owner = DummyMetadata(method)
      OBVIOUS
    <3>2. owner.error = FALSE /\ owner.outer = 1
      BY <2>1, <2>4, <3>1
    <3>3. CASE method # "nvfp4" /\ row.dtype # "fp8"
      <4>1. Dequantize(method, row, owner) = [codes |-> row.codes, scales |-> Garbage, outer |-> Garbage]
        BY <3>3 DEF Dequantize
      <4> QED
        BY <3>1, <4>1, RowsAreNoErrors
    <3>4. CASE ~(method # "nvfp4" /\ row.dtype # "fp8")
      <4>1. Dequantize(method, row, owner) = [codes |-> row.codes, scales |-> row.scales, outer |-> 1]
        BY <3>2, <3>4 DEF Dequantize, Missing
      <4> QED
        BY <3>1, <4>1, RowsAreNoErrors
    <3> QED
      BY <3>3, <3>4
  <2> QED
    BY <2>3, <2>4
<1> QED
  BY <1>5, <1>6

-----------------------------------------------------------------------------
(* The heads of the table.                                                 *)

\* The search for the prime of each head ends.  Bertrand's postulate says so;
\* SmallSizes proves it of the tables of the run only.
HeadsHaveSizes(base, layer, heads) ==
  \A h \in 0..heads - 1 : HeadSize(base, layer, heads, h) \in Nat \ {0}

OffsetSteps(f, base, layer, heads, n) ==
  f = [k \in 0..n |-> IF k = 0 THEN 0 ELSE f[k - 1] + HeadSize(base, layer, heads, k - 1)]

LEMMA OffsetOf ==
  ASSUME NEW base, NEW layer, NEW heads, NEW n \in Nat, NEW f, OffsetSteps(f, base, layer, heads, n)
  PROVE  HeadOffset(base, layer, heads, n) = f[n]
<1> DEFINE Step(g) == [k \in 0..n |-> IF k = 0 THEN 0
                                      ELSE g[k - 1] + HeadSize(base, layer, heads, k - 1)]
<1>1. f = Step(f)
  BY Zenon DEF OffsetSteps
<1>2. PICK h : h = (CHOOSE g : g = Step(g)) /\ h = Step(h)
  <2> HIDE DEF Step
  <2> QED
    BY <1>1, Zenon
<1>3. HeadOffset(base, layer, heads, n) = h[n]
  BY <1>2, Zenon DEF HeadOffset
<1> DEFINE P == {k \in 0..n : h[k] = f[k]}
<1>4. 0 \in P
  <2>1. 0 \in 0..n
    OBVIOUS
  <2>2. h[0] = 0
    BY <1>2, <2>1
  <2>3. f[0] = 0
    BY <1>1, <2>1
  <2> QED
    BY <2>1, <2>2, <2>3
<1>5. \A k \in 0..n - 1 : k \in P => k + 1 \in P
  <2>1. SUFFICES ASSUME NEW k \in 0..n - 1, k \in P PROVE k + 1 \in P
    OBVIOUS
  <2>2. k + 1 \in 0..n /\ k + 1 # 0 /\ (k + 1) - 1 = k
    OBVIOUS
  <2>3. h[k + 1] = h[k] + HeadSize(base, layer, heads, k)
    BY <1>2, <2>2
  <2>4. f[k + 1] = f[k] + HeadSize(base, layer, heads, k)
    BY <1>1, <2>2
  <2> QED
    BY <2>1, <2>2, <2>3, <2>4
<1>6. n \in 0..n
  OBVIOUS
<1> HIDE DEF P, Step
<1>7. 0..n \subseteq P
  BY <1>4, <1>5, Induction
<1> QED
  BY <1>3, <1>6, <1>7 DEF P

\* The offsets are the partial sums of the sizes.
LEMMA OffsetsAreSums ==
  ASSUME NEW base, NEW layer, NEW heads \in Nat, HeadsHaveSizes(base, layer, heads)
  PROVE  Sums(heads, [k \in 1..heads |-> HeadSize(base, layer, heads, k - 1)],
                     [k \in 1..heads + 1 |-> HeadOffset(base, layer, heads, k - 1)])
<1> DEFINE size == [h \in 0..heads - 1 |-> HeadSize(base, layer, heads, h)]
           st   == [k \in 1..heads |-> [x \in Nat |-> x + size[k - 1]]]
<1>1. size \in [0..heads - 1 -> Nat]
  BY DEF HeadsHaveSizes
<1>2. st \in [0 + 1..heads -> [Nat -> Nat]]
  <2>1. \A k \in 1..heads : size[k - 1] \in Nat
    BY <1>1
  <2> HIDE DEF size
  <2> QED
    BY <2>1
<1>3. PICK f \in [0..heads -> Nat] : Follows(f, 0, st, 0, heads)
  <2>1. 0 \in Nat /\ 0 \in Int /\ heads \in Int /\ 0 <= heads
    OBVIOUS
  <2> HIDE DEF st
  <2> QED
    BY <1>2, <2>1, RecursionFrom
<1>4. f = [k \in 0..heads |-> IF k = 0 THEN 0 ELSE st[k][f[k - 1]]]
  BY <1>3, Zenon DEF Follows
<1>5. f[0] = 0
  BY <1>4
<1>6. ASSUME NEW k \in 1..heads
      PROVE  f[k] = f[k - 1] + HeadSize(base, layer, heads, k - 1)
  <2>1. k \in 0..heads /\ k # 0 /\ k - 1 \in 0..heads /\ k - 1 \in 0..heads - 1
    OBVIOUS
  <2>2. f[k - 1] \in Nat
    BY <1>3, <2>1
  <2>3. f[k] = st[k][f[k - 1]]
    BY <1>4, <2>1
  <2>4. st[k] = [x \in Nat |-> x + size[k - 1]]
    OBVIOUS
  <2>5. size[k - 1] = HeadSize(base, layer, heads, k - 1)
    BY <2>1
  <2> HIDE DEF st, size
  <2> QED
    BY <2>2, <2>3, <2>4, <2>5
<1> HIDE DEF size, st
<1>7. ASSUME NEW n \in 0..heads
      PROVE  HeadOffset(base, layer, heads, n) = f[n]
  <2>1. PICK g : g = [k \in 0..n |-> f[k]]
    OBVIOUS
  <2>2. n \in Nat /\ n \in 0..n
    OBVIOUS
  <2>3. \A k \in 0..n : g[k] = IF k = 0 THEN 0 ELSE g[k - 1] + HeadSize(base, layer, heads, k - 1)
    <3>1. TAKE k \in 0..n
    <3>2. g[k] = f[k] /\ (k # 0 => k \in 1..heads /\ g[k - 1] = f[k - 1])
      BY <2>1
    <3>3. k # 0 => f[k] = f[k - 1] + HeadSize(base, layer, heads, k - 1)
      BY <1>6, <3>2
    <3> QED
      BY <1>5, <3>2, <3>3
  <2>4. DOMAIN g = 0..n /\ g = [k \in DOMAIN g |-> g[k]]
    BY <2>1
  <2>5. OffsetSteps(g, base, layer, heads, n)
    <3>1. g = [k \in 0..n |-> g[k]]
      BY <2>4, Zenon
    <3> QED
      BY <2>3, <3>1 DEF OffsetSteps
  <2>6. HeadOffset(base, layer, heads, n) = g[n]
    BY <2>2, <2>5, OffsetOf
  <2> QED
    BY <2>1, <2>2, <2>6
<1> DEFINE len   == [k \in 1..heads |-> HeadSize(base, layer, heads, k - 1)]
           start == [k \in 1..heads + 1 |-> HeadOffset(base, layer, heads, k - 1)]
<1>8. len \in [1..heads -> Nat]
  <2>1. \A k \in 1..heads : k - 1 \in 0..heads - 1
    OBVIOUS
  <2> QED
    BY <2>1 DEF HeadsHaveSizes
<1>9. start[1] = 0
  <2>1. 1 \in 1..heads + 1 /\ 0 \in 0..heads /\ 1 - 1 = 0
    OBVIOUS
  <2> QED
    BY <1>5, <1>7, <2>1
<1>10. ASSUME NEW k \in 1..heads
       PROVE  start[k + 1] = start[k] + len[k]
  <2>1. k \in 1..heads + 1 /\ k + 1 \in 1..heads + 1 /\ (k + 1) - 1 = k /\ k - 1 \in 0..heads /\ k \in 0..heads
    OBVIOUS
  <2>2. start[k + 1] = HeadOffset(base, layer, heads, k) /\ start[k] = HeadOffset(base, layer, heads, k - 1)
        /\ len[k] = HeadSize(base, layer, heads, k - 1)
    BY <2>1
  <2>3. start[k + 1] = f[k] /\ start[k] = f[k - 1]
    BY <1>7, <2>1, <2>2
  <2> HIDE DEF start, len
  <2> QED
    BY <1>6, <2>2, <2>3
<1> HIDE DEF start, len
<1>11. Sums(heads, len, start)
  BY <1>8, <1>9, <1>10 DEF Sums
<1> QED
  BY <1>11 DEF len, start

\* The product of a token and a multiplier fits the word.
LEMMA ProductFits ==
  ASSUME NEW hash \in Nat, NEW vocab \in Nat \ {0}, NEW maxInt \in Nat, vocab <= maxInt + 1
  PROVE  (vocab - 1) * Multiplier(hash, vocab, maxInt) <= maxInt
<1>1. PICK each \in Nat : each = maxInt \div vocab
  BY Division
<1>2. vocab * each <= maxInt
  BY <1>1, Division
<1>3. PICK half \in Nat : half = each \div 2
  <2>1. 2 \in Nat \ {0}
    OBVIOUS
  <2> QED
    BY <2>1, Division
<1>4. 2 * half <= each
  BY <1>3
<1>5. PICK bound : bound = Max({1, half})
  OBVIOUS
<1>6. bound = IF 1 >= half THEN 1 ELSE half
  BY <1>5, MaxOfTwo
<1>7. bound \in Nat \ {0}
  BY <1>6
<1>8. PICK m \in 0..bound - 1 : m = hash % bound
  BY <1>7, Division
<1>9. Multiplier(hash, vocab, maxInt) = 2 * m + 1
  BY <1>1, <1>3, <1>5, <1>8, Zenon DEF Multiplier
<1>10. CASE 1 >= half
  BY <1>6, <1>8, <1>9, <1>10
<1>11. CASE ~(1 >= half)
  <2>1. 2 * m + 1 <= each /\ 2 * m + 1 \in Nat
    BY <1>4, <1>6, <1>8, <1>11
  <2>2. PICK k \in Nat : k = 2 * m + 1
    BY <2>1
  <2>3. k * (vocab - 1) <= each * (vocab - 1) /\ each * (vocab - 1) \in Nat
    BY <2>1, <2>2, ProductGrows
  <2>4. each * (vocab - 1) <= each * vocab
    <3>1. each * (vocab - 1) = each * vocab - each /\ each * vocab \in Nat
      OBVIOUS
    <3> QED
      BY <3>1
  <2>5. each * vocab = vocab * each /\ k * (vocab - 1) = (vocab - 1) * k
    OBVIOUS
  <2>6. (vocab - 1) * k <= maxInt
    <3>1. PICK a, b, d \in Nat : a = k * (vocab - 1) /\ b = each * (vocab - 1) /\ d = each * vocab
      OBVIOUS
    <3> QED
      BY <1>2, <2>3, <2>4, <2>5, <3>1
  <2> QED
    BY <1>9, <2>2, <2>6
<1> QED
  BY <1>10, <1>11

\* Every id lies in the rows of its own head and in the padded table, whatever
\* the hash, the number of heads and the layer (forward_impl, __init__).
THEOREM IdsInOwnHead ==
  ASSUME NEW base, NEW layer, NEW heads \in Nat, HeadsHaveSizes(base, layer, heads),
         NEW divisor \in Nat \ {0}, NEW mixed \in Int, NEW hash \in Nat, NEW vocab \in Nat \ {0},
         NEW maxInt \in Nat, vocab <= maxInt + 1
  PROVE  IdsStayInHead(base, layer, heads, divisor, mixed, hash, vocab, maxInt)
<1>1. PICK len, start : /\ len = [k \in 1..heads |-> HeadSize(base, layer, heads, k - 1)]
                        /\ start = [k \in 1..heads + 1 |-> HeadOffset(base, layer, heads, k - 1)]
  OBVIOUS
<1>2. Sums(heads, len, start)
  BY <1>1, OffsetsAreSums
<1>3. \A k \in 1..heads + 1 : start[k] \in Nat
  BY <1>2, SumsAreNat
<1>4. \A h \in 0..heads : h + 1 \in 1..heads + 1 /\ start[h + 1] = HeadOffset(base, layer, heads, h)
  <2>1. TAKE h \in 0..heads
  <2>2. h + 1 \in 1..heads + 1 /\ (h + 1) - 1 = h
    OBVIOUS
  <2> QED
    BY <1>1, <2>2
<1>5. \A h \in 0..heads : HeadOffset(base, layer, heads, h) \in Nat
  BY <1>3, <1>4
<1>6. PICK rows \in Nat : rows = HeadOffset(base, layer, heads, heads)
  BY <1>5
<1>7. PICK padded : padded = PaddedVocab(base, layer, heads, divisor)
  OBVIOUS
<1>8. padded \in Nat /\ rows <= padded /\ padded % divisor = 0
  <2>1. PICK q : q = (rows + divisor - 1) \div divisor
    OBVIOUS
  <2>2. q \in Nat /\ rows + divisor - 1 < divisor * q + divisor
    <3>1. rows + divisor - 1 \in Nat
      OBVIOUS
    <3> QED
      BY <2>1, <3>1, Division
  <2>3. padded = q * divisor
    BY <1>6, <1>7, <2>1 DEF PaddedVocab
  <2>4. q * divisor = divisor * q /\ q * divisor \in Nat
    BY <2>2
  <2>5. padded % divisor = 0
    BY <2>2, <2>3
  <2>6. padded \in Nat /\ rows < padded + 1
    <3>1. divisor * q = padded /\ padded \in Nat
      BY <2>3, <2>4
    <3> QED
      BY <2>2, <3>1
  <2> QED
    BY <2>5, <2>6
<1>9. (vocab - 1) * Multiplier(hash, vocab, maxInt) <= maxInt
  BY ProductFits
<1>10. ASSUME NEW h \in 0..heads - 1
       PROVE  /\ NgramId(mixed, base, layer, heads, h) \in 0..padded - 1
              /\ \A k \in 0..heads - 1 \ {h} :
                   NgramId(mixed, base, layer, heads, h) \notin
                     HeadOffset(base, layer, heads, k)..HeadOffset(base, layer, heads, k + 1) - 1
  <2>1. PICK size \in Nat \ {0} : size = HeadSize(base, layer, heads, h)
    BY DEF HeadsHaveSizes
  <2>2. PICK from \in Nat : from = HeadOffset(base, layer, heads, h)
    BY <1>5
  <2>3. PICK r \in 0..size - 1 : r = mixed % size
    OBVIOUS
  <2>4. NgramId(mixed, base, layer, heads, h) = r + from
    BY <2>1, <2>2, <2>3, Zenon DEF NgramId
  <2>5. h + 1 \in 1..heads /\ (h + 1) - 1 = h
    OBVIOUS
  <2>6. start[h + 1] = from /\ len[h + 1] = size
    BY <1>1, <1>4, <2>1, <2>2, <2>5
  <2>7. \A k \in 1..heads + 1 : h + 1 < k => from + size <= start[k]
    BY <1>2, <2>5, <2>6, SumsGrow
  <2>8. from + size <= rows
    BY <1>4, <1>6, <2>5, <2>7
  <2>9. r + from \in 0..padded - 1
    BY <1>8, <2>8
  <2>10. ASSUME NEW k \in 0..heads - 1 \ {h}
         PROVE  r + from \notin HeadOffset(base, layer, heads, k)..HeadOffset(base, layer, heads, k + 1) - 1
    <3>1. k + 1 \in 1..heads /\ k + 1 \in 0..heads /\ (k + 1) + 1 \in 1..heads + 1 /\ k \in 0..heads
      OBVIOUS
    <3>2. PICK lo, hi : lo = HeadOffset(base, layer, heads, k) /\ hi = HeadOffset(base, layer, heads, k + 1)
      OBVIOUS
    <3>3. lo \in Nat /\ hi \in Nat /\ start[k + 1] = lo /\ start[(k + 1) + 1] = hi
      BY <1>4, <1>5, <3>1, <3>2
    <3>4. CASE k < h
      <4>1. k + 1 < h + 1 /\ h + 1 \in 1..heads + 1
        BY <3>4, <2>5
      <4>2. start[k + 1] + len[k + 1] <= start[h + 1]
        BY <1>2, <3>1, <4>1, SumsGrow
      <4>3. hi = start[k + 1] + len[k + 1]
        BY <1>2, <3>1, <3>3 DEF Sums
      <4>4. hi <= from
        BY <2>6, <4>2, <4>3
      <4> QED
        BY <3>2, <3>3, <4>4
    <3>5. CASE h < k
      <4>1. h + 1 < k + 1 /\ k + 1 \in 1..heads + 1
        BY <3>1, <3>5
      <4>2. from + size <= lo
        BY <2>7, <3>3, <4>1
      <4> QED
        BY <3>2, <3>3, <4>2
    <3> QED
      BY <3>4, <3>5
  <2> QED
    BY <2>4, <2>9, <2>10
<1> QED
  BY <1>7, <1>8, <1>9, <1>10 DEF IdsStayInHead

-----------------------------------------------------------------------------
(* Miller-Rabin: what is accepted, every prime.                            *)

\* One squaring of PowMod: what it makes of the value at half the exponent.
Squared(h, x, b, p) ==
  IF x % 2 = 0 THEN (h * h) % p ELSE ((h * h) % p) * (b % p) % p

\* The power at x from the power at half of x.
LEMMA SquareStep ==
  ASSUME NEW p \in Nat \ {0}, p >= 2, NEW b \in Nat, NEW n \in Nat, NEW f, Powers(f, p, b, n),
         NEW x \in 1..n
  PROVE  f[x] = Squared(f[x \div 2], x, b, p)
<1>1. PICK h \in 0..n : h = x \div 2
  OBVIOUS
<1>2. x = h + h \/ (x = h + h + 1 /\ h + h \in 0..n - 1)
  BY <1>1
<1>3. h \in Nat /\ h + h \in Nat /\ h + h <= n
  BY <1>1, <1>2
<1>4. f[h + h] = Mul(p, f[h], f[h])
  BY <1>3, PowersAdd
<1>5. CASE x = h + h
  <2>1. x % 2 = 0
    BY <1>5, <1>3
  <2> QED
    BY <1>1, <1>4, <1>5, <2>1 DEF Squared, Mul
<1>6. CASE x = h + h + 1 /\ h + h \in 0..n - 1
  <2>1. x % 2 = 1
    BY <1>6, <1>3
  <2>2. PICK y \in Nat : y = f[h + h]
    <3>1. h + h \in 0..n
      BY <1>6
    <3> QED
      BY <3>1 DEF Powers
  <2>3. f[x] = Mul(p, y, b)
    BY <1>6, <2>2 DEF Powers
  <2>4. Mul(p, y, b % p) = Mul(p, y, b)
    BY MulLaws
  <2>5. y = (f[h] * f[h]) % p
    BY <1>4, <2>2 DEF Mul
  <2>6. f[x] = (y * (b % p)) % p
    BY <2>3, <2>4 DEF Mul
  <2> QED
    BY <1>1, <2>1, <2>5, <2>6 DEF Squared
<1> QED
  BY <1>2, <1>5, <1>6

\* pow(base, exponent, value) is the power modulo value.
LEMMA PowModIsPower ==
  ASSUME NEW p \in Nat \ {0}, p >= 2, NEW b \in Nat, NEW n \in Nat, NEW f, Powers(f, p, b, n),
         NEW e \in 0..n
  PROVE  PowMod(b, e, p) = f[e]
<1> DEFINE Step(g) == [x \in 0..e |-> IF x = 0 THEN 1
                         ELSE LET h == g[x \div 2]
                              IN  IF x % 2 = 0 THEN (h * h) % p
                                  ELSE ((h * h) % p) * (b % p) % p]
           g == [x \in 0..e |-> f[x]]
<1>1. \A x \in 0..e : x # 0 => x \div 2 \in 0..x - 1 /\ x \div 2 \in 0..e /\ x \in 1..n
  OBVIOUS
<1>2. ASSUME NEW x \in 0..e
      PROVE  g[x] = IF x = 0 THEN 1 ELSE Squared(g[x \div 2], x, b, p)
  <2>1. CASE x = 0
    BY <2>1 DEF Powers
  <2>2. CASE x # 0
    <3>1. f[x] = Squared(f[x \div 2], x, b, p)
      BY <1>1, <2>2, SquareStep
    <3>2. g[x] = f[x] /\ g[x \div 2] = f[x \div 2]
      BY <1>1, <2>2
    <3> QED
      BY <2>2, <3>1, <3>2
  <2> QED
    BY <2>1, <2>2
<1>3. g = Step(g)
  <2>1. PICK gg : gg = g
    OBVIOUS
  <2>2. gg = [x \in 0..e |-> gg[x]]
    BY <2>1
  <2>3. \A x \in 0..e : gg[x] = IF x = 0 THEN 1 ELSE Squared(gg[x \div 2], x, b, p)
    BY <1>2, <2>1
  <2> HIDE DEF g
  <2>4. gg = [x \in 0..e |-> IF x = 0 THEN 1 ELSE Squared(gg[x \div 2], x, b, p)]
    BY <2>2, <2>3
  <2>5. gg = Step(gg)
    BY <2>4, Zenon DEF Squared
  <2> QED
    BY <2>1, <2>5
<1>4. PICK h : h = (CHOOSE u : u = Step(u)) /\ h = Step(h)
  <2> HIDE DEF Step, g
  <2> QED
    BY <1>3, Zenon
<1>5. PowMod(b, e, p) = h[e]
  BY <1>4, Zenon DEF PowMod
<1>6. h = [x \in 0..e |-> IF x = 0 THEN 1 ELSE Squared(h[x \div 2], x, b, p)]
  BY <1>4, Zenon DEF Squared
<1> HIDE DEF Step
<1> DEFINE P == {k \in 0..e : \A j \in 0..k : h[j] = g[j]}
<1>7. 0 \in P
  <2>1. 0 \in 0..e /\ \A j \in 0..0 : j = 0
    OBVIOUS
  <2>2. h[0] = 1 /\ g[0] = 1
    BY <1>2, <1>6, <2>1
  <2> QED
    BY <2>1, <2>2
<1>8. ASSUME NEW k \in 0..e - 1, k \in P
      PROVE  k + 1 \in P
  <2>1. k + 1 \in 0..e /\ k + 1 # 0 /\ \A j \in 0..k + 1 : j \in 0..k \/ j = k + 1
    OBVIOUS
  <2>2. (k + 1) \div 2 \in 0..k
    OBVIOUS
  <2>3. h[(k + 1) \div 2] = g[(k + 1) \div 2]
    BY <1>8, <2>2
  <2>4. h[k + 1] = Squared(h[(k + 1) \div 2], k + 1, b, p)
    BY <1>6, <2>1
  <2>5. g[k + 1] = Squared(g[(k + 1) \div 2], k + 1, b, p)
    BY <1>2, <2>1
  <2>6. h[k + 1] = g[k + 1]
    BY <2>3, <2>4, <2>5
  <2> HIDE DEF g
  <2> QED
    BY <1>8, <2>1, <2>6
<1>9. e \in Nat /\ e \in 0..e
  OBVIOUS
<1> HIDE DEF P, g
<1>10. 0..e \subseteq P
  BY <1>7, <1>8, <1>9, Induction
<1>11. h[e] = g[e]
  BY <1>9, <1>10 DEF P
<1> QED
  BY <1>5, <1>9, <1>11 DEF g

LEMMA DoublingOfTwo ==
  ASSUME NEW r \in 0..14
  PROVE  2 ^ (r + 1) = 2 * 2 ^ r
<1>1. ASSUME r = 0 PROVE 2 ^ (r + 1) = 2 * 2 ^ r
  <2>1. 2 ^ 0 = 1 /\ 2 ^ 1 = 2 /\ r + 1 = 1 /\ 2 * 1 = 2
    BY <1>1
  <2> QED
    BY <1>1, <2>1
<1>2. ASSUME r = 1 PROVE 2 ^ (r + 1) = 2 * 2 ^ r
  <2>1. 2 ^ 1 = 2 /\ 2 ^ 2 = 4 /\ r + 1 = 2 /\ 2 * 2 = 4
    BY <1>2
  <2> QED
    BY <1>2, <2>1
<1>3. ASSUME r = 2 PROVE 2 ^ (r + 1) = 2 * 2 ^ r
  <2>1. 2 ^ 2 = 4 /\ 2 ^ 3 = 8 /\ r + 1 = 3 /\ 2 * 4 = 8
    BY <1>3
  <2> QED
    BY <1>3, <2>1
<1>4. ASSUME r = 3 PROVE 2 ^ (r + 1) = 2 * 2 ^ r
  <2>1. 2 ^ 3 = 8 /\ 2 ^ 4 = 16 /\ r + 1 = 4 /\ 2 * 8 = 16
    BY <1>4
  <2> QED
    BY <1>4, <2>1
<1>5. ASSUME r = 4 PROVE 2 ^ (r + 1) = 2 * 2 ^ r
  <2>1. 2 ^ 4 = 16 /\ 2 ^ 5 = 32 /\ r + 1 = 5 /\ 2 * 16 = 32
    BY <1>5
  <2> QED
    BY <1>5, <2>1
<1>6. ASSUME r = 5 PROVE 2 ^ (r + 1) = 2 * 2 ^ r
  <2>1. 2 ^ 5 = 32 /\ 2 ^ 6 = 64 /\ r + 1 = 6 /\ 2 * 32 = 64
    BY <1>6
  <2> QED
    BY <1>6, <2>1
<1>7. ASSUME r = 6 PROVE 2 ^ (r + 1) = 2 * 2 ^ r
  <2>1. 2 ^ 6 = 64 /\ 2 ^ 7 = 128 /\ r + 1 = 7 /\ 2 * 64 = 128
    BY <1>7
  <2> QED
    BY <1>7, <2>1
<1>8. ASSUME r = 7 PROVE 2 ^ (r + 1) = 2 * 2 ^ r
  <2>1. 2 ^ 7 = 128 /\ 2 ^ 8 = 256 /\ r + 1 = 8 /\ 2 * 128 = 256
    BY <1>8
  <2> QED
    BY <1>8, <2>1
<1>9. ASSUME r = 8 PROVE 2 ^ (r + 1) = 2 * 2 ^ r
  <2>1. 2 ^ 8 = 256 /\ 2 ^ 9 = 512 /\ r + 1 = 9 /\ 2 * 256 = 512
    BY <1>9
  <2> QED
    BY <1>9, <2>1
<1>10. ASSUME r = 9 PROVE 2 ^ (r + 1) = 2 * 2 ^ r
  <2>1. 2 ^ 9 = 512 /\ 2 ^ 10 = 1024 /\ r + 1 = 10 /\ 2 * 512 = 1024
    BY <1>10
  <2> QED
    BY <1>10, <2>1
<1>11. ASSUME r = 10 PROVE 2 ^ (r + 1) = 2 * 2 ^ r
  <2>1. 2 ^ 10 = 1024 /\ 2 ^ 11 = 2048 /\ r + 1 = 11 /\ 2 * 1024 = 2048
    BY <1>11
  <2> QED
    BY <1>11, <2>1
<1>12. ASSUME r = 11 PROVE 2 ^ (r + 1) = 2 * 2 ^ r
  <2>1. 2 ^ 11 = 2048 /\ 2 ^ 12 = 4096 /\ r + 1 = 12 /\ 2 * 2048 = 4096
    BY <1>12
  <2> QED
    BY <1>12, <2>1
<1>13. ASSUME r = 12 PROVE 2 ^ (r + 1) = 2 * 2 ^ r
  <2>1. 2 ^ 12 = 4096 /\ 2 ^ 13 = 8192 /\ r + 1 = 13 /\ 2 * 4096 = 8192
    BY <1>13
  <2> QED
    BY <1>13, <2>1
<1>14. ASSUME r = 13 PROVE 2 ^ (r + 1) = 2 * 2 ^ r
  <2>1. 2 ^ 13 = 8192 /\ 2 ^ 14 = 16384 /\ r + 1 = 14 /\ 2 * 8192 = 16384
    BY <1>14
  <2> QED
    BY <1>14, <2>1
<1>15. ASSUME r = 14 PROVE 2 ^ (r + 1) = 2 * 2 ^ r
  <2>1. 2 ^ 14 = 16384 /\ 2 ^ 15 = 32768 /\ r + 1 = 15 /\ 2 * 16384 = 32768
    BY <1>15
  <2> QED
    BY <1>15, <2>1
<1>16. r \in {0, 1, 2, 3, 4, 5, 6, 7, 8, 9, 10, 11, 12, 13, 14}
  OBVIOUS
<1> QED
  BY <1>1, <1>2, <1>3, <1>4, <1>5, <1>6, <1>7, <1>8, <1>9, <1>10, <1>11, <1>12, <1>13, <1>14, <1>15, <1>16

LEMMA TwoPowers ==
  ASSUME NEW s \in 0..15
  PROVE  2 ^ 0 = 1 /\ 2 ^ s \in Nat \ {0}
<1>1. 2 ^ 0 = 1
  OBVIOUS
<1> DEFINE P == {k \in 0..15 : 2 ^ k \in Nat \ {0}}
<1>2. 0 \in P
  BY <1>1
<1>3. ASSUME NEW k \in 0..15 - 1, k \in P
      PROVE  k + 1 \in P
  <2>1. k \in 0..14 /\ k + 1 \in 0..15
    OBVIOUS
  <2>2. PICK x \in Nat \ {0} : x = 2 ^ k
    BY <1>3
  <2>3. 2 ^ (k + 1) = 2 * 2 ^ k
    BY <2>1, DoublingOfTwo
  <2>4. 2 ^ (k + 1) = 2 * x
    BY <2>2, <2>3
  <2> QED
    BY <2>1, <2>4
<1>4. 15 \in Nat
  OBVIOUS
<1> HIDE DEF P
<1>5. 0..15 \subseteq P
  BY <1>2, <1>3, <1>4, Induction
<1> QED
  BY <1>1, <1>5 DEF P

\* What the test asks of one base, given the halvings of value - 1.
Passed(base, exponent, shifts, value) ==
  \/ base % value = 0
  \/ PowMod(base, exponent, value) = 1
  \/ \E r \in 0..shifts - 1 : PowMod(base, exponent * 2 ^ r, value) = value - 1

Halved(exponent, shifts, value) ==
  exponent \in Nat /\ shifts \in 0..15 /\ exponent * 2 ^ shifts = value - 1

LEMMA Halvings ==
  ASSUME NEW value \in Nat, value >= 2
  PROVE  \E shifts, exponent :
           /\ Halved(exponent, shifts, value)
           /\ MillerRabin(value) <=> \A base \in Bases : Passed(base, exponent, shifts, value)
<1> DEFINE S == {s \in 0..15 : (value - 1) % (2 ^ s) = 0}
<1>1. 0 \in S
  <2>1. 2 ^ 0 = 1 /\ (value - 1) % 1 = 0 /\ 0 \in 0..15
    OBVIOUS
  <2> QED
    BY <2>1
<1>2. S \in SUBSET Int /\ IsFiniteSet(S)
  <2>1. 0 \in Int /\ 15 \in Int
    OBVIOUS
  <2>2. IsFiniteSet(0..15)
    BY <2>1, FS_Interval, Zenon
  <2> QED
    BY <2>2, FS_Subset
<1>3. PICK shifts : shifts = Max(S)
  OBVIOUS
<1>4. shifts \in S
  <2> HIDE DEF S
  <2> QED
    BY <1>1, <1>2, <1>3, MaxOfFinite
<1>5. PICK two \in Nat \ {0} : two = 2 ^ shifts
  BY <1>4, TwoPowers
<1>6. PICK m \in Nat : m = value - 1
  OBVIOUS
<1>7. PICK exponent : exponent = m \div two
  OBVIOUS
<1>8. exponent \in Nat /\ m = two * exponent
  <2>1. m % two = 0
    BY <1>4, <1>5, <1>6
  <2>2. exponent \in Nat /\ m = two * exponent + (m % two) /\ two * exponent \in Nat
    BY <1>7, Division
  <2> QED
    BY <2>1, <2>2
<1>9. exponent * 2 ^ shifts = value - 1
  <2>1. exponent * two = two * exponent
    BY <1>8
  <2> QED
    BY <1>5, <1>6, <1>8, <2>1
<1>10. Halved(exponent, shifts, value)
  BY <1>4, <1>8, <1>9 DEF Halved
<1>11. MillerRabin(value) <=> \A base \in Bases : Passed(base, exponent, shifts, value)
  <2>1. exponent = (value - 1) \div (2 ^ shifts)
    BY <1>5, <1>6, <1>7
  <2> QED
    BY <1>3, <2>1, Zenon DEF MillerRabin, Passed
<1> QED
  BY <1>10, <1>11

\* The powers the test looks at: each is the square of the one before.
LEMMA Squarings ==
  ASSUME NEW value \in Nat, value >= 2, NEW e, NEW s, Halved(e, s, value),
         NEW b \in Nat, NEW f, Powers(f, value, b, value - 1)
  PROVE  /\ \A r \in 0..s : e * 2 ^ r \in 0..value - 1 /\ f[e * 2 ^ r] \in 0..value - 1
         /\ \A r \in 0..s - 1 : f[e * 2 ^ (r + 1)] = Mul(value, f[e * 2 ^ r], f[e * 2 ^ r])
<1>1. e \in Nat /\ s \in 0..15 /\ s \in Nat /\ e * 2 ^ s = value - 1
  BY DEF Halved
<1>2. ASSUME NEW r \in 0..s
      PROVE  2 ^ r \in Nat /\ e * 2 ^ r \in Nat
  <2>1. r \in 0..15
    BY <1>1
  <2>2. PICK x \in Nat : x = 2 ^ r
    BY <2>1, TwoPowers
  <2> QED
    BY <1>1, <2>2
<1>3. ASSUME NEW r \in 0..s - 1
      PROVE  e * 2 ^ (r + 1) = e * 2 ^ r + e * 2 ^ r
  <2>1. r \in 0..14 /\ r \in 0..s
    BY <1>1
  <2>2. 2 ^ (r + 1) = 2 * 2 ^ r
    BY <2>1, DoublingOfTwo
  <2>3. PICK x \in Nat : x = 2 ^ r
    BY <1>2, <2>1
  <2>4. e * (2 * x) = e * x + e * x
    BY <1>1
  <2> QED
    BY <2>2, <2>3, <2>4
<1> DEFINE P == {j \in 0..s : e * 2 ^ (s - j) \in 0..value - 1}
<1>4. 0 \in P
  <2>1. s - 0 = s /\ 0 \in 0..s
    BY <1>1
  <2> QED
    BY <1>1, <2>1
<1>5. ASSUME NEW j \in 0..s - 1, j \in P
      PROVE  j + 1 \in P
  <2>1. s - (j + 1) \in 0..s - 1 /\ (s - (j + 1)) + 1 = s - j /\ s - (j + 1) \in 0..s /\ j + 1 \in 0..s
    BY <1>1
  <2>2. PICK r \in 0..s - 1 : r = s - (j + 1)
    BY <2>1
  <2>3. r + 1 = s - j /\ r \in 0..s
    BY <2>1, <2>2
  <2>4. PICK y \in Nat : y = e * 2 ^ r
    BY <1>2, <2>3
  <2>5. e * 2 ^ (r + 1) = y + y
    BY <1>3, <2>4
  <2>6. y + y \in 0..value - 1
    BY <1>5, <2>3, <2>5
  <2>7. y \in 0..value - 1
    BY <2>6
  <2> QED
    BY <2>1, <2>2, <2>4, <2>7
<1>6. ASSUME NEW r \in 0..s
      PROVE  e * 2 ^ r \in 0..value - 1
  <2>1. PICK j \in 0..s : s - j = r
    <3>1. s - r \in 0..s /\ s - (s - r) = r
      BY <1>1
    <3> QED
      BY <3>1
  <2> HIDE DEF P
  <2>2. 0..s \subseteq P
    BY <1>1, <1>4, <1>5, Induction
  <2>3. e * 2 ^ (s - j) \in 0..value - 1
    BY <2>1, <2>2 DEF P
  <2> QED
    BY <2>1, <2>3
<1>7. ASSUME NEW r \in 0..s
      PROVE  f[e * 2 ^ r] \in 0..value - 1
  <2>1. PICK y \in 0..value - 1 : y = e * 2 ^ r
    BY <1>6
  <2> QED
    BY <2>1 DEF Powers
<1>8. ASSUME NEW r \in 0..s - 1
      PROVE  f[e * 2 ^ (r + 1)] = Mul(value, f[e * 2 ^ r], f[e * 2 ^ r])
  <2>1. r \in 0..s /\ r + 1 \in 0..s
    BY <1>1
  <2>2. PICK y \in Nat : y = e * 2 ^ r
    BY <1>2, <2>1
  <2>3. e * 2 ^ (r + 1) = y + y
    BY <1>3, <2>2
  <2>4. y + y <= value - 1
    <3>1. e * 2 ^ (r + 1) \in 0..value - 1
      BY <1>6, <2>1
    <3> QED
      BY <2>3, <3>1
  <2>5. value \in Nat \ {0} /\ value - 1 \in Nat
    OBVIOUS
  <2>6. f[y + y] = Mul(value, f[y], f[y])
    BY <2>4, <2>5, PowersAdd
  <2> QED
    BY <2>2, <2>3, <2>6
<1> QED
  BY <1>6, <1>7, <1>8

\* A prime passes for every base: going down from Fermat's 1, the square root
\* of 1 is 1 or -1.
LEMMA PrimePasses ==
  ASSUME NEW p, Prime(p), NEW e, NEW s, Halved(e, s, p), NEW b \in Nat
  PROVE  Passed(b, e, s, p)
<1>1. p \in Nat \ {0} /\ p >= 2 /\ p - 1 \in Nat /\ s \in Nat /\ s \in 0..15 /\ e * 2 ^ s = p - 1
  BY DEF Prime, Halved
<1>2. PICK f : Powers(f, p, b, p - 1)
  BY <1>1, PowersExist
<1>3. SUFFICES ASSUME b % p # 0 PROVE Passed(b, e, s, p)
  BY DEF Passed
<1>4. /\ \A r \in 0..s : e * 2 ^ r \in 0..p - 1 /\ f[e * 2 ^ r] \in 0..p - 1
      /\ \A r \in 0..s - 1 : f[e * 2 ^ (r + 1)] = Mul(p, f[e * 2 ^ r], f[e * 2 ^ r])
  BY <1>1, <1>2, Squarings
<1> DEFINE P == {j \in 0..s : \/ f[e * 2 ^ (s - j)] = 1
                              \/ \E r \in 0..s - 1 : f[e * 2 ^ r] = p - 1}
<1>5. 0 \in P
  <2>1. s - 0 = s /\ 0 \in 0..s
    BY <1>1
  <2>2. f[p - 1] = 1
    BY <1>2, <1>3, Fermat
  <2> QED
    BY <1>1, <2>1, <2>2
<1>6. ASSUME NEW j \in 0..s - 1, j \in P
      PROVE  j + 1 \in P
  <2>1. s - (j + 1) \in 0..s - 1 /\ (s - (j + 1)) + 1 = s - j /\ s - (j + 1) \in 0..s /\ j + 1 \in 0..s
    BY <1>1
  <2>2. PICK r \in 0..s - 1 : r = s - (j + 1)
    BY <2>1
  <2>3. r + 1 = s - j /\ r \in 0..s
    BY <2>1, <2>2
  <2>4. CASE f[e * 2 ^ (s - j)] = 1
    <3>1. PICK y \in 0..p - 1 : y = f[e * 2 ^ r]
      BY <1>4, <2>3
    <3>2. f[e * 2 ^ (r + 1)] = Mul(p, y, y)
      BY <1>4, <3>1
    <3>3. Mul(p, y, y) = 1
      BY <2>3, <2>4, <3>2
    <3>4. y = 1 \/ y = p - 1
      BY <3>3, RootsOfOne
    <3> QED
      BY <2>1, <2>2, <3>1, <3>4
  <2>5. CASE \E q \in 0..s - 1 : f[e * 2 ^ q] = p - 1
    BY <2>1, <2>5
  <2> QED
    BY <1>6, <2>4, <2>5
<1>7. s \in P
  <2>1. s \in 0..s
    BY <1>1
  <2> HIDE DEF P
  <2> QED
    BY <1>1, <1>5, <1>6, <2>1, Induction
<1>8. PICK u : u = e * 2 ^ 0
  OBVIOUS
<1>9. u = e
  <2>1. 2 ^ 0 = 1 /\ e \in Nat
    BY DEF Halved
  <2> QED
    BY <1>8, <2>1
<1>10. f[e] = 1 \/ \E r \in 0..s - 1 : f[e * 2 ^ r] = p - 1
  <2>1. s - s = 0
    BY <1>1
  <2>2. f[e * 2 ^ 0] = 1 \/ \E r \in 0..s - 1 : f[e * 2 ^ r] = p - 1
    BY <1>7, <2>1
  <2> QED
    BY <1>8, <1>9, <2>2
<1>11. CASE f[e] = 1
  <2>1. e \in 0..p - 1
    <3>1. 0 \in 0..s
      BY <1>1
    <3>2. e * 2 ^ 0 \in 0..p - 1
      BY <1>4, <3>1
    <3> QED
      BY <1>8, <1>9, <3>2
  <2>2. PowMod(b, e, p) = f[e]
    BY <1>1, <1>2, <2>1, PowModIsPower
  <2> QED
    BY <1>11, <2>2 DEF Passed
<1>12. ASSUME NEW r \in 0..s - 1, f[e * 2 ^ r] = p - 1
       PROVE  Passed(b, e, s, p)
  <2>1. r \in 0..s
    BY <1>1
  <2>2. PICK y \in 0..p - 1 : y = e * 2 ^ r
    BY <1>4, <2>1
  <2>3. PowMod(b, y, p) = f[y]
    BY <1>1, <1>2, PowModIsPower
  <2>4. PowMod(b, e * 2 ^ r, p) = p - 1
    BY <1>12, <2>2, <2>3
  <2> QED
    BY <2>4 DEF Passed
<1> QED
  BY <1>10, <1>11, <1>12

\* ... and what passes for a base satisfies Fermat's congruence for it.
LEMMA PassedIsFermat ==
  ASSUME NEW v \in Nat, v >= 3, NEW e, NEW s, Halved(e, s, v), NEW b \in Nat, b % v # 0,
         Passed(b, e, s, v), NEW f, Powers(f, v, b, v - 1)
  PROVE  f[v - 1] = 1
<1>1. v \in Nat \ {0} /\ v >= 2 /\ v - 1 \in Nat /\ s \in Nat /\ s \in 0..15 /\ e * 2 ^ s = v - 1
  BY DEF Halved
<1>2. /\ \A r \in 0..s : e * 2 ^ r \in 0..v - 1 /\ f[e * 2 ^ r] \in 0..v - 1
      /\ \A r \in 0..s - 1 : f[e * 2 ^ (r + 1)] = Mul(v, f[e * 2 ^ r], f[e * 2 ^ r])
  BY <1>1, Squarings
<1>3. \A k \in 0..v - 1 : PowMod(b, k, v) = f[k]
  BY <1>1, PowModIsPower
<1>4. PICK q \in 0..s : f[e * 2 ^ q] = 1
  <2>1. CASE PowMod(b, e, v) = 1
    <3>1. e * 2 ^ 0 = e
      <4>1. 2 ^ 0 = 1 /\ e \in Nat
        BY DEF Halved
      <4> QED
        BY <4>1
    <3>2. 0 \in 0..s
      BY <1>1
    <3>3. e \in 0..v - 1
      <4>1. e * 2 ^ 0 \in 0..v - 1
        BY <1>2, <3>2
      <4> QED
        BY <3>1, <4>1
    <3> QED
      BY <1>3, <2>1, <3>1, <3>2, <3>3
  <2>2. ASSUME NEW r \in 0..s - 1, PowMod(b, e * 2 ^ r, v) = v - 1
        PROVE  \E q \in 0..s : f[e * 2 ^ q] = 1
    <3>1. r \in 0..s /\ r + 1 \in 0..s
      BY <1>1
    <3>2. PICK y \in 0..v - 1 : y = e * 2 ^ r
      BY <1>2, <3>1
    <3>3. f[e * 2 ^ r] = v - 1
      BY <1>3, <2>2, <3>2
    <3>4. f[e * 2 ^ (r + 1)] = Mul(v, v - 1, v - 1)
      BY <1>2, <3>3
    <3>5. (v - 1) * (v - 1) = v * (v - 2) + 1 /\ v - 2 \in Nat
      OBVIOUS
    <3>6. PICK k \in Nat : k = v - 2
      BY <3>5
    <3>7. (v * k + 1) % v = 1 % v /\ 1 % v = 1
      <4>1. 1 \in Nat /\ 1 % v = 1
        BY <1>1
      <4> QED
        BY <1>1, <4>1, ShiftMod
    <3> QED
      BY <3>1, <3>4, <3>5, <3>6, <3>7 DEF Mul
  <2> QED
    BY <2>1, <2>2 DEF Passed
<1> DEFINE P == {j \in 0..s : q <= j => f[e * 2 ^ j] = 1}
<1>5. 0 \in P
  <2>1. 0 \in 0..s /\ (q <= 0 => q = 0)
    BY <1>1
  <2> QED
    BY <1>4, <2>1
<1>6. ASSUME NEW j \in 0..s - 1, j \in P
      PROVE  j + 1 \in P
  <2>1. j + 1 \in 0..s /\ (q <= j + 1 => q <= j \/ q = j + 1)
    BY <1>1
  <2>2. CASE q <= j
    <3>1. f[e * 2 ^ (j + 1)] = Mul(v, 1, 1)
      BY <1>2, <1>6, <2>2
    <3>2. Mul(v, 1, 1) = 1
      <4>1. 1 \in 0..v - 1
        BY <1>1
      <4> QED
        BY <1>1, <4>1, MulOne
    <3> QED
      BY <2>1, <3>1, <3>2
  <2>3. CASE q = j + 1
    BY <1>4, <2>1, <2>3
  <2>4. CASE ~(q <= j + 1)
    BY <2>1, <2>4
  <2> QED
    BY <2>1, <2>2, <2>3, <2>4
<1>7. f[e * 2 ^ s] = 1
  <2>1. s \in 0..s /\ q <= s
    BY <1>1
  <2> HIDE DEF P
  <2>2. 0..s \subseteq P
    BY <1>1, <1>5, <1>6, Induction
  <2> QED
    BY <2>1, <2>2 DEF P
<1> QED
  BY <1>1, <1>7

\* IsPrime of the run is the definition of a prime.
LEMMA PrimeIsPrime ==
  ASSUME NEW n \in Nat
  PROVE  IsPrime(n) <=> Prime(n)
<1>1. Prime(n) => IsPrime(n)
  BY DEF IsPrime, Prime
<1>2. ASSUME IsPrime(n), NEW d \in 2..n - 1, n % d = 0
      PROVE  FALSE
  <2>1. n >= 2 /\ d \in Nat \ {0}
    BY <1>2 DEF IsPrime
  <2>2. PICK q \in Nat : n = d * q
    <3>1. n \div d \in Nat /\ n = d * (n \div d) + (n % d)
      BY <2>1, Division
    <3>2. PICK k \in Nat : k = n \div d
      BY <3>1
    <3>3. d * k \in Nat
      BY <2>1
    <3>4. n = d * k
      BY <1>2, <3>1, <3>2, <3>3
    <3> QED
      BY <3>4
  <2>3. q >= 2 /\ q < n
    <3>1. q # 0
      <4>1. d * 0 = 0
        BY <2>1
      <4> QED
        BY <2>1, <2>2, <4>1
    <3>2. q # 1
      <4>1. d * 1 = d
        BY <2>1
      <4> QED
        BY <2>2, <4>1
    <3>3. 2 * q <= d * q
      <4>1. 2 \in Nat /\ 2 <= d
        OBVIOUS
      <4> QED
        BY <2>1, <4>1, ProductGrows
    <3>4. PICK z \in Nat : z = d * q
      BY <2>1
    <3> QED
      BY <2>2, <3>1, <3>2, <3>3, <3>4
  <2>4. CASE d <= q
    <3>1. d * d <= q * d
      BY <2>1, <2>4, ProductGrows
    <3>2. q * d = d * q
      BY <2>1
    <3>3. PICK x, y \in Nat : x = d * d /\ y = q * d
      BY <2>1
    <3> QED
      BY <1>2, <2>2, <3>1, <3>2, <3>3 DEF IsPrime
  <2>5. CASE q <= d
    <3>1. q * q <= d * q
      BY <2>1, <2>5, ProductGrows
    <3>2. n % q = 0
      <4>1. (q * d + 0) % q = 0 % q /\ 0 % q = 0 /\ q * d + 0 = q * d /\ q * d = d * q
        <5>1. q \in Nat \ {0}
          BY <2>3
        <5> QED
          BY <2>1, <5>1, ShiftMod
      <4> QED
        BY <2>2, <4>1
    <3>3. PICK x, y \in Nat : x = q * q /\ y = d * q
      BY <2>1
    <3>4. q \in 2..n - 1 /\ q * q <= n
      BY <2>2, <2>3, <3>1, <3>3
    <3> QED
      BY <1>2, <3>2, <3>4 DEF IsPrime
  <2> QED
    BY <2>1, <2>4, <2>5
<1>3. IsPrime(n) => Prime(n)
  <2>1. SUFFICES ASSUME IsPrime(n) PROVE Prime(n)
    OBVIOUS
  <2>2. \A d \in 2..n - 1 : n % d # 0
    BY <1>2, <2>1
  <2> QED
    BY <2>1, <2>2 DEF IsPrime, Prime
<1> QED
  BY <1>1, <1>3

\* Every base is a number, and 2 is one of them.
LEMMA BasesAreNat == 2 \in Bases /\ \A b \in Bases : b \in Nat
BY DEF Bases

\* No prime is refused, whatever its size.
LEMMA PrimeAccepted ==
  ASSUME NEW n, Prime(n)
  PROVE  IsPrime64(n)
<1>1. n \in Nat /\ n >= 2
  BY DEF Prime
<1>2. CASE \E q \in SmallPrimes : n % q = 0
  <2>1. PICK q \in SmallPrimes : n % q = 0
    BY <1>2
  <2>2. q \in Nat /\ q >= 2
    BY DEF SmallPrimes
  <2>3. q = n
    <3>1. q <= n
      <4>1. n < q => n % q = n
        BY <1>1, <2>2
      <4> QED
        BY <1>1, <2>1, <2>2, <4>1
    <3>2. ~(q \in 2..n - 1)
      BY <2>1 DEF Prime
    <3> QED
      BY <1>1, <2>2, <3>1, <3>2
  <2> QED
    BY <1>1, <1>2, <2>3 DEF IsPrime64
<1>3. CASE ~ \E q \in SmallPrimes : n % q = 0
  <2>1. PICK s, e : /\ Halved(e, s, n)
                    /\ MillerRabin(n) <=> \A base \in Bases : Passed(base, e, s, n)
    BY <1>1, Halvings
  <2>2. \A base \in Bases : Passed(base, e, s, n)
    BY <2>1, PrimePasses, BasesAreNat
  <2> QED
    BY <1>1, <1>3, <2>1, <2>2 DEF IsPrime64
<1> QED
  BY <1>2, <1>3

\* The primality test refuses no prime, whatever its size (_is_prime_64).
THEOREM PrimesPassTheTest ==
  ASSUME NEW n \in Nat, IsPrime(n)
  PROVE  IsPrime64(n)
BY PrimeIsPrime, PrimeAccepted

-----------------------------------------------------------------------------
(* What is refused: the composite numbers up to 2049.                      *)

\* Two steps of squaring and doubling.
LEMMA TwosDouble ==
  ASSUME NEW p \in Nat \ {0}, p >= 2, NEW n \in Nat, NEW f, Powers(f, p, 2, n), NEW k \in Nat
  PROVE  /\ k + k <= n => f[k + k] = (f[k] * f[k]) % p
         /\ k + k + 1 <= n => f[k + k + 1] = (((f[k] * f[k]) % p) * 2) % p
<1>1. k + k <= n => f[k + k] = (f[k] * f[k]) % p
  BY PowersAdd DEF Mul
<1>2. k + k + 1 <= n => f[k + k + 1] = (f[k + k] * 2) % p
  BY DEF Powers, Mul
<1> QED
  BY <1>1, <1>2

LEMMA FirstPower ==
  ASSUME NEW p \in Nat, p >= 3, NEW n \in Nat \ {0}, NEW f, Powers(f, p, 2, n)
  PROVE  f[1] = 2
<1>1. 0 \in 0..n - 1 /\ 0 + 1 = 1 /\ 1 * 2 = 2 /\ 2 % p = 2
  OBVIOUS
<1> QED
  BY <1>1 DEF Powers, Mul

\* 2 ^ (n - 1) modulo each of the five composites without a small factor.
LEMMA FermatFails1681 ==
  ASSUME NEW f, Powers(f, 1681, 2, 1680)
  PROVE  f[1680] # 1
<1>1. /\ f[1] = 2
      /\ \A k \in Nat : k + k <= 1680 => f[k + k] = (f[k] * f[k]) % 1681
      /\ \A k \in Nat : k + k + 1 <= 1680 => f[k + k + 1] = (((f[k] * f[k]) % 1681) * 2) % 1681
  <2>1. 1681 \in Nat \ {0} /\ 1681 \in Nat /\ 1681 >= 3 /\ 1680 \in Nat \ {0}
    OBVIOUS
  <2>2. f[1] = 2
    BY <2>1, FirstPower
  <2> QED
    BY <2>1, <2>2, TwosDouble
<1>2. f[3] = 8
  BY <1>1
<1>3. f[6] = 64
  BY <1>1, <1>2
<1>4. f[13] = 1468
  BY <1>1, <1>3
<1>5. f[26] = 1663
  BY <1>1, <1>4
<1>6. f[52] = 324
  BY <1>1, <1>5
<1>7. f[105] = 1508
  BY <1>1, <1>6
<1>8. f[210] = 1352
  BY <1>1, <1>7
<1>9. f[420] = 657
  BY <1>1, <1>8
<1>10. f[840] = 1313
  BY <1>1, <1>9
<1>11. f[1680] = 944
  BY <1>1, <1>10
<1> QED
  BY <1>11

LEMMA FermatFails1763 ==
  ASSUME NEW f, Powers(f, 1763, 2, 1762)
  PROVE  f[1762] # 1
<1>1. /\ f[1] = 2
      /\ \A k \in Nat : k + k <= 1762 => f[k + k] = (f[k] * f[k]) % 1763
      /\ \A k \in Nat : k + k + 1 <= 1762 => f[k + k + 1] = (((f[k] * f[k]) % 1763) * 2) % 1763
  <2>1. 1763 \in Nat \ {0} /\ 1763 \in Nat /\ 1763 >= 3 /\ 1762 \in Nat \ {0}
    OBVIOUS
  <2>2. f[1] = 2
    BY <2>1, FirstPower
  <2> QED
    BY <2>1, <2>2, TwosDouble
<1>2. f[3] = 8
  BY <1>1
<1>3. f[6] = 64
  BY <1>1, <1>2
<1>4. f[13] = 1140
  BY <1>1, <1>3
<1>5. f[27] = 538
  BY <1>1, <1>4
<1>6. f[55] = 624
  BY <1>1, <1>5
<1>7. f[110] = 1516
  BY <1>1, <1>6
<1>8. f[220] = 1067
  BY <1>1, <1>7
<1>9. f[440] = 1354
  BY <1>1, <1>8
<1>10. f[881] = 1355
  BY <1>1, <1>9
<1>11. f[1762] = 742
  BY <1>1, <1>10
<1> QED
  BY <1>11

LEMMA FermatFails1849 ==
  ASSUME NEW f, Powers(f, 1849, 2, 1848)
  PROVE  f[1848] # 1
<1>1. /\ f[1] = 2
      /\ \A k \in Nat : k + k <= 1848 => f[k + k] = (f[k] * f[k]) % 1849
      /\ \A k \in Nat : k + k + 1 <= 1848 => f[k + k + 1] = (((f[k] * f[k]) % 1849) * 2) % 1849
  <2>1. 1849 \in Nat \ {0} /\ 1849 \in Nat /\ 1849 >= 3 /\ 1848 \in Nat \ {0}
    OBVIOUS
  <2>2. f[1] = 2
    BY <2>1, FirstPower
  <2> QED
    BY <2>1, <2>2, TwosDouble
<1>2. f[3] = 8
  BY <1>1
<1>3. f[7] = 128
  BY <1>1, <1>2
<1>4. f[14] = 1592
  BY <1>1, <1>3
<1>5. f[28] = 1334
  BY <1>1, <1>4
<1>6. f[57] = 1636
  BY <1>1, <1>5
<1>7. f[115] = 137
  BY <1>1, <1>6
<1>8. f[231] = 558
  BY <1>1, <1>7
<1>9. f[462] = 732
  BY <1>1, <1>8
<1>10. f[924] = 1463
  BY <1>1, <1>9
<1>11. f[1848] = 1076
  BY <1>1, <1>10
<1> QED
  BY <1>11

LEMMA FermatFails1927 ==
  ASSUME NEW f, Powers(f, 1927, 2, 1926)
  PROVE  f[1926] # 1
<1>1. /\ f[1] = 2
      /\ \A k \in Nat : k + k <= 1926 => f[k + k] = (f[k] * f[k]) % 1927
      /\ \A k \in Nat : k + k + 1 <= 1926 => f[k + k + 1] = (((f[k] * f[k]) % 1927) * 2) % 1927
  <2>1. 1927 \in Nat \ {0} /\ 1927 \in Nat /\ 1927 >= 3 /\ 1926 \in Nat \ {0}
    OBVIOUS
  <2>2. f[1] = 2
    BY <2>1, FirstPower
  <2> QED
    BY <2>1, <2>2, TwosDouble
<1>2. f[3] = 8
  BY <1>1
<1>3. f[7] = 128
  BY <1>1, <1>2
<1>4. f[15] = 9
  BY <1>1, <1>3
<1>5. f[30] = 81
  BY <1>1, <1>4
<1>6. f[60] = 780
  BY <1>1, <1>5
<1>7. f[120] = 1395
  BY <1>1, <1>6
<1>8. f[240] = 1682
  BY <1>1, <1>7
<1>9. f[481] = 576
  BY <1>1, <1>8
<1>10. f[963] = 664
  BY <1>1, <1>9
<1>11. f[1926] = 1540
  BY <1>1, <1>10
<1> QED
  BY <1>11

LEMMA FermatFails2021 ==
  ASSUME NEW f, Powers(f, 2021, 2, 2020)
  PROVE  f[2020] # 1
<1>1. /\ f[1] = 2
      /\ \A k \in Nat : k + k <= 2020 => f[k + k] = (f[k] * f[k]) % 2021
      /\ \A k \in Nat : k + k + 1 <= 2020 => f[k + k + 1] = (((f[k] * f[k]) % 2021) * 2) % 2021
  <2>1. 2021 \in Nat \ {0} /\ 2021 \in Nat /\ 2021 >= 3 /\ 2020 \in Nat \ {0}
    OBVIOUS
  <2>2. f[1] = 2
    BY <2>1, FirstPower
  <2> QED
    BY <2>1, <2>2, TwosDouble
<1>2. f[3] = 8
  BY <1>1
<1>3. f[7] = 128
  BY <1>1, <1>2
<1>4. f[15] = 432
  BY <1>1, <1>3
<1>5. f[31] = 1384
  BY <1>1, <1>4
<1>6. f[63] = 1117
  BY <1>1, <1>5
<1>7. f[126] = 732
  BY <1>1, <1>6
<1>8. f[252] = 259
  BY <1>1, <1>7
<1>9. f[505] = 776
  BY <1>1, <1>8
<1>10. f[1010] = 1939
  BY <1>1, <1>9
<1>11. f[2020] = 661
  BY <1>1, <1>10
<1> QED
  BY <1>11

\* A number is its divisor times some number.
LEMMA Cofactor ==
  ASSUME NEW n \in Nat, NEW d \in Nat \ {0}, n % d = 0
  PROVE  \E k \in Nat : n = d * k
<1>1. n \div d \in Nat /\ n = d * (n \div d) + (n % d)
  BY Division
<1>2. PICK k \in Nat : k = n \div d
  BY <1>1
<1>3. d * k \in Nat
  OBVIOUS
<1>4. n = d * k
  BY <1>1, <1>2, <1>3
<1> QED
  BY <1>4

\* A multiple leaves no remainder.
LEMMA MultipleDivides ==
  ASSUME NEW m \in Nat \ {0}, NEW c \in Nat
  PROVE  (m * c) % m = 0
<1>1. PICK z \in Nat : z = 0
  OBVIOUS
<1>2. (m * c + z) % m = z % m
  BY ShiftMod
<1>3. m * c \in Nat
  OBVIOUS
<1> QED
  BY <1>1, <1>2, <1>3

\* A divisor of a divisor divides.
LEMMA DividesTrans ==
  ASSUME NEW n \in Nat, NEW d \in Nat \ {0}, NEW q \in Nat \ {0}, n % d = 0, d % q = 0
  PROVE  n % q = 0
<1>1. PICK a \in Nat : n = d * a
  BY Cofactor
<1>2. PICK c \in Nat : d = q * c
  BY Cofactor
<1>3. n = q * (c * a)
  BY <1>1, <1>2
<1>4. PICK m \in Nat : m = c * a
  BY <1>1, <1>2
<1>5. (q * m) % q = 0
  BY MultipleDivides
<1> QED
  BY <1>3, <1>4, <1>5

\* A composite number has a divisor of at most its root.
LEMMA FoundDivisor ==
  ASSUME NEW n \in Nat, n >= 2, ~ IsPrime(n)
  PROVE  \E d \in 2..n - 1 : d * d <= n /\ n % d = 0
<1>1. ~ (\A d \in 2..n - 1 : d * d <= n => n % d # 0)
  BY DEF IsPrime
<1> QED
  BY <1>1

\* The small primes leave out three numbers between 2 and 49.
LEMMA SmallFactors ==
  ASSUME NEW d \in 2..49
  PROVE  d \in {41, 43, 47} \/ \E q \in SmallPrimes : d % q = 0
<1>1. CASE d % 2 = 0 \/ d % 3 = 0 \/ d % 5 = 0 \/ d % 7 = 0
  BY <1>1 DEF SmallPrimes
<1>2. CASE d % 2 # 0 /\ d % 3 # 0 /\ d % 5 # 0 /\ d % 7 # 0
  <2>1. d \in {11, 13, 17, 19, 23, 29, 31, 37, 41, 43, 47}
    BY <1>2
  <2>2. d % d = 0
    OBVIOUS
  <2> QED
    BY <2>1, <2>2 DEF SmallPrimes
<1> QED
  BY <1>1, <1>2

\* The small primes are prime.
LEMMA SmallPrimesUndivided ==
  ASSUME NEW n \in SmallPrimes, NEW d \in 2..n - 1, d * d <= n
  PROVE  n % d # 0
<1>1. n \in Nat /\ n <= 37 /\ d \in Nat
  BY DEF SmallPrimes
<1>2. d <= 6
  <2>1. SUFFICES ASSUME 7 <= d PROVE FALSE
    BY <1>1
  <2>2. 7 * 7 <= d * 7 /\ 7 * d <= d * d
    BY <1>1, <2>1, ProductGrows
  <2>3. PICK x \in Nat : x = d * d
    BY <1>1
  <2> QED
    BY <1>1, <2>2, <2>3
<1>3. n % 2 # 0 \/ n = 2
  BY DEF SmallPrimes
<1>4. n % 3 # 0 \/ n = 3
  BY DEF SmallPrimes
<1>5. n % 5 # 0 \/ n = 5
  BY DEF SmallPrimes
<1>6. d = 2 \/ d = 3 \/ d = 4 \/ d = 5 \/ d = 6
  BY <1>1, <1>2
<1>7. n % 4 = 0 => n % 2 = 0
  BY <1>1
<1>8. n % 6 = 0 => n % 2 = 0
  BY <1>1
<1>9. d < n
  BY <1>1
<1> QED
  BY <1>1, <1>3, <1>4, <1>5, <1>6, <1>7, <1>8, <1>9

LEMMA SmallPrimesArePrime ==
  ASSUME NEW n \in SmallPrimes
  PROVE  IsPrime(n)
<1>1. n >= 2
  BY DEF SmallPrimes
<1> QED
  BY <1>1, SmallPrimesUndivided DEF IsPrime

\* The last number the run tries.
LastTried == 2049

\* No composite number up to the last tried passes: one without a small prime
\* factor is a product of two of 41, 43 and 47, and fails Fermat's congruence.
LEMMA CompositeRefused ==
  ASSUME NEW n \in Nat, n <= LastTried, ~ IsPrime(n)
  PROVE  ~ IsPrime64(n)
<1>1. SUFFICES ASSUME IsPrime64(n) PROVE FALSE
  OBVIOUS
<1>2. n >= 2 /\ n \in Nat
  BY <1>1 DEF IsPrime64
<1>3. PICK d \in 2..n - 1 : d * d <= n /\ n % d = 0
  BY <1>2, FoundDivisor
<1>4. d \in Nat \ {0} /\ d \in 2..45
  <2>1. SUFFICES ASSUME 46 <= d PROVE FALSE
    BY <1>2
  <2>2. 46 * 46 <= d * 46 /\ 46 * d <= d * d
    BY <1>2, <2>1, ProductGrows
  <2>3. PICK x \in Nat : x = d * d
    BY <1>2
  <2> QED
    BY <1>3, <2>2, <2>3 DEF LastTried
<1>5. n \notin SmallPrimes
  BY SmallPrimesArePrime
<1>6. /\ \A q \in SmallPrimes : n % q # 0
      /\ MillerRabin(n)
  BY <1>1, <1>5 DEF IsPrime64
<1>7. \A q \in SmallPrimes : q \in Nat \ {0}
  BY DEF SmallPrimes
<1>8. d \in {41, 43}
  <2>1. \A q \in SmallPrimes : d % q # 0
    BY <1>2, <1>3, <1>4, <1>6, <1>7, DividesTrans
  <2>2. d \in 2..49
    BY <1>4
  <2>3. d \in {41, 43, 47}
    BY <2>1, <2>2, SmallFactors
  <2> QED
    BY <1>4, <2>3
<1>9. PICK m \in 2..49 : n = d * m
  <2>1. PICK k \in Nat : n = d * k
    BY <1>2, <1>3, <1>4, Cofactor
  <2>2. k \in 2..49
    BY <1>2, <1>3, <1>8, <2>1 DEF LastTried
  <2> QED
    BY <2>1, <2>2
<1>10. m \in {41, 43, 47}
  <2>1. n % m = 0
    <3>1. PICK u \in Nat \ {0}, c \in Nat : u = m /\ c = d /\ n = u * c
      BY <1>4, <1>9
    <3>2. (u * c) % u = 0
      BY MultipleDivides
    <3> QED
      BY <3>1, <3>2
  <2>2. \A q \in SmallPrimes : m % q # 0
    <3>1. m \in Nat \ {0}
      OBVIOUS
    <3> QED
      BY <1>2, <1>6, <1>7, <2>1, <3>1, DividesTrans
  <2> QED
    BY <2>2, SmallFactors
<1>11. n \in {1681, 1763, 1849, 1927, 2021}
  BY <1>8, <1>9, <1>10
<1>12. PICK s, e : /\ Halved(e, s, n)
                   /\ MillerRabin(n) <=> \A base \in Bases : Passed(base, e, s, n)
  BY <1>2, Halvings
<1>13. Passed(2, e, s, n)
  BY <1>6, <1>12, BasesAreNat
<1>14. PICK f : Powers(f, n, 2, n - 1)
  <2>1. n \in Nat \ {0} /\ n - 1 \in Nat /\ 2 \in Nat
    BY <1>2
  <2> QED
    BY <1>2, <2>1, PowersExist
<1>15. f[n - 1] = 1
  <2>1. n >= 3 /\ 2 \in Nat /\ 2 % n # 0
    BY <1>11
  <2> QED
    BY <1>2, <1>12, <1>13, <1>14, <2>1, PassedIsFermat
<1>16. CASE n = 1681
  BY <1>14, <1>15, <1>16, FermatFails1681
<1>17. CASE n = 1763
  BY <1>14, <1>15, <1>17, FermatFails1763
<1>18. CASE n = 1849
  BY <1>14, <1>15, <1>18, FermatFails1849
<1>19. CASE n = 1927
  BY <1>14, <1>15, <1>19, FermatFails1927
<1>20. CASE n = 2021
  BY <1>14, <1>15, <1>20, FermatFails2021
<1> QED
  BY <1>11, <1>16, <1>17, <1>18, <1>19, <1>20

\* The primality test agrees with the definition of a prime on every number the
\* run tries (_is_prime_64).
THEOREM PrimeTestAgrees ==
  ASSUME NEW n \in Nat, n <= LastTried
  PROVE  IsPrime64(n) = IsPrime(n)
<1>1. n \in Nat
  OBVIOUS
<1>2. IsPrime(n) => IsPrime64(n)
  BY <1>1, PrimeIsPrime, PrimeAccepted
<1>3. IsPrime64(n) => IsPrime(n)
  <2>1. SUFFICES ASSUME ~IsPrime(n) PROVE ~IsPrime64(n)
    OBVIOUS
  <2> QED
    BY <2>1, CompositeRefused
<1>4. IsPrime64(n) \in BOOLEAN /\ IsPrime(n) \in BOOLEAN
  BY DEF IsPrime64, IsPrime
<1> QED
  BY <1>2, <1>3, <1>4

-----------------------------------------------------------------------------
(* The sizes of the heads of the small tables the run builds.              *)

\* What the search finds after one prime.
PrimeAfter(before) ==
  CHOOSE c \in before + 1..2 * before + 2 :
    IsPrime64(c) /\ \A d \in before + 1..c - 1 : ~IsPrime64(d)

\* The small primes pass the test.
LEMMA SmallPrimesPass ==
  ASSUME NEW q \in SmallPrimes
  PROVE  IsPrime64(q) /\ q \in Nat
<1>1. q >= 2 /\ q % q = 0 /\ q \in Nat
  BY DEF SmallPrimes
<1> QED
  BY <1>1 DEF IsPrime64

\* The search ends below 37, at the latest at the next small prime.
LEMMA PrimeAfterFound ==
  ASSUME NEW before \in 0..36, NEW q \in SmallPrimes, before < q
  PROVE  PrimeAfter(before) \in before + 1..q
<1>1. PICK p \in SmallPrimes : before < p /\ p <= 2 * before + 2
  <2>1. CASE before <= 1
    BY <2>1 DEF SmallPrimes
  <2>2. CASE before \in 2..4
    BY <2>2 DEF SmallPrimes
  <2>3. CASE before \in 5..12
    BY <2>3 DEF SmallPrimes
  <2>4. CASE before \in 13..36
    BY <2>4 DEF SmallPrimes
  <2> QED
    BY <2>1, <2>2, <2>3, <2>4
<1> DEFINE S == {c \in before + 1..2 * before + 2 : IsPrime64(c)}
<1>2. S \in SUBSET Int /\ IsFiniteSet(S)
  <2>1. before + 1 \in Int /\ 2 * before + 2 \in Int
    OBVIOUS
  <2>2. IsFiniteSet(before + 1..2 * before + 2)
    BY <2>1, FS_Interval, Zenon
  <2> QED
    BY <2>2, FS_Subset
<1>3. p \in S
  <2>1. p \in Nat /\ IsPrime64(p)
    BY SmallPrimesPass
  <2> QED
    BY <1>1, <2>1
<1>4. PICK least \in S : \A y \in S : least <= y
  <2> HIDE DEF S
  <2> QED
    BY <1>2, <1>3, FiniteMinimum
<1>5. \A d \in before + 1..least - 1 : ~IsPrime64(d)
  <2>1. SUFFICES ASSUME NEW d \in before + 1..least - 1, IsPrime64(d) PROVE FALSE
    OBVIOUS
  <2>2. d \in before + 1..2 * before + 2
    BY <1>4
  <2>3. d \in S
    BY <2>1, <2>2
  <2>4. least <= d /\ least \in Int
    BY <1>2, <1>4, <2>3
  <2> QED
    BY <2>4
<1>6. PICK c : c = PrimeAfter(before)
  OBVIOUS
<1>7. /\ c \in before + 1..2 * before + 2
      /\ IsPrime64(c)
      /\ \A d \in before + 1..c - 1 : ~IsPrime64(d)
  <2>1. least \in before + 1..2 * before + 2 /\ IsPrime64(least)
    BY <1>4
  <2> HIDE DEF S
  <2> QED
    BY <1>5, <1>6, <2>1, Zenon DEF PrimeAfter
<1>8. c <= q
  <2>1. SUFFICES ASSUME q < c PROVE FALSE
    BY <1>7, SmallPrimesPass
  <2>2. q \in before + 1..c - 1 /\ IsPrime64(q)
    BY <1>7, <2>1, SmallPrimesPass
  <2> QED
    BY <1>7, <2>2
<1> QED
  BY <1>6, <1>7, <1>8

PrimeSteps(f, start, count) ==
  f = [n \in 0..count |-> IF n = 0 THEN start ELSE PrimeAfter(f[n - 1])]

\* The search of the code is the n-th of any sequence that follows its steps.
LEMMA NthPrimeOf ==
  ASSUME NEW start, NEW count \in Nat, NEW f, PrimeSteps(f, start, count)
  PROVE  NthPrimeAfter(start, count) = f[count]
<1> DEFINE Step(g) == [n \in 0..count |-> IF n = 0 THEN start ELSE PrimeAfter(g[n - 1])]
<1>1. f = Step(f)
  BY Zenon DEF PrimeSteps
<1>2. PICK h : h = (CHOOSE g : g = Step(g)) /\ h = Step(h)
  <2> HIDE DEF Step
  <2> QED
    BY <1>1, Zenon
<1>3. NthPrimeAfter(start, count) = h[count]
  BY <1>2, Zenon DEF NthPrimeAfter, PrimeAfter
<1> DEFINE P == {n \in 0..count : h[n] = f[n]}
<1>4. 0 \in P
  <2>1. 0 \in 0..count
    OBVIOUS
  <2>2. h[0] = start
    BY <1>2, <2>1
  <2>3. f[0] = start
    BY <1>1, <2>1
  <2> QED
    BY <2>1, <2>2, <2>3
<1>5. \A n \in 0..count - 1 : n \in P => n + 1 \in P
  <2>1. SUFFICES ASSUME NEW n \in 0..count - 1, n \in P PROVE n + 1 \in P
    OBVIOUS
  <2>2. n + 1 \in 0..count /\ n + 1 # 0 /\ (n + 1) - 1 = n
    OBVIOUS
  <2>3. h[n + 1] = PrimeAfter(h[n])
    BY <1>2, <2>2
  <2>4. f[n + 1] = PrimeAfter(f[n])
    BY <1>1, <2>2
  <2> QED
    BY <2>1, <2>2, <2>3, <2>4
<1>6. count \in 0..count
  OBVIOUS
<1> HIDE DEF P, Step
<1>7. 0..count \subseteq P
  BY <1>4, <1>5, Induction
<1> QED
  BY <1>3, <1>6, <1>7 DEF P

\* The first primes after a start of at most 11 are at most these.
Ceiling(n) ==
  CASE n = 0 -> 11 [] n = 1 -> 13 [] n = 2 -> 17 [] n = 3 -> 19 [] n = 4 -> 23 [] n = 5 -> 29
    [] n = 6 -> 31

\* Each ceiling is a small prime above the one before.
LEMMA CeilingRises ==
  ASSUME NEW n \in 0..5
  PROVE  /\ Ceiling(n) \in 11..29 /\ Ceiling(n) < Ceiling(n + 1)
         /\ Ceiling(n + 1) \in SmallPrimes /\ Ceiling(n + 1) \in 11..31
<1>1. n = 0 \/ n = 1 \/ n = 2 \/ n = 3 \/ n = 4 \/ n = 5
  OBVIOUS
<1> QED
  BY <1>1 DEF Ceiling, SmallPrimes

\* The search ends for every table of the run.
LEMMA SmallSizes ==
  ASSUME NEW start \in 1..11, NEW count \in 0..6
  PROVE  NthPrimeAfter(start, count) \in Nat \ {0}
<1> DEFINE st == [k \in 1..count |-> [x \in 0..37 |-> IF x = 37 THEN 37 ELSE PrimeAfter(x)]]
<1>1. 37 \in SmallPrimes
  BY DEF SmallPrimes
<1>2. ASSUME NEW x \in 0..37, x # 37
      PROVE  PrimeAfter(x) \in 0..37
  <2>1. x \in 0..36 /\ x < 37
    BY <1>2
  <2>2. PrimeAfter(x) \in x + 1..37
    BY <1>1, <2>1, PrimeAfterFound
  <2> QED
    BY <2>2
<1>3. st \in [0 + 1..count -> [0..37 -> 0..37]]
  BY <1>2
<1>4. PICK f \in [0..count -> 0..37] : Follows(f, start, st, 0, count)
  <2>1. start \in 0..37 /\ 0 \in Int /\ count \in Int /\ 0 <= count
    OBVIOUS
  <2> HIDE DEF st
  <2> QED
    BY <1>3, <2>1, RecursionFrom
<1>5. f = [n \in 0..count |-> IF n = 0 THEN start ELSE st[n][f[n - 1]]]
  BY <1>4, Zenon DEF Follows
<1>6. f[0] = start
  <2>1. 0 \in 0..count
    OBVIOUS
  <2> QED
    BY <1>5, <2>1
<1>7. ASSUME NEW n \in 0..count - 1, f[n] # 37
      PROVE  f[n + 1] = PrimeAfter(f[n])
  <2>1. n \in 0..count /\ n + 1 \in 1..count /\ n + 1 \in 0..count /\ n + 1 # 0 /\ (n + 1) - 1 = n
    OBVIOUS
  <2>2. f[n] \in 0..37
    BY <1>4, <2>1
  <2>3. f[n + 1] = st[n + 1][f[n]]
    BY <1>5, <2>1
  <2>4. st[n + 1] = [x \in 0..37 |-> IF x = 37 THEN 37 ELSE PrimeAfter(x)]
    BY <2>1
  <2> HIDE DEF st
  <2> QED
    BY <1>7, <2>2, <2>3, <2>4
<1> DEFINE P == {n \in 0..count : f[n] \in 1..Ceiling(n)}
<1>8. 0 \in P
  <2>1. 0 \in 0..count
    OBVIOUS
  <2> QED
    BY <1>6, <2>1 DEF Ceiling
<1>9. \A n \in 0..count - 1 : n \in P => n + 1 \in P
  <2>1. SUFFICES ASSUME NEW n \in 0..count - 1, n \in P PROVE n + 1 \in P
    OBVIOUS
  <2>2. n \in 0..5 /\ n + 1 \in 0..count
    OBVIOUS
  <2>3. PICK low, high : low = Ceiling(n) /\ high = Ceiling(n + 1)
    OBVIOUS
  <2>4. low \in 11..29 /\ high \in SmallPrimes /\ low < high /\ high \in 11..31
    <3>1. PICK k \in 0..5 : k = n
      BY <2>2
    <3>2. low = Ceiling(k) /\ high = Ceiling(k + 1)
      BY <2>3, <3>1, Zenon
    <3> QED
      BY <3>2, CeilingRises
  <2>5. f[n] \in 1..low
    BY <2>1, <2>3
  <2>6. f[n] # 37 /\ f[n] \in 0..36 /\ f[n] < high
    BY <2>4, <2>5
  <2>7. f[n + 1] = PrimeAfter(f[n])
    BY <1>7, <2>6
  <2>8. PrimeAfter(f[n]) \in f[n] + 1..high
    BY <2>4, <2>6, PrimeAfterFound
  <2>9. f[n + 1] \in 1..high
    <3>1. PICK x, y : x = f[n] /\ y = f[n + 1]
      OBVIOUS
    <3>2. y \in x + 1..high /\ x \in 0..36
      BY <2>6, <2>7, <2>8, <3>1
    <3>3. y \in 1..high
      BY <2>4, <3>2
    <3> QED
      BY <3>1, <3>3, Zenon
  <2> QED
    BY <2>2, <2>3, <2>9
<1> HIDE DEF P, st
<1>10. 0..count \subseteq P
  BY <1>8, <1>9, Induction
<1>11. ASSUME NEW n \in 0..count
       PROVE  f[n] # 37 /\ f[n] \in Nat \ {0}
  <2>1. n \in P /\ n \in 0..6
    BY <1>10
  <2>2. Ceiling(n) \in 11..31
    BY <2>1 DEF Ceiling
  <2>3. f[n] \in 1..Ceiling(n)
    BY <2>1 DEF P
  <2> QED
    BY <2>2, <2>3
<1>12. PrimeSteps(f, start, count)
  <2>1. ASSUME NEW n \in 0..count
        PROVE  f[n] = IF n = 0 THEN start ELSE PrimeAfter(f[n - 1])
    <3>1. CASE n = 0
      BY <1>6, <3>1
    <3>2. CASE n # 0
      <4>1. PICK m \in 0..count - 1 : n = m + 1 /\ m = n - 1 /\ m \in 0..count
        <5>1. n - 1 \in 0..count - 1 /\ n = (n - 1) + 1 /\ n - 1 \in 0..count
          BY <3>2
        <5> QED
          BY <5>1
      <4>2. f[m] # 37
        BY <1>11, <4>1
      <4>3. f[m + 1] = PrimeAfter(f[m])
        BY <1>7, <4>1, <4>2
      <4> QED
        BY <3>2, <4>1, <4>3
    <3> QED
      BY <3>1, <3>2
  <2>2. f = [n \in 0..count |-> f[n]]
    BY <1>4
  <2>3. f = [n \in 0..count |-> IF n = 0 THEN start ELSE PrimeAfter(f[n - 1])]
    BY <2>1, <2>2
  <2> QED
    BY <2>3 DEF PrimeSteps
<1>13. NthPrimeAfter(start, count) = f[count]
  BY <1>12, NthPrimeOf
<1>14. count \in 0..count
  OBVIOUS
<1> QED
  BY <1>11, <1>13, <1>14

-----------------------------------------------------------------------------
(* The runs' cases.                                                        *)

\* A behaviour picks a case of a family only by the action of that family.
LEMMA FamilyOfCase ==
  ASSUME Next
  PROVE  /\ case'.family = "ngram" => PickNGram
         /\ case'.family = "table" => PickTable
         /\ case'.family = "quant" => PickQuant
         /\ case'.family = "ids" => PickIds
         /\ case'.family = "prime" => PickPrime
         /\ case'.family = "forward" => PickForward
         /\ case'.family = "capture" => PickCapture
         /\ case'.family = "select" => PickSelect
         /\ case'.family = "splits" => PickSplits
         /\ case'.family = "chunks" => PickChunks
         /\ case'.family = "calibration" => PickCalibration
         /\ case'.family = "config" => PickConfig
         /\ case'.family = "weights" => PickWeights
         /\ case'.family = "registration" => PickRegistration
<1>1. PickNGram => case'.family = "ngram"
  BY DEF PickNGram, Pick
<1>2. PickTable => case'.family = "table"
  BY DEF PickTable, Pick
<1>3. PickQuant => case'.family = "quant"
  BY DEF PickQuant, Pick
<1>4. PickIds => case'.family = "ids"
  BY DEF PickIds, Pick
<1>5. PickPrime => case'.family = "prime"
  BY DEF PickPrime, Pick
<1>6. PickForward => case'.family = "forward"
  BY DEF PickForward, Pick
<1>7. PickCapture => case'.family = "capture"
  BY DEF PickCapture, Pick
<1>8. PickSelect => case'.family = "select"
  BY DEF PickSelect, Pick
<1>9. PickSplits => case'.family = "splits"
  BY DEF PickSplits, Pick
<1>10. PickChunks => case'.family = "chunks"
  BY DEF PickChunks, Pick
<1>11. PickCalibration => case'.family = "calibration"
  BY DEF PickCalibration, Pick
<1>12. PickConfig => case'.family = "config"
  BY DEF PickConfig, Pick
<1>13. PickWeights => case'.family = "weights"
  BY DEF PickWeights, Pick
<1>14. PickRegistration => case'.family = "registration"
  BY DEF PickRegistration, Pick
<1> QED
  BY <1>1, <1>2, <1>3, <1>4, <1>5, <1>6, <1>7, <1>8, <1>9, <1>10, <1>11, <1>12, <1>13, <1>14 DEF Next

\* The output rank of every DP rank captures the routing of its own tokens, in
\* every layout a MoE layer may see (capture of the routed-experts capturer).
THEOREM CaptureOwnTokensTheorem == Spec => []CaptureOwnTokens
<1>1. Init => CaptureOwnTokens
  BY DEF Init, CaptureOwnTokens
<1>2. CaptureOwnTokens /\ [Next]_case => CaptureOwnTokens'
  <2>1. SUFFICES ASSUME Next, case'.family = "capture"
                 PROVE  CapturesOwnTokens(case'.layout, case'.counts, case'.tp)
    BY DEF CaptureOwnTokens
  <2>2. PickCapture
    BY <2>1, FamilyOfCase
  <2>3. PICK tp \in 1..3, ranks \in 1..3 :
          \E counts \in [1..ranks -> 0..4], layout \in Layouts :
            case' = [family |-> "capture", layout |-> layout, counts |-> counts, tp |-> tp]
    BY <2>2 DEF PickCapture, Pick, Layouts
  <2>4. PICK counts \in [1..ranks -> 0..4], layout \in Layouts :
          case' = [family |-> "capture", layout |-> layout, counts |-> counts, tp |-> tp]
    BY <2>3
  <2>5. counts \in [1..ranks -> Nat] /\ ranks \in Nat \ {0} /\ tp \in Nat \ {0}
    OBVIOUS
  <2>6. CapturesOwnTokens(layout, counts, tp)
    BY <2>5, CapturesOwn
  <2> QED
    BY <2>4, <2>6
<1> QED
  BY <1>1, <1>2, PTL DEF Spec

\* The delayed combine is applied exactly once and in order, whatever PLE and
\* deepstack additions interrupt it and wherever a pipeline rank ends
\* (Qwen4ExpModel.forward, Qwen4ExpDecoderLayer.forward).
THEOREM DelayedCombineTheorem == Spec => []DelayedCombine
<1>1. Init => DelayedCombine
  BY DEF Init, DelayedCombine
<1>2. DelayedCombine /\ [Next]_case => DelayedCombine'
  <2>1. SUFFICES ASSUME Next, case'.family = "forward"
                 PROVE  CombinesOnce(case'.m, case'.bounds, case'.embeds)
    BY DEF DelayedCombine
  <2>2. PickForward
    BY <2>1, FamilyOfCase
  <2>3. PICK layers \in 1..4, deepstack \in 0..2, embeds \in BOOLEAN, step \in 1..2 :
          \E linear \in {{}, {0, 2}}, ple \in SUBSET (1..layers), dense \in {{}, {1}},
             bounds \in Bounds(layers) :
            case' = [family |-> "forward", bounds |-> bounds, embeds |-> embeds,
                     m |-> [layers |-> layers, linear |-> linear, ple |-> ple, dense |-> dense,
                            sparseStep |-> step, experts |-> 4, deepstack |-> deepstack]]
    BY <2>2 DEF PickForward, Pick
  <2>4. PICK linear \in {{}, {0, 2}}, ple \in SUBSET (1..layers), dense \in {{}, {1}},
             bounds \in Bounds(layers) :
            case' = [family |-> "forward", bounds |-> bounds, embeds |-> embeds,
                     m |-> [layers |-> layers, linear |-> linear, ple |-> ple, dense |-> dense,
                            sparseStep |-> step, experts |-> 4, deepstack |-> deepstack]]
    BY <2>3
  <2>5. PICK m : m = [layers |-> layers, linear |-> linear, ple |-> ple, dense |-> dense,
                      sparseStep |-> step, experts |-> 4, deepstack |-> deepstack]
    OBVIOUS
  <2>6. IsModel(m) /\ m.layers = layers
    <3>1. 1 \in Int /\ layers \in Int
      OBVIOUS
    <3>2. IsFiniteSet(1..layers)
      BY <3>1, FS_Interval, Zenon
    <3>3. IsFiniteSet(ple)
      BY <3>2, FS_Subset
    <3> QED
      BY <2>5, <3>3 DEF IsModel
  <2>7. PICK k \in 0..4 : bounds \in [1..k -> 0..layers]
    BY DEF Bounds, Strings
  <2>8. k >= 2 /\ Len(bounds) = k /\ bounds[1] = 0 /\ bounds[k] = layers
    BY <2>7 DEF Bounds
  <2>9. PICK n : n = k - 1
    OBVIOUS
  <2>10. n \in Nat \ {0} /\ n + 1 = k
    BY <2>8, <2>9
  <2>11. CombinesOnce(m, bounds, embeds)
    BY <2>6, <2>7, <2>8, <2>10, CombinesOnceAlways
  <2> QED
    BY <2>4, <2>5, <2>11
<1> QED
  BY <1>1, <1>2, PTL DEF Spec

\* The key of block or token t is where the page table says.
LEMMA TokenPages ==
  ASSUME NEW size \in {2, 16}, NEW n \in 0..5 * size
  PROVE  Stores(TokenCache(size), TokenTable, size, n) /\ Len(TokenTable) = 5
<1>1. Len(TokenTable) = 5 /\ \A k \in 1..5 : TokenTable[k] \in 0..4
  BY DEF TokenTable
<1>2. ASSUME NEW j \in 1..5, NEW k \in 1..5, TokenTable[j] = TokenTable[k] PROVE j = k
  BY <1>2 DEF TokenTable
<1>3. ASSUME NEW k \in 1..5 PROVE (CHOOSE j \in 1..5 : TokenTable[j] = TokenTable[k]) = k
  BY <1>2
<1>4. PICK cache : cache = TokenCache(size)
  OBVIOUS
<1>5. ASSUME NEW i \in 0..5 * size - 1 PROVE PagedLoad(cache, TokenTable, size, i) = i
  <2>1. PICK q \in 0..4, r \in 0..size - 1 : q = i \div size /\ r = i % size /\ i = size * q + r
    <3>1. CASE size = 2
      BY <3>1
    <3>2. CASE size = 16
      BY <3>2
    <3> QED
      BY <3>1, <3>2
  <2>2. PICK k \in 1..5 : k = q + 1
    OBVIOUS
  <2>3. PICK page \in 0..4 : page = TokenTable[k]
    BY <1>1
  <2>4. (CHOOSE j \in 1..5 : TokenTable[j] = page) = k
    BY <1>3, <2>3
  <2>5. cache[page][r] = size * (k - 1) + r
    BY <1>4, <2>4 DEF TokenCache
  <2>6. DOMAIN cache = 0..4
    BY <1>4 DEF TokenCache
  <2>7. PagedLoad(cache, TokenTable, size, i) = cache[page][r]
    <3>1. q < Len(TokenTable) /\ TokenTable[q + 1] = page /\ i >= 0
      BY <1>1, <2>2, <2>3
    <3> QED
      BY <2>1, <2>6, <3>1 DEF PagedLoad
  <2>8. k - 1 = q
    BY <2>2
  <2> QED
    BY <2>1, <2>5, <2>7, <2>8
<1>6. n <= Len(TokenTable) * size /\ \A i \in 0..n - 1 : i \in 0..5 * size - 1
  BY <1>1
<1> QED
  BY <1>1, <1>4, <1>5, <1>6 DEF Stores

\* A query attends to each token it may see at most once, never to a later
\* one, always to its own open group, and to everything when the selection has
\* room; the scores the top-k reads are those of the blocks; splits and chunks
\* divide the work without gap or overlap (ops/qsa.py).
THEOREM SelectionIsCausalTheorem == Spec => []SelectionIsCausal
<1>1. Init => SelectionIsCausal
  BY DEF Init, SelectionIsCausal
<1>2. SelectionIsCausal /\ [Next]_case => SelectionIsCausal'
  <2>1. ASSUME Next, case'.family = "select"
        PROVE  /\ CausalOnce(case'.qp, case'.length, case'.ratio, case'.blockTopk,
                             case'.programs, 4, TokenCache(case'.pageSize), TokenTable,
                             case'.pageSize)
               /\ ScoresVisible(case'.qp, case'.length, case'.ratio, case'.programs,
                                TokenCache(case'.pageSize), TokenTable, case'.pageSize, 2)
    <3>1. PickSelect
      BY <2>1, FamilyOfCase
    <3>2. PICK s \in Selections :
            \E qp \in 0..s.length - 1 :
              case' = [family |-> "select", ratio |-> s.ratio, blockTopk |-> s.blockTopk,
                       length |-> s.length, qp |-> qp, programs |-> s.programs,
                       pageSize |-> s.pageSize]
      BY <3>1 DEF PickSelect, Pick
    <3>3. PICK qp \in 0..s.length - 1 :
            case' = [family |-> "select", ratio |-> s.ratio, blockTopk |-> s.blockTopk,
                     length |-> s.length, qp |-> qp, programs |-> s.programs,
                     pageSize |-> s.pageSize]
      BY <3>2
    <3>4. PICK ratio, blockTopk, length, programs, size :
            /\ ratio = s.ratio /\ blockTopk = s.blockTopk /\ length = s.length
            /\ programs = s.programs /\ size = s.pageSize
      OBVIOUS
    <3>5. /\ case'.ratio = ratio /\ case'.blockTopk = blockTopk /\ case'.length = length
          /\ case'.programs = programs /\ case'.pageSize = size /\ case'.qp = qp
      BY <3>3, <3>4
    <3>6. /\ length \in Nat /\ ratio \in Nat \ {0} /\ blockTopk \in Nat \ {0}
          /\ programs \in Nat /\ size \in {2, 16} /\ qp \in 0..length - 1
          /\ length <= 5 * size
      BY <3>4 DEF Selections
    <3>7. qp + 1 \in 0..5 * size /\ (qp + 1) \div ratio \in 0..5 * size
      <4>1. qp \in Nat /\ qp + 1 <= length
        BY <3>6
      <4>2. PICK m \in Nat : m = qp + 1
        BY <4>1
      <4>3. m \div ratio \in 0..m
        <5>1. ratio = 2 \/ ratio = 3 \/ ratio = 16
          BY <3>4 DEF Selections
        <5> QED
          BY <4>2, <5>1
      <4> QED
        BY <3>6, <4>1, <4>2, <4>3
    <3>8. PICK cache : cache = TokenCache(size)
      OBVIOUS
    <3>9. /\ Stores(cache, TokenTable, size, qp + 1) /\ Len(TokenTable) \in Nat
          /\ Stores(cache, TokenTable, size, (qp + 1) \div ratio)
      <4>1. ASSUME NEW n \in 0..5 * size
            PROVE  Stores(TokenCache(size), TokenTable, size, n) /\ Len(TokenTable) = 5
        BY <3>6, TokenPages
      <4> QED
        BY <3>7, <3>8, <4>1
    <3>10. size \in Nat \ {0} /\ size \in Nat /\ 4 \in Nat /\ 2 \in Nat \ {0} /\ 2 \in Nat
      BY <3>6
    <3>11. CausalOnce(qp, length, ratio, blockTopk, programs, 4, cache, TokenTable, size)
      BY <3>6, <3>9, <3>10, AttendsCausally
    <3>12. ScoresVisible(qp, length, ratio, programs, cache, TokenTable, size, 2)
      BY <3>6, <3>9, <3>10, ScoresAreVisible
    <3> QED
      BY <3>5, <3>8, <3>11, <3>12
  <2>2. ASSUME Next, case'.family = "splits"
        PROVE  SplitsPartition(case'.width, case'.programs, case'.groupSize)
    <3>1. PickSplits
      BY <2>2, FamilyOfCase
    <3>2. /\ case'.width \in Nat \ {0} /\ case'.programs \in Nat
          /\ case'.groupSize \in Nat
      BY <3>1 DEF PickSplits, Pick
    <3> QED
      BY <3>2, SplitsDivide
  <2>3. ASSUME Next, case'.family = "chunks"
        PROVE  LET chunks == Chunks(case'.rows, case'.columns, case'.workspace)
               IN  /\ UNION chunks = 0..case'.rows - 1
                   /\ \A a, b \in chunks : a = b \/ a \cap b = {}
    <3>1. PickChunks
      BY <2>3, FamilyOfCase
    <3>2. case'.rows \in Nat /\ case'.columns \in Nat /\ case'.workspace \in Nat
      BY <3>1 DEF PickChunks, Pick
    <3> QED
      BY <3>2, ChunksDivide
  <2>4. CASE Next
    BY <2>1, <2>2, <2>3, <2>4 DEF SelectionIsCausal
  <2>5. CASE UNCHANGED case
    BY <2>5 DEF SelectionIsCausal
  <2> QED
    BY <2>4, <2>5
<1> QED
  BY <1>1, <1>2, PTL DEF Spec
\* A token's n-gram keys do not depend on how its history was cut into steps,
\* on padding, or on whether the GPU or the offload process computes them
\* (Qwen4ExpNGramEmbedding.forward_impl).
THEOREM NGramKeysTheorem == Spec => []NGramKeys
<1>1. Init => NGramKeys
  BY DEF Init, NGramKeys
<1>2. NGramKeys /\ [Next]_case => NGramKeys'
  <2>1. ASSUME Next, case'.family = "ngram"
        PROVE  KeysMatchHistory(case'.requests, case'.padding, case'.offload)
    <3> DEFINE Tok == {EOS, "a", "b", "c", "d", "x", "y"}
    <3>1. PickNGram
      BY <2>1, FamilyOfCase
    <3>2. PICK long \in Strings({EOS, "a", "b"}, 4), short \in {<<"c">>, <<EOS, "d">>},
               padding \in {<< >>, <<"x">>, <<"x", "y">>}, offload \in BOOLEAN :
            \E from \in 0..Len(long), to \in 0..Len(long), cut \in 0..Len(short) - 1 :
              /\ from < to
              /\ Len(short) - cut + (to - from) + Len(padding) <= MaxTotalTokens
              /\ case' = [family |-> "ngram", padding |-> padding, offload |-> offload,
                          requests |-> <<[history |-> long, computed |-> from, upto |-> to],
                                         [history |-> short, computed |-> cut,
                                          upto |-> Len(short)]>>]
      BY <3>1 DEF PickNGram, Pick
    <3>3. PICK from \in 0..Len(long), to \in 0..Len(long), cut \in 0..Len(short) - 1 :
              /\ from < to
              /\ Len(short) - cut + (to - from) + Len(padding) <= MaxTotalTokens
              /\ case' = [family |-> "ngram", padding |-> padding, offload |-> offload,
                          requests |-> <<[history |-> long, computed |-> from, upto |-> to],
                                         [history |-> short, computed |-> cut,
                                          upto |-> Len(short)]>>]
      BY <3>2
    <3>4. PICK first, second, requests :
            /\ first = [history |-> long, computed |-> from, upto |-> to]
            /\ second = [history |-> short, computed |-> cut, upto |-> Len(short)]
            /\ requests = <<first, second>>
      OBVIOUS
    <3>5. EOS \in Tok /\ padding \in Seq(Tok) /\ Len(padding) \in Nat
      <4>1. EOS \in Tok /\ "x" \in Tok /\ "y" \in Tok
        OBVIOUS
      <4> HIDE DEF Tok
      <4>2. << >> \in Seq(Tok) /\ <<"x">> \in Seq(Tok) /\ <<"x", "y">> \in Seq(Tok)
        BY <4>1
      <4>3. padding \in Seq(Tok)
        BY <4>2
      <4> QED
        BY <4>1, <4>3, LenProperties
    <3>6. long \in Seq(Tok) /\ Len(long) \in Nat
      <4>1. PICK k \in 0..4 : long \in [1..k -> {EOS, "a", "b"}]
        BY DEF Strings
      <4>2. long \in [1..k -> Tok]
        BY <4>1
      <4> HIDE DEF Tok
      <4> QED
        BY <4>2
    <3>7. short \in Seq(Tok) /\ Len(short) \in Nat
      <4>1. "c" \in Tok /\ EOS \in Tok /\ "d" \in Tok
        OBVIOUS
      <4> HIDE DEF Tok
      <4>2. <<"c">> \in Seq(Tok) /\ <<EOS, "d">> \in Seq(Tok)
        BY <4>1
      <4>3. short \in Seq(Tok)
        BY <4>2
      <4> QED
        BY <4>3, LenProperties
    <3> HIDE DEF Tok
    <3>8. IsStep(first, Tok) /\ IsStep(second, Tok)
      BY <3>3, <3>4, <3>6, <3>7 DEF IsStep
    <3>9. StepsOf(requests, 2, Tok)
      <4>1. Len(requests) = 2 /\ DOMAIN requests = 1..2 /\ requests[1] = first /\ requests[2] = second
        BY <3>4
      <4>2. \A r \in 1..2 : r = 1 \/ r = 2
        OBVIOUS
      <4> QED
        BY <3>8, <4>1, <4>2 DEF StepsOf
    <3>10. StartsOf(requests)[2 + 1] + Len(padding) <= MaxTotalTokens
      <4>1. PICK start, len : start = StartsOf(requests) /\ len = Lengths(requests)
        OBVIOUS
      <4>2. Sums(2, len, start)
        <5>1. 2 \in Nat
          OBVIOUS
        <5> QED
          BY <3>9, <4>1, <5>1, StartsAreSums
      <4>3. len[1] = to - from /\ len[2] = Len(short) - cut
        BY <3>4, <4>1, SMTT(30) DEF Lengths
      <4>4. start[1] = 0 /\ start[2] = 0 + len[1] /\ start[3] = start[2] + len[2]
        <5>1. start[1] = 0 /\ \A k \in 1..2 : start[k + 1] = start[k] + len[k]
          BY <4>2 DEF Sums
        <5>2. start[1 + 1] = start[1] + len[1] /\ start[2 + 1] = start[2] + len[2]
          BY <5>1
        <5> QED
          BY <5>1, <5>2
      <4> QED
        BY <3>3, <3>5, <3>6, <3>7, <4>1, <4>3, <4>4
    <3>11. KeysMatchHistory(requests, padding, offload)
      <4>1. 2 \in Nat /\ MaxTotalTokens \in Nat /\ NgramSizeAssumption
        BY NgramSizeAssumption, MaxTotalTokensAssumption DEF MaxTotalTokensAssumption
      <4> QED
        BY <3>5, <3>9, <3>10, <4>1, KeysAlwaysMatch
    <3> QED
      BY <3>3, <3>4, <3>11
  <2>2. CASE Next
    BY <2>1, <2>2 DEF NGramKeys
  <2>3. CASE UNCHANGED case
    BY <2>3 DEF NGramKeys
  <2> QED
    BY <2>2, <2>3
<1> QED
  BY <1>1, <1>2, PTL DEF Spec

\* The runner of the offload says READY only with weights for every parameter
\* and one destination per layer and TP rank, in whatever order the workers
\* registered, and refuses no full set of them (_load_weights,
\* accept_registrations).
THEOREM RunnerIsCompleteTheorem == Spec => []RunnerIsComplete
<1>1. Init => RunnerIsComplete
  BY DEF Init, RunnerIsComplete
<1>2. RunnerIsComplete /\ [Next]_case => RunnerIsComplete'
  <2>1. ASSUME Next, case'.family = "weights"
        PROVE  LoadsItsLayers(case'.model, case'.checkpoint)
    <3> DEFINE Words == {"layers", "1", "10", "ple", "weight", "scale"}
    <3>1. PickWeights
      BY <2>1, FamilyOfCase
    <3>2. PICK layers \in SUBSET {Ple1, Ple2}, mappings \in SUBSET Mappings :
            case' = [family |-> "weights", model |-> [layers |-> layers, params |-> Params(layers)],
                     checkpoint |-> {[mapped |-> m] : m \in mappings}]
      BY <3>1 DEF PickWeights, Pick
    <3>3. case'.model.layers = layers /\ case'.model.params = Params(layers)
      BY <3>2
    <3>4. ASSUME NEW l \in layers, NEW name \in Words PROVE IsStrictPrefix(l, Append(l, name))
      <4>1. Ple1 \in Seq(Words) /\ Ple2 \in Seq(Words)
        <5>1. "layers" \in Words /\ "1" \in Words /\ "10" \in Words /\ "ple" \in Words
          OBVIOUS
        <5> HIDE DEF Words
        <5> QED
          BY <5>1 DEF Ple1, Ple2
      <4>2. l \in Seq(Words)
        BY <4>1
      <4> QED
        <5> HIDE DEF Words
        <5> QED
          BY <4>2, AppendedIsLonger
    <3>5. \A p \in Params(layers) : \E l \in layers, name \in {"weight", "scale"} : p = Append(l, name)
      BY DEF Params
    <3>6. ASSUME NEW p \in Params(layers) PROVE \E l \in layers : IsStrictPrefix(l, p)
      <4>1. PICK l \in layers, name \in {"weight", "scale"} : p = Append(l, name)
        BY <3>5
      <4>2. name \in Words
        BY <4>1
      <4> QED
        BY <3>4, <4>1, <4>2
    <3>7. OwnsParams(case'.model)
      BY <3>3, <3>6, Zenon DEF OwnsParams, InOffloadLayer
    <3> QED
      BY <3>7, WeightsComplete
  <2>2. ASSUME Next, case'.family = "registration"
        PROVE  TargetsComplete(case'.items, case'.dp, case'.tp, {"a", "b"})
    <3>1. PickRegistration
      BY <2>2, FamilyOfCase
    <3>2. PICK dp \in 1..2, tp \in 1..2, n \in 1..5, odd \in 0..5 :
            \E ranks \in [1..n -> (0..dp - 1) \X (0..tp - 1)] :
              case' = [family |-> "registration", dp |-> dp, tp |-> tp,
                       items |-> [i \in 1..n |-> [dp |-> ranks[i][1], tp |-> ranks[i][2],
                                    layers |-> IF i = odd THEN {"a"} ELSE {"a", "b"}]]]
      BY <3>1 DEF PickRegistration, Pick
    <3>3. PICK ranks \in [1..n -> (0..dp - 1) \X (0..tp - 1)] :
            case' = [family |-> "registration", dp |-> dp, tp |-> tp,
                     items |-> [i \in 1..n |-> [dp |-> ranks[i][1], tp |-> ranks[i][2],
                                  layers |-> IF i = odd THEN {"a"} ELSE {"a", "b"}]]]
      BY <3>2
    <3>4. PICK items : items = [i \in 1..n |-> [dp |-> ranks[i][1], tp |-> ranks[i][2],
                                  layers |-> IF i = odd THEN {"a"} ELSE {"a", "b"}]]
      OBVIOUS
    <3>5. case'.items = items /\ case'.dp = dp /\ case'.tp = tp
      BY <3>3, <3>4
    <3>6. n \in Nat /\ dp \in Nat /\ tp \in Nat \ {0}
      OBVIOUS
    <3>7. AreItems(items, n)
      <4>1. DOMAIN items = 1..n
        BY <3>4, Zenon
      <4>2. Len(items) = n
        BY <3>4, <3>6
      <4>3. ASSUME NEW i \in 1..n
            PROVE  items[i] = [dp |-> items[i].dp, tp |-> items[i].tp, layers |-> items[i].layers]
        <5>1. PICK layers : items[i] = [dp |-> ranks[i][1], tp |-> ranks[i][2], layers |-> layers]
          BY <3>4
        <5> QED
          BY <5>1
      <4> QED
        BY <4>1, <4>2, <4>3 DEF AreItems
    <3>8. TargetsComplete(items, dp, tp, {"a", "b"})
      BY <3>6, <3>7, TargetsAlwaysComplete
    <3> QED
      BY <3>5, <3>8
  <2>3. CASE Next
    BY <2>1, <2>2, <2>3 DEF RunnerIsComplete
  <2>4. CASE UNCHANGED case
    BY <2>4 DEF RunnerIsComplete
  <2> QED
    BY <2>3, <2>4
<1> QED
  BY <1>1, <1>2, PTL DEF Spec

LEMMA PointCovered ==
  ASSUME NEW p \in CalibrationPoints, TrafficAt(p).ok,
         NEW traffic, traffic = TrafficAt(p), NEW peaks, peaks = PeaksAt(p), NEW margin,
         NEW dumps, NEW files, dumps = [r \in 0..files - 1 |-> RankDump(peaks[r], traffic.calls)]
  PROVE  SidecarCovers(traffic, peaks, dumps, 2, 2, margin)
<1>1. DumpsDeepest(traffic)
  <2>1. PICK before, prefill, gen, actual :
          before = p.before /\ prefill = p.prefill /\ gen = p.gen /\ actual = p.actual
    OBVIOUS
  <2>2. before \in Nat /\ prefill \in Nat \ {0} /\ gen \in Nat
    BY <2>1 DEF CalibrationPoints
  <2>3. PICK decodes : decodes = [i \in 1..Len(Arms) |-> gen]
    OBVIOUS
  <2>4. decodes \in [1..Len(Arms) -> Nat]
    BY <2>2, <2>3
  <2>5. traffic = Traffic(before, prefill, decodes, 126, actual)
    BY <2>1, <2>3, Zenon DEF TrafficAt
  <2> QED
    BY <2>2, <2>4, <2>5, FlushReachesDump
<1>2. LastCall(p) \in Int
  <2>1. traffic.deep \in Int
    BY <1>1 DEF DumpsDeepest
  <2>2. p.peak \in Int
    BY DEF CalibrationPoints
  <2> QED
    BY <2>1, <2>2 DEF LastCall
<1>3. AreDumps(dumps, peaks, 2, traffic.calls)
  <2>1. \A r \in DOMAIN dumps : dumps[r] = RankDump(peaks[r], traffic.calls)
    OBVIOUS
  <2>2. ASSUME NEW r \in 0..2 - 1, NEW name \in DOMAIN peaks[r]
        PROVE  peaks[r][name].call \in Int /\ peaks[r][name].k \in Int /\ peaks[r][name].v \in Int
    <3>1. r \in 0..1
      OBVIOUS
    <3>2. PICK names : names = {"q0", IF r = 1 THEN p.other ELSE "q1"} \cup p.extra
      OBVIOUS
    <3>3. PICK k : k = IF r = p.rank THEN p.value ELSE 2
      OBVIOUS
    <3>4. peaks[r] = [n \in names |-> [call |-> LastCall(p), k |-> k, v |-> 3]]
      BY <3>1, <3>2, <3>3 DEF PeaksAt
    <3>5. name \in names
      BY <3>4
    <3>6. peaks[r][name] = [call |-> LastCall(p), k |-> k, v |-> 3]
      BY <3>4, <3>5, Zenon
    <3>7. k \in Int
      BY <3>3 DEF CalibrationPoints, Bad
    <3> QED
      BY <3>6, <3>7, <1>2
  <2> QED
    BY <2>1, <2>2 DEF AreDumps
<1>4. 2 \in Nat
  OBVIOUS
<1> QED
  BY <1>1, <1>3, <1>4, SidecarAlwaysCovers

\* A sidecar that is written covers all traffic up to the deepest prompt on
\* every rank, and the edit of config.json changes the one key and survives an
\* interruption (qsa_calib_traffic.py, qsa_calib_merge.py, make-e1-config.py).
THEOREM CalibrationIsSafeTheorem == Spec => []CalibrationIsSafe
<1>1. Init => CalibrationIsSafe
  BY DEF Init, CalibrationIsSafe
<1>2. CalibrationIsSafe /\ [Next]_case => CalibrationIsSafe'
  <2>1. ASSUME Next, case'.family = "calibration", case'.traffic.ok
        PROVE  SidecarCovers(case'.traffic, case'.peaks, Dumps(case)', 2, 2, case'.margin)
    <3>1. PickCalibration
      BY <2>1, FamilyOfCase
    <3>2. PICK p \in CalibrationPoints :
            case' = [family |-> "calibration", traffic |-> TrafficAt(p), peaks |-> PeaksAt(p),
                     files |-> p.files, margin |-> p.margin]
      BY <3>1 DEF PickCalibration, Pick
    <3>3. PICK traffic, peaks, files, margin :
            traffic = TrafficAt(p) /\ peaks = PeaksAt(p) /\ files = p.files /\ margin = p.margin
      OBVIOUS
    <3>4. case'.traffic = traffic /\ case'.peaks = peaks /\ case'.files = files /\ case'.margin = margin
      BY <3>2, <3>3
    <3>5. TrafficAt(p).ok
      BY <2>1, <3>3, <3>4
    <3>6. PICK dumps : dumps = [r \in 0..files - 1 |-> RankDump(peaks[r], traffic.calls)]
      OBVIOUS
    <3>7. SidecarCovers(traffic, peaks, dumps, 2, 2, margin)
      BY <3>3, <3>5, <3>6, PointCovered
    <3>8. Dumps(case)' = dumps
      BY <3>4, <3>6 DEF Dumps
    <3> QED
      BY <3>4, <3>7, <3>8
  <2>2. ASSUME Next, case'.family = "config"
        PROVE  OneKeyChanges(case'.config, case'.linked)
    <3>1. PickConfig
      BY <2>2, FamilyOfCase
    <3>2. PICK topKeys \in {<<"arch", "text_config">>, <<KEY, "arch", "text_config">>,
                            <<"arch", "text_config", KEY>>, <<"arch">>},
               textKeys \in {<< >>, <<"hidden">>, <<KEY, "hidden">>, <<"hidden", KEY>>},
               val \in {VAL, "bf16"}, linked \in BOOLEAN :
            case' = [family |-> "config", linked |-> linked,
                     config |-> [top  |-> [i \in DOMAIN topKeys |-> [key |-> topKeys[i], val |-> VAL]],
                                 text |-> [i \in DOMAIN textKeys |-> [key |-> textKeys[i], val |-> val]]]]
      BY <3>1, Zenon DEF PickConfig, Pick
    <3>3. PICK E : E = [key : {"arch", "text_config", KEY, "hidden"}, val : {VAL, "bf16"}]
      OBVIOUS
    <3>4. PICK top : top = [i \in DOMAIN topKeys |-> [key |-> topKeys[i], val |-> VAL]]
      OBVIOUS
    <3>5. PICK text : text = [i \in DOMAIN textKeys |-> [key |-> textKeys[i], val |-> val]]
      OBVIOUS
    <3>6. top \in Seq(E)
      <4>1. \E n \in Nat : DOMAIN topKeys = 1..n
                           /\ \A i \in 1..n : topKeys[i] \in {"arch", "text_config", KEY, "hidden"}
        OBVIOUS
      <4>2. PICK n \in Nat : DOMAIN topKeys = 1..n
                             /\ \A i \in 1..n : topKeys[i] \in {"arch", "text_config", KEY, "hidden"}
        BY <4>1
      <4>3. \A i \in 1..n : [key |-> topKeys[i], val |-> VAL] \in E
        BY <3>3, <4>2
      <4> QED
        BY <3>4, <4>2, <4>3
    <3>7. text \in Seq(E)
      <4>1. \E n \in Nat : DOMAIN textKeys = 1..n
                           /\ \A i \in 1..n : textKeys[i] \in {"arch", "text_config", KEY, "hidden"}
        <5>1. CASE textKeys = << >>
          <6>1. 0 \in Nat /\ DOMAIN textKeys = 1..0
            BY <5>1
          <6> QED
            BY <6>1
        <5>2. CASE textKeys \in {<<"hidden">>}
          <6>1. 1 \in Nat /\ DOMAIN textKeys = 1..1 /\ textKeys[1] = "hidden"
            BY <5>2
          <6> QED
            BY <6>1
        <5>3. CASE textKeys \in {<<KEY, "hidden">>, <<"hidden", KEY>>}
          <6>1. /\ 2 \in Nat /\ DOMAIN textKeys = 1..2
                /\ textKeys[1] \in {KEY, "hidden"} /\ textKeys[2] \in {KEY, "hidden"}
            BY <5>3
          <6> QED
            BY <6>1
        <5> QED
          BY <5>1, <5>2, <5>3
      <4>2. PICK n \in Nat : DOMAIN textKeys = 1..n
                             /\ \A i \in 1..n : textKeys[i] \in {"arch", "text_config", KEY, "hidden"}
        BY <4>1
      <4>3. \A i \in 1..n : [key |-> textKeys[i], val |-> val] \in E
        BY <3>3, <4>2
      <4> QED
        BY <3>5, <4>2, <4>3
    <3>8. [key |-> KEY, val |-> VAL] \in E
      BY <3>3
    <3>9. OneKeyChanges([top |-> top, text |-> text], linked)
      BY <3>6, <3>7, <3>8, EditChangesOneKey
    <3>10. case'.config = [top |-> top, text |-> text] /\ case'.linked = linked
      BY <3>2, <3>4, <3>5
    <3> QED
      BY <3>9, <3>10
  <2>3. CASE Next
    BY <2>1, <2>2, <2>3 DEF CalibrationIsSafe
  <2>4. CASE UNCHANGED case
    BY <2>4 DEF CalibrationIsSafe, Dumps
  <2> QED
    BY <2>3, <2>4
<1> QED
  BY <1>1, <1>2, PTL DEF Spec

\* A checkpoint in one call, or split into two.
LEMMA CallsOfOne ==
  ASSUME NEW c, NEW groups, Len(groups) = 1, groups[1] = Whole(c)
  PROVE  AreCalls(groups, 1, c)
<1>1. \A i \in 1..1 : groups[i] \subseteq Whole(c)
  OBVIOUS
<1>2. Whole(c) \subseteq SeenAfter(groups, 1)
  <2>1. 1 \in 1..1
    OBVIOUS
  <2> QED
    BY <2>1 DEF SeenAfter
<1> QED
  BY <1>1, <1>2 DEF AreCalls

LEMMA CallsOfTwo ==
  ASSUME NEW c, NEW groups, NEW part \in SUBSET Whole(c),
         Len(groups) = 2, groups[1] = part, groups[2] = Whole(c) \ part
  PROVE  AreCalls(groups, 2, c)
<1>1. \A i \in 1..2 : groups[i] \subseteq Whole(c)
  <2>1. \A i \in 1..2 : i = 1 \/ i = 2
    OBVIOUS
  <2> QED
    BY <2>1
<1>2. ASSUME NEW w \in Whole(c)
      PROVE  w \in SeenAfter(groups, 2)
  <2>1. 1 \in 1..2 /\ 2 \in 1..2
    OBVIOUS
  <2>2. w \in groups[1] \/ w \in groups[2]
    OBVIOUS
  <2> QED
    BY <2>1, <2>2, Zenon DEF SeenAfter
<1> QED
  BY <1>1, <1>2 DEF AreCalls

\* Every row a rank holds is dequantized to what the checkpoint says, however
\* its tensors were grouped into calls of load_weights and whether the table is
\* beside the layer or in the offload process, and a row is as wide as the
\* worker expects (load_weights, _dequantize_embeddings).
THEOREM TableHoldsCheckpointTheorem == Spec => []TableHoldsCheckpoint
<1>1. Init => TableHoldsCheckpoint
  BY DEF Init, TableHoldsCheckpoint
<1>2. TableHoldsCheckpoint /\ [Next]_case => TableHoldsCheckpoint'
  <2>1. ASSUME Next, case'.family = "table"
        PROVE  RowsOfCheckpoint(case'.c, case'.groups, case'.lo, case'.hi)
    <3>1. PickTable
      BY <2>1, FamilyOfCase
    <3>2. PICK method \in {"none", "fp8", "nvfp4"}, parts \in 2..4, range \in {<<0, 5>>, <<0, 3>>, <<3, 5>>} :
            \E outers \in [0..parts - 1 -> {7, 9}] :
              LET c == [vocab |-> 5, parts |-> parts, method |-> method, outers |-> outers]
              IN  \E groups \in Groupings(Tensors(c, 0..parts - 1), method) :
                    case' = [family |-> "table", c |-> c, groups |-> groups, lo |-> range[1], hi |-> range[2]]
      BY <3>1 DEF PickTable, Pick
    <3>3. PICK outers \in [0..parts - 1 -> {7, 9}] :
              LET c == [vocab |-> 5, parts |-> parts, method |-> method, outers |-> outers]
              IN  \E groups \in Groupings(Tensors(c, 0..parts - 1), method) :
                    case' = [family |-> "table", c |-> c, groups |-> groups, lo |-> range[1], hi |-> range[2]]
      BY <3>2, Zenon
    <3>4. PICK c : c = [vocab |-> 5, parts |-> parts, method |-> method, outers |-> outers]
      OBVIOUS
    <3>5. PICK groups \in Groupings(Tensors(c, 0..parts - 1), method) :
            case' = [family |-> "table", c |-> c, groups |-> groups, lo |-> range[1], hi |-> range[2]]
      BY <3>3, <3>4, Zenon
    <3>6. PICK lo, hi : lo = range[1] /\ hi = range[2]
      OBVIOUS
    <3>7. case'.c = c /\ case'.groups = groups /\ case'.lo = lo /\ case'.hi = hi
      BY <3>5, <3>6
    <3>8. lo \in Nat /\ hi \in Nat /\ hi <= c.vocab
      BY <3>4, <3>6
    <3>9. IsCheckpoint(c)
      BY <3>4 DEF IsCheckpoint
    <3>10. c.parts = parts /\ c.method = method
      BY <3>4
    <3>11. PICK whole : whole = Whole(c)
      OBVIOUS
    <3>12. groups \in Groupings(whole, method)
      BY <3>10, <3>11 DEF Whole
    <3>13. \E n \in Nat : /\ AreCalls(groups, n, c)
                          /\ c.method = "nvfp4" => n = 1 /\ groups[1] = Whole(c)
      <4>1. CASE groups = <<whole>>
        <5>1. Len(groups) = 1 /\ groups[1] = whole
          BY <4>1
        <5>3. AreCalls(groups, 1, c)
          BY <3>11, <5>1, CallsOfOne
        <5> QED
          BY <3>11, <5>1, <5>3
      <4>2. CASE method # "nvfp4" /\ \E part \in SUBSET whole : groups = <<part, whole \ part>>
        <5>1. PICK part \in SUBSET whole : groups = <<part, whole \ part>>
          BY <4>2
        <5>2. Len(groups) = 2 /\ groups[1] = part /\ groups[2] = whole \ part
          BY <5>1
        <5>3. AreCalls(groups, 2, c)
          BY <3>11, <5>2, CallsOfTwo
        <5> QED
          BY <3>10, <4>2, <5>3
      <4>3. groups = <<whole>> \/ (method # "nvfp4" /\ \E part \in SUBSET whole : groups = <<part, whole \ part>>)
        BY <3>12 DEF Groupings
      <4> QED
        BY <4>1, <4>2, <4>3
    <3>14. RowsOfCheckpoint(c, groups, lo, hi)
      BY <3>8, <3>9, <3>13, TableAlwaysHolds
    <3> QED
      BY <3>7, <3>14
  <2>2. ASSUME Next, case'.family = "quant"
        PROVE  RowsFit(case'.q, case'.fp8Table, case'.heads, case'.headDim)
    <3>1. PickQuant
      BY <2>2, FamilyOfCase
    <3>2. case'.heads \in Nat /\ case'.headDim \in Nat
      BY <3>1 DEF PickQuant, Pick
    <3> QED
      BY <3>2, RowsAlwaysFit
  <2>3. CASE Next
    BY <2>1, <2>2, <2>3 DEF TableHoldsCheckpoint
  <2>4. CASE UNCHANGED case
    BY <2>4 DEF TableHoldsCheckpoint
  <2> QED
    BY <2>3, <2>4
<1> QED
  BY <1>1, <1>2, PTL DEF Spec

\* The ids of a head stay in the head's own rows of the table, no product
\* overflows the word, and Miller-Rabin agrees with the definition of a prime
\* up to 2049 (_is_prime_64, _nth_prime_after, __init__).
THEOREM HeadsAreDisjointTheorem == Spec => []HeadsAreDisjoint
<1>1. Init => HeadsAreDisjoint
  BY DEF Init, HeadsAreDisjoint
<1>2. HeadsAreDisjoint /\ [Next]_case => HeadsAreDisjoint'
  <2>1. ASSUME Next, case'.family = "ids"
        PROVE  IdsStayInHead(case'.base, case'.layer, case'.heads, case'.divisor, case'.mixed,
                             case'.hash, case'.vocab, 127)
    <3>1. PickIds
      BY <2>1, FamilyOfCase
    <3>2. PICK base \in {2, 3, 6, 12}, layer \in 0..1, heads \in 1..3, divisor \in {1, 8},
               mixed \in {0, 1, 30, 127}, hash \in {0, 5, 63, 127}, vocab \in {1, 3, 20, 63, 64, 100} :
            case' = [family |-> "ids", base |-> base, layer |-> layer, heads |-> heads,
                     divisor |-> divisor, mixed |-> mixed, hash |-> hash, vocab |-> vocab]
      BY <3>1, Zenon DEF PickIds, Pick
    <3>3. HeadsHaveSizes(base, layer, heads)
      <4>1. ASSUME NEW h \in 0..heads - 1
            PROVE  HeadSize(base, layer, heads, h) \in Nat \ {0}
        <5>1. PICK start, count : start = base - 1 /\ count = layer * heads + h + 1
          OBVIOUS
        <5>2. layer = 0 \/ layer = 1
          OBVIOUS
        <5>3. start \in 1..11 /\ count \in 0..6
          BY <5>1, <5>2
        <5>4. HeadSize(base, layer, heads, h) = NthPrimeAfter(start, count)
          BY <5>1, Zenon DEF HeadSize
        <5> QED
          BY <5>3, <5>4, SmallSizes
      <4> QED
        BY <4>1 DEF HeadsHaveSizes
    <3>4. /\ heads \in Nat /\ divisor \in Nat \ {0} /\ mixed \in Int /\ hash \in Nat
          /\ vocab \in Nat \ {0} /\ 127 \in Nat /\ vocab <= 127 + 1
      OBVIOUS
    <3>5. IdsStayInHead(base, layer, heads, divisor, mixed, hash, vocab, 127)
      BY <3>3, <3>4, IdsInOwnHead
    <3>6. /\ case'.base = base /\ case'.layer = layer /\ case'.heads = heads
          /\ case'.divisor = divisor /\ case'.mixed = mixed /\ case'.hash = hash
          /\ case'.vocab = vocab
      BY <3>2
    <3> QED
      BY <3>5, <3>6, Zenon
  <2>2. ASSUME Next, case'.family = "prime", NEW n \in case'.from..case'.from + 49
        PROVE  IsPrime64(n) = IsPrime(n)
    <3>1. PickPrime
      BY <2>2, FamilyOfCase
    <3>2. PICK k \in 1..41 : case' = [family |-> "prime", from |-> 50 * (k - 1)]
      BY <3>1 DEF PickPrime, Pick
    <3>3. case'.from = 50 * (k - 1)
      BY <3>2
    <3>4. n \in Nat /\ n <= LastTried
      BY <3>3 DEF LastTried
    <3> QED
      BY <3>4, PrimeTestAgrees
  <2>3. CASE Next
    BY <2>1, <2>2, <2>3 DEF HeadsAreDisjoint
  <2>4. CASE UNCHANGED case
    BY <2>4 DEF HeadsAreDisjoint
  <2> QED
    BY <2>3, <2>4
<1> QED
  BY <1>1, <1>2, PTL DEF Spec

==============================================================================
