--------------------------- MODULE ModelStepsProofs ---------------------------
(***************************************************************************)
(* The two caches the model keeps beside the KV cache are right: the index  *)
(* keys of a QSA layer and the short-conv state of a PLE layer, for every   *)
(* compression ratio, kernel, dilation, number of drafts, set of requests,  *)
(* cut of the prompts into chunks and order of preemptions.                 *)
(***************************************************************************)
EXTENDS ModelSteps, DataLemmas

-----------------------------------------------------------------------------
(* Arithmetic of groups and of the ring.                                   *)

\* Places of a ring of size k repeat only after k positions.
LEMMA SamePlace ==
  ASSUME NEW k \in Nat \ {0}, NEW a \in Nat, NEW b \in Nat,
         a % k = b % k, a < b + k, b < a + k
  PROVE  a = b
<1> DEFINE da == a \div k  db == b \div k
<1>1. da \in Nat /\ db \in Nat /\ a = k * da + (a % k) /\ b = k * db + (b % k)
  BY Division
<1> HIDE DEF da, db
<1>2. CASE da < db
  <2>1. k * (da + 1) <= k * db
    BY <1>1, <1>2
  <2> QED
    BY <1>1, <2>1
<1>3. CASE db < da
  <2>1. k * (db + 1) <= k * da
    BY <1>1, <1>3
  <2> QED
    BY <1>1, <2>1
<1> QED
  BY <1>1, <1>2, <1>3

LEMMA RingIsWide ==
  /\ Qsa!RingSize \in Nat \ {0}
  /\ Qsa!RingSize >= CompressRatio + NumSpec
<1> DEFINE n == CompressRatio + NumSpec + CompressRatio - 1
           d == n \div CompressRatio
<1>1. n \in Nat
  BY StepsAssumption, ConvAssumption
<1>2. d \in Nat /\ n < CompressRatio * d + CompressRatio
  BY <1>1, Division, StepsAssumption
<1>3. Qsa!RingSize = CompressRatio * d
  BY DEF Qsa!RingSize
<1> HIDE DEF d
<1>4. CompressRatio * d \in Nat
  BY <1>2, StepsAssumption
<1> QED
  BY <1>2, <1>3, <1>4, StepsAssumption, ConvAssumption

LEMMA DivisionMonotone ==
  ASSUME NEW a \in Nat, NEW b \in Nat, NEW k \in Nat \ {0}, a <= b
  PROVE  k * (a \div k) <= k * (b \div k)
<1> DEFINE da == a \div k  db == b \div k
<1>1. da \in Nat /\ db \in Nat /\ k * da <= a /\ b < k * db + k
  BY Division
<1> HIDE DEF da, db
<1>2. da <= db
  <2>1. SUFFICES ASSUME db < da PROVE FALSE
    BY <1>1
  <2>2. k * (db + 1) <= k * da
    BY <1>1, <2>1
  <2> QED
    BY <1>1, <2>2
<1> QED
  BY <1>1, <1>2 DEF da, db

-----------------------------------------------------------------------------
(* The batches the model is given.                                         *)

\* What the caches need to know of a row that stands for a request.
OwnRow(row) ==
  /\ row.req \in Requests
  /\ row.slot = slot[row.req] /\ row.slot # NullSlot
  /\ row.first = computed[row.req]
  /\ row.len \in Nat /\ row.good \in Nat /\ row.good <= row.len
  /\ row.good = row.len \/ row.len <= NumSpec + 1
  /\ row.spec \/ computed[row.req] + row.good <= total[row.req]
  /\ row.spec => row.good \in 1..MaxQuery

\* The request counters and blocks.
CountersInv ==
  /\ total \in [Requests -> Nat]
  /\ computed \in [Requests -> Nat]
  /\ slot \in [Requests -> Slots \union {NullSlot}]
  /\ \A r \in Requests : computed[r] <= total[r]
  /\ \A r \in Requests : slot[r] = NullSlot => computed[r] = 0
  /\ \A r, q \in Requests : slot[r] = slot[q] /\ slot[r] # NullSlot => r = q

\* The ring of a request holds every key of its open group.
RingInv ==
  \A r \in Requests : slot[r] # NullSlot =>
    \A p \in CompressRatio * (computed[r] \div CompressRatio) .. computed[r] - 1 :
      ring[slot[r]][p % Qsa!RingSize] = TrueToken(r, p)

\* The caches and the accepted counts keep their shape.
ShapeInv ==
  /\ \A r \in Requests : total[r] # 0
  /\ accepted \in [Requests -> 1..MaxQuery]
  /\ DOMAIN conv = Slots \union {NullSlot}
  /\ \A s \in Slots \union {NullSlot} : DOMAIN conv[s] = 0..Capacity - 1
  /\ DOMAIN ring = Slots
  /\ \A s \in Slots : DOMAIN ring[s] = 0..Qsa!RingSize - 1

CompressedInv ==
  /\ DOMAIN compressed = Requests
  /\ \A r \in Requests : DOMAIN compressed[r] = Groups(r)

IInv == CountersInv /\ RingInv /\ CompressedInv /\ GroupsPoolOwnKeys

LEMMA RowsAreOwn ==
  ASSUME CountersInv, NEW r \in Requests, NEW row \in Rows(r)
  PROVE  OwnRow(row) /\ row.req = r
<1>1. slot[r] # NullSlot /\ row.good <= row.len
  BY DEF Rows
<1>2. CASE row \in PlainRows(r)
  <2>1. PICK n \in Chunks \union {total[r] - computed[r]} :
          n <= total[r] - computed[r] /\ row = BatchRow(r, n, -1, n)
    BY <1>2 DEF PlainRows
  <2>2. n \in Nat
    BY <2>1, StepsAssumption DEF CountersInv
  <2>3. row.spec = (-1 >= 0)
    BY <2>1, Zenon DEF BatchRow
  <2>4. ~(-1 >= 0)
    OBVIOUS
  <2>5. ~row.spec
    BY <2>3, <2>4, Zenon
  <2> QED
    BY <1>1, <2>1, <2>2, <2>5 DEF OwnRow, BatchRow, CountersInv
<1>3. CASE row \in SpecRows(r)
  <2>1. PICK n \in 0..NumSpec, good \in 1..NumSpec + 1 : row = BatchRow(r, n + 1, n, good)
    BY <1>3 DEF SpecRows
  <2>2. row.spec = (n >= 0)
    BY <2>1, Zenon DEF BatchRow
  <2>3. n >= 0
    BY ConvAssumption
  <2>4. row.spec
    BY <2>2, <2>3, Zenon
  <2> QED
    BY <1>1, <2>1, <2>4, ConvAssumption DEF OwnRow, BatchRow, CountersInv, MaxQuery
<1> QED
  BY <1>2, <1>3 DEF Rows

LEMMA BatchIsOwn ==
  ASSUME CountersInv, NEW rows \in ModelBatches
  PROVE  /\ \A i \in DOMAIN rows :
              OwnRow(rows[i]) \/ (rows[i].req = 0 /\ rows[i].slot = NullSlot)
         /\ \A i, j \in DOMAIN rows :
              rows[i].req = rows[j].req /\ rows[i].req \in Requests => i = j
<1>1. PICK base \in Batches : rows \in Padded(base)
  BY DEF ModelBatches
<1> DEFINE AllRows == UNION {Rows(r) : r \in Requests}
<1>2. PICK n \in 1..NumRequests : base \in [1..n -> AllRows]
  BY <1>1 DEF Batches
<1>3. \A i, j \in DOMAIN base : base[i].req = base[j].req => i = j
  BY <1>1 DEF Batches
<1>4. \A i \in DOMAIN base : OwnRow(base[i])
  <2>1. TAKE i \in DOMAIN base
  <2>2. PICK r \in Requests : base[i] \in Rows(r)
    BY <1>2, <2>1
  <2> QED
    BY <2>2, RowsAreOwn
<1>5. CASE rows = base
  BY <1>3, <1>4, <1>5
<1>6. CASE \E b \in BOOLEAN : rows = Append(base, PadRow(b))
  <2>1. PICK b \in BOOLEAN : rows = Append(base, PadRow(b))
    BY <1>6
  <2>2. PadRow(b).req = 0 /\ PadRow(b).slot = NullSlot
    BY DEF PadRow
  <2>3. n \in Nat /\ base \in Seq(AllRows) /\ Len(base) = n
    BY <1>2, StepsAssumption
  <2> HIDE DEF AllRows
  <2>4. /\ DOMAIN rows = 1..n + 1
        /\ \A i \in 1..n : rows[i] = base[i]
        /\ rows[n + 1] = PadRow(b)
    BY <2>1, <2>3
  <2>5. DOMAIN base = 1..n /\ 0 \notin Requests
    BY <1>2 DEF Requests
  <2> QED
    BY <1>3, <1>4, <2>2, <2>3, <2>4, <2>5
<1> QED
  BY <1>1, <1>5, <1>6 DEF Padded

-----------------------------------------------------------------------------
(* One row: the arithmetic of a step, with f the first position of the row,  *)
(* n its length and g0 the number of its tokens that stay.                  *)

\* The multiple of the ratio below a position.
Floor(p) == CompressRatio * (p \div CompressRatio)

LEMMA FloorIsBelow ==
  ASSUME NEW p \in Nat
  PROVE  Floor(p) \in Nat /\ Floor(p) <= p /\ p < Floor(p) + CompressRatio
<1> DEFINE d == p \div CompressRatio
<1>1. /\ d \in Nat /\ CompressRatio * d <= p /\ p < CompressRatio * d + CompressRatio
      /\ CompressRatio \in Nat \ {0}
  BY Division, StepsAssumption
<1>2. Floor(p) = CompressRatio * d
  BY DEF Floor
<1> HIDE DEF d
<1>3. CompressRatio * d \in Nat
  BY <1>1
<1> QED
  BY <1>1, <1>2, <1>3

LEMMA FloorIsMonotone ==
  ASSUME NEW p \in Nat, NEW q \in Nat, p <= q
  PROVE  Floor(p) <= Floor(q)
  BY DivisionMonotone, StepsAssumption DEF Floor

\* The key a row holds at a position that stays.
LEMMA InputIsTrue ==
  ASSUME NEW row, OwnRow(row), CountersInv,
         NEW p \in Int, row.first <= p, p < row.first + row.good
  PROVE  Input(row)[p - row.first] = TrueToken(row.req, p)
<1>1. row.first \in Nat /\ row.len \in Nat /\ row.good \in Nat /\ row.good <= row.len
      /\ row.req # 0
  BY DEF OwnRow, CountersInv, Requests
<1> DEFINE j == p - row.first
<1>2. j \in 0..row.len - 1 /\ j < row.good /\ row.first + j = p
  BY <1>1
<1> QED
  BY <1>1, <1>2 DEF Input

\* After the step the ring holds the open group of the new position.
LEMMA RingStep ==
  ASSUME CountersInv, RingInv, NEW row, OwnRow(row),
         NEW p \in Floor(row.first + row.good) .. (row.first + row.good) - 1
  PROVE  Qsa!RingAfter(ring[row.slot], row, Input(row))[p % Qsa!RingSize]
           = TrueToken(row.req, p)
<1> DEFINE f == row.first  n == row.len  kept == row.good  S == Qsa!RingSize
           R == CompressRatio
<1>1. /\ f \in Nat /\ n \in Nat /\ kept \in Nat /\ kept <= n
      /\ kept = n \/ n <= NumSpec + 1
      /\ R \in Nat \ {0} /\ NumSpec \in Nat
  BY StepsAssumption, ConvAssumption DEF OwnRow, CountersInv
<1>2. S \in Nat \ {0} /\ S >= R + NumSpec
  BY RingIsWide
<1>3. /\ Floor(f + kept) \in Nat /\ Floor(f + kept) <= f + kept
      /\ f + kept < Floor(f + kept) + R
  <2>1. f + kept \in Nat
    BY <1>1
  <2> QED
    BY <2>1, FloorIsBelow
<1>4. Floor(f) <= Floor(f + kept) /\ Floor(f) \in Nat
  <2>1. f + kept \in Nat /\ f <= f + kept
    BY <1>1
  <2> QED
    BY <1>1, <2>1, FloorIsBelow, FloorIsMonotone
<1>5. p \in Nat /\ p + R > f + kept /\ p < f + kept /\ Floor(f + kept) <= p
  BY <1>1, <1>3
<1> DEFINE here == {q \in Qsa!Stored(row) : q % S = p % S}
<1>6. \A q : q \in Qsa!Stored(row) <=> q \in f..f + n - 1 /\ q + S >= f + n
  BY DEF Qsa!Stored
<1>7. p % S \in 0..S - 1
  BY <1>2, <1>5, Division
<1>8. Qsa!RingAfter(ring[row.slot], row, Input(row))[p % S] =
        IF here = {} THEN ring[row.slot][p % S]
        ELSE Input(row)[(CHOOSE q \in here : TRUE) - f]
  BY <1>7 DEF Qsa!RingAfter
<1> HIDE DEF S, R, f, n, kept
<1>9. \A q \in here : q \in Nat /\ q % S = p % S /\ f <= q /\ q < f + n /\ q + S >= f + n
  BY <1>1, <1>6
<1>10. CASE f <= p
  <2>1. p \in here
    BY <1>1, <1>2, <1>5, <1>6, <1>10
  <2>2. \A q \in here : q = p
    <3>1. TAKE q \in here
    <3>2. q < p + S /\ p < q + S
      BY <1>1, <1>2, <1>5, <1>9, <1>10
    <3> QED
      BY <1>2, <1>5, <1>9, <3>2, SamePlace
  <2> HIDE DEF here
  <2>3. (CHOOSE q \in here : TRUE) = p
    BY <2>1, <2>2
  <2>4. Input(row)[p - f] = TrueToken(row.req, p)
    BY <1>5, <1>10, InputIsTrue DEF f, kept
  <2> QED
    BY <1>8, <2>1, <2>3, <2>4 DEF S
<1>11. CASE p < f
  <2>1. here = {}
    <3>1. SUFFICES ASSUME NEW q \in here PROVE FALSE
      OBVIOUS
    <3>2. q < p + S /\ p < q + S /\ p # q
      BY <1>1, <1>2, <1>5, <1>9, <1>11
    <3> QED
      BY <1>2, <1>5, <1>9, <3>2, SamePlace
  <2>2. p \in Floor(f)..f - 1
    BY <1>1, <1>3, <1>4, <1>5, <1>11
  <2>3. ring[row.slot][p % S] = TrueToken(row.req, p)
    BY <2>2 DEF RingInv, OwnRow, Floor, f, S
  <2> QED
    BY <1>8, <2>1, <2>3 DEF S
<1> QED
  BY <1>1, <1>5, <1>10, <1>11

\* After the step every complete group of the request is pooled.
LEMMA CompressedStep ==
  ASSUME IInv, NEW row, OwnRow(row), NEW g \in Groups(row.req),
         (g + 1) * CompressRatio <= row.first + row.good
  PROVE  Qsa!Compressed(compressed[row.req], ring, row, Input(row))[g]
           = [i \in Qsa!Offsets |-> TrueToken(row.req, Qsa!Member(g, i))]
<1> DEFINE f == row.first  n == row.len  kept == row.good  R == CompressRatio
           r == row.req
           e == R * (g + 1) - 1
<1>1. /\ f \in Nat /\ n \in Nat /\ kept \in Nat /\ kept <= n
      /\ R \in Nat \ {0} /\ g \in Nat /\ r \in Requests
  <2>1. row.req \in Requests /\ row.first \in Nat
    BY DEF OwnRow, IInv, CountersInv
  <2>2. g \in Nat
    BY <2>1, StepsAssumption DEF Groups
  <2> QED
    BY <2>1, <2>2, StepsAssumption DEF OwnRow
<1>2. /\ R * g \in Nat /\ R * (g + 1) = R * g + R /\ g * R = R * g
      /\ (g + 1) * R = R * g + R
  BY <1>1
<1>3. e \in Nat /\ e < f + kept /\ e + 1 = R * g + R
  BY <1>1, <1>2
<1>4. DOMAIN compressed[r] = Groups(r) /\ g \in Groups(r)
  BY <1>1 DEF IInv, CompressedInv
<1>5. Qsa!Compressed(compressed[r], ring, row, Input(row))[g] =
        IF g \in Qsa!ClosedGroups(row) THEN Qsa!Pooled(ring, row, Input(row), g)
        ELSE compressed[r][g]
  BY <1>4 DEF Qsa!Compressed
<1>6. CASE f <= e
  <2>1. e \div R = g
    <3> HIDE DEF e, R, f, kept, n
    <3>1. R * g <= e /\ e < R * g + R
      BY <1>1, <1>2, <1>3
    <3> QED
      BY <1>1, <1>3, <3>1, Quotient
  <2>2. (e + 1) \div R = g + 1
    <3> HIDE DEF e, R, f, kept, n
    <3>1. R * (g + 1) <= e + 1 /\ e + 1 < R * (g + 1) + R /\ e + 1 \in Nat /\ g + 1 \in Nat
      BY <1>1, <1>2, <1>3
    <3> QED
      BY <1>1, <3>1, Quotient
  <2>3. (e + 1) % R = 0
    <3> HIDE DEF e, R
    <3>1. e + 1 = R * ((e + 1) \div R) + ((e + 1) % R) /\ (e + 1) % R \in 0..R - 1
      BY <1>1, <1>3, Division
    <3> QED
      BY <1>1, <1>2, <1>3, <2>2, <3>1
  <2>4. e \in f..f + n - 1
    BY <1>1, <1>3, <1>6
  <2>5. g \in Qsa!ClosedGroups(row)
    BY <2>1, <2>3, <2>4 DEF Qsa!ClosedGroups, Qsa!GroupOf, Qsa!Closes
  <2>6. ASSUME NEW i \in Qsa!Offsets
        PROVE  (IF Qsa!Member(g, i) >= f THEN Input(row)[Qsa!Member(g, i) - f]
                ELSE ring[row.slot][Qsa!Member(g, i) % Qsa!RingSize])
                 = TrueToken(r, Qsa!Member(g, i))
    <3> DEFINE p == Qsa!Member(g, i)
    <3>1. p \in Nat /\ R * g <= p /\ p <= e
      BY <1>1, <1>2, <1>3, <2>6 DEF Qsa!Member, Qsa!Offsets
    <3> HIDE DEF p, e
    <3>2. CASE p >= f
      BY <1>1, <1>3, <3>1, <3>2, InputIsTrue DEF IInv, p
    <3>3. CASE ~(p >= f)
      <4>1. R * (f \div R) <= R * (e \div R)
        BY <1>1, <1>3, <1>6, DivisionMonotone
      <4>2. p \in R * (f \div R)..f - 1
        <5>1. R * (f \div R) \in Nat
          BY <1>1, Division
        <5> QED
          BY <1>1, <2>1, <3>1, <3>3, <4>1, <5>1
      <4> QED
        BY <3>3, <4>2 DEF IInv, RingInv, OwnRow, p
    <3> QED
      BY <3>2, <3>3 DEF p
  <2>7. Qsa!Pooled(ring, row, Input(row), g)
          = [i \in Qsa!Offsets |-> TrueToken(r, Qsa!Member(g, i))]
    BY <2>6 DEF Qsa!Pooled
  <2> QED
    BY <1>5, <2>5, <2>7
<1>7. CASE e < f
  <2>1. g \notin Qsa!ClosedGroups(row)
    <3>1. SUFFICES ASSUME NEW q \in f..f + n - 1, g = q \div R PROVE FALSE
      BY DEF Qsa!ClosedGroups, Qsa!GroupOf
    <3>2. q \in Nat /\ q < R * g + R
      BY <1>1, <3>1, Division
    <3> QED
      BY <1>1, <1>2, <1>3, <1>7, <3>2
  <2>2. (g + 1) * R <= computed[r]
    BY <1>1, <1>2, <1>3, <1>7 DEF OwnRow
  <2> QED
    BY <1>1, <1>4, <1>5, <2>1, <2>2 DEF IInv, GroupsPoolOwnKeys
<1> QED
  BY <1>1, <1>3, <1>6, <1>7

-----------------------------------------------------------------------------
(* A step of the model, seen by one request.                               *)

\* What RunBatch does to request r through its row.
Served(r, row) ==
  /\ OwnRow(row) /\ row.req = r
  /\ computed'[r] = computed[r] + row.good
  /\ computed'[r] <= total'[r]
  /\ total'[r] \in Nat
  /\ compressed'[r] = Qsa!Compressed(compressed[r], ring, row, Input(row))
  /\ ring'[row.slot] = Qsa!RingAfter(ring[row.slot], row, Input(row))

Untouched(r) ==
  /\ computed'[r] = computed[r] /\ total'[r] = total[r]
  /\ compressed'[r] = compressed[r]
  /\ slot[r] # NullSlot => ring'[slot[r]] = ring[slot[r]]

LEMMA StepOfRequest ==
  ASSUME CountersInv, NEW rows \in ModelBatches, RunBatch(rows), NEW r \in Requests
  PROVE  Untouched(r) \/ \E row : Served(r, row)
<1> DEFINE mine == RowsOf(rows, r)
           row == rows[CHOOSE i \in mine : TRUE]
<1>1. /\ \A i \in DOMAIN rows :
            OwnRow(rows[i]) \/ (rows[i].req = 0 /\ rows[i].slot = NullSlot)
      /\ \A i, j \in DOMAIN rows :
            rows[i].req = rows[j].req /\ rows[i].req \in Requests => i = j
  BY BatchIsOwn
<1>2. /\ computed'[r] = computed[r] + IF mine # {} THEN row.good ELSE 0
      /\ total'[r] = IF ~(mine # {}) THEN total[r]
                     ELSE IF row.spec THEN total[r] + row.good
                     ELSE IF computed[r] + row.good = total[r] THEN total[r] + 1
                     ELSE total[r]
      /\ compressed'[r] = IF mine # {}
                          THEN Qsa!Compressed(compressed[r], ring, row, Input(row))
                          ELSE compressed[r]
  BY Zenon DEF RunBatch
<1> DEFINE Here(s) == {i \in DOMAIN rows : rows[i].slot = s}
<1>3. ASSUME NEW s \in Slots
      PROVE  ring'[s] = IF Here(s) = {} THEN ring[s]
                        ELSE Qsa!RingAfter(ring[s], rows[CHOOSE i \in Here(s) : TRUE],
                                           Input(rows[CHOOSE i \in Here(s) : TRUE]))
  BY <1>3, Zenon DEF RunBatch
<1>4. slot[r] # NullSlot => slot[r] \in Slots /\ Here(slot[r]) = mine
  <2>1. SUFFICES ASSUME slot[r] # NullSlot
                 PROVE  slot[r] \in Slots /\ Here(slot[r]) = mine
    OBVIOUS
  <2>2. slot[r] \in Slots
    BY <2>1 DEF CountersInv
  <2>3. ASSUME NEW i \in DOMAIN rows
        PROVE  rows[i].slot = slot[r] <=> rows[i].req = r
    <3>1. CASE OwnRow(rows[i])
      BY <2>1, <3>1 DEF OwnRow, CountersInv
    <3>2. CASE rows[i].req = 0 /\ rows[i].slot = NullSlot
      BY <2>1, <3>2 DEF Requests
    <3> QED
      BY <1>1, <3>1, <3>2
  <2> QED
    BY <2>2, <2>3 DEF RowsOf
<1> HIDE DEF Here
<1>5. CASE mine = {}
  <2>1. computed'[r] = computed[r]
    BY <1>2, <1>5 DEF CountersInv
  <2>2. total'[r] = total[r] /\ compressed'[r] = compressed[r]
    BY <1>2, <1>5, Zenon
  <2>3. slot[r] # NullSlot => ring'[slot[r]] = ring[slot[r]]
    BY <1>3, <1>4, <1>5
  <2> QED
    BY <2>1, <2>2, <2>3 DEF Untouched
<1>6. CASE mine # {}
  <2>1. PICK i \in mine : row = rows[i]
    BY <1>6
  <2>2. row.req = r /\ OwnRow(row)
    BY <1>1, <2>1 DEF RowsOf, Requests
  <2>3. row.slot = slot[r] /\ slot[r] # NullSlot
    BY <2>2 DEF OwnRow
  <2>4. ring'[row.slot] = Qsa!RingAfter(ring[row.slot], row, Input(row))
    BY <1>3, <1>4, <1>6, <2>3, Zenon
  <2> HIDE DEF row, mine
  <2>5. computed'[r] = computed[r] + row.good
    BY <1>2, <1>6
  <2>6. compressed'[r] = Qsa!Compressed(compressed[r], ring, row, Input(row))
    BY <1>2, <1>6, Zenon
  <2>7. /\ computed[r] \in Nat /\ total[r] \in Nat /\ computed[r] <= total[r]
        /\ row.good \in Nat
    BY <2>2 DEF CountersInv, OwnRow
  <2>8. CASE row.spec
    <3>1. total'[r] = total[r] + row.good
      BY <1>2, <1>6, <2>8, Zenon
    <3>2. computed'[r] <= total'[r] /\ total'[r] \in Nat
      BY <2>5, <2>7, <3>1
    <3> QED
      BY <2>2, <2>4, <2>5, <2>6, <3>2 DEF Served
  <2>9. CASE ~row.spec
    <3>1. total'[r] = IF computed[r] + row.good = total[r] THEN total[r] + 1 ELSE total[r]
      BY <1>2, <1>6, <2>9, Zenon
    <3>2. computed[r] + row.good <= total[r]
      BY <2>2, <2>9, Zenon DEF OwnRow
    <3>3. computed'[r] <= total'[r] /\ total'[r] \in Nat
      BY <2>5, <2>7, <3>1, <3>2
    <3> QED
      BY <2>2, <2>4, <2>5, <2>6, <3>3 DEF Served
  <2> QED
    BY <2>8, <2>9
<1> QED
  BY <1>5, <1>6

-----------------------------------------------------------------------------
(* The invariant.                                                          *)

LEMMA InitIInv ==
  Init => IInv
<1> SUFFICES ASSUME Init PROVE IInv
  OBVIOUS
<1>1. CountersInv
  BY StepsAssumption DEF Init, CountersInv, Requests
<1>2. RingInv
  BY DEF Init, RingInv
<1>3. CompressedInv
  BY DEF Init, CompressedInv
<1>4. GroupsPoolOwnKeys
  <2>1. SUFFICES ASSUME NEW r \in Requests, NEW g \in Groups(r),
                        (g + 1) * CompressRatio <= computed[r]
                 PROVE  FALSE
    BY DEF GroupsPoolOwnKeys
  <2>2. computed[r] = 0 /\ g \in Nat /\ CompressRatio \in Nat \ {0}
    BY StepsAssumption DEF Init, Groups
  <2> QED
    BY <2>1, <2>2
<1> QED
  BY <1>1, <1>2, <1>3, <1>4 DEF IInv

LEMMA StepKeepsIInv ==
  ASSUME IInv, Step
  PROVE  IInv'
<1>1. PICK rows \in ModelBatches : RunBatch(rows)
  BY DEF Step
<1>2. \A r \in Requests : Untouched(r) \/ \E row : Served(r, row)
  BY <1>1, StepOfRequest DEF IInv
<1>3. /\ slot' = slot /\ DOMAIN total' = Requests /\ DOMAIN computed' = Requests
      /\ DOMAIN compressed' = Requests
      /\ total' = [r \in Requests |-> total'[r]]
      /\ computed' = [r \in Requests |-> computed'[r]]
  <2>1. slot' = slot
    BY <1>1, Zenon DEF RunBatch
  <2>2. DOMAIN total' = Requests /\ total' = [r \in Requests |-> total'[r]]
    BY <1>1 DEF RunBatch
  <2>3. DOMAIN computed' = Requests /\ computed' = [r \in Requests |-> computed'[r]]
    BY <1>1 DEF RunBatch
  <2>4. DOMAIN compressed' = Requests
    BY <1>1 DEF RunBatch
  <2> QED
    BY <2>1, <2>2, <2>3, <2>4
<1>4. ASSUME NEW r \in Requests
      PROVE  /\ total'[r] \in Nat /\ computed'[r] \in Nat /\ computed'[r] <= total'[r]
             /\ slot[r] = NullSlot => computed'[r] = 0
             /\ DOMAIN compressed'[r] = Groups(r)
  <2>1. CASE Untouched(r)
    BY <2>1 DEF Untouched, IInv, CountersInv, CompressedInv
  <2>2. CASE \E row : Served(r, row)
    <3>1. PICK row : Served(r, row)
      BY <2>2
    <3>2. row.good \in Nat /\ slot[r] # NullSlot
      BY <3>1 DEF Served, OwnRow
    <3>3. total'[r] \in Nat /\ computed'[r] \in Nat /\ computed'[r] <= total'[r]
      BY <3>1, <3>2 DEF Served, IInv, CountersInv
    <3>4. DOMAIN compressed'[r] = Groups(r)
      BY <3>1 DEF Served, IInv, CompressedInv, Qsa!Compressed
    <3> QED
      BY <3>2, <3>3, <3>4
  <2> QED
    BY <1>2, <2>1, <2>2
<1>5. CountersInv'
  BY <1>3, <1>4 DEF IInv, CountersInv
<1>6. CompressedInv'
  BY <1>3, <1>4 DEF CompressedInv
<1>7. RingInv'
  <2>1. SUFFICES ASSUME NEW r \in Requests, slot[r] # NullSlot,
                        NEW p \in Floor(computed'[r])..computed'[r] - 1
                 PROVE  ring'[slot[r]][p % Qsa!RingSize] = TrueToken(r, p)
    BY <1>3 DEF RingInv, Floor
  <2>2. CASE Untouched(r)
    BY <2>1, <2>2 DEF Untouched, IInv, RingInv, Floor
  <2>3. CASE \E row : Served(r, row)
    <3>1. PICK row : Served(r, row)
      BY <2>3
    <3>2. row.slot = slot[r] /\ row.first + row.good = computed'[r] /\ row.req = r
          /\ OwnRow(row)
      BY <3>1 DEF Served, OwnRow
    <3>3. p \in Floor(row.first + row.good)..(row.first + row.good) - 1
      BY <2>1, <3>2, Zenon
    <3>4. Qsa!RingAfter(ring[row.slot], row, Input(row))[p % Qsa!RingSize]
            = TrueToken(row.req, p)
      BY <3>2, <3>3, RingStep DEF IInv
    <3> QED
      BY <3>1, <3>2, <3>4 DEF Served
  <2> QED
    BY <1>2, <2>2, <2>3
<1>8. GroupsPoolOwnKeys'
  <2>1. SUFFICES ASSUME NEW r \in Requests, NEW g \in Groups(r),
                        (g + 1) * CompressRatio <= computed'[r]
                 PROVE  compressed'[r][g] =
                          [i \in Qsa!Offsets |-> TrueToken(r, Qsa!Member(g, i))]
    BY DEF GroupsPoolOwnKeys
  <2>2. CASE Untouched(r)
    BY <2>1, <2>2 DEF Untouched, IInv, GroupsPoolOwnKeys
  <2>3. CASE \E row : Served(r, row)
    <3>1. PICK row : Served(r, row)
      BY <2>3
    <3>2. row.first + row.good = computed'[r] /\ row.req = r /\ OwnRow(row)
      BY <3>1 DEF Served, OwnRow
    <3> QED
      BY <2>1, <3>1, <3>2, CompressedStep DEF Served
  <2> QED
    BY <1>2, <2>2, <2>3
<1> QED
  BY <1>5, <1>6, <1>7, <1>8 DEF IInv

LEMMA AdmitKeepsIInv ==
  ASSUME IInv, NEW r \in Requests, Admit(r)
  PROVE  IInv'
<1>1. PICK s \in Slots : (\A q \in Requests : slot[q] # s) /\ slot' = [slot EXCEPT ![r] = s]
  BY DEF Admit
<1>2. /\ UNCHANGED <<total, computed, ring, compressed>>
      /\ slot[r] = NullSlot /\ computed[r] = 0
  BY DEF Admit, IInv, CountersInv
<1>3. \A q \in Requests : slot'[q] = IF q = r THEN s ELSE slot[q]
  BY <1>1 DEF IInv, CountersInv
<1>4. s # NullSlot
  BY <1>1, StepsAssumption
<1>5. CountersInv'
  BY <1>1, <1>2, <1>3, <1>4 DEF IInv, CountersInv
<1>6. RingInv'
  <2>1. SUFFICES ASSUME NEW q \in Requests, slot'[q] # NullSlot,
                        NEW p \in Floor(computed[q])..computed[q] - 1
                 PROVE  ring[slot'[q]][p % Qsa!RingSize] = TrueToken(q, p)
    BY <1>2 DEF RingInv, Floor
  <2>2. CASE q = r
    <3>1. Floor(0) \in Nat
      BY FloorIsBelow
    <3> QED
      BY <1>2, <2>1, <2>2, <3>1
  <2>3. CASE q # r
    BY <1>3, <2>1, <2>3 DEF IInv, RingInv, Floor
  <2> QED
    BY <2>2, <2>3
<1>7. CompressedInv' /\ GroupsPoolOwnKeys'
  BY <1>2 DEF IInv, CompressedInv, GroupsPoolOwnKeys
<1> QED
  BY <1>5, <1>6, <1>7 DEF IInv

LEMMA ReleaseKeepsIInv ==
  ASSUME IInv, NEW r \in Requests, Release(r)
  PROVE  IInv'
<1>1. /\ slot' = [slot EXCEPT ![r] = NullSlot]
      /\ computed' = [computed EXCEPT ![r] = 0]
      /\ compressed' = [compressed EXCEPT ![r] =
                          [g \in Groups(r) |-> [i \in Qsa!Offsets |-> Garbage]]]
      /\ UNCHANGED <<total, ring>>
  BY DEF Release
<1>2. \A q \in Requests : /\ slot'[q] = IF q = r THEN NullSlot ELSE slot[q]
                          /\ computed'[q] = IF q = r THEN 0 ELSE computed[q]
  BY <1>1 DEF IInv, CountersInv
<1>3. /\ DOMAIN compressed' = Requests
      /\ DOMAIN compressed'[r] = Groups(r)
      /\ \A q \in Requests : q # r => compressed'[q] = compressed[q]
  BY <1>1 DEF IInv, CompressedInv
<1>4. CountersInv'
  BY <1>1, <1>2 DEF IInv, CountersInv
<1>5. RingInv'
  BY <1>1, <1>2 DEF IInv, RingInv
<1>6. CompressedInv'
  BY <1>3 DEF IInv, CompressedInv
<1>7. GroupsPoolOwnKeys'
  <2>1. SUFFICES ASSUME NEW q \in Requests, NEW g \in Groups(q),
                        (g + 1) * CompressRatio <= computed'[q]
                 PROVE  compressed'[q][g] =
                          [i \in Qsa!Offsets |-> TrueToken(q, Qsa!Member(g, i))]
    BY DEF GroupsPoolOwnKeys
  <2>2. CASE q = r
    <3>1. g \in Nat /\ CompressRatio \in Nat \ {0} /\ computed'[q] = 0
      BY <1>2, <2>2, StepsAssumption DEF Groups
    <3> QED
      BY <2>1, <3>1
  <2>3. CASE q # r
    BY <1>2, <1>3, <2>1, <2>3 DEF IInv, GroupsPoolOwnKeys
  <2> QED
    BY <2>2, <2>3
<1> QED
  BY <1>4, <1>5, <1>6, <1>7 DEF IInv

LEMMA NextKeepsIInv ==
  ASSUME IInv, [Next]_vars
  PROVE  IInv'
<1>1. CASE Step
  BY <1>1, StepKeepsIInv
<1>2. ASSUME NEW r \in Requests, Admit(r) PROVE IInv'
  BY <1>2, AdmitKeepsIInv
<1>3. ASSUME NEW r \in Requests, Release(r) PROVE IInv'
  BY <1>3, ReleaseKeepsIInv
<1>4. CASE UNCHANGED vars
  BY <1>4 DEF vars, IInv, CountersInv, RingInv, CompressedInv, GroupsPoolOwnKeys
<1> QED
  BY <1>1, <1>2, <1>3, <1>4 DEF Next

-----------------------------------------------------------------------------
(* The grouping of a batch.  Groups are numbers, and the n entries of g are   *)
(* sorted stably: Place is the position each entry gets.                   *)

Ahead(g, n, i) == {j \in 1..n : g[j] < g[i] \/ (g[j] = g[i] /\ j <= i)}

LEMMA PlaceIsRank ==
  ASSUME NEW n \in Nat, NEW g \in [1..n -> Nat], NEW i \in 1..n
  PROVE  /\ Place(g, i) = Cardinality(Ahead(g, n, i)) /\ IsFiniteSet(Ahead(g, n, i))
         /\ Place(g, i) \in 1..n
<1>1. IsFiniteSet(1..n) /\ Cardinality(1..n) = n
  <2>1. 1 \in Int /\ n \in Int
    OBVIOUS
  <2>2. IsFiniteSet(1..n) /\ Cardinality(1..n) = IF 1 > n THEN 0 ELSE n - 1 + 1
    BY <2>1, FS_Interval, Zenon
  <2> QED
    BY <2>2
<1>2. Ahead(g, n, i) \in SUBSET (1..n) /\ i \in Ahead(g, n, i)
  BY DEF Ahead
<1>3. /\ IsFiniteSet(Ahead(g, n, i)) /\ Cardinality(Ahead(g, n, i)) \in Nat
      /\ Cardinality(Ahead(g, n, i)) <= n /\ Cardinality(Ahead(g, n, i)) # 0
  BY <1>1, <1>2, FS_Subset, FS_EmptySet, FS_CardinalityType
<1>4. Place(g, i) = Cardinality(Ahead(g, n, i))
  BY DEF Place, Ahead
<1> QED
  BY <1>3, <1>4

LEMMA PlaceOrder ==
  ASSUME NEW n \in Nat, NEW g \in [1..n -> Nat], NEW i \in 1..n, NEW k \in 1..n,
         g[i] < g[k] \/ (g[i] = g[k] /\ i < k)
  PROVE  Place(g, i) < Place(g, k)
<1>1. Ahead(g, n, i) \in SUBSET Ahead(g, n, k)
  BY DEF Ahead
<1>2. k \in Ahead(g, n, k) /\ k \notin Ahead(g, n, i)
  BY DEF Ahead
<1>3. Cardinality(Ahead(g, n, i)) <= Cardinality(Ahead(g, n, k))
      /\ Cardinality(Ahead(g, n, i)) # Cardinality(Ahead(g, n, k))
  BY <1>1, <1>2, PlaceIsRank, FS_Subset
<1> QED
  BY <1>3, PlaceIsRank

\* Two entries have two places.
LEMMA PlaceIsInjective ==
  ASSUME NEW n \in Nat, NEW g \in [1..n -> Nat], NEW i \in 1..n, NEW k \in 1..n,
         Place(g, i) = Place(g, k)
  PROVE  i = k
<1>1. g[i] \in Nat /\ g[k] \in Nat
  OBVIOUS
<1>2. Place(g, i) \in Nat /\ Place(g, k) \in Nat
  BY PlaceIsRank
<1>3. ~(g[i] < g[k] \/ (g[i] = g[k] /\ i < k))
  BY <1>2, PlaceOrder
<1>4. ~(g[k] < g[i] \/ (g[k] = g[i] /\ k < i))
  BY <1>2, PlaceOrder
<1> QED
  BY <1>1, <1>3, <1>4

\* Grouped is the inverse of Place.
LEMMA GroupedIsInverse ==
  ASSUME NEW n \in Nat, NEW g \in [1..n -> Nat]
  PROVE  /\ DOMAIN Grouped(g) = 1..n
         /\ \A p \in 1..n : Grouped(g)[p] \in 1..n /\ Place(g, Grouped(g)[p]) = p
         /\ \A i \in 1..n : Grouped(g)[Place(g, i)] = i
<1> DEFINE f == [i \in 1..n |-> Place(g, i)]
<1>1. f \in Surjection(1..n, 1..n)
  <2>1. \A i \in 1..n : f[i] \in 1..n
    BY PlaceIsRank
  <2>2. \A i, k \in 1..n : f[i] = f[k] => i = k
    BY PlaceIsInjective
  <2>3. f \in [1..n -> 1..n]
    BY <2>1
  <2> HIDE DEF f
  <2>4. f \in Injection(1..n, 1..n)
    BY <2>2, <2>3 DEF Injection, IsInjective
  <2>5. IsFiniteSet(1..n)
    <3>1. 1 \in Int /\ n \in Int
      OBVIOUS
    <3> QED
      BY <3>1, FS_Interval, Zenon
  <2> QED
    BY <2>4, <2>5, FS_Injection
<1>2. \A p \in 1..n : \E i \in 1..n : Place(g, i) = p
  BY <1>1 DEF Surjection
<1>3. \A p \in 1..n : Grouped(g)[p] \in 1..n /\ Place(g, Grouped(g)[p]) = p
  <2>1. TAKE p \in 1..n
  <2>2. Grouped(g)[p] = CHOOSE i \in 1..n : Place(g, i) = p
    BY DEF Grouped
  <2>3. \E i \in 1..n : Place(g, i) = p
    BY <1>2
  <2> QED
    BY <2>2, <2>3, Zenon
<1>4. \A i \in 1..n : Grouped(g)[Place(g, i)] = i
  <2>1. TAKE i \in 1..n
  <2>2. Place(g, i) \in 1..n
    BY PlaceIsRank
  <2>3. Grouped(g)[Place(g, i)] \in 1..n
        /\ Place(g, Grouped(g)[Place(g, i)]) = Place(g, i)
    BY <1>3, <2>2
  <2> QED
    BY <2>3, PlaceIsInjective
<1> QED
  BY <1>3, <1>4 DEF Grouped

-----------------------------------------------------------------------------
(* The places of a batch's tokens.                                         *)

\* A batch of n rows, and the numbers of their tokens and groups.
BatchOf(rows, n) ==
  /\ n \in Nat /\ DOMAIN rows = 1..n /\ Len(rows) = n
  /\ \A i \in 1..n : rows[i].len \in Nat

Lens(rows)   == [i \in DOMAIN rows |-> rows[i].len]
RowGroups(rows) == [i \in DOMAIN rows |-> Group(rows[i])]

\* The groups of the tokens, which TokenOrder sorts.
TokenGroups(rows) ==
  FlattenSeq([i \in DOMAIN rows |-> [j \in 1..rows[i].len |-> Group(rows[i])]])

LEMMA QueryStartSums ==
  ASSUME NEW n, NEW rows, BatchOf(rows, n)
  PROVE  Sums(n, Lens(rows), QueryStartLoc(rows))
<1>1. /\ n \in Nat /\ DOMAIN rows = 1..n /\ Len(rows) = n
      /\ \A i \in 1..n : rows[i].len \in Nat
  BY DEF BatchOf
<1> DEFINE st == [i \in 1..n + 1 |->
                    [v \in Nat |-> v + IF i = 1 THEN 0 ELSE rows[i - 1].len]]
           loc == QueryStartLoc(rows)
<1>2. st \in [1..n + 1 -> [Nat -> Nat]]
  <2>1. \A i \in 1..n + 1 : (IF i = 1 THEN 0 ELSE rows[i - 1].len) \in Nat
    BY <1>1
  <2> QED
    BY <2>1
<1>3. n + 1 \in Nat /\ 0 \in Nat
  BY <1>1
<1>4. PICK f \in [1..n + 1 -> Nat] : Iterates(f, 0, st, n + 1)
  <2> HIDE DEF st
  <2> QED
    BY <1>2, <1>3, Recursion
<1>5. \A i \in 1..n + 1 : f[i] = IF i = 1 THEN 0 ELSE f[i - 1] + rows[i - 1].len
  <2>1. TAKE i \in 1..n + 1
  <2>2. f[i] = IF i = 1 THEN 0 ELSE st[i][f[i - 1]]
    <3> HIDE DEF st
    <3> QED
      BY <1>4 DEF Iterates
  <2>3. i # 1 => f[i - 1] \in Nat
    BY <1>1
  <2>4. i # 1 => st[i][f[i - 1]] = f[i - 1] + rows[i - 1].len
    BY <2>3
  <2> HIDE DEF st
  <2> QED
    BY <2>2, <2>4
<1>6. f = [k \in 1..Len(rows) + 1 |-> IF k = 1 THEN 0 ELSE f[k - 1] + rows[k - 1].len]
  <2>1. f = [k \in 1..n + 1 |-> f[k]]
    OBVIOUS
  <2> QED
    BY <1>1, <1>5, <2>1
<1>7. loc = [k \in 1..Len(rows) + 1 |-> IF k = 1 THEN 0 ELSE loc[k - 1] + rows[k - 1].len]
  <2>1. \E h : h = [k \in 1..Len(rows) + 1 |->
                      IF k = 1 THEN 0 ELSE h[k - 1] + rows[k - 1].len]
    BY <1>6
  <2> QED
    BY <2>1, Zenon DEF QueryStartLoc
<1> HIDE DEF loc
<1>8. loc[1] = 0 /\ \A k \in 1..n : loc[k + 1] = loc[k] + rows[k].len
  BY <1>1, <1>7
<1>9. Lens(rows) \in [1..n -> Nat] /\ \A k \in 1..n : Lens(rows)[k] = rows[k].len
  BY <1>1 DEF Lens
<1> QED
  BY <1>8, <1>9 DEF Sums, loc

LEMMA GroupType ==
  ASSUME NEW row
  PROVE  Group(row) \in Nat
  BY DEF Group

\* Each token has the group of its row.
LEMMA TokenGroupsOfRows ==
  ASSUME NEW n, NEW rows, BatchOf(rows, n)
  PROVE  /\ TokenGroups(rows) \in [1..QueryStartLoc(rows)[n + 1] -> Nat]
         /\ \A i \in 1..n : \A j \in 1..rows[i].len :
              TokenGroups(rows)[QueryStartLoc(rows)[i] + j] = Group(rows[i])
<1>1. /\ n \in Nat /\ DOMAIN rows = 1..n
      /\ \A i \in 1..n : rows[i].len \in Nat /\ Lens(rows)[i] = rows[i].len
  BY DEF BatchOf, Lens
<1> DEFINE parts == [i \in DOMAIN rows |-> [j \in 1..rows[i].len |-> Group(rows[i])]]
           loc == QueryStartLoc(rows)
<1>2. \A i \in 1..n : /\ parts[i] \in Seq(Nat) /\ Len(parts[i]) = rows[i].len
                      /\ \A j \in 1..rows[i].len : parts[i][j] = Group(rows[i])
  BY <1>1, GroupType
<1>3. parts \in [1..n -> Seq(Nat)] /\ \A i \in 1..n : Len(parts[i]) = Lens(rows)[i]
  BY <1>1, <1>2
<1>4. FlattenSeq(parts) = TokenGroups(rows)
  BY DEF TokenGroups
<1> HIDE DEF parts
<1>5. IsJoin(Nat, TokenGroups(rows), parts, Lens(rows), loc, n)
  <2>1. HasLengths(parts, Lens(rows), n) /\ Sums(n, Lens(rows), loc)
    BY <1>3, QueryStartSums DEF HasLengths
  <2> QED
    BY <1>1, <1>3, <1>4, <2>1, FlattenParts
<1>6. TokenGroups(rows) \in [1..loc[n + 1] -> Nat]
  BY <1>5, SeqDef, LenProperties DEF IsJoin
<1>7. \A i \in 1..n : \A j \in 1..rows[i].len : TokenGroups(rows)[loc[i] + j] = Group(rows[i])
  BY <1>1, <1>2, <1>5, ZenonT(30) DEF HoldsParts, IsJoin
<1> QED
  BY <1>6, <1>7

\* The rows sorted are a batch.
LEMMA SortedIsBatch ==
  ASSUME NEW n, NEW rows, BatchOf(rows, n)
  PROVE  /\ BatchOf(SortedRows(rows), n)
         /\ RowGroups(rows) \in [1..n -> Nat]
         /\ \A i \in 1..n : /\ Place(RowGroups(rows), i) \in 1..n
                            /\ SortedRows(rows)[Place(RowGroups(rows), i)] = rows[i]
         /\ \A k \in 1..n : \E i \in 1..n : k = Place(RowGroups(rows), i)
<1>1. /\ n \in Nat /\ DOMAIN rows = 1..n
      /\ \A i \in 1..n : rows[i].len \in Nat
  BY DEF BatchOf
<1>2. RowGroups(rows) \in [1..n -> Nat]
  BY <1>1, GroupType DEF RowGroups
<1> DEFINE order == Grouped(RowGroups(rows))
<1>3. /\ \A p \in 1..n : order[p] \in 1..n /\ Place(RowGroups(rows), order[p]) = p
      /\ \A i \in 1..n : order[Place(RowGroups(rows), i)] = i
  BY <1>1, <1>2, GroupedIsInverse
<1>4. SortedRows(rows) = [k \in 1..n |-> rows[order[k]]]
  BY <1>1 DEF SortedRows, RowGroups
<1> HIDE DEF order
<1>5. BatchOf(SortedRows(rows), n)
  BY <1>1, <1>3, <1>4 DEF BatchOf
<1>6. \A i \in 1..n : /\ Place(RowGroups(rows), i) \in 1..n
                      /\ SortedRows(rows)[Place(RowGroups(rows), i)] = rows[i]
  <2>1. \A i \in 1..n : Place(RowGroups(rows), i) \in 1..n
    BY <1>1, <1>2, PlaceIsRank
  <2> QED
    BY <1>3, <1>4, <2>1
<1> QED
  BY <1>2, <1>3, <1>5, <1>6

\* The tokens of row i, and those of the rows that are placed before k.
TokensOf(rows, i) ==
  QueryStartLoc(rows)[i] + 1 .. QueryStartLoc(rows)[i] + rows[i].len

RowsAhead(rows, n, k) ==
  {t \in 1..QueryStartLoc(rows)[n + 1] :
     \E i \in 1..n : t \in TokensOf(rows, i) /\ Place(RowGroups(rows), i) < k}

LEMMA TokensOfRow ==
  ASSUME NEW n, NEW rows, BatchOf(rows, n), NEW i \in 1..n
  PROVE  /\ QueryStartLoc(rows)[i] \in Nat /\ rows[i].len \in Nat
         /\ TokensOf(rows, i) \subseteq 1..QueryStartLoc(rows)[n + 1]
         /\ \A t \in TokensOf(rows, i) : \E j \in 1..rows[i].len :
              t = QueryStartLoc(rows)[i] + j
         /\ \A k \in 1..n : TokensOf(rows, i) \cap TokensOf(rows, k) # {} => i = k
         /\ \A k \in 1..n : i < k =>
              QueryStartLoc(rows)[i] + rows[i].len <= QueryStartLoc(rows)[k]
<1> DEFINE loc == QueryStartLoc(rows)
<1>1. /\ n \in Nat /\ DOMAIN rows = 1..n
      /\ \A k \in 1..n : rows[k].len \in Nat /\ Lens(rows)[k] = rows[k].len
  BY DEF BatchOf, Lens
<1>2. Sums(n, Lens(rows), loc)
  BY QueryStartSums
<1>3. \A k \in 1..n + 1 : loc[k] \in Nat
  BY <1>1, <1>2, SumsAreNat
<1>4. \A k \in 1..n + 1 : \A m \in 1..n : m < k => loc[m] + Lens(rows)[m] <= loc[k]
  BY <1>1, <1>2, SumsGrow
<1> HIDE DEF loc
<1>5. loc[i] + rows[i].len <= loc[n + 1]
  BY <1>1, <1>4
<1>6. TokensOf(rows, i) = loc[i] + 1 .. loc[i] + rows[i].len
  BY DEF TokensOf, loc
<1>7. TokensOf(rows, i) \subseteq 1..loc[n + 1]
  BY <1>1, <1>3, <1>5, <1>6
<1>8. ASSUME NEW t \in TokensOf(rows, i) PROVE \E j \in 1..rows[i].len : t = loc[i] + j
  <2>1. t - loc[i] \in 1..rows[i].len /\ t = loc[i] + (t - loc[i])
    BY <1>1, <1>3, <1>6
  <2> QED
    BY <2>1
<1>9. ASSUME NEW k \in 1..n, NEW t, t \in TokensOf(rows, i), t \in TokensOf(rows, k)
      PROVE  i = k
  <2>1. TokensOf(rows, k) = loc[k] + 1 .. loc[k] + rows[k].len
    BY DEF TokensOf, loc
  <2>2. i < k => loc[i] + rows[i].len <= loc[k]
    BY <1>1, <1>4
  <2>3. k < i => loc[k] + rows[k].len <= loc[i]
    BY <1>1, <1>4
  <2> QED
    BY <1>1, <1>3, <1>6, <1>9, <2>1, <2>2, <2>3
<1>10. \A k \in 1..n : i < k => loc[i] + rows[i].len <= loc[k]
  BY <1>1, <1>4
<1> QED
  BY <1>1, <1>3, <1>7, <1>8, <1>9, <1>10 DEF loc

\* As many tokens stand in front of a sorted row as its query starts at.
LEMMA FrontIsQueryStart ==
  ASSUME NEW n, NEW rows, BatchOf(rows, n), NEW k \in 1..n + 1
  PROVE  /\ IsFiniteSet(RowsAhead(rows, n, k))
         /\ Cardinality(RowsAhead(rows, n, k)) = QueryStartLoc(SortedRows(rows))[k]
<1> DEFINE sloc == QueryStartLoc(SortedRows(rows))
           RG == RowGroups(rows)
           F(m) == RowsAhead(rows, n, m)
           P == {m \in 0..n : IsFiniteSet(F(m + 1)) /\ Cardinality(F(m + 1)) = sloc[m + 1]}
<1>1. /\ n \in Nat /\ RG \in [1..n -> Nat] /\ BatchOf(SortedRows(rows), n)
      /\ \A i \in 1..n : Place(RG, i) \in 1..n /\ SortedRows(rows)[Place(RG, i)] = rows[i]
      /\ \A m \in 1..n : \E i \in 1..n : m = Place(RG, i)
  <2>1. n \in Nat
    BY DEF BatchOf
  <2> QED
    BY <2>1, SortedIsBatch
<1>2. sloc[1] = 0 /\ \A m \in 1..n : sloc[m + 1] = sloc[m] + SortedRows(rows)[m].len
  <2>1. Sums(n, Lens(SortedRows(rows)), sloc)
    BY <1>1, QueryStartSums
  <2>2. DOMAIN SortedRows(rows) = 1..n
    BY <1>1 DEF BatchOf
  <2> QED
    BY <2>1, <2>2 DEF Sums, Lens
<1>3. 0 \in P
  <2>1. F(1) = {}
    BY <1>1 DEF RowsAhead
  <2>2. 0 \in 0..n /\ 0 + 1 = 1
    BY <1>1
  <2> HIDE DEF F, sloc
  <2> QED
    BY <1>2, <2>1, <2>2, FS_EmptySet
<1>4. \A m \in 0..n - 1 : m \in P => m + 1 \in P
  <2>1. TAKE m \in 0..n - 1
  <2>2. HAVE m \in P
  <2>3. m + 1 \in 1..n
    BY <1>1, <2>1
  <2>4. PICK i \in 1..n : m + 1 = Place(RG, i)
    BY <1>1, <2>3
  <2>5. /\ TokensOf(rows, i) \subseteq 1..QueryStartLoc(rows)[n + 1]
        /\ \A p \in 1..n : TokensOf(rows, i) \cap TokensOf(rows, p) # {} => i = p
        /\ QueryStartLoc(rows)[i] \in Nat /\ rows[i].len \in Nat
    BY TokensOfRow
  <2>6. F((m + 1) + 1) = F(m + 1) \cup TokensOf(rows, i)
    <3>1. \A p \in 1..n : Place(RG, p) < (m + 1) + 1 <=> Place(RG, p) < m + 1 \/ p = i
      <4>1. TAKE p \in 1..n
      <4>2. Place(RG, p) = m + 1 => p = i
        <5>1. n \in Nat /\ RG \in [1..n -> Nat]
          BY <1>1
        <5>2. Place(RG, p) = Place(RG, i) => p = i
          BY <5>1, PlaceIsInjective, Zenon
        <5> QED
          BY <2>4, <5>2, Zenon
      <4>3. Place(RG, p) \in Nat
        BY <1>1
      <4> QED
        BY <2>3, <2>4, <4>2, <4>3
    <3> HIDE DEF RG
    <3>2. \A t : t \in F((m + 1) + 1) <=> t \in F(m + 1) \/ t \in TokensOf(rows, i)
      BY <2>5, <3>1 DEF RowsAhead, RG
    <3> QED
      BY <3>2
  <2>7. F(m + 1) \cap TokensOf(rows, i) = {}
    <3>1. ASSUME NEW t, t \in F(m + 1), t \in TokensOf(rows, i) PROVE FALSE
      <4>1. PICK p \in 1..n : t \in TokensOf(rows, p) /\ Place(RG, p) < m + 1
        BY <3>1 DEF RowsAhead
      <4>2. p = i
        BY <2>5, <3>1, <4>1
      <4> QED
        BY <2>3, <2>4, <4>1, <4>2
    <3> QED
      BY <3>1
  <2>8. IsFiniteSet(TokensOf(rows, i)) /\ Cardinality(TokensOf(rows, i)) = rows[i].len
    <3> DEFINE a == QueryStartLoc(rows)[i] + 1
               b == QueryStartLoc(rows)[i] + rows[i].len
    <3>1. a \in Int /\ b \in Int /\ (IF a > b THEN 0 ELSE b - a + 1) = rows[i].len
      BY <2>5
    <3>2. TokensOf(rows, i) = a..b
      BY DEF TokensOf
    <3> HIDE DEF a, b
    <3>3. IsFiniteSet(a..b) /\ Cardinality(a..b) = IF a > b THEN 0 ELSE b - a + 1
      BY <3>1, FS_Interval, Zenon
    <3> QED
      BY <3>1, <3>2, <3>3, Zenon
  <2>9. IsFiniteSet(F(m + 1)) /\ Cardinality(F(m + 1)) = sloc[m + 1]
    BY <2>2
  <2>10. sloc[(m + 1) + 1] = sloc[m + 1] + rows[i].len
    BY <1>1, <1>2, <2>3, <2>4
  <2> HIDE DEF sloc, F
  <2>11. IsFiniteSet(F((m + 1) + 1)) /\ Cardinality(F((m + 1) + 1)) = sloc[(m + 1) + 1]
    <3>1. IsFiniteSet(F(m + 1) \cup TokensOf(rows, i))
          /\ Cardinality(F(m + 1) \cup TokensOf(rows, i))
               = Cardinality(F(m + 1)) + Cardinality(TokensOf(rows, i))
                 - Cardinality(F(m + 1) \cap TokensOf(rows, i))
      BY <2>8, <2>9, FS_Union, Zenon
    <3>2. Cardinality(F(m + 1) \cap TokensOf(rows, i)) = 0
      BY <2>7, FS_EmptySet, Zenon
    <3>3. Cardinality(F(m + 1)) \in Nat
      BY <2>9, FS_CardinalityType
    <3>4. PICK a, b, c : /\ a = Cardinality(F(m + 1)) /\ b = Cardinality(TokensOf(rows, i))
                         /\ c = Cardinality(F(m + 1) \cap TokensOf(rows, i))
      OBVIOUS
    <3>5. Cardinality(F(m + 1) \cup TokensOf(rows, i)) = a + b - c
      BY <3>1, <3>4, Zenon
    <3>6. a + b - c = sloc[(m + 1) + 1]
      <4>1. a = sloc[m + 1] /\ b = rows[i].len /\ c = 0 /\ a \in Nat /\ b \in Nat
        BY <2>5, <2>8, <2>9, <3>2, <3>3, <3>4, Zenon
      <4> QED
        BY <2>10, <4>1
    <3> QED
      BY <2>6, <3>1, <3>5, <3>6, Zenon
  <2> QED
    BY <2>3, <2>11
<1>5. 0..n \subseteq P
  <2> HIDE DEF P
  <2> QED
    BY <1>1, <1>3, <1>4, Induction
<1>6. k - 1 \in 0..n /\ (k - 1) + 1 = k
  BY <1>1
<1> QED
  BY <1>5, <1>6

\* In the order of the groups the tokens of a row stay together, behind those
\* of the rows sorted in front of it.
LEMMA TokenPlace ==
  ASSUME NEW n, NEW rows, BatchOf(rows, n), NEW i \in 1..n, NEW j \in 1..rows[i].len
  PROVE  Place(TokenGroups(rows), QueryStartLoc(rows)[i] + j)
           = QueryStartLoc(SortedRows(rows))[Place(RowGroups(rows), i)] + j
<1> DEFINE loc == QueryStartLoc(rows)
           RG == RowGroups(rows)
           TG == TokenGroups(rows)
           N == loc[n + 1]
           k == Place(RG, i)
           mine == loc[i] + 1 .. loc[i] + j
           here == loc[i] + j
<1>1. n \in Nat /\ DOMAIN rows = 1..n
  BY DEF BatchOf
<1>2. /\ RG \in [1..n -> Nat] /\ k \in 1..n
      /\ \A p \in 1..n : RG[p] = Group(rows[p]) /\ Place(RG, p) \in 1..n
  <2>1. \A p \in 1..n : RG[p] = Group(rows[p])
    BY <1>1 DEF RowGroups
  <2> QED
    BY <2>1, SortedIsBatch
<1>3. TG \in [1..N -> Nat]
      /\ \A p \in 1..n : \A q \in 1..rows[p].len : TG[loc[p] + q] = Group(rows[p])
  BY TokenGroupsOfRows
<1>4. \A p \in 1..n :
        /\ loc[p] \in Nat /\ rows[p].len \in Nat /\ TokensOf(rows, p) \subseteq 1..N
        /\ \A t \in TokensOf(rows, p) : \E q \in 1..rows[p].len : t = loc[p] + q
        /\ \A q \in 1..n : TokensOf(rows, p) \cap TokensOf(rows, q) # {} => p = q
        /\ \A q \in 1..n : p < q => loc[p] + rows[p].len <= loc[q]
  BY TokensOfRow
<1>5. N \in Nat
  <2>1. Sums(n, Lens(rows), loc)
    BY QueryStartSums
  <2>2. \A p \in 1..n + 1 : loc[p] \in Nat
    BY <1>1, <2>1, SumsAreNat
  <2> QED
    BY <1>1, <2>2
<1>6. \A p \in 1..n : TokensOf(rows, p) = loc[p] + 1 .. loc[p] + rows[p].len
  BY DEF TokensOf
<1>7. here \in TokensOf(rows, i) /\ here \in 1..N /\ mine \subseteq TokensOf(rows, i)
  <2>1. here \in TokensOf(rows, i) /\ mine \subseteq TokensOf(rows, i)
    BY <1>4, <1>6
  <2> QED
    BY <1>4, <2>1
<1>8. \A p \in 1..n : p # i =>
        (Place(RG, p) < k <=> RG[p] < RG[i] \/ (RG[p] = RG[i] /\ p < i))
  <2>0. TAKE p \in 1..n
  <2>1. \A a, b \in 1..n : RG[a] < RG[b] \/ (RG[a] = RG[b] /\ a < b) =>
                             Place(RG, a) < Place(RG, b)
    <3> HIDE DEF RG
    <3> QED
      BY <1>1, <1>2, PlaceOrder
  <2>2. RG[p] < RG[i] \/ (RG[p] = RG[i] /\ p < i) => Place(RG, p) < k
    <3> HIDE DEF RG
    <3> QED
      BY <2>0, <2>1
  <2>3. RG[i] < RG[p] \/ (RG[i] = RG[p] /\ i < p) => k < Place(RG, p)
    <3> HIDE DEF RG
    <3> QED
      BY <2>0, <2>1
  <2>4. RG[i] \in Nat /\ RG[p] \in Nat /\ k \in Nat /\ Place(RG, p) \in Nat
    <3>1. k \in 1..n /\ Place(RG, p) \in 1..n /\ RG \in [1..n -> Nat]
      BY <1>2, <2>0
    <3> HIDE DEF RG, k
    <3> QED
      BY <1>1, <2>0, <3>1
  <2> HIDE DEF RG, k
  <2> QED
    BY <1>1, <2>2, <2>3, <2>4
<1>9. ASSUME NEW t \in 1..N
      PROVE  t \in Ahead(TG, N, here) <=> t \in RowsAhead(rows, n, k) \/ t \in mine
  <2>1. Sums(n, Lens(rows), loc) /\ \A p \in 1..n : Lens(rows)[p] = rows[p].len
    BY <1>1, QueryStartSums DEF Lens
  <2>0. PICK p \in 1..n : \E q \in 1..rows[p].len : t = loc[p] + q
    <3> HIDE DEF loc
    <3>1. \E p \in 1..n : \E q \in 1..Lens(rows)[p] : t = loc[p] + q
      BY <1>1, <2>1, SumsCover
    <3> QED
      BY <2>1, <3>1
  <2>2. PICK q \in 1..rows[p].len : t = loc[p] + q
    BY <2>0
  <2>3. t \in TokensOf(rows, p)
    BY <1>4, <1>6, <2>2
  <2>4. TG[t] = RG[p] /\ TG[here] = RG[i]
    BY <1>2, <1>3, <2>2
  <2>5. t \in Ahead(TG, N, here) <=> RG[p] < RG[i] \/ (RG[p] = RG[i] /\ t <= here)
    BY <2>4 DEF Ahead
  <2>6. t \in RowsAhead(rows, n, k) <=> Place(RG, p) < k
    BY <1>4, <2>3 DEF RowsAhead
  <2>7. CASE p = i
    <3>1. ~(Place(RG, p) < k)
      BY <1>2, <2>7
    <3>2. t \in mine <=> t <= here
      BY <1>4, <2>2, <2>7
    <3>3. ~(RG[p] < RG[i]) /\ RG[p] = RG[i]
      <4>1. RG[i] \in Nat
        <5> HIDE DEF RG
        <5> QED
          BY <1>2
      <4> HIDE DEF RG
      <4> QED
        BY <2>7, <4>1
    <3>4. t \in Ahead(TG, N, here) <=> t <= here
      BY <2>5, <3>3, Zenon
    <3>5. t \notin RowsAhead(rows, n, k)
      BY <2>6, <3>1, Zenon
    <3> QED
      BY <3>2, <3>4, <3>5, Zenon
  <2>8. CASE p # i
    <3>1. t \notin mine
      BY <1>4, <1>7, <2>3, <2>8
    <3>2. p < i <=> t <= here
      <4>1. loc[p] \in Nat /\ loc[i] \in Nat /\ rows[p].len \in Nat /\ rows[i].len \in Nat
        BY <1>4
      <4>2. p < i => loc[p] + rows[p].len <= loc[i]
        BY <1>4
      <4>3. i < p => loc[i] + rows[i].len <= loc[p]
        BY <1>4
      <4>4. CASE p < i
        <5>1. loc[p] + q <= loc[i] + j
          BY <4>1, <4>2, <4>4
        <5> QED
          BY <2>2, <4>4, <5>1
      <4>5. CASE i < p
        <5>1. ~(loc[p] + q <= loc[i] + j)
          BY <4>1, <4>3, <4>5
        <5> QED
          BY <1>1, <2>2, <4>5, <5>1
      <4> QED
        BY <1>1, <2>8, <4>4, <4>5
    <3> QED
      BY <1>8, <2>5, <2>6, <2>8, <3>1, <3>2
  <2> QED
    BY <2>7, <2>8
<1>10. Ahead(TG, N, here) = RowsAhead(rows, n, k) \cup mine
  <2>1. Ahead(TG, N, here) \subseteq 1..N
    BY DEF Ahead
  <2>2. RowsAhead(rows, n, k) \subseteq 1..N
    BY DEF RowsAhead
  <2>3. mine \subseteq 1..N
    BY <1>4, <1>7
  <2> HIDE DEF TG, N, here, k, mine
  <2> QED
    BY <1>9, <2>1, <2>2, <2>3
<1>11. RowsAhead(rows, n, k) \cap mine = {}
  <2>1. ASSUME NEW t, t \in RowsAhead(rows, n, k), t \in mine PROVE FALSE
    <3>1. PICK p \in 1..n : t \in TokensOf(rows, p) /\ Place(RG, p) < k
      BY <2>1 DEF RowsAhead
    <3>2. p = i
      BY <1>4, <1>7, <2>1, <3>1
    <3> QED
      BY <1>2, <3>1, <3>2
  <2> QED
    BY <2>1
<1>12. IsFiniteSet(mine) /\ Cardinality(mine) = j
  <2> DEFINE a == loc[i] + 1
             b == loc[i] + j
  <2>1. a \in Int /\ b \in Int /\ (IF a > b THEN 0 ELSE b - a + 1) = j
    BY <1>4
  <2>2. mine = a..b
    OBVIOUS
  <2> HIDE DEF a, b, mine
  <2>3. IsFiniteSet(a..b) /\ Cardinality(a..b) = IF a > b THEN 0 ELSE b - a + 1
    BY <2>1, FS_Interval, Zenon
  <2> QED
    BY <2>1, <2>2, <2>3, Zenon
<1>13. k \in 1..n + 1
  BY <1>1, <1>2
<1>14. /\ IsFiniteSet(RowsAhead(rows, n, k))
       /\ Cardinality(RowsAhead(rows, n, k)) = QueryStartLoc(SortedRows(rows))[k]
  <2> HIDE DEF k
  <2> QED
    BY <1>13, FrontIsQueryStart
<1>15. Place(TG, here) = Cardinality(Ahead(TG, N, here))
  <2> HIDE DEF TG, here, N
  <2> QED
    BY <1>3, <1>5, <1>7, PlaceIsRank
<1> HIDE DEF mine, TG, here, N, k
<1>16. Cardinality(RowsAhead(rows, n, k) \cup mine)
         = Cardinality(RowsAhead(rows, n, k)) + Cardinality(mine)
           - Cardinality(RowsAhead(rows, n, k) \cap mine)
  BY <1>12, <1>14, FS_Union, Zenon
<1>17. Cardinality(RowsAhead(rows, n, k) \cap mine) = 0
  BY <1>11, FS_EmptySet, Zenon
<1>18. PICK a, b : a = Cardinality(RowsAhead(rows, n, k)) /\ b = Cardinality(mine)
  OBVIOUS
<1>19. a \in Nat /\ b \in Nat
  BY <1>12, <1>14, <1>18, FS_CardinalityType
<1>20. Place(TG, here) = a + b - 0
  BY <1>10, <1>15, <1>16, <1>17, <1>18, Zenon
<1>21. a + b - 0 = a + b
  BY <1>19
<1>22. Place(TG, here) = QueryStartLoc(SortedRows(rows))[k] + j
  BY <1>12, <1>14, <1>18, <1>20, <1>21, Zenon
<1> QED
  BY <1>22, Zenon DEF TG, here, k

LEMMA TokenOrderOfRow ==
  ASSUME NEW n, NEW rows, BatchOf(rows, n), NEW i \in 1..n, NEW j \in 1..rows[i].len
  PROVE  LET p == QueryStartLoc(SortedRows(rows))[Place(RowGroups(rows), i)] + j
             t == QueryStartLoc(rows)[i] + j
         IN  /\ p \in DOMAIN TokenOrder(rows) /\ TokenOrder(rows)[p] = t
             /\ \A q \in DOMAIN TokenOrder(rows) : TokenOrder(rows)[q] = t => q = p
<1> DEFINE TG == TokenGroups(rows)
           N == QueryStartLoc(rows)[n + 1]
           t == QueryStartLoc(rows)[i] + j
           p == QueryStartLoc(SortedRows(rows))[Place(RowGroups(rows), i)] + j
<1>1. TG \in [1..N -> Nat]
  BY TokenGroupsOfRows
<1>2. N \in Nat /\ t \in 1..N
  <2>1. n \in Nat /\ n + 1 \in 1..n + 1
    BY DEF BatchOf
  <2>2. Sums(n, Lens(rows), QueryStartLoc(rows))
    BY QueryStartSums
  <2>3. N \in Nat
    BY <2>1, <2>2, SumsAreNat
  <2>4. TokensOf(rows, i) \subseteq 1..N /\ QueryStartLoc(rows)[i] \in Nat /\ rows[i].len \in Nat
    BY TokensOfRow
  <2>5. t \in TokensOf(rows, i)
    BY <2>4 DEF TokensOf
  <2> QED
    BY <2>3, <2>4, <2>5
<1>3. Place(TG, t) = p
  BY TokenPlace
<1>4. TokenOrder(rows) = Grouped(TG)
  BY Zenon DEF TokenOrder, TokenGroups
<1> HIDE DEF TG, N, t, p
<1>5. Place(TG, t) \in 1..N
  BY <1>1, <1>2, PlaceIsRank
<1>6. /\ DOMAIN Grouped(TG) = 1..N /\ Grouped(TG)[Place(TG, t)] = t
      /\ \A q \in 1..N : Place(TG, Grouped(TG)[q]) = q
  BY <1>1, <1>2, GroupedIsInverse
<1>7. /\ p \in DOMAIN TokenOrder(rows) /\ TokenOrder(rows)[p] = t
      /\ \A q \in DOMAIN TokenOrder(rows) : TokenOrder(rows)[q] = t => q = p
  BY <1>3, <1>4, <1>5, <1>6
<1> QED
  BY <1>7 DEF p, t

-----------------------------------------------------------------------------
(* What the convolution sees and keeps: each row alone.                    *)

LEMMA InputsOfRow ==
  ASSUME NEW n, NEW rows, BatchOf(rows, n)
  PROVE  /\ DOMAIN Inputs(rows) = 1..QueryStartLoc(rows)[n + 1]
         /\ \A i \in 1..n : \A j \in 1..rows[i].len :
              Inputs(rows)[QueryStartLoc(rows)[i] + j] = Input(rows[i])[j - 1]
<1>1. /\ n \in Nat /\ DOMAIN rows = 1..n
      /\ \A i \in 1..n : rows[i].len \in Nat /\ Lens(rows)[i] = rows[i].len
  BY DEF BatchOf, Lens
<1> DEFINE S == UNION {{Input(rows[i])[j - 1] : j \in 1..rows[i].len} : i \in 1..n}
           parts == [i \in DOMAIN rows |-> [j \in 1..rows[i].len |-> Input(rows[i])[j - 1]]]
           loc == QueryStartLoc(rows)
<1>2. \A i \in 1..n : /\ parts[i] \in Seq(S) /\ Len(parts[i]) = rows[i].len
                      /\ \A j \in 1..rows[i].len : parts[i][j] = Input(rows[i])[j - 1]
  <2>1. TAKE i \in 1..n
  <2>2. \A j \in 1..rows[i].len : Input(rows[i])[j - 1] \in S
    OBVIOUS
  <2>3. parts[i] = [j \in 1..rows[i].len |-> Input(rows[i])[j - 1]]
    BY <1>1
  <2> HIDE DEF S, parts
  <2> QED
    BY <1>1, <2>2, <2>3
<1>3. FlattenSeq(parts) = Inputs(rows)
  BY DEF Inputs
<1>4. DOMAIN parts = 1..n /\ parts = [i \in 1..n |-> parts[i]]
  BY <1>1
<1> HIDE DEF parts, S
<1>5. parts \in [1..n -> Seq(S)]
  BY <1>2, <1>4
<1>6. IsJoin(S, Inputs(rows), parts, Lens(rows), loc, n)
  <2>1. HasLengths(parts, Lens(rows), n) /\ Sums(n, Lens(rows), loc)
    BY <1>1, <1>2, QueryStartSums DEF HasLengths
  <2> QED
    BY <1>1, <1>3, <1>5, <2>1, FlattenParts
<1>7. DOMAIN Inputs(rows) = 1..loc[n + 1]
  BY <1>6, LenProperties DEF IsJoin
<1>8. \A i \in 1..n : \A j \in 1..rows[i].len : Inputs(rows)[loc[i] + j] = Input(rows[i])[j - 1]
  BY <1>1, <1>2, <1>6 DEF HoldsParts, IsJoin
<1> QED
  BY <1>7, <1>8

\* Every row is given its own inputs.
LEMMA RowInputsOfRow ==
  ASSUME NEW n, NEW rows, BatchOf(rows, n), NEW i \in 1..n
  PROVE  RowInputs(rows, Inputs(rows))[Place(RowGroups(rows), i)] = Input(rows[i])
<1> DEFINE k == Place(RowGroups(rows), i)
           sorted == SortedRows(rows)
           order == TokenOrder(rows)
           sloc == QueryStartLoc(sorted)
           loc == QueryStartLoc(rows)
           x == Inputs(rows)
           len == rows[i].len
<1>1. /\ n \in Nat /\ DOMAIN rows = 1..n /\ len \in Nat
  BY DEF BatchOf
<1>2. k \in 1..n /\ sorted[k] = rows[i] /\ BatchOf(sorted, n)
  BY SortedIsBatch
<1>3. RowInputs(rows, x)[k] = [j \in 0..len - 1 |-> x[order[sloc[k] + j + 1]]]
  <2>1. RowInputs(rows, x)[k] = [j \in 0..sorted[k].len - 1 |-> x[order[sloc[k] + j + 1]]]
    <3> HIDE DEF k
    <3> QED
      BY <1>1, <1>2 DEF RowInputs
  <2> QED
    BY <1>2, <2>1
<1>4. sloc[k] \in Nat
  <2>1. Sums(n, Lens(sorted), sloc)
    BY <1>2, QueryStartSums
  <2>2. \A m \in 1..n + 1 : sloc[m] \in Nat
    BY <1>1, <2>1, SumsAreNat
  <2> QED
    BY <1>1, <1>2, <2>2
<1>5. ASSUME NEW j \in 0..len - 1 PROVE x[order[sloc[k] + j + 1]] = Input(rows[i])[j]
  <2>1. j + 1 \in 1..len /\ (j + 1) - 1 = j
    BY <1>1
  <2>2. order[sloc[k] + (j + 1)] = loc[i] + (j + 1)
    BY <2>1, TokenOrderOfRow
  <2>3. x[loc[i] + (j + 1)] = Input(rows[i])[(j + 1) - 1]
    BY <2>1, InputsOfRow
  <2>4. sloc[k] + j + 1 = sloc[k] + (j + 1)
    BY <1>4
  <2> HIDE DEF x, order, sloc, loc, k
  <2> QED
    BY <2>1, <2>2, <2>3, <2>4, Zenon
<1>6. Input(rows[i]) = [j \in 0..len - 1 |-> Input(rows[i])[j]]
  BY DEF Input
<1>7. PICK f : f = RowInputs(rows, x)[k]
  OBVIOUS
<1>8. DOMAIN f = 0..len - 1 /\ f = [j \in 0..len - 1 |-> f[j]]
      /\ \A j \in 0..len - 1 : f[j] = x[order[sloc[k] + j + 1]]
  <2> HIDE DEF x, order, sloc, k, len
  <2> QED
    BY <1>3, <1>7
<1>9. \A j \in 0..len - 1 : f[j] = Input(rows[i])[j]
  <2> HIDE DEF x, order, sloc, k, len
  <2> QED
    BY <1>5, <1>8
<1>10. f = Input(rows[i])
  <2> HIDE DEF len
  <2> QED
    BY <1>6, <1>8, <1>9
<1> QED
  BY <1>7, <1>10, Zenon

\* ... and its outputs come back to the places of its tokens.
LEMMA ConvolvedOfRow ==
  ASSUME NEW state, NEW n, NEW rows, BatchOf(rows, n), NEW i \in 1..n,
         NEW j \in 1..rows[i].len
  PROVE  Convolved(state, rows, Inputs(rows))[QueryStartLoc(rows)[i] + j]
           = RowOutput(state, rows[i], Input(rows[i]))[j]
<1> DEFINE sorted == SortedRows(rows)
           order == TokenOrder(rows)
           sloc == QueryStartLoc(sorted)
           x == Inputs(rows)
           inputs == RowInputs(rows, x)
           parts == [m \in DOMAIN rows |-> RowOutput(state, sorted[m], inputs[m])]
           k == Place(RowGroups(rows), i)
           t == QueryStartLoc(rows)[i] + j
           S == UNION {{parts[m][q] : q \in 1..sorted[m].len} : m \in 1..n}
<1>1. n \in Nat /\ DOMAIN rows = 1..n
  BY DEF BatchOf
<1>2. k \in 1..n /\ sorted[k] = rows[i] /\ BatchOf(sorted, n)
  BY SortedIsBatch
<1>3. \A m \in 1..n : sorted[m].len \in Nat /\ Lens(sorted)[m] = sorted[m].len
  BY <1>2 DEF BatchOf, Lens
<1>4. t \in DOMAIN x
  <2>1. TokensOf(rows, i) \subseteq 1..QueryStartLoc(rows)[n + 1]
        /\ QueryStartLoc(rows)[i] \in Nat /\ rows[i].len \in Nat
    BY TokensOfRow
  <2>2. t \in TokensOf(rows, i)
    BY <2>1 DEF TokensOf
  <2> QED
    BY <2>1, <2>2, InputsOfRow
<1>5. Convolved(state, rows, x)[t] = FlattenSeq(parts)[CHOOSE p \in DOMAIN order : order[p] = t]
  <2> HIDE DEF t
  <2> QED
    BY <1>4 DEF Convolved
<1>6. /\ sloc[k] + j \in DOMAIN order /\ order[sloc[k] + j] = t
      /\ \A q \in DOMAIN order : order[q] = t => q = sloc[k] + j
  BY TokenOrderOfRow
<1>7. (CHOOSE p \in DOMAIN order : order[p] = t) = sloc[k] + j
  <2> HIDE DEF order, t, sloc, k
  <2> QED
    BY <1>6
<1>8. \A m \in 1..n : parts[m] \in Seq(S) /\ Len(parts[m]) = sorted[m].len
  <2>1. TAKE m \in 1..n
  <2>2. parts[m] = RowOutput(state, sorted[m], inputs[m])
    BY <1>1
  <2>3. DOMAIN parts[m] = 1..sorted[m].len /\ parts[m] = [q \in 1..sorted[m].len |-> parts[m][q]]
    BY <2>2 DEF RowOutput
  <2>4. \A q \in 1..sorted[m].len : parts[m][q] \in S
    OBVIOUS
  <2> HIDE DEF parts, S, sorted
  <2>5. PICK p, l : p = parts[m] /\ l = sorted[m].len
    OBVIOUS
  <2>6. l \in Nat /\ p = [q \in 1..l |-> p[q]] /\ \A q \in 1..l : p[q] \in S
    BY <1>3, <2>3, <2>4, <2>5
  <2>7. p \in Seq(S) /\ Len(p) = l
    BY <2>6
  <2> QED
    BY <2>5, <2>7
<1>9. DOMAIN parts = 1..n /\ parts = [m \in 1..n |-> parts[m]]
  BY <1>1
<1>10. parts[k] = RowOutput(state, rows[i], Input(rows[i]))
  <2>1. inputs[k] = Input(rows[i])
    BY RowInputsOfRow
  <2>2. parts[k] = RowOutput(state, sorted[k], inputs[k])
    <3> HIDE DEF k
    <3> QED
      BY <1>1, <1>2
  <2> QED
    BY <1>2, <2>1, <2>2, Zenon
<1> HIDE DEF parts, S, sorted, k, order, t, sloc
<1>11. parts \in [1..n -> Seq(S)]
  BY <1>8, <1>9
<1>12. IsJoin(S, FlattenSeq(parts), parts, Lens(sorted), sloc, n)
  <2>1. HasLengths(parts, Lens(sorted), n)
    BY <1>3, <1>8 DEF HasLengths
  <2>2. Sums(n, Lens(sorted), sloc)
    BY <1>2, QueryStartSums DEF sloc
  <2> QED
    BY <1>1, <1>11, <2>1, <2>2, FlattenParts
<1>13. FlattenSeq(parts)[sloc[k] + j] = parts[k][j]
  <2>1. Lens(sorted)[k] = rows[i].len
    BY <1>2, <1>3
  <2> QED
    BY <1>2, <1>12, <2>1 DEF IsJoin, HoldsParts
<1> QED
  BY <1>5, <1>7, <1>10, <1>13, Zenon DEF t

\* The slot of one row keeps what that row leaves, and no other slot changes.
LEMMA RetainedOfRow ==
  ASSUME NEW state, NEW n, NEW rows, BatchOf(rows, n), NEW s \in DOMAIN state
  PROVE  /\ (\A i \in 1..n : rows[i].slot # s) =>
              Retained(state, rows, Inputs(rows))[s] = state[s]
         /\ \A i \in 1..n :
              rows[i].slot = s /\ (\A m \in 1..n : rows[m].slot = s => m = i) =>
                Retained(state, rows, Inputs(rows))[s] = NextState(state, rows[i], Input(rows[i]))
<1> DEFINE sorted == SortedRows(rows)
           inputs == RowInputs(rows, Inputs(rows))
           RG == RowGroups(rows)
           writers == {k \in DOMAIN rows : sorted[k].slot = s}
           w == CHOOSE k \in writers : TRUE
<1>1. n \in Nat /\ DOMAIN rows = 1..n
  BY DEF BatchOf
<1>2. /\ \A i \in 1..n : Place(RG, i) \in 1..n /\ sorted[Place(RG, i)] = rows[i]
      /\ \A k \in 1..n : \E i \in 1..n : k = Place(RG, i)
  BY SortedIsBatch
<1>3. Retained(state, rows, Inputs(rows))[s]
        = IF writers = {} THEN state[s] ELSE NextState(state, sorted[w], inputs[w])
  BY DEF Retained
<1>4. ASSUME \A i \in 1..n : rows[i].slot # s
      PROVE  writers = {}
  <2>1. ASSUME NEW k \in 1..n PROVE sorted[k].slot # s
    <3>1. PICK i \in 1..n : k = Place(RG, i)
      BY <1>2
    <3> HIDE DEF RG, sorted
    <3> QED
      BY <1>2, <1>4, <3>1
  <2> HIDE DEF RG, sorted
  <2> QED
    BY <1>1, <2>1
<1>5. ASSUME NEW i \in 1..n, rows[i].slot = s, \A m \in 1..n : rows[m].slot = s => m = i
      PROVE  writers # {} /\ sorted[w] = rows[i] /\ inputs[w] = Input(rows[i])
  <2>1. writers = {Place(RG, i)}
    <3>1. \A k \in 1..n : sorted[k].slot = s <=> k = Place(RG, i)
      <4> HIDE DEF RG, sorted
      <4> QED
        BY <1>2, <1>5
    <3> HIDE DEF RG, sorted
    <3> QED
      BY <1>1, <1>2, <3>1
  <2>2. w = Place(RG, i)
    <3> HIDE DEF writers
    <3> QED
      BY <2>1
  <2>3. inputs[Place(RG, i)] = Input(rows[i])
    BY RowInputsOfRow
  <2> HIDE DEF w, writers
  <2> QED
    BY <1>2, <2>1, <2>2, <2>3
<1> HIDE DEF writers, w, inputs, sorted
<1> QED
  BY <1>3, <1>4, <1>5

-----------------------------------------------------------------------------
(* The shape of the state.                                                 *)

LEMMA ShapeOfStep ==
  ASSUME CountersInv, ShapeInv, Step
  PROVE  ShapeInv'
<1>1. PICK rows \in ModelBatches : RunBatch(rows)
  BY DEF Step
<1>2. \A r \in Requests : Untouched(r) \/ \E row : Served(r, row)
  BY <1>1, StepOfRequest
<1>3. \A r \in Requests : total'[r] # 0
  <2>1. TAKE r \in Requests
  <2> DEFINE row == rows[CHOOSE i \in RowsOf(rows, r) : TRUE]
  <2>2. total'[r] = IF ~(RowsOf(rows, r) # {}) THEN total[r]
                    ELSE IF row.spec THEN total[r] + row.good
                    ELSE IF computed[r] + row.good = total[r] THEN total[r] + 1
                    ELSE total[r]
    BY <1>1, Zenon DEF RunBatch
  <2>3. RowsOf(rows, r) # {} => OwnRow(row)
    BY BatchIsOwn DEF RowsOf, Requests
  <2>4. RowsOf(rows, r) # {} => row.good \in Nat
    BY <2>3 DEF OwnRow
  <2>5. total[r] \in Nat /\ total[r] # 0
    BY DEF ShapeInv, CountersInv
  <2> HIDE DEF row
  <2> QED
    BY <2>2, <2>4, <2>5
<1>4. accepted' \in [Requests -> 1..MaxQuery]
  <2>1. ASSUME NEW r \in Requests
        PROVE  (IF ~(RowsOf(rows, r) # {}) THEN accepted[r]
                ELSE IF rows[CHOOSE i \in RowsOf(rows, r) : TRUE].spec
                     THEN rows[CHOOSE i \in RowsOf(rows, r) : TRUE].good ELSE 1)
                 \in 1..MaxQuery
    <3> DEFINE row == rows[CHOOSE i \in RowsOf(rows, r) : TRUE]
    <3>1. RowsOf(rows, r) # {} => OwnRow(row)
      BY BatchIsOwn DEF RowsOf, Requests
    <3>2. accepted[r] \in 1..MaxQuery
      BY DEF ShapeInv
    <3>3. 1 \in 1..MaxQuery
      BY ConvAssumption DEF MaxQuery
    <3> HIDE DEF row
    <3>4. RowsOf(rows, r) # {} /\ row.spec => row.good \in 1..MaxQuery
      BY <3>1, Zenon DEF OwnRow
    <3> QED
      BY <3>2, <3>3, <3>4, Zenon DEF row
  <2>2. accepted' = [r \in Requests |->
                       IF ~(RowsOf(rows, r) # {}) THEN accepted[r]
                       ELSE IF rows[CHOOSE i \in RowsOf(rows, r) : TRUE].spec
                            THEN rows[CHOOSE i \in RowsOf(rows, r) : TRUE].good ELSE 1]
    BY <1>1, Zenon DEF RunBatch
  <2> QED
    BY <2>1, <2>2, Zenon
<1>5. /\ DOMAIN conv' = Slots \union {NullSlot}
      /\ \A s \in Slots \union {NullSlot} : DOMAIN conv'[s] = 0..Capacity - 1
  <2>1. conv' = Retained(conv, rows, Inputs(rows))
    BY <1>1, Zenon DEF RunBatch
  <2> QED
    BY <2>1 DEF Retained, NextState, ShapeInv
<1>6. /\ DOMAIN ring' = Slots
      /\ \A s \in Slots : DOMAIN ring'[s] = 0..Qsa!RingSize - 1
  BY <1>1 DEF RunBatch, Qsa!RingAfter, ShapeInv
<1> QED
  BY <1>3, <1>4, <1>5, <1>6 DEF ShapeInv

LEMMA InitShape ==
  Init => ShapeInv
<1>1. SUFFICES ASSUME Init PROVE ShapeInv
  OBVIOUS
<1>2. \A r \in Requests : total[r] # 0
  BY <1>1, StepsAssumption DEF Init, Requests
<1>3. accepted \in [Requests -> 1..MaxQuery]
  BY <1>1, ConvAssumption DEF Init, MaxQuery
<1> QED
  BY <1>1, <1>2, <1>3 DEF Init, ShapeInv

LEMMA NextKeepsShape ==
  ASSUME CountersInv, ShapeInv, [Next]_vars
  PROVE  ShapeInv'
<1>1. CASE Step
  BY <1>1, ShapeOfStep
<1>2. ASSUME NEW r \in Requests, Admit(r) PROVE ShapeInv'
  BY <1>2 DEF Admit, ShapeInv
<1>3. ASSUME NEW r \in Requests, Release(r) PROVE ShapeInv'
  <2>1. 1 \in 1..MaxQuery
    BY ConvAssumption DEF MaxQuery
  <2> QED
    BY <1>3, <2>1 DEF Release, ShapeInv
<1>4. CASE UNCHANGED vars
  BY <1>4 DEF vars, ShapeInv
<1> QED
  BY <1>1, <1>2, <1>3, <1>4 DEF Next

\* Counters stay in range and no step changes the shape of a cache.
THEOREM TypeOKTheorem ==
  Spec => []TypeOK
<1> DEFINE TInv == IInv /\ ShapeInv
<1>1. Init => TInv
  BY InitIInv, InitShape
<1>2. TInv /\ [Next]_vars => TInv'
  BY NextKeepsIInv, NextKeepsShape DEF IInv
<1>3. TInv => TypeOK
  BY DEF IInv, CountersInv, ShapeInv, TypeOK
<1> QED
  BY <1>1, <1>2, <1>3, PTL DEF Spec

-----------------------------------------------------------------------------
(* The short-conv state of a request.                                      *)

\* What a row that stands for a request knows of its state.
StatefulRow(row) ==
  /\ row.accepted = accepted[row.req]
  /\ row.initial <=> computed[row.req] > 0
  /\ row.spec => computed[row.req] > 0 /\ row.len <= MaxQuery /\ row.good >= 1
  /\ ~row.spec => row.good = row.len /\ accepted[row.req] = 1

LEMMA RowsAreStateful ==
  ASSUME CountersInv, DraftlessSteps = FALSE, NEW r \in Requests, NEW row \in Rows(r)
  PROVE  StatefulRow(row)
<1>1. CASE row \in PlainRows(r)
  <2>1. PICK n \in Chunks \union {total[r] - computed[r]} :
          accepted[r] = 1 /\ row = BatchRow(r, n, -1, n)
    BY <1>1 DEF PlainRows
  <2>2. row.spec = (-1 >= 0) /\ row.initial = (computed[r] > 0)
    BY <2>1, Zenon DEF BatchRow
  <2>3. ~(-1 >= 0)
    OBVIOUS
  <2>4. ~row.spec /\ (row.initial <=> computed[r] > 0)
    BY <2>2, <2>3, Zenon
  <2>5. row.req = r /\ row.accepted = accepted[r] /\ row.good = row.len
    BY <2>1 DEF BatchRow
  <2> QED
    BY <2>1, <2>4, <2>5, Zenon DEF StatefulRow
<1>2. CASE row \in SpecRows(r)
  <2>1. PICK n \in 0..NumSpec, good \in 1..NumSpec + 1 : row = BatchRow(r, n + 1, n, good)
    BY <1>2 DEF SpecRows
  <2>2. row.spec = (n >= 0) /\ row.initial = (computed[r] > 0)
    BY <2>1, Zenon DEF BatchRow
  <2>3. n >= 0 /\ n + 1 <= NumSpec + 1 /\ good >= 1
    BY ConvAssumption
  <2>4. row.spec /\ (row.initial <=> computed[r] > 0)
    BY <2>2, <2>3, Zenon
  <2>5. row.req = r /\ row.accepted = accepted[r] /\ row.len = n + 1 /\ row.good = good
    BY <2>1 DEF BatchRow
  <2>6. computed[r] > 0
    BY <1>2 DEF SpecRows, CountersInv
  <2> QED
    BY <2>3, <2>4, <2>5, <2>6, Zenon DEF StatefulRow, MaxQuery
<1> QED
  BY <1>1, <1>2 DEF Rows

\* A batch is a sequence of such rows and of padding.
OwnRowOrPad(row) ==
  \/ OwnRow(row) /\ StatefulRow(row)
  \/ row.req = 0 /\ row.slot = NullSlot /\ row.good = 0

LEMMA BatchShape ==
  ASSUME CountersInv, DraftlessSteps = FALSE, NEW rows \in ModelBatches
  PROVE  \E n : BatchOf(rows, n) /\ \A i \in 1..n : OwnRowOrPad(rows[i])
<1>1. PICK base \in Batches : rows \in Padded(base)
  BY DEF ModelBatches
<1> DEFINE AllRows == UNION {Rows(r) : r \in Requests}
<1>2. PICK n \in 1..NumRequests : base \in [1..n -> AllRows]
  BY <1>1 DEF Batches
<1>3. \A row \in AllRows : OwnRow(row) /\ StatefulRow(row) /\ row.len \in Nat
  <2>1. TAKE row \in AllRows
  <2>2. PICK r \in Requests : row \in Rows(r)
    BY <2>1
  <2>3. OwnRow(row) /\ StatefulRow(row)
    BY <2>2, RowsAreOwn, RowsAreStateful
  <2> QED
    BY <2>3 DEF OwnRow
<1>4. /\ n \in Nat /\ base \in Seq(AllRows) /\ Len(base) = n /\ DOMAIN base = 1..n
      /\ \A i \in 1..n : base[i] \in AllRows
  BY <1>2, StepsAssumption
<1> HIDE DEF AllRows
<1>5. CASE rows = base
  BY <1>3, <1>4, <1>5 DEF BatchOf, OwnRowOrPad
<1>6. CASE \E b \in BOOLEAN : rows = Append(base, PadRow(b))
  <2>1. PICK b \in BOOLEAN : rows = Append(base, PadRow(b))
    BY <1>6
  <2>2. PadRow(b).req = 0 /\ PadRow(b).slot = NullSlot /\ PadRow(b).good = 0
        /\ PadRow(b).len \in Nat
    BY DEF PadRow
  <2>3. /\ DOMAIN rows = 1..n + 1 /\ Len(rows) = n + 1
        /\ \A i \in 1..n : rows[i] = base[i]
        /\ rows[n + 1] = PadRow(b)
    BY <1>4, <2>1
  <2>4. BatchOf(rows, n + 1) /\ \A i \in 1..n + 1 : OwnRowOrPad(rows[i])
    BY <1>3, <1>4, <2>2, <2>3 DEF BatchOf, OwnRowOrPad
  <2> QED
    BY <2>4
<1> QED
  BY <1>1, <1>5, <1>6 DEF Padded

\* Behind the tokens its last step accepted, the slot of a request holds the
\* last StateLen inputs of that request.
ConvInv ==
  \A r \in Requests : slot[r] # NullSlot /\ computed[r] > 0 =>
    \A i \in 0..StateLen - 1 :
      conv[slot[r]][accepted[r] - 1 + i] = TrueToken(r, computed[r] - StateLen + i)

LEMMA StateLenType ==
  StateLen \in Nat
<1>1. Kernel - 1 \in Nat /\ Dilation \in Nat
  BY ConvAssumption
<1> QED
  BY <1>1 DEF StateLen

\* The history a row reads is its request's, up to the tokens that stay.
LEMMA HistoryIsTrue ==
  ASSUME CountersInv, ShapeInv, ConvInv, NEW row, OwnRow(row), StatefulRow(row),
         NEW k \in 0..StateLen + row.good - 1
  PROVE  History(conv, row, Input(row))[k] = TrueToken(row.req, row.first - StateLen + k)
<1> DEFINE r == row.req  x == Input(row)
<1>1. /\ r \in Requests /\ row.slot = slot[r] /\ slot[r] # NullSlot
      /\ row.first = computed[r] /\ row.first \in Nat
      /\ row.len \in Nat /\ row.good \in Nat /\ row.good <= row.len
  BY DEF OwnRow, CountersInv
<1>2. StateLen \in Nat /\ MaxQuery \in Nat
  BY StateLenType, ConvAssumption DEF MaxQuery
<1>3. k \in 0..StateLen + row.len - 1 /\ k \in Nat
  BY <1>1, <1>2
<1>4. History(conv, row, x)[k] =
        IF k >= StateLen THEN x[k - StateLen]
        ELSE IF HasState(row) THEN conv[row.slot][Rollback(row) + k] ELSE Zero
  BY <1>3 DEF History
<1>5. CASE k >= StateLen
  <2> DEFINE p == row.first + (k - StateLen)
  <2>1. p \in Int /\ row.first <= p /\ p < row.first + row.good
        /\ p - row.first = k - StateLen /\ row.first - StateLen + k = p
    BY <1>1, <1>2, <1>3, <1>5
  <2>2. x[p - row.first] = TrueToken(r, p)
    <3> HIDE DEF p
    <3> QED
      BY <2>1, InputIsTrue
  <2>3. History(conv, row, x)[k] = x[k - StateLen]
    BY <1>4, <1>5
  <2>4. x[k - StateLen] = x[p - row.first]
    BY <2>1, Zenon
  <2>5. TrueToken(r, row.first - StateLen + k) = TrueToken(r, p)
    BY <2>1, Zenon
  <2> HIDE DEF x, p
  <2> QED
    BY <2>2, <2>3, <2>4, <2>5, Zenon DEF x
<1>6. CASE k < StateLen /\ computed[r] > 0
  <2>1. HasState(row)
    BY <1>1, <1>6 DEF HasState, StatefulRow
  <2>2. Rollback(row) = accepted[r] - 1
    <3>1. row.accepted = accepted[r] /\ accepted[r] \in 1..MaxQuery
      BY <1>1 DEF StatefulRow, ShapeInv
    <3>2. CASE row.spec
      BY <1>2, <3>1, <3>2 DEF Rollback
    <3>3. CASE ~row.spec
      <4>1. accepted[r] = 1
        BY <3>3 DEF StatefulRow
      <4>2. Rollback(row) = 0
        BY <3>3 DEF Rollback
      <4> QED
        BY <4>1, <4>2
    <3> QED
      BY <3>2, <3>3
  <2>3. conv[slot[r]][accepted[r] - 1 + k] = TrueToken(r, computed[r] - StateLen + k)
    BY <1>1, <1>2, <1>3, <1>6 DEF ConvInv
  <2>4. ~(k >= StateLen)
    BY <1>2, <1>3, <1>6
  <2>5. History(conv, row, x)[k] = conv[row.slot][Rollback(row) + k]
    BY <1>4, <2>1, <2>4, Zenon
  <2> HIDE DEF x
  <2>6. conv[row.slot][Rollback(row) + k] = conv[slot[r]][accepted[r] - 1 + k]
    BY <1>1, <2>2, Zenon
  <2>7. TrueToken(r, computed[r] - StateLen + k) = TrueToken(r, row.first - StateLen + k)
    BY <1>1, Zenon
  <2> QED
    BY <2>3, <2>5, <2>6, <2>7, Zenon DEF x
<1>7. CASE k < StateLen /\ ~(computed[r] > 0)
  <2>1. ~HasState(row)
    BY <1>7 DEF HasState, StatefulRow
  <2>2. row.first - StateLen + k < 0
    BY <1>1, <1>2, <1>3, <1>7
  <2>3. ~(k >= StateLen)
    BY <1>2, <1>3, <1>7
  <2> QED
    BY <1>4, <2>1, <2>2, <2>3 DEF TrueToken
<1> QED
  BY <1>2, <1>3, <1>5, <1>6, <1>7

\* What a row leaves in its slot is what its request's next row reads.
LEMMA NextStateIsTrue ==
  ASSUME CountersInv, ShapeInv, ConvInv, NEW row, OwnRow(row), StatefulRow(row),
         NEW i \in 0..StateLen - 1, NEW kept, kept = IF row.spec THEN row.good ELSE 1
  PROVE  NextState(conv, row, Input(row))[kept - 1 + i]
           = TrueToken(row.req, row.first + row.good - StateLen + i)
<1> DEFINE shift == IF row.spec THEN 1 ELSE row.len
           valid == IF row.spec THEN StateLen + row.len - 1 ELSE StateLen
           at    == kept - 1 + i
           k     == row.good + i
<1>1. /\ row.first \in Nat /\ row.len \in Nat /\ row.good \in Nat /\ row.good <= row.len
      /\ row.slot # NullSlot /\ NumSpec \in Nat /\ StateLen \in Nat
      /\ row.spec => row.good >= 1 /\ row.len <= NumSpec + 1
      /\ ~row.spec => row.good = row.len
  BY ConvAssumption, StateLenType DEF OwnRow, CountersInv, StatefulRow, MaxQuery
<1>2. /\ at \in 0..Capacity - 1 /\ at < valid /\ shift + at = k
      /\ k \in 0..StateLen + row.good - 1
      /\ row.first - StateLen + k = row.first + row.good - StateLen + i
  <2>1. CASE row.spec
    BY <1>1, <2>1 DEF Capacity
  <2>2. CASE ~row.spec
    BY <1>1, <2>2 DEF Capacity
  <2> QED
    BY <2>1, <2>2
<1>3. NextState(conv, row, Input(row))[at] = History(conv, row, Input(row))[shift + at]
  <2>1. NextState(conv, row, Input(row))
          = [c \in 0..Capacity - 1 |->
               IF row.slot # NullSlot /\ c < valid THEN History(conv, row, Input(row))[shift + c]
               ELSE conv[row.slot][c]]
    BY DEF NextState
  <2> HIDE DEF at, shift, valid
  <2> QED
    BY <1>1, <1>2, <2>1
<1>4. History(conv, row, Input(row))[k] = TrueToken(row.req, row.first - StateLen + k)
  <2> HIDE DEF k
  <2> QED
    BY <1>2, HistoryIsTrue
<1> HIDE DEF shift, k, valid
<1> QED
  BY <1>2, <1>3, <1>4

\* What a step of the model does to a request that has no row in its batch,
\* and to one that has.
ConvUntouched(r) ==
  /\ computed'[r] = computed[r] /\ accepted'[r] = accepted[r]
  /\ slot[r] # NullSlot => conv'[slot[r]] = conv[slot[r]]

ConvServed(r, row) ==
  /\ OwnRow(row) /\ StatefulRow(row) /\ row.req = r
  /\ computed'[r] = computed[r] + row.good
  /\ accepted'[r] = IF row.spec THEN row.good ELSE 1
  /\ conv'[row.slot] = NextState(conv, row, Input(row))

LEMMA ConvStepOfRequest ==
  ASSUME CountersInv, ShapeInv, DraftlessSteps = FALSE,
         NEW rows \in ModelBatches, RunBatch(rows), NEW r \in Requests
  PROVE  ConvUntouched(r) \/ \E row : ConvServed(r, row)
<1> DEFINE mine == RowsOf(rows, r)
           row == rows[CHOOSE i \in mine : TRUE]
<1>1. PICK n : BatchOf(rows, n) /\ \A i \in 1..n : OwnRowOrPad(rows[i])
  BY BatchShape
<1>2. n \in Nat /\ DOMAIN rows = 1..n
  BY <1>1 DEF BatchOf
<1>3. \A i, j \in 1..n : rows[i].req = rows[j].req /\ rows[i].req \in Requests => i = j
  BY <1>2, BatchIsOwn
<1>4. /\ computed'[r] = computed[r] + IF mine # {} THEN row.good ELSE 0
      /\ accepted'[r] = IF ~(mine # {}) THEN accepted[r] ELSE IF row.spec THEN row.good ELSE 1
      /\ conv' = Retained(conv, rows, Inputs(rows))
  BY Zenon DEF RunBatch
<1>5. slot[r] # NullSlot =>
        /\ slot[r] \in DOMAIN conv
        /\ \A i \in 1..n : rows[i].slot = slot[r] <=> rows[i].req = r
  <2>1. SUFFICES ASSUME slot[r] # NullSlot
                 PROVE  /\ slot[r] \in DOMAIN conv
                        /\ \A i \in 1..n : rows[i].slot = slot[r] <=> rows[i].req = r
    OBVIOUS
  <2>2. slot[r] \in DOMAIN conv
    BY <2>1 DEF CountersInv, ShapeInv
  <2>3. ASSUME NEW i \in 1..n
        PROVE  rows[i].slot = slot[r] <=> rows[i].req = r
    <3>1. CASE OwnRow(rows[i])
      BY <2>1, <3>1 DEF OwnRow, CountersInv
    <3>2. CASE rows[i].req = 0 /\ rows[i].slot = NullSlot
      BY <2>1, <3>2 DEF Requests
    <3> QED
      BY <1>1, <3>1, <3>2 DEF OwnRowOrPad
  <2> QED
    BY <2>2, <2>3
<1>6. CASE mine = {}
  <2>1. computed'[r] = computed[r]
    BY <1>4, <1>6 DEF CountersInv
  <2>2. accepted'[r] = accepted[r]
    BY <1>4, <1>6, Zenon
  <2>3. \A i \in 1..n : rows[i].req # r
    BY <1>2, <1>6 DEF RowsOf
  <2>4. slot[r] # NullSlot => conv'[slot[r]] = conv[slot[r]]
    BY <1>1, <1>4, <1>5, <2>3, RetainedOfRow
  <2> QED
    BY <2>1, <2>2, <2>4 DEF ConvUntouched
<1>7. CASE mine # {}
  <2>1. PICK i \in mine : row = rows[i]
    BY <1>7
  <2>2. i \in 1..n /\ row.req = r
    BY <1>2, <2>1 DEF RowsOf
  <2>3. OwnRow(row) /\ StatefulRow(row)
    <3>1. OwnRowOrPad(row)
      BY <1>1, <2>1, <2>2
    <3>2. row.req # 0
      BY <2>2 DEF Requests
    <3> QED
      BY <3>1, <3>2 DEF OwnRowOrPad
  <2>4. row.slot = slot[r] /\ slot[r] # NullSlot
    BY <2>2, <2>3 DEF OwnRow
  <2>5. rows[i].slot = slot[r] /\ \A m \in 1..n : rows[m].slot = slot[r] => m = i
    BY <1>3, <1>5, <2>1, <2>2, <2>4
  <2> HIDE DEF row, mine
  <2>6. conv'[slot[r]] = NextState(conv, rows[i], Input(rows[i]))
    BY <1>1, <1>4, <1>5, <2>2, <2>4, <2>5, RetainedOfRow
  <2>7. conv'[row.slot] = NextState(conv, row, Input(row))
    BY <2>1, <2>4, <2>6, Zenon
  <2>8. computed'[r] = computed[r] + row.good
    BY <1>4, <1>7
  <2>9. accepted'[r] = IF row.spec THEN row.good ELSE 1
    BY <1>4, <1>7
  <2> QED
    BY <2>2, <2>3, <2>7, <2>8, <2>9 DEF ConvServed
<1> QED
  BY <1>6, <1>7

LEMMA StepKeepsConvInv ==
  ASSUME CountersInv, ShapeInv, ConvInv, DraftlessSteps = FALSE, Step
  PROVE  ConvInv'
<1>1. PICK rows \in ModelBatches : RunBatch(rows)
  BY DEF Step
<1>2. slot' = slot
  BY <1>1, Zenon DEF RunBatch
<1>3. SUFFICES ASSUME NEW r \in Requests, slot[r] # NullSlot, computed'[r] > 0,
                      NEW i \in 0..StateLen - 1
               PROVE  conv'[slot[r]][accepted'[r] - 1 + i]
                        = TrueToken(r, computed'[r] - StateLen + i)
  BY <1>2 DEF ConvInv
<1>4. CASE ConvUntouched(r)
  BY <1>3, <1>4 DEF ConvUntouched, ConvInv
<1>5. CASE \E row : ConvServed(r, row)
  <2>1. PICK row : ConvServed(r, row)
    BY <1>5
  <2>2. /\ OwnRow(row) /\ StatefulRow(row) /\ row.req = r /\ row.slot = slot[r]
        /\ computed'[r] = row.first + row.good
        /\ accepted'[r] = IF row.spec THEN row.good ELSE 1
        /\ conv'[row.slot] = NextState(conv, row, Input(row))
    BY <2>1 DEF ConvServed, OwnRow
  <2>3. NextState(conv, row, Input(row))[accepted'[r] - 1 + i]
          = TrueToken(row.req, row.first + row.good - StateLen + i)
    BY <1>3, <2>2, NextStateIsTrue
  <2>4. conv'[slot[r]] = NextState(conv, row, Input(row))
    BY <2>2, Zenon
  <2>5. TrueToken(row.req, row.first + row.good - StateLen + i)
          = TrueToken(r, computed'[r] - StateLen + i)
    <3>1. row.req = r /\ computed'[r] = row.first + row.good
      BY <2>2
    <3>2. row.first \in Nat /\ row.good \in Nat /\ StateLen \in Nat
      BY <2>2, StateLenType DEF OwnRow, CountersInv
    <3>3. row.first + row.good - StateLen + i = computed'[r] - StateLen + i
      BY <3>1, <3>2
    <3> QED
      BY <3>1, <3>3, Zenon
  <2> QED
    BY <2>3, <2>4, <2>5, Zenon
<1> QED
  BY <1>1, <1>4, <1>5, ConvStepOfRequest

LEMMA NextKeepsConvInv ==
  ASSUME CountersInv, ShapeInv, ConvInv, DraftlessSteps = FALSE, [Next]_vars
  PROVE  ConvInv'
<1>1. CASE Step
  BY <1>1, StepKeepsConvInv
<1>2. ASSUME NEW r \in Requests, Admit(r) PROVE ConvInv'
  <2>1. PICK s \in Slots : slot' = [slot EXCEPT ![r] = s]
    BY <1>2 DEF Admit
  <2>2. UNCHANGED <<computed, accepted, conv>> /\ computed[r] = 0
    BY <1>2 DEF Admit, CountersInv
  <2>3. \A q \in Requests : q # r => slot'[q] = slot[q]
    BY <2>1 DEF CountersInv
  <2>4. ~(computed[r] > 0)
    BY <2>2
  <2> QED
    BY <2>2, <2>3, <2>4 DEF ConvInv
<1>3. ASSUME NEW r \in Requests, Release(r) PROVE ConvInv'
  <2>1. /\ slot' = [slot EXCEPT ![r] = NullSlot]
        /\ computed' = [computed EXCEPT ![r] = 0]
        /\ accepted' = [accepted EXCEPT ![r] = 1]
        /\ conv' = conv
    BY <1>3 DEF Release
  <2>2. slot'[r] = NullSlot
    BY <2>1 DEF CountersInv
  <2>3. \A q \in Requests : q # r =>
          slot'[q] = slot[q] /\ computed'[q] = computed[q] /\ accepted'[q] = accepted[q]
    BY <2>1 DEF CountersInv, ShapeInv
  <2> QED
    BY <2>1, <2>2, <2>3 DEF ConvInv
<1>4. CASE UNCHANGED vars
  BY <1>4 DEF vars, ConvInv
<1> QED
  BY <1>1, <1>2, <1>3, <1>4 DEF Next

\* The taps of an output stay in the history of its row.
LEMMA TapInHistory ==
  ASSUME NEW j \in Nat \ {0}, NEW k \in 1..Kernel
  PROVE  (k - 1) * Dilation \in 0..StateLen
<1>1. k - 1 \in Nat /\ Kernel - 1 \in Nat /\ Dilation \in Nat /\ k - 1 <= Kernel - 1
  BY ConvAssumption
<1> DEFINE taps == Kernel - 1
           tap == k - 1
<1>3. tap * Dilation <= taps * Dilation /\ tap * Dilation \in Nat
  <2>1. tap \in Nat /\ taps \in Nat /\ tap <= taps /\ Dilation \in Nat
    BY <1>1
  <2> HIDE DEF tap, taps
  <2> QED
    BY <2>1, ProductGrows
<1> QED
  BY <1>3, StateLenType DEF StateLen

LEMMA OutputIsTrue ==
  ASSUME CountersInv, ShapeInv, ConvInv, NEW row, OwnRow(row), StatefulRow(row),
         NEW j \in 1..row.good
  PROVE  RowOutput(conv, row, Input(row))[j]
           = [k \in 1..Kernel |->
                TrueToken(row.req, row.first + j - 1 - StateLen + (k - 1) * Dilation)]
<1>1. /\ row.first \in Nat /\ row.len \in Nat /\ row.good \in Nat /\ row.good <= row.len
      /\ row.slot # NullSlot
  BY DEF OwnRow, CountersInv
<1>2. j \in 1..row.len
  BY <1>1
<1>3. RowOutput(conv, row, Input(row))[j]
        = [k \in 1..Kernel |->
             IF row.slot = NullSlot THEN Zero
             ELSE History(conv, row, Input(row))[j - 1 + (k - 1) * Dilation]]
  BY <1>2 DEF RowOutput
<1>4. ASSUME NEW k \in 1..Kernel
      PROVE  History(conv, row, Input(row))[j - 1 + (k - 1) * Dilation]
               = TrueToken(row.req, row.first + j - 1 - StateLen + (k - 1) * Dilation)
  <2>1. PICK tap : tap = (k - 1) * Dilation
    OBVIOUS
  <2>2. tap \in 0..StateLen /\ StateLen \in Nat
    BY <2>1, TapInHistory, StateLenType
  <2>3. /\ j - 1 + tap \in 0..StateLen + row.good - 1
        /\ row.first - StateLen + (j - 1 + tap) = row.first + j - 1 - StateLen + tap
    BY <1>1, <2>2
  <2>4. History(conv, row, Input(row))[j - 1 + tap]
          = TrueToken(row.req, row.first - StateLen + (j - 1 + tap))
    BY <2>3, HistoryIsTrue
  <2> QED
    BY <2>1, <2>3, <2>4, Zenon
<1> QED
  BY <1>1, <1>3, <1>4

LEMMA BatchSeesOwnHistory ==
  ASSUME CountersInv, ShapeInv, ConvInv, DraftlessSteps = FALSE
  PROVE  ConvSeesOwnHistory
<1> SUFFICES ASSUME NEW rows \in ModelBatches, NEW i \in DOMAIN rows,
                    NEW j \in 1..rows[i].good
             PROVE  Convolved(conv, rows, Inputs(rows))[QueryStartLoc(rows)[i] + j]
                      = [k \in 1..Kernel |->
                           TrueToken(rows[i].req,
                                     rows[i].first + j - 1 - StateLen + (k - 1) * Dilation)]
  BY DEF ConvSeesOwnHistory
<1>1. PICK n : BatchOf(rows, n) /\ \A m \in 1..n : OwnRowOrPad(rows[m])
  BY BatchShape
<1>2. i \in 1..n /\ rows[i].good # 0
  BY <1>1 DEF BatchOf
<1>3. OwnRow(rows[i]) /\ StatefulRow(rows[i])
  BY <1>1, <1>2 DEF OwnRowOrPad
<1>4. j \in 1..rows[i].len
  BY <1>3 DEF OwnRow
<1>5. Convolved(conv, rows, Inputs(rows))[QueryStartLoc(rows)[i] + j]
        = RowOutput(conv, rows[i], Input(rows[i]))[j]
  BY <1>1, <1>2, <1>4, ConvolvedOfRow
<1>6. RowOutput(conv, rows[i], Input(rows[i]))[j]
        = [k \in 1..Kernel |->
             TrueToken(rows[i].req, rows[i].first + j - 1 - StateLen + (k - 1) * Dilation)]
  BY <1>3, OutputIsTrue
<1> QED
  BY <1>5, <1>6, Zenon

\* Whatever batch the model is given, the convolution of every token that
\* stays reads that request's own inputs, at every kernel width, dilation,
\* number of drafts, set of requests and slots, cut of the prompts and order
\* of preemptions, as long as every step of a request that has drafts carries
\* some (a plain decode after several accepted drafts reads the wrong inputs).
THEOREM ConvSeesOwnHistoryTheorem ==
  ASSUME DraftlessSteps = FALSE
  PROVE  Spec => []ConvSeesOwnHistory
<1> DEFINE Inv == (IInv /\ ShapeInv) /\ ConvInv
<1>1. Init => IInv /\ ShapeInv
  BY InitIInv, InitShape
<1>2. Init => ConvInv
  <2>1. SUFFICES ASSUME Init PROVE ConvInv
    OBVIOUS
  <2>2. \A r \in Requests : ~(computed[r] > 0)
    BY <2>1 DEF Init
  <2> QED
    BY <2>2 DEF ConvInv
<1>3. Inv /\ [Next]_vars => Inv'
  BY NextKeepsIInv, NextKeepsShape, NextKeepsConvInv DEF IInv
<1>4. Inv => ConvSeesOwnHistory
  BY BatchSeesOwnHistory DEF IInv
<1> QED
  BY <1>1, <1>2, <1>3, <1>4, PTL DEF Spec

\* Every compressed key the model keeps pools the keys of its own group of
\* its own request, for every ratio, number of drafts, set of requests, cut
\* of the prompts and order of preemptions.
THEOREM GroupsPoolOwnKeysTheorem ==
  Spec => []GroupsPoolOwnKeys
<1>1. IInv /\ [Next]_vars => IInv'
  BY NextKeepsIInv
<1>2. IInv => GroupsPoolOwnKeys
  BY DEF IInv
<1> QED
  BY InitIInv, <1>1, <1>2, PTL DEF Spec
==============================================================================
