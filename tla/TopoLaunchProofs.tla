-------------------------- MODULE TopoLaunchProofs --------------------------
(***************************************************************************)
(* What a launch never does, for every machine, caller and control: the    *)
(* selector keeps the caller's GPUs, orders them best and binds the server *)
(* to their node only, and under strict it never picks a lane itself.      *)
(***************************************************************************)
EXTENDS TopoLaunch, DataLemmas

-----------------------------------------------------------------------------
(* The orders of the selector: every CHOOSE of TopoSelect names a value.   *)

\* The tuples of k integers.
Tuples(k) == [1 .. k -> Int]

\* Less is irreflexive and transitive on the tuples of one length.
LEMMA LessIsStrict ==
  ASSUME NEW k \in Nat
  PROVE  /\ \A s \in Tuples(k) : ~Less(s, s)
         /\ \A s, t, u \in Tuples(k) : Less(s, t) /\ Less(t, u) => Less(s, u)
<1>0. \A s \in Tuples(k) : Len(s) = k
  BY DEF Tuples
<1>1. ASSUME NEW s \in Tuples(k) PROVE ~Less(s, s)
  BY <1>0 DEF Less, Tuples
<1>2. ASSUME NEW s \in Tuples(k), NEW t \in Tuples(k), NEW u \in Tuples(k),
             Less(s, t), Less(t, u)
      PROVE  Less(s, u)
  <2>1. PICK i \in 1 .. k : s[i] < t[i] /\ \A m \in 1 .. i - 1 : s[m] = t[m]
    BY <1>0, <1>2 DEF Less
  <2>2. PICK j \in 1 .. k : t[j] < u[j] /\ \A m \in 1 .. j - 1 : t[m] = u[m]
    BY <1>0, <1>2 DEF Less
  <2> \A m \in 1 .. k : s[m] \in Int /\ t[m] \in Int /\ u[m] \in Int
    BY DEF Tuples
  <2>3. CASE i <= j
    <3>1. s[i] < u[i]
      BY <2>1, <2>2, <2>3
    <3>2. \A m \in 1 .. i - 1 : s[m] = u[m]
      BY <2>1, <2>2, <2>3
    <3> QED
      BY <3>1, <3>2, <1>0 DEF Less
  <2>4. CASE j < i
    <3>1. s[j] < u[j]
      BY <2>1, <2>2, <2>4
    <3>2. \A m \in 1 .. j - 1 : s[m] = u[m]
      BY <2>1, <2>2, <2>4
    <3> QED
      BY <3>1, <3>2, <1>0 DEF Less
  <2> QED
    BY <2>3, <2>4
<1> QED
  BY <1>1, <1>2

\* Greatest names an element of the set, and none is above it.
LEMMA GreatestExists ==
  ASSUME NEW k \in Nat, NEW S \in SUBSET Tuples(k), IsFiniteSet(S), S # {}
  PROVE  Greatest(S) \in S /\ \A t \in S : ~Less(Greatest(S), t)
<1> DEFINE R == {p \in S \X S : Less(p[1], p[2])}
<1>1. \A x, y \in S : <<x, y>> \in R <=> Less(x, y)
  OBVIOUS
<1>2. \E x \in S : \A y \in S : <<x, y>> \notin R
  <2>1. \A x \in S : <<x, x>> \notin R
    BY <1>1, LessIsStrict
  <2>2. \A x, y, z \in S : <<x, y>> \in R /\ <<y, z>> \in R => <<x, z>> \in R
    <3> HIDE DEF R
    <3> QED
      BY <1>1, LessIsStrict
  <2> HIDE DEF R
  <2> QED
    BY <2>1, <2>2, FiniteMaximal
<1>3. \E x \in S : \A y \in S : ~Less(x, y)
  BY <1>1, <1>2
<1> QED
  BY <1>3, Zenon DEF Greatest

\* Least names an element of the set, and none is below it.
LEMMA LeastExists ==
  ASSUME NEW k \in Nat, NEW S \in SUBSET Tuples(k), IsFiniteSet(S), S # {}
  PROVE  Least(S) \in S /\ \A t \in S : ~Less(t, Least(S))
<1> DEFINE R == {p \in S \X S : Less(p[2], p[1])}
<1>1. \A x, y \in S : <<x, y>> \in R <=> Less(y, x)
  OBVIOUS
<1>2. \E x \in S : \A y \in S : <<x, y>> \notin R
  <2>1. \A x \in S : <<x, x>> \notin R
    BY <1>1, LessIsStrict
  <2>2. \A x, y, z \in S : <<x, y>> \in R /\ <<y, z>> \in R => <<x, z>> \in R
    <3> HIDE DEF R
    <3> QED
      BY <1>1, LessIsStrict
  <2> HIDE DEF R
  <2> QED
    BY <2>1, <2>2, FiniteMaximal
<1>3. \E x \in S : \A y \in S : ~Less(y, x)
  BY <1>1, <1>2
<1> QED
  BY <1>3, Zenon DEF Least

-----------------------------------------------------------------------------
(* The orders of a lane.                                                   *)

\* A score is a tuple of three integers.
LEMMA ScoreType ==
  ASSUME NEW h, NEW l
  PROVE  Score(h, l) \in Tuples(3)
<1>1. \A p : LinkClass(p) \in Int
  BY DEF LinkClass, NoClass
<1>2. \A a, b \in Int : Lower(a, b) \in Int
  BY DEF Lower
<1> DEFINE a == LinkClass(Pair(h, l[1], l[2]))
           b == LinkClass(Pair(h, l[3], l[4]))
           c == LinkClass(Pair(h, l[1], l[3]))
           d == LinkClass(Pair(h, l[2], l[4]))
<1>3. a \in Int /\ b \in Int /\ c \in Int /\ d \in Int
  BY <1>1
<1>4. Score(h, l) = <<Lower(a, b), a + b, Lower(c, d)>>
  BY DEF Score
<1> HIDE DEF a, b, c, d
<1> QED
  BY <1>2, <1>3, <1>4 DEF Tuples

\* A lane has finitely many orders, itself among them.
LEMMA OrdersOfLane ==
  ASSUME NEW S, NEW lane \in Lanes(S)
  PROVE  /\ IsFiniteSet(OrdersOf(lane)) /\ lane \in OrdersOf(lane)
         /\ OrdersOf(lane) \subseteq Lanes(S)
<1> DEFINE P  == (Ranks \X Ranks) \X (Ranks \X Ranks)
           At(q, i) == IF i = 1 THEN q[1][1] ELSE IF i = 2 THEN q[1][2]
                       ELSE IF i = 3 THEN q[2][1] ELSE q[2][2]
           f  == [q \in P |-> [i \in Ranks |-> lane[At(q, i)]]]
           Im == {f[q] : q \in P}
<1>1. IsFiniteSet(Im)
  <2>1. IsFiniteSet(Ranks)
    <3>1. IsFiniteSet(1 .. 4)
      <4>1. 1 \in Int /\ 4 \in Int
        OBVIOUS
      <4> QED
        BY <4>1, FS_Interval, Zenon
    <3> QED
      BY <3>1 DEF Ranks
  <2>2. IsFiniteSet(Ranks \X Ranks)
    BY <2>1, FS_Product
  <2>3. IsFiniteSet(P)
    BY <2>2, FS_Product
  <2> HIDE DEF P, f
  <2> QED
    BY <2>3, ImageFinite
<1>2. OrdersOf(lane) \subseteq Im
  <2> SUFFICES ASSUME NEW p \in Orders
               PROVE  [i \in Ranks |-> lane[p[i]]] \in Im
    BY DEF OrdersOf
  <2> DEFINE q == <<<<p[1], p[2]>>, <<p[3], p[4]>>>>
  <2>1. \A i \in Ranks : p[i] \in Ranks
    BY DEF Orders, Lanes
  <2>2. q \in P
    BY <2>1 DEF Ranks
  <2>3. \A i \in Ranks : At(q, i) = p[i]
    BY DEF Ranks
  <2>4. f[q] = [i \in Ranks |-> lane[p[i]]]
    <3> HIDE DEF P, At, q
    <3> QED
      BY <2>2, <2>3
  <2> HIDE DEF P, f, q
  <2> QED
    BY <2>2, <2>4
<1>3. lane \in OrdersOf(lane)
  <2> DEFINE e == [i \in Ranks |-> i]
  <2>1. e \in Orders
    BY DEF Orders, Lanes
  <2>2. [i \in Ranks |-> lane[e[i]]] = lane
    BY DEF Lanes
  <2> HIDE DEF e
  <2> QED
    BY <2>1, <2>2 DEF OrdersOf
<1>4. OrdersOf(lane) \subseteq Lanes(S)
  <2> SUFFICES ASSUME NEW p \in Orders
               PROVE  [i \in Ranks |-> lane[p[i]]] \in Lanes(S)
    BY DEF OrdersOf
  <2> QED
    BY DEF Orders, Lanes
<1> QED
  BY <1>1, <1>2, <1>3, <1>4, FS_Subset

\* An order of a lane has the same GPUs.
LEMMA OrderKeepsGpus ==
  ASSUME NEW S, NEW lane \in Lanes(S), NEW l \in OrdersOf(lane)
  PROVE  {l[i] : i \in Ranks} = {lane[i] : i \in Ranks}
<1>1. PICK p \in Orders : l = [i \in Ranks |-> lane[p[i]]]
  BY DEF OrdersOf
<1>2. \A j \in Ranks : \E i \in Ranks : p[i] = j
  <2>1. /\ p[1] \in 1 .. 4 /\ p[2] \in 1 .. 4 /\ p[3] \in 1 .. 4 /\ p[4] \in 1 .. 4
        /\ p[1] # p[2] /\ p[1] # p[3] /\ p[1] # p[4]
        /\ p[2] # p[3] /\ p[2] # p[4] /\ p[3] # p[4]
    BY DEF Orders, Lanes, Ranks
  <2>2. \A j \in 1 .. 4 : p[1] = j \/ p[2] = j \/ p[3] = j \/ p[4] = j
    BY <2>1
  <2> QED
    BY <2>2 DEF Ranks
<1>3. \A i \in Ranks : p[i] \in Ranks
  BY DEF Orders, Lanes
<1> QED
  BY <1>1, <1>2, <1>3

\* TopScore is the score of an order and no order scores higher.
LEMMA TopScoreIsTop ==
  ASSUME NEW h, NEW S, NEW lane \in Lanes(S)
  PROVE  /\ \E l \in OrdersOf(lane) : TopScore(h, lane) = Score(h, l)
         /\ \A l \in OrdersOf(lane) : ~Less(TopScore(h, lane), Score(h, l))
<1> DEFINE f == [l \in OrdersOf(lane) |-> Score(h, l)]
           T == {Score(h, l) : l \in OrdersOf(lane)}
<1>1. T = {f[l] : l \in OrdersOf(lane)}
  OBVIOUS
<1>2. IsFiniteSet(T)
  <2> HIDE DEF f, T
  <2> QED
    BY <1>1, OrdersOfLane, ImageFinite
<1>3. T \in SUBSET Tuples(3) /\ Score(h, lane) \in T
  BY ScoreType, OrdersOfLane
<1>4. Greatest(T) \in T /\ \A t \in T : ~Less(Greatest(T), t)
  <2> HIDE DEF T
  <2> QED
    BY <1>2, <1>3, GreatestExists
<1> QED
  BY <1>4 DEF TopScore

\* Scores are totally ordered: what is below t is below anything t is not above.
LEMMA LessIsTotal ==
  ASSUME NEW s \in Tuples(3), NEW t \in Tuples(3), NEW u \in Tuples(3),
         Less(s, t), ~Less(u, t)
  PROVE  Less(s, u)
<1>1. \A v \in Tuples(3) : Len(v) = 3 /\ v[1] \in Int /\ v[2] \in Int /\ v[3] \in Int
  BY DEF Tuples
<1>2. \A v, w \in Tuples(3) :
        Less(v, w) <=> \/ v[1] < w[1]
                       \/ v[1] = w[1] /\ v[2] < w[2]
                       \/ v[1] = w[1] /\ v[2] = w[2] /\ v[3] < w[3]
  <2> TAKE v \in Tuples(3), w \in Tuples(3)
  <2>1. Less(v, w) <=> \E i \in 1 .. 3 : v[i] < w[i] /\ \A j \in 1 .. i - 1 : v[j] = w[j]
    BY <1>1 DEF Less
  <2>2. 1 .. 3 = {1, 2, 3} /\ 1 .. 0 = {} /\ 1 .. 1 = {1} /\ 1 .. 2 = {1, 2}
    OBVIOUS
  <2> QED
    BY <2>1, <2>2
<1> QED
  BY <1>1, <1>2

\* choose_order returns an order of the lane that no other order beats, and
\* moves away from the lane it was given only for a higher score.
LEMMA ChooseOrderIsBest ==
  ASSUME NEW h, NEW n \in Nat, NEW lane \in Lanes(1 .. n)
  PROVE  /\ ChooseOrder(h, lane) \in OrdersOf(lane)
         /\ ChooseOrder(h, lane) # lane =>
              Less(Score(h, lane), Score(h, ChooseOrder(h, lane)))
         /\ \A l \in OrdersOf(lane) :
              ~Less(Score(h, ChooseOrder(h, lane)), Score(h, l))
<1> DEFINE top == TopScore(h, lane)
           B   == {l \in OrdersOf(lane) : Score(h, l) = top}
<1>1. BestOrder(h, lane) \in B
  <2>1. B # {}
    BY TopScoreIsTop
  <2>2. IsFiniteSet(B)
    BY OrdersOfLane, FS_Subset
  <2>3. B \in SUBSET Tuples(4)
    BY OrdersOfLane DEF Lanes, Tuples, Ranks
  <2>4. BestOrder(h, lane) = Least(B)
    BY DEF BestOrder
  <2> HIDE DEF B
  <2> QED
    BY <2>1, <2>2, <2>3, <2>4, LeastExists
<1>2. CASE Less(Score(h, lane), top)
  BY <1>1, <1>2, TopScoreIsTop DEF ChooseOrder
<1>3. CASE ~Less(Score(h, lane), top)
  <2>1. ChooseOrder(h, lane) = lane
    BY <1>3 DEF ChooseOrder
  <2>2. ASSUME NEW l \in OrdersOf(lane), Less(Score(h, lane), Score(h, l))
        PROVE  FALSE
    <3>1. ~Less(top, Score(h, l))
      BY TopScoreIsTop
    <3>2. \A s, t, u \in Tuples(3) : Less(s, t) /\ ~Less(u, t) => Less(s, u)
      BY LessIsTotal
    <3>3. top \in Tuples(3)
      BY TopScoreIsTop, ScoreType
    <3> QED
      BY <2>2, <1>3, <3>1, <3>2, <3>3, ScoreType
  <2> QED
    BY <2>1, <2>2, OrdersOfLane
<1> QED
  BY <1>2, <1>3

-----------------------------------------------------------------------------
(* The lane the selector starts from.                                      *)

\* Four GPUs have an order by bus id.
LEMMA BusOrderExists ==
  ASSUME NEW S \in SUBSET Nat, IsFiniteSet(S), Cardinality(S) = 4
  PROVE  InBusOrder(S) \in Lanes(S)
<1>1. \A T \in SUBSET S : IsFiniteSet(T) /\ (Cardinality(T) # 0 => T # {})
  BY FS_Subset, FS_EmptySet
<1>2. ASSUME NEW T \in SUBSET S, Cardinality(T) \in Nat, Cardinality(T) # 0
      PROVE  \E x \in T : /\ \A y \in T \ {x} : x < y
                          /\ Cardinality(T \ {x}) = Cardinality(T) - 1
  <2>1. PICK x \in T : \A y \in T : x <= y
    BY <1>1, <1>2, FiniteMinimum
  <2>2. Cardinality(T \ {x}) = Cardinality(T) - 1
    BY <1>1, FS_RemoveElement
  <2> QED
    BY <2>1, <2>2
<1>3. PICK a \in S : (\A y \in S \ {a} : a < y) /\ Cardinality(S \ {a}) = 3
  BY <1>2
<1>4. PICK b \in S \ {a} : /\ \A y \in (S \ {a}) \ {b} : b < y
                           /\ Cardinality((S \ {a}) \ {b}) = 2
  BY <1>2, <1>3
<1>5. PICK c \in (S \ {a}) \ {b} :
        /\ \A y \in ((S \ {a}) \ {b}) \ {c} : c < y
        /\ Cardinality(((S \ {a}) \ {b}) \ {c}) = 1
  BY <1>2, <1>4
<1>6. PICK d \in ((S \ {a}) \ {b}) \ {c} : TRUE
  BY <1>2, <1>5
<1> DEFINE l == [i \in Ranks |-> IF i = 1 THEN a ELSE IF i = 2 THEN b
                                 ELSE IF i = 3 THEN c ELSE d]
<1>7. a < b /\ b < c /\ c < d
  BY <1>3, <1>4, <1>5, <1>6
<1>8. l \in Lanes(S)
  BY <1>7 DEF Lanes, Ranks
<1>9. \A i \in 1 .. 3 : l[i] < l[i + 1]
  BY <1>7 DEF Ranks
<1>10. \E m \in Lanes(S) : \A i \in 1 .. 3 : m[i] < m[i + 1]
  BY <1>8, <1>9
<1> QED
  BY <1>10, Zenon DEF InBusOrder

\* A lane of four GPUs of a four-GPU host has all of them.
LEMMA LaneOfFour ==
  ASSUME NEW l \in Lanes(1 .. 4)
  PROVE  {l[i] : i \in Ranks} = 1 .. 4
<1>1. /\ l[1] \in 1 .. 4 /\ l[2] \in 1 .. 4 /\ l[3] \in 1 .. 4 /\ l[4] \in 1 .. 4
      /\ l[1] # l[2] /\ l[1] # l[3] /\ l[1] # l[4]
      /\ l[2] # l[3] /\ l[2] # l[4] /\ l[3] # l[4]
  BY DEF Lanes, Ranks
<1>2. \A j \in 1 .. 4 : l[1] = j \/ l[2] = j \/ l[3] = j \/ l[4] = j
  BY <1>1
<1> QED
  BY <1>1, <1>2 DEF Ranks

\* Tuples are sequences of a fixed length.
LEMMA TuplesAreSequences ==
  ASSUME NEW k \in Nat, NEW s
  PROVE  s \in Tuples(k) <=> s \in Seq(Int) /\ Len(s) = k
<1>1. ASSUME s \in Tuples(k) PROVE s \in Seq(Int) /\ Len(s) = k
  <2>1. s \in Seq(Int)
    BY <1>1, SeqDef DEF Tuples
  <2>2. Len(s) = k
    BY <1>1 DEF Tuples
  <2> QED
    BY <2>1, <2>2
<1>2. ASSUME s \in Seq(Int), Len(s) = k PROVE s \in Tuples(k)
  BY <1>2, LenProperties DEF Tuples
<1> QED
  BY <1>1, <1>2

\* Tuples joined are a tuple.
LEMMA ConcatTuples ==
  ASSUME NEW j \in Nat, NEW k \in Nat, NEW s \in Tuples(j), NEW t \in Tuples(k)
  PROVE  s \o t \in Tuples(j + k)
<1>1. s \in Seq(Int) /\ Len(s) = j /\ t \in Seq(Int) /\ Len(t) = k
  BY TuplesAreSequences
<1>2. s \o t \in Seq(Int) /\ Len(s \o t) = j + k
  BY <1>1, ConcatProperties
<1>3. j + k \in Nat
  OBVIOUS
<1> QED
  BY <1>2, <1>3, TuplesAreSequences

\* The key of an automatic lane is a tuple of eight integers.
LEMMA AutoKeyType ==
  ASSUME NEW h, NEW n \in Nat, NEW l \in Lanes(1 .. n)
  PROVE  AutoKey(h, l) \in Tuples(8)
<1> DEFINE a == <<IF OneNode(h, {l[i] : i \in Ranks}) THEN 1 ELSE 0>>
           s == TopScore(h, l)
           b == [i \in Ranks |-> -l[i]]
<1>1. a \in Tuples(1)
  BY DEF Tuples
<1>2. s \in Tuples(3)
  BY TopScoreIsTop, ScoreType
<1>3. b \in Tuples(4)
  BY DEF Lanes, Tuples, Ranks
<1>4. AutoKey(h, l) = a \o s \o b
  BY DEF AutoKey
<1> HIDE DEF a, s, b
<1>5. a \o s \in Tuples(4)
  BY <1>1, <1>2, ConcatTuples, 1 + 3 = 4
<1>6. (a \o s) \o b \in Tuples(8)
  BY <1>3, <1>5, ConcatTuples, 4 + 4 = 8
<1> QED
  BY <1>4, <1>6

\* auto_lane picks among the idle GPUs.
LEMMA AutoLaneIsLane ==
  ASSUME NEW h, h.n \in Nat, h.idle \subseteq Gpus(h), AutoLane(h).reason = "ok"
  PROVE  AutoLane(h).lane \in Lanes(Gpus(h))
<1> DEFINE Q     == {T \in SUBSET h.idle : Cardinality(T) = 4}
           quads == {InBusOrder(S) : S \in Q}
           known == {l \in quads : ~ClassUnknown(h, l)}
           keys  == {AutoKey(h, l) : l \in known}
           best  == Greatest(keys)
<1>1. IsFiniteSet(h.idle)
  <2>1. 1 \in Int /\ h.n \in Int
    OBVIOUS
  <2>2. IsFiniteSet(1 .. h.n)
    BY <2>1, FS_Interval, Zenon
  <2> QED
    BY <2>2, FS_Subset DEF Gpus
<1>2. quads \subseteq Lanes(Gpus(h))
  <2>1. \A T \in Q : IsFiniteSet(T) /\ T \in SUBSET Nat /\ T \subseteq Gpus(h)
    BY <1>1, FS_Subset DEF Gpus
  <2>2. \A T \in Q : InBusOrder(T) \in Lanes(T)
    BY <2>1, BusOrderExists
  <2>3. \A T \in Q : Lanes(T) \subseteq Lanes(Gpus(h))
    BY <2>1 DEF Lanes
  <2> QED
    BY <2>2, <2>3
<1>3. IsFiniteSet(quads)
  <2> DEFINE f == [S \in Q |-> InBusOrder(S)]
  <2>1. IsFiniteSet(Q)
    BY <1>1, FS_SUBSET, FS_Subset
  <2>2. quads = {f[S] : S \in Q}
    OBVIOUS
  <2> HIDE DEF Q, f, quads
  <2> QED
    BY <2>1, <2>2, ImageFinite
<1>4. IsFiniteSet(keys)
  <2> DEFINE f == [l \in known |-> AutoKey(h, l)]
  <2>1. IsFiniteSet(known)
    BY <1>3, FS_Subset
  <2>2. keys = {f[l] : l \in known}
    OBVIOUS
  <2> HIDE DEF known, f, keys
  <2> QED
    BY <2>1, <2>2, ImageFinite
<1>5. Cardinality(h.idle) >= 4 /\ known # {}
  BY FS_CardinalityType, <1>1 DEF AutoLane, NoLane
<1>6. keys \in SUBSET Tuples(8) /\ keys # {}
  BY <1>2, <1>5, AutoKeyType DEF Gpus
<1>7. best \in keys
  <2> HIDE DEF keys
  <2> QED
    BY <1>4, <1>6, GreatestExists
<1>8. AutoLane(h).lane = CHOOSE l \in known : AutoKey(h, l) = best
  <2>1. ~(Cardinality(h.idle) < 4)
    BY <1>5, <1>1, FS_CardinalityType
  <2>2. AutoLane(h) = Lane(CHOOSE l \in known : AutoKey(h, l) = best)
    BY <1>5, <2>1, Zenon DEF AutoLane
  <2> HIDE DEF known, best
  <2> QED
    BY <2>2 DEF Lane
<1>9. AutoLane(h).lane \in known
  <2>1. \E l \in known : AutoKey(h, l) = best
    BY <1>7
  <2> HIDE DEF known, best
  <2> QED
    BY <1>8, <2>1
<1> QED
  BY <1>2, <1>9

-----------------------------------------------------------------------------
(* What happens to a launch.                                               *)

\* Before the launch too, a decision made under strict is never a lane the
\* selector picked itself.
NoGuess ==
  ctl.auto = "strict" /\ dec.status = "ok" /\ host.n > 4 => Given(caller)

\* A decision the fixed settings stand for is not "ok".
LEMMA LegacyIsNotOk ==
  ASSUME NEW c, NEW r
  PROVE  Legacy(c, r).status = "legacy"
BY DEF Legacy

\* Under strict resolve_lane refuses before it looks for idle GPUs.
LEMMA StrictRefusesFirst ==
  ASSUME NEW h, NEW c, NEW k, ~Given(c), k.auto = "strict", h.n > 4,
         h.n \in Int
  PROVE  ResolveLane(h, c, k).reason = "refused"
BY DEF ResolveLane, NoLane

\* So no decision of strict mode is "ok" without the caller's GPUs.
LEMMA DecisionIsNoGuess ==
  ASSUME NEW h, NEW c, NEW k, ~Given(c), k.auto = "strict", h.n > 4,
         h.n \in Int
  PROVE  Decision(h, c, k).status = "legacy"
<1>1. ResolveLane(h, c, k).reason # "ok"
  BY StrictRefusesFirst
<1> QED
  BY <1>1, LegacyIsNotOk DEF Decision

-----------------------------------------------------------------------------
\* The reachable states are typed.
LEMMA TypesStart == Init => TypeOK
BY LaunchesAssumption DEF Init, TypeOK

\* A launch without the selector's file goes on with the fixed settings or ends.
LEMMA UnavailableTypes ==
  ASSUME applied \in BOOLEAN, Unavailable
  PROVE  pc' \in {"exec", "exited"} /\ applied' \in BOOLEAN
BY DEF Unavailable, Fallback, shell

\* A step keeps every variable typed, whatever the threads and the script do.
LEMMA TypesStep ==
  ASSUME TypeOK, [Next]_vars
  PROVE  TypeOK'
<1>1. CASE SelectorOff
  BY <1>1 DEF SelectorOff, given, child, shell, TypeOK
<1>2. CASE Snapshot
  BY <1>2 DEF Snapshot, given, child, shell, TypeOK
<1>3. CASE MktempFails
  BY <1>3, UnavailableTypes DEF MktempFails, given, child, shell, TypeOK
<1>4. CASE ChildEnded
  BY <1>4, UnavailableTypes DEF ChildEnded, given, child, shell, TypeOK
<1>5. CASE Source
  BY <1>5 DEF Source, given, child, shell, TypeOK
<1>6. CASE SourceFails
  BY <1>6 DEF SourceFails, given, child, shell, TypeOK
<1>7. CASE SourceBroken
  BY <1>7, UnavailableTypes DEF SourceBroken, given, child, shell, TypeOK
<1>8. CASE Usage
  BY <1>8 DEF Usage, Exits, given, child, shell, TypeOK
<1>9. CASE StartDiscovery
  BY <1>9 DEF StartDiscovery, given, child, shell, TypeOK
<1>10. CASE ChildFails
  BY <1>10 DEF ChildFails, Exits, given, child, shell, TypeOK
<1>11. CASE Joined
  BY <1>11 DEF Joined, Exits, given, child, shell, TypeOK
<1>12. CASE JoinTimeout
  BY <1>12 DEF JoinTimeout, Exits, given, child, shell, TypeOK
<1>13. CASE WriteDiagnostics
  BY <1>13 DEF WriteDiagnostics, given, child, shell, TypeOK
<1>14. CASE WriteEnv
  BY <1>14 DEF WriteEnv, given, child, shell, TypeOK
<1>15. CASE OutputFails
  BY <1>15 DEF OutputFails, Exits, given, child, shell, TypeOK
<1>16. CASE Quit
  BY <1>16 DEF Quit, Exits, given, child, shell, TypeOK
<1>17. CASE Load
  BY <1>17 DEF Load, given, child, shell, TypeOK
<1>18. CASE Decide
  BY <1>18 DEF Decide, given, child, shell, TypeOK
<1>19. CASE DecideFails
  BY <1>19 DEF DecideFails, given, child, shell, TypeOK
<1>20. CASE Close
  BY <1>20 DEF Close, given, child, shell, TypeOK
<1>21. CASE Watchdog
  BY <1>21 DEF Watchdog, Exits, given, child, shell, TypeOK
<1>22. CASE Over
  BY <1>22 DEF Over, given, child, shell, vars, TypeOK
<1>23. CASE UNCHANGED vars
  BY <1>23 DEF vars, given, child, shell, TypeOK
<1> QED
  BY <1>1, <1>2, <1>3, <1>4, <1>5, <1>6, <1>7, <1>8, <1>9, <1>10, <1>11, <1>12, <1>13, <1>14, <1>15, <1>16, <1>17, <1>18, <1>19, <1>20, <1>21, <1>22, <1>23 DEF Next, Script, Main, Thread

-----------------------------------------------------------------------------
\* The launch is fixed; the decision is no guess; only a decision that was
\* applied whole leaves a trace, and strict starts on nothing less.
SInv == TypeOK /\ NoGuess /\ NoTraceOfFailure /\ StrictNeverGuesses

\* It holds before the script runs.
LEMMA SafetyStart == Init => SInv
BY TypesStart DEF Init, SInv, NoGuess, NoTraceOfFailure, StrictNeverGuesses, None

\* A step keeps it: only Load and Decide make a decision, only Source applies
\* one, and every other way to the exec goes through Fallback.
LEMMA SafetyStep ==
  ASSUME SInv, [Next]_vars
  PROVE  SInv'
<1> USE DEF NoGuess, NoTraceOfFailure, StrictNeverGuesses, SInv
<1>t. TypeOK'
  BY TypesStep
<1>1. CASE SelectorOff
  BY <1>t, <1>1 DEF SelectorOff, given, child, shell, Given
<1>2. CASE Snapshot
  BY <1>t, <1>2 DEF Snapshot, given, child, shell, Given
<1>3. CASE MktempFails
  BY <1>t, <1>3 DEF MktempFails, Unavailable, Fallback, given, child, shell, Given
<1>4. CASE ChildEnded
  BY <1>t, <1>4 DEF ChildEnded, Unavailable, Fallback, given, child, shell, Given
<1>5. CASE Source
  BY <1>t, <1>5 DEF Source, given, child, shell, Given
<1>6. CASE SourceFails
  BY <1>t, <1>6 DEF SourceFails, given, child, shell, Given
<1>7. CASE SourceBroken
  BY <1>t, <1>7 DEF SourceBroken, Unavailable, Fallback, given, child, shell, Given
<1>8. CASE Usage
  BY <1>t, <1>8 DEF Usage, Exits, given, child, shell, Given
<1>9. CASE StartDiscovery
  BY <1>t, <1>9 DEF StartDiscovery, given, child, shell, Given
<1>10. CASE ChildFails
  BY <1>t, <1>10 DEF ChildFails, Exits, given, child, shell, Given
<1>11. CASE Joined
  BY <1>t, <1>11 DEF Joined, Exits, given, child, shell, Given
<1>12. CASE JoinTimeout
  BY <1>t, <1>12 DEF JoinTimeout, Exits, given, child, shell, Given
<1>13. CASE WriteDiagnostics
  BY <1>t, <1>13 DEF WriteDiagnostics, given, child, shell, Given
<1>14. CASE WriteEnv
  BY <1>t, <1>14 DEF WriteEnv, given, child, shell, Given
<1>15. CASE OutputFails
  BY <1>t, <1>15 DEF OutputFails, Exits, given, child, shell, Given
<1>16. CASE Quit
  BY <1>t, <1>16 DEF Quit, Exits, given, child, shell, Given
<1>17. CASE Load
  BY <1>t, <1>17, LegacyIsNotOk DEF Load, ForeignOrder, given, child, shell, Given
<1>18. CASE Decide
  BY <1>t, <1>18, DecisionIsNoGuess DEF Decide, TypeOK, given, child, shell, Given
<1>19. CASE DecideFails
  BY <1>t, <1>19 DEF DecideFails, given, child, shell, Given
<1>20. CASE Close
  BY <1>t, <1>20 DEF Close, given, child, shell, Given
<1>21. CASE Watchdog
  BY <1>t, <1>21 DEF Watchdog, Exits, given, child, shell, Given
<1>22. CASE Over
  BY <1>t, <1>22 DEF Over, given, child, shell, vars, Given
<1>23. CASE UNCHANGED vars
  BY <1>t, <1>23 DEF vars, given, child, shell, Given
<1> QED
  BY <1>1, <1>2, <1>3, <1>4, <1>5, <1>6, <1>7, <1>8, <1>9, <1>10, <1>11, <1>12, <1>13, <1>14, <1>15, <1>16, <1>17, <1>18, <1>19, <1>20, <1>21, <1>22, <1>23 DEF Next, Script, Main, Thread

\* Every variable of a launch keeps its type, and a dead child runs no thread.
THEOREM LaunchTypes == Spec => []TypeOK
<1> QED
  BY TypesStart, TypesStep, PTL DEF Spec

\* The invariant of the launch.
LEMMA LaunchSafe == Spec => []SInv
<1> QED
  BY SafetyStart, SafetyStep, PTL DEF Spec

\* A launch without an applied decision runs with the caller's GPUs and the
\* fixed settings, whatever a failed, late or killed selector left behind.
THEOREM FailureLeavesNoTrace == Spec => []NoTraceOfFailure
<1>1. SInv => NoTraceOfFailure
  BY DEF SInv
<1> QED
  BY LaunchSafe, <1>1, PTL

\* A strict launch starts only on an applied decision, and never on a lane the
\* selector picked by itself.
THEOREM StrictIsStrict == Spec => []StrictNeverGuesses
<1>1. SInv => StrictNeverGuesses
  BY DEF SInv
<1> QED
  BY LaunchSafe, <1>1, PTL

-----------------------------------------------------------------------------
(* What a decision does with the GPUs.                                     *)

\* What the launches assume of a host and of a caller.
GoodHost(h)   == h.n \in Nat /\ h.idle \subseteq 1 .. h.n
Tokens        == [kind : {"num", "uuid", "bad", "blank"}, k : Nat]
GoodCaller(c) == c.cvd \in Seq(Tokens)

Set(l) == {l[i] : i \in Ranks}

\* Four ranks are four.
LEMMA FourElements == IsFiniteSet(1 .. 4) /\ Cardinality(1 .. 4) = 4
<1>1. 1 \in Int /\ 4 \in Int /\ ~(1 > 4) /\ 4 - 1 + 1 = 4
  OBVIOUS
<1>2. IsFiniteSet(1 .. 4) /\ Cardinality(1 .. 4) = IF 1 > 4 THEN 0 ELSE 4 - 1 + 1
  BY <1>1, FS_Interval, Zenon
<1> QED
  BY <1>1, <1>2

\* A token resolves to a GPU of the host or to none.
LEMMA ResolveType ==
  ASSUME NEW h, GoodHost(h), NEW c, GoodCaller(c), NEW i \in 1 .. Len(c.cvd)
  PROVE  Resolve(h, c.cvd[i]) \in Gpus(h) \cup {0}
<1>1. c.cvd[i] \in Tokens
  BY ElementOfSeq DEF GoodCaller
<1>2. c.cvd[i].k \in Nat
  BY <1>1 DEF Tokens
<1> QED
  BY <1>2 DEF Resolve, Gpus, GoodHost

\* The caller's own lane has the GPUs its tokens resolve to, each once.
LEMMA GivenLaneIsLane ==
  ASSUME NEW h, GoodHost(h), NEW c, GoodCaller(c), GivenLane(h, c).reason = "ok"
  PROVE  /\ Len(c.cvd) = 4
         /\ GivenLane(h, c).lane \in Lanes(Gpus(h))
         /\ GivenLane(h, c).lane = [i \in Ranks |-> Resolve(h, c.cvd[i])]
<1> DEFINE lane == [i \in 1 .. Len(c.cvd) |-> Resolve(h, c.cvd[i])]
           S    == {lane[i] : i \in 1 .. Len(lane)}
<1>0. Len(c.cvd) \in Nat /\ Len(lane) = Len(c.cvd)
  BY LenProperties DEF GoodCaller
<1>1. 0 \notin S /\ Cardinality(S) = Len(lane) /\ Len(lane) = 4
      /\ GivenLane(h, c) = Lane(lane)
  <2>1. GivenLane(h, c) =
          IF 0 \in S THEN NoLane("cvd_unresolved")
          ELSE IF Cardinality(S) # Len(lane) THEN NoLane("cvd_duplicate")
          ELSE IF Len(lane) # 4 THEN NoLane("lane_not_4") ELSE Lane(lane)
    BY DEF GivenLane
  <2> HIDE DEF lane, S
  <2> QED
    BY <2>1 DEF NoLane
<1>2. Len(c.cvd) = 4 /\ lane = [i \in Ranks |-> Resolve(h, c.cvd[i])]
  BY <1>0, <1>1 DEF Ranks
<1>3. \A i \in Ranks : lane[i] \in Gpus(h)
  BY <1>0, <1>1, <1>2, ResolveType DEF Ranks
<1>4. \A i, j \in Ranks : lane[i] = lane[j] => i = j
  <2>1. IsFiniteSet(Ranks) /\ Cardinality(Ranks) = 4
    BY FourElements DEF Ranks
  <2>2. S = {lane[i] : i \in Ranks}
    BY <1>0, <1>1 DEF Ranks
  <2>3. lane \in Surjection(Ranks, S)
    BY <1>2, <2>2 DEF Surjection
  <2>4. lane \in Injection(Ranks, S)
    <3> HIDE DEF lane, S
    <3> QED
      BY <1>1, <2>1, <2>3, FS_Surjection
  <2> HIDE DEF lane, S
  <2> QED
    BY <2>4 DEF Injection, IsInjective
<1>5. lane \in Lanes(Gpus(h))
  BY <1>2, <1>3, <1>4 DEF Lanes
<1> QED
  BY <1>1, <1>2, <1>5 DEF Lane

\* Every lane resolve_lane returns has four GPUs of the host: the caller's, or
\* all of a four-GPU host, or a choice of the selector on a larger one.
LEMMA ResolveLaneIsLane ==
  ASSUME NEW h, GoodHost(h), NEW c, GoodCaller(c), NEW k,
         ResolveLane(h, c, k).reason = "ok"
  PROVE  /\ ResolveLane(h, c, k).lane \in Lanes(Gpus(h))
         /\ Given(c) => /\ Len(c.cvd) = 4
                        /\ ResolveLane(h, c, k).lane
                             = [i \in Ranks |-> Resolve(h, c.cvd[i])]
         /\ ~Given(c) => h.n >= 4
<1>1. CASE Given(c)
  <2>1. ResolveLane(h, c, k) = GivenLane(h, c)
    BY <1>1 DEF ResolveLane
  <2> QED
    BY <1>1, <2>1, GivenLaneIsLane
<1>2. CASE ~Given(c) /\ h.n = 4
  <2>1. ResolveLane(h, c, k) = Lane(InBusOrder(Gpus(h)))
    BY <1>2 DEF ResolveLane
  <2>2. Gpus(h) \in SUBSET Nat /\ IsFiniteSet(Gpus(h)) /\ Cardinality(Gpus(h)) = 4
    <3>1. Gpus(h) = 1 .. 4
      BY <1>2 DEF Gpus
    <3> QED
      BY <3>1, FourElements
  <2>3. InBusOrder(Gpus(h)) \in Lanes(Gpus(h))
    BY <2>2, BusOrderExists
  <2> QED
    BY <1>2, <2>1, <2>3 DEF Lane
<1>3. CASE ~Given(c) /\ h.n # 4
  <2>1. ResolveLane(h, c, k) = AutoLane(h) /\ h.n >= 4
    BY <1>3 DEF ResolveLane, NoLane, GoodHost
  <2> QED
    BY <1>3, <2>1, AutoLaneIsLane DEF GoodHost, Gpus
<1> QED
  BY <1>1, <1>2, <1>3
-----------------------------------------------------------------------------
\* What a decision handed to the main thread promises: the caller's GPUs, a
\* prefix for their node only, and an order no other order beats.
Faithful(d) ==
  /\ Given(caller) => Visible(d.env) = Visible(caller)
  /\ d.prefix # NoNode => \A g \in Visible(d.env) : Numa(host, g) = d.prefix
  /\ d.status = "ok" =>
       /\ d.lane # d.input => Less(Score(host, d.input), Score(host, d.lane))
       /\ \A l \in OrdersOf(d.input) : ~Less(Score(host, d.lane), Score(host, l))

\* The tokens and the order they count in determine the GPUs.
LEMMA SameTokensSameGpus ==
  ASSUME NEW e, NEW f, e.cvd = f.cvd,
         e.order \in {Unset, "PCI_BUS_ID"} <=> f.order \in {Unset, "PCI_BUS_ID"}
  PROVE  Visible(e) = Visible(f)
<1> DEFINE v(x, i) == LET t == x.cvd[i]
                      IN  IF t.kind # "num" THEN Resolve(host, t)
                          ELSE IF t.k >= host.n THEN 0
                          ELSE IF x.order \in {Unset, "PCI_BUS_ID"} THEN t.k + 1
                          ELSE host.fastest[t.k + 1]
           E(i) == v(e, i)
           F(i) == v(f, i)
<1>1. \A i \in 1 .. Len(e.cvd) : E(i) = F(i)
  OBVIOUS
<1>2. Visible(e) = {E(i) : i \in 1 .. Len(e.cvd)}
  BY DEF Visible
<1>3. Visible(f) = {F(i) : i \in 1 .. Len(e.cvd)}
  BY DEF Visible
<1> HIDE DEF E, F
<1> QED
  BY <1>1, <1>2, <1>3

\* The fixed settings keep what the caller set.
LEMMA LegacyIsFaithful ==
  ASSUME NEW r
  PROVE  Faithful(Legacy(caller, r))
<1> DEFINE d == Legacy(caller, r)
<1>1. d.prefix = NoNode /\ d.status = "legacy" /\ d.env = LegacyEnv(caller)
  BY DEF Legacy
<1>2. ASSUME Given(caller) PROVE Visible(LegacyEnv(caller)) = Visible(caller)
  <2>1. /\ LegacyEnv(caller).cvd = caller.cvd
        /\ LegacyEnv(caller).order = Own(caller.order, "PCI_BUS_ID")
    BY <1>2 DEF LegacyEnv
  <2>2. LegacyEnv(caller).order \in {Unset, "PCI_BUS_ID"}
          <=> caller.order \in {Unset, "PCI_BUS_ID"}
    BY <2>1 DEF Own, Unset
  <2> QED
    BY <2>1, <2>2, SameTokensSameGpus
<1> QED
  BY <1>1, <1>2 DEF Faithful

\* GPUs named by UUID are the GPUs of the lane.
LEMMA UuidsAreTheLane ==
  ASSUME NEW e, NEW l \in Lanes(Gpus(host)), e.cvd = [i \in Ranks |-> Uuid(l[i])]
  PROVE  Visible(e) = Set(l)
<1>1. Len(e.cvd) = 4
  BY DEF Ranks
<1>2. \A i \in Ranks : /\ e.cvd[i].kind = "uuid"
                       /\ Resolve(host, e.cvd[i]) = l[i]
  BY DEF Resolve, Uuid, Lanes
<1> QED
  BY <1>1, <1>2 DEF Visible, Set, Ranks

\* In bus order the caller's tokens show the GPUs they resolve to.
LEMMA TokensAreTheLane ==
  ASSUME NEW e, GoodHost(host), GoodCaller(e), Len(e.cvd) = 4,
         e.order \in {Unset, "PCI_BUS_ID"}
  PROVE  Visible(e) = Set([i \in Ranks |-> Resolve(host, e.cvd[i])])
<1>1. \A i \in 1 .. 4 : e.cvd[i].k \in Nat
  <2>1. \A i \in 1 .. 4 : e.cvd[i] \in Tokens
    BY ElementOfSeq DEF GoodCaller
  <2> QED
    BY <2>1 DEF Tokens
<1>2. \A i \in 1 .. 4 : e.cvd[i].kind = "num" =>
        Resolve(host, e.cvd[i]) = IF e.cvd[i].k >= host.n THEN 0 ELSE e.cvd[i].k + 1
  BY <1>1 DEF Resolve, GoodHost
<1> DEFINE v(i) == LET t == e.cvd[i]
                   IN  IF t.kind # "num" THEN Resolve(host, t)
                       ELSE IF t.k >= host.n THEN 0
                       ELSE IF e.order \in {Unset, "PCI_BUS_ID"} THEN t.k + 1
                       ELSE host.fastest[t.k + 1]
<1>3. \A i \in 1 .. 4 : v(i) = Resolve(host, e.cvd[i])
  BY <1>2
<1>4. Visible(e) = {v(i) : i \in 1 .. 4}
  BY DEF Visible
<1> HIDE DEF v
<1> QED
  BY <1>3, <1>4 DEF Set, Ranks

\* The four fixed indices show all of a four-GPU host.
LEMMA FixedIsAll ==
  ASSUME NEW e, host.n = 4, e.cvd = Fixed, e.order \in {Unset, "PCI_BUS_ID"}
  PROVE  Visible(e) = 1 .. 4
<1>1. Len(e.cvd) = 4 /\ \A i \in 1 .. 4 : e.cvd[i].kind = "num" /\ e.cvd[i].k = i - 1
  BY DEF Fixed, Num
<1> DEFINE v(i) == LET t == e.cvd[i]
                   IN  IF t.kind # "num" THEN Resolve(host, t)
                       ELSE IF t.k >= host.n THEN 0
                       ELSE IF e.order \in {Unset, "PCI_BUS_ID"} THEN t.k + 1
                       ELSE host.fastest[t.k + 1]
<1>2. \A i \in 1 .. 4 : v(i) = i
  BY <1>1
<1>3. Visible(e) = {v(i) : i \in 1 .. 4}
  BY <1>1 DEF Visible
<1> HIDE DEF v
<1> QED
  BY <1>2, <1>3

\* A binding names the node of every GPU of the lane.
LEMMA BindingIsTheNode ==
  ASSUME NEW h, NEW k, NEW l, Binding(h, k, l) # NoNode
  PROVE  \A g \in Set(l) : Numa(h, g) = Binding(h, k, l)
<1> DEFINE f == [i \in Ranks |-> Numa(h, l[i])]
           N == {Numa(h, g) : g \in Set(l)}
<1>1. Binding(h, k, l) = Numa(h, l[1]) /\ Cardinality(N) = 1
  BY DEF Binding, OneNode, Set
<1>2. IsFiniteSet(N)
  <2>1. N = {f[i] : i \in Ranks}
    BY DEF Set
  <2>2. IsFiniteSet(Ranks)
    BY FourElements DEF Ranks
  <2> HIDE DEF f, N
  <2> QED
    BY <2>1, <2>2, ImageFinite
<1>3. \E x : N = {x}
  <2> HIDE DEF N
  <2> QED
    BY <1>1, <1>2, FS_Singleton
<1>4. l[1] \in Set(l)
  BY DEF Set, Ranks
<1> QED
  BY <1>1, <1>3, <1>4

\* The order chosen for a lane, whichever way its environment names it.
LEMMA SelectedIsFaithful ==
  ASSUME GoodHost(host), GoodCaller(caller), ~ForeignOrder,
         NEW lane \in Lanes(Gpus(host)), NEW auto \in BOOLEAN,
         Given(caller) => /\ Len(caller.cvd) = 4
                          /\ lane = [i \in Ranks |-> Resolve(host, caller.cvd[i])],
         ~Given(caller) => host.n = 4 \/ auto
  PROVE  Faithful(Selected(host, caller, ctl, lane, auto))
<1> DEFINE d    == Selected(host, caller, ctl, lane, auto)
           l    == ChooseOrder(host, lane)
<1>1. d.lane = l /\ d.input = lane /\ d.prefix = Binding(host, ctl, l)
  BY DEF Selected
<1>2. l \in OrdersOf(lane) /\ l \in Lanes(Gpus(host)) /\ Set(l) = Set(lane)
  <2>1. l \in OrdersOf(lane)
    BY ChooseOrderIsBest DEF GoodHost, Gpus
  <2> HIDE DEF l
  <2>2. l \in Lanes(Gpus(host))
    BY <2>1, OrdersOfLane
  <2>3. Set(l) = Set(lane)
    BY <2>1, OrderKeepsGpus DEF Set
  <2> QED
    BY <2>1, <2>2, <2>3
<1>3. Given(caller) => Visible(caller) = Set(lane)
  BY TokensAreTheLane DEF ForeignOrder
<1>4. Visible(d.env) = Set(lane)
  <2>1. d.env.order = Own(caller.order, "PCI_BUS_ID")
    BY DEF Selected, LegacyEnv, SelectedEnv
  <2>2. d.env.order \in {Unset, "PCI_BUS_ID"}
    BY <2>1 DEF Own, ForeignOrder
  <2>3. \/ d.env.cvd = [i \in Ranks |-> Uuid(l[i])]
        \/ Given(caller) /\ d.env.cvd = caller.cvd
        \/ ~Given(caller) /\ ~auto /\ d.env.cvd = Fixed
        \/ ~Given(caller) /\ host.n = 4 /\ d.env.cvd = Fixed
    BY DEF Selected, LegacyEnv, SelectedEnv, IsReference
  <2> HIDE DEF d, l
  <2>4. CASE d.env.cvd = [i \in Ranks |-> Uuid(l[i])]
    BY <1>2, <2>4, UuidsAreTheLane
  <2>5. CASE Given(caller) /\ d.env.cvd = caller.cvd
    <3>1. Visible(d.env) = Visible(caller)
      BY <2>2, <2>5, SameTokensSameGpus DEF ForeignOrder
    <3> QED
      BY <1>3, <2>5, <3>1
  <2>6. CASE ~Given(caller) /\ host.n = 4 /\ d.env.cvd = Fixed
    <3>1. Visible(d.env) = 1 .. 4
      BY <2>2, <2>6, FixedIsAll
    <3>2. Set(lane) = 1 .. 4
      BY <2>6, LaneOfFour DEF Set, Gpus
    <3> QED
      BY <3>1, <3>2
  <2> QED
    BY <2>3, <2>4, <2>5, <2>6
<1>5. d.prefix # NoNode => \A g \in Set(lane) : Numa(host, g) = d.prefix
  <2> HIDE DEF l, d
  <2> QED
    BY <1>1, <1>2, BindingIsTheNode
<1>6. /\ l # lane => Less(Score(host, lane), Score(host, l))
      /\ \A m \in OrdersOf(lane) : ~Less(Score(host, l), Score(host, m))
  BY ChooseOrderIsBest DEF GoodHost, Gpus
<1> HIDE DEF d, l
<1>7. Faithful(d)
  BY <1>1, <1>3, <1>4, <1>5, <1>6 DEF Faithful
<1> QED
  BY <1>7 DEF d

\* A decision made in bus order is faithful.
LEMMA DecisionIsFaithful ==
  ASSUME GoodHost(host), GoodCaller(caller), ~ForeignOrder
  PROVE  Faithful(Decision(host, caller, ctl))
<1> DEFINE found == ResolveLane(host, caller, ctl)
           auto  == ~Given(caller) /\ host.n > 4
<1>1. \/ \E r : Decision(host, caller, ctl) = Legacy(caller, r)
      \/ /\ found.reason = "ok"
         /\ Decision(host, caller, ctl)
              = Selected(host, caller, ctl, found.lane, auto)
  BY Zenon DEF Decision
<1>2. CASE \E r : Decision(host, caller, ctl) = Legacy(caller, r)
  BY <1>2, LegacyIsFaithful
<1>3. CASE /\ found.reason = "ok"
           /\ Decision(host, caller, ctl)
                = Selected(host, caller, ctl, found.lane, auto)
  <2>1. /\ found.lane \in Lanes(Gpus(host))
        /\ Given(caller) => /\ Len(caller.cvd) = 4
                            /\ found.lane = [i \in Ranks |->
                                               Resolve(host, caller.cvd[i])]
        /\ ~Given(caller) => host.n >= 4
    BY <1>3, ResolveLaneIsLane
  <2>2. auto \in BOOLEAN /\ (~Given(caller) => host.n = 4 \/ auto)
    BY <2>1 DEF GoodHost
  <2> HIDE DEF found, auto
  <2> QED
    BY <1>3, <2>1, <2>2, SelectedIsFaithful
<1> QED
  BY <1>1, <1>2, <1>3

-----------------------------------------------------------------------------
(* The decision on its way from the thread to the server's environment.    *)

\* What the main thread writes, the script sources and the server starts with
\* is a decision the thread finished, and nothing changes it on the way.
DInv ==
  /\ TypeOK /\ GoodHost(host) /\ GoodCaller(caller)
  /\ result = "value" => Faithful(dec)
  /\ spc \in {"json", "env", "quit"} => result = "value" /\ thr = "done"
  /\ rc = 0 => spc = "dead" /\ result = "value"
  /\ pc = "start" => spc = "none"
  /\ thr = "deciding" => ~ForeignOrder
  /\ pc = "sourcing" => rc = 0
  /\ applied => /\ pc = "exec" /\ spc = "dead" /\ result = "value"
                /\ env = dec.env /\ prefix = dec.prefix
  /\ ~applied => prefix = NoNode

\* It holds before the script runs.
LEMMA DecisionStart == Init => DInv
<1> SUFFICES ASSUME Init PROVE DInv
  OBVIOUS
<1>1. TypeOK
  BY TypesStart
<1>2. GoodHost(host) /\ GoodCaller(caller)
  BY LaunchesAssumption DEF Init, GoodHost, GoodCaller, Tokens
<1> QED
  BY <1>1, <1>2 DEF Init, DInv

\* A decision handed over stays faithful while the launch is the same.
LEMMA FaithfulHandedOver ==
  ASSUME NEW d, host' = host, caller' = caller, dec' = d, Faithful(d)
  PROVE  Faithful(dec)'
<1> DEFINE Seen(h, e) ==
             {LET t == e.cvd[i]
              IN  IF t.kind # "num" THEN Resolve(h, t)
                  ELSE IF t.k >= h.n THEN 0
                  ELSE IF e.order \in {Unset, "PCI_BUS_ID"} THEN t.k + 1
                  ELSE h.fastest[t.k + 1] : i \in 1 .. Len(e.cvd)}
<1>1. Visible(d.env) = Seen(host, d.env) /\ Visible(caller) = Seen(host, caller)
  BY DEF Visible
<1>2. /\ Visible(dec.env)' = Seen(host', dec'.env)
      /\ Visible(caller)' = Seen(host', caller')
  BY DEF Visible
<1> HIDE DEF Seen
<1>3. Visible(dec.env)' = Visible(d.env) /\ Visible(caller)' = Visible(caller)
  BY <1>1, <1>2
<1> QED
  BY <1>3 DEF Faithful, Given

\* A launch is fixed, and only the discovery thread touches its decision.
LEMMA OnlyTheThreadDecides ==
  ASSUME [Next]_vars
  PROVE  /\ UNCHANGED given
         /\ Load \/ Decide \/ DecideFails \/ UNCHANGED <<dec, result>>
BY DEF Next, Script, Main, Thread, vars, given, child, shell, Exits, SelectorOff,
   Snapshot, MktempFails, ChildEnded, Source, SourceFails, SourceBroken, Usage,
   StartDiscovery, ChildFails, Joined, JoinTimeout, WriteDiagnostics, WriteEnv,
   OutputFails, Quit, Load, Decide, DecideFails, Close, Watchdog, Over

\* A step keeps it: a decision is made faithful, and what is written, sourced
\* and applied is that decision.
LEMMA DecisionStep ==
  ASSUME DInv, [Next]_vars
  PROVE  DInv'
<1>t. TypeOK'
  BY TypesStep DEF DInv
<1>c. GoodHost(host)' /\ GoodCaller(caller)'
  BY OnlyTheThreadDecides DEF DInv, GoodHost, GoodCaller, given
<1>f. result' = "value" => Faithful(dec)'
  <2>0. host' = host /\ caller' = caller
    BY OnlyTheThreadDecides DEF given
  <2>1. CASE UNCHANGED <<dec, result>>
    BY <2>0, <2>1, FaithfulHandedOver DEF DInv
  <2>2. CASE Load
    <3>1. \/ \E r : dec' = Legacy(caller, r)
          \/ UNCHANGED <<dec, result>>
      BY <2>2 DEF Load
    <3> QED
      BY <2>0, <2>1, <3>1, LegacyIsFaithful, FaithfulHandedOver
  <2>3. CASE Decide
    <3>1. \/ result' = "value" /\ dec' = Decision(host, caller, ctl)
          \/ result' = "refused"
      BY <2>3 DEF Decide
    <3>2. Faithful(Decision(host, caller, ctl))
      BY <2>3, DecisionIsFaithful DEF DInv, Decide
    <3> QED
      BY <2>0, <3>1, <3>2, FaithfulHandedOver
  <2>4. CASE DecideFails
    BY <2>4 DEF DecideFails
  <2> QED
    BY <2>1, <2>2, <2>3, <2>4, OnlyTheThreadDecides
<1> USE DEF DInv
<1>1. CASE SelectorOff
  BY <1>t, <1>c, <1>f, <1>1 DEF SelectorOff, ForeignOrder, given, child, shell, TypeOK
<1>2. CASE Snapshot
  BY <1>t, <1>c, <1>f, <1>2 DEF Snapshot, ForeignOrder, given, child, shell, TypeOK
<1>3. CASE MktempFails
  BY <1>t, <1>c, <1>f, <1>3 DEF MktempFails, Unavailable, Fallback, ForeignOrder, given,
     child, shell, TypeOK
<1>4. CASE ChildEnded
  BY <1>t, <1>c, <1>f, <1>4 DEF ChildEnded, Unavailable, Fallback, ForeignOrder, given,
     child, shell, TypeOK
<1>5. CASE Source
  BY <1>t, <1>c, <1>f, <1>5 DEF Source, ForeignOrder, given, child, shell, TypeOK
<1>6. CASE SourceFails
  BY <1>t, <1>c, <1>f, <1>6 DEF SourceFails, ForeignOrder, given, child, shell, TypeOK
<1>7. CASE SourceBroken
  BY <1>t, <1>c, <1>f, <1>7 DEF SourceBroken, Unavailable, Fallback, ForeignOrder,
     given, child, shell, TypeOK
<1>8. CASE Usage
  BY <1>t, <1>c, <1>f, <1>8 DEF Usage, Exits, ForeignOrder, given, child, shell, TypeOK
<1>9. CASE StartDiscovery
  BY <1>t, <1>c, <1>f, <1>9 DEF StartDiscovery, ForeignOrder, given, child, shell, TypeOK
<1>10. CASE ChildFails
  BY <1>t, <1>c, <1>f, <1>10 DEF ChildFails, Exits, ForeignOrder, given, child, shell,
     TypeOK
<1>11. CASE Joined
  BY <1>t, <1>c, <1>f, <1>11 DEF Joined, Exits, ForeignOrder, given, child, shell, TypeOK
<1>12. CASE JoinTimeout
  BY <1>t, <1>c, <1>f, <1>12 DEF JoinTimeout, Exits, ForeignOrder, given, child, shell,
     TypeOK
<1>13. CASE WriteDiagnostics
  BY <1>t, <1>c, <1>f, <1>13 DEF WriteDiagnostics, ForeignOrder, given, child, shell,
     TypeOK
<1>14. CASE WriteEnv
  BY <1>t, <1>c, <1>f, <1>14 DEF WriteEnv, ForeignOrder, given, child, shell, TypeOK
<1>15. CASE OutputFails
  BY <1>t, <1>c, <1>f, <1>15 DEF OutputFails, Exits, ForeignOrder, given, child, shell,
     TypeOK
<1>16. CASE Quit
  BY <1>t, <1>c, <1>f, <1>16 DEF Quit, Exits, ForeignOrder, given, child, shell, TypeOK
<1>17. CASE Load
  BY <1>t, <1>c, <1>f, <1>17 DEF Load, ForeignOrder, given, child, shell, TypeOK
<1>18. CASE Decide
  BY <1>t, <1>c, <1>f, <1>18 DEF Decide, ForeignOrder, given, child, shell, TypeOK
<1>19. CASE DecideFails
  BY <1>t, <1>c, <1>f, <1>19 DEF DecideFails, ForeignOrder, given, child, shell, TypeOK
<1>20. CASE Close
  BY <1>t, <1>c, <1>f, <1>20 DEF Close, ForeignOrder, given, child, shell, TypeOK
<1>21. CASE Watchdog
  BY <1>t, <1>c, <1>f, <1>21 DEF Watchdog, Exits, ForeignOrder, given, child, shell,
     TypeOK
<1>22. CASE Over
  BY <1>t, <1>c, <1>f, <1>22 DEF Over, vars, ForeignOrder, given, child, shell, TypeOK
<1>23. CASE UNCHANGED vars
  BY <1>t, <1>c, <1>f, <1>23 DEF vars, ForeignOrder, given, child, shell, TypeOK
<1> QED
  BY <1>1, <1>2, <1>3, <1>4, <1>5, <1>6, <1>7, <1>8, <1>9, <1>10, <1>11, <1>12, <1>13,
     <1>14, <1>15, <1>16, <1>17, <1>18, <1>19, <1>20, <1>21, <1>22, <1>23 DEF Next,
     Script, Main, Thread

\* The invariant of the decision.
LEMMA DecisionSafe == Spec => []DInv
<1> QED
  BY DecisionStart, DecisionStep, PTL DEF Spec

\* A decision reorders the GPUs the caller picked and never changes which they
\* are, whatever tokens name them.
THEOREM LaneStaysTheCallers == Spec => []LaneIsTheCallers
<1>1. DInv => LaneIsTheCallers
  BY DEF DInv, Faithful, LaneIsTheCallers
<1> QED
  BY DecisionSafe, <1>1, PTL

\* Every decision that is about to be applied has an order no other order of
\* the lane beats, and differs from the caller's only for a higher score.
THEOREM BestOrderChosen == Spec => []OrderIsBest
<1>1. DInv => OrderIsBest
  BY DEF DInv, Faithful, OrderIsBest
<1> QED
  BY DecisionSafe, <1>1, PTL

\* A numactl prefix names the node of every GPU the server will see.
THEOREM PrefixIsTheNode == Spec => []BoundToItsGpus
<1>1. DInv => BoundToItsGpus
  BY DEF DInv, TypeOK, Faithful, BoundToItsGpus
<1> QED
  BY DecisionSafe, <1>1, PTL

-----------------------------------------------------------------------------
(* The extent of what a strict launch lets through.                        *)

\* The tests the discovery makes before it counts the GPUs.
BeforeTheCount ==
  /\ dec.status = "legacy"
  /\ \/ dec.reason = "device_order_not_pci_bus_id" /\ ForeignOrder
     \/ dec.reason = "nvml_unavailable" /\ "nvml" \in Faults
     \/ dec.reason = "facts_duplicate" /\ host.dup

\* On a larger host a strict launch without GPUs of the caller's has a decision
\* only for one of these reasons.
ExceptionInv ==
  ctl.auto = "strict" /\ host.n > 4 /\ ~Given(caller) /\ result = "value" => BeforeTheCount

\* Decide refuses, unless two GPUs have one id.
LEMMA StrictDecision ==
  ASSUME NEW h, NEW c, NEW k, ~Given(c), k.auto = "strict", h.n > 4, h.n \in Int,
         Decision(h, c, k).reason # "refused"
  PROVE  h.dup /\ Decision(h, c, k).status = "legacy" /\ Decision(h, c, k).reason = "facts_duplicate"
<1>1. ResolveLane(h, c, k).reason = "refused"
  BY StrictRefusesFirst
<1>2. CASE h.dup
  BY <1>2 DEF Decision, Legacy
<1>3. CASE ~h.dup
  BY <1>1, <1>3 DEF Decision, Legacy
<1> QED
  BY <1>2, <1>3

\* Only the discovery thread makes a decision, and only these.
LEMMA ExceptionStep ==
  ASSUME DInv, ExceptionInv, [Next]_vars
  PROVE  ExceptionInv'
<1> SUFFICES ASSUME ctl'.auto = "strict", host'.n > 4, ~Given(caller'), result' = "value"
             PROVE  BeforeTheCount'
  BY DEF ExceptionInv
<1>0. host' = host /\ caller' = caller /\ ctl' = ctl
  BY OnlyTheThreadDecides DEF given
<1>1. CASE UNCHANGED <<dec, result>>
  BY <1>0, <1>1 DEF ExceptionInv, BeforeTheCount, ForeignOrder, Given
<1>2. CASE Load
  <2>1. CASE dec' = Legacy(caller, "device_order_not_pci_bus_id") /\ ForeignOrder
    BY <1>0, <2>1 DEF BeforeTheCount, ForeignOrder, Legacy
  <2>2. CASE dec' = Legacy(caller, "nvml_unavailable") /\ "nvml" \in Faults
    BY <1>0, <2>2 DEF BeforeTheCount, ForeignOrder, Legacy
  <2> QED
    BY <1>1, <1>2, <2>1, <2>2 DEF Load
<1>3. CASE Decide
  <2>1. PICK d : d = Decision(host, caller, ctl)
    OBVIOUS
  <2>2. d.reason # "refused" /\ dec' = d
    BY <1>3, <2>1 DEF Decide
  <2>3. host.n \in Int
    BY DEF DInv, GoodHost
  <2>4. host.dup /\ d.status = "legacy" /\ d.reason = "facts_duplicate"
    BY <1>0, <2>1, <2>2, <2>3, StrictDecision DEF Given
  <2> QED
    BY <1>0, <2>2, <2>4 DEF BeforeTheCount
<1>4. CASE DecideFails
  BY <1>4 DEF DecideFails
<1> QED
  BY <1>1, <1>2, <1>3, <1>4, OnlyTheThreadDecides

\* A strict launch on more than four GPUs that were not named starts in three
\* cases only, and then with the settings of the legacy decision: a device order of
\* the caller's own, no NVML, or duplicate ids (decide tests them before the lane).
THEOREM StrictExceptions ==
  Spec => [](pc = "exec" /\ ctl.auto = "strict" /\ host.n > 4 /\ ~Given(caller)
               => BeforeTheCount /\ env = dec.env)
<1>1. Init => ExceptionInv
  BY DEF Init, ExceptionInv
<1>2. DInv /\ SInv /\ ExceptionInv =>
        (pc = "exec" /\ ctl.auto = "strict" /\ host.n > 4 /\ ~Given(caller)
           => BeforeTheCount /\ env = dec.env)
  BY DEF DInv, SInv, StrictNeverGuesses, ExceptionInv
<1> QED
  BY <1>1, <1>2, ExceptionStep, DecisionSafe, LaunchSafe, PTL DEF Spec
=============================================================================
