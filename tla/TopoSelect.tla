----------------------------- MODULE TopoSelect -----------------------------
(***************************************************************************)
(* The decisions of the topology selector (scripts/topo_select.py): which  *)
(* four GPUs form the lane, in which rank order, and the environment vLLM  *)
(* is launched with.  Ranks 1,2 and 3,4 are the tensor-parallel pairs,     *)
(* 1,3 and 2,4 the pipeline edges.                                         *)
(*                                                                         *)
(* A GPU is its position in PCI bus order, counted from 1, so comparing    *)
(* bus ids is comparing numbers.  A host is what NVML, sysfs and numactl   *)
(* report: n GPUs; link, the facts of each pair; numa, the raw node of     *)
(* each GPU (-1 as sysfs says it, -2 unreadable); nodes, the memory nodes; *)
(* idle, the GPUs without a process; bindable, the nodes whose CPUs and    *)
(* memory pass every test of decide_binding; dup, two GPUs with one id.    *)
(***************************************************************************)
EXTENDS Integers, Sequences, FiniteSets

Unknown == "unknown"     \* a fact that could not be read
Unset   == "unset"       \* a variable the caller did not set

\* A token of CUDA_VISIBLE_DEVICES: an index, a UUID (prefix), or neither.
Num(k)  == [kind |-> "num", k |-> k]
Uuid(g) == [kind |-> "uuid", k |-> g]
Bad     == [kind |-> "bad", k |-> 0]

NotSet  == <<>>          \* CUDA_VISIBLE_DEVICES unset or empty
Blank   == <<[kind |-> "blank", k |-> 0]>>        \* nothing but white space
Fixed   == <<Num(0), Num(1), Num(2), Num(3)>>     \* LEGACY_CVD
Ranks   == 1 .. 4
Lanes(S) == {l \in [Ranks -> S] : \A i, j \in Ranks : l[i] = l[j] => i = j}
Orders  == Lanes(Ranks)
-----------------------------------------------------------------------------
(* Facts about the links.                                                  *)

\* PairFacts.p2p_ok: one direction unknown makes the pair unknown.
P2pOk(p) == IF Unknown \in {p.read, p.write} THEN Unknown
            ELSE IF p.read = "OK" /\ p.write = "OK" THEN "yes" ELSE "no"

Pair(host, g, h) == host.link[{g, h}]

\* link_class, doubled to stay in the integers.
NoClass == 0
LinkClass(p) ==
  IF p.nvlink THEN 10
  ELSE IF p.ancestor = Unknown \/ P2pOk(p) = Unknown THEN NoClass
  ELSE IF p.ancestor = "SYSTEM" THEN 2
  ELSE IF p.ancestor \in {"INTERNAL", "SINGLE", "MULTIPLE"}
       THEN IF P2pOk(p) = "yes" THEN 8 ELSE 5
  ELSE IF P2pOk(p) = "yes" THEN 6 ELSE 4

\* lane_classes is None.
ClassUnknown(host, lane) ==
  \E i, j \in Ranks : i < j /\ LinkClass(Pair(host, lane[i], lane[j])) = NoClass

NoNode == -1

\* resolve_numa: -1 on a single-node system means that node.
Numa(host, g) ==
  IF host.numa[g] >= 0 THEN host.numa[g]
  ELSE IF host.numa[g] = -1 /\ Cardinality(host.nodes) = 1
       THEN CHOOSE nd \in host.nodes : TRUE ELSE NoNode

OneNode(host, S) == /\ Cardinality({Numa(host, g) : g \in S}) = 1
                    /\ \A g \in S : Numa(host, g) # NoNode
-----------------------------------------------------------------------------
(* The rank order.                                                         *)

Lower(a, b) == IF a < b THEN a ELSE b

\* order_score of the lane itself.
Score(host, lane) ==
  LET c(i, j) == LinkClass(Pair(host, lane[i], lane[j]))
  IN  <<Lower(c(1, 2), c(3, 4)), c(1, 2) + c(3, 4), Lower(c(1, 3), c(2, 4))>>

\* The order of tuples, in Python and here.
Less(s, t) == \E i \in 1 .. Len(s) :
                s[i] < t[i] /\ \A j \in 1 .. i - 1 : s[j] = t[j]

Greatest(S) == CHOOSE s \in S : \A t \in S : ~Less(s, t)
Least(S)    == CHOOSE s \in S : \A t \in S : ~Less(t, s)

\* The orders of a lane, and those of them that score highest.
OrdersOf(lane) == {[i \in Ranks |-> lane[p[i]]] : p \in Orders}
TopScore(host, lane) == Greatest({Score(host, l) : l \in OrdersOf(lane)})
BestOrder(host, lane) ==
  LET top == TopScore(host, lane)
  IN  Least({l \in OrdersOf(lane) : Score(host, l) = top})

\* Seeded fault: an order that scores the same replaces the caller's.
ChooseOrderEager(host, lane) == BestOrder(host, lane)

\* choose_order: keep the order unless another one scores strictly higher;
\* then the best one, with the smallest bus ids first.
ChooseOrder(host, lane) ==
  IF Less(Score(host, lane), TopScore(host, lane)) THEN BestOrder(host, lane)
  ELSE lane
-----------------------------------------------------------------------------
(* The lane.                                                               *)

Gpus(host) == 1 .. host.n
InBusOrder(S) == CHOOSE l \in Lanes(S) : \A i \in 1 .. 3 : l[i] < l[i + 1]

Lane(l)    == [lane |-> l, reason |-> "ok"]
NoLane(r)  == [lane |-> <<>>, reason |-> r]

\* auto_lane: the best four idle GPUs, on one node first.
AutoKey(host, lane) ==
  <<IF OneNode(host, {lane[i] : i \in Ranks}) THEN 1 ELSE 0>>
    \o TopScore(host, lane) \o [i \in Ranks |-> -lane[i]]

AutoLane(host) ==
  LET quads == {InBusOrder(S) : S \in {T \in SUBSET host.idle : Cardinality(T) = 4}}
      known == {l \in quads : ~ClassUnknown(host, l)}
  IN  IF Cardinality(host.idle) < 4 THEN NoLane("auto_insufficient_idle")
      ELSE IF known = {} THEN NoLane("auto_facts_unknown")
      ELSE LET best == Greatest({AutoKey(host, l) : l \in known})
           IN  Lane(CHOOSE l \in known : AutoKey(host, l) = best)

Given(caller) == caller.cvd \notin {NotSet, Blank}

\* The GPU a token names under PCI_BUS_ID order; 0 when it names none.
Resolve(host, tok) ==
  IF tok.kind = "num" /\ tok.k < host.n THEN tok.k + 1
  ELSE IF tok.kind = "uuid" /\ tok.k \in Gpus(host) THEN tok.k ELSE 0

Numeric(cvd) == \A i \in 1 .. Len(cvd) : cvd[i].kind = "num"

\* The caller's tokens as a lane.
GivenLane(host, caller) ==
  LET lane == [i \in 1 .. Len(caller.cvd) |-> Resolve(host, caller.cvd[i])]
      S    == {lane[i] : i \in 1 .. Len(lane)}
  IN  IF 0 \in S THEN NoLane("cvd_unresolved")
      ELSE IF Cardinality(S) # Len(lane) THEN NoLane("cvd_duplicate")
      ELSE IF Len(lane) # 4 THEN NoLane("lane_not_4") ELSE Lane(lane)

\* Seeded fault: LANE_GPUS=auto is looked at before strict mode.
ResolveLaneAutoFirst(host, caller, ctl) ==
  IF Given(caller) THEN GivenLane(host, caller)
  ELSE IF host.n = 4 THEN Lane(InBusOrder(Gpus(host)))
  ELSE IF host.n < 4 THEN NoLane("fewer_than_4_visible")
  ELSE IF ctl.laneAuto THEN AutoLane(host)
  ELSE NoLane(IF ctl.auto = "strict" THEN "refused" ELSE "more_than_4_visible")

\* resolve_lane: a lane, the reason for the fixed settings, or a refusal.
ResolveLane(host, caller, ctl) ==
  IF Given(caller) THEN GivenLane(host, caller)
  ELSE IF host.n = 4 THEN Lane(InBusOrder(Gpus(host)))
  ELSE IF host.n < 4 THEN NoLane("fewer_than_4_visible")
  ELSE IF ctl.auto = "strict" THEN NoLane("refused")
  ELSE IF ctl.laneAuto THEN AutoLane(host) ELSE NoLane("more_than_4_visible")
-----------------------------------------------------------------------------
(* The decision.                                                           *)

Own(value, default) == IF value # Unset THEN value ELSE default

\* decide_env of a legacy decision: the caller's values, else the fixed ones.
LegacyEnv(caller) ==
  [cvd   |-> IF Given(caller) THEN caller.cvd ELSE Fixed,
   order |-> Own(caller.order, "PCI_BUS_ID"),
   skip  |-> Own(caller.skip, "1"),
   level |-> Own(caller.level, "SYS"),
   proto |-> Own(caller.proto, "LL")]

Legacy(caller, reason) ==
  [status |-> "legacy", reason |-> reason, lane |-> <<>>, input |-> <<>>,
   env |-> LegacyEnv(caller), prefix |-> NoNode]

TpP2p(host, lane) == \/ P2pOk(Pair(host, lane[1], lane[2])) = "yes"
                     \/ P2pOk(Pair(host, lane[3], lane[4])) = "yes"

\* is_reference: four GPUs named by number or not at all, in that order, P2P
\* everywhere, no NVLink, one node.
IsReference(host, caller, input, lane, auto) ==
  /\ host.n = 4 /\ ~auto /\ lane = input
  /\ Given(caller) => Numeric(caller.cvd)
  /\ \A i, j \in Ranks : i < j =>
       LET p == Pair(host, lane[i], lane[j]) IN ~p.nvlink /\ P2pOk(p) = "yes"
  /\ OneNode(host, {lane[i] : i \in Ranks})

\* decide_env of a decision.  Numeric indices are kept only for an order the
\* caller could have meant by them.
SelectedEnv(host, caller, ctl, input, lane, auto) ==
  LET p2p  == TpP2p(host, lane)
      keep == lane = input /\ ~auto /\ (Given(caller) => Numeric(caller.cvd))
  IN  [cvd   |-> IF ~keep THEN [i \in Ranks |-> Uuid(lane[i])]
                 ELSE IF Given(caller) THEN caller.cvd ELSE Fixed,
       order |-> Own(caller.order, "PCI_BUS_ID"),
       skip  |-> Own(caller.skip, IF p2p THEN "0" ELSE "1"),
       level |-> Own(caller.level, "SYS"),
       proto |-> Own(caller.proto,
                     IF ~p2p /\ ctl.nccl = "default" THEN "none" ELSE "LL")]

\* Seeded fault: the node of the first GPU stands for the lane's.
BindingAnyNode(host, ctl, lane) ==
  IF ctl.bind /\ Numa(host, lane[1]) \in host.bindable
  THEN Numa(host, lane[1]) ELSE NoNode

\* decide_binding: the node of the numactl prefix.
Binding(host, ctl, lane) ==
  LET S == {lane[i] : i \in Ranks}
  IN  IF ctl.bind /\ OneNode(host, S) /\ Numa(host, lane[1]) \in host.bindable
      THEN Numa(host, lane[1]) ELSE NoNode

Selected(host, caller, ctl, input, auto) ==
  LET lane == ChooseOrder(host, input)
      ref  == IsReference(host, caller, input, lane, auto)
  IN  [status |-> "ok",
       reason |-> IF ref THEN "reference"
                  ELSE IF lane # input THEN "reordered" ELSE "kept",
       lane |-> lane, input |-> input,
       env |-> IF ref THEN LegacyEnv(caller)
               ELSE SelectedEnv(host, caller, ctl, input, lane, auto),
       prefix |-> Binding(host, ctl, lane)]

\* decide, once the facts are in.
Decision(host, caller, ctl) ==
  LET found == ResolveLane(host, caller, ctl)
      auto  == ~Given(caller) /\ host.n > 4
  IN  IF host.dup THEN Legacy(caller, "facts_duplicate")
      ELSE IF found.reason # "ok" THEN Legacy(caller, found.reason)
      ELSE IF ClassUnknown(host, found.lane) THEN Legacy(caller, "facts_unknown")
      ELSE Selected(host, caller, ctl, found.lane, auto)
=============================================================================
