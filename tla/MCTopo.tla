------------------------------- MODULE MCTopo -------------------------------
(***************************************************************************)
(* Machines, callers and controls for the runs over TopoLaunch.            *)
(***************************************************************************)
EXTENDS TopoLaunch

Fact(a, p2p, nv) == [ancestor |-> a, read |-> p2p, write |-> p2p, nvlink |-> nv]
NvLink   == Fact("SYSTEM", "OK", TRUE)
Switch   == Fact("SINGLE", "OK", FALSE)
Bridge   == Fact("HOSTBRIDGE", "OK", FALSE)
BridgeNo == Fact("HOSTBRIDGE", "CHIPSET", FALSE)
Far      == Fact("SYSTEM", "CHIPSET", FALSE)
HalfRead == [Bridge EXCEPT !.write = Unknown]

PairsOf(n) == {{i, j} : i, j \in 1 .. n} \ {{i} : i \in 1 .. n}

Flip(n) == [k \in 1 .. n |-> n + 1 - k]

Machine(n, link, numa, idle) ==
  [n |-> n, link |-> link, numa |-> numa, nodes |-> {0, 1}, idle |-> idle,
   bindable |-> {0, 1}, dup |-> FALSE, fastest |-> Flip(n)]

Same(n, fact) == [p \in PairsOf(n) |-> fact]

\* Every four-GPU machine whose links are of three kinds.
AllFours ==
  {Machine(4, l, [g \in 1 .. 4 |-> 0], {}) :
     l \in [PairsOf(4) -> {NvLink, Bridge, Far}]}

Reference == Machine(4, Same(4, Bridge), [g \in 1 .. 4 |-> 0], {})
OneSwitch == [Machine(4, Same(4, BridgeNo), [g \in 1 .. 4 |-> -1], {})
                EXCEPT !.nodes = {0}]
Bridged   == Machine(4, [p \in PairsOf(4) |->
                           IF p \in {{1, 3}, {2, 4}} THEN NvLink ELSE BridgeNo],
                     <<0, 0, 1, 1>>, {})
HalfKnown == Machine(4, [Same(4, Bridge) EXCEPT ![{1, 2}] = HalfRead],
                     <<0, 0, 0, -2>>, {})
Doubled   == [Reference EXCEPT !.dup = TRUE]
Three     == Machine(3, Same(3, Bridge), <<0, 0, 0>>, {})
SixFacts  == [p \in PairsOf(6) |-> IF p \subseteq {1, 2} \/ p \subseteq 3 .. 6
                                   THEN Switch ELSE Far]
SixNuma   == <<0, 0, 1, 1, 1, 1>>
Six       == Machine(6, SixFacts, SixNuma, 1 .. 6)
SixBusy   == Machine(6, SixFacts, SixNuma, {1, 2, 3})
SixMixed  == Machine(6, SixFacts, SixNuma, {1, 2, 3, 6})

SomeHosts == {Reference, OneSwitch, Bridged, HalfKnown, Doubled, Three,
              Six, SixBusy, SixMixed}

CvdNum(k) == [i \in Ranks |-> Num(k[i])]
Cvds == {NotSet, Blank, Fixed, CvdNum(<<0, 2, 1, 3>>), CvdNum(<<1, 2, 3, 5>>),
         CvdNum(<<0, 0, 1, 2>>), <<Num(0), Num(1), Num(2)>>,
         <<Uuid(1), Uuid(2), Uuid(3), Uuid(4)>>,
         <<Uuid(3), Num(3), Uuid(1), Num(1)>>, <<Bad, Num(1), Num(2), Num(3)>>}

Env(c, o, own) == [cvd |-> c, order |-> o,
                   skip  |-> IF own THEN "0" ELSE Unset,
                   level |-> IF own THEN "PHB" ELSE Unset,
                   proto |-> IF own THEN "Simple" ELSE Unset]

SomeCallers == {Env(c, o, own) : c \in Cvds, own \in BOOLEAN,
                o \in {Unset, "PCI_BUS_ID", "FASTEST_FIRST"}}
TwoOrders   == {Env(NotSet, Unset, FALSE),
                Env(CvdNum(<<3, 1, 0, 2>>), Unset, FALSE)}

Ctl(a, l, b, n, u) == [auto |-> a, laneAuto |-> l, bind |-> b, nccl |-> n,
                       usage |-> u]

SomeControls == {Ctl(a, l, b, n, TRUE) : a \in {"0", "1", "strict", "yes"},
                 l \in BOOLEAN, b \in BOOLEAN, n \in {"legacy", "default"}}
                \cup {Ctl(a, TRUE, TRUE, "other", FALSE) : a \in {"1", "strict"}}
OneControl   == {Ctl("1", FALSE, TRUE, "legacy", TRUE)}

Launch(H, C, K) == [host : H, caller : C, ctl : K]

\* Every caller and control on some machines, and every order of links.
AllLaunches == Launch(SomeHosts, SomeCallers, SomeControls)
               \cup Launch(AllFours, TwoOrders, OneControl)

\* The launches of the two disagreements with the documentation.
OffLaunches    == Launch(SomeHosts, {Env(c, Unset, FALSE) : c \in Cvds},
                         {Ctl("0", FALSE, FALSE, "legacy", TRUE)})
StrictLaunches == Launch(SomeHosts, SomeCallers,
                         {Ctl("strict", FALSE, FALSE, "legacy", TRUE)})
=============================================================================
