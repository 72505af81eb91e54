------------------------- MODULE GuardTelemetryInv --------------------------
(***************************************************************************)
(* The inductive invariant behind the safety properties of GuardTelemetry, *)
(* in named parts, each about one hand-over between two of its processes.  *)
(***************************************************************************)
EXTENDS GuardTelemetry, FiniteSets

InCall == {"entering", "top", "in", "launch", "leaving"}

\* calls is the set of callers inside a call, and nobody calls or launches
\* unless the worker serves.
CallersInv ==
  /\ \A c \in Callers : c \in calls <=> cpc[c] \in InCall
  /\ own # "serving" => AllOut

\* Behind a live gate, whoever is past its checks is the engine thread on the
\* fence stream; a launch outside a call is covered by somebody else's call,
\* whose check is about to break the gate.
GateInv ==
  GateLive =>
    \A c \in Callers :
      /\ cpc[c] \in InCall \ {"entering"} => c = Owner /\ cstream[c] = Fence
      /\ cpc[c] \in {"launch", "launchout"} => c = Owner /\ lstream[c] = Fence
      /\ cpc[c] = "launchout" => \E d \in calls : d # Owner

\* Streams run forward, and behind a live gate the others are idle.
GpuInv ==
  /\ \A st \in Streams : done[st] <= launched[st]
  /\ \A st \in Streams : mid[st] # NoSite => done[st] < launched[st]
  /\ GateLive => \A st \in Streams \ {Fence} : done[st] = launched[st]
  /\ own \in {"started", "synced", "suspending", "drained"} => AllDone

\* The maxima lack the hits of the kernels between their two writes.
Writing(s) == {st \in Streams : mid[st] = s}
MaximaInv == \A s \in Sites : /\ IsFiniteSet(Writing(s))
                              /\ count[s] = maxed[s] + Cardinality(Writing(s))

\* The reader's samples lie in the past.
SampleInv == /\ rseq <= callSeq /\ fence.seq <= callSeq
             /\ rgen <= suspendGen
             /\ suspendReq => own = "suspending"

\* Where the reader may be, and that the gate was armed when it used it.
ReaderInv ==
  /\ rpc = "off" <=> thread # "alive"
  /\ rpc \in {"settle", "fresh", "landed", "io"} => rmode \in {"drain", "suspend"}
  /\ rpc = "ack" => rmode = "suspend"
  /\ rpc \in {"park", "parkcheck", "parked"} => rmode = "drain"
  /\ rpc \in {"sample", "query", "record"} => rmode = "gated"
  /\ rpc = "poll" => rmode \in {"plain", "gated"}
  /\ \/ rpc \in {"off", "tick", "sleepcheck", "sleeping"}
     \/ rmode \in {"plain", "suspend"}
     \/ gateArmed
  /\ rpc # "off" /\ fence # NoFence => gateArmed
  /\ asleep => rpc \in {"off", "tick", "sleepcheck", "sleeping"}

\* A fence no call has overtaken stands behind the last launched kernel.
FenceInv ==
  rpc # "off" /\ GateLive /\ fence.seq = callSeq /\ calls = {} =>
    fence.mark = launched[Fence]

\* The settled read under way is still valid: no call since its fence, or the
\* sleeper that asked for it still waits.
Covered ==
  \/ rmode = "drain" /\ GateLive /\ rseq = callSeq /\ calls = {}
  \/ rmode = "suspend" /\ suspendReq /\ suspendGen = rgen

\* While it is valid nothing runs, so the fresh copy is exact, and what
\* follows it has reported everything.
SettleInv ==
  Covered =>
    /\ rpc \in {"io", "settle", "fresh", "landed", "ack", "park", "parkcheck",
                "parked"} => AllDone
    /\ rpc \in {"fresh", "landed"} =>
         \A s \in Sites : mirror[s].n = count[s] /\ mirror[s].m = count[s]
    /\ rpc \in {"ack", "park", "parkcheck", "parked"} /\ ~lost => AllReported

\* Nothing is copied, half confirmed or reported that was not counted.
CountInv == \A s \in Sites : /\ mirror[s].n <= count[s]
                             /\ pend[s].n <= count[s]
                             /\ seen[s] <= count[s]

\* _reader_parked and the wait agree, and no copy survives a settled read.
ParkInv ==
  /\ parked => /\ rpc \in {"parkcheck", "parked"}
               /\ rseq = callSeq /\ calls = {}
  /\ rpc \in {"parkcheck", "parked"} /\ rseq = callSeq => parked
  /\ rpc \in {"landed", "ack", "park", "parkcheck", "parked"} /\ ~lost => ~inflight

\* A sleeping worker is not drained.
SleepInv == asleep => own # "draining"

\* The inductive invariant: every hand-over at once, with the three safety
\* properties that are inductive beside them.
IInv ==
  /\ TypeOK /\ CallersInv /\ GateInv /\ GpuInv /\ MaximaInv /\ SampleInv /\ ReaderInv
  /\ FenceInv /\ SettleInv /\ CountInv /\ ParkInv /\ SleepInv
  /\ FatalEvidenceStopsRank /\ NoLostWakeup /\ DrainedMeansReported
=============================================================================
