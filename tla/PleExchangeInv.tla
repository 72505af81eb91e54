--------------------------- MODULE PleExchangeInv ---------------------------
(***************************************************************************)
(* The inductive invariant of PleExchange.  Its heart is Slot: the flag,   *)
(* the output buffer and the copy stream of a worker and layer, told from  *)
(* the position of the worker and from the last step computed for it,      *)
(* which the pinned buffer records.                                        *)
(***************************************************************************)
EXTENDS PleExchange

Requests == [dp : DPRanks, step : Steps]

\* Types, by the part of the system that writes the variable.
HostTypes ==
  /\ kind \in [DPRanks -> [Steps -> {"real", "dummy"}]]
  /\ launched \in [Workers -> 0..MaxSteps]
  /\ failed \in [DPRanks -> BOOLEAN]

GpuTypes ==
  /\ gpu \in [Workers -> [step : 1..MaxSteps + 1, op : 0..ReleaseOp]]
  /\ flag \in [Workers -> [Layers -> {0, 1}]]
  /\ outBuf \in [Workers -> [Layers -> Content]]
  /\ inBuf \in [DPRanks -> Content]

RequestTypes ==
  /\ queue \in [DPRanks -> Seq(Steps)]
  /\ thread \in [DPRanks -> [pc : {"idle", "waiting", "published"},
                             step : 0..MaxSteps]]
  /\ pool \in [DPRanks -> 0..MaxConcurrentBatches]
  /\ socket \in Seq(Requests)

CpuTypes ==
  /\ phase \in {"receive", "sync", "compute"}
  /\ batch \in Seq(Requests)
  /\ layer \in Layers
  /\ index \in Nat \ {0}
  /\ pinned \in [DPRanks -> [Layers -> Content]]
  /\ copyQ \in [Workers -> [Layers -> Seq({"wait_reset", "copy", "signal"})]]

TypeOK == HostTypes /\ GpuTypes /\ RequestTypes /\ CpuTypes

\* Every D2H event is in the pool, with a queued request or with the thread,
\* so the request queue has room whenever the pool has an event.
EventsAccounted ==
  \A d \in DPRanks :
    pool[d] + Len(queue[d]) + (IF thread[d].pc = "idle" THEN 0 ELSE 1)
      = MaxConcurrentBatches

\* A model stream is inside a step only when the host has launched it.
Positions ==
  \A w \in Workers :
    /\ gpu[w].step <= launched[w] + 1
    /\ gpu[w].op > 0 => gpu[w].step <= launched[w]

\* The collectives keep the ranks of a TP group together.
Lockstep ==
  \A d \in DPRanks : \A t, u \in TPRanks : \A s \in 1..MaxSteps + 1 :
    \A l \in Layers :
      Reached(<<d, t>>, s, CollectiveOp(l) + 1) =>
        Reached(<<d, u>>, s, CollectiveOp(l))

CurrentStep(d) == gpu[Leader(d)].step

\* The shared inputs are those of the staged step.
InputsStaged ==
  \A d \in DPRanks :
    Staged(d, CurrentStep(d)) /\ Real(d, CurrentStep(d)) =>
      inBuf[d] = CurrentStep(d)

\* A layer is only computed for a step that was staged.
ComputedSteps ==
  \A d \in DPRanks : \A l \in Layers :
    \/ pinned[d][l] = Garbage
    \/ Real(d, pinned[d][l]) /\ Staged(d, pinned[d][l])

Pending == <<"wait_reset">>
Delivery == <<"wait_reset", "copy", "signal">>
Delivering == <<"copy", "signal">>
Arriving == <<"signal">>

\* w is past its wait: it holds the result; the next one can only queue up.
Holding(w, l) ==
  LET c == gpu[w].step
      s == pinned[w[1]][l]
  IN  /\ flag[w][l] = 1
      /\ outBuf[w][l] = IF Real(w[1], c) THEN c ELSE Zeros
      /\ Real(w[1], c) => s >= c
      /\ \/ s <= c /\ copyQ[w][l] \in {<< >>, Pending}
         \/ s = c + 1 /\ copyQ[w][l] = Delivery

\* w has not waited yet for its real step: the result is still to be computed,
\* on its way, or there.
Expecting(w, l) ==
  LET c == gpu[w].step
      s == pinned[w[1]][l]
  IN  \/ /\ flag[w][l] = 0 /\ s < c
         /\ copyQ[w][l] \in {<< >>, Pending}
      \/ /\ flag[w][l] = 0 /\ s = c
         /\ copyQ[w][l] \in {Delivery, Delivering}
      \/ /\ flag[w][l] = 0 /\ s = c
         /\ copyQ[w][l] = Arriving
         /\ outBuf[w][l] = c
      \/ /\ flag[w][l] = 1 /\ s = c
         /\ copyQ[w][l] = << >>
         /\ outBuf[w][l] = c

\* w has not waited yet in its dummy step, or has no step left.
Undisturbed(w, l) ==
  /\ copyQ[w][l] = << >>
  /\ pinned[w[1]][l] < gpu[w].step
  /\ IF gpu[w].op = 0 THEN flag[w][l] = 0
     ELSE flag[w][l] = 1 /\ outBuf[w][l] = Zeros

Slot(w, l) ==
  IF gpu[w].op > WaitOp(l) THEN Holding(w, l)
  ELSE IF Real(w[1], gpu[w].step) THEN Expecting(w, l)
  ELSE Undisturbed(w, l)

Slots == \A w \in Workers : \A l \in Layers : Slot(w, l)

\* A wait_reset stands alone on a copy stream only between SyncTargets and
\* ComputeLayer of that very layer and rank.
Syncing ==
  /\ phase # "receive" => index \in DOMAIN batch
  /\ phase = "receive" => layer = 1 /\ index = 1
  /\ phase = "compute" =>
       \A w \in Targets : \/ copyQ[w][layer] = Pending
                          \/ copyQ[w][layer] = << >> /\ flag[w][layer] = 0
  /\ \A w \in Workers : \A l \in Layers :
       copyQ[w][l] = Pending => phase = "compute" /\ w \in Targets /\ l = layer

\* A request that is still to be read is the one of the current step.
Fresh(r) ==
  /\ Real(r.dp, r.step)
  /\ r.step = CurrentStep(r.dp)
  /\ gpu[Leader(r.dp)].op > 0

ToDo(i, l) == l > layer \/ (l = layer /\ i >= index)

RequestsFresh ==
  /\ \A i \in DOMAIN socket :
       Fresh(socket[i]) /\ \A l \in Layers : pinned[socket[i].dp][l] < socket[i].step
  /\ \A i \in DOMAIN batch : \A l \in Layers :
       ToDo(i, l) => Fresh(batch[i]) /\ pinned[batch[i].dp][l] < batch[i].step

\* One request of a rank at a time.
RequestsDistinct ==
  /\ \A i, j \in DOMAIN socket : socket[i].dp = socket[j].dp => i = j
  /\ \A i, j \in DOMAIN batch : batch[i].dp = batch[j].dp => i = j
  /\ \A i \in DOMAIN socket : \A j \in DOMAIN batch :
       batch[j].dp = socket[i].dp => ~(layer < NumLayers \/ index <= j)

\* A step whose request was not published.
Unpublished(d, s) ==
  /\ Real(d, s)
  /\ CurrentStep(d) <= s /\ s <= launched[Leader(d)]
  /\ Unread(d) => CurrentStep(d) < s
  /\ \A l \in Layers : pinned[d][l] < s

RequestsOrdered ==
  \A d \in DPRanks :
    /\ \A i \in DOMAIN queue[d] : Unpublished(d, queue[d][i])
    /\ \A i, j \in DOMAIN queue[d] : i < j => queue[d][i] < queue[d][j]
    /\ thread[d].pc = "waiting" =>
         /\ Unpublished(d, thread[d].step)
         /\ \A i \in DOMAIN queue[d] : thread[d].step < queue[d][i]

\* The request of step s is on its way to the CPU process, or each layer was
\* computed for it or is going to be.
Kept(d, s) ==
  \/ \E i \in DOMAIN queue[d] : queue[d][i] = s
  \/ thread[d].pc = "waiting" /\ thread[d].step = s
  \/ \E i \in DOMAIN socket : socket[i] = [dp |-> d, step |-> s]
  \/ \A l \in Layers :
       \/ pinned[d][l] >= s
       \/ \E i \in DOMAIN batch : ToDo(i, l) /\ batch[i] = [dp |-> d, step |-> s]

\* No request of a launched step is lost.
RequestsKept ==
  \A d \in DPRanks : \A s \in Steps :
    Real(d, s) /\ s <= launched[Leader(d)] => Kept(d, s)

\* The inductive invariant.
IInv ==
  /\ TypeOK /\ EventsAccounted /\ Positions /\ Lockstep /\ InputsStaged
  /\ ComputedSteps /\ Slots /\ Syncing
  /\ RequestsFresh /\ RequestsDistinct /\ RequestsOrdered /\ RequestsKept
=============================================================================
