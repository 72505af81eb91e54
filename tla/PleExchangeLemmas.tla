------------------------- MODULE PleExchangeLemmas -------------------------
(***************************************************************************)
(* What the proofs about PleExchange rest on: the workers and the ops of   *)
(* the copy streams, the types, the positions of the model streams, and    *)
(* what the invariant says of a step that is not computed yet.             *)
(***************************************************************************)
EXTENDS PleExchangeInv, SequenceTheorems, TLAPS

-----------------------------------------------------------------------------
(* Facts about the constants and the copy streams.                         *)

LEMMA WorkerParts ==
  ASSUME NEW w \in Workers
  PROVE  /\ w[1] \in DPRanks
         /\ w[2] \in TPRanks
         /\ w = <<w[1], w[2]>>
         /\ Leader(w[1]) \in Workers
BY ConstantsAssumption DEF Workers, TPRanks, Leader

LEMMA RankWorkers ==
  ASSUME NEW d \in DPRanks
  PROVE  /\ Leader(d) \in Workers
         /\ Leader(d)[1] = d
         /\ Leader(d)[2] = 0
         /\ 0 \in TPRanks
         /\ \A t \in TPRanks : <<d, t>> \in Workers
BY ConstantsAssumption DEF Workers, TPRanks, Leader

LEMMA PendingThenDelivering == Pending \o Delivering = Delivery
<1> DEFINE Ops == {"wait_reset", "copy", "signal"}
<1>1. /\ Pending \in Seq(Ops) /\ Len(Pending) = 1 /\ Pending[1] = "wait_reset"
      /\ Delivering \in Seq(Ops) /\ Len(Delivering) = 2
      /\ Delivering[1] = "copy" /\ Delivering[2] = "signal"
      /\ Delivery \in Seq(Ops) /\ Len(Delivery) = 3 /\ Delivery[1] = "wait_reset"
      /\ Delivery[2] = "copy" /\ Delivery[3] = "signal"
  BY DEF Pending, Delivering, Delivery
<1> HIDE DEF Ops
<1> DEFINE both == Pending \o Delivering
<1>2. /\ both \in Seq(Ops)
      /\ Len(both) = Len(Pending) + Len(Delivering)
      /\ \A i \in 1..Len(Pending) + Len(Delivering) :
           both[i] = IF i <= Len(Pending) THEN Pending[i]
                     ELSE Delivering[i - Len(Pending)]
  BY <1>1, ConcatProperties, Zenon
<1> HIDE DEF both
<1>3. /\ both[1] = Pending[1]
      /\ both[2] = Delivering[1]
      /\ both[3] = Delivering[2]
  BY <1>1, <1>2
<1>4. \A i \in 1..3 : both[i] = Delivery[i]
  <2> SUFFICES ASSUME NEW i \in 1..3
               PROVE  both[i] = Delivery[i]
    OBVIOUS
  <2>1. i = 1 \/ i = 2 \/ i = 3
    OBVIOUS
  <2> QED
    BY <1>1, <1>3, <2>1
<1>5. both = Delivery
  <2>1. Len(both) = Len(Delivery)
    BY <1>1, <1>2
  <2>2. \A i \in 1..Len(both) : both[i] = Delivery[i]
    BY <1>1, <1>4, <2>1
  <2> QED
    BY <1>1, <1>2, <2>1, <2>2, SeqEqual, Zenon
<1> QED
  BY <1>5 DEF both

\* The shapes of a copy stream, and how its ops move it from one to the next.
LEMMA Streams ==
  /\ << >> \o Pending = Pending
  /\ << >> \o Delivering = Delivering
  /\ Pending \o Delivering = Delivery
  /\ Tail(Pending) = << >> /\ Head(Pending) = "wait_reset"
  /\ Tail(Delivery) = Delivering /\ Head(Delivery) = "wait_reset"
  /\ Tail(Delivering) = Arriving /\ Head(Delivering) = "copy"
  /\ Tail(Arriving) = << >> /\ Head(Arriving) = "signal"
  /\ Pending # << >> /\ Delivery # << >>
  /\ Delivering # << >> /\ Arriving # << >>
  /\ Pending # Delivery /\ Pending # Delivering /\ Pending # Arriving
  /\ Delivery # Delivering /\ Delivery # Arriving /\ Delivering # Arriving
<1>1. << >> \o Pending = Pending /\ << >> \o Delivering = Delivering
  BY DEF Pending, Delivering
<1> QED
  BY <1>1, PendingThenDelivering DEF Pending, Delivery, Delivering, Arriving

-----------------------------------------------------------------------------
(* Types.                                                                  *)

LEMMA TypeInit == Init => TypeOK /\ EventsAccounted
<1> SUFFICES ASSUME Init PROVE TypeOK /\ EventsAccounted
  OBVIOUS
<1>1. HostTypes
  BY ConstantsAssumption DEF Init, HostTypes
<1>2. GpuTypes
  BY ConstantsAssumption DEF Init, GpuTypes, Content, ReleaseOp
<1>3. RequestTypes
  BY ConstantsAssumption DEF Init, RequestTypes, Idle
<1>4. CpuTypes
  BY ConstantsAssumption DEF Init, CpuTypes, Content, Layers
<1>5. EventsAccounted
  BY ConstantsAssumption DEF Init, EventsAccounted, Idle
<1> QED
  BY <1>1, <1>2, <1>3, <1>4, <1>5 DEF TypeOK

\* Host and request thread.
LEMMA HostTypesStep ==
  ASSUME HostTypes, [Next]_vars
  PROVE  HostTypes'
<1>1. ASSUME NEW w \in Workers, LaunchQuietly(w) PROVE HostTypes'
  BY <1>1, ConstantsAssumption DEF LaunchQuietly, MayLaunch, HostTypes
<1>2. ASSUME NEW d \in DPRanks, LaunchRequest(d) PROVE HostTypes'
  BY <1>2, ConstantsAssumption, RankWorkers
  DEF LaunchRequest, MayLaunch, HostTypes
<1>3. ASSUME NEW d \in DPRanks, LaunchRaises(d) PROVE HostTypes'
  BY <1>3 DEF LaunchRaises, HostTypes
<1>4. CASE UNCHANGED hostVars
  BY <1>4 DEF hostVars, HostTypes
<1>5. ASSUME NEW w \in Workers, GpuStep(w) PROVE UNCHANGED hostVars
  BY <1>5 DEF GpuStep, StageReal, StageDummy, WaitDone, Collective, Release
<1>6. ASSUME NEW d \in DPRanks, RequestStep(d) PROVE UNCHANGED hostVars
  BY <1>6 DEF RequestStep, TakeRequest, PublishRequest, ReturnEvent
<1>7. CASE CpuStep
  BY <1>4, <1>7 DEF CpuStep, Receive, Drained, SyncTargets, ComputeLayer
<1>8. ASSUME NEW w \in Workers, NEW l \in Layers, CopyStep(w, l)
      PROVE  UNCHANGED hostVars
  BY <1>8 DEF CopyStep, WaitReset, CopyToGpu, Signal
<1> QED
  BY <1>1, <1>2, <1>3, <1>4, <1>5, <1>6, <1>7, <1>8, WorkerParts
  DEF Next, HostStep, vars

\* Which variables the parties leave alone.
LEMMA HostFrame ==
  ASSUME NEW w \in Workers, HostStep(w)
  PROVE  UNCHANGED <<gpuVars, socket, cpuVars, copyQ>>
BY DEF HostStep, LaunchQuietly, LaunchRequest, LaunchRaises, gpuVars, cpuVars

LEMMA RequestFrame ==
  ASSUME NEW d \in DPRanks, RequestStep(d)
  PROVE  UNCHANGED <<hostVars, gpuVars, cpuVars, copyQ>>
BY DEF RequestStep, TakeRequest, PublishRequest, ReturnEvent, gpuVars, cpuVars,
       hostVars

LEMMA GpuFrame ==
  ASSUME NEW w \in Workers, GpuStep(w)
  PROVE  UNCHANGED <<hostVars, reqVars, socket, cpuVars, copyQ>>
BY DEF GpuStep, StageReal, StageDummy, WaitDone, Collective, Release, hostVars,
       reqVars, cpuVars

LEMMA CpuFrame ==
  ASSUME CpuStep
  PROVE  UNCHANGED <<hostVars, gpuVars, reqVars>>
BY DEF CpuStep, Receive, Drained, SyncTargets, ComputeLayer, hostVars, gpuVars,
       reqVars

LEMMA CopyFrame ==
  ASSUME NEW w \in Workers, NEW l \in Layers, CopyStep(w, l)
  PROVE  UNCHANGED <<hostVars, gpu, inBuf, reqVars, socket, cpuVars>>
BY DEF CopyStep, WaitReset, CopyToGpu, Signal, hostVars, gpuVars, reqVars, cpuVars

LEMMA GpuTypesStep ==
  ASSUME TypeOK, [Next]_vars
  PROVE  GpuTypes'
<1> USE DEF GpuTypes
<1>1. ASSUME NEW w \in Workers, StageReal(w) PROVE GpuTypes'
  <2>1. inBuf' \in [DPRanks -> Content]
    BY <1>1, WorkerParts DEF StageReal, TypeOK, Real, Content
  <2>2. gpu' \in [Workers -> [step : 1..MaxSteps + 1, op : 0..ReleaseOp]]
    BY <1>1, ConstantsAssumption DEF StageReal, Advance, At, TypeOK, ReleaseOp
  <2> QED
    BY <1>1, <2>1, <2>2 DEF StageReal, TypeOK
<1>2. ASSUME NEW w \in Workers, StageDummy(w) PROVE GpuTypes'
  <2>1. gpu' \in [Workers -> [step : 1..MaxSteps + 1, op : 0..ReleaseOp]]
    BY <1>2, ConstantsAssumption DEF StageDummy, Advance, At, TypeOK, ReleaseOp
  <2>2. outBuf' \in [Workers -> [Layers -> Content]]
    BY <1>2 DEF StageDummy, TypeOK, Content
  <2>3. flag' \in [Workers -> [Layers -> {0, 1}]]
    BY <1>2 DEF StageDummy, TypeOK
  <2> QED
    BY <1>2, <2>1, <2>2, <2>3 DEF StageDummy, TypeOK
<1>3. ASSUME NEW w \in Workers, NEW l \in Layers, WaitDone(w, l) PROVE GpuTypes'
  <2>0. gpu[w].op + 1 \in 0..ReleaseOp
    BY <1>3, ConstantsAssumption DEF WaitDone, At, ReleaseOp, WaitOp, Layers
  <2>1. gpu' \in [Workers -> [step : 1..MaxSteps + 1, op : 0..ReleaseOp]]
    BY <1>3, <2>0 DEF WaitDone, Advance, TypeOK
  <2> QED
    BY <1>3, <2>1 DEF WaitDone, TypeOK
<1>4. ASSUME NEW w \in Workers, NEW l \in Layers, Collective(w, l) PROVE GpuTypes'
  <2>0. gpu[w].op + 1 \in 0..ReleaseOp
    BY <1>4, ConstantsAssumption DEF Collective, At, ReleaseOp, CollectiveOp, Layers
  <2>1. gpu' \in [Workers -> [step : 1..MaxSteps + 1, op : 0..ReleaseOp]]
    BY <1>4, <2>0 DEF Collective, Advance, TypeOK
  <2> QED
    BY <1>4, <2>1 DEF Collective, TypeOK
<1>5. ASSUME NEW w \in Workers, Release(w) PROVE GpuTypes'
  <2>1. gpu' \in [Workers -> [step : 1..MaxSteps + 1, op : 0..ReleaseOp]]
    BY <1>5, ConstantsAssumption DEF Release, At, TypeOK, HostTypes, ReleaseOp
  <2>2. flag' \in [Workers -> [Layers -> {0, 1}]]
    BY <1>5 DEF Release, TypeOK
  <2> QED
    BY <1>5, <2>1, <2>2 DEF Release, TypeOK
<1>6. ASSUME NEW w \in Workers, NEW l \in Layers, CopyStep(w, l) PROVE GpuTypes'
  <2>1. CASE WaitReset(w, l)
    BY <2>1 DEF WaitReset, gpuVars, TypeOK
  <2>2. CASE CopyToGpu(w, l)
    <3>1. pinned[w[1]][l] \in Content
      BY WorkerParts DEF TypeOK, CpuTypes
    <3>2. outBuf' \in [Workers -> [Layers -> Content]]
      BY <2>2, <3>1 DEF CopyToGpu, TypeOK
    <3> QED
      BY <2>2, <3>2 DEF CopyToGpu, TypeOK
  <2>3. CASE Signal(w, l)
    BY <2>3 DEF Signal, TypeOK
  <2> QED
    BY <1>6, <2>1, <2>2, <2>3 DEF CopyStep
<1>7. CASE UNCHANGED gpuVars
  BY <1>7 DEF gpuVars, TypeOK
<1> QED
  BY <1>1, <1>2, <1>3, <1>4, <1>5, <1>6, <1>7, HostFrame, RequestFrame, CpuFrame
  DEF Next, GpuStep, vars

LEMMA RequestTypesStep ==
  ASSUME TypeOK, EventsAccounted, RequestsOrdered, [Next]_vars
  PROVE  RequestTypes' /\ EventsAccounted'
<1>0. ASSUME NEW d \in DPRanks, LaunchRequest(d)
      PROVE  launched[Leader(d)] + 1 \in Steps
  <2>1. Real(d, launched[Leader(d)] + 1)
    BY <1>0 DEF LaunchRequest
  <2> QED
    BY <2>1 DEF Real
<1> USE ConstantsAssumption DEF RequestTypes, EventsAccounted
<1>1. ASSUME NEW d \in DPRanks, LaunchRequest(d)
      PROVE  RequestTypes' /\ EventsAccounted'
  <2>1. launched[Leader(d)] + 1 \in Steps
    BY <1>0, <1>1, Zenon
  <2>2. queue' \in [DPRanks -> Seq(Steps)]
    BY <1>1, <2>1 DEF LaunchRequest, TypeOK
  <2>3. Len(queue'[d]) = Len(queue[d]) + 1
    BY <1>1, <2>1 DEF LaunchRequest, TypeOK
  <2>4. pool' \in [DPRanks -> 0..MaxConcurrentBatches]
    BY <1>1 DEF LaunchRequest, TypeOK
  <2>5. EventsAccounted'
    <3> SUFFICES ASSUME NEW e \in DPRanks
                 PROVE  pool'[e] + Len(queue'[e])
                          + (IF thread'[e].pc = "idle" THEN 0 ELSE 1)
                            = MaxConcurrentBatches
      OBVIOUS
    <3>1. pool[e] \in Nat /\ Len(queue[e]) \in Nat /\ thread' = thread
      BY <1>1 DEF TypeOK, LaunchRequest
    <3>2. CASE e = d
      <4>1. pool'[d] = pool[d] - 1
        BY <1>1 DEF LaunchRequest, TypeOK
      <4> QED
        BY <2>3, <3>1, <3>2, <4>1
    <3>3. CASE e # d
      <4>1. pool'[e] = pool[e] /\ queue'[e] = queue[e]
        BY <1>1, <3>3 DEF LaunchRequest, TypeOK
      <4> QED
        BY <3>1, <4>1
    <3> QED
      BY <3>2, <3>3
  <2>6. thread' = thread /\ socket' = socket
    BY <1>1 DEF LaunchRequest
  <2> QED
    BY <2>2, <2>4, <2>5, <2>6 DEF TypeOK
<1>2. ASSUME NEW d \in DPRanks, TakeRequest(d)
      PROVE  RequestTypes' /\ EventsAccounted'
  <2>1. /\ queue' \in [DPRanks -> Seq(Steps)]
        /\ Len(queue'[d]) = Len(queue[d]) - 1
        /\ Head(queue[d]) \in Steps
    BY <1>2 DEF TakeRequest, TypeOK
  <2>2. thread' \in [DPRanks -> [pc : {"idle", "waiting", "published"},
                                 step : 0..MaxSteps]]
    BY <1>2, <2>1 DEF TakeRequest, TypeOK, Steps
  <2>3. \A e \in DPRanks : e # d => queue'[e] = queue[e] /\ thread'[e] = thread[e]
    BY <1>2 DEF TakeRequest, TypeOK
  <2>4. thread[d].pc = "idle" /\ thread'[d].pc = "waiting" /\ pool' = pool
    BY <1>2 DEF TakeRequest, TypeOK
  <2>5. EventsAccounted'
    <3> SUFFICES ASSUME NEW e \in DPRanks
                 PROVE  pool'[e] + Len(queue'[e])
                          + (IF thread'[e].pc = "idle" THEN 0 ELSE 1)
                            = MaxConcurrentBatches
      OBVIOUS
    <3>1. pool[e] \in Nat /\ Len(queue[e]) \in Nat
      BY DEF TypeOK
    <3>2. CASE e = d
      BY <2>1, <2>4, <3>1, <3>2
    <3>3. CASE e # d
      BY <2>3, <2>4, <3>3
    <3> QED
      BY <3>2, <3>3
  <2> QED
    BY <1>2, <2>1, <2>2, <2>5 DEF TakeRequest, TypeOK
<1>3. ASSUME NEW d \in DPRanks, PublishRequest(d)
      PROVE  RequestTypes' /\ EventsAccounted'
  <2>1. thread' \in [DPRanks -> [pc : {"idle", "waiting", "published"},
                                 step : 0..MaxSteps]]
    BY <1>3 DEF PublishRequest, TypeOK
  <2>2. thread[d].step \in Steps
    BY <1>3 DEF PublishRequest, RequestsOrdered, Unpublished, Real
  <2>3. socket' \in Seq(Requests)
    <3>1. [dp |-> d, step |-> thread[d].step] \in Requests
      BY <2>2 DEF Requests
    <3> QED
      BY <1>3, <3>1 DEF PublishRequest, TypeOK
  <2>4. /\ queue' = queue /\ pool' = pool
        /\ \A e \in DPRanks : thread'[e].pc = "idle" <=> thread[e].pc = "idle"
    BY <1>3 DEF PublishRequest, TypeOK
  <2>5. EventsAccounted'
    BY <2>4
  <2> QED
    BY <2>1, <2>3, <2>4, <2>5 DEF TypeOK
<1>4. ASSUME NEW d \in DPRanks, ReturnEvent(d)
      PROVE  RequestTypes' /\ EventsAccounted'
  <2>1. thread' \in [DPRanks -> [pc : {"idle", "waiting", "published"},
                                 step : 0..MaxSteps]]
    BY <1>4 DEF ReturnEvent, TypeOK, Idle
  <2>2. pool[d] < MaxConcurrentBatches
    <3>1. pool[d] \in Nat /\ Len(queue[d]) \in Nat
      BY DEF TypeOK
    <3> QED
      BY <1>4, <3>1 DEF ReturnEvent
  <2>3. pool' \in [DPRanks -> 0..MaxConcurrentBatches]
    BY <1>4, <2>2 DEF ReturnEvent, TypeOK
  <2>4. EventsAccounted'
    <3> SUFFICES ASSUME NEW e \in DPRanks
                 PROVE  pool'[e] + Len(queue'[e])
                          + (IF thread'[e].pc = "idle" THEN 0 ELSE 1)
                            = MaxConcurrentBatches
      OBVIOUS
    <3>1. pool[e] \in Nat /\ Len(queue[e]) \in Nat
      BY DEF TypeOK
    <3>2. CASE e = d
      <4>1. /\ pool'[e] = pool[e] + 1 /\ queue'[e] = queue[e]
            /\ thread[e].pc = "published" /\ thread'[e].pc = "idle"
        BY <1>4, <3>2 DEF ReturnEvent, TypeOK, Idle
      <4> QED
        BY <3>1, <4>1
    <3>3. CASE e # d
      BY <1>4, <3>3 DEF ReturnEvent, TypeOK
    <3> QED
      BY <3>2, <3>3
  <2> QED
    BY <1>4, <2>1, <2>3, <2>4 DEF ReturnEvent, TypeOK
<1>5. CASE CpuStep
  <2>1. CASE Receive
    BY <2>1 DEF Receive, TypeOK, reqVars
  <2>2. CASE UNCHANGED <<reqVars, socket>>
    BY <2>2 DEF reqVars, TypeOK
  <2> QED
    BY <1>5, <2>1, <2>2, CpuFrame
    DEF CpuStep, Drained, SyncTargets, ComputeLayer
<1>6. CASE UNCHANGED <<reqVars, socket>>
  BY <1>6 DEF reqVars, TypeOK
<1>7. ASSUME NEW w \in Workers, HostStep(w)
      PROVE  RequestTypes' /\ EventsAccounted'
  BY <1>1, <1>6, <1>7, WorkerParts
  DEF HostStep, LaunchQuietly, LaunchRaises
<1>8. ASSUME NEW d \in DPRanks, RequestStep(d)
      PROVE  RequestTypes' /\ EventsAccounted'
  BY <1>2, <1>3, <1>4, <1>8 DEF RequestStep
<1> QED
  BY <1>5, <1>6, <1>7, <1>8, GpuFrame, CopyFrame DEF Next, vars

\* The workers of the current request, and what a batch op does to the streams.
LEMMA TargetWorkers ==
  ASSUME TypeOK, index \in DOMAIN batch
  PROVE  /\ CurrentRequest.dp \in DPRanks
         /\ CurrentRequest.step \in Steps
         /\ CurrentRequest = batch[index]
         /\ \A w \in Workers : w \in Targets <=> w[1] = CurrentRequest.dp
<1>1. batch[index] \in Requests
  BY DEF TypeOK, CpuTypes
<1> QED
  BY <1>1, WorkerParts DEF CurrentRequest, Targets, Requests

LEMMA ExtendedStreams ==
  ASSUME TypeOK, NEW ops, copyQ' = OnCopyStreams(ops),
         NEW w \in Workers, NEW l \in Layers
  PROVE  copyQ'[w][l] = IF w \in Targets /\ l = layer THEN copyQ[w][l] \o ops
                        ELSE copyQ[w][l]
BY DEF OnCopyStreams

LEMMA StreamTypes ==
  ASSUME TypeOK,
         NEW ops \in {Pending, Delivering}
  PROVE  OnCopyStreams(ops)
           \in [Workers -> [Layers -> Seq({"wait_reset", "copy", "signal"})]]
<1> DEFINE Ops == {"wait_reset", "copy", "signal"}
<1>1. ops \in Seq(Ops)
  <2>1. CASE ops = Pending
    BY <2>1 DEF Pending
  <2>2. CASE ops = Delivering
    BY <2>2 DEF Delivering
  <2> QED
    BY <2>1, <2>2
<1>2. \A w \in Workers : \A l \in Layers : copyQ[w][l] \in Seq(Ops)
  BY DEF TypeOK, CpuTypes
<1> HIDE DEF Ops
<1>3. \A w \in Workers : \A l \in Layers : copyQ[w][l] \o ops \in Seq(Ops)
  BY <1>1, <1>2, ConcatProperties
<1>4. OnCopyStreams(ops) \in [Workers -> [Layers -> Seq(Ops)]]
  BY <1>2, <1>3 DEF OnCopyStreams
<1> QED
  BY <1>4 DEF Ops

LEMMA CpuTypesStep ==
  ASSUME TypeOK, Syncing, [Next]_vars
  PROVE  CpuTypes'
<1> DEFINE Ops == {"wait_reset", "copy", "signal"}
<1> USE DEF CpuTypes
<1>1. ASSUME NEW w \in Workers, NEW l \in Layers, CopyStep(w, l) PROVE CpuTypes'
  <2>1. copyQ[w][l] # << >> /\ copyQ[w][l] \in Seq(Ops)
        /\ copyQ' = [copyQ EXCEPT ![w][l] = Tail(@)]
    BY <1>1 DEF CopyStep, WaitReset, CopyToGpu, Signal, HeadOp, PopOp, TypeOK
  <2>2. Tail(copyQ[w][l]) \in Seq(Ops)
    BY <2>1
  <2>3. copyQ' \in [Workers -> [Layers -> Seq(Ops)]]
    BY <2>1, <2>2 DEF TypeOK
  <2> QED
    BY <1>1, <2>3, CopyFrame DEF TypeOK, cpuVars
<1>2. CASE Receive
  <2>1. Head(socket) \in Requests
    BY <1>2 DEF Receive, TypeOK, RequestTypes
  <2>2. batch' \in Seq(Requests)
    BY <1>2, <2>1 DEF Receive, TypeOK
  <2> QED
    BY <1>2, <2>2 DEF Receive, TypeOK
<1>3. CASE Drained
  BY <1>3 DEF Drained, TypeOK
<1>4. CASE SyncTargets
  <2>1. copyQ' \in [Workers -> [Layers -> Seq(Ops)]]
    BY <1>4, StreamTypes DEF SyncTargets, Pending
  <2> QED
    BY <1>4, <2>1 DEF SyncTargets, TypeOK
<1>5. CASE ComputeLayer
  <2>1. copyQ' \in [Workers -> [Layers -> Seq(Ops)]]
    BY <1>5, StreamTypes DEF ComputeLayer, Delivering
  <2>2. index \in DOMAIN batch
    BY <1>5 DEF ComputeLayer, Syncing
  <2>3. inBuf[CurrentRequest.dp] \in Content
    BY <2>2, TargetWorkers DEF TypeOK, GpuTypes
  <2>4. pinned' \in [DPRanks -> [Layers -> Content]]
    BY <1>5, <2>3 DEF ComputeLayer, TypeOK
  <2>5. /\ phase' \in {"receive", "sync", "compute"}
        /\ batch' = batch \/ batch' = << >>
    BY <1>5 DEF ComputeLayer, NextPair
  <2>8. batch' \in Seq(Requests)
    <3>1. CASE batch' = batch
      BY <3>1 DEF TypeOK
    <3>2. CASE batch' = << >>
      BY <3>2
    <3> QED
      BY <2>5, <3>1, <3>2
  <2>6. layer' \in Layers
    BY <1>5, ConstantsAssumption DEF ComputeLayer, NextPair, TypeOK, Layers
  <2>7. index' \in Nat \ {0}
    BY <1>5 DEF ComputeLayer, NextPair, TypeOK
  <2> QED
    BY <2>1, <2>4, <2>5, <2>6, <2>7, <2>8
<1>6. CASE UNCHANGED <<cpuVars, copyQ>>
  BY <1>6 DEF cpuVars, TypeOK
<1> QED
  BY <1>1, <1>2, <1>3, <1>4, <1>5, <1>6, HostFrame, RequestFrame, GpuFrame
  DEF Next, CpuStep, vars

\* Every step keeps every variable typed.
LEMMA TypeStep ==
  ASSUME TypeOK, EventsAccounted, Syncing, RequestsOrdered, [Next]_vars
  PROVE  TypeOK' /\ EventsAccounted'
BY HostTypesStep, GpuTypesStep, RequestTypesStep, CpuTypesStep DEF TypeOK

-----------------------------------------------------------------------------
(* The positions of the model streams.                                     *)

\* What the ops of a step are, in one place: an op moves its own worker from
\* one op to the next, or from the release of a step to the next step.
Moves(w) ==
  /\ gpu[w].step <= launched[w]
  /\ \A v \in Workers : v # w => gpu'[v] = gpu[v]
  /\ \/ /\ gpu[w].op < ReleaseOp
        /\ gpu'[w].step = gpu[w].step
        /\ gpu'[w].op = gpu[w].op + 1
     \/ /\ gpu[w].op = ReleaseOp
        /\ gpu'[w].step = gpu[w].step + 1
        /\ gpu'[w].op = 0

LEMMA GpuMoves ==
  ASSUME TypeOK, NEW w \in Workers, GpuStep(w)
  PROVE  Moves(w)
<1> USE ConstantsAssumption DEF TypeOK, GpuTypes
<1>1. CASE Release(w)
  BY <1>1 DEF Release, At, Moves
<1>2. ASSUME At(w, gpu[w].op), gpu[w].op < ReleaseOp, Advance(w) PROVE Moves(w)
  BY <1>2 DEF At, Advance, Moves
<1>3. CASE StageReal(w) \/ StageDummy(w)
  BY <1>2, <1>3 DEF StageReal, StageDummy, At, ReleaseOp
<1>4. ASSUME NEW l \in Layers, WaitDone(w, l) \/ Collective(w, l) PROVE Moves(w)
  BY <1>2, <1>4
  DEF WaitDone, Collective, At, ReleaseOp, WaitOp, CollectiveOp, Layers
<1> QED
  BY <1>1, <1>3, <1>4 DEF GpuStep

\* An op is passed by its own worker, and never taken back.
LEMMA Passing ==
  ASSUME TypeOK, NEW w \in Workers, Moves(w), NEW v \in Workers,
         NEW s \in 1..MaxSteps + 1, NEW k \in 1..ReleaseOp
  PROVE  /\ Reached(v, s, k) => Reached(v, s, k)'
         /\ Reached(v, s, k)' /\ ~ Reached(v, s, k) =>
              v = w /\ gpu[w].step = s /\ gpu[w].op = k - 1
<1>1. /\ gpu[v].step \in Nat /\ gpu[v].op \in Nat /\ gpu[v].op <= ReleaseOp
      /\ ReleaseOp \in Nat
  BY ConstantsAssumption DEF TypeOK, GpuTypes, ReleaseOp
<1>2. CASE v # w
  <2>1. gpu'[v] = gpu[v]
    BY <1>2 DEF Moves
  <2> QED
    BY <2>1 DEF Reached
<1>3. CASE v = w
  BY <1>1, <1>3 DEF Moves, Reached
<1> QED
  BY <1>2, <1>3

LEMMA PositionsStep ==
  ASSUME TypeOK, Positions, [Next]_vars
  PROVE  Positions'
<1>1. ASSUME NEW w \in Workers, HostStep(w) PROVE Positions'
  <2>1. \A v \in Workers : launched'[v] >= launched[v]
    BY <1>1, RankWorkers, WorkerParts
    DEF HostStep, LaunchQuietly, LaunchRequest, LaunchRaises, TypeOK, HostTypes
  <2>2. launched' \in [Workers -> 0..MaxSteps] /\ gpu' = gpu
    BY <1>1, HostTypesStep, HostFrame DEF TypeOK, HostTypes, gpuVars, Next
  <2> QED
    BY <2>1, <2>2 DEF Positions, TypeOK, HostTypes, GpuTypes
<1>2. ASSUME NEW w \in Workers, GpuStep(w) PROVE Positions'
  <2>1. Moves(w) /\ launched' = launched
    BY <1>2, GpuMoves, GpuFrame DEF hostVars
  <2> QED
    BY <2>1, ConstantsAssumption
    DEF Moves, Positions, TypeOK, HostTypes, GpuTypes, ReleaseOp
<1>3. CASE UNCHANGED <<gpu, launched>>
  BY <1>3 DEF Positions
<1> QED
  BY <1>1, <1>2, <1>3, RequestFrame, CpuFrame, CopyFrame
  DEF Next, vars, gpuVars, hostVars

LEMMA LockstepStep ==
  ASSUME TypeOK, Lockstep, [Next]_vars
  PROVE  Lockstep'
<1> USE DEF TypeOK, GpuTypes
<1>1. ASSUME NEW w \in Workers, GpuStep(w) PROVE Lockstep'
  <2> SUFFICES ASSUME NEW d \in DPRanks, NEW t \in TPRanks, NEW u \in TPRanks,
                      NEW s \in 1..MaxSteps + 1, NEW l \in Layers,
                      Reached(<<d, t>>, s, CollectiveOp(l) + 1)',
                      ~ Reached(<<d, u>>, s, CollectiveOp(l))'
               PROVE  FALSE
    BY DEF Lockstep
  <2>1. Moves(w)
    BY <1>1, GpuMoves
  <2>2. <<d, t>> \in Workers /\ <<d, u>> \in Workers
    BY RankWorkers
  <2>3. CollectiveOp(l) \in 1..ReleaseOp /\ CollectiveOp(l) + 1 \in 1..ReleaseOp
    BY ConstantsAssumption DEF CollectiveOp, ReleaseOp, Layers
  <2>4. ~ Reached(<<d, u>>, s, CollectiveOp(l))
    BY <2>1, <2>2, <2>3, Passing
  <2>5. ~ Reached(<<d, t>>, s, CollectiveOp(l) + 1)
    BY <2>4 DEF Lockstep
  <2>7. /\ w = <<d, t>> /\ gpu[w].step = s
        /\ gpu[w].op = CollectiveOp(l)
    <3>1. /\ <<d, t>> = w /\ gpu[w].step = s
          /\ gpu[w].op = (CollectiveOp(l) + 1) - 1
      BY <2>1, <2>2, <2>3, <2>5, Passing
    <3> QED
      BY <3>1, <2>3 DEF ReleaseOp
  <2>6. Collective(w, l)
    <3>1. /\ ~ StageReal(w) /\ ~ StageDummy(w) /\ ~ Release(w)
      BY <2>7, ConstantsAssumption
      DEF StageReal, StageDummy, Release, At, CollectiveOp, ReleaseOp, Layers
    <3>2. PICK m \in Layers : WaitDone(w, m) \/ Collective(w, m)
      BY <1>1, <3>1 DEF GpuStep
    <3>3. ~ WaitDone(w, m)
      BY <2>7, ConstantsAssumption
      DEF WaitDone, At, WaitOp, CollectiveOp, Layers
    <3>4. Collective(w, m) /\ m = l
      BY <2>7, <3>2, <3>3, ConstantsAssumption
      DEF Collective, At, CollectiveOp, Layers
    <3> QED
      BY <3>4
  <2> QED
    BY <2>4, <2>6, <2>7, <2>2 DEF Collective
<1>2. CASE UNCHANGED gpu
  BY <1>2 DEF Lockstep, Reached
<1> QED
  BY <1>1, <1>2, HostFrame, RequestFrame, CpuFrame, CopyFrame
  DEF Next, vars, gpuVars

\* A rank is at most one step behind or ahead of its leader, and then the one
\* that is behind has passed every wait of its step.
LEMMA Together ==
  ASSUME TypeOK, Lockstep, NEW w \in Workers
  PROVE  /\ gpu[w].step \in CurrentStep(w[1]) - 1..CurrentStep(w[1]) + 1
         /\ gpu[w].step = CurrentStep(w[1]) - 1 =>
              gpu[w].op >= CollectiveOp(NumLayers)
         /\ gpu[w].step = CurrentStep(w[1]) + 1 =>
              gpu[Leader(w[1])].op >= CollectiveOp(NumLayers)
<1> DEFINE d == w[1]
           cs == CurrentStep(d)
           c == gpu[w].step
           last == CollectiveOp(NumLayers)
<1>1. /\ d \in DPRanks /\ w[2] \in TPRanks /\ 0 \in TPRanks
      /\ w = <<d, w[2]>> /\ Leader(d) = <<d, 0>> /\ Leader(d) \in Workers
      /\ NumLayers \in Layers
  BY WorkerParts, RankWorkers, ConstantsAssumption DEF Leader, Layers
<1>2. cs \in 1..MaxSteps + 1 /\ c \in 1..MaxSteps + 1 /\ cs = gpu[Leader(d)].step
  BY <1>1 DEF CurrentStep, TypeOK, GpuTypes
<1>3. ASSUME NEW s \in 1..MaxSteps + 1
      PROVE  /\ Reached(<<d, w[2]>>, s, last + 1) => Reached(<<d, 0>>, s, last)
             /\ Reached(<<d, 0>>, s, last + 1) => Reached(<<d, w[2]>>, s, last)
  BY <1>1 DEF Lockstep
<1>4. ASSUME NEW s \in 1..MaxSteps + 1
      PROVE  /\ c > s => cs > s \/ (cs = s /\ gpu[Leader(d)].op >= last)
             /\ cs > s => c > s \/ (c = s /\ gpu[w].op >= last)
  BY <1>1, <1>2, <1>3 DEF Reached
<1> HIDE DEF d, cs, c, last
<1>5. c > 1 => c - 1 \in 1..MaxSteps + 1
  BY <1>2, ConstantsAssumption
<1>6. cs > 1 => cs - 1 \in 1..MaxSteps + 1
  BY <1>2, ConstantsAssumption
<1>7. /\ c > 1 => cs > c - 1 \/ (cs = c - 1 /\ gpu[Leader(d)].op >= last)
      /\ cs > 1 => c > cs - 1 \/ (c = cs - 1 /\ gpu[w].op >= last)
  BY <1>2, <1>4, <1>5, <1>6
<1> QED
  BY <1>2, <1>7 DEF d, cs, c, last

-----------------------------------------------------------------------------
(* What the invariant says of a step that is not computed yet.             *)

LEMMA LayerOps ==
  ASSUME NEW l \in Layers
  PROVE  /\ NumLayers \in Layers /\ NumLayers \in Nat /\ l \in Nat
         /\ WaitOp(l) \in Nat /\ WaitOp(l) >= 1
         /\ WaitOp(l) < CollectiveOp(l)
         /\ CollectiveOp(l) <= CollectiveOp(NumLayers)
         /\ WaitOp(l) <= WaitOp(NumLayers)
         /\ CollectiveOp(NumLayers) < ReleaseOp
         /\ ReleaseOp \in Nat /\ CollectiveOp(NumLayers) \in Nat
         /\ CollectiveOp(l) \in Nat
BY ConstantsAssumption DEF Layers, WaitOp, CollectiveOp, ReleaseOp

LEMMA GpuPosition ==
  ASSUME TypeOK, NEW w \in Workers
  PROVE  /\ gpu[w].step \in 1..MaxSteps + 1
         /\ gpu[w].op \in 0..ReleaseOp
         /\ CurrentStep(w[1]) \in 1..MaxSteps + 1
         /\ CurrentStep(w[1]) = gpu[Leader(w[1])].step
         /\ gpu[Leader(w[1])].op \in 0..ReleaseOp
BY WorkerParts DEF TypeOK, GpuTypes, CurrentStep

LEMMA PinnedType ==
  ASSUME TypeOK, NEW d \in DPRanks, NEW l \in Layers
  PROVE  pinned[d][l] \in Int
BY ConstantsAssumption DEF TypeOK, CpuTypes, Content, Garbage, Zeros, Steps

\* While layer l of the current step is to be computed, no rank is past its
\* wait: each has still to wait, or holds the result of the step before.
LEMMA Uncomputed ==
  ASSUME IInv, NEW w \in Workers, NEW l \in Layers,
         Real(w[1], CurrentStep(w[1])),
         pinned[w[1]][l] < CurrentStep(w[1])
  PROVE  \/ gpu[w].step = CurrentStep(w[1]) /\ gpu[w].op <= WaitOp(l)
         \/ gpu[w].step = CurrentStep(w[1]) - 1 /\ gpu[w].op > WaitOp(l)
<1> DEFINE d == w[1]
<1>1. TypeOK /\ Lockstep /\ Slots
  BY DEF IInv
<1>2. d \in DPRanks /\ Leader(d) \in Workers /\ Leader(d)[1] = d
  BY WorkerParts, RankWorkers
<1>3. ASSUME NEW v \in Workers, v[1] = d, gpu[v].step = CurrentStep(d)
      PROVE  gpu[v].op <= WaitOp(l)
  <2>1. ~ Holding(v, l)
    BY <1>1, <1>2, <1>3, PinnedType, GpuPosition DEF Holding
  <2>2. Slot(v, l)
    BY <1>1 DEF Slots
  <2> QED
    BY <1>1, <2>1, <2>2, GpuPosition, LayerOps DEF Slot
<1>4. gpu[Leader(d)].op <= WaitOp(l)
  BY <1>2, <1>3 DEF CurrentStep
<1>5. gpu[w].step # CurrentStep(d) + 1
  BY <1>1, <1>4, Together, LayerOps, GpuPosition
<1> HIDE DEF d
<1> QED
  BY <1>1, <1>3, <1>5, Together, LayerOps, GpuPosition DEF d

\* The request that is still to be read is the one of the current step, and
\* the leader has not passed the last wait.
LEMMA UnreadRequest ==
  ASSUME IInv, NEW d \in DPRanks, Unread(d)
  PROVE  /\ Real(d, CurrentStep(d))
         /\ gpu[Leader(d)].op > 0
         /\ gpu[Leader(d)].op <= WaitOp(NumLayers)
         /\ pinned[d][NumLayers] < CurrentStep(d)
<1>1. TypeOK /\ RequestsFresh
  BY DEF IInv
<1>2. NumLayers \in Layers /\ layer \in Layers /\ NumLayers \in Nat
  BY <1>1, ConstantsAssumption DEF TypeOK, CpuTypes, Layers
<1> DEFINE Waiting == /\ Real(d, CurrentStep(d)) /\ gpu[Leader(d)].op > 0
                      /\ pinned[d][NumLayers] < CurrentStep(d)
<1>3. Waiting
  <2>1. ASSUME NEW i \in DOMAIN socket, socket[i].dp = d
        PROVE  Waiting
    BY <1>1, <1>2, <2>1 DEF RequestsFresh, Fresh
  <2>2. ASSUME NEW i \in DOMAIN batch, batch[i].dp = d,
               layer < NumLayers \/ index <= i
        PROVE  Waiting
    <3>1. ToDo(i, NumLayers)
      BY <1>1, <1>2, <2>2 DEF ToDo, TypeOK, CpuTypes, Layers
    <3> QED
      BY <1>1, <1>2, <2>2, <3>1 DEF RequestsFresh, Fresh
  <2> QED
    BY <2>1, <2>2 DEF Unread
<1>4. Leader(d) \in Workers /\ Leader(d)[1] = d
  BY RankWorkers
<1>5. gpu[Leader(d)].op <= WaitOp(NumLayers)
  BY <1>1, <1>2, <1>3, <1>4, Uncomputed, GpuPosition DEF CurrentStep
<1> QED
  BY <1>3, <1>5

\* Its inputs are in the shared buffers.
LEMMA UnreadInputs ==
  ASSUME IInv, NEW d \in DPRanks, Unread(d)
  PROVE  inBuf[d] = CurrentStep(d)
BY UnreadRequest, RankWorkers, GpuPosition
DEF IInv, InputsStaged, Staged, Reached, CurrentStep
=============================================================================
