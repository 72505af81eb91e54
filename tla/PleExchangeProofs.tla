------------------------- MODULE PleExchangeProofs -------------------------
(***************************************************************************)
(* IInv is an inductive invariant of PleExchange, for any number of ranks, *)
(* layers, steps and concurrent batches.  One lemma for every actor shows  *)
(* that its steps keep the parts of IInv; the buffer properties follow.    *)
(***************************************************************************)
EXTENDS PleExchangeLemmas, DataLemmas

\* The parts of IInv that TypeStep, PositionsStep and LockstepStep leave open.
Rest == /\ InputsStaged /\ ComputedSteps /\ Slots /\ Syncing
        /\ RequestsFresh /\ RequestsDistinct /\ RequestsOrdered

-----------------------------------------------------------------------------
(* What each part depends on.                                              *)

LEMMA SlotFrame ==
  ASSUME NEW w \in Workers, NEW l \in Layers, Slot(w, l),
         gpu'[w] = gpu[w], flag'[w][l] = flag[w][l], kind' = kind,
         outBuf'[w][l] = outBuf[w][l], copyQ'[w][l] = copyQ[w][l],
         pinned'[w[1]][l] = pinned[w[1]][l]
  PROVE  Slot(w, l)'
BY DEF Slot, Holding, Expecting, Undisturbed, Real

\* Unpublished(d, s) after the step, for the step number s of before.
StaysUnpublished(d, s) ==
  /\ s \in Steps /\ kind'[d][s] = "real"
  /\ CurrentStep(d)' <= s /\ s <= launched'[Leader(d)]
  /\ Unread(d)' => CurrentStep(d)' < s
  /\ \A l \in Layers : pinned'[d][l] < s

LEMMA OrderedNext ==
  ASSUME \A d \in DPRanks :
           /\ \A i \in DOMAIN queue'[d] : StaysUnpublished(d, queue'[d][i])
           /\ \A i, j \in DOMAIN queue'[d] : i < j => queue'[d][i] < queue'[d][j]
           /\ thread'[d].pc = "waiting" =>
                /\ StaysUnpublished(d, thread'[d].step)
                /\ \A i \in DOMAIN queue'[d] : thread'[d].step < queue'[d][i]
  PROVE  RequestsOrdered'
<1>1. \A d \in DPRanks : \A s : StaysUnpublished(d, s) =>
        /\ s \in Steps /\ kind'[d][s] = "real"
        /\ CurrentStep(d)' <= s /\ s <= launched'[Leader(d)]
        /\ Unread(d)' => CurrentStep(d)' < s
        /\ \A l \in Layers : pinned'[d][l] < s
  BY DEF StaysUnpublished
<1> QED
  BY <1>1 DEF RequestsOrdered, Unpublished, Real

\* What the invariant says of the requests, with their types.
LEMMA OpenRequests ==
  ASSUME RequestsOrdered, NEW d \in DPRanks
  PROVE  /\ \A i \in DOMAIN queue[d] :
              queue[d][i] \in Steps /\ Unpublished(d, queue[d][i])
         /\ \A i, j \in DOMAIN queue[d] : i < j => queue[d][i] < queue[d][j]
         /\ thread[d].pc = "waiting" =>
              /\ thread[d].step \in Steps /\ Unpublished(d, thread[d].step)
              /\ \A i \in DOMAIN queue[d] : thread[d].step < queue[d][i]
BY DEF RequestsOrdered, Unpublished, Real

LEMMA BufferFrame ==
  ASSUME UNCHANGED <<gpuVars, cpuVars, copyQ, kind>>,
         InputsStaged, ComputedSteps, Slots, Syncing
  PROVE  (InputsStaged /\ ComputedSteps /\ Slots /\ Syncing)'
<1> USE DEF gpuVars, cpuVars
<1>1. InputsStaged' /\ ComputedSteps'
  BY DEF InputsStaged, ComputedSteps, Staged, Reached, Real, CurrentStep
<1>2. Slots'
  BY SlotFrame DEF Slots
<1>3. Syncing'
  BY DEF Syncing, Targets, CurrentRequest
<1> QED
  BY <1>1, <1>2, <1>3

LEMMA RequestFrames ==
  ASSUME UNCHANGED <<gpu, cpuVars, socket, kind>>,
         RequestsFresh, RequestsDistinct
  PROVE  (RequestsFresh /\ RequestsDistinct)'
BY DEF RequestsFresh, RequestsDistinct, Fresh, ToDo, Real, CurrentStep, cpuVars

\* Every request that is queued or waiting stays unpublished.
LEMMA OrderedFrame ==
  ASSUME RequestsOrdered, UNCHANGED <<queue, thread>>,
         \A d \in DPRanks : \A s \in Steps : Unpublished(d, s) => StaysUnpublished(d, s)
  PROVE  RequestsOrdered'
BY OpenRequests, OrderedNext

-----------------------------------------------------------------------------
(* The hosts.                                                              *)

LEMMA LaunchedStep ==
  ASSUME IInv, NEW d \in DPRanks, NEW s \in Steps, Real(d, s),
         s = launched[Leader(d)] + 1
  PROVE  /\ CurrentStep(d) <= s
         /\ Unread(d) => CurrentStep(d) < s
         /\ \A l \in Layers : pinned[d][l] < s
         /\ \A i \in DOMAIN queue[d] : queue[d][i] < s
         /\ thread[d].pc = "waiting" => thread[d].step < s
<1>1. TypeOK /\ Positions /\ ComputedSteps /\ RequestsOrdered
  BY DEF IInv
<1>2. /\ Leader(d) \in Workers
      /\ launched[Leader(d)] \in Nat /\ gpu[Leader(d)].step \in Nat
      /\ gpu[Leader(d)].op \in Nat
  BY <1>1, RankWorkers, GpuPosition DEF TypeOK, HostTypes, GpuTypes
<1>3. CurrentStep(d) <= s
  BY <1>1, <1>2 DEF Positions, CurrentStep
<1>4. Unread(d) => CurrentStep(d) < s
  BY <1>1, <1>2, UnreadRequest DEF Positions, CurrentStep
<1>5. ASSUME NEW l \in Layers PROVE pinned[d][l] < s
  <2>1. CASE pinned[d][l] = Garbage
    BY <2>1, <1>2 DEF Garbage
  <2>2. CASE Staged(d, pinned[d][l]) /\ pinned[d][l] \in Steps
    BY <1>1, <1>2, <2>2 DEF Staged, Reached, Positions, Steps
  <2> QED
    BY <1>1, <2>1, <2>2 DEF ComputedSteps, Real
<1>6. \A i \in DOMAIN queue[d] : queue[d][i] < s
  BY <1>1, <1>2 DEF RequestsOrdered, Unpublished, Real, Steps
<1>7. thread[d].pc = "waiting" => thread[d].step < s
  BY <1>1, <1>2 DEF RequestsOrdered, Unpublished, Real, Steps
<1> QED
  BY <1>3, <1>4, <1>5, <1>6, <1>7

LEMMA HostRest ==
  ASSUME IInv, TypeOK', NEW w \in Workers, HostStep(w)
  PROVE  Rest'
<1>1. TypeOK /\ RequestsOrdered
  BY DEF IInv
<1>2. UNCHANGED <<gpuVars, socket, cpuVars, copyQ, kind>>
  BY HostFrame DEF HostStep, LaunchQuietly, LaunchRequest, LaunchRaises
<1>3. (InputsStaged /\ ComputedSteps /\ Slots /\ Syncing)'
  BY <1>2, BufferFrame DEF IInv
<1>4. (RequestsFresh /\ RequestsDistinct)'
  BY <1>2, RequestFrames DEF IInv, gpuVars
<1>5. ASSUME NEW d \in DPRanks, NEW s \in Steps, Unpublished(d, s)
      PROVE  StaysUnpublished(d, s)
  <2>1. /\ launched[Leader(d)] \in Nat /\ launched'[Leader(d)] \in Nat
        /\ s \in Nat /\ Leader(d) \in Workers
    BY <1>1, RankWorkers DEF TypeOK, HostTypes, Steps
  <2>2. launched'[Leader(d)] >= launched[Leader(d)]
    <3>1. launched \in [Workers -> Nat]
      BY <1>1 DEF TypeOK, HostTypes
    <3>2. PICK v \in Workers : launched' = [launched EXCEPT ![v] = @ + 1] \/ launched' = launched
      BY WorkerParts, <2>1 DEF HostStep, LaunchQuietly, LaunchRequest, LaunchRaises
    <3> QED
      BY <2>1, <3>1, <3>2
  <2>3. Unread(d)' = Unread(d) /\ CurrentStep(d)' = CurrentStep(d)
    BY <1>2 DEF Unread, CurrentStep, cpuVars, gpuVars
  <2>4. s <= launched'[Leader(d)]
    BY <1>5, <2>1, <2>2 DEF Unpublished
  <2> QED
    BY <1>2, <1>5, <2>3, <2>4 DEF Unpublished, StaysUnpublished, Real, cpuVars
<1>6. CASE UNCHANGED <<queue, thread>>
  BY <1>1, <1>3, <1>4, <1>5, <1>6, OrderedFrame DEF Rest
<1>7. ASSUME NEW d \in DPRanks, LaunchRequest(d) PROVE RequestsOrdered'
  <2>0. launched[Leader(d)] + 1 \in Steps
    BY <1>1, <1>7, RankWorkers DEF LaunchRequest, MayLaunch, TypeOK, HostTypes, Steps
  <2>1. PICK s \in Steps : s = launched[Leader(d)] + 1
    BY <2>0
  <2>2. Real(d, s) /\ launched'[Leader(d)] = s /\ s \in Nat
    BY <1>1, <1>7, <2>1, RankWorkers DEF LaunchRequest, TypeOK, HostTypes, Steps
  <2>3. /\ thread' = thread
        /\ \A e \in DPRanks : e # d => queue'[e] = queue[e]
        /\ queue[d] \in Seq(Steps) /\ queue'[d] = Append(queue[d], s)
    BY <1>1, <1>7, <2>1 DEF LaunchRequest, TypeOK, RequestTypes
  <2>4. /\ DOMAIN queue'[d] = DOMAIN queue[d] \cup {Len(queue[d]) + 1}
        /\ \A i \in DOMAIN queue[d] :
             queue'[d][i] = queue[d][i] /\ i < Len(queue[d]) + 1 /\ i \in Nat
        /\ queue'[d][Len(queue[d]) + 1] = s
        /\ Len(queue[d]) + 1 \in Nat
    BY <2>1, <2>3
  <2>5. /\ \A i \in DOMAIN queue[d] : queue[d][i] < s
        /\ thread[d].pc = "waiting" => thread[d].step < s
    BY <2>1, <2>2, LaunchedStep
  <2>6. StaysUnpublished(d, s)
    <3>1. Unread(d)' = Unread(d) /\ CurrentStep(d)' = CurrentStep(d)
      BY <1>2 DEF Unread, CurrentStep, cpuVars, gpuVars
    <3>2. kind' = kind /\ pinned' = pinned
      BY <1>2 DEF cpuVars
    <3>3. /\ CurrentStep(d) <= s
          /\ Unread(d) => CurrentStep(d) < s
          /\ \A l \in Layers : pinned[d][l] < s
      BY <2>1, <2>2, LaunchedStep
    <3>4. kind'[d][s] = "real" /\ s <= launched'[Leader(d)]
      BY <2>2, <3>2 DEF Real
    <3> QED
      BY <3>1, <3>2, <3>3, <3>4 DEF StaysUnpublished
  <2>7. ASSUME NEW e \in DPRanks
        PROVE  /\ \A i \in DOMAIN queue'[e] : StaysUnpublished(e, queue'[e][i])
               /\ \A i, j \in DOMAIN queue'[e] : i < j => queue'[e][i] < queue'[e][j]
               /\ thread'[e].pc = "waiting" =>
                    /\ StaysUnpublished(e, thread'[e].step)
                    /\ \A i \in DOMAIN queue'[e] : thread'[e].step < queue'[e][i]
    <3>1. /\ \A i \in DOMAIN queue[e] : StaysUnpublished(e, queue[e][i])
          /\ thread[e].pc = "waiting" => StaysUnpublished(e, thread[e].step)
      BY <1>1, <1>5, OpenRequests
    <3>4. CASE e # d
      BY <1>1, <2>3, <3>1, <3>4, OpenRequests
    <3>5. CASE e = d
      <4>1. \A i \in DOMAIN queue'[d] : StaysUnpublished(d, queue'[d][i])
        BY <2>6, <2>4, <3>1, <3>5
      <4>2. ASSUME NEW i \in DOMAIN queue'[d], NEW j \in DOMAIN queue'[d], i < j
            PROVE  queue'[d][i] < queue'[d][j]
        <5>1. CASE j \in DOMAIN queue[d]
          <6>1. i \in DOMAIN queue[d]
            BY <2>3, <2>4, <4>2, <5>1
          <6> QED
            BY <1>1, <2>4, <4>2, <5>1, <6>1, OpenRequests
        <5>2. CASE j = Len(queue[d]) + 1
          <6>1. i \in DOMAIN queue[d]
            BY <2>4, <4>2, <5>2
          <6> QED
            BY <2>4, <2>5, <5>2, <6>1
        <5> QED
          BY <2>4, <5>1, <5>2
      <4>3. thread[d].pc = "waiting" =>
              \A i \in DOMAIN queue'[d] : thread[d].step < queue'[d][i]
        BY <1>1, <2>4, <2>5, OpenRequests
      <4> QED
        BY <2>3, <3>1, <3>5, <4>1, <4>2, <4>3
    <3> QED
      BY <3>4, <3>5
  <2> QED
    BY <2>7, OrderedNext
<1>8. w[1] \in DPRanks
  BY WorkerParts
<1> QED
  BY <1>3, <1>4, <1>6, <1>7, <1>8
  DEF HostStep, LaunchQuietly, LaunchRaises, reqVars, Rest

-----------------------------------------------------------------------------
(* The request threads.                                                    *)

LEMMA TakeRest ==
  ASSUME IInv, NEW d \in DPRanks, TakeRequest(d)
  PROVE  RequestsOrdered'
<1>1. TypeOK /\ RequestsOrdered
  BY DEF IInv
<1>2. UNCHANGED <<kind, launched, gpu, socket, batch, layer, index, pinned>>
  BY <1>1 DEF TakeRequest, hostVars, gpuVars, cpuVars
<1>3. ASSUME NEW e \in DPRanks, NEW s \in Steps, Unpublished(e, s)
      PROVE  StaysUnpublished(e, s)
  <2>1. Unread(e)' = Unread(e) /\ CurrentStep(e)' = CurrentStep(e)
    BY <1>2 DEF Unread, CurrentStep
  <2> QED
    BY <1>2, <1>3, <2>1 DEF Unpublished, StaysUnpublished, Real
<1>4. /\ queue[d] \in Seq(Steps) /\ queue[d] # << >>
      /\ queue'[d] = Tail(queue[d])
      /\ thread'[d].pc = "waiting" /\ thread'[d].step = queue[d][1]
      /\ \A e \in DPRanks : e # d => queue'[e] = queue[e] /\ thread'[e] = thread[e]
  BY <1>1 DEF TakeRequest, TypeOK, RequestTypes
<1>5. /\ 1 \in DOMAIN queue[d]
      /\ \A i \in DOMAIN queue'[d] :
           i + 1 \in DOMAIN queue[d] /\ queue'[d][i] = queue[d][i + 1] /\ 1 < i + 1
      /\ \A i, j \in DOMAIN queue'[d] : i < j => i + 1 < j + 1
  BY <1>4
<1> SUFFICES ASSUME NEW e \in DPRanks
             PROVE  /\ \A i \in DOMAIN queue'[e] : StaysUnpublished(e, queue'[e][i])
                    /\ \A i, j \in DOMAIN queue'[e] : i < j => queue'[e][i] < queue'[e][j]
                    /\ thread'[e].pc = "waiting" =>
                         /\ StaysUnpublished(e, thread'[e].step)
                         /\ \A i \in DOMAIN queue'[e] : thread'[e].step < queue'[e][i]
  BY OrderedNext
<1>6. CASE e # d
  BY <1>1, <1>3, <1>4, <1>6, OpenRequests
<1>7. CASE e = d
  <2>1. \A i \in DOMAIN queue[d] : StaysUnpublished(d, queue[d][i])
    BY <1>1, <1>3, OpenRequests
  <2>2. \A i, j \in DOMAIN queue[d] : i < j => queue[d][i] < queue[d][j]
    BY <1>1, OpenRequests
  <2>3. \A i \in DOMAIN queue'[d] : StaysUnpublished(d, queue'[d][i])
    BY <1>5, <2>1
  <2>4. \A i, j \in DOMAIN queue'[d] : i < j => queue'[d][i] < queue'[d][j]
    BY <1>5, <2>2
  <2>5. StaysUnpublished(d, thread'[d].step)
    BY <1>4, <1>5, <2>1
  <2>6. \A i \in DOMAIN queue'[d] : thread'[d].step < queue'[d][i]
    BY <1>4, <1>5, <2>2
  <2> QED
    BY <1>7, <2>3, <2>4, <2>5, <2>6
<1> QED
  BY <1>6, <1>7

\* The request that is published is the one of the current step, and the only
\* one of its rank that is still to be read.
LEMMA PublishedStep ==
  ASSUME IInv, NEW d \in DPRanks, PublishRequest(d)
  PROVE  /\ thread[d].step \in Steps
         /\ Real(d, thread[d].step)
         /\ thread[d].step = CurrentStep(d)
         /\ gpu[Leader(d)].op > 0
         /\ ~ Unread(d)
         /\ \A l \in Layers : pinned[d][l] < thread[d].step
<1>1. TypeOK /\ RequestsOrdered
  BY DEF IInv
<1>2. thread[d].step \in Steps /\ Unpublished(d, thread[d].step)
  BY <1>1, OpenRequests DEF PublishRequest
<1>3. CurrentStep(d) \in Nat /\ gpu[Leader(d)].op \in Nat
  BY <1>1, RankWorkers DEF CurrentStep, TypeOK, GpuTypes
<1>4. Reached(Leader(d), thread[d].step, 1)
  BY DEF PublishRequest, Staged
<1>5. thread[d].step = CurrentStep(d) /\ gpu[Leader(d)].op > 0
  BY <1>2, <1>3, <1>4 DEF Reached, CurrentStep, Unpublished, Steps
<1> QED
  BY <1>2, <1>3, <1>5 DEF Unpublished

LEMMA PublishRest ==
  ASSUME IInv, NEW d \in DPRanks, PublishRequest(d)
  PROVE  RequestsFresh' /\ RequestsDistinct' /\ RequestsOrdered'
<1>1. TypeOK /\ RequestsFresh /\ RequestsDistinct /\ RequestsOrdered
  BY DEF IInv
<1>2. UNCHANGED <<kind, launched, gpu, batch, layer, index, pinned, queue>>
  BY DEF PublishRequest, hostVars, gpuVars, cpuVars
<1>3. PICK r : r = [dp |-> d, step |-> thread[d].step]
  OBVIOUS
<1>4. r.dp = d /\ r.step = thread[d].step /\ r \in Requests
  BY <1>3, PublishedStep DEF Requests
<1>5. socket \in Seq(Requests) /\ socket' = Append(socket, r)
  BY <1>1, <1>3 DEF PublishRequest, TypeOK, RequestTypes
<1>6. /\ DOMAIN socket' = DOMAIN socket \cup {Len(socket) + 1}
      /\ \A i \in DOMAIN socket : socket'[i] = socket[i] /\ i # Len(socket) + 1
      /\ socket'[Len(socket) + 1] = r
  BY <1>4, <1>5
<1>7. /\ \A i \in DOMAIN socket : socket[i].dp # d
      /\ \A j \in DOMAIN batch : batch[j].dp = d => ~(layer < NumLayers \/ index <= j)
  BY PublishedStep DEF Unread
<1>8. Fresh(r) /\ \A l \in Layers : pinned[r.dp][l] < r.step
  BY <1>4, PublishedStep DEF Fresh
<1>9. \A i \in DOMAIN socket' :
        Fresh(socket'[i]) /\ \A l \in Layers : pinned[socket'[i].dp][l] < socket'[i].step
  BY <1>1, <1>6, <1>8 DEF RequestsFresh
<1>10. RequestsFresh'
  BY <1>1, <1>2, <1>9 DEF RequestsFresh, Fresh, ToDo, Real, CurrentStep
<1>11. RequestsDistinct'
  <2>1. \A i, j \in DOMAIN socket' : socket'[i].dp = socket'[j].dp => i = j
    BY <1>1, <1>4, <1>6, <1>7 DEF RequestsDistinct
  <2>2. \A i \in DOMAIN socket' : \A j \in DOMAIN batch :
          batch[j].dp = socket'[i].dp => ~(layer < NumLayers \/ index <= j)
    BY <1>1, <1>4, <1>6, <1>7 DEF RequestsDistinct
  <2> QED
    BY <1>1, <1>2, <2>1, <2>2 DEF RequestsDistinct
<1>12. ASSUME NEW e \in DPRanks, NEW s \in Steps, Unpublished(e, s),
              e # d \/ CurrentStep(d) < s
       PROVE  StaysUnpublished(e, s)
  <2>1. CurrentStep(e)' = CurrentStep(e)
    BY <1>2 DEF CurrentStep
  <2>2. e # d => Unread(e)' = Unread(e)
    BY <1>2, <1>4, <1>6 DEF Unread
  <2> QED
    BY <1>2, <1>12, <2>1, <2>2 DEF Unpublished, StaysUnpublished, Real
<1>13. RequestsOrdered'
  <2>1. /\ thread'[d].pc = "published"
        /\ \A e \in DPRanks : e # d => thread'[e] = thread[e]
        /\ thread[d].pc = "waiting"
    BY <1>1 DEF PublishRequest, TypeOK, RequestTypes
  <2> SUFFICES ASSUME NEW e \in DPRanks
               PROVE  /\ \A i \in DOMAIN queue[e] : StaysUnpublished(e, queue[e][i])
                      /\ \A i, j \in DOMAIN queue[e] : i < j => queue[e][i] < queue[e][j]
                      /\ thread'[e].pc = "waiting" =>
                           /\ StaysUnpublished(e, thread'[e].step)
                           /\ \A i \in DOMAIN queue[e] : thread'[e].step < queue[e][i]
    BY <1>2, OrderedNext
  <2>2. CASE e # d
    BY <1>1, <1>12, <2>1, <2>2, OpenRequests
  <2>3. CASE e = d
    <3>1. \A i \in DOMAIN queue[d] : CurrentStep(d) < queue[d][i]
      BY <1>1, <2>1, OpenRequests, PublishedStep
    <3> QED
      BY <1>1, <1>12, <2>1, <2>3, <3>1, OpenRequests
  <2> QED
    BY <2>2, <2>3
<1> QED
  BY <1>10, <1>11, <1>13

LEMMA ReturnRest ==
  ASSUME IInv, NEW d \in DPRanks, ReturnEvent(d)
  PROVE  RequestsOrdered'
<1>1. TypeOK /\ RequestsOrdered
  BY DEF IInv
<1>2. UNCHANGED <<kind, launched, gpu, socket, batch, layer, index, pinned, queue>>
  BY <1>1 DEF ReturnEvent, hostVars, gpuVars, cpuVars
<1>3. ASSUME NEW e \in DPRanks, NEW s \in Steps, Unpublished(e, s)
      PROVE  StaysUnpublished(e, s)
  <2>1. Unread(e)' = Unread(e) /\ CurrentStep(e)' = CurrentStep(e)
    BY <1>2 DEF Unread, CurrentStep
  <2> QED
    BY <1>2, <1>3, <2>1 DEF Unpublished, StaysUnpublished, Real
<1>4. /\ thread'[d].pc = "idle"
      /\ \A e \in DPRanks : e # d => thread'[e] = thread[e]
  BY <1>1 DEF ReturnEvent, TypeOK, RequestTypes, Idle
<1> QED
  BY <1>1, <1>2, <1>3, <1>4, OpenRequests, OrderedNext

LEMMA RequestRest ==
  ASSUME IInv, NEW d \in DPRanks, RequestStep(d)
  PROVE  Rest'
<1>1. UNCHANGED <<gpuVars, cpuVars, copyQ, kind>>
  BY RequestFrame DEF hostVars
<1>2. (InputsStaged /\ ComputedSteps /\ Slots /\ Syncing)'
  BY <1>1, BufferFrame DEF IInv
<1>3. CASE PublishRequest(d)
  BY <1>2, <1>3, PublishRest DEF Rest
<1>4. CASE TakeRequest(d) \/ ReturnEvent(d)
  <2>1. (RequestsFresh /\ RequestsDistinct)'
    BY <1>1, <1>4, RequestFrames DEF IInv, gpuVars, TakeRequest, ReturnEvent
  <2> QED
    BY <1>2, <1>4, <2>1, TakeRest, ReturnRest DEF Rest
<1> QED
  BY <1>3, <1>4 DEF RequestStep

-----------------------------------------------------------------------------
(* The model streams.                                                      *)

\* The request of this turn of the loop is still to be served at this layer.
LEMMA CurrentDue ==
  ASSUME IInv, phase # "receive"
  PROVE  /\ CurrentRequest.dp \in DPRanks
         /\ CurrentRequest.step = CurrentStep(CurrentRequest.dp)
         /\ Real(CurrentRequest.dp, CurrentStep(CurrentRequest.dp))
         /\ gpu[Leader(CurrentRequest.dp)].op > 0
         /\ pinned[CurrentRequest.dp][layer] < CurrentStep(CurrentRequest.dp)
         /\ Unread(CurrentRequest.dp)
         /\ index \in DOMAIN batch /\ layer \in Layers
         /\ \A w \in Workers : w \in Targets <=> w[1] = CurrentRequest.dp
<1>1. TypeOK /\ Syncing /\ RequestsFresh
  BY DEF IInv
<1>2. index \in DOMAIN batch /\ layer \in Layers /\ index \in Nat
  BY <1>1 DEF Syncing, TypeOK, CpuTypes
<1>3. ToDo(index, layer)
  BY <1>2 DEF ToDo
<1>4. Fresh(batch[index]) /\ pinned[batch[index].dp][layer] < batch[index].step
  BY <1>1, <1>2, <1>3 DEF RequestsFresh
<1>5. Unread(batch[index].dp)
  BY <1>2 DEF Unread
<1> QED
  BY <1>1, <1>2, <1>4, <1>5, TargetWorkers DEF Fresh, CurrentRequest

LEMMA PendingStep ==
  ASSUME IInv, NEW w \in Workers, NEW l \in Layers, copyQ[w][l] = Pending
  PROVE  /\ Real(w[1], CurrentStep(w[1]))
         /\ pinned[w[1]][l] < CurrentStep(w[1])
<1>1. phase = "compute" /\ w \in Targets /\ l = layer
  BY DEF IInv, Syncing
<1> QED
  BY <1>1, CurrentDue

\* A rank does not leave the step whose request is still to be read.
LEMMA UnreadStays ==
  ASSUME IInv, NEW w \in Workers, GpuStep(w), NEW d \in DPRanks, Unread(d)
  PROVE  CurrentStep(d)' = CurrentStep(d) /\ gpu'[Leader(d)].op > 0
<1>1. TypeOK /\ Moves(w) /\ Leader(d) \in Workers
  BY GpuMoves, RankWorkers DEF IInv
<1>2. gpu[Leader(d)].op > 0 /\ gpu[Leader(d)].op <= WaitOp(NumLayers)
  BY UnreadRequest
<1>3. gpu[Leader(d)].op \in Nat
  BY <1>1 DEF TypeOK, GpuTypes
<1>4. gpu[Leader(d)].op < ReleaseOp
  BY <1>2, <1>3, ConstantsAssumption DEF WaitOp, ReleaseOp
<1>5. CASE w = Leader(d)
  BY <1>1, <1>3, <1>4, <1>5 DEF Moves, CurrentStep
<1>6. CASE w # Leader(d)
  BY <1>1, <1>2, <1>6 DEF Moves, CurrentStep
<1> QED
  BY <1>5, <1>6

LEMMA GpuInputs ==
  ASSUME IInv, NEW w \in Workers, GpuStep(w)
  PROVE  InputsStaged'
<1>1. TypeOK /\ InputsStaged /\ Moves(w) /\ kind' = kind
  BY GpuMoves, GpuFrame DEF IInv, hostVars
<1> SUFFICES ASSUME NEW d \in DPRanks,
                    Staged(d, CurrentStep(d))', Real(d, CurrentStep(d))'
             PROVE  inBuf'[d] = CurrentStep(d)'
  BY DEF InputsStaged
<1>2. Leader(d) \in Workers /\ w[1] \in DPRanks
  BY RankWorkers, WorkerParts
<1>3. /\ gpu[Leader(d)].op \in Nat /\ gpu[Leader(d)].step \in Nat
      /\ inBuf \in [DPRanks -> Content] /\ ReleaseOp \in Nat
  BY <1>1, <1>2, ConstantsAssumption DEF TypeOK, GpuTypes, ReleaseOp
<1>4. CASE w # Leader(d)
  <2>1. gpu'[Leader(d)] = gpu[Leader(d)]
    BY <1>1, <1>2, <1>4 DEF Moves
  <2>2. inBuf'[d] = inBuf[d]
    <3>1. w[2] # 0 \/ w[1] # d
      BY <1>4, WorkerParts DEF Leader
    <3> QED
      BY <1>2, <1>3, <3>1
      DEF GpuStep, StageReal, StageDummy, WaitDone, Collective, Release
  <2> QED
    BY <1>1, <2>1, <2>2 DEF InputsStaged, Staged, Reached, Real, CurrentStep
<1>5. CASE w = Leader(d)
  <2>1. gpu'[w].op >= 1 /\ kind[d][gpu'[w].step] = "real" /\ gpu'[w].step \in Steps
    <3>1. gpu'[w].step \in Nat
      BY <1>1, <1>2, <1>3, <1>5 DEF Moves
    <3> QED
      BY <1>1, <1>5, <3>1 DEF Staged, Reached, Real, CurrentStep
  <2>2. gpu'[w].step = gpu[w].step
    BY <1>1, <2>1 DEF Moves
  <2>3. w[1] = d /\ w[2] = 0
    BY <1>5 DEF Leader
  <2>4. Real(d, CurrentStep(d))
    BY <1>5, <2>1, <2>2 DEF Real, CurrentStep
  <2>5. CASE StageReal(w)
    BY <1>3, <1>5, <2>2, <2>3, <2>5 DEF StageReal, CurrentStep
  <2>6. ~ StageDummy(w)
    BY <1>5, <2>3, <2>4 DEF StageDummy, CurrentStep
  <2>7. ~ Release(w)
    BY <1>1, <1>2, <1>5, <2>2, <1>3 DEF Release, TypeOK, GpuTypes
  <2>8. ASSUME NEW l \in Layers, WaitDone(w, l) \/ Collective(w, l)
        PROVE  inBuf'[d] = CurrentStep(d)'
    <3>1. gpu[w].op >= 1 /\ inBuf' = inBuf
      BY <2>8, LayerOps DEF WaitDone, Collective, At
    <3> QED
      BY <1>1, <1>5, <2>2, <2>4, <3>1 DEF InputsStaged, Staged, Reached, CurrentStep
  <2> QED
    BY <2>5, <2>6, <2>7, <2>8 DEF GpuStep
<1> QED
  BY <1>4, <1>5

LEMMA GpuComputed ==
  ASSUME IInv, NEW w \in Workers, GpuStep(w)
  PROVE  ComputedSteps'
<1>1. TypeOK /\ ComputedSteps /\ Moves(w) /\ UNCHANGED <<kind, pinned>>
  BY GpuMoves, GpuFrame DEF IInv, hostVars, cpuVars
<1> SUFFICES ASSUME NEW d \in DPRanks, NEW l \in Layers, pinned[d][l] # Garbage
             PROVE  Real(d, pinned[d][l])' /\ Staged(d, pinned[d][l])'
  BY <1>1 DEF ComputedSteps
<1>2. pinned[d][l] \in Steps /\ Real(d, pinned[d][l]) /\ Staged(d, pinned[d][l])
  BY <1>1 DEF ComputedSteps, Real
<1>3. PICK s \in Steps : s = pinned[d][l]
  BY <1>2
<1>4. s \in 1..MaxSteps + 1 /\ 1 \in 1..ReleaseOp /\ Leader(d) \in Workers
  BY ConstantsAssumption, RankWorkers DEF Steps, ReleaseOp
<1>5. Reached(Leader(d), s, 1)'
  BY <1>1, <1>2, <1>3, <1>4, Passing DEF Staged
<1> QED
  BY <1>1, <1>2, <1>3, <1>5 DEF Staged, Real, Reached

LEMMA GpuSlot ==
  ASSUME IInv, NEW w \in Workers, GpuStep(w), NEW l \in Layers
  PROVE  Slot(w, l)'
<1>1. /\ TypeOK /\ Moves(w) /\ UNCHANGED <<kind, pinned, copyQ>>
      /\ Slot(w, l)
  BY GpuMoves, GpuFrame DEF IInv, hostVars, cpuVars, Slots
<1>2. /\ gpu[w].step \in 1..MaxSteps + 1 /\ gpu[w].op \in 0..ReleaseOp
      /\ WaitOp(l) \in Nat /\ WaitOp(l) >= 1 /\ WaitOp(l) < ReleaseOp
      /\ ReleaseOp \in Nat /\ pinned[w[1]][l] \in Int
      /\ w[1] \in DPRanks
  BY <1>1, GpuPosition, LayerOps, PinnedType, WorkerParts
<1>3. /\ flag \in [Workers -> [Layers -> {0, 1}]]
      /\ outBuf \in [Workers -> [Layers -> Content]]
  BY <1>1 DEF TypeOK, GpuTypes
<1>4. CASE StageReal(w)
  <2>1. /\ gpu[w].op = 0 /\ Real(w[1], gpu[w].step)
        /\ gpu'[w].step = gpu[w].step /\ gpu'[w].op = 1
        /\ UNCHANGED <<flag, outBuf>>
    BY <1>1, <1>2, <1>4 DEF StageReal, At, Moves
  <2>2. Expecting(w, l)
    BY <1>1, <1>2, <2>1 DEF Slot
  <2>3. Expecting(w, l)'
    BY <1>1, <2>1, <2>2 DEF Expecting
  <2>4. Real(w[1], gpu[w].step)' /\ ~ (gpu'[w].op > WaitOp(l))
    BY <1>1, <1>2, <2>1 DEF Real
  <2> QED
    BY <2>3, <2>4 DEF Slot
<1>5. CASE StageDummy(w)
  <2>1. /\ gpu[w].op = 0 /\ ~ Real(w[1], gpu[w].step)
        /\ gpu'[w].step = gpu[w].step /\ gpu'[w].op = 1
        /\ flag'[w][l] = 1 /\ outBuf'[w][l] = Zeros
    BY <1>1, <1>2, <1>3, <1>5 DEF StageDummy, At, Moves
  <2>2. Undisturbed(w, l)
    BY <1>1, <1>2, <2>1 DEF Slot
  <2>3. Undisturbed(w, l)'
    BY <1>1, <2>1, <2>2 DEF Undisturbed
  <2>4. ~ Real(w[1], gpu[w].step)' /\ ~ (gpu'[w].op > WaitOp(l))
    BY <1>1, <1>2, <2>1 DEF Real
  <2> QED
    BY <2>3, <2>4 DEF Slot
<1>6. ASSUME UNCHANGED <<flag, outBuf>>, gpu[w].op >= 1,
             gpu'[w].step = gpu[w].step, gpu'[w].op = gpu[w].op + 1,
             gpu[w].op # WaitOp(l)
      PROVE  Slot(w, l)'
  <2>1. gpu[w].op > WaitOp(l) <=> gpu'[w].op > WaitOp(l)
    BY <1>2, <1>6
  <2>2. gpu[w].op # 0 /\ gpu'[w].op # 0
    BY <1>2, <1>6
  <2>3. Real(w[1], gpu[w].step)' <=> Real(w[1], gpu[w].step)
    BY <1>1, <1>6 DEF Real
  <2>4. CASE gpu[w].op > WaitOp(l)
    <3>1. Holding(w, l)
      BY <1>1, <2>4 DEF Slot
    <3>2. Holding(w, l)'
      BY <1>1, <1>6, <3>1 DEF Holding, Real
    <3> QED
      BY <2>1, <2>4, <3>2 DEF Slot
  <2>5. CASE ~ (gpu[w].op > WaitOp(l)) /\ Real(w[1], gpu[w].step)
    <3>1. Expecting(w, l)
      BY <1>1, <2>5 DEF Slot
    <3>2. Expecting(w, l)'
      BY <1>1, <1>6, <3>1 DEF Expecting
    <3> QED
      BY <2>1, <2>3, <2>5, <3>2 DEF Slot
  <2>6. CASE ~ (gpu[w].op > WaitOp(l)) /\ ~ Real(w[1], gpu[w].step)
    <3>1. Undisturbed(w, l)
      BY <1>1, <2>6 DEF Slot
    <3>2. Undisturbed(w, l)'
      BY <1>1, <1>6, <2>2, <3>1 DEF Undisturbed
    <3> QED
      BY <2>1, <2>3, <2>6, <3>2 DEF Slot
  <2> QED
    BY <2>4, <2>5, <2>6
<1>7. CASE WaitDone(w, l)
  <2>1. /\ gpu[w].op = WaitOp(l) /\ flag[w][l] = 1 /\ UNCHANGED <<flag, outBuf>>
        /\ gpu'[w].step = gpu[w].step /\ gpu'[w].op = WaitOp(l) + 1
    BY <1>1, <1>2, <1>7 DEF WaitDone, At, Moves
  <2>2. Holding(w, l)'
    <3>1. CASE Real(w[1], gpu[w].step)
      <4>1. Expecting(w, l)
        BY <1>1, <1>2, <2>1, <3>1 DEF Slot
      <4>2. pinned[w[1]][l] = gpu[w].step /\ copyQ[w][l] = << >>
            /\ outBuf[w][l] = gpu[w].step
        BY <2>1, <4>1 DEF Expecting
      <4> QED
        BY <1>1, <1>2, <2>1, <3>1, <4>2 DEF Holding, Real
    <3>2. CASE ~ Real(w[1], gpu[w].step)
      <4>1. Undisturbed(w, l)
        BY <1>1, <1>2, <2>1, <3>2 DEF Slot
      <4>2. pinned[w[1]][l] < gpu[w].step /\ copyQ[w][l] = << >>
            /\ outBuf[w][l] = Zeros
        BY <1>2, <2>1, <4>1 DEF Undisturbed
      <4> QED
        BY <1>1, <1>2, <2>1, <3>2, <4>2 DEF Holding, Real
    <3> QED
      BY <3>1, <3>2
  <2>3. gpu'[w].op > WaitOp(l)
    BY <1>2, <2>1
  <2> QED
    BY <2>2, <2>3 DEF Slot
<1>8. ASSUME NEW m \in Layers, WaitDone(w, m) \/ Collective(w, m), ~ WaitDone(w, l)
      PROVE  Slot(w, l)'
  <2>1. /\ UNCHANGED <<flag, outBuf>>
        /\ gpu'[w].step = gpu[w].step /\ gpu'[w].op = gpu[w].op + 1
        /\ gpu[w].op = WaitOp(m) \/ gpu[w].op = CollectiveOp(m)
    BY <1>1, <1>2, <1>8, LayerOps DEF WaitDone, Collective, At, Moves
  <2>2. gpu[w].op # WaitOp(l)
    BY <1>8, <2>1 DEF WaitDone, Collective, At, WaitOp, CollectiveOp, Layers
  <2>3. gpu[w].op >= 1
    BY <2>1 DEF WaitOp, CollectiveOp, Layers
  <2> QED
    BY <1>6, <2>1, <2>2, <2>3
<1>9. CASE Release(w)
  <2> DEFINE c == gpu[w].step
             s == pinned[w[1]][l]
  <2>1. /\ gpu[w].op = ReleaseOp /\ gpu'[w].step = c + 1 /\ gpu'[w].op = 0
        /\ flag'[w][l] = 0 /\ outBuf' = outBuf
    BY <1>1, <1>2, <1>3, <1>9 DEF Release, At, Moves
  <2>2. Holding(w, l)
    BY <1>1, <1>2, <2>1 DEF Slot
  <2>3. \/ s <= c /\ copyQ[w][l] \in {<< >>, Pending}
        \/ s = c + 1 /\ copyQ[w][l] = Delivery
    BY <2>2 DEF Holding
  <2>4. CASE Real(w[1], c + 1)
    <3>1. Expecting(w, l)'
      BY <1>1, <1>2, <2>1, <2>3 DEF Expecting
    <3>2. Real(w[1], gpu[w].step)'
      BY <1>1, <2>1, <2>4 DEF Real
    <3> QED
      BY <1>2, <2>1, <3>1, <3>2 DEF Slot
  <2>5. CASE ~ Real(w[1], c + 1)
    <3>1. s # c + 1
      BY <1>2, <2>5 DEF IInv, ComputedSteps, Garbage
    <3>2. copyQ[w][l] # Pending
      <4> SUFFICES ASSUME copyQ[w][l] = Pending PROVE FALSE
        OBVIOUS
      <4>1. Real(w[1], CurrentStep(w[1])) /\ pinned[w[1]][l] < CurrentStep(w[1])
        BY PendingStep
      <4>2. c = CurrentStep(w[1]) - 1
        BY <1>2, <2>1, <4>1, Uncomputed
      <4>3. CurrentStep(w[1]) = c + 1
        BY <1>1, <1>2, <4>2, GpuPosition
      <4> QED
        BY <2>5, <4>1, <4>3
    <3>3. Undisturbed(w, l)'
      BY <1>1, <1>2, <2>1, <2>3, <3>1, <3>2 DEF Undisturbed
    <3>4. ~ Real(w[1], gpu[w].step)'
      BY <1>1, <2>1, <2>5 DEF Real
    <3> QED
      BY <1>2, <2>1, <3>3, <3>4 DEF Slot
  <2> QED
    BY <2>4, <2>5
<1> QED
  BY <1>4, <1>5, <1>7, <1>8, <1>9 DEF GpuStep

LEMMA GpuSlots ==
  ASSUME IInv, NEW w \in Workers, GpuStep(w)
  PROVE  Slots'
<1> SUFFICES ASSUME NEW v \in Workers, NEW l \in Layers
             PROVE  Slot(v, l)'
  BY DEF Slots
<1>1. /\ TypeOK /\ Moves(w) /\ UNCHANGED <<kind, pinned, copyQ>>
      /\ Slot(v, l)
  BY GpuMoves, GpuFrame DEF IInv, hostVars, cpuVars, Slots
<1>2. CASE v = w
  BY <1>2, GpuSlot
<1>3. CASE v # w
  <2>1. gpu'[v] = gpu[v]
    BY <1>1, <1>3 DEF Moves
  <2>2. flag'[v][l] = flag[v][l] /\ outBuf'[v][l] = outBuf[v][l]
    BY <1>1, <1>3
    DEF GpuStep, StageReal, StageDummy, WaitDone, Collective, Release, TypeOK,
        GpuTypes
  <2> QED
    BY <1>1, <2>1, <2>2, SlotFrame
<1> QED
  BY <1>2, <1>3

LEMMA GpuSyncing ==
  ASSUME IInv, NEW w \in Workers, GpuStep(w)
  PROVE  Syncing'
<1>1. /\ TypeOK /\ Syncing
      /\ UNCHANGED <<phase, batch, layer, index, copyQ, pinned>>
  BY GpuFrame DEF IInv, cpuVars
<1>2. Targets' = Targets
  BY <1>1 DEF Targets, CurrentRequest
<1>3. ASSUME phase = "compute", NEW v \in Targets, copyQ[v][layer] = << >>,
             flag[v][layer] = 0
      PROVE  flag'[v][layer] = 0
  <2>1. /\ v \in Workers /\ v[1] = CurrentRequest.dp /\ layer \in Layers
        /\ Real(v[1], CurrentStep(v[1]))
        /\ pinned[v[1]][layer] < CurrentStep(v[1])
    BY <1>3, CurrentDue, RankWorkers DEF Targets
  <2>2. \/ gpu[v].step = CurrentStep(v[1])
        \/ gpu[v].op > WaitOp(layer)
    BY <2>1, Uncomputed
  <2>3. ~ (v = w /\ StageDummy(w))
    BY <1>1, <2>1, <2>2, LayerOps, GpuPosition DEF StageDummy, At
  <2>4. flag \in [Workers -> [Layers -> {0, 1}]]
    BY <1>1 DEF TypeOK, GpuTypes
  <2> QED
    BY <1>3, <2>1, <2>3, <2>4
    DEF GpuStep, StageReal, StageDummy, WaitDone, Collective, Release
<1>4. phase' = "compute" =>
        \A v \in Targets' : \/ copyQ'[v][layer'] = Pending
                            \/ copyQ'[v][layer'] = << >> /\ flag'[v][layer'] = 0
  BY <1>1, <1>2, <1>3 DEF Syncing
<1> QED
  BY <1>1, <1>2, <1>4 DEF Syncing

LEMMA ToDoUnread ==
  ASSUME TypeOK, NEW i \in DOMAIN batch, NEW l \in Layers, ToDo(i, l)
  PROVE  Unread(batch[i].dp)
<1>1. /\ layer \in 1..NumLayers /\ l \in 1..NumLayers /\ NumLayers \in Nat
      /\ index \in Nat /\ i \in Nat
  BY ConstantsAssumption DEF TypeOK, CpuTypes, Layers
<1>2. layer < NumLayers \/ index <= i
  BY <1>1 DEF ToDo
<1> QED
  BY <1>2 DEF Unread

LEMMA GpuFresh ==
  ASSUME IInv, NEW w \in Workers, GpuStep(w)
  PROVE  RequestsFresh'
<1>1. /\ TypeOK /\ RequestsFresh
      /\ UNCHANGED <<kind, batch, layer, index, pinned, socket>>
  BY GpuFrame DEF IInv, cpuVars, hostVars
<1>2. ASSUME NEW r, r.dp \in DPRanks, Unread(r.dp), Fresh(r)
      PROVE  /\ kind'[r.dp][r.step] = "real" /\ r.step \in Steps
             /\ r.step = gpu'[Leader(r.dp)].step
             /\ gpu'[Leader(r.dp)].op > 0
  BY <1>1, <1>2, UnreadStays DEF Fresh, Real, CurrentStep
<1>3. ASSUME NEW i \in DOMAIN socket
      PROVE  socket[i].dp \in DPRanks /\ Unread(socket[i].dp)
  <2>1. socket[i] \in Requests
    BY <1>1 DEF TypeOK, RequestTypes
  <2> QED
    BY <2>1 DEF Requests, Unread
<1>4. ASSUME NEW i \in DOMAIN batch, NEW l \in Layers, ToDo(i, l)
      PROVE  batch[i].dp \in DPRanks /\ Unread(batch[i].dp)
  <2>1. batch[i] \in Requests
    BY <1>1 DEF TypeOK, CpuTypes
  <2> QED
    BY <1>1, <1>4, <2>1, ToDoUnread DEF Requests
<1>5. ASSUME NEW i \in DOMAIN socket
      PROVE  Fresh(socket[i])'
  <2>1. Fresh(socket[i])
    BY <1>1 DEF RequestsFresh
  <2>2. PICK r : r = socket[i]
    OBVIOUS
  <2>3. /\ kind'[r.dp][r.step] = "real" /\ r.step \in Steps
        /\ r.step = gpu'[Leader(r.dp)].step
        /\ gpu'[Leader(r.dp)].op > 0
    BY <1>2, <1>3, <2>1, <2>2
  <2> QED
    BY <1>1, <2>2, <2>3 DEF Fresh, Real, CurrentStep
<1>6. ASSUME NEW i \in DOMAIN batch, NEW l \in Layers, ToDo(i, l)
      PROVE  Fresh(batch[i])'
  <2>1. Fresh(batch[i])
    BY <1>1, <1>6 DEF RequestsFresh
  <2>2. PICK r : r = batch[i]
    OBVIOUS
  <2>3. /\ kind'[r.dp][r.step] = "real" /\ r.step \in Steps
        /\ r.step = gpu'[Leader(r.dp)].step
        /\ gpu'[Leader(r.dp)].op > 0
    BY <1>2, <1>4, <1>6, <2>1, <2>2
  <2> QED
    BY <1>1, <2>2, <2>3 DEF Fresh, Real, CurrentStep
<1> QED
  BY <1>1, <1>5, <1>6 DEF RequestsFresh, ToDo

LEMMA GpuOrdered ==
  ASSUME IInv, NEW w \in Workers, GpuStep(w)
  PROVE  RequestsOrdered'
<1>1. /\ TypeOK /\ RequestsOrdered /\ Slots /\ Moves(w)
      /\ UNCHANGED <<kind, launched, batch, layer, index, pinned, socket, queue,
                     thread>>
  BY GpuMoves, GpuFrame DEF IInv, cpuVars, hostVars, reqVars
<1>2. ASSUME NEW d \in DPRanks, NEW s \in Steps, Unpublished(d, s)
      PROVE  CurrentStep(d)' <= s
  <2>1. Leader(d) \in Workers /\ Leader(d)[1] = d /\ s \in Nat
    BY RankWorkers DEF Steps
  <2>2. gpu[Leader(d)].step \in Nat /\ gpu[Leader(d)].step <= s
    BY <1>1, <1>2, <2>1 DEF TypeOK, GpuTypes, Unpublished, CurrentStep
  <2>3. gpu[Leader(d)].op = ReleaseOp => gpu[Leader(d)].step # s
    <3> SUFFICES ASSUME gpu[Leader(d)].op = ReleaseOp, gpu[Leader(d)].step = s
                 PROVE  FALSE
      OBVIOUS
    <3>1. NumLayers \in Layers /\ ReleaseOp > WaitOp(NumLayers)
      BY ConstantsAssumption DEF Layers, ReleaseOp, WaitOp
    <3>2. Slot(Leader(d), NumLayers)
      BY <1>1, <2>1, <3>1 DEF Slots
    <3>3. Holding(Leader(d), NumLayers)
      BY <3>1, <3>2 DEF Slot
    <3>4. pinned[d][NumLayers] >= s /\ pinned[d][NumLayers] < s
      BY <1>2, <2>1, <3>1, <3>3 DEF Holding, Unpublished
    <3>5. pinned[d][NumLayers] \in Int
      BY <1>1, <3>1, PinnedType
    <3> QED
      BY <2>1, <3>4, <3>5
  <2>4. CASE w = Leader(d)
    BY <1>1, <2>1, <2>2, <2>3, <2>4 DEF Moves, CurrentStep
  <2>5. CASE w # Leader(d)
    BY <1>1, <2>1, <2>2, <2>5 DEF Moves, CurrentStep
  <2> QED
    BY <2>4, <2>5
<1>3. ASSUME NEW d \in DPRanks, NEW s \in Steps, Unpublished(d, s)
      PROVE  StaysUnpublished(d, s)
  <2>1. Unread(d)' = Unread(d)
    BY <1>1 DEF Unread
  <2>2. Unread(d) => CurrentStep(d)' < s
    BY <1>3, UnreadStays DEF Unpublished
  <2> QED
    BY <1>1, <1>2, <1>3, <2>1, <2>2 DEF Unpublished, StaysUnpublished, Real
<1> QED
  BY <1>1, <1>3, OrderedFrame

LEMMA GpuRest ==
  ASSUME IInv, NEW w \in Workers, GpuStep(w)
  PROVE  Rest'
<1>1. RequestsDistinct'
  BY GpuFrame DEF IInv, RequestsDistinct, cpuVars
<1> QED
  BY <1>1, GpuInputs, GpuComputed, GpuSlots, GpuSyncing, GpuFresh, GpuOrdered
  DEF Rest

-----------------------------------------------------------------------------
(* The copy streams.                                                       *)

\* What one op of a copy stream does: it delivers to a rank that still waits.
LEMMA CopyEffect ==
  ASSUME IInv, NEW w \in Workers, NEW l \in Layers, CopyStep(w, l)
  PROVE  /\ Expecting(w, l) /\ Expecting(w, l)'
         /\ ~ (gpu[w].op > WaitOp(l)) /\ Real(w[1], gpu[w].step)
         /\ copyQ'[w][l] # Pending
         /\ copyQ[w][l] # << >>
         /\ copyQ[w][l] = Pending =>
              copyQ'[w][l] = << >> /\ flag'[w][l] = 0
         /\ \A v \in Workers, m \in Layers : v # w \/ m # l =>
              /\ copyQ'[v][m] = copyQ[v][m] /\ flag'[v][m] = flag[v][m]
              /\ outBuf'[v][m] = outBuf[v][m]
<1>1. TypeOK /\ Slot(w, l) /\ UNCHANGED <<gpu, pinned, kind>>
  BY CopyFrame DEF IInv, Slots, hostVars, cpuVars
<1>2. /\ flag \in [Workers -> [Layers -> {0, 1}]]
      /\ outBuf \in [Workers -> [Layers -> Content]]
      /\ copyQ \in [Workers -> [Layers -> Seq({"wait_reset", "copy", "signal"})]]
  BY <1>1 DEF TypeOK, GpuTypes, CpuTypes
<1>3. /\ copyQ[w][l] # << >> /\ copyQ'[w][l] = Tail(copyQ[w][l])
      /\ Head(copyQ[w][l]) = "wait_reset" => flag[w][l] = 0
  <2>1. copyQ[w][l] # << >> /\ PopOp(w, l)
    BY DEF CopyStep, WaitReset, CopyToGpu, Signal, HeadOp
  <2>2. copyQ'[w][l] = Tail(copyQ[w][l])
    BY <1>2, <2>1 DEF PopOp
  <2>3. Head(copyQ[w][l]) = "wait_reset" => flag[w][l] = 0
    BY DEF CopyStep, WaitReset, CopyToGpu, Signal, HeadOp
  <2> QED
    BY <2>1, <2>2, <2>3
<1>4. ~ Holding(w, l)
  BY <1>3, Streams DEF Holding
<1>5. ~ Undisturbed(w, l)
  BY <1>3 DEF Undisturbed
<1>6. ~ (gpu[w].op > WaitOp(l)) /\ Real(w[1], gpu[w].step) /\ Expecting(w, l)
  BY <1>1, <1>4, <1>5 DEF Slot
<1>7. ASSUME Head(copyQ[w][l]) = "wait_reset" PROVE Expecting(w, l)'
  <2>1. UNCHANGED <<flag, outBuf>>
    BY <1>7 DEF CopyStep, WaitReset, CopyToGpu, Signal, HeadOp, gpuVars
  <2>2. \/ /\ flag[w][l] = 0 /\ pinned[w[1]][l] < gpu[w].step
           /\ copyQ[w][l] = Pending /\ copyQ'[w][l] = << >>
        \/ /\ flag[w][l] = 0 /\ pinned[w[1]][l] = gpu[w].step
           /\ copyQ[w][l] = Delivery /\ copyQ'[w][l] = Delivering
    BY <1>3, <1>6, <1>7, Streams DEF Expecting
  <2> QED
    BY <1>1, <2>1, <2>2, Streams DEF Expecting
<1>8. ASSUME Head(copyQ[w][l]) = "copy" PROVE Expecting(w, l)'
  <2>1. flag' = flag /\ outBuf'[w][l] = pinned[w[1]][l]
    BY <1>2, <1>8 DEF CopyStep, WaitReset, CopyToGpu, Signal, HeadOp
  <2>2. /\ flag[w][l] = 0 /\ pinned[w[1]][l] = gpu[w].step
        /\ copyQ[w][l] = Delivering /\ copyQ'[w][l] = Arriving
    BY <1>3, <1>6, <1>8, Streams DEF Expecting
  <2> QED
    BY <1>1, <2>1, <2>2, Streams DEF Expecting
<1>9. ASSUME Head(copyQ[w][l]) = "signal" PROVE Expecting(w, l)'
  <2>1. outBuf' = outBuf /\ flag'[w][l] = 1
    BY <1>2, <1>9 DEF CopyStep, WaitReset, CopyToGpu, Signal, HeadOp
  <2>2. /\ pinned[w[1]][l] = gpu[w].step /\ outBuf[w][l] = gpu[w].step
        /\ copyQ[w][l] = Arriving /\ copyQ'[w][l] = << >>
    BY <1>3, <1>6, <1>9, Streams DEF Expecting
  <2> QED
    BY <1>1, <2>1, <2>2, Streams DEF Expecting
<1>10. \/ Head(copyQ[w][l]) = "wait_reset" \/ Head(copyQ[w][l]) = "copy"
       \/ Head(copyQ[w][l]) = "signal"
  BY DEF CopyStep, WaitReset, CopyToGpu, Signal, HeadOp
<1>11. Expecting(w, l)'
  BY <1>7, <1>8, <1>9, <1>10
<1>12. copyQ'[w][l] # Pending /\
       (copyQ[w][l] = Pending => copyQ'[w][l] = << >> /\ flag'[w][l] = 0)
  <2>1. copyQ[w][l] \in {Pending, Delivery, Delivering, Arriving}
    BY <1>3, <1>6 DEF Expecting
  <2>2. copyQ[w][l] = Pending => flag' = flag
    BY Streams DEF CopyStep, WaitReset, CopyToGpu, Signal, HeadOp, gpuVars
  <2> QED
    BY <1>3, <2>1, <2>2, Streams
<1>13. \A v \in Workers, m \in Layers : v # w \/ m # l =>
         /\ copyQ'[v][m] = copyQ[v][m] /\ flag'[v][m] = flag[v][m]
         /\ outBuf'[v][m] = outBuf[v][m]
  BY <1>2 DEF CopyStep, WaitReset, CopyToGpu, Signal, PopOp, gpuVars
<1> QED
  BY <1>3, <1>6, <1>11, <1>12, <1>13

LEMMA CopyRest ==
  ASSUME IInv, NEW w \in Workers, NEW l \in Layers, CopyStep(w, l)
  PROVE  Rest'
<1>1. UNCHANGED <<kind, launched, gpu, inBuf, queue, thread, socket, phase, batch,
                  layer, index, pinned>>
  BY CopyFrame DEF hostVars, reqVars, cpuVars
<1>2. InputsStaged' /\ ComputedSteps'
  BY <1>1 DEF IInv, InputsStaged, ComputedSteps, Staged, Reached, Real, CurrentStep
<1>3. RequestsFresh' /\ RequestsDistinct'
  BY <1>1, RequestFrames DEF IInv, cpuVars
<1>4. RequestsOrdered'
  <2>1. ASSUME NEW d \in DPRanks, NEW s \in Steps, Unpublished(d, s)
        PROVE  StaysUnpublished(d, s)
    <3>1. Unread(d)' = Unread(d) /\ CurrentStep(d)' = CurrentStep(d)
      BY <1>1 DEF Unread, CurrentStep
    <3> QED
      BY <1>1, <2>1, <3>1 DEF Unpublished, StaysUnpublished, Real
  <2> QED
    BY <1>1, <2>1, OrderedFrame DEF IInv
<1>5. Slots'
  <2> SUFFICES ASSUME NEW v \in Workers, NEW m \in Layers PROVE Slot(v, m)'
    BY DEF Slots
  <2>1. CASE v = w /\ m = l
    <3>1. Expecting(w, l)' /\ ~ (gpu'[w].op > WaitOp(l)) /\ Real(w[1], gpu[w].step)'
      BY <1>1, CopyEffect DEF Real
    <3> QED
      BY <2>1, <3>1 DEF Slot
  <2>2. CASE v # w \/ m # l
    <3>1. Slot(v, m)
      BY DEF IInv, Slots
    <3> QED
      BY <1>1, <2>2, <3>1, CopyEffect, SlotFrame
  <2> QED
    BY <2>1, <2>2
<1>6. Syncing'
  <2>1. Targets' = Targets /\ Syncing
    BY <1>1 DEF Targets, CurrentRequest, IInv
  <2>2. ASSUME phase = "compute", NEW v \in Targets
        PROVE  \/ copyQ'[v][layer] = Pending
               \/ copyQ'[v][layer] = << >> /\ flag'[v][layer] = 0
    <3>1. v \in Workers /\ layer \in Layers
      BY <2>2, CurrentDue, RankWorkers DEF Targets
    <3>2. \/ copyQ[v][layer] = Pending
          \/ copyQ[v][layer] = << >> /\ flag[v][layer] = 0
      BY <2>1, <2>2 DEF Syncing
    <3>3. CASE v = w /\ layer = l
      BY <3>2, <3>3, CopyEffect
    <3>4. CASE v # w \/ layer # l
      BY <3>1, <3>2, <3>4, CopyEffect
    <3> QED
      BY <3>3, <3>4
  <2>3. ASSUME NEW v \in Workers, NEW m \in Layers, copyQ'[v][m] = Pending
        PROVE  phase = "compute" /\ v \in Targets /\ m = layer
    <3>1. copyQ[v][m] = Pending
      BY <2>3, CopyEffect
    <3> QED
      BY <2>1, <3>1 DEF Syncing
  <2>4. phase' = "compute" =>
          \A v \in Targets' : \/ copyQ'[v][layer'] = Pending
                              \/ copyQ'[v][layer'] = << >> /\ flag'[v][layer'] = 0
    BY <1>1, <2>1, <2>2
  <2>5. \A v \in Workers : \A m \in Layers : copyQ'[v][m] = Pending =>
          phase' = "compute" /\ v \in Targets' /\ m = layer'
    BY <1>1, <2>1, <2>3
  <2> QED
    BY <1>1, <2>1, <2>4, <2>5 DEF Syncing
<1> QED
  BY <1>2, <1>3, <1>4, <1>5, <1>6 DEF Rest

-----------------------------------------------------------------------------
(* The CPU process.                                                        *)

\* A request that is received is appended: no other one of its rank is there.
LEMMA ReceivedAppended ==
  ASSUME IInv, Receive
  PROVE  /\ socket \in Seq(Requests) /\ socket # << >> /\ batch \in Seq(Requests)
         /\ 1 \in DOMAIN socket /\ Head(socket) = socket[1]
         /\ \A j \in DOMAIN batch : batch[j].dp # socket[1].dp
         /\ batch' = Append(batch, socket[1])
         /\ socket' = Tail(socket)
<1>1. TypeOK /\ RequestsDistinct /\ index = 1
  BY DEF IInv, Receive, Syncing
<1>2. /\ socket \in Seq(Requests) /\ socket # << >> /\ batch \in Seq(Requests)
      /\ socket' = Tail(socket)
  BY <1>1 DEF Receive, TypeOK, RequestTypes, CpuTypes
<1>3. 1 \in DOMAIN socket /\ Head(socket) = socket[1]
  BY <1>2
<1>4. \A j \in DOMAIN batch : 1 <= j
  BY <1>2
<1>5. \A j \in DOMAIN batch : batch[j].dp # socket[1].dp
  BY <1>1, <1>3, <1>4 DEF RequestsDistinct
<1> QED
  BY <1>2, <1>3, <1>5 DEF Receive

LEMMA ReceiveRequests ==
  ASSUME IInv, Receive
  PROVE  RequestsFresh' /\ RequestsDistinct' /\ RequestsOrdered'
<1>1. TypeOK /\ RequestsFresh /\ RequestsDistinct /\ RequestsOrdered
  BY DEF IInv
<1>2. UNCHANGED <<kind, launched, gpu, queue, thread, layer, index, pinned>>
  BY DEF Receive, hostVars, gpuVars, reqVars
<1>3. /\ \A i \in DOMAIN socket' :
           i + 1 \in DOMAIN socket /\ socket'[i] = socket[i + 1] /\ i \in Nat /\ i > 0
      /\ 1 \in DOMAIN socket
  BY ReceivedAppended
<1>4. /\ DOMAIN batch' = DOMAIN batch \cup {Len(batch) + 1}
      /\ \A j \in DOMAIN batch : batch'[j] = batch[j] /\ j # Len(batch) + 1
      /\ batch'[Len(batch) + 1] = socket[1]
  <2>1. /\ batch \in Seq(Requests) /\ socket[1] \in Requests
        /\ batch' = Append(batch, socket[1])
    BY ReceivedAppended
  <2> QED
    BY <2>1
<1>5. \A j \in DOMAIN batch : batch[j].dp # socket[1].dp
  BY ReceivedAppended
<1>6. RequestsFresh'
  <2>1. \A i \in DOMAIN socket' :
          Fresh(socket'[i]) /\ \A l \in Layers : pinned[socket'[i].dp][l] < socket'[i].step
    BY <1>1, <1>3 DEF RequestsFresh
  <2>2. \A j \in DOMAIN batch' : \A l \in Layers :
          ToDo(j, l) => Fresh(batch'[j]) /\ pinned[batch'[j].dp][l] < batch'[j].step
    BY <1>1, <1>3, <1>4 DEF RequestsFresh
  <2> QED
    BY <1>2, <2>1, <2>2 DEF RequestsFresh, Fresh, ToDo, Real, CurrentStep
<1>7. RequestsDistinct'
  <2>1. ASSUME NEW i \in DOMAIN socket', NEW j \in DOMAIN socket',
               socket'[i].dp = socket'[j].dp
        PROVE  i = j
    <3>1. i + 1 = j + 1
      BY <1>1, <1>3, <2>1 DEF RequestsDistinct
    <3> QED
      BY <1>3, <3>1
  <2>2. \A i, j \in DOMAIN batch' : batch'[i].dp = batch'[j].dp => i = j
    BY <1>1, <1>4, <1>5 DEF RequestsDistinct
  <2>3. ASSUME NEW i \in DOMAIN socket', NEW j \in DOMAIN batch',
               batch'[j].dp = socket'[i].dp
        PROVE  ~ (layer < NumLayers \/ index <= j)
    <3>1. CASE j \in DOMAIN batch
      BY <1>1, <1>3, <1>4, <2>3, <3>1 DEF RequestsDistinct
    <3>2. CASE j = Len(batch) + 1
      <4>1. i + 1 = 1
        BY <1>1, <1>3, <1>4, <2>3, <3>2 DEF RequestsDistinct
      <4> QED
        BY <1>3, <4>1
    <3> QED
      BY <1>4, <3>1, <3>2
  <2> QED
    BY <1>2, <2>1, <2>2, <2>3 DEF RequestsDistinct
<1>8. RequestsOrdered'
  <2>1. ASSUME NEW d \in DPRanks, NEW s \in Steps, Unpublished(d, s)
        PROVE  StaysUnpublished(d, s)
    <3>1. Unread(d)' => Unread(d)
      <4>1. ASSUME NEW i \in DOMAIN socket', socket'[i].dp = d
            PROVE  Unread(d)
        BY <1>3, <4>1 DEF Unread
      <4>2. ASSUME NEW j \in DOMAIN batch', batch'[j].dp = d,
                   layer < NumLayers \/ index <= j
            PROVE  Unread(d)
        BY <1>3, <1>4, <4>2 DEF Unread
      <4> QED
        BY <1>2, <4>1, <4>2 DEF Unread
    <3>2. CurrentStep(d)' = CurrentStep(d)
      BY <1>2 DEF CurrentStep
    <3> QED
      BY <1>2, <2>1, <3>1, <3>2 DEF Unpublished, StaysUnpublished, Real
  <2> QED
    BY <1>1, <1>2, <2>1, OrderedFrame
<1> QED
  BY <1>6, <1>7, <1>8

LEMMA ReceiveRest ==
  ASSUME IInv, Receive
  PROVE  Rest'
<1>1. /\ UNCHANGED <<kind, gpuVars, copyQ, pinned, phase, layer, index>>
      /\ phase = "receive" /\ Syncing
  BY DEF Receive, hostVars, IInv
<1>2. InputsStaged' /\ ComputedSteps'
  BY <1>1
  DEF IInv, InputsStaged, ComputedSteps, Staged, Reached, Real, CurrentStep, gpuVars
<1>3. Slots'
  BY <1>1, SlotFrame DEF IInv, Slots, gpuVars
<1>4. Syncing'
  <2>1. \A v \in Workers : \A m \in Layers : copyQ[v][m] # Pending
    BY <1>1 DEF Syncing
  <2> QED
    BY <1>1, <2>1 DEF Syncing
<1> QED
  BY <1>2, <1>3, <1>4, ReceiveRequests DEF Rest

LEMMA DrainedRest ==
  ASSUME IInv, Drained
  PROVE  Rest'
<1>1. /\ UNCHANGED <<kind, launched, gpuVars, queue, thread, socket, copyQ, pinned,
                     batch, layer, index>>
      /\ phase = "receive" /\ phase' = "sync" /\ Syncing
  BY DEF Drained, hostVars, reqVars, IInv
<1>2. InputsStaged' /\ ComputedSteps'
  BY <1>1
  DEF IInv, InputsStaged, ComputedSteps, Staged, Reached, Real, CurrentStep, gpuVars
<1>3. Slots'
  BY <1>1, SlotFrame DEF IInv, Slots, gpuVars
<1>4. Syncing'
  <2>1. \A v \in Workers : \A m \in Layers : copyQ[v][m] # Pending
    BY <1>1 DEF Syncing
  <2>2. index \in DOMAIN batch
    <3>1. batch \in Seq(Requests) /\ batch # << >> /\ index = 1
      BY <1>1 DEF IInv, TypeOK, CpuTypes, Drained, Syncing
    <3> QED
      BY <3>1
  <2> QED
    BY <1>1, <2>1, <2>2 DEF Syncing
<1>5. RequestsFresh' /\ RequestsDistinct'
  BY <1>1
  DEF IInv, RequestsFresh, RequestsDistinct, Fresh, ToDo, Real, CurrentStep, gpuVars
<1>6. RequestsOrdered'
  <2>1. ASSUME NEW d \in DPRanks, NEW s \in Steps, Unpublished(d, s)
        PROVE  StaysUnpublished(d, s)
    <3>1. Unread(d)' = Unread(d) /\ CurrentStep(d)' = CurrentStep(d)
      BY <1>1 DEF Unread, CurrentStep, gpuVars
    <3> QED
      BY <1>1, <2>1, <3>1 DEF Unpublished, StaysUnpublished, Real
  <2> QED
    BY <1>1, <2>1, OrderedFrame DEF IInv
<1> QED
  BY <1>2, <1>3, <1>4, <1>5, <1>6 DEF Rest

LEMMA SyncRest ==
  ASSUME IInv, SyncTargets
  PROVE  Rest'
<1>1. /\ UNCHANGED <<kind, launched, gpuVars, queue, thread, socket, pinned, batch,
                     layer, index>>
      /\ phase = "sync" /\ phase' = "compute" /\ Syncing /\ TypeOK /\ Slots
      /\ \A w \in Targets : copyQ[w][layer] = << >>
      /\ copyQ' = OnCopyStreams(Pending)
  BY DEF SyncTargets, hostVars, reqVars, IInv, Pending
<1>2. InputsStaged' /\ ComputedSteps'
  BY <1>1
  DEF IInv, InputsStaged, ComputedSteps, Staged, Reached, Real, CurrentStep, gpuVars
<1>3. ASSUME NEW w \in Workers, NEW l \in Layers
      PROVE  copyQ'[w][l] = IF w \in Targets /\ l = layer THEN Pending
                            ELSE copyQ[w][l]
  BY <1>1, ExtendedStreams, Streams
<1>4. ASSUME NEW w \in Workers, w \in Targets, NEW l \in Layers, l = layer
      PROVE  Slot(w, l)'
  <2> DEFINE c == gpu[w].step
             s == pinned[w[1]][l]
             cs == CurrentStep(w[1])
  <2>1. /\ Real(w[1], cs) /\ s < cs
        /\ copyQ[w][l] = << >> /\ copyQ'[w][l] = Pending
    BY <1>1, <1>3, <1>4, CurrentDue
  <2>2. c \in Nat /\ cs \in Nat /\ s \in Int /\ WaitOp(l) \in Nat
        /\ gpu[w].op \in Nat
    <3>1. w[1] \in DPRanks
      BY WorkerParts
    <3>2. c \in 1..MaxSteps + 1 /\ cs \in 1..MaxSteps + 1 /\ gpu[w].op \in 0..ReleaseOp
      BY <1>1, GpuPosition
    <3>3. s \in Int
      BY <1>1, <3>1, PinnedType
    <3>4. WaitOp(l) \in Nat /\ ReleaseOp \in Nat
      BY LayerOps
    <3> QED
      BY <3>2, <3>3, <3>4
  <2>3. Slot(w, l)
    BY <1>1 DEF Slots
  <2>4. CASE c = cs /\ gpu[w].op <= WaitOp(l)
    <3>1. Expecting(w, l)
      BY <2>1, <2>2, <2>3, <2>4 DEF Slot
    <3>2. flag[w][l] = 0
      BY <2>1, <2>2, <2>4, <3>1 DEF Expecting
    <3>3. Expecting(w, l)'
      BY <1>1, <2>1, <2>4, <3>2 DEF Expecting, gpuVars
    <3>4. Real(w[1], gpu[w].step)' /\ ~ (gpu'[w].op > WaitOp(l))
      BY <1>1, <2>1, <2>2, <2>4 DEF Real, gpuVars
    <3> QED
      BY <3>3, <3>4 DEF Slot
  <2>5. CASE gpu[w].op > WaitOp(l)
    <3>1. Holding(w, l)
      BY <2>3, <2>5 DEF Slot
    <3>2. Holding(w, l)'
      BY <1>1, <2>1, <3>1, Streams DEF Holding, gpuVars, Real
    <3> QED
      BY <1>1, <2>5, <3>2 DEF Slot, gpuVars
  <2> QED
    BY <2>1, <2>4, <2>5, Uncomputed
<1>5. Slots'
  <2> SUFFICES ASSUME NEW w \in Workers, NEW l \in Layers PROVE Slot(w, l)'
    BY DEF Slots
  <2>1. CASE w \in Targets /\ l = layer
    BY <1>1, <1>4, <2>1
  <2>2. CASE ~ (w \in Targets /\ l = layer)
    BY <1>1, <1>3, <2>2, SlotFrame DEF Slots, gpuVars
  <2> QED
    BY <2>1, <2>2
<1>6. Syncing'
  <2>1. Targets' = Targets
    BY <1>1 DEF Targets, CurrentRequest
  <2>2. \A w \in Targets : w \in Workers /\ copyQ'[w][layer] = Pending
    <3>1. \A w \in Targets : w \in Workers
      BY <1>1, CurrentDue, RankWorkers DEF Targets
    <3> QED
      BY <1>1, <1>3, <3>1, CurrentDue
  <2>3. \A w \in Workers : \A l \in Layers :
          copyQ'[w][l] = Pending => w \in Targets /\ l = layer
    BY <1>1, <1>3 DEF Syncing
  <2> QED
    BY <1>1, <2>1, <2>2, <2>3 DEF Syncing
<1>7. RequestsFresh' /\ RequestsDistinct'
  BY <1>1
  DEF IInv, RequestsFresh, RequestsDistinct, Fresh, ToDo, Real, CurrentStep, gpuVars
<1>8. RequestsOrdered'
  <2>1. ASSUME NEW d \in DPRanks, NEW s \in Steps, Unpublished(d, s)
        PROVE  StaysUnpublished(d, s)
    <3>1. Unread(d)' = Unread(d) /\ CurrentStep(d)' = CurrentStep(d)
      BY <1>1 DEF Unread, CurrentStep, gpuVars
    <3> QED
      BY <1>1, <2>1, <3>1 DEF Unpublished, StaysUnpublished, Real
  <2> QED
    BY <1>1, <2>1, OrderedFrame DEF IInv
<1> QED
  BY <1>2, <1>5, <1>6, <1>7, <1>8 DEF Rest

\* What computing a layer writes, and what the turn of the loops leaves to do.
LEMMA ComputeEffect ==
  ASSUME IInv, ComputeLayer
  PROVE  /\ \A d \in DPRanks : \A l \in Layers :
              pinned'[d][l] = IF d = CurrentRequest.dp /\ l = layer
                              THEN CurrentStep(d) ELSE pinned[d][l]
         /\ \A w \in Workers : \A l \in Layers :
              copyQ'[w][l] = IF w[1] = CurrentRequest.dp /\ l = layer
                             THEN copyQ[w][l] \o Delivering ELSE copyQ[w][l]
         /\ phase' # "compute"
         /\ phase' # "receive" => index' \in DOMAIN batch'
         /\ phase' = "receive" => layer' = 1 /\ index' = 1
         /\ \A j \in DOMAIN batch' : j \in DOMAIN batch /\ batch'[j] = batch[j]
         /\ \A j \in DOMAIN batch' :
              /\ layer' < NumLayers \/ index' <= j => layer < NumLayers \/ index <= j
              /\ \A l \in Layers :
                   ToDo(j, l)' => ToDo(j, l) /\ ~ (j = index /\ l = layer)
<1>1. /\ TypeOK /\ phase = "compute"
      /\ pinned' = [pinned EXCEPT ![CurrentRequest.dp][layer] = inBuf[CurrentRequest.dp]]
      /\ copyQ' = OnCopyStreams(Delivering) /\ NextPair
  BY DEF IInv, ComputeLayer, Delivering
<1>2. /\ CurrentRequest.dp \in DPRanks /\ index \in DOMAIN batch /\ layer \in Layers
      /\ inBuf[CurrentRequest.dp] = CurrentStep(CurrentRequest.dp)
      /\ \A w \in Workers : w \in Targets <=> w[1] = CurrentRequest.dp
  BY <1>1, CurrentDue, UnreadInputs
<1>3. \A d \in DPRanks : \A l \in Layers :
        pinned'[d][l] = IF d = CurrentRequest.dp /\ l = layer
                        THEN CurrentStep(d) ELSE pinned[d][l]
  <2>1. pinned \in [DPRanks -> [Layers -> Content]]
    BY <1>1 DEF TypeOK, CpuTypes
  <2> QED
    BY <1>1, <1>2, <2>1
<1>4. \A w \in Workers : \A l \in Layers :
        copyQ'[w][l] = IF w[1] = CurrentRequest.dp /\ l = layer
                       THEN copyQ[w][l] \o Delivering ELSE copyQ[w][l]
  BY <1>1, <1>2, ExtendedStreams
<1>5. /\ batch \in Seq(Requests) /\ index \in Nat /\ index > 0
      /\ layer \in 1..NumLayers /\ NumLayers \in Nat
  BY <1>1, ConstantsAssumption DEF TypeOK, CpuTypes, Layers
<1>6. \/ /\ index < Len(batch)
         /\ phase' = "sync" /\ index' = index + 1 /\ UNCHANGED <<layer, batch>>
      \/ /\ layer < NumLayers
         /\ phase' = "sync" /\ index' = 1 /\ layer' = layer + 1 /\ batch' = batch
      \/ /\ phase' = "receive" /\ index' = 1 /\ layer' = 1 /\ batch' = << >>
  BY <1>1 DEF NextPair
<1>7. /\ phase' # "compute"
      /\ phase' # "receive" => index' \in DOMAIN batch'
      /\ phase' = "receive" => layer' = 1 /\ index' = 1
      /\ \A j \in DOMAIN batch' : j \in DOMAIN batch /\ batch'[j] = batch[j]
  BY <1>2, <1>5, <1>6
<1>8. ASSUME NEW j \in DOMAIN batch'
      PROVE  /\ layer' < NumLayers \/ index' <= j => layer < NumLayers \/ index <= j
             /\ \A l \in Layers :
                  ToDo(j, l)' => ToDo(j, l) /\ ~ (j = index /\ l = layer)
  <2>1. \/ index' = index + 1 /\ layer' = layer
        \/ layer < NumLayers /\ index' = 1 /\ layer' = layer + 1
    BY <1>6, <1>8
  <2>2. j \in Nat
    BY <1>5, <1>7, <1>8
  <2>3. \A l \in Layers : l \in Nat
    BY <1>5 DEF Layers
  <2> QED
    BY <1>5, <2>1, <2>2, <2>3 DEF ToDo
<1> QED
  BY <1>3, <1>4, <1>7, <1>8

LEMMA ComputeSlot ==
  ASSUME IInv, ComputeLayer, NEW w \in Workers, NEW l \in Layers
  PROVE  Slot(w, l)'
<1>1. /\ TypeOK /\ Syncing /\ Slot(w, l) /\ phase = "compute"
      /\ UNCHANGED <<kind, gpuVars>>
  BY DEF IInv, Slots, ComputeLayer, hostVars
<1>2. w[1] \in DPRanks
  BY WorkerParts
<1>3. CASE w[1] = CurrentRequest.dp /\ l = layer
  <2> DEFINE c == gpu[w].step
             s == pinned[w[1]][l]
             cs == CurrentStep(w[1])
  <2>1. /\ Real(w[1], cs) /\ s < cs /\ w \in Targets
        /\ pinned'[w[1]][l] = cs /\ copyQ'[w][l] = copyQ[w][l] \o Delivering
    BY <1>1, <1>2, <1>3, CurrentDue, ComputeEffect
  <2>2. c \in Nat /\ cs \in Nat /\ s \in Int /\ WaitOp(l) \in Nat
        /\ gpu[w].op \in Nat
    <3>1. c \in 1..MaxSteps + 1 /\ cs \in 1..MaxSteps + 1 /\ gpu[w].op \in 0..ReleaseOp
      BY <1>1, GpuPosition
    <3> QED
      BY <1>1, <1>2, <3>1, PinnedType, LayerOps
  <2>3. \/ copyQ[w][l] = Pending /\ copyQ'[w][l] = Delivery
        \/ copyQ[w][l] = << >> /\ flag[w][l] = 0 /\ copyQ'[w][l] = Delivering
    BY <1>1, <1>3, <2>1, Streams DEF Syncing
  <2>4. CASE c = cs /\ gpu[w].op <= WaitOp(l)
    <3>1. Expecting(w, l)
      BY <1>1, <2>1, <2>2, <2>4 DEF Slot
    <3>2. flag[w][l] = 0
      BY <2>1, <2>2, <2>4, <3>1 DEF Expecting
    <3>3. Expecting(w, l)'
      BY <1>1, <2>1, <2>3, <2>4, <3>2 DEF Expecting, gpuVars
    <3>4. Real(w[1], gpu[w].step)' /\ ~ (gpu'[w].op > WaitOp(l))
      BY <1>1, <2>1, <2>2, <2>4 DEF Real, gpuVars
    <3> QED
      BY <3>3, <3>4 DEF Slot
  <2>5. CASE c = cs - 1 /\ gpu[w].op > WaitOp(l)
    <3>1. Holding(w, l)
      BY <1>1, <2>5 DEF Slot
    <3>2. copyQ'[w][l] = Delivery
      BY <2>3, <3>1 DEF Holding
    <3>3. cs = c + 1 /\ cs >= c
      BY <2>2, <2>5
    <3>4. Holding(w, l)'
      BY <1>1, <2>1, <3>1, <3>2, <3>3 DEF Holding, gpuVars, Real
    <3> QED
      BY <1>1, <2>5, <3>4 DEF Slot, gpuVars
  <2> QED
    BY <2>1, <2>4, <2>5, Uncomputed
<1>4. CASE ~ (w[1] = CurrentRequest.dp /\ l = layer)
  <2>1. pinned'[w[1]][l] = pinned[w[1]][l] /\ copyQ'[w][l] = copyQ[w][l]
    BY <1>2, <1>4, ComputeEffect
  <2> QED
    BY <1>1, <2>1, SlotFrame DEF gpuVars
<1> QED
  BY <1>3, <1>4

LEMMA ComputeRequests ==
  ASSUME IInv, ComputeLayer
  PROVE  RequestsFresh' /\ RequestsDistinct' /\ RequestsOrdered'
<1>1. /\ TypeOK /\ RequestsFresh /\ RequestsDistinct /\ RequestsOrdered
      /\ UNCHANGED <<kind, launched, gpu, queue, thread, socket>>
      /\ phase = "compute"
  BY DEF IInv, ComputeLayer, hostVars, gpuVars, reqVars
<1>2. /\ index \in DOMAIN batch /\ layer \in Layers /\ index \in Nat
      /\ CurrentRequest = batch[index] /\ Unread(CurrentRequest.dp)
      /\ CurrentRequest.dp \in DPRanks
  BY <1>1, CurrentDue DEF CurrentRequest, TypeOK, CpuTypes
<1>3. ASSUME NEW i \in DOMAIN socket
      PROVE  socket[i].dp # CurrentRequest.dp /\ socket[i].dp \in DPRanks
  <2>1. socket[i] \in Requests
    BY <1>1 DEF TypeOK, RequestTypes
  <2> QED
    BY <1>1, <1>2, <2>1 DEF RequestsDistinct, Requests
<1>4. RequestsFresh'
  <2>1. ASSUME NEW i \in DOMAIN socket, NEW l \in Layers
        PROVE  pinned'[socket[i].dp][l] < socket[i].step
    BY <1>1, <1>3, ComputeEffect DEF RequestsFresh
  <2>2. ASSUME NEW j \in DOMAIN batch', NEW l \in Layers, ToDo(j, l)'
        PROVE  /\ j \in DOMAIN batch /\ batch'[j] = batch[j] /\ Fresh(batch[j])
               /\ pinned'[batch[j].dp][l] < batch[j].step
    <3>1. /\ j \in DOMAIN batch /\ batch'[j] = batch[j]
          /\ ToDo(j, l) /\ ~ (j = index /\ l = layer)
      BY <2>2, ComputeEffect
    <3>2. batch[j] \in Requests
      BY <1>1, <3>1 DEF TypeOK, CpuTypes
    <3>3. batch[j].dp \in DPRanks
      BY <3>2 DEF Requests
    <3>4. batch[j].dp = CurrentRequest.dp => j = index
      BY <1>1, <1>2, <3>1 DEF RequestsDistinct
    <3>5. pinned'[batch[j].dp][l] = pinned[batch[j].dp][l]
      BY <3>1, <3>3, <3>4, ComputeEffect
    <3> QED
      BY <1>1, <3>1, <3>5 DEF RequestsFresh
  <2> QED
    BY <1>1, <2>1, <2>2 DEF RequestsFresh, Fresh, Real, CurrentStep
<1>5. RequestsDistinct'
  <2>1. \A i, j \in DOMAIN batch' : batch'[i].dp = batch'[j].dp => i = j
    BY <1>1, ComputeEffect DEF RequestsDistinct
  <2>2. \A i \in DOMAIN socket : \A j \in DOMAIN batch' :
          batch'[j].dp = socket[i].dp => ~ (layer' < NumLayers \/ index' <= j)
    BY <1>1, ComputeEffect DEF RequestsDistinct
  <2> QED
    BY <1>1, <2>1, <2>2 DEF RequestsDistinct
<1>6. RequestsOrdered'
  <2>1. ASSUME NEW d \in DPRanks, NEW s \in Steps, Unpublished(d, s)
        PROVE  StaysUnpublished(d, s)
    <3>1. Unread(d)' => Unread(d)
      <4>1. ASSUME NEW j \in DOMAIN batch', batch'[j].dp = d,
                   layer' < NumLayers \/ index' <= j
            PROVE  Unread(d)
        BY <4>1, ComputeEffect DEF Unread
      <4> QED
        BY <1>1, <4>1 DEF Unread
    <3>2. CurrentStep(d)' = CurrentStep(d)
      BY <1>1 DEF CurrentStep
    <3>3. \A l \in Layers : pinned'[d][l] < s
      BY <1>2, <2>1, ComputeEffect DEF Unpublished
    <3> QED
      BY <1>1, <2>1, <3>1, <3>2, <3>3 DEF Unpublished, StaysUnpublished, Real
  <2> QED
    BY <1>1, <2>1, OrderedFrame
<1> QED
  BY <1>4, <1>5, <1>6

LEMMA ComputeRest ==
  ASSUME IInv, ComputeLayer
  PROVE  Rest'
<1>1. /\ UNCHANGED <<kind, gpuVars>> /\ phase = "compute"
      /\ TypeOK /\ Syncing /\ InputsStaged /\ ComputedSteps
  BY DEF ComputeLayer, hostVars, IInv
<1>2. InputsStaged'
  BY <1>1 DEF InputsStaged, Staged, Reached, Real, CurrentStep, gpuVars
<1>3. ComputedSteps'
  <2> SUFFICES ASSUME NEW d \in DPRanks, NEW l \in Layers
               PROVE  \/ pinned'[d][l] = Garbage
                      \/ Real(d, pinned[d][l])' /\ Staged(d, pinned[d][l])'
    BY DEF ComputedSteps
  <2>1. CASE d = CurrentRequest.dp /\ l = layer
    <3>1. /\ pinned'[d][l] = CurrentStep(d) /\ Real(d, CurrentStep(d))
          /\ gpu[Leader(d)].op > 0
      BY <1>1, <2>1, ComputeEffect, CurrentDue
    <3>2. gpu[Leader(d)].op >= 1
      BY <1>1, <3>1, RankWorkers DEF TypeOK, GpuTypes
    <3> QED
      BY <1>1, <3>1, <3>2 DEF Real, Staged, Reached, CurrentStep, gpuVars
  <2>2. CASE ~ (d = CurrentRequest.dp /\ l = layer)
    <3>1. pinned'[d][l] = pinned[d][l]
      BY <2>2, ComputeEffect
    <3> QED
      BY <1>1, <3>1 DEF ComputedSteps, Real, Staged, Reached, gpuVars
  <2> QED
    BY <2>1, <2>2
<1>4. Slots'
  BY ComputeSlot DEF Slots
<1>5. Syncing'
  <2>1. ASSUME NEW w \in Workers, NEW l \in Layers
        PROVE  copyQ'[w][l] # Pending
    <3>1. CASE w[1] = CurrentRequest.dp /\ l = layer
      <4>1. w \in Targets
        BY <1>1, <3>1, CurrentDue
      <4>2. copyQ[w][l] \in {Pending, << >>}
        BY <1>1, <3>1, <4>1 DEF Syncing
      <4> QED
        BY <3>1, <4>2, ComputeEffect, Streams
    <3>2. CASE ~ (w[1] = CurrentRequest.dp /\ l = layer)
      <4>1. copyQ'[w][l] = copyQ[w][l]
        BY <3>2, ComputeEffect
      <4> QED
        BY <1>1, <3>2, <4>1, CurrentDue DEF Syncing
    <3> QED
      BY <3>1, <3>2
  <2> QED
    BY <2>1, ComputeEffect DEF Syncing
<1> QED
  BY <1>2, <1>3, <1>4, <1>5, ComputeRequests DEF Rest

LEMMA CpuRest ==
  ASSUME IInv, CpuStep
  PROVE  Rest'
BY ReceiveRest, DrainedRest, SyncRest, ComputeRest DEF CpuStep

-----------------------------------------------------------------------------
(* No request is lost.                                                     *)

LEMMA KeptFrame ==
  ASSUME NEW d \in DPRanks, NEW s \in Steps, Kept(d, s),
         queue'[d] = queue[d], thread'[d] = thread[d],
         UNCHANGED <<socket, pinned, batch, layer, index>>
  PROVE  Kept(d, s)'
BY DEF Kept, ToDo

LEMMA KeptNext ==
  ASSUME RequestsKept, UNCHANGED <<kind, launched>>,
         \A d \in DPRanks : \A s \in Steps : Kept(d, s) => Kept(d, s)'
  PROVE  RequestsKept'
BY DEF RequestsKept, Real

LEMMA HostKept ==
  ASSUME IInv, NEW w \in Workers, HostStep(w)
  PROVE  RequestsKept'
<1> DEFINE e == w[1]
<1>1. /\ RequestsKept /\ launched \in [Workers -> 0..MaxSteps]
      /\ queue \in [DPRanks -> Seq(Steps)]
      /\ UNCHANGED <<thread, socket, pinned, batch, layer, index, kind>>
      /\ w \in Workers /\ w[1] \in DPRanks
  <2>1. RequestsKept /\ HostTypes /\ RequestTypes
    BY DEF IInv, TypeOK
  <2>2. LaunchQuietly(w) \/ LaunchRequest(w[1]) \/ LaunchRaises(w[1])
    BY DEF HostStep
  <2>3. UNCHANGED <<thread, socket, pinned, batch, layer, index, kind>>
    BY <2>2 DEF LaunchQuietly, LaunchRequest, LaunchRaises, reqVars, cpuVars
  <2> QED
    BY <2>1, <2>3, WorkerParts DEF HostTypes, RequestTypes
<1>2. SUFFICES ASSUME NEW d \in DPRanks, NEW s \in Steps, Real(d, s),
                      s <= launched'[Leader(d)]
               PROVE  Kept(d, s)'
  BY <1>1 DEF RequestsKept, Real
<1>3. Leader(d) \in Workers /\ Leader(d)[1] = d /\ Leader(d)[2] = 0
  BY RankWorkers
<1>4. CASE s <= launched[Leader(d)] /\ queue'[d] = queue[d]
  BY <1>1, <1>2, <1>4, KeptFrame DEF RequestsKept
<1>5. CASE LaunchQuietly(w)
  <2>1. queue' = queue /\ launched' = [launched EXCEPT ![w] = @ + 1]
    BY <1>5 DEF LaunchQuietly, reqVars
  <2>2. CASE w = Leader(d)
    <3>1. s # launched[w] + 1
      BY <1>2, <1>3, <1>5, <2>2 DEF LaunchQuietly
    <3> QED
      BY <1>1, <1>2, <1>3, <1>4, <2>1, <2>2, <3>1 DEF Steps
  <2>3. CASE w # Leader(d)
    BY <1>1, <1>2, <1>3, <1>4, <2>1, <2>3
  <2> QED
    BY <2>2, <2>3
<1>6. CASE LaunchRaises(w[1])
  BY <1>2, <1>4, <1>6 DEF LaunchRaises, reqVars
<1>7. CASE LaunchRequest(w[1])
  <2>1. /\ queue' = [queue EXCEPT ![e] = Append(@, launched[Leader(e)] + 1)]
        /\ launched' = [launched EXCEPT ![Leader(e)] = @ + 1]
        /\ Real(e, launched[Leader(e)] + 1)
    BY <1>7 DEF LaunchRequest
  <2>2. CASE d # e
    <3>1. Leader(d) # Leader(e)
      BY <2>2 DEF Leader
    <3> QED
      BY <1>1, <1>2, <1>3, <1>4, <2>1, <2>2, <3>1
  <2>3. CASE d = e
    <3>1. PICK q, x, n : q = queue[d] /\ x = launched[Leader(d)] + 1 /\ n = Len(q)
      OBVIOUS
    <3>2. q \in Seq(Steps) /\ x \in Steps /\ n \in Nat /\ queue'[d] = Append(q, x)
      BY <1>1, <2>1, <2>3, <3>1 DEF Real
    <3>3. /\ \A i \in DOMAIN q : i \in DOMAIN queue'[d] /\ queue'[d][i] = q[i]
          /\ n + 1 \in DOMAIN queue'[d] /\ queue'[d][n + 1] = x
      BY <3>1, <3>2
    <3>4. CASE s = x
      BY <3>3, <3>4 DEF Kept
    <3>5. CASE s <= launched[Leader(d)]
      <4>1. Kept(d, s)
        BY <1>1, <1>2, <3>5 DEF RequestsKept
      <4> QED
        BY <1>1, <3>1, <3>3, <4>1 DEF Kept, ToDo
    <3>6. s = x \/ s <= launched[Leader(d)]
      BY <1>1, <1>2, <1>3, <2>1, <2>3, <3>1 DEF Steps
    <3> QED
      BY <3>4, <3>5, <3>6
  <2> QED
    BY <2>2, <2>3
<1> QED
  BY <1>5, <1>6, <1>7 DEF HostStep

LEMMA RequestKept ==
  ASSUME IInv, NEW e \in DPRanks, RequestStep(e)
  PROVE  RequestsKept'
<1>1. /\ RequestsKept /\ UNCHANGED <<pinned, batch, layer, index, kind, launched>>
      /\ queue \in [DPRanks -> Seq(Steps)] /\ socket \in Seq(Requests)
      /\ thread \in [DPRanks -> [pc : {"idle", "waiting", "published"}, step : 0..MaxSteps]]
  BY RequestFrame DEF IInv, TypeOK, RequestTypes, hostVars, cpuVars
<1>2. SUFFICES ASSUME NEW d \in DPRanks, NEW s \in Steps, Kept(d, s)
               PROVE  Kept(d, s)'
  BY <1>1, KeptNext
<1>3. CASE TakeRequest(e)
  <2>1. /\ socket' = socket /\ thread[e].pc = "idle" /\ queue[e] # << >>
        /\ thread' = [thread EXCEPT ![e] = [pc |-> "waiting", step |-> Head(queue[e])]]
        /\ queue' = [queue EXCEPT ![e] = Tail(@)]
    BY <1>3 DEF TakeRequest
  <2>2. CASE d # e
    BY <1>1, <1>2, <2>1, <2>2, KeptFrame
  <2>3. CASE d = e
    <3>1. PICK q : q = queue[d]
      OBVIOUS
    <3>2. /\ q \in Seq(Steps) /\ q # << >> /\ queue'[d] = Tail(q)
          /\ thread'[d].pc = "waiting" /\ thread'[d].step = Head(q) /\ thread[d].pc = "idle"
      BY <1>1, <2>1, <2>3, <3>1
    <3>3. \A i \in DOMAIN q : q[i] = Head(q) \/ (i - 1 \in DOMAIN Tail(q) /\ Tail(q)[i - 1] = q[i])
      BY <3>2
    <3>4. CASE \E i \in DOMAIN q : q[i] = s
      BY <3>2, <3>3, <3>4 DEF Kept
    <3>5. CASE ~(\E i \in DOMAIN q : q[i] = s)
      BY <1>1, <1>2, <2>1, <3>1, <3>2, <3>5 DEF Kept, ToDo
    <3> QED
      BY <3>4, <3>5
  <2> QED
    BY <2>2, <2>3
<1>4. CASE PublishRequest(e)
  <2>1. /\ queue' = queue /\ thread[e].pc = "waiting"
        /\ socket' = Append(socket, [dp |-> e, step |-> thread[e].step])
        /\ thread' = [thread EXCEPT ![e].pc = "published"]
    BY <1>4 DEF PublishRequest
  <2>2. PICK n, r : n = Len(socket) /\ r = [dp |-> e, step |-> thread[e].step]
    OBVIOUS
  <2>3. /\ \A i \in DOMAIN socket : i \in DOMAIN socket' /\ socket'[i] = socket[i]
        /\ n + 1 \in DOMAIN socket' /\ socket'[n + 1] = r
    <3>1. socket' = Append(socket, r) /\ n \in Nat
      BY <1>1, <2>1, <2>2
    <3> QED
      BY <1>1, <2>2, <3>1
  <2>4. CASE thread[d].pc = "waiting" /\ thread[d].step = s /\ d = e
    BY <2>2, <2>3, <2>4 DEF Kept
  <2>5. CASE ~(thread[d].pc = "waiting" /\ thread[d].step = s) \/ d # e
    <3>1. d # e => thread'[d] = thread[d]
      BY <1>1, <2>1
    <3> QED
      BY <1>1, <1>2, <2>1, <2>3, <2>5, <3>1 DEF Kept, ToDo
  <2> QED
    BY <2>4, <2>5
<1>5. CASE ReturnEvent(e)
  <2>1. /\ queue' = queue /\ socket' = socket /\ thread[e].pc = "published"
        /\ thread' = [thread EXCEPT ![e] = Idle]
    BY <1>5 DEF ReturnEvent
  <2>2. d # e => thread'[d] = thread[d]
    BY <1>1, <2>1
  <2> QED
    BY <1>1, <1>2, <2>1, <2>2 DEF Kept, ToDo
<1> QED
  BY <1>3, <1>4, <1>5 DEF RequestStep

LEMMA ReceiveKept ==
  ASSUME IInv, Receive
  PROVE  RequestsKept'
<1>1. /\ RequestsKept /\ UNCHANGED <<queue, thread, pinned, layer, index, kind, launched>>
      /\ layer = 1 /\ index = 1
  BY DEF IInv, Receive, Syncing, hostVars, reqVars
<1>2. SUFFICES ASSUME NEW d \in DPRanks, NEW s \in Steps, Kept(d, s)
               PROVE  Kept(d, s)'
  BY <1>1, KeptNext
<1>3. /\ socket \in Seq(Requests) /\ socket # << >> /\ batch \in Seq(Requests)
      /\ batch' = Append(batch, socket[1]) /\ socket' = Tail(socket)
  BY ReceivedAppended
<1>4. PICK n, r : n = Len(batch) /\ r = socket[1]
  OBVIOUS
<1>5. /\ \A i \in DOMAIN batch : i \in DOMAIN batch' /\ batch'[i] = batch[i]
      /\ n + 1 \in DOMAIN batch' /\ batch'[n + 1] = r /\ n + 1 >= 1
  <2>1. r \in Requests /\ n \in Nat /\ batch' = Append(batch, r)
    BY <1>3, <1>4
  <2> QED
    BY <1>3, <1>4, <2>1
<1>6. \A i \in DOMAIN socket : socket[i] = r \/ (i - 1 \in DOMAIN socket' /\ socket'[i - 1] = socket[i])
  BY <1>3, <1>4
<1>7. \A l \in Layers : ToDo(n + 1, l)'
  BY <1>1, <1>5 DEF ToDo, Layers
<1>8. CASE r = [dp |-> d, step |-> s]
  BY <1>5, <1>7, <1>8 DEF Kept
<1>9. CASE r # [dp |-> d, step |-> s]
  BY <1>1, <1>2, <1>5, <1>6, <1>9 DEF Kept, ToDo
<1> QED
  BY <1>8, <1>9

\* What is still to be done after a layer of a rank: all but that.
LEMMA ComputeLeaves ==
  ASSUME IInv, ComputeLayer, NEW j \in DOMAIN batch, NEW l \in Layers, ToDo(j, l),
         ~(j = index /\ l = layer)
  PROVE  j \in DOMAIN batch' /\ batch'[j] = batch[j] /\ ToDo(j, l)'
<1>1. NextPair /\ TypeOK
  BY DEF ComputeLayer, IInv
<1>2. /\ batch \in Seq(Requests) /\ index \in Nat /\ layer \in 1..NumLayers
      /\ NumLayers \in Nat /\ l \in 1..NumLayers
  BY <1>1, ConstantsAssumption DEF TypeOK, CpuTypes, Layers
<1>3. j \in 1..Len(batch) /\ Len(batch) \in Nat
  BY <1>2
<1>4. \/ l > layer
      \/ l = layer /\ j > index
  BY <1>2, <1>3 DEF ToDo
<1>5. CASE index < Len(batch)
  BY <1>1, <1>2, <1>3, <1>4, <1>5 DEF NextPair, ToDo
<1>6. CASE ~(index < Len(batch))
  <2>1. l > layer /\ layer < NumLayers
    BY <1>2, <1>3, <1>4, <1>6
  <2> QED
    BY <1>1, <1>2, <1>3, <1>6, <2>1 DEF NextPair, ToDo
<1> QED
  BY <1>5, <1>6

LEMMA ComputeKept ==
  ASSUME IInv, ComputeLayer
  PROVE  RequestsKept'
<1>1. /\ RequestsKept /\ UNCHANGED <<queue, thread, socket, kind, launched>>
      /\ TypeOK /\ phase # "receive"
  BY DEF IInv, ComputeLayer, hostVars, reqVars
<1>2. SUFFICES ASSUME NEW d \in DPRanks, NEW s \in Steps, Kept(d, s)
               PROVE  Kept(d, s)'
  BY <1>1, KeptNext
<1>3. ASSUME NEW l \in Layers, pinned[d][l] >= s
      PROVE  pinned'[d][l] >= s
  <2>1. CASE d = CurrentRequest.dp /\ l = layer
    <3>1. pinned[d][l] < CurrentStep(d) /\ pinned'[d][l] = CurrentStep(d)
      BY <1>1, <2>1, CurrentDue, ComputeEffect
    <3>2. pinned[d][l] \in Int /\ CurrentStep(d) \in Int /\ s \in Int
      BY <1>1, PinnedType, RankWorkers, GpuPosition DEF Steps
    <3> QED
      BY <1>3, <3>1, <3>2
  <2>2. CASE ~(d = CurrentRequest.dp /\ l = layer)
    BY <1>3, <2>2, ComputeEffect
  <2> QED
    BY <2>1, <2>2
<1>4. ASSUME NEW l \in Layers, NEW i \in DOMAIN batch, ToDo(i, l), batch[i] = [dp |-> d, step |-> s]
      PROVE  \/ pinned'[d][l] >= s
             \/ \E j \in DOMAIN batch' : ToDo(j, l)' /\ batch'[j] = [dp |-> d, step |-> s]
  <2>1. CASE i = index /\ l = layer
    <3>1. CurrentRequest.dp = d /\ CurrentRequest.step = s
      BY <1>4, <2>1 DEF CurrentRequest
    <3>2. pinned'[d][l] = s /\ s \in Int
      BY <1>1, <2>1, <3>1, CurrentDue, ComputeEffect DEF Steps
    <3> QED
      BY <3>2
  <2>2. CASE ~(i = index /\ l = layer)
    BY <1>4, <2>2, ComputeLeaves
  <2> QED
    BY <2>1, <2>2
<1> QED
  BY <1>1, <1>2, <1>3, <1>4 DEF Kept

LEMMA KeptStep ==
  ASSUME IInv, [Next]_vars
  PROVE  RequestsKept'
<1>1. RequestsKept
  BY DEF IInv
<1>2. CASE UNCHANGED <<kind, launched, queue, thread, socket, pinned, batch, layer, index>>
  BY <1>1, <1>2, KeptFrame, KeptNext
<1>3. CASE UNCHANGED vars
  BY <1>2, <1>3 DEF vars, hostVars, reqVars, cpuVars
<1>4. ASSUME NEW w \in Workers, GpuStep(w) PROVE RequestsKept'
  BY <1>2, <1>4, GpuFrame DEF hostVars, reqVars, cpuVars
<1>5. ASSUME NEW w \in Workers, NEW l \in Layers, CopyStep(w, l) PROVE RequestsKept'
  BY <1>2, <1>5, CopyFrame DEF hostVars, reqVars, cpuVars
<1>6. CASE Drained \/ SyncTargets
  BY <1>2, <1>6 DEF Drained, SyncTargets, hostVars, reqVars
<1>7. CASE CpuStep
  BY <1>6, <1>7, ReceiveKept, ComputeKept DEF CpuStep
<1> QED
  BY <1>3, <1>4, <1>5, <1>7, HostKept, RequestKept DEF Next

-----------------------------------------------------------------------------
(* The invariant.                                                          *)

LEMMA InitIInv == Init => IInv
<1> SUFFICES ASSUME Init PROVE IInv
  OBVIOUS
<1>1. TypeOK /\ EventsAccounted
  BY TypeInit
<1>2. /\ launched = [w \in Workers |-> 0]
      /\ gpu = [w \in Workers |-> [step |-> 1, op |-> 0]]
      /\ flag = [w \in Workers |-> [l \in Layers |-> 0]]
      /\ pinned = [d \in DPRanks |-> [l \in Layers |-> Garbage]]
      /\ copyQ = [w \in Workers |-> [l \in Layers |-> << >>]]
      /\ queue = [d \in DPRanks |-> << >>]
      /\ thread = [d \in DPRanks |-> Idle]
      /\ socket = << >> /\ batch = << >> /\ phase = "receive"
      /\ layer = 1 /\ index = 1
  BY DEF Init
<1>3. \A w \in Workers : gpu[w].step = 1 /\ gpu[w].op = 0 /\ launched[w] = 0
  BY <1>2
<1>4. Positions
  BY <1>3 DEF Positions
<1>5. Lockstep
  <2> SUFFICES ASSUME NEW d \in DPRanks, NEW t \in TPRanks,
                      NEW s \in 1..MaxSteps + 1, NEW l \in Layers
               PROVE  ~ Reached(<<d, t>>, s, CollectiveOp(l) + 1)
    BY DEF Lockstep
  <2>1. CollectiveOp(l) \in Nat /\ s >= 1 /\ <<d, t>> \in Workers
    BY LayerOps, RankWorkers
  <2> QED
    BY <1>3, <2>1 DEF Reached
<1>6. InputsStaged
  <2> SUFFICES ASSUME NEW d \in DPRanks PROVE ~ Staged(d, CurrentStep(d))
    BY DEF InputsStaged
  <2>1. Leader(d) \in Workers
    BY RankWorkers
  <2> QED
    BY <1>3, <2>1 DEF Staged, Reached, CurrentStep
<1>7. ComputedSteps
  BY <1>2 DEF ComputedSteps
<1>8. Slots
  <2> SUFFICES ASSUME NEW w \in Workers, NEW l \in Layers PROVE Slot(w, l)
    BY DEF Slots
  <2>1. /\ w[1] \in DPRanks /\ WaitOp(l) \in Nat
        /\ pinned[w[1]][l] = -1 /\ flag[w][l] = 0 /\ copyQ[w][l] = << >>
    BY <1>2, WorkerParts, LayerOps DEF Garbage
  <2> QED
    BY <1>3, <2>1 DEF Slot, Expecting, Undisturbed
<1>9. Syncing
  BY <1>2, Streams DEF Syncing
<1>10. RequestsFresh /\ RequestsDistinct
  BY <1>2 DEF RequestsFresh, RequestsDistinct
<1>11. RequestsOrdered
  BY <1>2 DEF RequestsOrdered, Idle
<1>12. RequestsKept
  <2> SUFFICES ASSUME NEW d \in DPRanks, NEW s \in Steps PROVE ~(s <= launched[Leader(d)])
    BY DEF RequestsKept
  <2> QED
    BY <1>3, RankWorkers DEF Steps
<1> QED
  BY <1>1, <1>4, <1>5, <1>6, <1>7, <1>8, <1>9, <1>10, <1>11, <1>12 DEF IInv

LEMMA NextIInv == IInv /\ [Next]_vars => IInv'
<1> SUFFICES ASSUME IInv, [Next]_vars PROVE IInv'
  OBVIOUS
<1>1. TypeOK' /\ EventsAccounted' /\ Positions' /\ Lockstep'
  BY TypeStep, PositionsStep, LockstepStep DEF IInv
<1>0. RequestsKept'
  BY KeptStep
<1>2. ASSUME UNCHANGED vars PROVE Rest'
  <2>1. /\ UNCHANGED <<kind, launched, gpuVars, cpuVars, copyQ, queue, thread,
                       socket>>
    BY <1>2 DEF vars, hostVars, reqVars
  <2>2. (InputsStaged /\ ComputedSteps /\ Slots /\ Syncing)'
    BY <2>1, BufferFrame DEF IInv
  <2>3. (RequestsFresh /\ RequestsDistinct)'
    BY <2>1, RequestFrames DEF IInv, gpuVars
  <2>4. RequestsOrdered'
    <3>1. ASSUME NEW d \in DPRanks, NEW s \in Steps, Unpublished(d, s)
          PROVE  StaysUnpublished(d, s)
      <4>1. Unread(d)' = Unread(d) /\ CurrentStep(d)' = CurrentStep(d)
        BY <2>1 DEF Unread, CurrentStep, gpuVars, cpuVars
      <4> QED
        BY <2>1, <3>1, <4>1 DEF Unpublished, StaysUnpublished, Real, cpuVars
    <3> QED
      BY <2>1, <3>1, OrderedFrame DEF IInv
  <2> QED
    BY <2>2, <2>3, <2>4 DEF Rest
<1>3. ASSUME NEW w \in Workers, HostStep(w) PROVE Rest'
  BY <1>1, <1>3, HostRest
<1>4. ASSUME NEW w \in Workers, GpuStep(w) PROVE Rest'
  BY <1>4, GpuRest
<1>5. ASSUME NEW d \in DPRanks, RequestStep(d) PROVE Rest'
  BY <1>5, RequestRest
<1>6. ASSUME CpuStep PROVE Rest'
  BY <1>6, CpuRest
<1>7. ASSUME NEW w \in Workers, NEW l \in Layers, CopyStep(w, l) PROVE Rest'
  BY <1>7, CopyRest
<1>8. Rest'
  BY <1>2, <1>3, <1>4, <1>5, <1>6, <1>7 DEF Next
<1> QED
  BY <1>0, <1>1, <1>8 DEF IInv, Rest

\* Every state the exchange reaches satisfies the inductive invariant,
\* whatever the numbers of ranks, layers, steps and concurrent batches.
THEOREM Invariance == Spec => []IInv
BY InitIInv, NextIInv, PTL DEF Spec

\* Every variable of the exchange keeps its type: no buffer ever holds
\* anything but the result of a step, zeros or memory nobody wrote, and the
\* event pool never holds more events than it was built with.
THEOREM TypeCorrect == Spec => []TypeOK
<1>1. IInv => TypeOK
  BY DEF IInv
<1> QED
  BY <1>1, Invariance, PTL

\* What a layer reads once ple_offload_wait has let it pass is the embedding
\* of the step it runs, and zeros in a dummy step: no stale buffer, whatever
\* the order in which hosts, streams and the CPU process run.
THEOREM LayersReadTheirStep == Spec => []ReadsOwnStep
<1>1. IInv => ReadsOwnStep
  <2> SUFFICES ASSUME IInv, NEW w \in Workers, NEW l \in Layers, InUse(w, l)
               PROVE  outBuf[w][l] = IF Real(w[1], gpu[w].step) THEN gpu[w].step
                                     ELSE Zeros
    BY DEF ReadsOwnStep
  <2>1. Holding(w, l)
    BY DEF IInv, Slots, Slot, InUse
  <2> QED
    BY <2>1 DEF Holding
<1> QED
  BY <1>1, Invariance, PTL

\* The branch of _handle_requests that skips a second request of the same DP
\* rank is never taken: no request is dropped, and no worker waits for ever
\* on a result that was thrown away.
THEOREM RequestsAreKept == Spec => []NoDuplicate
<1>1. IInv => NoDuplicate
  <2> SUFFICES ASSUME IInv, NEW i \in DOMAIN socket
               PROVE  /\ \A j \in DOMAIN socket : socket[i].dp = socket[j].dp => i = j
                      /\ phase = "receive" =>
                           \A j \in DOMAIN batch : batch[j].dp # socket[i].dp
    BY DEF NoDuplicate
  <2>1. \A j \in DOMAIN socket : socket[i].dp = socket[j].dp => i = j
    BY DEF IInv, RequestsDistinct
  <2>2. ASSUME phase = "receive", NEW j \in DOMAIN batch
        PROVE  batch[j].dp # socket[i].dp
    <3>1. index = 1 /\ batch \in Seq(Requests)
      BY <2>2 DEF IInv, Syncing, TypeOK, CpuTypes
    <3>2. index <= j
      BY <3>1
    <3> QED
      BY <3>2 DEF IInv, RequestsDistinct
  <2> QED
    BY <2>1, <2>2
<1> QED
  BY <1>1, Invariance, PTL

\* From the wait to the release of a step the output buffer of a layer is not
\* written: the H2D copy of the next step queues up behind wait_reset.
THEOREM BuffersAreHeld == Spec => BufferHeld
<1> DEFINE Held == \A w \in Workers, l \in Layers :
                     InUse(w, l) => outBuf'[w][l] = outBuf[w][l]
<1>1. IInv /\ [Next]_vars => [Held]_vars
  <2> SUFFICES ASSUME IInv, Next, NEW v \in Workers, NEW m \in Layers, InUse(v, m)
               PROVE  outBuf'[v][m] = outBuf[v][m]
    OBVIOUS
  <2>1. gpu[v].op > WaitOp(m)
    BY DEF InUse
  <2>2. ASSUME NEW w \in Workers, GpuStep(w) PROVE outBuf'[v][m] = outBuf[v][m]
    <3>1. ~ (v = w /\ StageDummy(w))
      BY <2>1, LayerOps DEF StageDummy, At
    <3>2. outBuf \in [Workers -> [Layers -> Content]]
      BY DEF IInv, TypeOK, GpuTypes
    <3> QED
      BY <2>2, <3>1, <3>2
      DEF GpuStep, StageReal, StageDummy, WaitDone, Collective, Release
  <2>3. ASSUME NEW w \in Workers, NEW l \in Layers, CopyStep(w, l)
        PROVE  outBuf'[v][m] = outBuf[v][m]
    BY <2>1, <2>3, CopyEffect
  <2>4. CASE UNCHANGED outBuf
    BY <2>4
  <2> QED
    BY <2>2, <2>3, <2>4, HostFrame, RequestFrame, CpuFrame DEF Next, gpuVars
<1> QED
  BY <1>1, Invariance, PTL DEF Spec, BufferHeld

\* The CPU process reads the shared inputs of a rank once for every layer; the
\* rank does not stage the next step before the last of these reads.
THEOREM InputsAreHeld == Spec => InputsHeld
<1> DEFINE Held == \A d \in DPRanks : Unread(d) => inBuf'[d] = inBuf[d]
<1>1. IInv /\ [Next]_vars => [Held]_vars
  <2> SUFFICES ASSUME IInv, Next, NEW d \in DPRanks, Unread(d)
               PROVE  inBuf'[d] = inBuf[d]
    OBVIOUS
  <2>1. ASSUME NEW w \in Workers, GpuStep(w) PROVE inBuf'[d] = inBuf[d]
    <3>1. inBuf \in [DPRanks -> Content]
      BY DEF IInv, TypeOK, GpuTypes
    <3>2. ASSUME StageReal(w), w[2] = 0 PROVE w[1] # d
      <4>1. w # Leader(d)
        BY <3>2, UnreadRequest DEF StageReal, At
      <4> QED
        BY <3>2, <4>1, WorkerParts DEF Leader
    <3> QED
      BY <2>1, <3>1, <3>2
      DEF GpuStep, StageReal, StageDummy, WaitDone, Collective, Release
  <2>2. CASE UNCHANGED inBuf
    BY <2>2
  <2> QED
    BY <2>1, <2>2, HostFrame, RequestFrame, CpuFrame, CopyFrame DEF Next, gpuVars
<1> QED
  BY <1>1, Invariance, PTL DEF Spec, InputsHeld

-----------------------------------------------------------------------------
(* Nobody waits in a circle.                                               *)

LEMMA OpKinds ==
  ASSUME NEW o \in 0..ReleaseOp
  PROVE  \/ o = 0 \/ o = ReleaseOp
         \/ \E l \in Layers : o = WaitOp(l) \/ o = CollectiveOp(l)
<1> DEFINE l == (o + 1) \div 2
<1>1. NumLayers \in Nat /\ o \in Nat /\ o <= 2 * NumLayers + 1
  BY ConstantsAssumption DEF ReleaseOp
<1>2. CASE o # 0 /\ o # 2 * NumLayers + 1
  <2>1. l \in 1..NumLayers /\ (o = 2 * l - 1 \/ o = 2 * l)
    BY <1>1, <1>2
  <2> QED
    BY <2>1 DEF Layers, WaitOp, CollectiveOp
<1> QED
  BY <1>2 DEF ReleaseOp

\* A rank at a collective that another rank of its group has passed goes on.
LEMMA CollectiveOpens ==
  ASSUME IInv, NEW w \in Workers, NEW u \in Workers, u[1] = w[1],
         NEW l \in Layers, gpu[w].op = CollectiveOp(l),
         Reached(u, gpu[w].step, CollectiveOp(l) + 1)
  PROVE  GpuCan(w)
<1>1. TypeOK /\ Positions /\ Lockstep
  BY DEF IInv
<1>2. /\ w[1] \in DPRanks /\ u[2] \in TPRanks /\ u = <<w[1], u[2]>>
      /\ gpu[w].step \in 1..MaxSteps + 1
  BY <1>1, WorkerParts, GpuPosition
<1>3. \A t \in TPRanks : Reached(<<w[1], t>>, gpu[w].step, CollectiveOp(l))
  BY <1>1, <1>2 DEF Lockstep
<1>4. At(w, CollectiveOp(l))
  BY <1>1, LayerOps DEF Positions, At
<1> QED
  BY <1>3, <1>4 DEF GpuCan

\* When everything is quiet no copy stream waits: a result that is held back
\* until the release of the step before belongs to a rank that can release.
LEMMA QuietStreams ==
  ASSUME IInv, Quiet, NEW w \in Workers, NEW l \in Layers
  PROVE  copyQ[w][l] = << >>
<1> DEFINE d == w[1]
           c == gpu[w].step
<1>1. /\ TypeOK /\ Positions /\ Lockstep /\ ComputedSteps /\ Slot(w, l)
      /\ copyQ[w][l] = Pending => phase = "compute"
  BY DEF IInv, Slots, Syncing
<1>2. ~ GpuCan(w) /\ ~ CopyCan(w, l) /\ phase # "compute"
  BY DEF Quiet, CpuCan
<1>3. SUFFICES ASSUME copyQ[w][l] # << >> PROVE FALSE
  OBVIOUS
<1>4. copyQ[w][l] # Pending /\ copyQ[w][l] # Delivering /\ copyQ[w][l] # Arriving
  BY <1>1, <1>2, <1>3, Streams DEF CopyCan, HeadOp
<1>5. copyQ[w][l] = Delivery => flag[w][l] # 0
  BY <1>2, Streams DEF CopyCan, HeadOp
<1>6. Holding(w, l)
  BY <1>1, <1>3, <1>4, <1>5 DEF Slot, Expecting, Undisturbed
<1>7. pinned[d][l] = c + 1
  BY <1>3, <1>4, <1>6 DEF Holding
<1>8. /\ d \in DPRanks /\ Leader(d) \in Workers /\ Leader(d)[1] = d
      /\ c \in 1..MaxSteps + 1 /\ gpu[w].op \in 0..ReleaseOp
      /\ CurrentStep(d) \in 1..MaxSteps + 1 /\ CurrentStep(d) = gpu[Leader(d)].step
  BY <1>1, WorkerParts, RankWorkers, GpuPosition
<1>9. Staged(d, c + 1)
  <2>1. c + 1 # Garbage
    BY <1>8 DEF Garbage
  <2> QED
    BY <1>1, <1>7, <1>8, <2>1 DEF ComputedSteps
<1>10. CurrentStep(d) >= c + 1
  BY <1>8, <1>9 DEF Staged, Reached
<1>11. gpu[w].op >= CollectiveOp(NumLayers) /\ CurrentStep(d) = c + 1
  BY <1>1, <1>8, <1>10, Together
<1>12. gpu[w].op = ReleaseOp \/ gpu[w].op = CollectiveOp(NumLayers)
  BY <1>8, <1>11, ConstantsAssumption DEF ReleaseOp, CollectiveOp
<1>13. CASE gpu[w].op = ReleaseOp
  BY <1>1, <1>2, <1>8, <1>13, LayerOps DEF Positions, At, GpuCan
<1>14. CASE gpu[w].op = CollectiveOp(NumLayers)
  <2>1. Reached(Leader(d), c, CollectiveOp(NumLayers) + 1)
    BY <1>8, <1>11 DEF Reached
  <2> QED
    BY <1>2, <1>8, <1>14, <2>1, CollectiveOpens, LayerOps
<1> QED
  BY <1>12, <1>13, <1>14

LEMMA QuietCpu ==
  ASSUME IInv, Quiet
  PROVE  phase = "receive" /\ batch = << >> /\ socket = << >>
<1>1. ~ CpuCan /\ phase \in {"receive", "sync", "compute"} /\ layer \in Layers
  BY DEF Quiet, IInv, TypeOK, CpuTypes
<1>2. phase # "sync"
  <2>1. SUFFICES ASSUME phase = "sync" PROVE CpuCan
    BY <1>1
  <2>2. phase # "receive" /\ IInv
    BY <2>1
  <2>3. \A w \in Targets : w \in Workers
    <3>1. CurrentRequest.dp \in DPRanks
      BY <2>2, CurrentDue
    <3> QED
      BY <3>1, RankWorkers DEF Targets
  <2>4. \A w \in Targets : copyQ[w][layer] = << >>
    BY <1>1, <2>3, QuietStreams
  <2> QED
    BY <2>1, <2>4 DEF CpuCan
<1> QED
  BY <1>1, <1>2 DEF CpuCan

\* A rank at the wait of a step its leader was given finds the result there.
LEMMA QuietWaits ==
  ASSUME IInv, Quiet, NEW w \in Workers, NEW l \in Layers,
         gpu[w].op = WaitOp(l), gpu[w].step <= launched[Leader(w[1])]
  PROVE  FALSE
<1> DEFINE d == w[1]
           c == gpu[w].step
           q == thread[d].step
<1>1. /\ TypeOK /\ Positions /\ RequestsOrdered /\ RequestsKept /\ Slot(w, l)
      /\ Lockstep
  BY DEF IInv, Slots
<1>2. /\ d \in DPRanks /\ Leader(d) \in Workers /\ Leader(d)[1] = d
      /\ c \in 1..MaxSteps + 1 /\ gpu[Leader(d)].op \in 0..ReleaseOp
      /\ CurrentStep(d) \in 1..MaxSteps + 1 /\ CurrentStep(d) = gpu[Leader(d)].step
      /\ launched[Leader(d)] \in Nat /\ NumLayers \in Layers
  BY <1>1, WorkerParts, RankWorkers, GpuPosition, LayerOps DEF TypeOK, HostTypes
<1>3. ~ GpuCan(w) /\ ~ GpuCan(Leader(d)) /\ ~ RequestCan(d)
  BY <1>2 DEF Quiet
<1>4. flag[w][l] # 1
  <2>1. At(w, WaitOp(l))
    BY <1>1, LayerOps DEF Positions, At
  <2> QED
    BY <1>3, <2>1 DEF GpuCan
<1>5. copyQ[w][l] = << >> /\ phase = "receive" /\ batch = << >> /\ socket = << >>
  BY QuietStreams, QuietCpu
<1>6. Real(d, c) /\ pinned[d][l] < c
  <2>1. ~ (gpu[w].op > WaitOp(l)) /\ gpu[w].op # 0
    BY LayerOps
  <2> QED
    BY <1>1, <1>4, <1>5, <2>1, Streams DEF Slot, Expecting, Undisturbed
<1>7. Kept(d, c)
  BY <1>1, <1>2, <1>6 DEF RequestsKept, Real
<1>8. (\E i \in DOMAIN queue[d] : queue[d][i] = c) \/ (thread[d].pc = "waiting" /\ q = c)
  BY <1>1, <1>2, <1>5, <1>6, <1>7, PinnedType DEF Kept
<1>9. thread[d].pc = "waiting"
  <2>1. thread[d].pc \in {"idle", "waiting", "published"}
    BY <1>1, <1>2 DEF TypeOK, RequestTypes
  <2> QED
    BY <1>3, <1>8, <2>1 DEF RequestCan
<1>10. q \in Steps /\ q <= c /\ CurrentStep(d) <= q /\ q <= launched[Leader(d)]
  <2>1. /\ q \in Steps /\ Unpublished(d, q)
        /\ \A i \in DOMAIN queue[d] : q < queue[d][i]
    BY <1>1, <1>2, <1>9, OpenRequests
  <2>2. q <= c
    BY <1>2, <1>8, <2>1 DEF Steps
  <2> QED
    BY <2>1, <2>2 DEF Unpublished
<1>11. ~ Staged(d, q)
  BY <1>3, <1>9 DEF RequestCan
<1>12. CurrentStep(d) < q
  <2>1. CASE CurrentStep(d) = q
    <3>1. gpu[Leader(d)].op = 0
      BY <1>2, <1>11, <2>1 DEF Staged, Reached
    <3>2. At(Leader(d), 0)
      BY <1>2, <1>10, <2>1, <3>1 DEF At
    <3> QED
      BY <1>3, <3>2 DEF GpuCan
  <2> QED
    BY <1>2, <1>10, <2>1 DEF Steps
<1>13. c = CurrentStep(d) + 1 /\ gpu[Leader(d)].op >= CollectiveOp(NumLayers)
  <2>1. c >= CurrentStep(d) + 1
    BY <1>2, <1>10, <1>12 DEF Steps
  <2> QED
    BY <1>1, <1>2, <2>1, Together
<1>14. \/ gpu[Leader(d)].op = ReleaseOp
       \/ gpu[Leader(d)].op = CollectiveOp(NumLayers)
  BY <1>2, <1>13, ConstantsAssumption DEF ReleaseOp, CollectiveOp
<1>15. CASE gpu[Leader(d)].op = ReleaseOp
  BY <1>1, <1>2, <1>3, <1>15, LayerOps DEF Positions, At, GpuCan
<1>16. CASE gpu[Leader(d)].op = CollectiveOp(NumLayers)
  <2>1. Reached(w, gpu[Leader(d)].step, CollectiveOp(NumLayers) + 1)
    BY <1>2, <1>13 DEF Reached
  <2> QED
    BY <1>2, <1>3, <1>16, <2>1, CollectiveOpens
<1> QED
  BY <1>14, <1>15, <1>16

\* What is left is a rank at a collective that waits for another rank.
LEMMA QuietCollective ==
  ASSUME IInv, Quiet, NEW w \in Workers,
         gpu[w].step <= launched[w], gpu[w].step <= launched[Leader(w[1])]
  PROVE  \E l \in Layers : \E t \in TPRanks :
           /\ gpu[w].op = CollectiveOp(l)
           /\ ~ Reached(<<w[1], t>>, gpu[w].step, CollectiveOp(l))
<1>1. gpu[w].op \in 0..ReleaseOp
  BY GpuPosition DEF IInv
<1>2. ~ GpuCan(w)
  BY DEF Quiet
<1>3. gpu[w].op # 0 /\ gpu[w].op # ReleaseOp
  BY <1>2 DEF GpuCan, At
<1>4. \A l \in Layers : gpu[w].op # WaitOp(l)
  BY QuietWaits
<1>5. PICK l \in Layers : gpu[w].op = CollectiveOp(l)
  BY <1>1, <1>3, <1>4, OpKinds
<1>6. ~ \A t \in TPRanks : Reached(<<w[1], t>>, gpu[w].step, CollectiveOp(l))
  BY <1>2, <1>5 DEF GpuCan, At
<1> QED
  BY <1>5, <1>6

\* The model streams, the copy streams, the request threads and the CPU loop
\* never wait for each other in a circle: once none of them can go on, every
\* step that all TP ranks of a DP rank have launched is finished on all of
\* them, and no request, batch or copy is left in between.
THEOREM ExchangeNeverStuck == Spec => []NeverStuck
<1>1. ASSUME IInv, Quiet, NEW d \in DPRanks, NEW s \in Steps,
             \A t \in TPRanks : launched[<<d, t>>] >= s, NEW t \in TPRanks
      PROVE  gpu[<<d, t>>].step > s
  <2> DEFINE u == <<d, t>>
  <2>1. /\ IInv /\ Quiet /\ TypeOK /\ Lockstep
        /\ \A x \in TPRanks : <<d, x>> \in Workers
        /\ Leader(d) = <<d, 0>> /\ 0 \in TPRanks
    BY <1>1, RankWorkers DEF IInv, Leader
  <2>2. \A x \in TPRanks : /\ gpu[<<d, x>>].step \in 1..MaxSteps + 1
                           /\ gpu[<<d, x>>].op \in 0..ReleaseOp
                           /\ launched[<<d, x>>] \in Nat
    BY <2>1, GpuPosition DEF TypeOK, HostTypes
  <2>3. SUFFICES ASSUME gpu[u].step <= s PROVE FALSE
    BY <2>2 DEF Steps
  <2>4. ASSUME NEW x \in TPRanks, gpu[<<d, x>>].step <= s
        PROVE  \E l \in Layers : \E y \in TPRanks :
                 /\ gpu[<<d, x>>].op = CollectiveOp(l)
                 /\ ~ Reached(<<d, y>>, gpu[<<d, x>>].step, CollectiveOp(l))
    <3>1. /\ gpu[<<d, x>>].step <= launched[<<d, x>>]
          /\ gpu[<<d, x>>].step <= launched[Leader(d)]
          /\ <<d, x>> \in Workers /\ <<d, x>>[1] = d
      BY <1>1, <2>1, <2>2, <2>4 DEF Steps
    <3> QED
      BY <2>1, <3>1, QuietCollective
  <2>5. PICK l \in Layers, y \in TPRanks :
          gpu[u].op = CollectiveOp(l) /\ ~ Reached(<<d, y>>, gpu[u].step, CollectiveOp(l))
    BY <2>3, <2>4
  <2> DEFINE v == <<d, y>>
  <2>6. gpu[v].step <= gpu[u].step /\ gpu[v].step <= s
    BY <2>2, <2>3, <2>5 DEF Reached, Steps
  <2>7. PICK k \in Layers, z \in TPRanks :
          gpu[v].op = CollectiveOp(k) /\ ~ Reached(<<d, z>>, gpu[v].step, CollectiveOp(k))
    BY <2>4, <2>6
  <2>8. Reached(u, gpu[v].step, CollectiveOp(k) + 1)
    <3>1. CollectiveOp(k) \in Nat /\ CollectiveOp(l) \in Nat
      BY LayerOps
    <3>2. gpu[v].step = gpu[u].step => CollectiveOp(k) < CollectiveOp(l)
      BY <2>2, <2>5, <2>7, <3>1 DEF Reached
    <3> QED
      BY <2>2, <2>5, <2>6, <3>1, <3>2 DEF Reached
  <2>9. Reached(<<d, z>>, gpu[v].step, CollectiveOp(k))
    BY <2>1, <2>2, <2>8 DEF Lockstep
  <2> QED
    BY <2>7, <2>9
<1>2. IInv => NeverStuck
  BY <1>1, QuietStreams, QuietCpu DEF NeverStuck
<1> QED
  BY <1>2, Invariance, PTL

\* A rising sequence leaves no gap too small for its length.
LEMMA RisingRoom ==
  ASSUME NEW n \in Nat, NEW a \in Int, NEW q,
         \A i \in 1..n : q[i] \in Int /\ a <= q[i],
         \A i, j \in 1..n : i < j => q[i] < q[j]
  PROVE  \A i \in 1..n : a + i - 1 <= q[i]
<1> DEFINE P == {k \in 0..n : k # 0 => a + k - 1 <= q[k]}
<1>1. 0 \in P
  OBVIOUS
<1>2. \A k \in 0..n - 1 : k \in P => k + 1 \in P
  <2>1. SUFFICES ASSUME NEW k \in 0..n - 1, k \in P PROVE k + 1 \in P
    OBVIOUS
  <2>2. k + 1 \in 1..n /\ k + 1 \in 0..n /\ (k + 1) - 1 = k
    OBVIOUS
  <2>3. CASE k = 0
    <3>1. k + 1 = 1 /\ a <= q[k + 1] /\ q[k + 1] \in Int
      BY <2>2, <2>3
    <3> QED
      BY <2>2, <3>1
  <2>4. CASE k # 0
    <3>1. k \in 1..n /\ k < k + 1
      BY <2>4
    <3>2. q[k] < q[k + 1] /\ q[k] \in Int /\ q[k + 1] \in Int
      BY <2>2, <3>1
    <3>3. a + k - 1 <= q[k]
      BY <2>1, <2>4
    <3> QED
      BY <2>2, <3>2, <3>3
  <2> QED
    BY <2>3, <2>4
<1>3. 0..n \subseteq P
  <2> HIDE DEF P
  <2> QED
    BY <1>1, <1>2, Induction
<1>4. TAKE i \in 1..n
<1> QED
  BY <1>3, <1>4

\* The pool has one event for every batch in flight.  _launch raises only while
\* the request thread still holds the event of a request it has published,
\* with all other events queued behind it: one more event would do.
OneEventShort ==
  [][\A d \in DPRanks :
       LaunchRaises(d) => /\ thread[d].pc = "published" /\ pool[d] = 0
                          /\ Len(queue[d]) = MaxConcurrentBatches - 1]_vars

\* The failure of _launch has no other cause: without the event held back
\* between the send and its return, the pool of the connector never runs dry.
THEOREM PoolIsOneEventShort == Spec => OneEventShort
<1> DEFINE Short == \A d \in DPRanks :
                      LaunchRaises(d) => /\ thread[d].pc = "published" /\ pool[d] = 0
                                         /\ Len(queue[d]) = MaxConcurrentBatches - 1
<1>1. IInv => Short
  <2> SUFFICES ASSUME IInv, NEW d \in DPRanks, LaunchRaises(d)
               PROVE  /\ thread[d].pc = "published" /\ pool[d] = 0
                      /\ Len(queue[d]) = MaxConcurrentBatches - 1
    OBVIOUS
  <2>1. PICK n, max, free, first, last :
          /\ n = Len(queue[d]) /\ max = MaxConcurrentBatches /\ free = pool[d]
          /\ first = CurrentStep(d) /\ last = launched[Leader(d)]
    OBVIOUS
  <2>2. Leader(d) \in Workers
    BY RankWorkers
  <2>3. /\ queue[d] \in Seq(Steps) /\ n \in Nat /\ free \in 0..max /\ max \in Nat \ {0}
        /\ first \in Int /\ last \in Int
        /\ thread[d].pc \in {"idle", "waiting", "published"} /\ thread[d].step \in Int
    BY <2>1, <2>2, ConstantsAssumption
    DEF IInv, TypeOK, HostTypes, GpuTypes, RequestTypes, CurrentStep, Steps
  <2>4. last + 1 <= first - 1 + max /\ (free = 0 \/ n >= max)
    BY <2>1 DEF LaunchRaises, MayLaunch, Completed, CurrentStep, Leader
  <2>5. free + n + (IF thread[d].pc = "idle" THEN 0 ELSE 1) = max
    BY <2>1 DEF IInv, EventsAccounted
  <2>6. /\ \A i \in 1..n : queue[d][i] \in Steps /\ Unpublished(d, queue[d][i])
        /\ \A i, j \in 1..n : i < j => queue[d][i] < queue[d][j]
        /\ thread[d].pc = "waiting" =>
             /\ thread[d].step \in Steps /\ Unpublished(d, thread[d].step)
             /\ \A i \in 1..n : thread[d].step < queue[d][i]
    <3>1. DOMAIN queue[d] = 1..n
      BY <2>1, <2>3
    <3>2. RequestsOrdered
      BY DEF IInv
    <3> QED
      BY <3>1, <3>2, OpenRequests
  <2>7. \A i \in 1..n : queue[d][i] \in Int /\ first <= queue[d][i] /\ queue[d][i] <= last
    BY <2>1, <2>6 DEF Unpublished, Steps
  <2>8. first + n - 1 <= last \/ n = 0
    <3>1. \A i \in 1..n : first + i - 1 <= queue[d][i]
      BY <2>3, <2>6, <2>7, RisingRoom
    <3>2. n # 0 => n \in 1..n
      BY <2>3
    <3>3. n # 0 => first + n - 1 <= queue[d][n] /\ queue[d][n] <= last /\ queue[d][n] \in Int
      BY <2>7, <3>1, <3>2
    <3> QED
      BY <2>3, <3>3
  <2>9. n < max
    BY <2>3, <2>4, <2>8
  <2>10. free = 0 /\ thread[d].pc # "idle" /\ n = max - 1
    BY <2>3, <2>4, <2>5, <2>9, SMTT(30)
  <2>11. thread[d].pc # "waiting"
    <3> SUFFICES ASSUME thread[d].pc = "waiting" PROVE FALSE
      OBVIOUS
    <3>1. PICK s : s = thread[d].step
      OBVIOUS
    <3>2. s \in Int /\ first <= s /\ s <= last /\ \A i \in 1..n : s + 1 <= queue[d][i]
      BY <2>1, <2>3, <2>6, <2>7, <3>1 DEF Unpublished
    <3>3. \A i \in 1..n : (s + 1) + i - 1 <= queue[d][i]
      <4>1. s + 1 \in Int
        BY <3>2
      <4>2. \A i \in 1..n : queue[d][i] \in Int /\ s + 1 <= queue[d][i]
        BY <2>7, <3>2
      <4> QED
        BY <2>3, <2>6, <4>1, <4>2, RisingRoom
    <3>4. n # 0 => n \in 1..n
      BY <2>3
    <3>5. n # 0 => s + n <= last
      BY <2>3, <2>7, <3>2, <3>3, <3>4, SMTT(30)
    <3>6. first + n <= last
      BY <2>3, <3>2, <3>5
    <3> QED
      BY <2>3, <2>4, <2>10, <3>6
  <2> QED
    BY <2>1, <2>3, <2>10, <2>11
<1>2. IInv /\ [Next]_vars => [Short]_vars
  BY <1>1
<1> QED
  BY <1>2, Invariance, PTL DEF Spec, OneEventShort
=============================================================================
