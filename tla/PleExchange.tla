----------------------------- MODULE PleExchange -----------------------------
(***************************************************************************)
(* The per-step exchange between the GPU workers and the PLE CPU-offload   *)
(* process (vllm/v1/ple_offload of the pinned tree): the connector of each *)
(* GPU worker, the request thread of TP rank 0, the request loop of the    *)
(* CPU process, one copy stream per GPU worker and layer, and the          *)
(* stream-ordered semaphore between a copy stream and a model stream.      *)
(*                                                                         *)
(* Data are abstracted to the step they belong to: an input buffer, a      *)
(* pinned scratch buffer or an output buffer holds the number of a step, 0 *)
(* for zeros, Garbage for memory nobody wrote.  GPU work is asynchronous:  *)
(* the host only moves `launched`, the model stream (`gpu`) runs the ops   *)
(* of the launched steps in order.                                         *)
(***************************************************************************)
EXTENDS Integers, Sequences, FiniteSets

CONSTANTS
  DPSize,               \* data-parallel ranks
  TPSize,               \* tensor-parallel ranks of each DP rank
  NumLayers,            \* PleOffloadLayers, in model traversal order
  MaxSteps,             \* bound: steps launched by each worker
  MaxConcurrentBatches  \* vllm_config.max_concurrent_batches

ASSUME ConstantsAssumption ==
  /\ DPSize \in Nat \ {0}
  /\ TPSize \in Nat \ {0}
  /\ NumLayers \in Nat \ {0}
  /\ MaxSteps \in Nat
  /\ MaxConcurrentBatches \in Nat \ {0}

DPRanks == 0..DPSize - 1
TPRanks == 0..TPSize - 1
Layers  == 1..NumLayers
Steps   == 1..MaxSteps
Workers == DPRanks \X TPRanks

Garbage == -1
Zeros   == 0
Content == {Garbage, Zeros} \cup Steps

VARIABLES
  kind,      \* kind[d][s]: what DP rank d runs as step s (scheduler's choice)
  launched,  \* launched[w]: steps whose ops the host has put on w's stream
  failed,    \* failed[d]: _launch raised on TP rank 0 of DP rank d
  gpu,       \* gpu[w]: next op of w's model stream
  flag,      \* flag[w][l]: the semaphore word, DONE = 1 or RESET = 0
  outBuf,    \* outBuf[w][l]: content of the GPU output buffer
  inBuf,     \* inBuf[d]: content of the shared input buffers of d
  queue,     \* queue[d]: the request queue of d's TP rank 0
  thread,    \* thread[d]: the request thread of d's TP rank 0
  pool,      \* pool[d]: D2H events free in the event pool
  socket,    \* requests published and not yet received
  phase,     \* the CPU loop: "receive", "sync" or "compute"
  batch,     \* requests_by_dp: the requests of this turn, in arrival order
  layer,     \* the layer of the outer loop of _handle_requests
  index,     \* the request of its inner loop
  pinned,    \* pinned[d][l]: content of the pinned scratch buffer
  copyQ      \* copyQ[w][l]: ops pending on the copy stream

hostVars == <<kind, launched, failed>>
gpuVars  == <<gpu, flag, outBuf, inBuf>>
reqVars  == <<queue, thread, pool>>
cpuVars  == <<phase, batch, layer, index, pinned>>
vars     == <<hostVars, gpuVars, reqVars, socket, cpuVars, copyQ>>

\* The ops of one step on a model stream, in order: Stage, then a Wait and a
\* Collective for every layer, then Release.
WaitOp(l)       == 2 * l - 1
CollectiveOp(l) == 2 * l
ReleaseOp       == 2 * NumLayers + 1

At(w, op) == gpu[w].op = op /\ gpu[w].step <= launched[w]

\* w is at or past op `op` of step s.
Reached(w, s, op) ==
  gpu[w].step > s \/ (gpu[w].step = s /\ gpu[w].op >= op)

Leader(d)     == <<d, 0>>
Real(d, s)    == s \in Steps /\ kind[d][s] = "real"
Staged(d, s)  == Reached(Leader(d), s, 1)
Completed(d)  == gpu[Leader(d)].step - 1
Idle          == [pc |-> "idle", step |-> 0]

Init ==
  /\ kind \in [DPRanks -> [Steps -> {"real", "dummy"}]]
  /\ launched = [w \in Workers |-> 0]
  /\ failed = [d \in DPRanks |-> FALSE]
  /\ gpu = [w \in Workers |-> [step |-> 1, op |-> 0]]
  /\ flag = [w \in Workers |-> [l \in Layers |-> 0]]
  /\ outBuf = [w \in Workers |-> [l \in Layers |-> Garbage]]
  /\ inBuf = [d \in DPRanks |-> Garbage]
  /\ queue = [d \in DPRanks |-> << >>]
  /\ thread = [d \in DPRanks |-> Idle]
  /\ pool = [d \in DPRanks |-> MaxConcurrentBatches]
  /\ socket = << >>
  /\ phase = "receive"
  /\ batch = << >>
  /\ layer = 1
  /\ index = 1
  /\ pinned = [d \in DPRanks |-> [l \in Layers |-> Garbage]]
  /\ copyQ = [w \in Workers |-> [l \in Layers |-> << >>]]

-----------------------------------------------------------------------------
(* The hosts of the GPU workers and the request thread.                    *)

\* The engine keeps at most MaxConcurrentBatches batches in flight: it
\* schedules a batch only after the output of the batch that many steps
\* earlier has come back from TP rank 0.
MayLaunch(w) ==
  /\ launched[w] < MaxSteps
  /\ ~failed[w[1]]
  /\ launched[w] + 1 <= Completed(w[1]) + MaxConcurrentBatches

\* prepare_forward, then the forward, then release_outputs: the host only
\* enqueues.  A dummy run, and every rank but TP rank 0, sends no request.
LaunchQuietly(w) ==
  /\ MayLaunch(w)
  /\ w[2] # 0 \/ ~Real(w[1], launched[w] + 1)
  /\ launched' = [launched EXCEPT ![w] = @ + 1]
  /\ UNCHANGED <<kind, failed, gpuVars, reqVars, socket, cpuVars, copyQ>>

\* _launch on TP rank 0: take an event from the pool, enqueue the D2H copies
\* and the event on the model stream, queue the request for the thread.
LaunchRequest(d) ==
  LET w == Leader(d) IN
  /\ MayLaunch(w)
  /\ Real(d, launched[w] + 1)
  /\ pool[d] > 0
  /\ Len(queue[d]) < MaxConcurrentBatches
  /\ pool' = [pool EXCEPT ![d] = @ - 1]
  /\ queue' = [queue EXCEPT ![d] = Append(@, launched[w] + 1)]
  /\ launched' = [launched EXCEPT ![w] = @ + 1]
  /\ UNCHANGED <<kind, failed, thread, gpuVars, socket, cpuVars, copyQ>>

\* get_nowait on an empty pool, or put_nowait on a full queue: _launch raises.
LaunchRaises(d) ==
  LET w == Leader(d) IN
  /\ MayLaunch(w)
  /\ Real(d, launched[w] + 1)
  /\ pool[d] = 0 \/ Len(queue[d]) >= MaxConcurrentBatches
  /\ failed' = [failed EXCEPT ![d] = TRUE]
  /\ UNCHANGED <<kind, launched, gpuVars, reqVars, socket, cpuVars, copyQ>>

\* _request_loop: take the next pending request.
TakeRequest(d) ==
  /\ thread[d].pc = "idle"
  /\ queue[d] # << >>
  /\ thread' = [thread EXCEPT ![d] = [pc |-> "waiting", step |-> Head(queue[d])]]
  /\ queue' = [queue EXCEPT ![d] = Tail(@)]
  /\ UNCHANGED <<hostVars, gpuVars, pool, socket, cpuVars, copyQ>>

\* Seeded fault: the thread does not wait for the D2H event.
PublishUnsynced(d) ==
  /\ thread[d].pc = "waiting"
  /\ socket' = Append(socket, [dp |-> d, step |-> thread[d].step])
  /\ thread' = [thread EXCEPT ![d].pc = "published"]
  /\ UNCHANGED <<hostVars, gpuVars, queue, pool, cpuVars, copyQ>>

\* _process_request: once the D2H event has completed, publish the request ...
PublishRequest(d) ==
  /\ thread[d].pc = "waiting"
  /\ Staged(d, thread[d].step)
  /\ socket' = Append(socket, [dp |-> d, step |-> thread[d].step])
  /\ thread' = [thread EXCEPT ![d].pc = "published"]
  /\ UNCHANGED <<hostVars, gpuVars, queue, pool, cpuVars, copyQ>>

\* ... and only then give the event back.
ReturnEvent(d) ==
  /\ thread[d].pc = "published"
  /\ pool' = [pool EXCEPT ![d] = @ + 1]
  /\ thread' = [thread EXCEPT ![d] = Idle]
  /\ UNCHANGED <<hostVars, gpuVars, queue, socket, cpuVars, copyQ>>

-----------------------------------------------------------------------------
(* The model stream of a GPU worker.                                       *)

Advance(w) == gpu' = [gpu EXCEPT ![w].op = @ + 1]

\* A real step on TP rank 0 copies the inputs to the shared buffers; on the
\* other ranks there is nothing to stage.
StageReal(w) ==
  /\ At(w, 0)
  /\ Real(w[1], gpu[w].step)
  /\ inBuf' = IF w[2] = 0 THEN [inBuf EXCEPT ![w[1]] = gpu[w].step] ELSE inBuf
  /\ Advance(w)
  /\ UNCHANGED <<hostVars, flag, outBuf, reqVars, socket, cpuVars, copyQ>>

\* Seeded fault: a dummy step leaves its waits to the CPU process.
StageDummySilent(w) ==
  /\ At(w, 0)
  /\ ~Real(w[1], gpu[w].step)
  /\ Advance(w)
  /\ UNCHANGED <<hostVars, flag, outBuf, inBuf, reqVars, socket, cpuVars, copyQ>>

\* signal_dummy_outputs: zero every output buffer and satisfy its wait locally.
StageDummy(w) ==
  /\ At(w, 0)
  /\ ~Real(w[1], gpu[w].step)
  /\ outBuf' = [outBuf EXCEPT ![w] = [l \in Layers |-> Zeros]]
  /\ flag' = [flag EXCEPT ![w] = [l \in Layers |-> 1]]
  /\ Advance(w)
  /\ UNCHANGED <<hostVars, inBuf, reqVars, socket, cpuVars, copyQ>>

\* Seeded fault: the wait is traced away and the layer goes straight on.
WaitElided(w, l) ==
  /\ At(w, WaitOp(l))
  /\ Advance(w)
  /\ UNCHANGED <<hostVars, flag, outBuf, inBuf, reqVars, socket, cpuVars, copyQ>>

\* ple_offload_wait: WaitValue32(flag == 1); the layer reads its buffer next.
WaitDone(w, l) ==
  /\ At(w, WaitOp(l))
  /\ flag[w][l] = 1
  /\ Advance(w)
  /\ UNCHANGED <<hostVars, flag, outBuf, inBuf, reqVars, socket, cpuVars, copyQ>>

\* The all-reduce that ends the layer: it returns on no rank of the TP group
\* before every rank of the group has reached it.
Collective(w, l) ==
  /\ At(w, CollectiveOp(l))
  /\ \A t \in TPRanks : Reached(<<w[1], t>>, gpu[w].step, CollectiveOp(l))
  /\ Advance(w)
  /\ UNCHANGED <<hostVars, flag, outBuf, inBuf, reqVars, socket, cpuVars, copyQ>>

\* Seeded fault: the semaphores are not reset at the end of the step.
ReleaseNoReset(w) ==
  /\ At(w, ReleaseOp)
  /\ gpu' = [gpu EXCEPT ![w] = [step |-> @.step + 1, op |-> 0]]
  /\ UNCHANGED <<hostVars, flag, outBuf, inBuf, reqVars, socket, cpuVars, copyQ>>

\* release_outputs, after the whole forward: WriteValue32(flag = 0).
Release(w) ==
  /\ At(w, ReleaseOp)
  /\ flag' = [flag EXCEPT ![w] = [l \in Layers |-> 0]]
  /\ gpu' = [gpu EXCEPT ![w] = [step |-> @.step + 1, op |-> 0]]
  /\ UNCHANGED <<hostVars, outBuf, inBuf, reqVars, socket, cpuVars, copyQ>>

GpuStep(w) ==
  \/ StageReal(w)
  \/ StageDummy(w)
  \/ \E l \in Layers : WaitDone(w, l) \/ Collective(w, l)
  \/ Release(w)

-----------------------------------------------------------------------------
(* The CPU process: PleOffloadRunner.busy_loop and _handle_requests.       *)

CurrentRequest == batch[index]
\* Seeded fault: only TP rank 0 of the requesting rank is served.
LeaderOnly     == {Leader(CurrentRequest.dp)}
Targets        == {<<CurrentRequest.dp, t>> : t \in TPRanks}

OnCopyStreams(ops) ==
  [w \in Workers |->
    [l \in Layers |-> IF w \in Targets /\ l = layer
                      THEN copyQ[w][l] \o ops ELSE copyQ[w][l]]]

\* busy_loop decodes everything the socket holds; _handle_requests keeps the
\* first request of every DP rank and skips a duplicate.
Receive ==
  /\ phase = "receive"
  /\ socket # << >>
  /\ batch' = IF \E i \in DOMAIN batch : batch[i].dp = Head(socket).dp
              THEN batch ELSE Append(batch, Head(socket))
  /\ socket' = Tail(socket)
  /\ UNCHANGED <<hostVars, gpuVars, reqVars, phase, layer, index, pinned, copyQ>>

\* recv(NOBLOCK) finds the socket empty (zmq.Again). The placeholders of drafts
\* in the shared inputs are clamped to 0 here, in place: the step they belong to,
\* all that the model keeps of them, does not change.
Drained ==
  /\ phase = "receive"
  /\ batch # << >>
  /\ socket = << >>
  /\ phase' = "sync"
  /\ UNCHANGED <<hostVars, gpuVars, reqVars, socket, batch, layer, index, pinned,
                 copyQ>>

\* Seeded fault: no wait for the release of the previous step.
SyncNoReset ==
  /\ phase = "sync"
  /\ \A w \in Targets : copyQ[w][layer] = << >>
  /\ copyQ' = OnCopyStreams(<< >>)
  /\ phase' = "compute"
  /\ UNCHANGED <<hostVars, gpuVars, reqVars, socket, batch, layer, index, pinned>>

\* For every target: copy_stream.synchronize(), then enqueue wait_reset.
SyncTargets ==
  /\ phase = "sync"
  /\ \A w \in Targets : copyQ[w][layer] = << >>
  /\ copyQ' = OnCopyStreams(<<"wait_reset">>)
  /\ phase' = "compute"
  /\ UNCHANGED <<hostVars, gpuVars, reqVars, socket, batch, layer, index, pinned>>

\* The two loops of _handle_requests: every rank of a layer, then the next.
NextPair ==
  IF index < Len(batch)
  THEN phase' = "sync" /\ index' = index + 1 /\ UNCHANGED <<layer, batch>>
  ELSE /\ index' = 1
       /\ IF layer < NumLayers
          THEN phase' = "sync" /\ layer' = layer + 1 /\ UNCHANGED batch
          ELSE phase' = "receive" /\ layer' = 1 /\ batch' = << >>

\* forward_impl reads the shared inputs and fills the pinned buffer; the
\* copy and the signal are enqueued for every target.
ComputeLayer ==
  LET d == CurrentRequest.dp IN
  /\ phase = "compute"
  /\ pinned' = [pinned EXCEPT ![d][layer] = inBuf[d]]
  /\ copyQ' = OnCopyStreams(<<"copy", "signal">>)
  /\ NextPair
  /\ UNCHANGED <<hostVars, gpuVars, reqVars, socket>>

CpuStep == Receive \/ Drained \/ SyncTargets \/ ComputeLayer

-----------------------------------------------------------------------------
(* A copy stream runs its ops in order.                                    *)

HeadOp(w, l, op) == copyQ[w][l] # << >> /\ Head(copyQ[w][l]) = op
PopOp(w, l)      == copyQ' = [copyQ EXCEPT ![w][l] = Tail(@)]

\* Seeded fault: the wait compares with the wrong value and passes at once.
WaitNothing(w, l) ==
  /\ HeadOp(w, l, "wait_reset")
  /\ PopOp(w, l)
  /\ UNCHANGED <<hostVars, gpuVars, reqVars, socket, cpuVars>>

\* CpuGpuSemaphore.wait_reset: WaitValue32(flag == 0).
WaitReset(w, l) ==
  /\ HeadOp(w, l, "wait_reset")
  /\ flag[w][l] = 0
  /\ PopOp(w, l)
  /\ UNCHANGED <<hostVars, gpuVars, reqVars, socket, cpuVars>>

\* The H2D copy reads the pinned buffer when it runs, not when it is enqueued.
CopyToGpu(w, l) ==
  /\ HeadOp(w, l, "copy")
  /\ outBuf' = [outBuf EXCEPT ![w][l] = pinned[w[1]][l]]
  /\ PopOp(w, l)
  /\ UNCHANGED <<hostVars, gpu, flag, inBuf, reqVars, socket, cpuVars>>

\* CpuGpuSemaphore.signal: WriteValue32(flag = 1).
Signal(w, l) ==
  /\ HeadOp(w, l, "signal")
  /\ flag' = [flag EXCEPT ![w][l] = 1]
  /\ PopOp(w, l)
  /\ UNCHANGED <<hostVars, gpu, outBuf, inBuf, reqVars, socket, cpuVars>>

CopyStep(w, l) == WaitReset(w, l) \/ CopyToGpu(w, l) \/ Signal(w, l)

-----------------------------------------------------------------------------
HostStep(w) ==
  \/ LaunchQuietly(w)
  \/ w[2] = 0 /\ (LaunchRequest(w[1]) \/ LaunchRaises(w[1]))

RequestStep(d) == TakeRequest(d) \/ PublishRequest(d) \/ ReturnEvent(d)

Next ==
  \/ \E w \in Workers : HostStep(w) \/ GpuStep(w)
  \/ \E d \in DPRanks : RequestStep(d)
  \/ CpuStep
  \/ \E w \in Workers, l \in Layers : CopyStep(w, l)

Spec == Init /\ [][Next]_vars

-----------------------------------------------------------------------------
(* Properties.                                                             *)

\* w has passed the wait of layer l in its current step and not released yet.
InUse(w, l) == gpu[w].step <= launched[w] /\ gpu[w].op > WaitOp(l)

\* The CPU process still has to read the inputs of rank d.
Unread(d) ==
  \/ \E i \in DOMAIN socket : socket[i].dp = d
  \/ \E i \in DOMAIN batch :
       batch[i].dp = d /\ (layer < NumLayers \/ index <= i)

\* What a layer reads after its wait is the result of this very step, and
\* zeros in a dummy step: never an older result, another rank's or garbage.
ReadsOwnStep ==
  \A w \in Workers, l \in Layers :
    InUse(w, l) =>
      outBuf[w][l] = IF Real(w[1], gpu[w].step) THEN gpu[w].step ELSE Zeros

\* _handle_requests never meets, and skips, a second request of a rank: what
\* it has received and what the socket still holds are of different ranks.
NoDuplicate ==
  \A i \in DOMAIN socket :
    /\ \A j \in DOMAIN socket : socket[i].dp = socket[j].dp => i = j
    /\ phase = "receive" =>
         \A j \in DOMAIN batch : batch[j].dp # socket[i].dp

\* No copy lands in an output buffer between the wait and the release of the
\* step that uses it.
BufferHeld ==
  [][\A w \in Workers, l \in Layers :
       InUse(w, l) => outBuf'[w][l] = outBuf[w][l]]_vars

\* The shared inputs do not change under a request the CPU process has not
\* finished with: the next step stages only after every layer was computed.
InputsHeld ==
  [][\A d \in DPRanks : Unread(d) => inBuf'[d] = inBuf[d]]_vars

\* The guards of the steps that need no new launch.
GpuCan(w) ==
  \/ At(w, 0)
  \/ \E l \in Layers : \/ At(w, WaitOp(l)) /\ flag[w][l] = 1
                       \/ /\ At(w, CollectiveOp(l))
                          /\ \A t \in TPRanks : Reached(<<w[1], t>>, gpu[w].step, CollectiveOp(l))
  \/ At(w, ReleaseOp)
RequestCan(d) ==
  \/ thread[d].pc = "idle" /\ queue[d] # << >>
  \/ thread[d].pc = "waiting" /\ Staged(d, thread[d].step)
  \/ thread[d].pc = "published"
CpuCan ==
  \/ phase = "receive" /\ (socket # << >> \/ batch # << >>)
  \/ phase = "sync" /\ \A w \in Targets : copyQ[w][layer] = << >>
  \/ phase = "compute"
CopyCan(w, l) ==
  \/ HeadOp(w, l, "wait_reset") /\ flag[w][l] = 0
  \/ HeadOp(w, l, "copy") \/ HeadOp(w, l, "signal")

Quiet ==
  /\ \A w \in Workers : ~GpuCan(w) /\ \A l \in Layers : ~CopyCan(w, l)
  /\ \A d \in DPRanks : ~RequestCan(d)
  /\ ~CpuCan

\* The model streams, the copy streams, the request threads and the CPU loop
\* never wait for each other in a circle: when none of them can go on, every
\* step all TP ranks have launched is finished and nothing is left in between.
NeverStuck ==
  Quiet =>
    /\ \A w \in Workers, l \in Layers : copyQ[w][l] = << >>
    /\ phase = "receive" /\ batch = << >> /\ socket = << >>
    /\ \A d \in DPRanks, s \in Steps :
         (\A t \in TPRanks : launched[<<d, t>>] >= s) =>
           \A t \in TPRanks : gpu[<<d, t>>].step > s

\* _launch never finds the event pool empty or the queue full: the engine has
\* no more batches in flight than max_concurrent_batches.
NeverFails == \A d \in DPRanks : ~failed[d]
==============================================================================
