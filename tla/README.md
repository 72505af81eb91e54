# Specifications of the flash-next serving stack

The repository builds and serves one model on four GPUs: vLLM v0.30.0 with a series of patches
(`release/v2.5/v2.5.2-combined.diff` is their sum), build and serve scripts, a topology selector, container
recipes, calibration tools and benchmarks. This directory holds TLA+ models of its concurrent and decision
logic, the TLC runs over them, and TLAPS proofs. `PROJECT.json` lists components, runs, seeded faults,
hazards and theorems, and maps every definition to the source lines it models.

Check one module with

    tlc -workers 2 -config MCGuardCalls.cfg MCGuardTelemetry
    tlapm GuardTelemetryProofs.tla      (TopoLaunchProofs, PleExchangeLemmas, PleExchangeProofs,
                                        PleOffloadProofs, ModelStepsProofs, DataLemmas,
                                        AlgorithmsProofs)

## 1. Inventory

| component | state | operations | interacts through | hard behaviour | what makes it correct |
|---|---|---|---|---|---|
| **Guard telemetry** `vllm/v1/worker/guard_telemetry.py`, callers in `gpu_worker.py` (diff 50987–52911) | counter buffers on the GPU, pinned mirrors, call generation, gate, park, sleep and stop flags, reports, pending stop | `engine_call`, `counter`, `check_pending`, reader loop, `suspend_reader`/`resume_reader`, `stop_reader`, `drain`, `enable_idle_gate` | condition variable, I/O lock, CUDA events, side-stream copies | reader against engine threads, sleep and shutdown; non-atomic copies; failed reads; cancelled drains; lost wakeups | nothing counted is missed when it parks, sleeps or shuts down; a fatal count stops the rank; no device work while parked or asleep |
| **Topology selector** `scripts/topo_select.py`, `AUTO_TOPO` part of `serve-v2.5.sh` | caller snapshot, machine facts, decision, environment file, exit status | resolve the lane, choose the order, bind, write and source the file | child process, exit statuses, file, watchdog | hung driver calls, late answers, half-applied files, meaning of numeric indices | never changes which GPUs were picked, never blocks a launch, leaves no trace when it fails, strict never guesses |
| **PLE offload v1** `v1/ple_offload/worker.py` and patches 0002–0008 of `patches/upstream` | semaphore words, shared inputs, pinned and output buffers, request queue, event pool, registrations, owner and child process | registration, launch, request thread, CPU compute, copies, wait and release on the GPU, READY, close | ZMQ, shared memory, CUDA streams, pipes, signals | host, streams and CPU process run asynchronously over buffers without locks; skipped duplicates; death of a side; ready timeout; a stuck child | every layer reads the output of its own step; no buffer is overwritten in use; every launched step is served |
| **PLE pull transport v2.5** `ple_offload/{connector,worker,fatal,progress}.py`, `ple_pull.py` (diff 38313–38661, 44930–48038) | ring slots, progress words, fatal latch, helper processes | publish, pull, acknowledge, fail, tear down | shared memory, pipes, GPU kernels that spin | torn progress, stale slots, first fatal cause, teardown under a spinning kernel | no step uses another step's rows; a fatal cause is reported once and everyone stops |
| **Executor teardown** `multiproc_executor.py`, `engine/core.py` (diff 43739–44929) | worker handles, death pipes, monitor, failure callback, fatal channel | start, monitor, collective calls, shutdown ladder | pipes, processes, signals, timeouts | a death that races a shutdown, a call or another death | the first cause is the one reported; shutdown ends and leaves no worker |
| **KV retention** `kv_cache_manager.py`, `single_type_kv_cache_manager.py`, `scheduler.py` (diff 40920–42614) | reference counts, pins, holds, deferred ring blocks | allocate, cache, pin, free, preempt, abort | scheduler steps against steps in flight | a block freed while an asynchronous step still writes it | no block has two owners; every deferred block is freed |
| **QSA ring tags and kernels** (diff 37566–38312, 38662–40150, csrc) | tags of ring slots, top-k work | write, clear, match tags | scheduler's block reuse | a stale tag matching a new owner | a reused slot never matches |
| **Mamba checkpoints, RecoverSSM** (diff 33745, 34452, 40152, 52912) | per-request checkpoints, copy-on-write blocks | checkpoint, roll back, commit | speculative decoding | rejected drafts, preemption between two steps | a request resumes from the state of its accepted tokens |
| **Grammar and drafts** `model_runner`, `spec_decode` (diff 49552–50986) | grammar state, draft tokens | propose, check, accept | scheduler | a grammar that fails in the middle of drafts | drafts after the failure are dropped |
| Identity, toggles, memory statistics, allocation log, bootstrap | digests, counters | startup | files | little | pure functions of files |
| **Model code** `models/qwen4_exp/nvidia/{model,ple_layer,qsa}.py`, `ops/qsa.py` | weights, index tables, delayed combine | n-gram ids, loading of the PLE table, forward over pipeline ranks, block selection, split attention | checkpoint, KV pages, offload process | index arithmetic at every boundary: cut requests, padding, shards, uneven splits | ids, rows and columns address what they stand for, in every batch |
| **State between steps** `ple_layer.py`, `qsa_cache.py`, `ops/qsa.py`, metadata builders (patch 0001) | short-conv state and raw-key ring per cache block, compressed keys | prefill, decode and speculative paths, split and merge of a batch, stores | scheduler's blocks and preemption, acceptance of drafts | drafts written before they are accepted, old contents of a block, mixed and padded batches, chunks longer than the ring | what is retained is the request's own accepted history |
| **Routed-experts capture** `routed_experts_capturer.py` | capture buffer, buffer by slot | capture, store, get | MoE routers, scheduler | the layout of a batch is told from its size | a rank captures the rows of its own tokens |
| **Calibration tools**, `make-e1-config.py` | maxima per rank, sidecar, `config.json` | collect, dump, merge, edit | files | periodic dumps, hard links | a sidecar covers all the traffic; the published file is never damaged |
| Build, container, LXC, other serve scripts, benchmarks | files | sequences of commands | – | stop at first failure | straight-line scripts |

## 2. Modules

| module | models |
|---|---|
| `GuardTelemetry` | the reader thread, the gate, the callers, the GPU, the worker's lifecycle |
| `CounterWatch` | the abstract contract of the reader |
| `GuardTelemetryInv` | the inductive invariant in named parts |
| `GuardTelemetryProofs` | TLAPS proofs: invariance, every safety property, the refinement |
| `MCGuardTelemetry` + `MCGuard*.cfg` | instances for TLC |
| `TopoSelect` | the pure decisions of `topo_select.py` |
| `TopoLaunch` | one launch: script, selector child, discovery thread, watchdog; EXTENDS `TopoSelect` |
| `TopoLaunchProofs` | TLAPS proofs about every launch, and about the order, the GPUs and the binding of every decision |
| `MCTopo` + `MCTopo*.cfg` | machines, callers and controls for TLC |
| `PleExchange` | the per-step exchange between GPU workers and the CPU process of the PLE offload |
| `PleExchangeInv` | its inductive invariant in named parts |
| `PleExchangeLemmas`, `PleExchangeProofs` | TLAPS proofs: the invariant is inductive, and what follows from it |
| `PleOffload` | the life of the CPU process and of its owner around the exchange; EXTENDS `PleExchange` |
| `PleOffloadProofs` | TLAPS proofs: under every fault the composition implements the exchange |
| `MCPle` + `MCPle*.cfg` | instances for TLC |
| `NGram`, `PleTable`, `PleRunner` | n-gram ids; hashing, loading and quantization of the PLE table; what the offload process loads and accepts at startup |
| `HyperConnection` | the delayed combine of the layers over pipeline ranks |
| `QsaSelect` | block scores, top-k expansion, split attention and its merge |
| `RoutedExperts` | routed-experts capture |
| `Calibration` | the calibration chain and the edit of `config.json` |
| `PleShortConv` | the dilated short convolution of a PLE layer: one row, and the split and merge of a batch |
| `QsaRing` | the ring of raw index keys and the compressed keys of a QSA layer |
| `ModelSteps` | requests going through steps of the model with both caches; EXTENDS `PleShortConv`, instantiates `QsaRing` |
| `ModelStepsProofs` | TLAPS proofs: both caches, for every request and batch |
| `MCModelSteps` + `.cfg` | two requests for TLC |
| `MCAlgorithms` + `.cfg` | bounded inputs for the six algorithm modules and `PleRunner` |
| `AlgorithmsProofs` | TLAPS proofs about algorithm modules, for inputs of every size |
| `DataLemmas` | lemmas about finite sets, division, partial sums, recursive functions and concatenation |

Operators called "Seeded fault" in a comment are deliberate bugs, one per checked property. No specification
uses them: putting one in place of the operator `PROJECT.json` names must break the property.

### 2.1 Guard telemetry

Guarded kernels mask an out-of-range access and count it per site. Nothing on the step path reads the counters.
One reader thread per process copies them to the host on a side stream, reports each count that rose and, for
a fatal site, arms a stop that the next step raises. When the engine is idle the reader records a fence behind
the last launch, waits for it, reads everything once more (`_final_drain`) and parks on a condition variable.

| model | code |
|---|---|
| `callSeq`, `calls` | `_call_seq`, `_calls_open` (the set of callers it counts) |
| `gateArmed`, `gateBroken` | `_gate_armed`, `_gate_broken` |
| `own` | where the worker is: started, serving, sleeping, joining, draining |
| `launched`, `done`, `mid`, `count`, `maxed` | kernels per stream; the counters; a kernel adds to the count first and to the maxima later |
| `inflight`, `landed`, `mirror` | one job of `NonBlockingReader` |
| `rpc`, `rmode`, `rseq`, `fence`, ... | the reader's position in `_reader` and its locals |
| `pend`, `seen`, `told`, `armed`, `lost` | `_confirm_pending`, `_seen`, the maxima of the report, `_pending`, `_read_disabled` |

Every step between two acquisitions of `_cv` or `_io_lock`, or two CUDA calls, is an action: the interesting
orders are those in which a call enters between the reader's sample and its decision. A copy may see any
mixture of counts and maxima of a kernel still running. Faults (`Faults`): a read, the recording of a fence, an
event query, the shutdown drain.

Abstractions: one device; intervals and cadences are nondeterministic; the encoding of the recorded maxima is
the number of hits they cover; messages are left out; `_break_gate`'s check of the generation of a gate is not
modelled, since threads other than the engine's only run while the worker serves. A stop that was raised ends
the rank's calls. `_asleep` survives the lifecycle reset, as in the code.

`CounterWatch` is what the docstring calls the IDLE QUIESCE contract: hits only while awake, rest only when all
hits are reported and a fatal one has called for the stop. `GuardTelemetry!ContractSpec` instantiates it with
`resting <- parked /\ GateLive /\ ~lost`, `stopping <- armed \/ raised`.

### 2.2 Topology selector

`TopoSelect` holds the decision as operators over a *host* record (what NVML, sysfs and `numactl` report), the
*caller's* five variables, and the *controls*: `LinkClass`, `Score`, `ChooseOrder`, `AutoLane`, `ResolveLane`,
`SelectedEnv`, `Binding`, `Decision`. Link classes are doubled, as 2.5 is one of them. A GPU is its position in
bus order. A device token is an index, a UUID or neither. `ResolveLane`'s reasons are the code's.

`TopoLaunch` is the launch. The script snapshots the caller's variables, makes the file and runs the child
under `timeout`. The child's main thread starts the discovery thread and joins it with a timeout; the file is
replaced atomically; exit statuses 0–5 and 124 mean what they mean in the code. The script then tests the
status and the form of the file, sources it, and executes vLLM, or falls back, or refuses. Every failure the
code handles is in `Faults`: no temporary file, no interpreter, no thread, no NVML, an exception, a failed
write, a failed print after the write, the join's timeout, the watchdog at any point, a file of the wrong form, a
source that fails after some of its statements.

Abstractions: the tests of `decide_binding` on CPUs, memory and a dry run are one set, `host.bindable`; the
diagnostics file, `--dry-run` and the summary line are left out; the variable `PLE_HOME` of the snapshot only
reaches the diagnostics.

### 2.3 PLE offload

TP rank 0 of a DP rank puts the inputs of a step into shared memory (`inBuf`) and asks the CPU process for its
PLE rows; the CPU process computes them into a pinned buffer and copies them to the output buffer of every TP
rank on a copy stream of its own; a semaphore word per worker and layer tells the model stream that the
rows are there, and the copy stream that they were consumed.

| model | code |
|---|---|
| `launched`, `gpu` | what the host has enqueued, and the next op of the model stream: stage, a wait and a collective per layer, release |
| `flag`, `outBuf`, `copyQ` | semaphore word, output buffer and copy stream of a worker and layer |
| `queue`, `thread`, `pool` | `_request_queue`, the request thread, `_d2h_event_pool` |
| `socket`, `batch`, `phase`, `layer`, `index` | the PULL socket, `requests_by_dp` and the position in `busy_loop` and `_handle_requests` |
| `pinned` | `_pinned_bufs` |
| `owner`, `child`, `ready`, `deathPipe`, `shutdown`, `registered`, `crashed` | `PleOffloadWorkerHandle`, `proc_main`, the two pipes, `shutdown_event`, registrations, dead workers |

A buffer holds the number of the step its content belongs to. Every op of a stream, every host call and every
step of the CPU loop between two of them is an action; `copy` reads the pinned buffer when the stream reaches
it. Whether a step is real or a dummy run is the scheduler's choice (`kind`). Two things come from outside the
repository: the engine keeps at most `max_concurrent_batches` batches in flight (`MayLaunch`), and each layer
ends in a collective of its TP group (`Collective`).

Abstractions: token counts and the clamp of speculative ids; one `sync` action for the `synchronize` calls of
all targets; the MRV1 path; `PleOffloadConnector.close`. `Faults` has weights that do not load, an
exception in or a hang of the loop, the death of a worker, the ready timeout, and a signal.

### 2.4 Algorithms

Seven modules of operators, each with the property it is checked against at the end of its section. Data are
model values (a token, a row, an expert) or the position they stand for, so that an index error shows as a wrong
value: attention sums are the sets of columns that entered them, a table row is the checkpoint row and scale it
was made of, a hidden state is the sequence of terms added to it. 64-bit arithmetic is modelled with a
7-bit word. Rows that nothing wrote are `Garbage`; ones that were zeroed are zero.

### 2.5 State between steps

Two caches hold, per request, what the next step needs of the steps before: a PLE layer the last inputs of its
convolution, a QSA layer the keys of the group that is still open. Both are written before it is known which
drafts stay, and both are addressed by a cache block that had other owners before.

| model | code |
|---|---|
| `computed`, `accepted`, `slot` | `num_computed_tokens`, `num_accepted_tokens`, the first entry of the block table |
| `conv` | `kv_cache` of `Qwen4ExpPLELayer`: `StateLen` inputs and room for the drafts |
| `ring`, `compressed` | `QSACompressorStateCache`, `compressed_key_cache` |
| `History`, `Rollback`, `RowOutput`, `NextState` | the prefill, decode and speculative paths of `_short_conv_dilated_*`, which differ in where the history starts and what is written back |
| `SortedRows`, `TokenOrder`, `QueryStart`, `Convolved` | the metadata builder's grouping and the merge in `_short_conv_dilated_dispatch` |
| `Stored`, `ClosedGroups`, `Pooled` | `circular_qsa_slot_mapping`, `compressed_qsa_slot_mapping`, the compress kernel |

An input is its token `<<request, position, 1>>`, a rejected draft `<<request, position, 0>>`; an output is the
tuple of inputs under the taps of the filter. `Step` runs any batch the scheduler may form: rows of distinct
requests, any chunk or draft count (a speculative row may have no draft at all), any number of accepted drafts, any
order where drafts are in the batch, decodes first where none are (the runner sorts those), padded where a graph may
be replayed.

Assumptions about the scheduler and runner, which are external: drafts only follow a complete
prefix; one block id stands for the blocks of both caches; no prefix-cache hit, no checkpoint
(v2.5 adds those); `Kernel` is at least 2. `DraftlessSteps` says whether a plain decode may follow a
speculative step that accepted more than one token. The run excludes it: the decode path then reads the state at
offset 0 although the accepted tokens lie behind it, and with TRUE `ConvSeesOwnHistory` fails after two steps of one request. The
source of this tree does not say whether its scheduler forms such a step; v2.5 sends every decode row down the
speculative path. This is a hazard in `PROJECT.json` and not a finding.

## 3. Runs

The guard and topology runs have deadlock checking on: `Gone` and `Over` are the stuttering ends of a dead system.
The PLE runs end when the bound on steps is reached or a process has died, `model_steps` when every
request has reached its limit, `algorithms` after one case.

| run | question | distinct states | time |
|---|---|---|---|
| `guard_lifecycle` | two workers in one process, each with a call, a sleep request, a withdrawn request and a shutdown drain, under every fault | 1.45 M | 60 s |
| `guard_calls` | the engine thread against a thread that enters and launches where it should not; one fatal, one ordinary site | 2.6 M | 85 s |
| `guard_contract` | refinement of `CounterWatch`, with launches on a stream the fence does not cover, two hits, failing reads | 1.9 M | 70 s |
| `guard_live` | liveness | 117 K | 115 s |
| `guard_wait_idle` | finding: `wait_idle` | – | 3 s |
| `topo_launch` | whole launches with every failure, and all four-GPU machines of three link kinds; safety and `NeverBlocks` | 551 K | 65 s |
| `topo_blank` | finding: white space with the selector off | – | 2 s |
| `topo_strict` | finding: strict with another device order | – | 2 s |
| `ple_offload` | two TP workers, two steps in flight, real and dummy, with every fault: contents, buffers, requests, READY, no circular wait, close, service; and the invariant of the proofs | 177 K | 120 s |
| `ple_event_pool` | finding: the event pool with as many batches as it is made for | – | 2 s |
| `model_steps` | two requests, prompts of one and five tokens, cut into chunks, with two drafts a step, preempted at any point: both caches | 92 K | 80 s |
| `algorithms` | the seven algorithm modules against their reference definitions | 66 K | 26 s |

Bounds. Guard: `MaxSeq` is the number of call enters and exits (2 is one call and what follows it, 4 two calls
or two nested ones); `MaxKernels` kernels per stream; `MaxHits` hits per site; `MaxSuspends` sleep requests; `MaxLives`
workers. The hazards need one call between a sample and a decision, one hit between a copy and its
confirmation and one request withdrawn; two hits let a report be overtaken by a second rise. A worker that asks again
after a withdrawn request is not in the runs (`MaxSuspends` = 2 passes as well, with 3.8 M states): that an answer to
the first request does not count for the second is `AckIsFinal`, which is for any number. The theorems of section 5
hold for all values, so the bounds matter only for liveness.
Topology: nine machines (the reference one, NVLink pairs out of order, unknown P2P in one direction, unknown
and single NUMA nodes, duplicate ids, three GPUs, six GPUs all idle, nearly all busy, and idle over two nodes),
ten forms of `CUDA_VISIBLE_DEVICES`, three device orders, every control. The rank order is
compared over all 729 link matrices of NVLink, host bridge with P2P, and cross-socket.

PLE: two TP ranks are needed for fan-out and collectives, two steps for a buffer to be reused, and two batches in
flight for the request of a step to be queued before the step before it is done. The exchange of a DP
rank touches another's only through the order in which the CPU loop serves them. That order, and with it a wait of
one DP rank for another (`NeverStuck`), and several layers are out of TLC's reach with two steps in flight: for them
the project has the theorems of `PleExchangeProofs`, which are for any number, and no run.
Model steps: a ratio, dilation and draft count of two make every residue of the ring, and every rollback, meet every
boundary; the longer request spans three groups and wraps its ring; two requests are needed for mixed batches and for a
block that had another owner.
Algorithms: histories of up to four tokens cut anywhere with up to two tokens of padding, two to four shards, four
layers on three ranks, three DP ranks of four tokens, nine tokens with a compression ratio of two or three, fifty
with a ratio of 16 (three tiles of columns in two splits, an uneven cut), the splits alone of selections up to 515
wide, two ranks of two layers, an edit of `config.json`, a hard link or not, cut off in and after every write: each
bound lets the boundary it is about fall inside, at and beyond every block, shard, tile or period.

What the properties say is written above each of them. The ones to read first:

- `ParkedMeansReported`, `DrainedMeansReported`, `SuspendAckIsFinal`: the three points at which the reader
  claims to be done, and is.
- `FatalEvidenceStopsRank`: evidence reported, half confirmed or lost with its device has armed a stop.
- `NoLostWakeup`: a blocked reader has no reason to run.
- `SettledReportIsCoherent`: only a settled read may claim that maxima and counts belong together.
- `NoTraceOfFailure`, `StrictNeverGuesses`, `LaneIsTheCallers`, `BoundToItsGpus`, `OrderIsBest`, `NeverBlocks`:
  the promises of `docs/topology-selector.md`.
- `ReadsOwnStep`, `BufferHeld`, `InputsHeld`, `NoDuplicate`: what the PLE exchange relies on without a lock.
- `NeverStuck`: its model streams, copy streams, request threads and CPU loop never wait for each other in a circle.
- `ConvSeesOwnHistory`, `GroupsPoolOwnKeys`: the caches between steps.
- `NGramKeys`, `DelayedCombine`, `SelectionIsCausal`, `TableHoldsCheckpoint`: the index algorithms of the model.

### Findings

- `wait_idle` returns True after a device was lost, although its docstring says every counter write so far has
  been reported (`guard_wait_idle`).
- With the selector off a `CUDA_VISIBLE_DEVICES` of white space reaches vLLM as it is; the documentation says it
  counts as unset "as it always did" (`topo_blank`).
- `AUTO_TOPO=strict` starts on more than four GPUs without `CUDA_VISIBLE_DEVICES` when `CUDA_DEVICE_ORDER` is not
  `PCI_BUS_ID`: that test comes before the strict one (`topo_strict`).

- `_launch` of the PLE connector can raise "PLE has more MRV2 requests than configured concurrent batches" with
  exactly the configured number: the event returns to the pool after the send, not before (`ple_event_pool`).

## 4. Fairness

`GuardTelemetry!Fairness`: weak fairness of the reader (a live daemon thread), of every stream of the GPU, of a
copy on the side stream and of a drain under way. Strong fairness of the copy landing while the reader settles,
and of the fence's query succeeding: the drain gives a copy of microseconds two seconds, and an event
query does not fail every time. Callers and the worker's lifecycle have none: nothing says the engine works.

`TopoLaunch!FairSpec`: weak fairness of the script, which is sequential, and of the watchdog, which is
`timeout --kill-after`. The child has none: a driver call may hang for ever, and `NeverBlocks` holds regardless.

`PleOffload!FairSpec`: weak fairness of the streams, the request thread, the CPU loop, the monitor of the death
pipe once it is closed, loading, accepting when all have registered, leaving the loop, and the end of a join. None
for launches, registrations, faults, or the decision to shut down. A hung child is not served by any fairness.

## 5. Proofs

`GuardTelemetryProofs` proves, for every set of callers, streams, sites and faults and all bounds:

- `Invariance`: `Spec => []IInv`. No safety property here is inductive by itself. `ParkedMeansReported` needs
  that a fence no call has overtaken stands behind the last launch (`FenceInv`), which needs that behind a live
  gate only the engine thread launches, on the fence's stream (`GateInv`), which needs that a launch outside a
  call is covered by another's (`CallersInv`). The drain's result survives until the park because while the
  sample is current nothing runs (`Covered`, `SettleInv`). The proof has one lemma per action, with one
  step for each part of the invariant the action can disturb.
- `SettledReports` (`SettledReportIsCoherent`): maxima are written later than counts, so a copy is coherent only if
  nothing ran while it was taken. `SettleInv` says it of the settling copy in flight, landed and read.
- from it: `TypeCorrect`, `QuiesceIsComplete`, `FatalEvidence`, `WakeupsArrive`, `DrainIsComplete`,
  `ParkIsQuiet`, and the action properties `AckIsFinal`, `SleepIsQuiet`.
- `WaitIdleUnlessLost`: the finding on `wait_idle` has no other cause. While the device is not lost, True means
  that every count is reported.
- `Contract`: `Spec => ContractSpec`, the refinement: initial states map to initial states, every step to a step
  of the abstract watch or a stutter.

`TopoLaunchProofs` proves for every machine, caller, control and set of faults: `LaunchTypes`,
`FailureLeavesNoTrace` (`NoTraceOfFailure`) and `StrictIsStrict` (`StrictNeverGuesses`). The invariant `SInv` adds
`NoGuess`: a decision made under strict is never "ok" for a lane nobody named, which follows from
`ResolveLane`'s order of tests (`StrictRefusesFirst`).

The same module proves what the decision does with the GPUs, for every machine (any number of GPUs, any links,
nodes and idle sets), caller and control: `LaneStaysTheCallers` (`LaneIsTheCallers`), `BestOrderChosen`
(`OrderIsBest`) and `PrefixIsTheNode` (`BoundToItsGpus`).

- `DecisionIsFaithful` shows that what `decide` returns keeps the three promises: by `ResolveLaneIsLane` the lane has
  four GPUs of the host, the caller's if it named any; by `SelectedIsFaithful` each way of naming the lane (UUIDs,
  the caller's own tokens, the fixed indices) shows the same GPUs.
- Its first part shows that the `CHOOSE`s of `TopoSelect` name real values: a finite set of tuples has a greatest
  and a least element (`FiniteMaximal`, from the well-foundedness of strict inclusion on the sets of larger elements),
  a lane has finitely many orders, scores are totally ordered, four GPUs have a bus order.
- `DInv` carries the decision through the launch: what the main thread writes, the script sources and the server
  starts with is the decision the thread finished, since no thread is left when the script reads the file.

- `StrictExceptions` delimits the finding on strict mode: on more than four GPUs nobody named, a strict launch starts
  only on a foreign device order, without NVML or on duplicate ids, the tests `decide` makes before it counts.

`PleExchangeProofs` proves for any number of DP ranks, TP ranks, layers, steps and concurrent batches:

- `Invariance`: `Spec => []IInv`. `ReadsOwnStep` alone says nothing of a worker that has not waited yet. `Slot`
  says it for each worker and layer: one that still waits is `Expecting` (its result is to be computed, on its way,
  or there), one that has waited is `Holding` (the copy of the next step can only stand behind its
  `wait_reset`), one in a dummy step is `Undisturbed`. That a copy stream serves no step ahead of its worker needs
  the requests (`RequestsFresh`: what is still to be read belongs to the step the leader is in,
  `RequestsDistinct`, `RequestsOrdered`), and for the ranks that send no request it needs the collectives
  (`Lockstep`): by the lemma `Uncomputed`, while a layer is to be computed every rank of the group
  waits in that step or holds the step before.
- The proof has one lemma per actor (`HostRest`, `RequestRest`, `GpuRest`, `CopyRest`, `CpuRest`), each with
  a lemma per part of the invariant its steps can disturb; `PleExchangeLemmas` has the types and positions.
- from it: `TypeCorrect`, `LayersReadTheirStep` (`ReadsOwnStep`), `RequestsAreKept` (`NoDuplicate`), and the
  action properties `BuffersAreHeld` (`BufferHeld`) and `InputsAreHeld` (`InputsHeld`).

- `ExchangeNeverStuck` (`NeverStuck`): freedom from deadlock, stated with the guards of the steps since TLAPS has no
  `ENABLED`. `IInv` has `RequestsKept` for it: the request of a launched step is queued, with the thread, in the
  socket or the batch, or computed. When nothing can go on, a copy stream that waits for a release would belong to a
  rank that can release (`QuietStreams`), so the CPU loop is back at an empty socket (`QuietCpu`); a rank at a wait
  would have its request in the queue of a thread that waits for a leader which can go on (`QuietWaits`); and a
  rank at a collective waits for one that is itself at an earlier collective, which `Lockstep` has let pass.
  What `EveryStepServed` adds is fairness.

- `PoolIsOneEventShort` delimits the finding on the event pool: by `RequestsOrdered` the queue and the thread hold
  requests of different steps within the concurrent batches (`RisingRoom`), so `_launch` raises only while the thread
  holds the event of a request it has published and all others stand in the queue.

`PleOffloadProofs` adds the processes' lives: `FaultsOnlyStop` (`LifeSpec => Spec`, a refinement: every step of a
life leaves the exchange alone), with it `InvariantUnderFaults`, and `ReadyAfterRegistration`
(`ReadyMeansRegistered`), by the invariant `Evidence`: the READY in the pipe is itself proof of the registrations.

`ModelStepsProofs` proves for every ratio, kernel, dilation, number of drafts, requests, prompts and chunks, with or without
draft-less steps:

- `GroupsPoolOwnKeysTheorem`. The property speaks of complete groups only; `RingInv` adds that the ring holds
  the open group of every request, `CountersInv` that no two requests share a block. A step keeps `RingInv` because
  the ring has room for a group and a step's drafts (`RingIsWide`), so two positions that meet in one place are a
  ring apart (`SamePlace`): a row, accepted or not, cannot fall on a key of the open group (`RingStep`).
- `ConvSeesOwnHistoryTheorem`, without draft-less steps (`DraftlessSteps = FALSE`, see 2.5: otherwise it is
  false). `ConvInv` says that the state at a request's slot holds the last inputs before `computed`, shifted by
  the drafts of its last step that were accepted. What a row reads is then a matter of `RowOutput`; that it reads the
  request's own rows is one of the batch: `Grouped` is a stable sort, given by ranks, so it is a bijection that the
  merge inverts, and the boundaries of the groups are partial sums (`Sums`).
- `TypeOKTheorem`.

`AlgorithmsProofs` states each result as a theorem about the operators, for inputs of every size, and as a theorem
of `MCAlgorithms!Spec`, whose cases are instances of it:

- `CapturesOwn` and `CaptureOwnTokensTheorem`: routed experts, for any number of DP ranks, tokens and TP ranks.
- `CombinesOnceAlways` and `DelayedCombineTheorem`: the delayed combine, for any model, deepstack levels and division
  of the layers. `RankKeeps` is the invariant carried over layers and ranks: the state a rank holds, with its pending
  output combined, is the state of the forward that combines after every layer.
- `KeysAlwaysMatch` and `NGramKeysTheorem`: the n-gram keys. The starts of the requests are partial sums, so each
  column belongs to one request (`RequestOf`) and one place of its row; every column has one writer in each row the
  scatter can leave; the shift stops at the last EOS as a scan of the whole history does. Padding and the narrowed
  rows of the offload process change nothing, as long as the batch fits the workspace.
- `AttendsCausally` and `SelectionIsCausalTheorem`: block selection and split attention, with `ScoresAreVisible`,
  `SplitsDivide` and `ChunksDivide`: programs, splits and chunks divide the work without gap or overlap, so the
  top-k picks among scored blocks and what is attended to is counted token by token.
- `TargetsAlwaysComplete` and `RunnerIsCompleteTheorem`: the runner's start. As many
  registrations as ranks with every TP rank present leave one of each (`RanksOnce`, a pigeonhole argument), so the
  sort gives one destination per TP rank.
- `FlushReachesDump`, `SidecarAlwaysCovers`, `EditChangesOneKey` and `CalibrationIsSafeTheorem`: the flush makes
  enough calls to cross a multiple of the dump period after the deepest prompt, whatever ran before. The edit's writes
act on a directory of names and files (`WriteFile` follows a link, `Replace` moves a name): `WritesAreSafe` says that,
cut off at any of them, the script leaves the published file as it was, also where `config.json` is a link to it,
`config.json` whole, and a whole backup before the change.
- `TableAlwaysHolds` and `TableHoldsCheckpointTheorem`: the shards of a ceiling division cover every row once
  for any table size, and what the calls so far have brought (`SeenAfter`) is an invariant of the load. An NVFP4
  table is assumed to come in one call, as its check for complete shards demands. `RowsAlwaysFit`: the widths agree.
- `IdsInOwnHead`: the ids of the hash heads. Offsets are partial sums of the sizes, and `ProductFits` bounds the
  hashed product. Its hypothesis is that the search for each head's prime ends; `SmallSizes` discharges it for the
  tables of the run.
- `PrimesPassTheTest`: `_is_prime_64` refuses no prime, whatever its size. `PowMod` is the power (`PowModIsPower`),
  `Fermat` makes the last squaring 1, and modulo a prime 1 has no root but 1 and -1 (`RootsOfOne`), so the squarings
  reach -1 or begin at 1. `PrimeTestAgrees` adds that no composite up to 2049 passes: what passes satisfies Fermat's
  congruence to base 2 (`PassedIsFermat`), and the five composites without a small prime factor fail it.
  `HeadsAreDisjointTheorem` is both.

`DataLemmas` makes up for the library's induction theorems, which take an operator: `Induction` is stated over a
set, which each use fills with the numbers the claim holds for. `RecursionFrom` gives the values of a recursive
function, `FlattenParts` those of `FlattenSeq`. It also holds the arithmetic modulo a prime, up to Fermat's little
theorem.

Assumptions: those named in the modules (`SitesAssumption`, `BoundsAssumption`, `MaxTotalTokensAssumption`, ...), which
TLC evaluates in every run. Model-checked only: liveness (`HitsGetReported`, `IdleReaderParks`, `StopEndsReader`,
`NeverBlocks`, `CloseReaps`, `EveryStepServed`), which TLAPS cannot prove under fairness (`ExchangeNeverStuck`
is the safety core of the last). Every invariant the runs check is a theorem. Neither checked nor proved: that the
bases of `MillerRabin` refuse every composite below 2^64 (a published computation), and that the search for the next
prime ends for tables of any size (Bertrand's postulate).

## 6. Not modelled, and why

Arithmetic of tensors, kernel tuning, module construction and memory allocation have no state to explore. Build,
container and provisioning scripts are straight lines that stop at the first failing command. Identity,
toggles and statistics are pure functions of files read once. Benchmarks are not part of the served
system. Components marked `not_modelled` in `PROJECT.json` are in the plan below.

`_asleep` surviving the lifecycle reset of the guard telemetry (hazard at diff line 52563) is modelled as it is; no
document promises otherwise, so no property states it.

## 7. Plan

1. The pull transport of v2.5 against `ReadsOwnStep`, with its fatal latch.
2. `ExecutorTeardown`: worker death, the first cause, the shutdown ladder. Liveness: shutdown ends.
3. `DeferredBlockFree`: reference counts, pins and deferred ring blocks with steps in flight, then the
   ring tags on top. Theorem: a block never has two owners.
4. Prefix-cache hits and the Mamba checkpoints of v2.5 in `ModelSteps`, and grammar drafts, if their control can be
   separated from the arithmetic.
