--------------------------- MODULE GuardTelemetry ---------------------------
(***************************************************************************)
(* The bounds-guard counters of one worker process and the thread that     *)
(* reads them: vllm/v1/worker/guard_telemetry.py and its callers in        *)
(* vllm/v1/worker/gpu_worker.py (release/v2.5/v2.5.2-combined.diff).       *)
(*                                                                         *)
(* Guarded GPU kernels count the accesses they mask, per site.  Nothing on *)
(* the step path reads the counts: a reader thread copies them to the host *)
(* on a side stream, reports every count that rose, and arms a stop for    *)
(* the fatal sites.  Once the engine is idle the reader fences the engine  *)
(* stream, reads everything once more and parks without any device work.   *)
(*                                                                         *)
(* Four kinds of process interleave: the callers (the engine thread, and   *)
(* threads that break the single-stream rule), the worker's lifecycle,     *)
(* the GPU (kernels and the side-stream copy), and the reader.             *)
(*                                                                         *)
(* One device per worker process, as in the code, so the maps keyed by     *)
(* device are single values here.  _calls_open is modelled by the set of   *)
(* callers it counts.                                                      *)
(***************************************************************************)
EXTENDS Integers

CONSTANTS
  Sites,        \* the guarded sites (rows of a counter buffer)
  FatalSites,   \* the sites that arm the stop (every site under MODE=raise)
  NoSite,       \* not a site
  Callers,      \* threads that may run GPU work
  Owner,        \* the engine thread, which arms the gate
  Streams,      \* the streams kernels may be launched on
  Fence,        \* the stream the idle fence covers
  IdleGate,     \* VLLM_E2_GUARD_IDLE
  Faults,       \* what may fail: reads, fence records, event queries, drain()
  MaxSeq,       \* bound: call enters and exits
  MaxKernels,   \* bound: kernels launched on one stream
  MaxHits,      \* bound: masked accesses counted at one site
  MaxSuspends,  \* bound: suspend requests
  MaxLives      \* bound: workers started in the process

ASSUME SitesAssumption == /\ FatalSites \subseteq Sites
                          /\ NoSite \notin Sites
ASSUME CallersAssumption == Owner \in Callers
ASSUME StreamsAssumption == Fence \in Streams
ASSUME IdleGateAssumption == IdleGate \in BOOLEAN
ASSUME FaultsAssumption == Faults \subseteq {"read", "record", "query", "drain"}
ASSUME BoundsAssumption ==
  /\ MaxSeq \in Nat /\ MaxKernels \in Nat /\ MaxHits \in Nat
  /\ MaxSuspends \in Nat /\ MaxLives \in Nat

VARIABLES
  \* The callers and the call generation (module globals under _cv).
  callSeq,      \* _call_seq
  calls,        \* the callers inside an engine call (_calls_open)
  cpc,          \* where each caller is
  cstream,      \* the stream current in a caller's engine call
  lstream,      \* the stream of the eager launch a caller is making
  raised,       \* check_pending has raised: the rank is stopping
  \* The worker's lifecycle and the gate.
  own,          \* what the worker is doing
  lives,        \* workers started so far
  gateArmed,    \* _gate_armed
  gateBroken,   \* _gate_broken is not None
  suspendReq,   \* _suspend_req
  suspendGen,   \* _suspend_gen
  stopReq,      \* _reader_stop is set
  \* The GPU.
  launched,     \* kernels launched, per stream
  done,         \* kernels complete, per stream
  mid,          \* the site whose maxima the running kernel has yet to write
  count,        \* the masked-access counts on the device
  maxed,        \* how many of them are already in the device's maxima
  \* The pinned mirror of the counters (one job of NonBlockingReader).
  inflight,     \* job[3]: a copy was issued and not consumed
  landed,       \* event.query() of that copy
  mirror,       \* the rows at issue; once landed, the rows the copy brought
  \* The reader thread.
  thread,       \* _reader_thread: "none", "alive" or "dead"
  rpc,          \* where the reader is
  rmode,        \* on whose behalf it reads: poll, gated poll, drain, suspend
  rseq,         \* the generation it sampled (seq, fence_seq, seq0)
  ropen,        \* whether a call was open when it sampled
  rgen,         \* the suspend request it serves
  fence,        \* the recorded fence: generation and position in the stream
  seqPrev,      \* seq_prev
  parked,       \* _reader_parked
  asleep,       \* _asleep
  suspendedGen, \* _suspended_gen
  \* What has been reported.
  pend,         \* _confirm_pending: the copy that first showed a rise
  seen,         \* _seen: the count last reported, per site
  told,         \* how many hits the maxima in that report covered
  armed,        \* _pending is not None
  lost          \* the device is in _read_disabled

callVars   == <<callSeq, calls, cpc, cstream, lstream, raised>>
lifeVars   == <<own, lives, gateArmed, suspendReq, suspendGen, stopReq>>
gpuVars    == <<launched, done, mid, count, maxed>>
copyVars   == <<inflight, landed, mirror>>
localVars  == <<rmode, rseq, ropen, rgen, fence, seqPrev>>
sleepVars  == <<asleep, suspendedGen>>
reportVars == <<pend, seen, told>>
vars == <<callVars, lifeVars, gateBroken, gpuVars, copyVars, thread, rpc,
          localVars, parked, sleepVars, reportVars, armed, lost>>
-----------------------------------------------------------------------------
\* A copy of the counters: per site the count and the hits in its maxima.
Rows    == [Sites -> [n : Nat, m : Nat]]
NoRows  == [s \in Sites |-> [n |-> 0, m |-> 0]]
NoFence == [seq |-> -1, mark |-> 0]

DeviceRows == [s \in Sites |-> [n |-> count[s], m |-> maxed[s]]]

AllDone   == \A st \in Streams : done[st] = launched[st]
GateLive  == gateArmed /\ ~gateBroken
AllOut    == \A c \in Callers : cpc[c] = "out"
AllReported == \A s \in Sites : seen[s] = count[s]

\* The cv.notify_all() of a state change the reader may be waiting for.
Woken == IF rpc = "parked" THEN "parkcheck"
         ELSE IF rpc = "sleeping" THEN "sleepcheck" ELSE rpc

\* The reader holds _io_lock: inside a final drain or a suspend point.
HoldsIo == rpc \in {"settle", "fresh", "landed", "ack"}
IoFree  == own # "draining"   \* drain() holds it on the worker's side
-----------------------------------------------------------------------------
Init ==
  /\ callSeq = 0 /\ calls = {} /\ raised = FALSE
  /\ cpc = [c \in Callers |-> "out"]
  /\ cstream = [c \in Callers |-> Fence]
  /\ lstream = [c \in Callers |-> Fence]
  /\ own = "boot" /\ lives = 1
  /\ gateArmed = FALSE /\ gateBroken = FALSE
  /\ suspendReq = FALSE /\ suspendGen = 0 /\ stopReq = FALSE
  /\ launched = [st \in Streams |-> 0] /\ done = [st \in Streams |-> 0]
  /\ mid = [st \in Streams |-> NoSite]
  /\ count = [s \in Sites |-> 0] /\ maxed = [s \in Sites |-> 0]
  /\ inflight = FALSE /\ landed = TRUE /\ mirror = NoRows
  /\ thread = "none" /\ rpc = "off" /\ rmode = "plain"
  /\ rseq = 0 /\ ropen = FALSE /\ rgen = 0
  /\ fence = NoFence /\ seqPrev = -1 /\ parked = FALSE
  /\ asleep = FALSE /\ suspendedGen = 0
  /\ pend = NoRows /\ seen = [s \in Sites |-> 0] /\ told = [s \in Sites |-> 0]
  /\ armed = FALSE /\ lost = FALSE
-----------------------------------------------------------------------------
(* Callers: engine_call around execute_model, sample_tokens and            *)
(* execute_dummy_batch, and the guarded launches.  A caller other than     *)
(* Owner, a stream other than Fence and a launch outside a call are the    *)
(* violations of the single-stream invariant.  They happen while the       *)
(* worker serves: suspend_reader requires that no engine call runs, and    *)
(* shutdown runs after the last one.                                       *)

\* Seeded fault: the enter does not notify.
CallEnterSilent(c, st) ==
  /\ own = "serving" /\ ~raised /\ cpc[c] = "out" /\ callSeq + 2 <= MaxSeq
  /\ calls' = calls \cup {c}
  /\ callSeq' = callSeq + 1
  /\ cstream' = [cstream EXCEPT ![c] = st]
  /\ cpc' = [cpc EXCEPT ![c] = "entering"]
  /\ parked' = FALSE
  /\ UNCHANGED <<lstream, raised, lifeVars, gateBroken, gpuVars, copyVars, rpc,
                 thread, localVars, sleepVars, reportVars, armed, lost>>

\* _call_enter: under _cv, open the call and wake a parked reader.
CallEnter(c, st) ==
  /\ own = "serving" /\ ~raised /\ cpc[c] = "out" /\ callSeq + 2 <= MaxSeq
  /\ calls' = calls \cup {c}
  /\ callSeq' = callSeq + 1
  /\ cstream' = [cstream EXCEPT ![c] = st]
  /\ cpc' = [cpc EXCEPT ![c] = "entering"]
  /\ parked' = FALSE
  /\ rpc' = IF parked THEN Woken ELSE rpc
  /\ UNCHANGED <<lstream, raised, lifeVars, gateBroken, gpuVars, copyVars,
                 thread, localVars, sleepVars, reportVars, armed, lost>>

\* Seeded fault: the gate breaks without a notify.
BreakGateSilently(violation) ==
  /\ gateBroken' = (gateBroken \/ (GateLive /\ violation))
  /\ UNCHANGED rpc

\* _break_gate, when the violation was seen under a live gate.
BreakGateIf(violation) ==
  IF GateLive /\ violation
  THEN gateBroken' = TRUE /\ rpc' = Woken
  ELSE UNCHANGED <<gateBroken, rpc>>

\* The rest of _call_enter: off-thread and off-stream calls break the gate.
\* execute_model goes on to check_pending, the other entry points do not.
CallCheck(c) ==
  /\ cpc[c] = "entering"
  /\ BreakGateIf(c # Owner \/ cstream[c] # Fence)
  /\ \E next \in {"top", "in"} : cpc' = [cpc EXCEPT ![c] = next]
  /\ UNCHANGED <<callSeq, calls, cstream, lstream, raised, lifeVars, gpuVars,
                 copyVars, thread, localVars, parked, sleepVars, reportVars,
                 armed, lost>>

\* check_pending at the top of execute_model: raise once, clearing the stop.
CheckPending(c) ==
  /\ cpc[c] = "top"
  /\ armed' = FALSE
  /\ raised' = (raised \/ armed)
  /\ cpc' = [cpc EXCEPT ![c] = IF armed THEN "leaving" ELSE "in"]
  /\ UNCHANGED <<callSeq, calls, cstream, lstream, lifeVars, gateBroken, gpuVars,
                 copyVars, thread, rpc, localVars, parked, sleepVars, reportVars,
                 lost>>

\* A graph replay inherits the call's stream and does not pass counter().
Replay(c) ==
  /\ cpc[c] = "in" /\ launched[cstream[c]] < MaxKernels
  /\ launched' = [launched EXCEPT ![cstream[c]] = @ + 1]
  /\ UNCHANGED <<callVars, lifeVars, gateBroken, done, mid, count, maxed, copyVars,
                 thread, rpc, localVars, parked, sleepVars, reportVars, armed, lost>>

\* Seeded fault: a launch outside every call does not break the gate.
CounterOutsideCall(c, st) ==
  /\ \/ cpc[c] = "in"
     \/ cpc[c] = "out" /\ own = "serving" /\ ~raised
  /\ launched[st] < MaxKernels
  /\ BreakGateIf(c # Owner \/ st # Fence)
  /\ lstream' = [lstream EXCEPT ![c] = st]
  /\ cpc' = [cpc EXCEPT ![c] = IF cpc[c] = "in" THEN "launch" ELSE "launchout"]
  /\ UNCHANGED <<callSeq, calls, cstream, raised, lifeVars, gpuVars, copyVars,
                 thread, localVars, parked, sleepVars, reportVars, armed, lost>>

\* counter(), ahead of an eager guarded launch, inside a call or outside one.
Counter(c, st) ==
  /\ \/ cpc[c] = "in"
     \/ cpc[c] = "out" /\ own = "serving" /\ ~raised
  /\ launched[st] < MaxKernels
  /\ BreakGateIf(calls = {} \/ c # Owner \/ st # Fence)
  /\ lstream' = [lstream EXCEPT ![c] = st]
  /\ cpc' = [cpc EXCEPT ![c] = IF cpc[c] = "in" THEN "launch" ELSE "launchout"]
  /\ UNCHANGED <<callSeq, calls, cstream, raised, lifeVars, gpuVars, copyVars,
                 thread, localVars, parked, sleepVars, reportVars, armed, lost>>

Launch(c) ==
  /\ cpc[c] \in {"launch", "launchout"}
  /\ launched' = [launched EXCEPT ![lstream[c]] = @ + 1]
  /\ cpc' = [cpc EXCEPT ![c] = IF cpc[c] = "launch" THEN "in" ELSE "out"]
  /\ UNCHANGED <<callSeq, calls, cstream, lstream, raised, lifeVars, gateBroken,
                 done, mid, count, maxed, copyVars, thread, rpc, localVars, parked,
                 sleepVars, reportVars, armed, lost>>

\* _call_exit, in the wrapper's finally clause: also after a raise.
CallExit(c) ==
  /\ cpc[c] \in {"in", "leaving"}
  /\ calls' = calls \ {c}
  /\ callSeq' = callSeq + 1
  /\ cpc' = [cpc EXCEPT ![c] = "out"]
  /\ UNCHANGED <<cstream, lstream, raised, lifeVars, gateBroken, gpuVars, copyVars,
                 thread, rpc, localVars, parked, sleepVars, reportVars, armed, lost>>

Calling ==
  \E c \in Callers :
    \/ \E st \in Streams : CallEnter(c, st) \/ Counter(c, st)
    \/ CallCheck(c) \/ CheckPending(c) \/ Replay(c) \/ Launch(c) \/ CallExit(c)
-----------------------------------------------------------------------------
(* The GPU: kernels of one stream run in order; a kernel that masks an     *)
(* access writes the count first and the maxima later.                     *)

Hit(st, s) ==
  /\ done[st] < launched[st] /\ mid[st] = NoSite /\ count[s] < MaxHits
  /\ count' = [count EXCEPT ![s] = @ + 1]
  /\ mid' = [mid EXCEPT ![st] = s]
  /\ UNCHANGED <<callVars, lifeVars, gateBroken, launched, done, maxed, copyVars,
                 thread, rpc, localVars, parked, sleepVars, reportVars, armed, lost>>

WriteMaxima(st) ==
  /\ mid[st] # NoSite
  /\ maxed' = [maxed EXCEPT ![mid[st]] = @ + 1]
  /\ mid' = [mid EXCEPT ![st] = NoSite]
  /\ UNCHANGED <<callVars, lifeVars, gateBroken, launched, done, count, copyVars,
                 thread, rpc, localVars, parked, sleepVars, reportVars, armed, lost>>

Finish(st) ==
  /\ done[st] < launched[st] /\ mid[st] = NoSite
  /\ done' = [done EXCEPT ![st] = @ + 1]
  /\ UNCHANGED <<callVars, lifeVars, gateBroken, launched, mid, count, maxed,
                 copyVars, thread, rpc, localVars, parked, sleepVars, reportVars,
                 armed, lost>>

\* The copy completes.  It reads each slot at some moment after its issue.
CopyLands ==
  /\ inflight /\ ~landed
  /\ \E n, m \in [Sites -> 0 .. MaxHits] :
       /\ \A s \in Sites : /\ mirror[s].n <= n[s] /\ n[s] <= count[s]
                           /\ mirror[s].m <= m[s] /\ m[s] <= maxed[s]
       /\ mirror' = [s \in Sites |-> [n |-> n[s], m |-> m[s]]]
  /\ landed' = TRUE
  /\ UNCHANGED <<callVars, lifeVars, gateBroken, gpuVars, inflight, thread, rpc,
                 localVars, parked, sleepVars, reportVars, armed, lost>>

Gpu(st) == WriteMaxima(st) \/ Finish(st) \/ \E s \in Sites : Hit(st, s)
-----------------------------------------------------------------------------
(* Reporting.  Every read of the counters ends in one of these.            *)

Rising(rows) == {s \in Sites : rows[s].n > seen[s]}

\* _report_rows: every count above its high-water mark; _arm for fatal sites.
Advance(rows) ==
  /\ seen' = [s \in Sites |-> IF rows[s].n > seen[s] THEN rows[s].n ELSE seen[s]]
  /\ told' = [s \in Sites |-> IF rows[s].n > seen[s] THEN rows[s].m ELSE told[s]]

ReportRows(rows) ==
  /\ Advance(rows)
  /\ armed' = (armed \/ Rising(rows) \cap FatalSites # {})

\* Seeded fault: the maxima of the older copy win.
FoldOldMaxima(old, rows) ==
  [s \in Sites |-> [n |-> IF old[s].n > rows[s].n THEN old[s].n ELSE rows[s].n,
                    m |-> IF old[s].n > 0 THEN old[s].m ELSE rows[s].m]]

\* The counts of an unconfirmed copy folded into a later one, whose maxima win.
Fold(old, rows) ==
  [s \in Sites |-> [n |-> IF old[s].n > rows[s].n THEN old[s].n ELSE rows[s].n,
                    m |-> rows[s].m]]

\* Seeded fault: only the confirmed report arms.
ConsumeArmsLate(rows) ==
  IF pend = NoRows
  THEN /\ pend' = IF Rising(rows) = {} THEN NoRows ELSE rows
       /\ UNCHANGED <<seen, told, armed>>
  ELSE /\ pend' = NoRows
       /\ ReportRows(Fold(pend, rows))

\* _consume: a copy that may have raced the kernels.  The first copy that
\* shows a rise arms; the next one reports it.
Consume(rows) ==
  IF pend = NoRows
  THEN /\ pend' = IF Rising(rows) = {} THEN NoRows ELSE rows
       /\ armed' = (armed \/ Rising(rows) \cap FatalSites # {})
       /\ UNCHANGED <<seen, told>>
  ELSE /\ pend' = NoRows
       /\ ReportRows(Fold(pend, rows))

\* A settled copy that nothing raced: reported without a confirming copy.
ReportSettled(rows) ==
  /\ pend' = NoRows
  /\ ReportRows(Fold(pend, rows))

\* _lose_device: stop reading it, report what was half confirmed, arm.
LoseDevice ==
  /\ lost' = TRUE
  /\ pend' = NoRows
  /\ Advance(pend)
  /\ armed' = TRUE

IssueCopy == inflight' = TRUE /\ landed' = FALSE /\ mirror' = DeviceRows
-----------------------------------------------------------------------------
(* The reader thread: _reader, one disjunct per branch of its loop.        *)

Goto(pc) == rpc' = pc
ReaderKeeps == UNCHANGED <<callVars, lifeVars, gpuVars>>

\* The loop condition, also tested in the interval wait.
ReaderExit ==
  /\ rpc = "tick" /\ stopReq
  /\ thread' = "dead" /\ Goto("off")
  /\ ReaderKeeps
  /\ UNCHANGED <<gateBroken, copyVars, localVars, parked, sleepVars, reportVars,
                 armed, lost>>

\* Seeded fault: the loop sees that the worker sleeps before it sees the stop.
TickAsleepFirst ==
  /\ rpc = "tick" /\ asleep
  /\ fence' = NoFence /\ seqPrev' = -1
  /\ Goto("sleepcheck")
  /\ ReaderKeeps
  /\ UNCHANGED <<gateBroken, copyVars, thread, rmode, rseq, ropen, rgen, parked,
                 sleepVars, reportVars, armed, lost>>

TickAsleep ==
  /\ rpc = "tick" /\ ~stopReq /\ asleep
  /\ fence' = NoFence /\ seqPrev' = -1
  /\ Goto("sleepcheck")
  /\ ReaderKeeps
  /\ UNCHANGED <<gateBroken, copyVars, thread, rmode, rseq, ropen, rgen, parked,
                 sleepVars, reportVars, armed, lost>>

\* Entering _suspend_point for the current request.
TickSuspend ==
  /\ rpc = "tick" /\ ~stopReq /\ ~asleep /\ suspendReq
  /\ fence' = NoFence /\ seqPrev' = -1
  /\ rmode' = "suspend" /\ rgen' = suspendGen /\ rseq' = callSeq
  /\ Goto("io")
  /\ ReaderKeeps
  /\ UNCHANGED <<gateBroken, copyVars, thread, ropen, parked, sleepVars,
                 reportVars, armed, lost>>

TickUngated ==
  /\ rpc = "tick" /\ ~stopReq /\ ~asleep /\ ~suspendReq /\ ~GateLive
  /\ fence' = NoFence
  /\ rmode' = "plain" /\ Goto("poll")
  /\ ReaderKeeps
  /\ UNCHANGED <<gateBroken, copyVars, thread, rseq, ropen, rgen, seqPrev, parked,
                 sleepVars, reportVars, armed, lost>>

TickGated ==
  /\ rpc = "tick" /\ ~stopReq /\ ~asleep /\ ~suspendReq /\ GateLive
  /\ rmode' = "gated" /\ Goto("sample")
  /\ ReaderKeeps
  /\ UNCHANGED <<gateBroken, copyVars, thread, rseq, ropen, rgen, fence, seqPrev,
                 parked, sleepVars, reportVars, armed, lost>>

\* Under _cv: sample the generation, discard a fence a call has overtaken.
Sample ==
  /\ rpc = "sample"
  /\ rseq' = callSeq /\ ropen' = (calls # {})
  /\ LET stale == fence.seq # callSeq \/ calls # {}
     IN  /\ fence' = IF stale THEN NoFence ELSE fence
         /\ Goto(IF stale THEN "poll" ELSE "query")
  /\ ReaderKeeps
  /\ UNCHANGED <<gateBroken, copyVars, thread, rmode, rgen, seqPrev, parked,
                 sleepVars, reportVars, armed, lost>>

\* all(e.query()): the fence has completed, go and drain.
FenceComplete ==
  /\ rpc = "query" /\ done[Fence] >= fence.mark
  /\ rseq' = fence.seq /\ fence' = NoFence /\ seqPrev' = -1
  /\ rmode' = "drain" /\ Goto("io")
  /\ ReaderKeeps
  /\ UNCHANGED <<gateBroken, copyVars, thread, ropen, rgen, parked, sleepVars,
                 reportVars, armed, lost>>

FenceOutstanding ==
  /\ rpc = "query" /\ done[Fence] < fence.mark
  /\ Goto("poll")
  /\ ReaderKeeps
  /\ UNCHANGED <<gateBroken, copyVars, thread, localVars, parked, sleepVars,
                 reportVars, armed, lost>>

\* An exception in the loop body outside the reads (the event query): arm.
LoopFails ==
  /\ rpc = "query" /\ "query" \in Faults
  /\ fence' = NoFence /\ seqPrev' = -1 /\ armed' = TRUE
  /\ Goto("tick")
  /\ ReaderKeeps
  /\ UNCHANGED <<gateBroken, copyVars, thread, rmode, rseq, ropen, rgen, parked,
                 sleepVars, reportVars, lost>>

\* After a poll: quiet since the previous sample, with no fence recorded yet.
WantsFence == fence = NoFence /\ ~ropen /\ rseq = seqPrev

\* Seeded fault: the sample is not remembered for the next tick.
AfterPollForgets ==
  IF rmode # "plain" /\ WantsFence THEN Goto("record") /\ UNCHANGED seqPrev
  ELSE Goto("tick") /\ UNCHANGED seqPrev

AfterPoll ==
  IF rmode = "plain" THEN Goto("tick") /\ UNCHANGED seqPrev
  ELSE IF WantsFence THEN Goto("record") /\ UNCHANGED seqPrev
  ELSE Goto("tick") /\ seqPrev' = rseq

\* _poll_once of a device given up on, or whose copy is still in flight.
PollNothing ==
  /\ rpc = "poll" /\ IoFree
  /\ lost \/ (inflight /\ ~landed)
  /\ AfterPoll
  /\ ReaderKeeps
  /\ UNCHANGED <<gateBroken, copyVars, thread, rmode, rseq, ropen, rgen, fence,
                 parked, sleepVars, reportVars, armed, lost>>

\* poll_one: consume the copy that landed, if any, and issue the next.
Poll ==
  /\ rpc = "poll" /\ IoFree /\ ~lost
  /\ inflight => landed
  /\ IssueCopy
  /\ IF inflight THEN Consume(mirror) ELSE UNCHANGED <<reportVars, armed>>
  /\ AfterPoll
  /\ ReaderKeeps
  /\ UNCHANGED <<gateBroken, thread, rmode, rseq, ropen, rgen, fence, parked,
                 sleepVars, lost>>

PollFails ==
  /\ rpc = "poll" /\ IoFree /\ ~lost /\ "read" \in Faults
  /\ LoseDevice
  /\ AfterPoll
  /\ ReaderKeeps
  /\ UNCHANGED <<gateBroken, copyVars, thread, rmode, rseq, ropen, rgen, fence,
                 parked, sleepVars>>

\* _record_fence: an event behind everything launched on the engine stream.
RecordFence ==
  /\ rpc = "record"
  /\ fence' = [seq |-> rseq, mark |-> launched[Fence]]
  /\ seqPrev' = rseq /\ Goto("tick")
  /\ ReaderKeeps
  /\ UNCHANGED <<gateBroken, copyVars, thread, rmode, rseq, ropen, rgen, parked,
                 sleepVars, reportVars, armed, lost>>

RecordFails ==
  /\ rpc = "record" /\ "record" \in Faults
  /\ gateBroken' = TRUE
  /\ seqPrev' = rseq /\ Goto("tick")
  /\ ReaderKeeps
  /\ UNCHANGED <<copyVars, thread, rmode, rseq, ropen, rgen, fence, parked,
                 sleepVars, reportVars, armed, lost>>
-----------------------------------------------------------------------------
(* The settled read (_final_drain, _suspend_point and read_settled): wait  *)
(* for the copy in flight and discard it, issue a fresh one, wait for it.  *)

\* with _io_lock; a device given up on is skipped.
AcquireIo ==
  /\ rpc = "io" /\ IoFree
  /\ Goto(IF ~lost THEN "settle" ELSE IF rmode = "drain" THEN "park" ELSE "ack")
  /\ ReaderKeeps
  /\ UNCHANGED <<gateBroken, copyVars, thread, localVars, parked, sleepVars,
                 reportVars, armed, lost>>

\* cancelled(), in _final_drain and in _suspend_point.
Cancelled ==
  \/ stopReq
  \/ rmode = "drain" /\ (suspendReq \/ callSeq # rseq \/ calls # {})
  \/ rmode = "suspend" /\ (~suspendReq \/ suspendGen # rgen)

IssueFresh ==
  /\ rpc = "settle"
  /\ inflight => landed
  /\ IssueCopy
  /\ Goto("fresh")
  /\ ReaderKeeps
  /\ UNCHANGED <<gateBroken, thread, localVars, parked, sleepVars, reportVars,
                 armed, lost>>

\* Seeded fault: the job of the consumed copy stays in flight.
FreshStaysInFlight ==
  /\ rpc = "fresh" /\ landed
  /\ Goto("landed")
  /\ ReaderKeeps
  /\ UNCHANGED <<gateBroken, copyVars, thread, localVars, parked, sleepVars,
                 reportVars, armed, lost>>

FreshLanded ==
  /\ rpc = "fresh" /\ landed
  /\ inflight' = FALSE
  /\ Goto("landed")
  /\ ReaderKeeps
  /\ UNCHANGED <<gateBroken, landed, mirror, thread, localVars, parked, sleepVars,
                 reportVars, armed, lost>>

\* None: cancelled, or past _DRAIN_TIMEOUT_S (a suspend has no deadline of its
\* own).  The copy stays in flight for the cadence path.
GiveUp ==
  /\ rpc \in {"settle", "fresh"} /\ inflight /\ ~landed
  /\ Cancelled \/ rmode = "drain"
  /\ Goto("tick")
  /\ ReaderKeeps
  /\ UNCHANGED <<gateBroken, copyVars, thread, localVars, parked, sleepVars,
                 reportVars, armed, lost>>

SettleFails ==
  /\ rpc \in {"settle", "fresh"} /\ "read" \in Faults
  /\ LoseDevice
  /\ Goto(IF rmode = "drain" THEN "park" ELSE "ack")
  /\ ReaderKeeps
  /\ UNCHANGED <<gateBroken, copyVars, thread, localVars, parked, sleepVars>>

\* Under _cv: no call entered before the copy landed ("quiet", "coherent").
Coherent ==
  /\ callSeq = rseq /\ calls = {}
  /\ rmode = "suspend" => suspendReq /\ suspendGen = rgen

DrainReport ==
  /\ rpc = "landed" /\ Coherent
  /\ ReportSettled(mirror)
  /\ Goto(IF rmode = "drain" THEN "park" ELSE "ack")
  /\ ReaderKeeps
  /\ UNCHANGED <<gateBroken, copyVars, thread, localVars, parked, sleepVars, lost>>

DrainRaced ==
  /\ rpc = "landed" /\ ~Coherent
  /\ Consume(mirror)
  /\ Goto("tick")
  /\ ReaderKeeps
  /\ UNCHANGED <<gateBroken, copyVars, thread, localVars, parked, sleepVars, lost>>

\* Seeded fault: a withdrawn request is acknowledged too.
SuspendAckBlindly ==
  /\ rpc = "ack"
  /\ asleep' = TRUE /\ suspendedGen' = rgen
  /\ Goto("sleepcheck")
  /\ ReaderKeeps
  /\ UNCHANGED <<gateBroken, copyVars, thread, localVars, parked, reportVars,
                 armed, lost>>

\* _suspend_point, the barrier: still under _io_lock, unless cancelled.
SuspendAck ==
  /\ rpc = "ack" /\ ~Cancelled
  /\ asleep' = TRUE /\ suspendedGen' = rgen
  /\ Goto("sleepcheck")
  /\ ReaderKeeps
  /\ UNCHANGED <<gateBroken, copyVars, thread, localVars, parked, reportVars,
                 armed, lost>>

SuspendCancelled ==
  /\ rpc = "ack" /\ Cancelled
  /\ Goto("tick")
  /\ ReaderKeeps
  /\ UNCHANGED <<gateBroken, copyVars, thread, localVars, parked, sleepVars,
                 reportVars, armed, lost>>

\* _sleep_while_asleep: the wait's test, made again after every notify.
SleepCheck ==
  /\ rpc = "sleepcheck"
  /\ Goto(IF asleep /\ ~stopReq THEN "sleeping" ELSE "tick")
  /\ ReaderKeeps
  /\ UNCHANGED <<gateBroken, copyVars, thread, localVars, parked, sleepVars,
                 reportVars, armed, lost>>
-----------------------------------------------------------------------------
(* _park.                                                                  *)

\* Seeded fault: a call that came and went during the drain goes unnoticed.
MayParkAnyway == calls = {} /\ GateLive /\ ~stopReq /\ ~suspendReq

MayPark == /\ callSeq = rseq /\ calls = {}
           /\ GateLive /\ ~stopReq /\ ~suspendReq

\* Under _cv.  The first park lets go of _cv to log before it tests the wait.
Park ==
  /\ rpc = "park"
  /\ parked' = MayPark
  /\ Goto(IF MayPark THEN "parkcheck" ELSE "tick")
  /\ ReaderKeeps
  /\ UNCHANGED <<gateBroken, copyVars, thread, localVars, sleepVars, reportVars,
                 armed, lost>>

\* The condition _park waits on.
StaysParked == callSeq = rseq /\ ~gateBroken /\ ~stopReq /\ ~suspendReq

ParkCheck ==
  /\ rpc = "parkcheck"
  /\ parked' = (parked /\ StaysParked)
  /\ Goto(IF StaysParked THEN "parked" ELSE "tick")
  /\ ReaderKeeps
  /\ UNCHANGED <<gateBroken, copyVars, thread, localVars, sleepVars, reportVars,
                 armed, lost>>

ReaderStep ==
  \/ TickAsleep \/ TickSuspend \/ TickUngated \/ TickGated
  \/ Sample \/ FenceComplete \/ FenceOutstanding \/ LoopFails
  \/ PollNothing \/ Poll \/ PollFails \/ RecordFence \/ RecordFails
  \/ AcquireIo \/ IssueFresh \/ FreshLanded \/ GiveUp \/ SettleFails
  \/ DrainReport \/ DrainRaced \/ SuspendAck \/ SuspendCancelled \/ SleepCheck
  \/ Park \/ ParkCheck \/ ReaderExit
-----------------------------------------------------------------------------
(* The worker's lifecycle, on the engine thread: Worker's warm-up, sleep,  *)
(* wake_up and shutdown.  suspend_reader, resume_reader, start_reader and  *)
(* stop_reader exclude each other by _life_lock; here one thread runs them.*)

WorkerKeeps == UNCHANGED <<callVars, gpuVars>>

\* _reset_lifecycle, with no reader running.
ResetLifecycle(next) ==
  /\ thread' = next
  /\ gateArmed' = FALSE /\ gateBroken' = FALSE
  /\ suspendReq' = FALSE /\ stopReq' = FALSE
  /\ parked' = FALSE

\* The reader thread's locals at the start of _reader.
FreshReader ==
  /\ rpc' = "tick" /\ rmode' = "plain"
  /\ rseq' = 0 /\ ropen' = FALSE /\ rgen' = 0
  /\ fence' = NoFence /\ seqPrev' = -1

\* Seeded fault: the lifecycle is reset under a reader that still runs.
StartReaderResets ==
  /\ own = "boot" /\ AllDone
  /\ own' = "started"
  /\ ResetLifecycle("alive")
  /\ IF thread = "alive" THEN UNCHANGED <<rpc, localVars>> ELSE FreshReader
  /\ WorkerKeeps
  /\ UNCHANGED <<lives, suspendGen, copyVars, sleepVars, reportVars, armed, lost>>

\* start_reader, after capture: a reader from an earlier worker that is still
\* running is left alone, one that has exited is reaped.
StartReader ==
  /\ own = "boot" /\ AllDone
  /\ own' = "started"
  /\ IF thread = "alive"
     THEN UNCHANGED <<thread, gateArmed, gateBroken, suspendReq, stopReq, parked,
                      rpc, localVars>>
     ELSE ResetLifecycle("alive") /\ FreshReader
  /\ WorkerKeeps
  /\ UNCHANGED <<lives, suspendGen, copyVars, sleepVars, reportVars, armed, lost>>

EnableIdleGate ==
  /\ own = "started"
  /\ own' = "serving"
  /\ gateArmed' = (gateArmed \/ IdleGate)
  /\ WorkerKeeps
  /\ UNCHANGED <<lives, gateBroken, suspendReq, suspendGen, stopReq, copyVars,
                 thread, rpc, localVars, parked, sleepVars, reportVars, armed, lost>>

\* Worker.sleep: torch.accelerator.synchronize().
SyncDevice ==
  /\ own = "serving" /\ ~raised /\ AllOut /\ suspendGen < MaxSuspends
  /\ AllDone /\ landed
  /\ own' = "synced"
  /\ WorkerKeeps
  /\ UNCHANGED <<lives, gateArmed, gateBroken, suspendReq, suspendGen, stopReq,
                 copyVars, thread, rpc, localVars, parked, sleepVars, reportVars,
                 armed, lost>>

\* suspend_reader up to its wait.
SuspendRequest ==
  /\ own = "synced"
  /\ IF asleep \/ thread # "alive"
     THEN /\ own' = "asleep" /\ asleep' = TRUE
          /\ UNCHANGED <<suspendReq, suspendGen, rpc>>
     ELSE /\ own' = "suspending"
          /\ suspendReq' = TRUE /\ suspendGen' = suspendGen + 1
          /\ rpc' = Woken
          /\ UNCHANGED asleep
  /\ WorkerKeeps
  /\ UNCHANGED <<lives, gateArmed, gateBroken, stopReq, copyVars, thread,
                 localVars, parked, suspendedGen, reportVars, armed, lost>>

\* The wait ends: acknowledged, or withdrawn on timeout (no sleep).
SuspendDone ==
  /\ own = "suspending"
  /\ own' = IF asleep /\ suspendedGen = suspendGen THEN "asleep" ELSE "serving"
  /\ suspendReq' = FALSE
  /\ rpc' = Woken
  /\ WorkerKeeps
  /\ UNCHANGED <<lives, gateArmed, gateBroken, suspendGen, stopReq, copyVars,
                 thread, localVars, parked, sleepVars, reportVars, armed, lost>>

\* Worker.wake_up: resume_reader.
ResumeReader ==
  /\ own = "asleep"
  /\ own' = "serving"
  /\ suspendReq' = FALSE /\ asleep' = FALSE
  /\ rpc' = Woken
  /\ WorkerKeeps
  /\ UNCHANGED <<lives, gateArmed, gateBroken, suspendGen, stopReq, copyVars,
                 thread, localVars, parked, suspendedGen, reportVars, armed, lost>>

\* Worker.shutdown: stop_reader up to its join.
StopReader ==
  /\ own \in {"serving", "asleep"} /\ AllOut
  /\ own' = "joining"
  /\ stopReq' = TRUE
  /\ rpc' = Woken
  /\ WorkerKeeps
  /\ UNCHANGED <<lives, gateArmed, gateBroken, suspendReq, suspendGen, copyVars,
                 thread, localVars, parked, sleepVars, reportVars, armed, lost>>

Join ==
  /\ own = "joining" /\ thread # "alive"
  /\ own' = "stopped"
  /\ ResetLifecycle("none")
  /\ WorkerKeeps
  /\ UNCHANGED <<lives, suspendGen, copyVars, rpc, localVars, sleepVars,
                 reportVars, armed, lost>>

JoinTimeout ==
  /\ own = "joining" /\ thread = "alive"
  /\ own' = "stopped"
  /\ WorkerKeeps
  /\ UNCHANGED <<lives, gateArmed, gateBroken, suspendReq, suspendGen, stopReq,
                 copyVars, thread, rpc, localVars, parked, sleepVars, reportVars,
                 armed, lost>>

\* Seeded fault: a sleeping worker is drained like any other.
DrainBeginAsleep ==
  /\ own = "stopped" /\ ~HoldsIo
  /\ own' = "draining"
  /\ WorkerKeeps
  /\ UNCHANGED <<lives, gateArmed, gateBroken, suspendReq, suspendGen, stopReq,
                 copyVars, thread, rpc, localVars, parked, sleepVars, reportVars,
                 armed, lost>>

\* drain(): the lock, then not while asleep.
DrainBegin ==
  /\ own = "stopped" /\ ~HoldsIo /\ ~asleep
  /\ own' = "draining"
  /\ WorkerKeeps
  /\ UNCHANGED <<lives, gateArmed, gateBroken, suspendReq, suspendGen, stopReq,
                 copyVars, thread, rpc, localVars, parked, sleepVars, reportVars,
                 armed, lost>>

\* The reader kept the lock past the timeout, or the worker is asleep.
DrainSkipped ==
  /\ own = "stopped" /\ (HoldsIo \/ asleep)
  /\ own' = "undrained"
  /\ WorkerKeeps
  /\ UNCHANGED <<lives, gateArmed, gateBroken, suspendReq, suspendGen, stopReq,
                 copyVars, thread, rpc, localVars, parked, sleepVars, reportVars,
                 armed, lost>>

\* Seeded fault: the drain reads without synchronizing.
DrainReadEarly ==
  /\ own = "draining"
  /\ own' = "drained"
  /\ inflight' = FALSE /\ landed' = TRUE /\ mirror' = DeviceRows
  /\ ReportRows(DeviceRows)
  /\ WorkerKeeps
  /\ UNCHANGED <<lives, gateArmed, gateBroken, suspendReq, suspendGen, stopReq,
                 thread, rpc, localVars, parked, sleepVars, pend, lost>>

\* _drain_locked: synchronize, then read_now and report.
DrainRead ==
  /\ own = "draining" /\ AllDone
  /\ own' = "drained"
  /\ inflight' = FALSE /\ landed' = TRUE /\ mirror' = DeviceRows
  /\ ReportRows(DeviceRows)
  /\ WorkerKeeps
  /\ UNCHANGED <<lives, gateArmed, gateBroken, suspendReq, suspendGen, stopReq,
                 thread, rpc, localVars, parked, sleepVars, pend, lost>>

DrainFails ==
  /\ own = "draining" /\ "drain" \in Faults
  /\ own' = "undrained"
  /\ WorkerKeeps
  /\ UNCHANGED <<lives, gateArmed, gateBroken, suspendReq, suspendGen, stopReq,
                 copyVars, thread, rpc, localVars, parked, sleepVars, reportVars,
                 armed, lost>>

\* A later worker in the same process.
NewWorker ==
  /\ own \in {"drained", "undrained"} /\ ~raised /\ lives < MaxLives
  /\ own' = "boot" /\ lives' = lives + 1
  /\ WorkerKeeps
  /\ UNCHANGED <<gateArmed, gateBroken, suspendReq, suspendGen, stopReq, copyVars,
                 thread, rpc, localVars, parked, sleepVars, reportVars, armed, lost>>

Lifecycle ==
  \/ StartReader \/ EnableIdleGate
  \/ SyncDevice \/ SuspendRequest \/ SuspendDone \/ ResumeReader
  \/ StopReader \/ Join \/ JoinTimeout
  \/ DrainBegin \/ DrainSkipped \/ DrainRead \/ DrainFails \/ NewWorker

\* The last worker of the process is gone and so is its reader.
Gone == /\ own \in {"drained", "undrained"} /\ thread # "alive"
        /\ UNCHANGED vars

Next == \/ Calling \/ ReaderStep \/ Lifecycle \/ CopyLands
        \/ (\E st \in Streams : Gpu(st)) \/ Gone

Spec == Init /\ [][Next]_vars

\* The contract: a watch over counters that rests only when nothing is missed.
Watch == INSTANCE CounterWatch WITH
  hits <- count, reported <- seen, stopping <- armed \/ raised,
  resting <- parked /\ GateLive /\ ~lost

\* What the code's scheduling gives: the reader is a live daemon thread, the
\* GPU finishes its work, a copy on the idle side stream completes, a shutdown
\* that holds the I/O lock goes on, and neither the drain's timeout (2 s for a
\* copy of microseconds) nor an event query fails every time.
Fairness ==
  /\ WF_vars(ReaderStep) /\ WF_vars(CopyLands) /\ WF_vars(DrainRead)
  /\ \A st \in Streams : WF_vars(Gpu(st))
  /\ SF_vars(CopyLands /\ rpc = "settle") /\ SF_vars(CopyLands /\ rpc = "fresh")
  /\ SF_vars(FenceComplete)

FairSpec == Spec /\ Fairness
-----------------------------------------------------------------------------
ReaderPcs == {"off", "tick", "sample", "query", "poll", "record", "io", "settle",
              "fresh", "landed", "ack", "sleepcheck", "sleeping", "park",
              "parkcheck", "parked"}

CallerPcs == {"out", "entering", "top", "in", "launch", "launchout", "leaving"}

CallTypes ==
  /\ callSeq \in Nat /\ calls \subseteq Callers /\ cpc \in [Callers -> CallerPcs]
  /\ cstream \in [Callers -> Streams] /\ lstream \in [Callers -> Streams]
  /\ raised \in BOOLEAN
LifeTypes ==
  /\ own \in {"boot", "started", "serving", "synced", "suspending", "asleep",
             "joining", "stopped", "draining", "drained", "undrained"}
  /\ lives \in Nat /\ gateArmed \in BOOLEAN
  /\ suspendReq \in BOOLEAN /\ suspendGen \in Nat /\ stopReq \in BOOLEAN
GpuTypes ==
  /\ launched \in [Streams -> Nat] /\ done \in [Streams -> Nat]
  /\ mid \in [Streams -> Sites \cup {NoSite}]
  /\ count \in [Sites -> 0 .. MaxHits] /\ maxed \in [Sites -> Nat]
CopyTypes == inflight \in BOOLEAN /\ landed \in BOOLEAN /\ mirror \in Rows
LocalTypes ==
  /\ rmode \in {"plain", "gated", "drain", "suspend"}
  /\ rseq \in Nat \cup {-1} /\ ropen \in BOOLEAN /\ rgen \in Nat
  /\ fence \in [seq : Nat \cup {-1}, mark : Nat] /\ seqPrev \in Nat \cup {-1}
SleepTypes == asleep \in BOOLEAN /\ suspendedGen \in Nat
ReportTypes == pend \in Rows /\ seen \in [Sites -> Nat] /\ told \in [Sites -> Nat]

TypeOK ==
  /\ CallTypes /\ LifeTypes /\ GpuTypes /\ CopyTypes /\ LocalTypes /\ SleepTypes
  /\ ReportTypes
  /\ gateBroken \in BOOLEAN /\ thread \in {"none", "alive", "dead"}
  /\ rpc \in ReaderPcs /\ parked \in BOOLEAN
  /\ armed \in BOOLEAN /\ lost \in BOOLEAN

FatalHit == \E s \in FatalSites : count[s] > 0

\* The idle quiesce misses nothing: while the reader is parked behind a live
\* gate and can read its device, every kernel launched so far has completed,
\* every count has been reported, and a fatal one has armed the stop (or the
\* rank has raised).
ParkedMeansReported ==
  parked /\ GateLive /\ ~lost =>
    AllDone /\ AllReported /\ (FatalHit => armed \/ raised)

\* A parked reader has left no copy behind (_final_drain leaves nothing in
\* flight), so a parked worker's card does no reader work at all.
ParkedLeavesNoCopy == parked /\ ~lost => ~inflight

\* A fatal count is armed on the first copy that shows it, and evidence never
\* evaporates: what was reported, is half confirmed, or died with the device
\* has stopped the rank or will at its next step.
FatalEvidenceStopsRank ==
  (lost \/ \E s \in FatalSites : seen[s] > 0 \/ pend[s].n > 0) => armed \/ raised

\* No wakeup is lost: a reader blocked on the condition variable has no reason
\* to run.
NoLostWakeup ==
  /\ rpc = "parked" => StaysParked
  /\ rpc = "sleeping" => asleep /\ ~stopReq

\* Worker.shutdown's final drain finds the hit of the last step, whatever the
\* reader was doing when it was stopped.
DrainedMeansReported == own = "drained" => AllReported

\* suspend_reader is acknowledged only with the device idle, every count
\* reported and no copy in flight, never on behalf of a withdrawn request.
SuspendAckIsFinal ==
  [][~asleep /\ asleep' /\ thread = "alive" =>
       /\ own = "suspending" /\ rgen = suspendGen
       /\ AllDone /\ (lost \/ (AllReported /\ ~inflight))]_vars

\* Neither the reader nor drain() starts a copy for a sleeping worker; at most
\* the last copy of a device given up on still completes.
NoReadWhileAsleep ==
  [][asleep /\ asleep' => UNCHANGED copyVars \/ (~landed /\ landed')]_vars

\* The report of a settled read is coherent: its maxima cover every hit it
\* counts, which the cadence path cannot promise.
SettledReportIsCoherent ==
  [][DrainReport /\ (GateLive \/ rmode = "suspend") =>
       \A s \in Sites : seen'[s] # seen[s] => told'[s] = seen'[s]]_vars

\* The reader, its gate, its copies and its locks implement the watch that
\* rests only when every hit is reported (the IDLE QUIESCE contract).
ContractSpec == Watch!Spec

\* wait_idle returns TRUE in these states.
WaitIdleTrue == thread = "alive" /\ GateLive /\ parked /\ calls = {}

\* wait_idle's docstring: every counter write so far has been reported.
WaitIdleMeansReported == WaitIdleTrue => AllReported

\* The reader is there to read, and may.
Watching == thread = "alive" /\ ~stopReq /\ ~asleep /\ ~lost

\* Every hit is reported, parks and sleeps notwithstanding, unless the reader
\* is stopped or loses its device.
HitsGetReported ==
  \A s \in Sites : \A k \in 1 .. MaxHits :
    (count[s] >= k) ~> (seen[s] >= k \/ ~Watching)

EngineIdle == /\ own = "serving" /\ AllOut /\ GateLive
              /\ thread = "alive" /\ ~stopReq /\ ~asleep

\* An engine that stays idle behind a live gate gets its reader parked for good.
IdleReaderParks == <>[]EngineIdle => <>[](rpc = "parked")

\* A reader asked to stop exits, from a park, a sleep or a read.
StopEndsReader == stopReq ~> (thread # "alive")
=============================================================================
