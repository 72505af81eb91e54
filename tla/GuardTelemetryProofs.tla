------------------------ MODULE GuardTelemetryProofs ------------------------
(***************************************************************************)
(* Proofs of the safety properties of GuardTelemetry, for every value of   *)
(* its constants, from the inductive invariant of GuardTelemetryInv.       *)
(***************************************************************************)
EXTENDS GuardTelemetryInv, FiniteSetTheorems, TLAPS

\* Copies of the counters, taken or folded, are well typed.
LEMMA RowsType ==
  /\ NoRows \in Rows
  /\ TypeOK => DeviceRows \in Rows
  /\ \A old, rows \in Rows : Fold(old, rows) \in Rows
BY BoundsAssumption DEF NoRows, Rows, TypeOK, GpuTypes, DeviceRows, Fold

\* Reporting keeps the types.
LEMMA ReportType ==
  ASSUME TypeOK, NEW rows \in Rows
  PROVE  /\ Advance(rows) => seen' \in [Sites -> Nat] /\ told' \in [Sites -> Nat]
         /\ ReportRows(rows) => armed' \in BOOLEAN
<1>1. Advance(rows) => seen' \in [Sites -> Nat] /\ told' \in [Sites -> Nat]
  BY DEF TypeOK, ReportTypes, Rows, Advance
<1>2. ReportRows(rows) => armed' \in BOOLEAN
  BY Zenon DEF ReportRows
<1> QED BY <1>1, <1>2

\* So does consuming a copy that may have raced the kernels.
LEMMA ConsumeType ==
  ASSUME TypeOK, NEW rows \in Rows, Consume(rows) \/ ReportSettled(rows)
  PROVE  ReportTypes' /\ armed' \in BOOLEAN
<1> USE DEF ReportTypes
<1>1. Fold(pend, rows) \in Rows /\ NoRows \in Rows BY RowsType DEF TypeOK
<1>2. CASE Consume(rows) /\ pend = NoRows
  <2>1. armed' \in BOOLEAN BY <1>2, Zenon DEF Consume
  <2> QED BY <1>1, <1>2, <2>1 DEF Consume, TypeOK
<1>3. CASE (Consume(rows) /\ pend # NoRows) \/ ReportSettled(rows)
  <2>1. pend' = NoRows /\ ReportRows(Fold(pend, rows)) BY <1>3 DEF Consume, ReportSettled
  <2> QED BY <1>1, <2>1, ReportType DEF ReportRows
<1> QED BY <1>2, <1>3

\* And giving a device up.
LEMMA LoseType ==
  ASSUME TypeOK, LoseDevice
  PROVE  ReportTypes' /\ armed' \in BOOLEAN /\ lost' \in BOOLEAN
BY RowsType, ReportType DEF LoseDevice, TypeOK, ReportTypes

\* A notify leaves the reader at one of its control points.
LEMMA WokenType == TypeOK => Woken \in ReaderPcs
BY DEF TypeOK, Woken, ReaderPcs

\* A group of variables that a step leaves alone keeps its types.
LEMMA TypeFrame ==
  ASSUME TypeOK
  PROVE  /\ UNCHANGED callVars => CallTypes'
         /\ UNCHANGED lifeVars => LifeTypes'
         /\ UNCHANGED gpuVars => GpuTypes'
         /\ UNCHANGED copyVars => CopyTypes'
         /\ UNCHANGED localVars => LocalTypes'
         /\ UNCHANGED sleepVars => SleepTypes'
         /\ UNCHANGED reportVars => ReportTypes'
BY DEF TypeOK, CallTypes, LifeTypes, GpuTypes, CopyTypes, LocalTypes, SleepTypes, ReportTypes,
       callVars, lifeVars, gpuVars, copyVars, localVars, sleepVars, reportVars

\* The initial state is well typed.
LEMMA TypeInit == Init => TypeOK
<1> SUFFICES ASSUME Init PROVE TypeOK OBVIOUS
<1>1. LocalTypes BY DEF Init, LocalTypes, NoFence
<1>2. CallTypes BY StreamsAssumption DEF Init, CallTypes, CallerPcs
<1>3. GpuTypes BY BoundsAssumption DEF Init, GpuTypes
<1>4. CopyTypes /\ ReportTypes BY RowsType DEF Init, CopyTypes, ReportTypes
<1>5. LifeTypes /\ SleepTypes BY DEF Init, LifeTypes, SleepTypes
<1> QED BY <1>1, <1>2, <1>3, <1>4, <1>5 DEF Init, TypeOK, ReaderPcs

\* Every step of every process keeps the types.
THEOREM TypeStep == TypeOK /\ [Next]_vars => TypeOK'
<1> SUFFICES ASSUME TypeOK, [Next]_vars PROVE TypeOK' OBVIOUS
<1> USE TypeFrame DEF TypeOK
<1>1. ASSUME NEW c \in Callers, NEW st \in Streams, CallEnter(c, st)
      PROVE  TypeOK'
  <2>1. CallTypes' BY <1>1 DEF CallEnter, CallTypes, CallerPcs
  <2>2. rpc' \in ReaderPcs BY <1>1, WokenType DEF CallEnter
  <2> QED BY <1>1, <2>1, <2>2 DEF CallEnter
<1>2. ASSUME NEW c \in Callers, NEW st \in Streams, Counter(c, st)
      PROVE  TypeOK'
  BY <1>2, WokenType DEF Counter, BreakGateIf, callVars, CallTypes,
     CallerPcs
<1>3. ASSUME NEW c \in Callers, CallCheck(c)
      PROVE  TypeOK'
  BY <1>3, WokenType DEF CallCheck, BreakGateIf, callVars, CallTypes,
     CallerPcs
<1>4. ASSUME NEW c \in Callers, CheckPending(c)
      PROVE  TypeOK'
  BY <1>4, WokenType DEF CheckPending, callVars, CallTypes, CallerPcs
<1>5. ASSUME NEW c \in Callers, Replay(c)
      PROVE  TypeOK'
  BY <1>5, WokenType DEF Replay, gpuVars, GpuTypes, callVars, CallTypes, CallerPcs,
     ReaderPcs
<1>6. ASSUME NEW c \in Callers, Launch(c)
      PROVE  TypeOK'
  BY <1>6, WokenType DEF Launch, gpuVars, GpuTypes, callVars, CallTypes, CallerPcs,
     ReaderPcs
<1>7. ASSUME NEW c \in Callers, CallExit(c)
      PROVE  TypeOK'
  BY <1>7, WokenType DEF CallExit, callVars, CallTypes, CallerPcs
<1>8. ASSUME NEW st \in Streams, Gpu(st) PROVE TypeOK'
  <2>1. GpuTypes' BY <1>8, BoundsAssumption DEF Gpu, Hit, WriteMaxima, Finish, GpuTypes
  <2> QED BY <1>8, <2>1 DEF Gpu, Hit, WriteMaxima, Finish
<1>9. CASE CopyLands
  <2>1. CopyTypes' BY <1>9 DEF CopyLands, CopyTypes, Rows
  <2> QED BY <1>9, <2>1 DEF CopyLands
<1>10. CASE ReaderStep
  <2>1. CASE TickAsleep
    BY <2>1 DEF TickAsleep, NoFence, localVars, LocalTypes, Goto, ReaderKeeps,
       ReaderPcs
  <2>2. CASE TickSuspend
    BY <2>2 DEF TickSuspend, NoFence, localVars, LocalTypes, lifeVars, LifeTypes,
       callVars, CallTypes, Goto, ReaderKeeps, ReaderPcs
  <2>3. CASE TickUngated
    BY <2>3 DEF TickUngated, NoFence, localVars, LocalTypes, Goto, ReaderKeeps,
       ReaderPcs
  <2>4. CASE TickGated
    BY <2>4 DEF TickGated, localVars, LocalTypes, Goto, ReaderKeeps, ReaderPcs
  <2>5. CASE Sample
    <3>1. ropen' \in BOOLEAN BY <2>5, Zenon DEF Sample
    <3> QED BY <2>5, <3>1 DEF Sample, NoFence, localVars, LocalTypes, callVars,
       CallTypes, Goto, ReaderKeeps, ReaderPcs
  <2>6. CASE FenceComplete
    BY <2>6 DEF FenceComplete, NoFence, localVars, LocalTypes, Goto, ReaderKeeps,
       ReaderPcs
  <2>7. CASE FenceOutstanding
    BY <2>7 DEF FenceOutstanding, Goto, ReaderKeeps, ReaderPcs
  <2>8. CASE LoopFails
    BY <2>8 DEF LoopFails, NoFence, localVars, LocalTypes, Goto, ReaderKeeps,
       ReaderPcs
  <2>9. CASE PollNothing
    BY <2>9 DEF PollNothing, AfterPoll, localVars, LocalTypes, Goto, ReaderKeeps,
       ReaderPcs
  <2>10. CASE RecordFence
    BY <2>10, StreamsAssumption DEF RecordFence, localVars, LocalTypes, gpuVars,
       GpuTypes, Goto, ReaderKeeps, ReaderPcs
  <2>11. CASE RecordFails
    BY <2>11 DEF RecordFails, localVars, LocalTypes, Goto, ReaderKeeps, ReaderPcs
  <2>12. CASE AcquireIo
    BY <2>12 DEF AcquireIo, Goto, ReaderKeeps, ReaderPcs
  <2>13. CASE IssueFresh
    BY <2>13, RowsType DEF IssueFresh, IssueCopy, copyVars, CopyTypes, Goto,
       ReaderKeeps, ReaderPcs
  <2>14. CASE FreshLanded
    BY <2>14 DEF FreshLanded, copyVars, CopyTypes, Goto, ReaderKeeps, ReaderPcs
  <2>15. CASE GiveUp
    BY <2>15 DEF GiveUp, Goto, ReaderKeeps, ReaderPcs
  <2>16. CASE SuspendAck
    BY <2>16 DEF SuspendAck, sleepVars, SleepTypes, localVars, LocalTypes, Goto,
       ReaderKeeps, ReaderPcs
  <2>17. CASE SuspendCancelled
    BY <2>17 DEF SuspendCancelled, Goto, ReaderKeeps, ReaderPcs
  <2>18. CASE SleepCheck
    BY <2>18 DEF SleepCheck, Goto, ReaderKeeps, ReaderPcs
  <2>19. CASE Park
    <3>1. parked' \in BOOLEAN BY <2>19, Zenon DEF Park, MayPark, StaysParked
    <3> QED BY <2>19, <3>1 DEF Park, Goto, ReaderKeeps, ReaderPcs
  <2>20. CASE ParkCheck
    <3>1. parked' \in BOOLEAN BY <2>20, Zenon DEF ParkCheck, MayPark, StaysParked
    <3> QED BY <2>20, <3>1 DEF ParkCheck, Goto, ReaderKeeps, ReaderPcs
  <2>21. CASE ReaderExit
    BY <2>21 DEF ReaderExit, Goto, ReaderKeeps, ReaderPcs
  <2>22. CASE Poll
    <3>1. CopyTypes' BY <2>22, RowsType DEF Poll, IssueCopy, CopyTypes
    <3>2. ReportTypes' /\ armed' \in BOOLEAN BY <2>22, ConsumeType DEF Poll, CopyTypes
    <3>3. LocalTypes' /\ rpc' \in ReaderPcs
      BY <2>22 DEF Poll, AfterPoll, Goto, ReaderPcs, LocalTypes
    <3> QED BY <2>22, <3>1, <3>2, <3>3 DEF Poll, ReaderKeeps
  <2>23. CASE PollFails \/ SettleFails
    <3>1. LocalTypes' /\ rpc' \in ReaderPcs
      BY <2>23 DEF PollFails, SettleFails, AfterPoll, Goto, ReaderPcs, LocalTypes, localVars
    <3> QED BY <2>23, <3>1, LoseType DEF PollFails, SettleFails, ReaderKeeps
  <2>24. CASE DrainReport \/ DrainRaced
    BY <2>24, ConsumeType DEF DrainReport, DrainRaced, Goto, ReaderKeeps, ReaderPcs, CopyTypes
  <2> QED BY <1>10, <2>1, <2>2, <2>3, <2>4, <2>5, <2>6, <2>7, <2>8, <2>9, <2>10,
     <2>11, <2>12, <2>13, <2>14, <2>15, <2>16, <2>17, <2>18, <2>19, <2>20, <2>21,
     <2>22, <2>23, <2>24 DEF ReaderStep
<1>11. CASE Lifecycle
  <2>1. CASE StartReader
    <3>1. LifeTypes'
      <4>1. CASE thread = "alive" BY <2>1, <4>1 DEF StartReader, LifeTypes
      <4>2. CASE thread # "alive"
        BY <2>1, <4>2 DEF StartReader, ResetLifecycle, LifeTypes
      <4> QED BY <4>1, <4>2
    <3>2. LocalTypes'
      <4>1. CASE thread = "alive" BY <2>1, <4>1 DEF StartReader
      <4>2. CASE thread # "alive"
        <5>1. FreshReader BY <2>1, <4>2 DEF StartReader
        <5> QED BY <5>1 DEF FreshReader, LocalTypes, NoFence
      <4> QED BY <4>1, <4>2
    <3>3. CallTypes' /\ GpuTypes' /\ CopyTypes' /\ SleepTypes' /\ ReportTypes'
      BY <2>1 DEF StartReader, WorkerKeeps
    <3> QED BY <2>1, <3>1, <3>2, <3>3
        DEF StartReader, ResetLifecycle, FreshReader, ReaderPcs
  <2>2. CASE EnableIdleGate
    <3>1. gateArmed' \in BOOLEAN BY <2>2, Zenon DEF EnableIdleGate
    <3> QED BY <2>2, <3>1 DEF EnableIdleGate, WorkerKeeps, LifeTypes
  <2>3. CASE SyncDevice
    BY <2>3, WokenType DEF SyncDevice, lifeVars, LifeTypes, WorkerKeeps, ReaderPcs
  <2>4. CASE SuspendRequest
    <3>1. LifeTypes'
      <4>1. CASE asleep \/ thread # "alive" BY <2>4, <4>1 DEF SuspendRequest, LifeTypes
      <4>2. CASE ~(asleep \/ thread # "alive")
        BY <2>4, <4>2 DEF SuspendRequest, LifeTypes
      <4> QED BY <4>1, <4>2
    <3>2. SleepTypes' BY <2>4 DEF SuspendRequest, SleepTypes
    <3>3. rpc' \in ReaderPcs BY <2>4, WokenType DEF SuspendRequest
    <3> QED BY <2>4, <3>1, <3>2, <3>3 DEF SuspendRequest, WorkerKeeps
  <2>5. CASE SuspendDone
    BY <2>5, WokenType DEF SuspendDone, lifeVars, LifeTypes, WorkerKeeps
  <2>6. CASE ResumeReader
    BY <2>6, WokenType DEF ResumeReader, lifeVars, LifeTypes, sleepVars,
       SleepTypes, WorkerKeeps
  <2>7. CASE StopReader
    BY <2>7, WokenType DEF StopReader, lifeVars, LifeTypes, WorkerKeeps
  <2>8. CASE Join
    BY <2>8, WokenType DEF Join, ResetLifecycle, lifeVars, LifeTypes, WorkerKeeps,
       ReaderPcs
  <2>9. CASE JoinTimeout
    BY <2>9, WokenType DEF JoinTimeout, lifeVars, LifeTypes, WorkerKeeps, ReaderPcs
  <2>10. CASE DrainBegin
    BY <2>10, WokenType DEF DrainBegin, lifeVars, LifeTypes, WorkerKeeps, ReaderPcs
  <2>11. CASE DrainSkipped
    BY <2>11, WokenType DEF DrainSkipped, lifeVars, LifeTypes, WorkerKeeps,
       ReaderPcs
  <2>12. CASE DrainRead
    <3>1. ReportTypes' /\ armed' \in BOOLEAN /\ CopyTypes'
      BY <2>12, RowsType, ReportType DEF DrainRead, ReportRows, ReportTypes, CopyTypes
    <3> QED BY <2>12, <3>1 DEF DrainRead, WorkerKeeps, LifeTypes
  <2>13. CASE DrainFails
    BY <2>13, WokenType DEF DrainFails, lifeVars, LifeTypes, WorkerKeeps, ReaderPcs
  <2>14. CASE NewWorker
    BY <2>14, WokenType DEF NewWorker, lifeVars, LifeTypes, WorkerKeeps, ReaderPcs
  <2> QED BY <1>11, <2>1, <2>2, <2>3, <2>4, <2>5, <2>6, <2>7, <2>8, <2>9, <2>10,
     <2>11, <2>12, <2>13, <2>14 DEF Lifecycle
<1>12. CASE UNCHANGED vars
  BY <1>12 DEF vars
<1> QED BY <1>1, <1>2, <1>3, <1>4, <1>5, <1>6, <1>7, <1>8, <1>9, <1>10, <1>11, <1>12
   DEF Next, Calling, Gone

\* What the reader, the worker and the GPU leave alone.
LEMMA ReaderFrame == ReaderStep => UNCHANGED <<callVars, lifeVars, gpuVars>>
BY DEF ReaderStep, ReaderKeeps, TickAsleep, TickSuspend, TickUngated, TickGated, Sample,
       FenceComplete, FenceOutstanding, LoopFails, PollNothing, Poll, PollFails,
       RecordFence, RecordFails, AcquireIo, IssueFresh, FreshLanded, GiveUp, SettleFails,
       DrainReport, DrainRaced, SuspendAck, SuspendCancelled, SleepCheck, Park,
       ParkCheck, ReaderExit

\* The lifecycle of the worker runs no call and no kernel.
LEMMA LifecycleFrame == Lifecycle => UNCHANGED <<callVars, gpuVars, lost>>
BY DEF Lifecycle, WorkerKeeps, StartReader, EnableIdleGate, SyncDevice, SuspendRequest,
       SuspendDone, ResumeReader, StopReader, Join, JoinTimeout, DrainBegin,
       DrainSkipped, DrainRead, DrainFails, NewWorker

\* The GPU changes its own counters only.
LEMMA GpuFrame ==
  ASSUME NEW st \in Streams, Gpu(st)
  PROVE  UNCHANGED <<callVars, lifeVars, gateBroken, launched, copyVars, thread, rpc,
                     localVars, parked, sleepVars, reportVars, armed, lost>>
BY DEF Gpu, Hit, WriteMaxima, Finish

\* A call touches neither the device counts nor the reports.
LEMMA CallingFrame ==
  Calling => UNCHANGED <<lifeVars, done, mid, count, maxed, copyVars, thread, localVars,
                         sleepVars, reportVars, lost>>
BY DEF Calling, CallEnter, Counter, CallCheck, CheckPending, Replay, Launch, CallExit,
       gpuVars

\* The set of open calls stays that of the callers inside one.
LEMMA CallersStep == TypeOK /\ CallersInv /\ [Next]_vars => CallersInv'
<1> SUFFICES ASSUME TypeOK, CallersInv, [Next]_vars PROVE CallersInv' OBVIOUS
<1> USE DEF CallersInv, AllOut, InCall, TypeOK, CallTypes
<1>1. ASSUME NEW c \in Callers, NEW st \in Streams, CallEnter(c, st) PROVE CallersInv'
  BY <1>1 DEF CallEnter, lifeVars
<1>2. ASSUME NEW c \in Callers, NEW st \in Streams, Counter(c, st) PROVE CallersInv'
  BY <1>2 DEF Counter, lifeVars
<1>3. ASSUME NEW c \in Callers, CallCheck(c) PROVE CallersInv'
  BY <1>3 DEF CallCheck, lifeVars
<1>4. ASSUME NEW c \in Callers, CheckPending(c) PROVE CallersInv'
  BY <1>4 DEF CheckPending, lifeVars
<1>5. ASSUME NEW c \in Callers, Replay(c) \/ Launch(c) PROVE CallersInv'
  BY <1>5 DEF Replay, Launch, callVars, lifeVars
<1>6. ASSUME NEW c \in Callers, CallExit(c) PROVE CallersInv'
  BY <1>6 DEF CallExit, lifeVars
<1>7. CASE Lifecycle
  <2>1. UNCHANGED <<calls, cpc>> BY <1>7, LifecycleFrame DEF callVars
  <2>2. own' # "serving" => AllOut
    BY <1>7 DEF Lifecycle, StartReader, EnableIdleGate, SyncDevice, SuspendRequest,
       SuspendDone, ResumeReader, StopReader, Join, JoinTimeout, DrainBegin,
       DrainSkipped, DrainRead, DrainFails, NewWorker
  <2> QED BY <2>1, <2>2
<1>8. CASE ReaderStep \/ CopyLands \/ (\E st \in Streams : Gpu(st)) \/ UNCHANGED vars
  <2>1. UNCHANGED <<calls, cpc, own>>
    BY <1>8, ReaderFrame, GpuFrame DEF CopyLands, vars, callVars, lifeVars
  <2> QED BY <2>1
<1> QED BY <1>1, <1>2, <1>3, <1>4, <1>5, <1>6, <1>7, <1>8 DEF Next, Calling, Gone

\* Only enable_idle_gate brings a gate to life.
LEMMA GateLiveStep == TypeOK /\ [Next]_vars /\ GateLive' => GateLive \/ EnableIdleGate
<1> SUFFICES ASSUME TypeOK, [Next]_vars, GateLive' PROVE GateLive \/ EnableIdleGate
  OBVIOUS
<1> USE DEF GateLive, TypeOK, LifeTypes
<1>1. CASE Calling
  <2>1. UNCHANGED gateArmed BY <1>1, CallingFrame DEF lifeVars
  <2>2. gateBroken' = gateBroken \/ gateBroken' = TRUE
    BY <1>1 DEF Calling, CallEnter, Counter, CallCheck, CheckPending, Replay, Launch,
       CallExit, BreakGateIf
  <2> QED BY <2>1, <2>2
<1>2. CASE ReaderStep
  <2>1. UNCHANGED gateArmed BY <1>2, ReaderFrame DEF lifeVars
  <2>2. gateBroken' = gateBroken \/ gateBroken' = TRUE
    BY <1>2 DEF ReaderStep, TickAsleep, TickSuspend, TickUngated,
       TickGated, Sample, FenceComplete, FenceOutstanding, LoopFails, PollNothing, Poll,
       PollFails, RecordFence, RecordFails, AcquireIo, IssueFresh, FreshLanded, GiveUp,
       SettleFails, DrainReport, DrainRaced, SuspendAck, SuspendCancelled, SleepCheck,
       Park, ParkCheck, ReaderExit
  <2> QED BY <2>1, <2>2
<1>3. CASE CopyLands \/ UNCHANGED vars \/ \E st \in Streams : Gpu(st)
  <2>1. UNCHANGED <<gateArmed, gateBroken>> BY <1>3, GpuFrame DEF CopyLands, lifeVars, vars
  <2> QED BY <2>1
<1>4. CASE Lifecycle
  <2>1. \/ EnableIdleGate \/ UNCHANGED <<gateArmed, gateBroken>> \/ gateArmed' = FALSE
    BY <1>4 DEF Lifecycle, StartReader, SyncDevice, SuspendRequest, SuspendDone,
       ResumeReader, StopReader, Join, JoinTimeout, DrainBegin, DrainSkipped, DrainRead,
       DrainFails, NewWorker, ResetLifecycle
  <2> QED BY <2>1
<1> QED BY <1>1, <1>2, <1>3, <1>4 DEF Next, Gone

\* A live gate keeps vouching for whoever passed its checks.
LEMMA GateStep == TypeOK /\ CallersInv /\ GateInv /\ [Next]_vars => GateInv'
<1> SUFFICES ASSUME TypeOK, CallersInv, GateInv, [Next]_vars PROVE GateInv' OBVIOUS
<1> USE DEF GateInv, CallersInv, InCall, TypeOK, CallTypes, GateLive
<1>1. ASSUME NEW c \in Callers, NEW st \in Streams, CallEnter(c, st) PROVE GateInv'
  BY <1>1 DEF CallEnter, lifeVars
<1>2. ASSUME NEW c \in Callers, NEW st \in Streams, Counter(c, st) PROVE GateInv'
  BY <1>2 DEF Counter, lifeVars, BreakGateIf
<1>3. ASSUME NEW c \in Callers, CallCheck(c) PROVE GateInv'
  BY <1>3 DEF CallCheck, lifeVars, BreakGateIf
<1>4. ASSUME NEW c \in Callers, CheckPending(c) PROVE GateInv'
  BY <1>4 DEF CheckPending, lifeVars
<1>5. ASSUME NEW c \in Callers, Replay(c) \/ Launch(c) PROVE GateInv'
  BY <1>5 DEF Replay, Launch, callVars, lifeVars
<1>6. ASSUME NEW c \in Callers, CallExit(c) PROVE GateInv'
  BY <1>6 DEF CallExit, lifeVars
<1>7. CASE Lifecycle
  <2>1. UNCHANGED <<calls, cpc, cstream, lstream>> BY <1>7, LifecycleFrame DEF callVars
  <2>2. GateLive' => GateLive \/ own = "started" BY GateLiveStep DEF EnableIdleGate
  <2> QED BY <2>1, <2>2 DEF AllOut
<1>8. CASE ReaderStep \/ CopyLands \/ (\E st \in Streams : Gpu(st)) \/ UNCHANGED vars
  <2>1. UNCHANGED <<calls, cpc, cstream, lstream, own>>
    BY <1>8, ReaderFrame, GpuFrame DEF CopyLands, vars, callVars, lifeVars
  <2>2. GateLive' => GateLive \/ own' # own BY GateLiveStep DEF EnableIdleGate
  <2> QED BY <2>1, <2>2
<1> QED BY <1>1, <1>2, <1>3, <1>4, <1>5, <1>6, <1>7, <1>8 DEF Next, Calling, Gone

\* Behind a live gate only the engine thread launches, on the fence stream and
\* inside a call.
LEMMA LaunchFenced ==
  ASSUME TypeOK, CallersInv, GateInv, GateLive, NEW c \in Callers
  PROVE  /\ Replay(c) => cstream[c] = Fence /\ calls # {} /\ own = "serving"
         /\ Launch(c) => lstream[c] = Fence /\ calls # {} /\ own = "serving"
BY DEF CallersInv, GateInv, InCall, Replay, Launch, TypeOK, CallTypes, AllOut

\* Streams stay ordered, and idle where a live gate says so.
LEMMA GpuStep == TypeOK /\ CallersInv /\ GateInv /\ GpuInv /\ [Next]_vars => GpuInv'
<1> SUFFICES ASSUME TypeOK, CallersInv, GateInv, GpuInv, [Next]_vars PROVE GpuInv' OBVIOUS
<1> USE DEF GpuInv, AllDone, TypeOK, GpuTypes
<1>1. ASSUME NEW c \in Callers, Replay(c) \/ Launch(c) PROVE GpuInv'
  <2>1. own = "serving" BY <1>1 DEF CallersInv, AllOut, Replay, Launch
  <2>2. PICK st \in Streams : /\ launched' = [launched EXCEPT ![st] = @ + 1]
                              /\ GateLive => st = Fence
    BY <1>1, LaunchFenced DEF Replay, Launch, CallTypes
  <2>3. UNCHANGED <<done, mid, own, GateLive>>
    BY <1>1 DEF Replay, Launch, lifeVars, GateLive
  <2> QED BY <2>1, <2>2, <2>3
<1>2. ASSUME NEW st \in Streams, Gpu(st) PROVE GpuInv'
  <2>1. UNCHANGED <<launched, own, GateLive>> BY <1>2, GpuFrame DEF lifeVars, GateLive
  <2> QED BY <1>2, <2>1, SitesAssumption DEF Gpu, Hit, WriteMaxima, Finish
<1>3. CASE Lifecycle
  <2>1. UNCHANGED <<launched, done, mid>> BY <1>3, LifecycleFrame DEF gpuVars
  <2>2. own' \in {"started", "synced", "suspending", "drained"} => AllDone
    BY <1>3 DEF Lifecycle, StartReader, EnableIdleGate, SyncDevice, SuspendRequest,
       SuspendDone, ResumeReader, StopReader, Join, JoinTimeout, DrainBegin,
       DrainSkipped, DrainRead, DrainFails, NewWorker
  <2>3. GateLive' => GateLive \/ AllDone BY GateLiveStep DEF EnableIdleGate
  <2> QED BY <2>1, <2>2, <2>3
<1>4. CASE /\ [Next]_vars /\ ~Lifecycle /\ ~\E st \in Streams : Gpu(st)
           /\ ~\E c \in Callers : Replay(c) \/ Launch(c)
  <2>1. UNCHANGED <<launched, done, mid, own>>
    BY <1>4, ReaderFrame, CallingFrame DEF Next, Gone, vars, gpuVars, lifeVars, CopyLands,
       Calling, CallEnter, Counter, CallCheck, CheckPending, CallExit
  <2>2. GateLive' => GateLive BY <1>4, GateLiveStep DEF Lifecycle
  <2> QED BY <2>1, <2>2
<1> QED BY <1>1, <1>2, <1>3, <1>4

\* The maxima lack one hit for every kernel between its two writes.
LEMMA MaximaStep == TypeOK /\ MaximaInv /\ [Next]_vars => MaximaInv'
<1> SUFFICES ASSUME TypeOK, MaximaInv, [Next]_vars PROVE MaximaInv' OBVIOUS
<1>1. ASSUME NEW st \in Streams, NEW s \in Sites, Hit(st, s) PROVE MaximaInv'
  <2>1. /\ mid[st] = NoSite /\ mid' = [mid EXCEPT ![st] = s]
        /\ count' = [count EXCEPT ![s] = @ + 1] /\ maxed' = maxed
    BY <1>1 DEF Hit
  <2>2. st \notin Writing(s) /\ Writing(s)' = Writing(s) \union {st}
    BY <2>1, SitesAssumption DEF Writing, TypeOK, GpuTypes
  <2>3. \A t \in Sites \ {s} : Writing(t)' = Writing(t)
    BY <2>1, SitesAssumption DEF Writing, TypeOK, GpuTypes
  <2>4. /\ IsFiniteSet(Writing(s)')
        /\ Cardinality(Writing(s)') = Cardinality(Writing(s)) + 1
    BY <2>2, FS_AddElement DEF MaximaInv
  <2>5. count'[s] = count[s] + 1 /\ \A t \in Sites \ {s} : count'[t] = count[t]
    BY <2>1, BoundsAssumption DEF TypeOK, GpuTypes
  <2>6. Cardinality(Writing(s)) \in Nat /\ maxed[s] \in Nat
    BY FS_CardinalityType DEF MaximaInv, TypeOK, GpuTypes
  <2>7. ASSUME NEW t \in Sites \ {s}
        PROVE  IsFiniteSet(Writing(t)') /\ count'[t] = maxed'[t] + Cardinality(Writing(t)')
    <3>1. IsFiniteSet(Writing(t)) /\ count[t] = maxed[t] + Cardinality(Writing(t))
      BY DEF MaximaInv
    <3> QED BY <2>1, <2>3, <2>5, <3>1
  <2>8. IsFiniteSet(Writing(s)') /\ count'[s] = maxed'[s] + Cardinality(Writing(s)')
    <3>1. count[s] = maxed[s] + Cardinality(Writing(s)) BY DEF MaximaInv
    <3> QED BY <2>1, <2>4, <2>5, <2>6, <3>1
  <2> QED BY <2>7, <2>8, Zenon DEF MaximaInv
<1>2. ASSUME NEW st \in Streams, WriteMaxima(st) PROVE MaximaInv'
  <2>0. PICK s \in Sites : s = mid[st]
    BY <1>2 DEF WriteMaxima, TypeOK, GpuTypes
  <2>1. /\ mid[st] = s /\ mid' = [mid EXCEPT ![st] = NoSite]
        /\ maxed' = [maxed EXCEPT ![s] = @ + 1] /\ count' = count
    BY <1>2, <2>0 DEF WriteMaxima
  <2>2. st \in Writing(s) /\ Writing(s)' = Writing(s) \ {st}
    BY <2>1, SitesAssumption DEF Writing, TypeOK, GpuTypes
  <2>3. \A t \in Sites \ {s} : Writing(t)' = Writing(t)
    BY <2>1, SitesAssumption DEF Writing, TypeOK, GpuTypes
  <2>4. /\ IsFiniteSet(Writing(s)')
        /\ Cardinality(Writing(s)') = Cardinality(Writing(s)) - 1
    BY <2>1, <2>2, FS_RemoveElement DEF MaximaInv
  <2>5. maxed'[s] = maxed[s] + 1 /\ \A t \in Sites \ {s} : maxed'[t] = maxed[t]
    BY <2>1 DEF TypeOK, GpuTypes
  <2>6. Cardinality(Writing(s)) \in Nat /\ maxed[s] \in Nat
    BY <2>1, FS_CardinalityType DEF MaximaInv, TypeOK, GpuTypes
  <2>7. ASSUME NEW t \in Sites \ {s}
        PROVE  IsFiniteSet(Writing(t)') /\ count'[t] = maxed'[t] + Cardinality(Writing(t)')
    <3>1. IsFiniteSet(Writing(t)) /\ count[t] = maxed[t] + Cardinality(Writing(t))
      BY DEF MaximaInv
    <3> QED BY <2>1, <2>3, <2>5, <3>1
  <2>8. IsFiniteSet(Writing(s)') /\ count'[s] = maxed'[s] + Cardinality(Writing(s)')
    <3>1. count[s] = maxed[s] + Cardinality(Writing(s)) BY <2>1 DEF MaximaInv
    <3> QED BY <2>1, <2>4, <2>5, <2>6, <3>1
  <2> QED BY <2>7, <2>8, Zenon DEF MaximaInv
<1>3. CASE UNCHANGED <<mid, count, maxed>> BY <1>3 DEF MaximaInv, Writing
<1> QED BY <1>1, <1>2, <1>3, CallingFrame, ReaderFrame, LifecycleFrame
    DEF Next, Gone, Gpu, Finish, CopyLands, vars, gpuVars

\* The maxima never cover more than was counted, and everything once the
\* device is idle.
LEMMA MaximaCover ==
  ASSUME TypeOK, GpuInv, MaximaInv, NEW s \in Sites
  PROVE  maxed[s] <= count[s] /\ (AllDone => maxed[s] = count[s])
<1>1. Cardinality(Writing(s)) \in Nat /\ maxed[s] \in Nat /\ count[s] \in Nat
  BY FS_CardinalityType, BoundsAssumption DEF MaximaInv, TypeOK, GpuTypes
<1>2. AllDone => Writing(s) = {}
  BY SitesAssumption DEF AllDone, GpuInv, Writing, TypeOK, GpuTypes
<1> QED BY <1>1, <1>2, FS_EmptySet DEF MaximaInv

\* Samples and requests stay in the past.
LEMMA SampleStep == TypeOK /\ CallersInv /\ SampleInv /\ [Next]_vars => SampleInv'
<1> SUFFICES ASSUME TypeOK, CallersInv, SampleInv, [Next]_vars PROVE SampleInv' OBVIOUS
<1> USE DEF SampleInv, TypeOK, CallTypes, LifeTypes, LocalTypes
<1>1. CASE Calling
  <2>1. UNCHANGED <<rseq, fence, rgen, suspendGen, suspendReq, own>>
    BY <1>1, CallingFrame DEF localVars, lifeVars
  <2>2. callSeq' = callSeq \/ callSeq' = callSeq + 1
    BY <1>1 DEF Calling, CallEnter, Counter, CallCheck, CheckPending, Replay, Launch,
       CallExit, callVars
  <2> QED BY <2>1, <2>2
<1>2. CASE Lifecycle
  <2>1. UNCHANGED callSeq BY <1>2, LifecycleFrame DEF callVars
  <2>2. suspendReq' => own' = "suspending"
    BY <1>2 DEF Lifecycle, StartReader, EnableIdleGate, SyncDevice, SuspendRequest,
       SuspendDone, ResumeReader, StopReader, Join, JoinTimeout, DrainBegin,
       DrainSkipped, DrainRead, DrainFails, NewWorker, ResetLifecycle
  <2>3. /\ suspendGen' >= suspendGen
        /\ UNCHANGED <<rseq, fence, rgen>> \/ (rseq' = 0 /\ fence' = NoFence /\ rgen' = 0)
    BY <1>2 DEF Lifecycle, StartReader, EnableIdleGate, SyncDevice, SuspendRequest,
       SuspendDone, ResumeReader, StopReader, Join, JoinTimeout, DrainBegin, localVars,
       DrainSkipped, DrainRead, DrainFails, NewWorker, FreshReader
  <2>4. suspendGen' \in Nat BY TypeStep
  <2> QED BY <2>1, <2>2, <2>3, <2>4 DEF NoFence
<1>3. CASE ReaderStep
  <2>1. UNCHANGED <<callSeq, suspendGen, suspendReq, own>>
    BY <1>3, ReaderFrame DEF callVars, lifeVars
  <2>2. rgen' = rgen \/ rgen' = suspendGen
    BY <1>3 DEF ReaderStep, TickAsleep, TickSuspend, TickUngated, TickGated, Sample,
       FenceComplete, FenceOutstanding, LoopFails, PollNothing, Poll, PollFails,
       RecordFence, RecordFails, AcquireIo, IssueFresh, FreshLanded, GiveUp, SettleFails,
       DrainReport, DrainRaced, SuspendAck, SuspendCancelled, SleepCheck, Park,
       ParkCheck, ReaderExit, localVars
  <2>3. rseq' = rseq \/ rseq' = callSeq \/ rseq' = fence.seq
    BY <1>3 DEF ReaderStep, TickAsleep, TickSuspend, TickUngated, TickGated, Sample,
       FenceComplete, FenceOutstanding, LoopFails, PollNothing, Poll, PollFails,
       RecordFence, RecordFails, AcquireIo, IssueFresh, FreshLanded, GiveUp, SettleFails,
       DrainReport, DrainRaced, SuspendAck, SuspendCancelled, SleepCheck, Park,
       ParkCheck, ReaderExit, localVars
  <2>4. fence' = fence \/ fence' = NoFence \/ fence' = [seq |-> rseq, mark |-> launched[Fence]]
    BY <1>3 DEF ReaderStep, TickAsleep, TickSuspend, TickUngated, TickGated, Sample,
       FenceComplete, FenceOutstanding, LoopFails, PollNothing, Poll, PollFails,
       RecordFence, RecordFails, AcquireIo, IssueFresh, FreshLanded, GiveUp, SettleFails,
       DrainReport, DrainRaced, SuspendAck, SuspendCancelled, SleepCheck, Park,
       ParkCheck, ReaderExit, localVars
  <2> QED BY <2>1, <2>2, <2>3, <2>4 DEF NoFence
<1>4. CASE CopyLands \/ (\E st \in Streams : Gpu(st)) \/ UNCHANGED vars
  <2>1. UNCHANGED <<rseq, fence, rgen, callSeq, suspendGen, suspendReq, own>>
    BY <1>4, GpuFrame DEF CopyLands, vars, callVars, lifeVars, localVars
  <2> QED BY <2>1
<1> QED BY <1>1, <1>2, <1>3, <1>4 DEF Next, Gone

\* A notify only moves a waiting reader to its test.
LEMMA WokenMoves ==
  /\ rpc = "parked" => Woken = "parkcheck"
  /\ rpc = "sleeping" => Woken = "sleepcheck"
  /\ rpc \notin {"parked", "sleeping"} => Woken = rpc
BY DEF Woken

\* A call moves the reader by a notify only.
LEMMA CallingWakes == Calling => rpc' \in {rpc, Woken}
BY DEF Calling, CallEnter, Counter, CallCheck, CheckPending, Replay, Launch, CallExit,
       BreakGateIf

\* So does the lifecycle, unless it starts the reader.
LEMMA LifecycleWakes ==
  Lifecycle => \/ rpc' \in {rpc, Woken}
               \/ thread # "alive" /\ thread' = "alive" /\ FreshReader
<1>1. ASSUME StartReader
      PROVE  \/ rpc' = rpc
             \/ thread # "alive" /\ thread' = "alive" /\ FreshReader
  <2>1. CASE thread = "alive" BY <1>1, <2>1 DEF StartReader
  <2>2. CASE thread # "alive" BY <1>1, <2>2 DEF StartReader, ResetLifecycle
  <2> QED BY <2>1, <2>2
<1>2. Lifecycle => StartReader \/ rpc' \in {rpc, Woken}
  BY DEF Lifecycle, EnableIdleGate, SyncDevice, SuspendRequest, SuspendDone, ResumeReader,
     StopReader, Join, JoinTimeout, DrainBegin, DrainSkipped, DrainRead, DrainFails,
     NewWorker
<1> QED BY <1>1, <1>2

\* The reader stays within the modes of its control points.
LEMMA ReaderInvStep == TypeOK /\ ReaderInv /\ [Next]_vars => ReaderInv'
<1> SUFFICES ASSUME TypeOK, ReaderInv, [Next]_vars PROVE ReaderInv' OBVIOUS
<1> USE DEF ReaderInv
<1>1. CASE Calling
  <2>1. UNCHANGED <<thread, rmode, gateArmed, fence, asleep>>
    BY <1>1, CallingFrame DEF localVars, lifeVars, sleepVars
  <2> QED BY <1>1, <2>1, CallingWakes, WokenMoves
<1>2. CASE Lifecycle
  <2>1. CASE thread # "alive" /\ thread' = "alive" /\ FreshReader
    BY <2>1 DEF FreshReader
  <2>2. CASE rpc' \in {rpc, Woken} /\ ~(thread # "alive" /\ thread' = "alive" /\ FreshReader)
    <3>1. UNCHANGED <<rmode, fence>>
      BY <1>2, <2>2 DEF Lifecycle, StartReader, EnableIdleGate, SyncDevice, SuspendRequest, SuspendDone,
         ResumeReader, StopReader, Join, JoinTimeout, DrainBegin, DrainSkipped, DrainRead,
         DrainFails, NewWorker, ResetLifecycle, localVars, sleepVars
    <3>2. thread' = "alive" <=> thread = "alive"
      BY <1>2, <2>2 DEF Lifecycle, StartReader, EnableIdleGate, SyncDevice, SuspendRequest, SuspendDone,
         ResumeReader, StopReader, Join, JoinTimeout, DrainBegin, DrainSkipped, DrainRead,
         DrainFails, NewWorker, ResetLifecycle, localVars, sleepVars
    <3>3. gateArmed => gateArmed' \/ thread # "alive"
      BY <1>2, <2>2 DEF Lifecycle, StartReader, EnableIdleGate, SyncDevice, SuspendRequest, SuspendDone,
         ResumeReader, StopReader, Join, JoinTimeout, DrainBegin, DrainSkipped, DrainRead,
         DrainFails, NewWorker, ResetLifecycle, localVars, sleepVars
    <3>4. asleep' => asleep \/ thread # "alive"
      BY <1>2, <2>2 DEF Lifecycle, StartReader, EnableIdleGate, SyncDevice, SuspendRequest, SuspendDone,
         ResumeReader, StopReader, Join, JoinTimeout, DrainBegin, DrainSkipped, DrainRead,
         DrainFails, NewWorker, ResetLifecycle, localVars, sleepVars
    <3> QED BY <2>2, <3>1, <3>2, <3>3, <3>4, WokenMoves
  <2> QED BY <1>2, <2>1, <2>2, LifecycleWakes
<1>3. CASE ReaderStep
  <2>1. UNCHANGED gateArmed BY <1>3, ReaderFrame DEF lifeVars
  <2>2. rpc' = "off" <=> thread' # "alive"
    BY <1>3 DEF ReaderStep, TickAsleep, TickSuspend, TickUngated, TickGated, Sample,
       FenceComplete, FenceOutstanding, LoopFails, PollNothing, Poll, PollFails,
       RecordFence, RecordFails, AcquireIo, IssueFresh, FreshLanded, GiveUp, SettleFails,
       DrainReport, DrainRaced, SuspendAck, SuspendCancelled, SleepCheck, Park,
       ParkCheck, ReaderExit, Goto, AfterPoll, TypeOK
  <2>3. /\ rpc' \in {"settle", "fresh", "landed", "io"} => rmode' \in {"drain", "suspend"}
        /\ rpc' = "ack" => rmode' = "suspend"
        /\ rpc' \in {"park", "parkcheck", "parked"} => rmode' = "drain"
    BY <1>3 DEF ReaderStep, TickAsleep, TickSuspend, TickUngated, TickGated, Sample,
       FenceComplete, FenceOutstanding, LoopFails, PollNothing, Poll, PollFails,
       RecordFence, RecordFails, AcquireIo, IssueFresh, FreshLanded, GiveUp, SettleFails,
       DrainReport, DrainRaced, SuspendAck, SuspendCancelled, SleepCheck, Park,
       ParkCheck, ReaderExit, Goto, AfterPoll, localVars, TypeOK
  <2>4. /\ rpc' \in {"sample", "query", "record"} => rmode' = "gated"
        /\ rpc' = "poll" => rmode' \in {"plain", "gated"}
    BY <1>3 DEF ReaderStep, TickAsleep, TickSuspend, TickUngated, TickGated, Sample,
       FenceComplete, FenceOutstanding, LoopFails, PollNothing, Poll, PollFails,
       RecordFence, RecordFails, AcquireIo, IssueFresh, FreshLanded, GiveUp, SettleFails,
       DrainReport, DrainRaced, SuspendAck, SuspendCancelled, SleepCheck, Park,
       ParkCheck, ReaderExit, Goto, AfterPoll, localVars, TypeOK
  <2>5. \/ rpc' \in {"off", "tick", "sleepcheck", "sleeping"}
        \/ rmode' \in {"plain", "suspend"}
        \/ gateArmed
    BY <1>3 DEF ReaderStep, TickAsleep, TickSuspend, TickUngated, TickGated, Sample,
       FenceComplete, FenceOutstanding, LoopFails, PollNothing, Poll, PollFails,
       RecordFence, RecordFails, AcquireIo, IssueFresh, FreshLanded, GiveUp, SettleFails,
       DrainReport, DrainRaced, SuspendAck, SuspendCancelled, SleepCheck, Park,
       ParkCheck, ReaderExit, Goto, AfterPoll, localVars, TypeOK, GateLive
  <2>6. rpc' # "off" /\ fence' # NoFence => gateArmed
    BY <1>3 DEF ReaderStep, TickAsleep, TickSuspend, TickUngated, TickGated, Sample,
       FenceComplete, FenceOutstanding, LoopFails, PollNothing, Poll, PollFails,
       RecordFence, RecordFails, AcquireIo, IssueFresh, FreshLanded, GiveUp, SettleFails,
       DrainReport, DrainRaced, SuspendAck, SuspendCancelled, SleepCheck, Park,
       ParkCheck, ReaderExit, Goto, AfterPoll, localVars, TypeOK, GateLive
  <2>7. asleep' => rpc' \in {"off", "tick", "sleepcheck", "sleeping"}
    BY <1>3 DEF ReaderStep, TickAsleep, TickSuspend, TickUngated, TickGated, Sample,
       FenceComplete, FenceOutstanding, LoopFails, PollNothing, Poll, PollFails,
       RecordFence, RecordFails, AcquireIo, IssueFresh, FreshLanded, GiveUp, SettleFails,
       DrainReport, DrainRaced, SuspendAck, SuspendCancelled, SleepCheck, Park,
       ParkCheck, ReaderExit, Goto, AfterPoll, sleepVars, TypeOK, GateLive
  <2> QED BY <2>1, <2>2, <2>3, <2>4, <2>5, <2>6, <2>7
<1>4. CASE CopyLands \/ (\E st \in Streams : Gpu(st)) \/ UNCHANGED vars
  <2>1. UNCHANGED <<rpc, thread, rmode, gateArmed, fence, asleep>>
    BY <1>4, GpuFrame DEF CopyLands, vars, lifeVars, localVars, sleepVars
  <2> QED BY <2>1
<1> QED BY <1>1, <1>2, <1>3, <1>4 DEF Next, Gone

\* A recorded fence stays behind the last kernel until a call overtakes it.
LEMMA FenceStep ==
  /\ TypeOK /\ CallersInv /\ GateInv /\ SampleInv /\ ReaderInv /\ FenceInv
  /\ [Next]_vars
  => FenceInv'
<1> SUFFICES ASSUME TypeOK, CallersInv, GateInv, SampleInv, ReaderInv, FenceInv,
                    [Next]_vars
             PROVE  FenceInv'
  OBVIOUS
<1> USE DEF FenceInv, TypeOK
<1>1. CASE Calling
  <2>1. UNCHANGED <<fence, thread>> BY <1>1, CallingFrame DEF localVars
  <2>2. rpc' # "off" => rpc # "off" BY <1>1, CallingWakes, WokenMoves
  <2>3. GateLive' => GateLive
    BY <1>1, GateLiveStep, CallingFrame DEF EnableIdleGate, lifeVars
  <2>4. ASSUME NEW c \in Callers, Replay(c) \/ Launch(c) PROVE GateLive => calls' # {}
    BY <2>4, LaunchFenced DEF Replay, Launch, callVars
  <2>5. ASSUME NEW c \in Callers, NEW st \in Streams, CallEnter(c, st) PROVE calls' # {}
    BY <2>5 DEF CallEnter
  <2>6. ASSUME NEW c \in Callers, CallExit(c) PROVE fence.seq # callSeq'
    BY <2>6 DEF CallExit, SampleInv, CallTypes, LocalTypes
  <2>7. ASSUME NEW c \in Callers,
               CallCheck(c) \/ CheckPending(c) \/ \E st \in Streams : Counter(c, st)
        PROVE  UNCHANGED <<callSeq, calls, launched>>
    BY <2>7 DEF CallCheck, CheckPending, Counter, gpuVars
  <2> QED BY <1>1, <2>1, <2>2, <2>3, <2>4, <2>5, <2>6, <2>7 DEF Calling
<1>2. CASE Lifecycle
  <2>1. UNCHANGED <<callSeq, calls, launched>>
    BY <1>2, LifecycleFrame DEF callVars, gpuVars
  <2>2. CASE FreshReader BY <2>1, <2>2 DEF FreshReader, NoFence, CallTypes
  <2>3. CASE rpc' \in {rpc, Woken} /\ ~FreshReader
    <3>1. UNCHANGED fence
      BY <1>2, <2>3 DEF Lifecycle, StartReader, EnableIdleGate, SyncDevice,
         SuspendRequest, SuspendDone, ResumeReader, StopReader, Join, JoinTimeout,
         DrainBegin, DrainSkipped, DrainRead, DrainFails, NewWorker, localVars
    <3>2. fence.seq = callSeq => fence # NoFence BY DEF NoFence, CallTypes
    <3>3. GateLive' /\ gateArmed => GateLive
      BY GateLiveStep DEF EnableIdleGate, GateLive
    <3> QED BY <2>1, <2>3, <3>1, <3>2, <3>3, WokenMoves DEF ReaderInv
  <2> QED BY <1>2, <2>2, <2>3, LifecycleWakes
<1>3. CASE ReaderStep
  <2>1. UNCHANGED <<callSeq, calls, launched, own>>
    BY <1>3, ReaderFrame DEF callVars, gpuVars, lifeVars
  <2>2. GateLive' => GateLive BY <2>1, GateLiveStep DEF EnableIdleGate
  <2>3. rpc' # "off" => rpc # "off"
    BY <1>3 DEF ReaderStep, TickAsleep, TickSuspend, TickUngated, TickGated, Sample,
       FenceComplete, FenceOutstanding, LoopFails, PollNothing, Poll, PollFails,
       RecordFence, RecordFails, AcquireIo, IssueFresh, FreshLanded, GiveUp, SettleFails,
       DrainReport, DrainRaced, SuspendAck, SuspendCancelled, SleepCheck, Park,
       ParkCheck, ReaderExit, Goto
  <2>4. fence' = fence \/ fence'.seq = -1 \/ fence'.mark = launched[Fence]
    BY <1>3 DEF ReaderStep, TickAsleep, TickSuspend, TickUngated, TickGated, Sample,
       FenceComplete, FenceOutstanding, LoopFails, PollNothing, Poll, PollFails,
       RecordFence, RecordFails, AcquireIo, IssueFresh, FreshLanded, GiveUp, SettleFails,
       DrainReport, DrainRaced, SuspendAck, SuspendCancelled, SleepCheck, Park,
       ParkCheck, ReaderExit, localVars, NoFence
  <2> QED BY <2>1, <2>2, <2>3, <2>4 DEF CallTypes
<1>4. CASE CopyLands \/ (\E st \in Streams : Gpu(st)) \/ UNCHANGED vars
  <2>1. UNCHANGED <<rpc, gateArmed, gateBroken, fence, callSeq, calls, launched>>
    BY <1>4, GpuFrame DEF CopyLands, vars, lifeVars, localVars, callVars, gpuVars
  <2> QED BY <2>1 DEF GateLive
<1> QED BY <1>1, <1>2, <1>3, <1>4 DEF Next, Gone

\* What reporting a copy does to the high-water marks.
LEMMA AdvanceCounts ==
  ASSUME TypeOK, NEW rows \in Rows, Advance(rows), NEW s \in Sites
  PROVE  /\ seen'[s] >= seen[s] /\ seen'[s] >= rows[s].n
         /\ seen'[s] \in {seen[s], rows[s].n}
BY DEF Advance, TypeOK, ReportTypes, Rows

\* Folding keeps the larger count of the two copies.
LEMMA FoldCounts ==
  ASSUME NEW old \in Rows, NEW rows \in Rows, NEW s \in Sites
  PROVE  /\ Fold(old, rows)[s].n >= old[s].n /\ Fold(old, rows)[s].n >= rows[s].n
         /\ Fold(old, rows)[s].n \in {old[s].n, rows[s].n}
BY DEF Fold, Rows

\* The steps of the reader that report.
LEMMA ReaderReports ==
  ReaderStep => \/ UNCHANGED <<reportVars, lost>> /\ (armed' = armed \/ armed' = TRUE)
                \/ (Consume(mirror) \/ ReportSettled(mirror)) /\ UNCHANGED lost
                \/ LoseDevice
BY DEF ReaderStep, TickAsleep, TickSuspend, TickUngated, TickGated, Sample,
       FenceComplete, FenceOutstanding, LoopFails, PollNothing, Poll, PollFails,
       RecordFence, RecordFails, AcquireIo, IssueFresh, FreshLanded, GiveUp, SettleFails,
       DrainReport, DrainRaced, SuspendAck, SuspendCancelled, SleepCheck, Park,
       ParkCheck, ReaderExit

\* Reporting a copy that shows no more than was counted reports no more than
\* was counted, and never takes a report back.
LEMMA ReportBounded ==
  ASSUME TypeOK, CountInv, NEW rows \in Rows, \A s \in Sites : rows[s].n <= count[s],
         \/ Consume(rows) \/ ReportSettled(rows) \/ LoseDevice
  PROVE  \A s \in Sites : /\ pend'[s].n <= count[s]
                          /\ seen[s] <= seen'[s] /\ seen'[s] <= count[s]
<1> USE DEF TypeOK, ReportTypes, GpuTypes
<1>1. Fold(pend, rows) \in Rows BY RowsType
<1>2. NoRows \in Rows /\ \A s \in Sites : NoRows[s].n = 0 BY RowsType DEF NoRows
<1>3. CASE pend' = rows /\ UNCHANGED seen
  BY <1>3 DEF CountInv
<1>4. CASE pend' = NoRows /\ UNCHANGED seen
  BY <1>2, <1>4 DEF CountInv
<1>5. CASE pend' = NoRows /\ Advance(Fold(pend, rows))
  <2>1. ASSUME NEW s \in Sites
        PROVE  seen[s] <= seen'[s] /\ seen'[s] \in {seen[s], pend[s].n, rows[s].n}
    <3>1. /\ seen'[s] >= seen[s]
          /\ seen'[s] \in {seen[s], Fold(pend, rows)[s].n}
      BY <1>1, <1>5, <2>1, AdvanceCounts
    <3>2. Fold(pend, rows)[s].n \in {pend[s].n, rows[s].n} BY <2>1, FoldCounts
    <3> QED BY <3>1, <3>2 DEF Rows
  <2> QED BY <1>2, <1>5, <2>1 DEF CountInv
<1>6. CASE pend' = NoRows /\ Advance(pend)
  <2>1. ASSUME NEW s \in Sites
        PROVE  seen[s] <= seen'[s] /\ seen'[s] \in {seen[s], pend[s].n}
    BY <1>6, <2>1, AdvanceCounts DEF Rows
  <2> QED BY <1>2, <1>6, <2>1 DEF CountInv
<1> QED BY <1>3, <1>4, <1>5, <1>6 DEF Consume, ReportSettled, ReportRows, LoseDevice

\* Nothing is ever reported that was not counted.
LEMMA CountStep == TypeOK /\ CountInv /\ [Next]_vars => CountInv'
<1> SUFFICES ASSUME TypeOK, CountInv, [Next]_vars PROVE CountInv' OBVIOUS
<1> USE DEF CountInv, TypeOK, GpuTypes, CopyTypes, ReportTypes, Rows
<1>1. CASE Calling
  <2>1. UNCHANGED <<mirror, pend, seen, count>> BY <1>1, CallingFrame DEF copyVars, reportVars
  <2> QED BY <2>1
<1>2. CASE ReaderStep
  <2>1. UNCHANGED count BY <1>2, ReaderFrame DEF gpuVars
  <2>2. \A s \in Sites : pend'[s].n <= count[s] /\ seen'[s] <= count[s]
    <3>1. CASE UNCHANGED reportVars BY <3>1 DEF reportVars
    <3>2. CASE ~UNCHANGED reportVars BY <1>2, <3>2, ReaderReports, ReportBounded
    <3> QED BY <3>1, <3>2
  <2>3. mirror' = mirror \/ mirror' = DeviceRows
    BY <1>2 DEF ReaderStep, TickAsleep, TickSuspend, TickUngated, TickGated, Sample,
       FenceComplete, FenceOutstanding, LoopFails, PollNothing, Poll, PollFails,
       RecordFence, RecordFails, AcquireIo, IssueFresh, FreshLanded, GiveUp, SettleFails,
       DrainReport, DrainRaced, SuspendAck, SuspendCancelled, SleepCheck, Park,
       ParkCheck, ReaderExit, copyVars, IssueCopy
  <2> QED BY <2>1, <2>2, <2>3 DEF DeviceRows
<1>3. CASE DrainRead
  <2>1. UNCHANGED <<count, pend>> BY <1>3 DEF DrainRead, WorkerKeeps, gpuVars
  <2>2. Advance(DeviceRows) /\ mirror' = DeviceRows BY <1>3 DEF DrainRead, ReportRows
  <2>3. \A s \in Sites : seen'[s] <= count[s]
    BY <2>2, RowsType, AdvanceCounts DEF DeviceRows
  <2> QED BY <2>1, <2>2, <2>3 DEF DeviceRows
<1>4. CASE Lifecycle /\ ~DrainRead
  <2>1. UNCHANGED <<mirror, pend, seen, count>>
    BY <1>4, LifecycleFrame DEF Lifecycle, StartReader, EnableIdleGate, SyncDevice,
       SuspendRequest, SuspendDone, ResumeReader, StopReader, Join, JoinTimeout,
       DrainBegin, DrainSkipped, DrainFails, NewWorker, copyVars, reportVars, gpuVars
  <2> QED BY <2>1
<1>5. ASSUME NEW st \in Streams, Gpu(st) PROVE CountInv'
  <2>1. UNCHANGED <<mirror, pend, seen>> BY <1>5, GpuFrame DEF copyVars, reportVars
  <2>2. \A s \in Sites : count'[s] >= count[s] BY <1>5, BoundsAssumption DEF Gpu, Hit, WriteMaxima, Finish
  <2>3. GpuTypes' BY TypeStep
  <2> QED BY <2>1, <2>2, <2>3, BoundsAssumption
<1>6. CASE CopyLands
  <2>1. UNCHANGED <<pend, seen, count>> BY <1>6 DEF CopyLands, reportVars, gpuVars
  <2>2. \A s \in Sites : mirror'[s].n <= count[s] BY <1>6 DEF CopyLands
  <2> QED BY <2>1, <2>2
<1>7. CASE UNCHANGED vars
  <2>1. UNCHANGED <<mirror, pend, seen, count>> BY <1>7 DEF vars, copyVars, reportVars, gpuVars
  <2> QED BY <2>1
<1> QED BY <1>1, <1>2, <1>3, <1>4, <1>5, <1>6, <1>7 DEF Next, Gone

\* The park flag and the wait keep agreeing.
LEMMA ParkStep ==
  TypeOK /\ CallersInv /\ SampleInv /\ ReaderInv /\ ParkInv /\ [Next]_vars => ParkInv'
<1> SUFFICES ASSUME TypeOK, CallersInv, SampleInv, ReaderInv, ParkInv, [Next]_vars
             PROVE  ParkInv'
  OBVIOUS
<1> USE DEF ParkInv
<1>1. ASSUME NEW c \in Callers, NEW st \in Streams, CallEnter(c, st) PROVE ParkInv'
  BY <1>1, WokenMoves DEF CallEnter, SampleInv, TypeOK, CallTypes, LocalTypes, localVars,
     copyVars
<1>2. ASSUME NEW c \in Callers, CallExit(c) PROVE ParkInv'
  BY <1>2 DEF CallExit, CallersInv, InCall, SampleInv, TypeOK, CallTypes, LocalTypes,
     localVars, copyVars
<1>3. CASE Calling /\ (~\E c \in Callers : CallExit(c) \/ \E st \in Streams : CallEnter(c, st))
  <2>1. UNCHANGED <<callSeq, calls, rseq, inflight, parked, lost>>
    BY <1>3, CallingFrame DEF Calling, Counter, CallCheck, CheckPending, Replay, Launch,
       callVars, localVars, copyVars
  <2> QED BY <1>3, <2>1, CallingWakes, WokenMoves
<1>4. CASE Lifecycle
  <2>1. UNCHANGED <<callSeq, calls, lost>> BY <1>4, LifecycleFrame DEF callVars
  <2>2. parked' = parked \/ (parked' = FALSE /\ thread # "alive")
    BY <1>4 DEF Lifecycle, StartReader, EnableIdleGate, SyncDevice, SuspendRequest,
       SuspendDone, ResumeReader, StopReader, Join, JoinTimeout, DrainBegin,
       DrainSkipped, DrainRead, DrainFails, NewWorker, ResetLifecycle
  <2>3. inflight' = inflight \/ inflight' = FALSE
    BY <1>4 DEF Lifecycle, StartReader, EnableIdleGate, SyncDevice, SuspendRequest,
       SuspendDone, ResumeReader, StopReader, Join, JoinTimeout, DrainBegin,
       DrainSkipped, DrainRead, DrainFails, NewWorker, copyVars
  <2>4. CASE rpc' \in {rpc, Woken} /\ ~(thread # "alive" /\ FreshReader)
    <3>1. UNCHANGED rseq
      BY <1>4, <2>4 DEF Lifecycle, StartReader, EnableIdleGate, SyncDevice,
         SuspendRequest, SuspendDone, ResumeReader, StopReader, Join, JoinTimeout,
         DrainBegin, DrainSkipped, DrainRead, DrainFails, NewWorker, localVars
    <3> QED BY <2>1, <2>2, <2>3, <2>4, <3>1, WokenMoves DEF ReaderInv
  <2>5. CASE thread # "alive" /\ FreshReader
    <3>1. rpc = "off" BY <2>5 DEF ReaderInv
    <3>2. parked = FALSE BY <3>1 DEF TypeOK
    <3>3. parked' = FALSE BY <2>2, <3>2
    <3> QED BY <2>5, <3>3 DEF FreshReader
  <2> QED BY <1>4, <2>4, <2>5, LifecycleWakes
<1>5. CASE Park
  BY <1>5 DEF Park, MayPark, Goto, ReaderKeeps, callVars, localVars, copyVars
<1>6. CASE ParkCheck
  BY <1>6 DEF ParkCheck, StaysParked, Goto, ReaderKeeps, callVars, localVars, copyVars
<1>7. CASE ReaderStep /\ ~Park /\ ~ParkCheck
  <2>1. UNCHANGED <<callSeq, calls>> BY <1>7, ReaderFrame DEF callVars
  <2>2. UNCHANGED parked /\ rpc \notin {"parkcheck", "parked"}
    BY <1>7 DEF ReaderStep, TickAsleep, TickSuspend, TickUngated, TickGated, Sample,
       FenceComplete, FenceOutstanding, LoopFails, PollNothing, Poll, PollFails,
       RecordFence, RecordFails, AcquireIo, IssueFresh, FreshLanded, GiveUp, SettleFails,
       DrainReport, DrainRaced, SuspendAck, SuspendCancelled, SleepCheck, ReaderExit
  <2>3. rpc' \notin {"parkcheck", "parked"}
    BY <1>7 DEF ReaderStep, TickAsleep, TickSuspend, TickUngated, TickGated, Sample,
       FenceComplete, FenceOutstanding, LoopFails, PollNothing, Poll, PollFails,
       RecordFence, RecordFails, AcquireIo, IssueFresh, FreshLanded, GiveUp, SettleFails,
       DrainReport, DrainRaced, SuspendAck, SuspendCancelled, SleepCheck, ReaderExit,
       Goto, AfterPoll
  <2>4. rpc' \in {"landed", "ack", "park"} /\ ~lost' => ~inflight'
    BY <1>7 DEF ReaderStep, TickAsleep, TickSuspend, TickUngated, TickGated, Sample,
       FenceComplete, FenceOutstanding, LoopFails, PollNothing, Poll, PollFails,
       RecordFence, RecordFails, AcquireIo, IssueFresh, FreshLanded, GiveUp, SettleFails,
       DrainReport, DrainRaced, SuspendAck, SuspendCancelled, SleepCheck, ReaderExit,
       Goto, AfterPoll, copyVars, LoseDevice
  <2> QED BY <2>1, <2>2, <2>3, <2>4
<1>8. CASE CopyLands \/ (\E st \in Streams : Gpu(st)) \/ UNCHANGED vars
  <2>1. UNCHANGED <<rpc, rseq, callSeq, calls, parked, inflight, lost>>
    BY <1>8, GpuFrame DEF CopyLands, vars, localVars, callVars, copyVars
  <2> QED BY <2>1
<1> QED BY <1>1, <1>2, <1>3, <1>4, <1>5, <1>6, <1>7, <1>8 DEF Next, Gone

\* A settled read still covered leaves nothing running.
Settling == {"io", "settle", "fresh", "landed", "ack", "park", "parkcheck", "parked"}

\* An idle device takes no step.
LEMMA AllDoneStopsGpu ==
  ASSUME TypeOK, GpuInv, AllDone, NEW st \in Streams
  PROVE  ~Gpu(st)
BY DEF GpuInv, AllDone, Gpu, Hit, WriteMaxima, Finish, TypeOK, GpuTypes

\* What SettleInv says depends on these alone.
LEMMA SettleFrame ==
  ASSUME SettleInv, Covered' => Covered, UNCHANGED <<launched, done, count, seen>>,
         Covered /\ rpc' \in Settling => rpc \in Settling,
         Covered /\ rpc' \in {"fresh", "landed"} =>
           rpc \in {"fresh", "landed"} /\ UNCHANGED mirror,
         Covered /\ rpc' \in {"ack", "park", "parkcheck", "parked"} /\ ~lost' =>
           rpc \in {"ack", "park", "parkcheck", "parked"} /\ ~lost
  PROVE  SettleInv'
BY DEF SettleInv, Settling, AllDone, AllReported

\* A covered settled read stays exact under every step of the others.
LEMMA SettleStep ==
  /\ TypeOK /\ CallersInv /\ GateInv /\ GpuInv /\ MaximaInv /\ SampleInv /\ ReaderInv
  /\ FenceInv /\ SettleInv /\ CountInv /\ ParkInv /\ [Next]_vars
  => SettleInv'
<1> SUFFICES ASSUME TypeOK, CallersInv, GateInv, GpuInv, MaximaInv, SampleInv, ReaderInv,
                    FenceInv, SettleInv, CountInv, ParkInv, [Next]_vars
             PROVE  SettleInv'
  OBVIOUS
<1>1. CASE Calling
  <2>1. UNCHANGED <<rmode, rseq, rgen, suspendReq, suspendGen, own, done, count, seen,
                    mirror, inflight, lost>>
    BY <1>1, CallingFrame DEF localVars, lifeVars, reportVars, copyVars
  <2>2. GateLive' => GateLive
    BY <2>1, GateLiveStep DEF EnableIdleGate
  <2>3. callSeq' = callSeq \/ callSeq' = callSeq + 1
    BY <1>1 DEF Calling, CallEnter, Counter, CallCheck, CheckPending, Replay, Launch,
       CallExit, callVars
  <2>4. callSeq' = callSeq => UNCHANGED calls
    BY <1>1 DEF Calling, CallEnter, Counter, CallCheck, CheckPending, Replay, Launch,
       CallExit, callVars, TypeOK, CallTypes
  <2>5. Covered' => Covered
    BY <2>1, <2>2, <2>3, <2>4 DEF Covered, SampleInv, TypeOK, CallTypes, LocalTypes
  <2>6. Covered /\ Covered' => UNCHANGED launched
    <3>1. Covered' => rmode = "suspend" \/ (callSeq' = callSeq /\ calls = {} /\ GateLive)
      BY <2>1, <2>2, <2>3, <2>4 DEF Covered, SampleInv, TypeOK, CallTypes, LocalTypes
    <3>2. Covered /\ rmode = "suspend" => own # "serving" BY DEF Covered, SampleInv
    <3>3. ASSUME NEW c \in Callers, Replay(c) \/ Launch(c), Covered PROVE ~Covered'
      <4>1. own = "serving" BY <3>3 DEF CallersInv, AllOut, Replay, Launch
      <4>2. GateLive => calls # {} BY <3>3, LaunchFenced
      <4> QED BY <3>1, <3>2, <3>3, <4>1, <4>2
    <3> QED BY <1>1, <3>3 DEF Calling, CallEnter, Counter, CallCheck, CheckPending,
       CallExit, gpuVars
  <2>7. CASE Covered'
    BY <1>1, <2>1, <2>5, <2>6, <2>7, CallingWakes, WokenMoves, SettleFrame DEF Settling
  <2>8. CASE ~Covered' BY <2>8 DEF SettleInv
  <2> QED BY <2>7, <2>8
<1>2. CASE Lifecycle
  <2>1. UNCHANGED <<callSeq, calls, launched, done, count, lost>>
    BY <1>2, LifecycleFrame DEF callVars, gpuVars
  <2>2. CASE FreshReader
    BY <2>2 DEF SettleInv, FreshReader
  <2>3. CASE rpc' \in {rpc, Woken} /\ ~FreshReader /\ rpc \in Settling
    <3>1. UNCHANGED <<rmode, rseq, rgen>>
      BY <1>2, <2>3 DEF Lifecycle, StartReader, EnableIdleGate, SyncDevice,
         SuspendRequest, SuspendDone, ResumeReader, StopReader, Join, JoinTimeout,
         DrainBegin, DrainSkipped, DrainRead, DrainFails, NewWorker, localVars
    <3>2. rmode = "drain" /\ GateLive' => GateLive
      BY <2>3, GateLiveStep DEF EnableIdleGate, GateLive, ReaderInv, Settling
    <3>3. suspendReq' /\ suspendGen' = rgen => suspendReq /\ suspendGen = rgen
      <4>1. CASE SuspendRequest
        <5>1. CASE asleep \/ thread # "alive" BY <4>1, <5>1 DEF SuspendRequest
        <5>2. CASE ~(asleep \/ thread # "alive")
          <6>1. suspendGen' = suspendGen + 1 BY <4>1, <5>2 DEF SuspendRequest
          <6> QED BY <6>1 DEF SampleInv, TypeOK, LifeTypes, LocalTypes
        <5> QED BY <5>1, <5>2
      <4>2. CASE ~SuspendRequest
        BY <1>2, <4>2 DEF Lifecycle, StartReader, EnableIdleGate, SyncDevice,
           SuspendDone, ResumeReader, StopReader, Join, JoinTimeout, ResetLifecycle,
           DrainBegin, DrainSkipped, DrainRead, DrainFails, NewWorker
      <4> QED BY <4>1, <4>2
    <3>4. Covered' => Covered BY <2>1, <3>1, <3>2, <3>3 DEF Covered
    <3>5. CASE DrainRead
      <4>1. Advance(DeviceRows) /\ mirror' = DeviceRows /\ inflight' = FALSE /\ rpc' = rpc
        BY <3>5 DEF DrainRead, ReportRows
      <4>2. \A s \in Sites : seen'[s] >= count[s] /\ seen'[s] <= count[s]
        BY <4>1, RowsType, AdvanceCounts
           DEF DeviceRows, CountInv, TypeOK, ReportTypes, GpuTypes
      <4>3. \A s \in Sites : seen'[s] = count[s]
        BY <4>2, TypeStep DEF TypeOK, ReportTypes, GpuTypes
      <4>4. \A s \in Sites : mirror'[s].n = count[s] /\ mirror'[s].m = count[s]
        BY <3>5, <4>1, MaximaCover DEF DrainRead, DeviceRows
      <4> QED BY <2>1, <3>4, <4>1, <4>3, <4>4 DEF SettleInv, AllDone, AllReported
    <3>6. CASE ~DrainRead
      <4>1. UNCHANGED <<seen, mirror, inflight>>
        BY <1>2, <3>6 DEF Lifecycle, StartReader, EnableIdleGate, SyncDevice,
           SuspendRequest, SuspendDone, ResumeReader, StopReader, Join, JoinTimeout,
           DrainBegin, DrainSkipped, DrainFails, NewWorker, copyVars, reportVars
      <4> QED BY <2>1, <2>3, <3>4, <4>1, WokenMoves, SettleFrame
    <3> QED BY <3>5, <3>6
  <2>4. CASE rpc' \in {rpc, Woken} /\ rpc \notin Settling
    BY <2>4, WokenMoves DEF SettleInv, Settling
  <2> QED BY <1>2, <2>2, <2>3, <2>4, LifecycleWakes
<1>3. CASE ReaderStep
  <2>1. UNCHANGED <<callSeq, calls, launched, done, count, suspendReq, suspendGen, own>>
    BY <1>3, ReaderFrame DEF callVars, gpuVars, lifeVars
  <2>2. GateLive' => GateLive BY <2>1, GateLiveStep DEF EnableIdleGate
  <2>3. CASE TickSuspend
    <3>1. AllDone BY <2>3 DEF TickSuspend, GpuInv, SampleInv
    <3> QED BY <2>1, <2>3, <3>1 DEF TickSuspend, Goto, SettleInv, AllDone
  <2>4. CASE FenceComplete
    <3>1. Covered' => fence.seq = callSeq /\ calls = {} /\ GateLive
      BY <2>1, <2>2, <2>4 DEF FenceComplete, Covered
    <3>2. Covered' => AllDone
      BY <2>4, <3>1, StreamsAssumption
         DEF FenceComplete, FenceInv, GpuInv, AllDone, TypeOK, GpuTypes
    <3> QED BY <2>1, <2>4, <3>2 DEF FenceComplete, Goto, SettleInv, AllDone
  <2>5. CASE AcquireIo \/ IssueFresh \/ FreshLanded \/ DrainReport \/ SettleFails
             \/ Park \/ ParkCheck
    <3>1. UNCHANGED <<rmode, rseq, rgen>>
      BY <2>5 DEF AcquireIo, IssueFresh, FreshLanded, DrainReport, SettleFails, Park,
         ParkCheck, localVars
    <3>2. Covered' => Covered BY <2>1, <2>2, <3>1 DEF Covered
    <3>3. rpc \in Settling
      BY <2>5 DEF AcquireIo, IssueFresh, FreshLanded, DrainReport, SettleFails, Park,
         ParkCheck, Settling
    <3>4. CASE AcquireIo
      BY <2>1, <3>2, <3>4 DEF AcquireIo, Goto, SettleInv, AllDone
    <3>5. CASE IssueFresh
      <4>1. rpc = "settle" /\ rpc' = "fresh" /\ mirror' = DeviceRows
        BY <3>5 DEF IssueFresh, IssueCopy, Goto
      <4>2. Covered => AllDone BY <4>1 DEF SettleInv
      <4>3. Covered => \A s \in Sites : mirror'[s].n = count[s] /\ mirror'[s].m = count[s]
        BY <4>1, <4>2, MaximaCover DEF DeviceRows
      <4> QED BY <2>1, <3>2, <4>1, <4>2, <4>3 DEF SettleInv, AllDone
    <3>6. CASE FreshLanded
      BY <2>1, <3>2, <3>6 DEF FreshLanded, Goto, SettleInv, AllDone
    <3>7. CASE DrainReport
      <4>1. /\ Advance(Fold(pend, mirror)) /\ UNCHANGED <<inflight, lost>>
            /\ rpc = "landed" /\ rpc' \in {"park", "ack"}
        BY <3>7 DEF DrainReport, ReportSettled, ReportRows, Goto, copyVars
      <4>2. ASSUME Covered, NEW s \in Sites PROVE seen'[s] = count[s]
        <5>1. mirror[s].n = count[s] BY <4>1, <4>2 DEF SettleInv
        <5>2. mirror \in Rows /\ pend \in Rows /\ Fold(pend, mirror) \in Rows
          BY RowsType DEF TypeOK, CopyTypes, ReportTypes
        <5>3. Fold(pend, mirror)[s].n = count[s]
          <6>1. pend[s].n <= count[s] BY <4>2 DEF CountInv
          <6>2. pend[s].n \in Nat /\ count[s] \in Nat
            BY <4>2, <5>2, BoundsAssumption DEF Rows, TypeOK, GpuTypes
          <6> QED BY <4>2, <5>1, <5>2, <6>1, <6>2, FoldCounts
        <5>4. seen'[s] >= count[s] /\ seen'[s] \in {seen[s], count[s]}
          BY <4>1, <4>2, <5>2, <5>3, AdvanceCounts
        <5>5. seen[s] <= count[s] BY <4>2 DEF CountInv
        <5>6. seen[s] \in Nat /\ count[s] \in Nat
          BY <4>2, BoundsAssumption DEF TypeOK, ReportTypes, GpuTypes
        <5> QED BY <5>4, <5>5, <5>6
      <4>3. Covered' => AllReported' BY <2>1, <3>2, <4>2 DEF AllReported
      <4>4. Covered' => AllDone' BY <2>1, <3>2, <4>1 DEF AllDone, SettleInv
      <4> QED BY <4>1, <4>3, <4>4 DEF SettleInv
    <3>8. CASE SettleFails
      BY <2>1, <3>2, <3>8 DEF SettleFails, LoseDevice, Goto, SettleInv, AllDone
    <3>9. CASE Park
      BY <2>1, <3>2, <3>9 DEF Park, Goto, SettleInv, AllDone, AllReported, copyVars,
         reportVars
    <3>10. CASE ParkCheck
      BY <2>1, <3>2, <3>10 DEF ParkCheck, Goto, SettleInv, AllDone, AllReported, copyVars,
         reportVars
    <3> QED BY <2>5, <3>4, <3>5, <3>6, <3>7, <3>8, <3>9, <3>10
  <2>6. CASE ~(\/ TickSuspend \/ FenceComplete \/ AcquireIo \/ IssueFresh \/ FreshLanded
               \/ DrainReport \/ SettleFails \/ Park \/ ParkCheck)
    <3>1. rpc' \notin Settling
      BY <1>3, <2>6 DEF ReaderStep, TickAsleep, TickUngated, TickGated, Sample,
         FenceOutstanding, LoopFails, PollNothing, Poll, PollFails, RecordFence,
         RecordFails, GiveUp, DrainRaced, SuspendAck, SuspendCancelled, SleepCheck,
         ReaderExit, Goto, AfterPoll, Settling
    <3> QED BY <3>1 DEF SettleInv, Settling
  <2> QED BY <2>3, <2>4, <2>5, <2>6
<1>4. CASE CopyLands
  <2>1. UNCHANGED <<rpc, rmode, rseq, rgen, callSeq, calls, suspendReq, suspendGen,
                    gateArmed, gateBroken, launched, done, count, seen, inflight, lost>>
    BY <1>4 DEF CopyLands, callVars, lifeVars, localVars, gpuVars, reportVars
  <2>2. Covered' => Covered BY <2>1 DEF Covered, GateLive
  <2>3. ASSUME Covered, rpc \in {"fresh", "landed"}, NEW s \in Sites
        PROVE  mirror'[s].n = count[s] /\ mirror'[s].m = count[s]
    <3>1. mirror[s].n = count[s] /\ mirror[s].m = count[s] BY <2>3 DEF SettleInv
    <3>2. /\ mirror[s].n <= mirror'[s].n /\ mirror'[s].n <= count[s] /\ mirror'[s].n \in Int
          /\ mirror[s].m <= mirror'[s].m /\ mirror'[s].m <= maxed[s] /\ mirror'[s].m \in Int
      BY <1>4, <2>3, BoundsAssumption DEF CopyLands
    <3>3. maxed[s] <= count[s] /\ maxed[s] \in Int
      BY <2>3, MaximaCover DEF TypeOK, GpuTypes
    <3> QED BY <2>3, <3>1, <3>2, <3>3, BoundsAssumption DEF TypeOK, GpuTypes
  <2> QED BY <2>1, <2>2, <2>3 DEF SettleInv, AllDone, AllReported
<1>5. ASSUME NEW st \in Streams, Gpu(st) PROVE SettleInv'
  <2>1. UNCHANGED <<rpc, rmode, rseq, rgen, callSeq, calls, suspendReq, suspendGen,
                    gateArmed, gateBroken>>
    BY <1>5, GpuFrame DEF callVars, lifeVars, localVars
  <2>2. Covered' => Covered BY <2>1 DEF Covered, GateLive
  <2>3. Covered => rpc \notin Settling BY <1>5, AllDoneStopsGpu DEF SettleInv, Settling
  <2> QED BY <2>1, <2>2, <2>3 DEF SettleInv, Settling
<1>6. CASE UNCHANGED vars
  BY <1>6 DEF vars, callVars, lifeVars, localVars, gpuVars, reportVars, copyVars, SettleInv,
     Covered, GateLive, AllDone, AllReported
<1> QED BY <1>1, <1>2, <1>3, <1>4, <1>5, <1>6 DEF Next, Gone

\* No reporting step loses fatal evidence.
LEMMA EvidenceKept ==
  ASSUME TypeOK, NEW rows \in Rows, FatalEvidenceStopsRank, UNCHANGED <<raised, lost>>,
         Consume(rows) \/ ReportSettled(rows)
  PROVE  FatalEvidenceStopsRank'
<1> USE SitesAssumption DEF TypeOK, ReportTypes, FatalEvidenceStopsRank
<1>1. Fold(pend, rows) \in Rows BY RowsType
<1>2. NoRows \in Rows /\ \A s \in Sites : NoRows[s].n = 0 BY RowsType DEF NoRows
<1>3. armed => armed' BY Zenon DEF Consume, ReportSettled, ReportRows
<1>4. ASSUME armed \/ raised PROVE FatalEvidenceStopsRank'
  BY <1>3, <1>4
<1>5. ASSUME ~(armed \/ raised) PROVE FatalEvidenceStopsRank'
  <2>1. ~lost /\ \A s \in FatalSites : seen[s] = 0 /\ pend[s].n = 0
    BY <1>5 DEF Rows
  <2>2. CASE Consume(rows) /\ pend = NoRows
    <3>1. ASSUME NEW s \in FatalSites, rows[s].n > 0 PROVE armed'
      <4>1. s \in Rising(rows) BY <2>1, <3>1 DEF Rising
      <4> QED BY <2>2, <4>1 DEF Consume
    <3>2. UNCHANGED seen /\ (pend' = NoRows \/ pend' = rows) BY <2>2 DEF Consume
    <3> QED BY <1>2, <2>1, <3>1, <3>2
  <2>3. CASE (Consume(rows) /\ pend # NoRows) \/ ReportSettled(rows)
    <3>1. pend' = NoRows /\ ReportRows(Fold(pend, rows)) BY <2>3 DEF Consume, ReportSettled
    <3>2. ASSUME NEW s \in FatalSites, seen'[s] > 0 PROVE armed'
      <4>1. seen'[s] = Fold(pend, rows)[s].n
        BY <1>1, <2>1, <3>1, <3>2, AdvanceCounts DEF ReportRows
      <4>2. s \in Rising(Fold(pend, rows)) BY <2>1, <3>2, <4>1 DEF Rising
      <4> QED BY <3>1, <4>2 DEF ReportRows
    <3> QED BY <1>2, <2>1, <3>1, <3>2
  <2> QED BY <2>2, <2>3
<1> QED BY <1>4, <1>5

\* Fatal evidence survives every step.
LEMMA FatalStep == TypeOK /\ FatalEvidenceStopsRank /\ [Next]_vars => FatalEvidenceStopsRank'
<1> SUFFICES ASSUME TypeOK, FatalEvidenceStopsRank, [Next]_vars
             PROVE  FatalEvidenceStopsRank'
  OBVIOUS
<1> USE DEF FatalEvidenceStopsRank
<1>1. CASE Calling
  <2>1. UNCHANGED <<pend, seen, lost>> BY <1>1, CallingFrame DEF reportVars
  <2>2. armed \/ raised => armed' \/ raised'
    BY <1>1 DEF Calling, CallEnter, Counter, CallCheck, CheckPending, Replay, Launch,
       CallExit, callVars
  <2> QED BY <2>1, <2>2
<1>2. CASE ReaderStep
  <2>1. UNCHANGED raised BY <1>2, ReaderFrame DEF callVars
  <2>2. CASE UNCHANGED <<reportVars, lost>> /\ (armed' = armed \/ armed' = TRUE)
    BY <2>1, <2>2 DEF reportVars
  <2>3. CASE (Consume(mirror) \/ ReportSettled(mirror)) /\ UNCHANGED lost
    BY <2>1, <2>3, EvidenceKept DEF TypeOK, CopyTypes
  <2>4. CASE LoseDevice BY <2>4 DEF LoseDevice
  <2> QED BY <1>2, <2>2, <2>3, <2>4, ReaderReports
<1>3. CASE DrainRead
  <2>1. UNCHANGED <<raised, pend, lost>> BY <1>3 DEF DrainRead, WorkerKeeps, callVars
  <2>2. ReportRows(DeviceRows) BY <1>3 DEF DrainRead
  <2>3. armed => armed' BY <2>2, Zenon DEF ReportRows
  <2>4. ASSUME NEW s \in FatalSites, seen'[s] > 0, ~(seen[s] > 0) PROVE armed'
    <3>1. s \in Sites BY SitesAssumption
    <3>2. seen'[s] = DeviceRows[s].n
      BY <2>2, <2>4, <3>1, RowsType, AdvanceCounts DEF ReportRows
    <3>3. s \in Rising(DeviceRows)
      BY <2>4, <3>1, <3>2 DEF Rising, TypeOK, ReportTypes
    <3> QED BY <2>2, <3>3 DEF ReportRows
  <2> QED BY <2>1, <2>3, <2>4
<1>4. CASE Lifecycle /\ ~DrainRead
  <2>1. UNCHANGED <<pend, seen, lost, raised, armed>>
    BY <1>4, LifecycleFrame DEF Lifecycle, StartReader, EnableIdleGate, SyncDevice,
       SuspendRequest, SuspendDone, ResumeReader, StopReader, Join, JoinTimeout,
       DrainBegin, DrainSkipped, DrainFails, NewWorker, reportVars, callVars
  <2> QED BY <2>1
<1>5. CASE CopyLands \/ (\E st \in Streams : Gpu(st)) \/ UNCHANGED vars
  <2>1. UNCHANGED <<pend, seen, lost, raised, armed>>
    BY <1>5, GpuFrame DEF CopyLands, vars, reportVars, callVars
  <2> QED BY <2>1
<1> QED BY <1>1, <1>2, <1>3, <1>4, <1>5 DEF Next, Gone

\* No step leaves the reader blocked with a reason to run.
LEMMA WakeupStep ==
  /\ TypeOK /\ CallersInv /\ ReaderInv /\ ParkInv /\ NoLostWakeup /\ [Next]_vars
  => NoLostWakeup'
<1> SUFFICES ASSUME TypeOK, CallersInv, ReaderInv, ParkInv, NoLostWakeup, [Next]_vars
             PROVE  NoLostWakeup'
  OBVIOUS
<1> USE DEF NoLostWakeup, StaysParked
<1>1. Woken \notin {"parked", "sleeping"} BY WokenMoves
<1>2. CASE Calling
  <2>1. UNCHANGED <<rseq, asleep, stopReq, suspendReq>>
    BY <1>2, CallingFrame DEF localVars, lifeVars, sleepVars
  <2>2. ASSUME rpc' = rpc, rpc = "parked" PROVE UNCHANGED <<callSeq, gateBroken>>
    <3>1. parked /\ calls = {} BY <2>2 DEF ParkInv
    <3>2. ASSUME NEW c \in Callers PROVE ~CallExit(c)
      BY <3>1, <3>2 DEF CallExit, CallersInv, InCall
    <3>3. ASSUME NEW c \in Callers, NEW st \in Streams PROVE ~CallEnter(c, st)
      BY <1>1, <2>2, <3>1 DEF CallEnter
    <3> QED BY <1>1, <1>2, <2>2, <3>2, <3>3 DEF Calling, Counter, CallCheck, CheckPending,
       Replay, Launch, callVars, BreakGateIf
  <2> QED BY <1>1, <1>2, <2>1, <2>2, CallingWakes
<1>3. CASE Lifecycle
  <2>1. UNCHANGED callSeq BY <1>3, LifecycleFrame DEF callVars
  <2>2. CASE rpc' = Woken \/ FreshReader
    BY <1>1, <2>2 DEF FreshReader
  <2>3. CASE rpc' = rpc /\ rpc' # Woken /\ ~FreshReader /\ rpc \in {"parked", "sleeping"}
    <3>1. thread = "alive" BY <2>3 DEF ReaderInv
    <3>2. UNCHANGED <<rseq, asleep, stopReq, suspendReq, gateBroken>>
      BY <1>3, <2>3, <3>1 DEF Lifecycle, StartReader, EnableIdleGate, SyncDevice,
         SuspendRequest, SuspendDone, ResumeReader, StopReader, Join, JoinTimeout,
         DrainBegin, DrainSkipped, DrainRead, DrainFails, NewWorker, localVars, sleepVars
    <3> QED BY <2>1, <2>3, <3>2
  <2> QED BY <1>3, <2>2, <2>3, LifecycleWakes
<1>4. CASE SleepCheck
  BY <1>4 DEF SleepCheck, Goto, ReaderKeeps, lifeVars, sleepVars
<1>5. CASE ParkCheck
  BY <1>5 DEF ParkCheck, StaysParked, Goto, ReaderKeeps, lifeVars, callVars, localVars
<1>6. CASE ReaderStep /\ ~SleepCheck /\ ~ParkCheck
  <2>1. rpc' \notin {"parked", "sleeping"}
    BY <1>6 DEF ReaderStep, TickAsleep, TickSuspend, TickUngated, TickGated, Sample,
       FenceComplete, FenceOutstanding, LoopFails, PollNothing, Poll, PollFails,
       RecordFence, RecordFails, AcquireIo, IssueFresh, FreshLanded, GiveUp, SettleFails,
       DrainReport, DrainRaced, SuspendAck, SuspendCancelled, ReaderExit, Park,
       Goto, AfterPoll
  <2> QED BY <2>1
<1>7. CASE CopyLands \/ (\E st \in Streams : Gpu(st)) \/ UNCHANGED vars
  <2>1. UNCHANGED <<rpc, rseq, callSeq, gateBroken, stopReq, suspendReq, asleep>>
    BY <1>7, GpuFrame DEF CopyLands, vars, callVars, lifeVars, localVars, sleepVars
  <2> QED BY <2>1
<1> QED BY <1>2, <1>3, <1>4, <1>5, <1>6, <1>7 DEF Next, Gone

\* A shutdown drain stays complete: nothing runs after it.
LEMMA DrainedStep ==
  TypeOK /\ GpuInv /\ CountInv /\ DrainedMeansReported /\ [Next]_vars => DrainedMeansReported'
<1> SUFFICES ASSUME TypeOK, GpuInv, CountInv, DrainedMeansReported, [Next]_vars,
                    own' = "drained"
             PROVE  AllReported'
  BY DEF DrainedMeansReported
<1> USE DEF DrainedMeansReported, AllReported
<1>1. CASE ReaderStep
  <2>1. AllReported /\ UNCHANGED count BY <1>1, ReaderFrame DEF gpuVars, lifeVars
  <2>2. \A s \in Sites : seen[s] <= seen'[s] /\ seen'[s] <= count[s]
    <3>1. CASE UNCHANGED reportVars
      BY <2>1, <3>1, BoundsAssumption DEF reportVars, TypeOK, GpuTypes
    <3>2. CASE ~UNCHANGED reportVars
      BY <1>1, <3>2, ReaderReports, ReportBounded DEF CountInv, TypeOK, CopyTypes
    <3> QED BY <3>1, <3>2
  <2>3. ReportTypes' BY TypeStep DEF TypeOK
  <2> QED BY <2>1, <2>2, <2>3, BoundsAssumption DEF TypeOK, GpuTypes, ReportTypes
<1>2. CASE DrainRead
  <2>1. UNCHANGED count /\ Advance(DeviceRows)
    BY <1>2 DEF DrainRead, WorkerKeeps, gpuVars, ReportRows
  <2>2. ASSUME NEW s \in Sites PROVE seen'[s] = count[s]
    <3>1. seen'[s] >= count[s] /\ seen'[s] \in {seen[s], count[s]}
      BY <2>1, <2>2, RowsType, AdvanceCounts DEF DeviceRows
    <3>2. seen[s] <= count[s] BY <2>2 DEF CountInv
    <3>3. seen[s] \in Nat /\ count[s] \in Nat
      BY <2>2, BoundsAssumption DEF TypeOK, ReportTypes, GpuTypes
    <3> QED BY <3>1, <3>2, <3>3
  <2> QED BY <2>1, <2>2
<1>3. ASSUME NEW st \in Streams, Gpu(st) PROVE AllReported'
  <2>1. own = "drained" BY <1>3, GpuFrame DEF lifeVars
  <2> QED BY <1>3, <2>1, AllDoneStopsGpu DEF GpuInv
<1>4. CASE (Lifecycle /\ ~DrainRead) \/ Calling \/ CopyLands \/ UNCHANGED vars
  <2>1. UNCHANGED <<count, seen>> /\ own = "drained"
    BY <1>4, LifecycleFrame, CallingFrame DEF Lifecycle, StartReader, EnableIdleGate,
       SyncDevice, SuspendRequest, SuspendDone, ResumeReader, StopReader, Join,
       JoinTimeout, DrainBegin, DrainSkipped, DrainFails, NewWorker, CopyLands,
       reportVars, gpuVars, lifeVars, vars
  <2> QED BY <2>1
<1> QED BY <1>1, <1>2, <1>3, <1>4 DEF Next, Gone

\* No step drains a sleeping worker.
LEMMA SleepStep == TypeOK /\ SampleInv /\ ReaderInv /\ SleepInv /\ [Next]_vars => SleepInv'
<1> SUFFICES ASSUME TypeOK, SampleInv, ReaderInv, SleepInv, [Next]_vars PROVE SleepInv'
  OBVIOUS
<1> USE DEF SleepInv
<1>1. CASE SuspendAck
  BY <1>1 DEF SuspendAck, Cancelled, ReaderInv, SampleInv, ReaderKeeps, lifeVars
<1>2. CASE ReaderStep /\ ~SuspendAck
  <2>1. UNCHANGED <<own, asleep>>
    BY <1>2, ReaderFrame DEF ReaderStep, TickAsleep, TickSuspend, TickUngated, TickGated,
       Sample, FenceComplete, FenceOutstanding, LoopFails, PollNothing, Poll, PollFails,
       RecordFence, RecordFails, AcquireIo, IssueFresh, FreshLanded, GiveUp, SettleFails,
       DrainReport, DrainRaced, SuspendCancelled, SleepCheck, Park, ParkCheck,
       ReaderExit, lifeVars, sleepVars
  <2> QED BY <2>1
<1>3. CASE Lifecycle
  BY <1>3 DEF Lifecycle, StartReader, EnableIdleGate, SyncDevice, SuspendRequest,
     SuspendDone, ResumeReader, StopReader, Join, JoinTimeout, DrainBegin, DrainSkipped,
     DrainRead, DrainFails, NewWorker, sleepVars
<1>4. CASE Calling \/ CopyLands \/ (\E st \in Streams : Gpu(st)) \/ UNCHANGED vars
  <2>1. UNCHANGED <<own, asleep>>
    BY <1>4, CallingFrame, GpuFrame DEF CopyLands, vars, lifeVars, sleepVars
  <2> QED BY <2>1
<1> QED BY <1>1, <1>2, <1>3, <1>4 DEF Next, Gone

\* The inductive invariant holds initially.
LEMMA InvInit == Init => IInv
<1> SUFFICES ASSUME Init PROVE IInv OBVIOUS
<1>1. TypeOK BY TypeInit
<1>2. CallersInv /\ GateInv BY DEF Init, CallersInv, GateInv, InCall, AllOut, GateLive
<1>3. GpuInv BY SitesAssumption DEF Init, GpuInv, AllDone
<1>8. MaximaInv
  <2>1. ASSUME NEW s \in Sites
        PROVE  Writing(s) = {} /\ count[s] = 0 /\ maxed[s] = 0
    BY SitesAssumption DEF Init, Writing
  <2>2. IsFiniteSet({}) /\ Cardinality({}) = 0 BY FS_EmptySet
  <2>3. ASSUME NEW s \in Sites
        PROVE  IsFiniteSet(Writing(s)) /\ count[s] = maxed[s] + Cardinality(Writing(s))
    <3>1. count[s] = 0 /\ maxed[s] = 0 BY <2>1
    <3>2. IsFiniteSet(Writing(s)) /\ Cardinality(Writing(s)) = 0 BY <2>1, <2>2, Zenon
    <3> QED BY <3>1, <3>2
  <2> QED BY <2>3, Zenon DEF MaximaInv
<1>4. SampleInv /\ ReaderInv /\ FenceInv
  BY DEF Init, SampleInv, ReaderInv, FenceInv, NoFence
<1>5. SettleInv /\ CountInv /\ ParkInv
  BY DEF Init, SettleInv, CountInv, ParkInv, NoRows
<1>7. SleepInv BY DEF Init, SleepInv
<1>6. FatalEvidenceStopsRank /\ NoLostWakeup /\ DrainedMeansReported
  BY SitesAssumption DEF Init, FatalEvidenceStopsRank, NoLostWakeup, DrainedMeansReported, NoRows
<1> QED BY <1>1, <1>2, <1>3, <1>4, <1>5, <1>6, <1>7, <1>8 DEF IInv

\* The invariant is inductive.
LEMMA InvStep == IInv /\ [Next]_vars => IInv'
BY TypeStep, CallersStep, GateStep, GpuStep, MaximaStep, SampleStep, ReaderInvStep, FenceStep,
   SettleStep, CountStep, ParkStep, SleepStep, FatalStep, WakeupStep, DrainedStep DEF IInv

\* Every reachable state satisfies the inductive invariant: the hand-overs
\* between the callers, the GPU, the reader and the worker hold throughout.
THEOREM Invariance == Spec => []IInv
BY InvInit, InvStep, PTL DEF Spec

\* Every variable of the watch keeps its type.
THEOREM TypeCorrect == Spec => []TypeOK
<1>1. IInv => TypeOK BY DEF IInv
<1> QED BY <1>1, Invariance, PTL

\* The idle quiesce misses nothing, for any callers, streams and sites: a
\* parked reader's engine is idle, reported and, after a fatal count, stopping.
LEMMA ParkedReports == IInv => ParkedMeansReported
<1> SUFFICES ASSUME IInv, parked, GateLive, ~lost
             PROVE  AllDone /\ AllReported /\ (FatalHit => armed \/ raised)
  BY DEF ParkedMeansReported
<1>1. Covered /\ rpc \in {"parkcheck", "parked"}
  BY DEF IInv, ParkInv, ReaderInv, Covered
<1>2. AllDone /\ AllReported BY <1>1 DEF IInv, SettleInv
<1>3. FatalHit => armed \/ raised
  BY <1>2, SitesAssumption DEF FatalHit, AllReported, IInv, FatalEvidenceStopsRank
<1> QED BY <1>2, <1>3

\* A parked reader missed nothing: the IDLE QUIESCE contract as an invariant.
THEOREM QuiesceIsComplete == Spec => []ParkedMeansReported
BY Invariance, ParkedReports, PTL

\* wait_idle keeps its promise unless the device was lost: only then may it
\* return True over counts that nobody has reported.
THEOREM WaitIdleUnlessLost == Spec => [](WaitIdleTrue /\ ~lost => AllReported)
<1>1. ParkedMeansReported => (WaitIdleTrue /\ ~lost => AllReported)
  BY DEF ParkedMeansReported, WaitIdleTrue
<1> QED
  BY <1>1, QuiesceIsComplete, PTL

\* A fatal count once seen stops the rank, on every path that can drop it.
THEOREM FatalEvidence == Spec => []FatalEvidenceStopsRank
<1>1. IInv => FatalEvidenceStopsRank BY DEF IInv
<1> QED BY <1>1, Invariance, PTL

\* A blocked reader has nothing to do, whoever changed the state last.
THEOREM WakeupsArrive == Spec => []NoLostWakeup
<1>1. IInv => NoLostWakeup BY DEF IInv
<1> QED BY <1>1, Invariance, PTL

\* The shutdown drain reports every count.
THEOREM DrainIsComplete == Spec => []DrainedMeansReported
<1>1. IInv => DrainedMeansReported BY DEF IInv
<1> QED BY <1>1, Invariance, PTL

\* A parked reader has no copy in flight, so a parked card does no reader work.
THEOREM ParkIsQuiet == Spec => []ParkedLeavesNoCopy
<1>1. IInv => ParkedLeavesNoCopy BY DEF IInv, ParkInv, ParkedLeavesNoCopy
<1> QED BY <1>1, Invariance, PTL

\* A sleep is acknowledged only for the current request, with the device idle
\* and everything reported.
THEOREM AckIsFinal == Spec => SuspendAckIsFinal
<1> DEFINE Ack == ~asleep /\ asleep' /\ thread = "alive" =>
                    /\ own = "suspending" /\ rgen = suspendGen
                    /\ AllDone /\ (lost \/ (AllReported /\ ~inflight))
<1>1. IInv /\ [Next]_vars => Ack
  <2> SUFFICES ASSUME IInv, [Next]_vars, ~asleep, asleep', thread = "alive"
               PROVE  /\ own = "suspending" /\ rgen = suspendGen
                      /\ AllDone /\ (lost \/ (AllReported /\ ~inflight))
    OBVIOUS
  <2>1. SuspendAck
    <3>1. CASE ReaderStep
      BY <3>1 DEF ReaderStep, TickAsleep, TickSuspend, TickUngated, TickGated,
         Sample, FenceComplete, FenceOutstanding, LoopFails, PollNothing, Poll,
         PollFails, RecordFence, RecordFails, AcquireIo, IssueFresh, FreshLanded, GiveUp,
         SettleFails, DrainReport, DrainRaced, SuspendCancelled, SleepCheck, Park,
         ParkCheck, ReaderExit, sleepVars
    <3>2. CASE Lifecycle
      BY <3>2 DEF Lifecycle, StartReader, EnableIdleGate, SyncDevice, SuspendRequest,
         SuspendDone, ResumeReader, StopReader, Join, JoinTimeout, DrainBegin,
         DrainSkipped, DrainRead, DrainFails, NewWorker, sleepVars
    <3>3. CASE Calling \/ CopyLands \/ (\E st \in Streams : Gpu(st)) \/ UNCHANGED vars
      BY <3>3, CallingFrame, GpuFrame DEF CopyLands, vars, sleepVars
    <3> QED BY <3>1, <3>2, <3>3 DEF Next, Gone
  <2>2. rpc = "ack" /\ rmode = "suspend" /\ suspendReq /\ suspendGen = rgen
    BY <2>1 DEF SuspendAck, Cancelled, IInv, ReaderInv
  <2> QED BY <2>2 DEF IInv, SampleInv, SettleInv, Covered, ParkInv
<1>2. IInv /\ [Next]_vars => [Ack]_vars BY <1>1
<1> HIDE DEF Ack
<1>3. Spec => [][Ack]_vars BY <1>2, Invariance, PTL DEF Spec
<1> QED BY <1>3 DEF SuspendAckIsFinal, Ack

\* While the worker sleeps nothing starts a copy of the counters.
THEOREM SleepIsQuiet == Spec => NoReadWhileAsleep
<1> DEFINE Still == asleep /\ asleep' => UNCHANGED copyVars \/ (~landed /\ landed')
<1>1. IInv /\ [Next]_vars => Still
  <2> SUFFICES ASSUME IInv, [Next]_vars, asleep
               PROVE  UNCHANGED copyVars \/ (~landed /\ landed')
    OBVIOUS
  <2>1. CASE ReaderStep
    <3>1. rpc \in {"off", "tick", "sleepcheck", "sleeping"} BY DEF IInv, ReaderInv
    <3> QED BY <2>1, <3>1 DEF ReaderStep, TickAsleep, TickSuspend, TickUngated, TickGated,
       Sample, FenceComplete, FenceOutstanding, LoopFails, PollNothing, Poll,
       PollFails, RecordFence, RecordFails, AcquireIo, IssueFresh, FreshLanded, GiveUp,
       SettleFails, DrainReport, DrainRaced, SuspendAck, SuspendCancelled, SleepCheck,
       Park, ParkCheck, ReaderExit
  <2>2. CASE Lifecycle
    <3>1. own # "draining" BY DEF IInv, SleepInv
    <3> QED BY <2>2, <3>1 DEF Lifecycle, StartReader, EnableIdleGate, SyncDevice,
       SuspendRequest, SuspendDone, ResumeReader, StopReader, Join, JoinTimeout,
       DrainBegin, DrainSkipped, DrainRead, DrainFails, NewWorker
  <2>3. CASE CopyLands BY <2>3 DEF CopyLands
  <2>4. CASE Calling \/ (\E st \in Streams : Gpu(st)) \/ UNCHANGED vars
    BY <2>4, CallingFrame, GpuFrame DEF vars
  <2> QED BY <2>1, <2>2, <2>3, <2>4 DEF Next, Gone
<1>2. IInv /\ [Next]_vars => [Still]_vars BY <1>1
<1> HIDE DEF Still
<1>3. Spec => [][Still]_vars BY <1>2, Invariance, PTL DEF Spec
<1> QED BY <1>3 DEF NoReadWhileAsleep, Still

\* The report of a settled read is coherent, for any sites, streams and
\* callers: every count it raises comes with maxima that cover all of its hits,
\* so a drain or a suspend never reports a hit whose address is still missing.
THEOREM SettledReports == Spec => SettledReportIsCoherent
<1> DEFINE Whole == DrainReport /\ (GateLive \/ rmode = "suspend") =>
                      \A s \in Sites : seen'[s] # seen[s] => told'[s] = seen'[s]
<1>1. IInv /\ [Next]_vars => Whole
  <2> SUFFICES ASSUME IInv, DrainReport, GateLive \/ rmode = "suspend",
                      NEW s \in Sites, seen'[s] # seen[s]
               PROVE  told'[s] = seen'[s]
    OBVIOUS
  <2>1. Covered /\ rpc = "landed"
    BY DEF DrainReport, Coherent, Covered, IInv, ReaderInv
  <2>2. mirror[s].n = count[s] /\ mirror[s].m = count[s]
    BY <2>1 DEF IInv, SettleInv
  <2>3. mirror \in Rows /\ pend \in Rows /\ seen \in [Sites -> Nat]
        /\ count[s] \in Nat
    BY BoundsAssumption DEF IInv, TypeOK, CopyTypes, ReportTypes, GpuTypes
  <2>4. Fold(pend, mirror)[s].n = count[s] /\ Fold(pend, mirror)[s].m = count[s]
    <3>1. pend[s].n <= count[s] BY DEF IInv, CountInv
    <3> QED BY <2>2, <2>3, <3>1 DEF Fold, Rows
  <2>5. Advance(Fold(pend, mirror))
    BY DEF DrainReport, ReportSettled, ReportRows
  <2> QED BY <2>3, <2>4, <2>5 DEF Advance
<1>2. IInv /\ [Next]_vars => [Whole]_vars BY <1>1
<1> HIDE DEF Whole
<1>3. Spec => [][Whole]_vars BY <1>2, Invariance, PTL DEF Spec
<1> QED BY <1>3 DEF SettledReportIsCoherent, Whole

Resting == parked /\ GateLive /\ ~lost
Stopping == armed \/ raised

\* Every step is one of three kinds for the watch: it counts a hit, it reports
\* while the reader is up, or it leaves counts, reports and stop alone.
LEMMA StepKinds ==
  ASSUME IInv, [Next]_vars
  PROVE  \/ UNCHANGED <<count, seen>> /\ (Stopping <=> Stopping')
         \/ /\ \E st \in Streams, s \in Sites : Hit(st, s)
            /\ ~Resting
         \/ /\ ~Resting /\ ~Resting' /\ UNCHANGED count
            /\ \A s \in Sites : seen[s] <= seen'[s] /\ seen'[s] <= count[s]
            /\ Stopping => Stopping'
<1> USE DEF IInv
<1> DEFINE Quiet == UNCHANGED <<count, seen>> /\ (Stopping <=> Stopping')
           Reports == /\ ~Resting /\ ~Resting' /\ UNCHANGED count
                      /\ \A s \in Sites : seen[s] <= seen'[s] /\ seen'[s] <= count[s]
                      /\ Stopping => Stopping'
<1>1. CASE Calling
  <2>1. UNCHANGED <<count, seen>> BY <1>1, CallingFrame DEF reportVars
  <2>2. Stopping <=> Stopping'
    <3>1. ASSUME NEW c \in Callers, CheckPending(c) PROVE Stopping <=> Stopping'
      BY <3>1 DEF CheckPending, Stopping
    <3>2. CASE UNCHANGED <<armed, raised>> BY <3>2 DEF Stopping
    <3> QED BY <1>1, <3>1, <3>2 DEF Calling, CallEnter, Counter, CallCheck, Replay, Launch,
       CallExit, callVars
  <2> QED BY <2>1, <2>2
<1>2. CASE ReaderStep
  <2>1. UNCHANGED <<count, raised>> BY <1>2, ReaderFrame DEF gpuVars, callVars
  <2>2. CASE UNCHANGED <<reportVars, armed>>
    BY <2>1, <2>2 DEF reportVars, Stopping
  <2>3. CASE ~UNCHANGED <<reportVars, armed>>
    <3>1. rpc \in {"query", "poll", "settle", "fresh", "landed"} /\ UNCHANGED parked
      BY <1>2, <2>3 DEF ReaderStep, TickAsleep, TickSuspend, TickUngated, TickGated,
         Sample, FenceComplete, FenceOutstanding, LoopFails, PollNothing, Poll,
         PollFails, RecordFence, RecordFails, AcquireIo, IssueFresh, FreshLanded, GiveUp,
         SettleFails, DrainReport, DrainRaced, SuspendAck, SuspendCancelled, SleepCheck,
         Park, ParkCheck, ReaderExit
    <3>2. parked = FALSE BY <3>1 DEF ParkInv, TypeOK
    <3>3. ~Resting /\ ~Resting' BY <3>1, <3>2 DEF Resting
    <3>4. \A s \in Sites : seen[s] <= seen'[s] /\ seen'[s] <= count[s]
      <4>1. CASE UNCHANGED reportVars
        BY <4>1 DEF reportVars, CountInv, TypeOK, ReportTypes
      <4>2. CASE ~UNCHANGED reportVars
        BY <1>2, <4>2, ReaderReports, ReportBounded DEF CountInv, TypeOK, CopyTypes
      <4> QED BY <4>1, <4>2
    <3>5. armed => armed'
      <4>1. CASE armed' = armed \/ armed' = TRUE BY <4>1
      <4>2. CASE Consume(mirror) \/ ReportSettled(mirror)
        BY <4>2, Zenon DEF Consume, ReportSettled, ReportRows
      <4>3. CASE LoseDevice BY <4>3 DEF LoseDevice
      <4> QED BY <1>2, <4>1, <4>2, <4>3, ReaderReports
    <3> QED BY <2>1, <3>3, <3>4, <3>5 DEF Stopping
  <2> QED BY <2>2, <2>3
<1>3. CASE DrainRead
  <2>1. UNCHANGED <<count, raised, parked, gateArmed, gateBroken, lost>>
    BY <1>3 DEF DrainRead, WorkerKeeps, gpuVars, callVars
  <2>2. ReportRows(DeviceRows) BY <1>3 DEF DrainRead
  <2>3. \A s \in Sites : seen[s] <= seen'[s] /\ seen'[s] \in {seen[s], count[s]}
    BY <2>2, RowsType, AdvanceCounts DEF ReportRows, DeviceRows
  <2>4. armed => armed' BY <2>2, Zenon DEF ReportRows
  <2>5. CASE Resting
    <3>1. AllReported BY <2>5, ParkedReports DEF Resting, ParkedMeansReported
    <3>2. seen' = seen
      BY <2>3, <3>1, TypeStep DEF AllReported, TypeOK, ReportTypes
    <3>3. Rising(DeviceRows) = {}
      BY <3>1, BoundsAssumption
         DEF Rising, DeviceRows, AllReported, TypeOK, ReportTypes, GpuTypes
    <3>4. armed' => armed BY <2>2, <3>3 DEF ReportRows
    <3> QED BY <2>1, <2>4, <3>2, <3>4 DEF Stopping
  <2>6. CASE ~Resting
    <3>1. ~Resting' BY <2>1, <2>6 DEF Resting, GateLive
    <3>2. \A s \in Sites : seen'[s] <= count[s]
      BY <2>3, BoundsAssumption DEF CountInv, TypeOK, GpuTypes
    <3> QED BY <2>1, <2>3, <2>4, <2>6, <3>1, <3>2 DEF Stopping
  <2> QED BY <2>5, <2>6
<1>4. ASSUME NEW st \in Streams, Gpu(st)
      PROVE  Quiet \/ (~Resting /\ \E s \in Sites : Hit(st, s))
  <2>1. ~Resting
    BY <1>4, AllDoneStopsGpu, ParkedReports DEF Resting, ParkedMeansReported
  <2>2. UNCHANGED <<seen, armed, raised>> BY <1>4, GpuFrame DEF reportVars, callVars
  <2> QED BY <1>4, <2>1, <2>2 DEF Gpu, WriteMaxima, Finish, Stopping
<1>5. CASE (Lifecycle /\ ~DrainRead) \/ CopyLands \/ UNCHANGED vars
  <2>1. UNCHANGED <<count, seen, armed, raised>>
    BY <1>5, LifecycleFrame DEF Lifecycle, StartReader, EnableIdleGate, SyncDevice,
       SuspendRequest, SuspendDone, ResumeReader, StopReader, Join, JoinTimeout,
       DrainBegin, DrainSkipped, DrainFails, NewWorker, CopyLands, reportVars, callVars,
       gpuVars, vars
  <2> QED BY <2>1 DEF Stopping
<1> QED BY <1>1, <1>2, <1>3, <1>4, <1>5 DEF Next, Gone

\* Every step maps to a step of the abstract watch or to a stutter.
LEMMA WatchStep ==
  IInv /\ IInv' /\ [Next]_vars => [Watch!Next]_(Watch!vars)
<1> SUFFICES ASSUME IInv, IInv', [Next]_vars PROVE [Watch!Next]_(Watch!vars)
  OBVIOUS
<1> USE DEF Resting, Stopping
<1>1. seen \in [Sites -> Nat] /\ seen' \in [Sites -> Nat]
      /\ count \in [Sites -> Nat] /\ count' \in [Sites -> Nat]
  BY BoundsAssumption DEF IInv, TypeOK, ReportTypes, GpuTypes
<1>2. Resting' => AllReported' /\ (FatalHit' => Stopping')
  BY ParkedReports, PTL DEF ParkedMeansReported
<1>3. CASE UNCHANGED <<count, seen>> /\ (Stopping <=> Stopping')
  <2>0. Stopping' = Stopping BY <1>3
  <2>1. CASE Resting /\ ~Resting'
    BY <1>3, <2>0, <2>1 DEF Watch!Next, Watch!Wake
  <2>2. CASE ~Resting /\ Resting'
    <3>1. seen = count BY <1>1, <1>2, <1>3, <2>2 DEF AllReported
    <3>2. (\E s \in FatalSites : count[s] > 0) => Stopping
      BY <1>2, <1>3, <2>0, <2>2 DEF FatalHit
    <3> QED BY <1>3, <2>0, <2>2, <3>1, <3>2 DEF Watch!Next, Watch!Rest
  <2>3. CASE Resting <=> Resting'
    <3>1. Resting' = Resting BY <2>3
    <3> QED BY <1>3, <2>0, <3>1 DEF Watch!vars
  <2> QED BY <2>1, <2>2, <2>3
<1>4. ASSUME NEW st \in Streams, NEW s \in Sites, Hit(st, s), ~Resting
      PROVE  Watch!Next
  <2>1. count' = [count EXCEPT ![s] = @ + 1]
        /\ UNCHANGED <<seen, armed, raised, parked, gateArmed, gateBroken, lost>>
    BY <1>4 DEF Hit, reportVars, callVars, lifeVars
  <2>2. Stopping' = Stopping /\ Resting' = Resting BY <2>1 DEF GateLive
  <2> QED BY <1>4, <2>1, <2>2 DEF Watch!Next, Watch!Hit
<1>5. CASE /\ ~Resting /\ ~Resting' /\ UNCHANGED count
           /\ \A s \in Sites : seen[s] <= seen'[s] /\ seen'[s] <= count[s]
           /\ Stopping => Stopping'
  <2>1. Resting' = Resting BY <1>5
  <2>2. Stopping' = Stopping \/ Stopping' = TRUE BY <1>5
  <2>3. (\E s \in FatalSites : seen'[s] # seen[s]) => Stopping'
    BY <1>1, <1>5, SitesAssumption DEF IInv, FatalEvidenceStopsRank
  <2> QED BY <1>1, <1>5, <2>1, <2>2, <2>3 DEF Watch!Next, Watch!Report
<1> QED BY <1>3, <1>4, <1>5, StepKinds

\* The reader, its gate, its copies and its locks implement the contract of a
\* watch that rests only when every hit is reported.
THEOREM Contract == Spec => ContractSpec
<1>1. Init => Watch!Init BY DEF Init, Watch!Init
<1> QED BY <1>1, WatchStep, Invariance, PTL DEF Spec, ContractSpec, Watch!Spec
=============================================================================
