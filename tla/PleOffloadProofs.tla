--------------------------- MODULE PleOffloadProofs ---------------------------
(***************************************************************************)
(* Whatever fails, the exchange stays the one of PleExchange: the lives of *)
(* the processes only stop it, and READY comes after every registration.   *)
(***************************************************************************)
EXTENDS PleOffload, PleExchangeProofs

\* A step of the composition is a step of the exchange or leaves it alone.
LEMMA EmbeddedStep == [LifeNext]_allVars => [Next]_vars
<1> SUFFICES ASSUME [LifeNext]_allVars PROVE [Next]_vars
  OBVIOUS
<1>1. CASE Life
  <2>1. UNCHANGED vars
    BY <1>1
    DEF Life, Spawn, Register, WaitForReady, WorkerDies, Close, Joined,
        JoinTimesOut, LoadWeights, AcceptRegistrations, MonitorParent, LeaveLoop,
        ServeFails, Hang
  <2> QED
    BY <2>1
<1>2. CASE Exchange
  BY <1>2 DEF Exchange, Host, Gpu, Request, Cpu, Copy, Next
<1>3. CASE UNCHANGED allVars
  BY <1>3 DEF allVars
<1> QED
  BY <1>1, <1>2, <1>3 DEF LifeNext

\* The CPU process that loads, fails, hangs or is killed, the workers that die
\* and the shutdown ladder never make the exchange do what it would not do by
\* itself: its specification is implemented under every set of faults.
THEOREM FaultsOnlyStop == LifeSpec => Spec
<1>1. LifeInit => Init
  BY DEF LifeInit
<1> QED
  BY <1>1, EmbeddedStep, PTL DEF LifeSpec, Spec

\* The invariant of the exchange, and with it what every layer reads, holds
\* under every set of faults.
THEOREM InvariantUnderFaults == LifeSpec => []IInv
BY FaultsOnlyStop, Invariance, PTL

-----------------------------------------------------------------------------
\* The strengthening of ReadyMeansRegistered: the message in the ready pipe is
\* already evidence of the registrations, and a registration is not taken back.
Evidence ==
  /\ registered \subseteq Workers
  /\ ready = "READY" => registered = Workers
  /\ owner = "ready" => registered = Workers
  /\ (\E w \in Workers : launched[w] > 0) => registered = Workers

LEMMA EvidenceInit == LifeInit => Evidence
BY DEF LifeInit, Init, Evidence

LEMMA EvidenceStep == Evidence /\ [LifeNext]_allVars => Evidence'
<1> SUFFICES ASSUME Evidence, [LifeNext]_allVars PROVE Evidence'
  OBVIOUS
<1> USE DEF Evidence
<1>1. ASSUME NEW w \in Workers, Register(w) PROVE Evidence'
  <2>1. registered # Workers
    BY <1>1 DEF Register
  <2>2. registered' \subseteq Workers /\ owner' # "ready" /\ ready' = ready
    BY <1>1, <2>1 DEF Register
  <2>3. launched' = launched
    BY <1>1 DEF Register, vars, hostVars
  <2> QED
    BY <2>1, <2>2, <2>3
<1>2. CASE WaitForReady
  BY <1>2 DEF WaitForReady, vars, hostVars
<1>3. CASE Spawn \/ Close \/ Joined \/ JoinTimesOut \/ MonitorParent \/ Hang
  BY <1>3
  DEF Spawn, Close, Joined, JoinTimesOut, MonitorParent, Hang, vars, hostVars
<1>4. ASSUME NEW w \in Workers, WorkerDies(w) PROVE Evidence'
  BY <1>4 DEF WorkerDies, vars, hostVars
<1>5. CASE LoadWeights \/ AcceptRegistrations \/ LeaveLoop \/ ServeFails
  BY <1>5
  DEF LoadWeights, AcceptRegistrations, LeaveLoop, ServeFails, Exits, vars,
      hostVars
<1>6. ASSUME NEW w \in Workers, Host(w) PROVE Evidence'
  BY <1>6 DEF Host, lifeVars
<1>7. CASE UNCHANGED <<lifeVars, hostVars>>
  BY <1>7 DEF lifeVars, hostVars
<1>8. CASE Exchange
  BY <1>6, <1>7, <1>8, GpuFrame, RequestFrame, CpuFrame, CopyFrame
  DEF Exchange, Gpu, Request, Cpu, Copy
<1>9. CASE UNCHANGED allVars
  BY <1>7, <1>9 DEF allVars, vars
<1> QED
  BY <1>1, <1>2, <1>3, <1>4, <1>5, <1>8, <1>9 DEF LifeNext, Life

\* The owner reports READY, and a step is launched, only when the CPU process
\* holds the buffers of every worker: no request names a worker it cannot serve.
THEOREM ReadyAfterRegistration == LifeSpec => []ReadyMeansRegistered
<1>1. Evidence => ReadyMeansRegistered
  BY DEF Evidence, ReadyMeansRegistered
<1> QED
  BY <1>1, EvidenceInit, EvidenceStep, PTL DEF LifeSpec
=============================================================================
