------------------------------ MODULE PleOffload ------------------------------
(***************************************************************************)
(* The life of the PLE CPU-offload process around the exchange of          *)
(* PleExchange: the worker of global rank 0 spawns it, every GPU worker    *)
(* registers its buffers with it, READY lets the engine start, and a       *)
(* shutdown, the death of the owner or a signal ends it.                   *)
(***************************************************************************)
EXTENDS PleExchange

CONSTANTS
  Faults  \* the failures that may occur in a run

ASSUME FaultsAssumption ==
  Faults \subseteq {"weights", "serve", "hang", "worker", "timeout", "signal"}

Owner == <<0, 0>>  \* spawn_ple_offload: rank 0 of data-parallel rank 0

VARIABLES
  owner,       \* where the owner is in its startup and shutdown
  child,       \* where the CPU process is in proc_main
  registered,  \* workers whose registration is in the PULL socket
  ready,       \* what the ready pipe holds for the owner
  deathPipe,   \* the owner's end of the death pipe is open
  shutdown,    \* shutdown_event of the CPU process
  crashed      \* GPU workers whose process died

lifeVars == <<owner, child, registered, ready, deathPipe, shutdown, crashed>>
allVars  == <<vars, lifeVars>>

OwnerPhases == {"loading", "waiting", "ready", "failed", "joining",
                "terminating", "killing", "closed"}
ChildPhases == {"none", "loading", "accepting", "serving", "stuck", "dead"}

LifeInit ==
  /\ Init
  /\ owner = "loading"
  /\ child = "none"
  /\ registered = {}
  /\ ready = "nothing"
  /\ deathPipe = TRUE
  /\ shutdown = FALSE
  /\ crashed = {}

Running == owner # "failed" /\ Owner \notin crashed

-----------------------------------------------------------------------------
(* The GPU workers outside a step.                                         *)

\* spawn_ple_offload and make_process, between init_device and load_model.
Spawn ==
  /\ owner = "loading"
  /\ Running
  /\ child = "none"
  /\ child' = "loading"
  /\ UNCHANGED <<vars, owner, registered, ready, deathPipe, shutdown, crashed>>

\* _setup_ple_offload at the end of load_model: the connector sends the
\* registration; the owner goes on to wait_ple_offload_ready.
Register(w) ==
  /\ w \notin registered \cup crashed
  /\ w = Owner => owner = "loading" /\ child # "none"
  /\ registered' = registered \cup {w}
  /\ owner' = IF w = Owner THEN "waiting" ELSE owner
  /\ UNCHANGED <<vars, child, ready, deathPipe, shutdown, crashed>>

\* wait_for_ready: READY, a FAILURE message, the end of the pipe or the
\* timeout; every outcome but READY raises and the owner's process ends.
WaitForReady ==
  /\ owner = "waiting"
  /\ Running
  /\ \/ ready = "READY" /\ owner' = "ready" /\ deathPipe' = deathPipe
     \/ /\ ready \in {"FAILURE", "EOF"} \/ "timeout" \in Faults
        /\ ready # "READY"
        /\ owner' = "failed"
        /\ deathPipe' = FALSE
  /\ UNCHANGED <<vars, child, registered, ready, shutdown, crashed>>

\* A worker process dies; the system closes the pipes of the owner.
WorkerDies(w) ==
  /\ "worker" \in Faults
  /\ w \notin crashed
  /\ crashed' = crashed \cup {w}
  /\ deathPipe' = IF w = Owner THEN FALSE ELSE deathPipe
  /\ UNCHANGED <<vars, owner, child, registered, ready, shutdown>>

\* PleOffloadWorkerHandle.close: close the pipes and join ...
Close ==
  /\ owner = "ready"
  /\ Running
  /\ owner' = "joining"
  /\ deathPipe' = FALSE
  /\ UNCHANGED <<vars, child, registered, ready, shutdown, crashed>>

\* ... and as long as a join runs into its timeout, terminate, then kill.
Joined ==
  /\ owner \in {"joining", "terminating", "killing"}
  /\ Running
  /\ child = "dead"
  /\ owner' = "closed"
  /\ UNCHANGED <<vars, child, registered, ready, deathPipe, shutdown, crashed>>

\* Seeded fault: SIGTERM is the last resort.
NeverKill ==
  /\ owner = "joining"
  /\ Running
  /\ child # "dead"
  /\ owner' = "terminating" /\ shutdown' = TRUE
  /\ UNCHANGED <<vars, child, registered, ready, deathPipe, crashed>>

JoinTimesOut ==
  /\ owner \in {"joining", "terminating"}
  /\ Running
  /\ child # "dead"
  /\ IF owner = "joining"
     THEN owner' = "terminating" /\ shutdown' = TRUE /\ child' = child
     ELSE owner' = "killing" /\ child' = "dead" /\ shutdown' = shutdown
  /\ UNCHANGED <<vars, registered, ready, deathPipe, crashed>>

-----------------------------------------------------------------------------
(* The CPU process outside a batch: proc_main.                             *)

Exits(message) ==
  /\ child' = "dead"
  /\ ready' = IF ready = "nothing" THEN message ELSE ready

\* PleOffloadRunner.__init__ loads the weights, then the socket is bound.
LoadWeights ==
  /\ child = "loading"
  /\ \/ child' = "accepting" /\ ready' = ready
     \/ "weights" \in Faults /\ Exits("FAILURE")
  /\ UNCHANGED <<vars, owner, registered, deathPipe, shutdown, crashed>>

\* Seeded fault: READY after the first registration.
AcceptFirst ==
  /\ child = "accepting"
  /\ registered # {}
  /\ child' = "serving"
  /\ ready' = "READY"
  /\ UNCHANGED <<vars, owner, registered, deathPipe, shutdown, crashed>>

\* accept_registrations blocks in recv until every worker has registered,
\* whatever shutdown_event says; then READY.
AcceptRegistrations ==
  /\ child = "accepting"
  /\ registered = Workers
  /\ child' = "serving"
  /\ ready' = "READY"
  /\ UNCHANGED <<vars, owner, registered, deathPipe, shutdown, crashed>>

\* monitor_parent, and the handler of SIGTERM and SIGINT.
MonitorParent ==
  /\ child \in {"loading", "accepting", "serving", "stuck"}
  /\ ~shutdown
  /\ ~deathPipe \/ "signal" \in Faults
  /\ shutdown' = TRUE
  /\ UNCHANGED <<vars, owner, child, registered, ready, deathPipe, crashed>>

\* The test of shutdown_event at the head of busy_loop.
LeaveLoop ==
  /\ child = "serving"
  /\ phase = "receive" /\ batch = << >>
  /\ shutdown
  /\ Exits("EOF")
  /\ UNCHANGED <<vars, owner, registered, deathPipe, shutdown, crashed>>

\* An exception in busy_loop: proc_main logs it and ends.
ServeFails ==
  /\ "serve" \in Faults
  /\ child = "serving"
  /\ Exits("FAILURE")
  /\ UNCHANGED <<vars, owner, registered, deathPipe, shutdown, crashed>>

\* The loop blocks for good, in forward_impl or in synchronize.
Hang ==
  /\ "hang" \in Faults
  /\ child = "serving"
  /\ child' = "stuck"
  /\ UNCHANGED <<vars, owner, registered, ready, deathPipe, shutdown, crashed>>

Life ==
  \/ Spawn \/ WaitForReady \/ Close \/ Joined \/ JoinTimesOut
  \/ \E w \in Workers : Register(w) \/ WorkerDies(w)
  \/ LoadWeights \/ AcceptRegistrations \/ MonitorParent
  \/ LeaveLoop \/ ServeFails \/ Hang

-----------------------------------------------------------------------------
(* The exchange, within the lives of the processes that take part in it.   *)

\* The engine schedules once every worker has come up, until it shuts down.
Host(w) ==
  /\ owner = "ready" /\ registered = Workers /\ crashed = {}
  /\ HostStep(w)
  /\ UNCHANGED lifeVars
Gpu(w)     == w \notin crashed /\ GpuStep(w) /\ UNCHANGED lifeVars
Request(d) == Leader(d) \notin crashed /\ RequestStep(d) /\ UNCHANGED lifeVars
Cpu        == child = "serving" /\ CpuStep /\ UNCHANGED lifeVars
Copy(w, l) == child \in {"serving", "stuck"} /\ CopyStep(w, l) /\ UNCHANGED lifeVars

Exchange ==
  \/ \E w \in Workers : Host(w) \/ Gpu(w)
  \/ \E d \in DPRanks : Request(d)
  \/ Cpu
  \/ \E w \in Workers, l \in Layers : Copy(w, l)

LifeNext == Life \/ Exchange

LifeSpec == LifeInit /\ [][LifeNext]_allVars

\* What is fair: threads and processes that can go on do, streams run what is
\* queued, joins end.  Not the engine's choice to launch or to shut down, a
\* registration, a fault or a timeout.
FairSpec ==
  /\ LifeSpec
  /\ \A w \in Workers : WF_allVars(Gpu(w))
  /\ \A d \in DPRanks : WF_allVars(Request(d))
  /\ WF_allVars(Cpu)
  /\ \A w \in Workers, l \in Layers : WF_allVars(Copy(w, l))
  /\ WF_allVars(LoadWeights)
  /\ WF_allVars(AcceptRegistrations)
  /\ WF_allVars(MonitorParent /\ ~deathPipe)
  /\ WF_allVars(LeaveLoop)
  /\ WF_allVars(Joined)
  /\ WF_allVars(JoinTimesOut)

-----------------------------------------------------------------------------
(* Properties.                                                             *)

\* The owner reports READY, and the engine starts a step, only when the CPU
\* process holds the buffers of every worker.
ReadyMeansRegistered ==
  (owner = "ready" \/ \E w \in Workers : launched[w] > 0) => registered = Workers

\* Once close() has begun, the CPU process ends: a join that runs into its
\* timeout is followed by SIGTERM, then by SIGKILL, whatever the process does.
CloseReaps == (owner = "joining") ~> (child = "dead" \/ Owner \in crashed)

\* A launched step is served on every rank of its TP group: no request is
\* lost, no two streams wait for each other, as long as nobody dies.
EveryStepServed ==
  \A d \in DPRanks, s \in Steps :
    (\A t \in TPRanks : launched[<<d, t>>] >= s) ~>
      \/ \A t \in TPRanks : gpu[<<d, t>>].step > s
      \/ child # "serving" \/ shutdown \/ crashed # {}

\* "Parent exited, shutting down.": the CPU process ends when its owner does.
OrphanExits == (child # "none" /\ ~Running) ~> (child = "dead")
===============================================================================
