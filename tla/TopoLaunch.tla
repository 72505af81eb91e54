----------------------------- MODULE TopoLaunch -----------------------------
(***************************************************************************)
(* One launch: scripts/serve-v2.5.sh runs scripts/topo_select.py as a      *)
(* child under a watchdog, checks the environment file the child wrote,    *)
(* sources it, and executes vLLM; on any doubt it uses the fixed settings, *)
(* or refuses under AUTO_TOPO=strict.  Inside the child a discovery thread *)
(* decides while the main thread waits for it with a timeout.              *)
(***************************************************************************)
EXTENDS TopoSelect

CONSTANTS
  Launches,  \* host, what the machine reports; caller, the five variables as
             \* the caller set them; ctl, auto, laneAuto, bind, nccl, and usage,
             \* whether the selector accepts them
  Faults     \* what may fail, see the actions that name them

ASSUME LaunchesAssumption ==
  \A l \in Launches :
    /\ l.host.n \in Nat /\ l.host.idle \subseteq 1 .. l.host.n
    /\ l.caller.cvd \in Seq([kind : {"num", "uuid", "bad", "blank"}, k : Nat])

ASSUME FaultsAssumption ==
  Faults \subseteq {"mktemp", "python", "thread", "nvml", "error", "write",
                    "print", "timeout", "watchdog", "format", "source"}

VARIABLES
  host, caller, ctl,  \* fixed for the launch
  pc,       \* the script: start, waiting, sourcing, exec, exited
  spc,      \* the child's main thread
  thr,      \* the child's discovery thread
  dec,      \* the decision the thread handed over
  result,   \* how: none, value, refused, error
  file,     \* the environment file: none, empty (mktemp) or whole
  rc,       \* the child's exit status, -1 while it runs
  env,      \* the five variables in the script's environment
  prefix,   \* topo_launch_prefix: the node of the numactl prefix
  applied   \* the environment comes from the selector's file

given == <<host, caller, ctl>>
child == <<spc, thr, dec, result, rc>>
shell == <<env, prefix, applied>>
vars  == <<given, pc, child, file, shell>>

None == [status |-> "none"]

Init ==
  /\ \E l \in Launches : host = l.host /\ caller = l.caller /\ ctl = l.ctl
  /\ pc = "start" /\ spc = "none" /\ thr = "none" /\ dec = None
  /\ result = "none" /\ file = "none" /\ rc = -1
  /\ env = caller /\ prefix = NoNode /\ applied = FALSE
-----------------------------------------------------------------------------
(* The settings of a launch without a decision.                            *)

FixedEnv(cvd) == [cvd |-> IF cvd = NotSet THEN Fixed ELSE cvd,
                  order |-> "PCI_BUS_ID", skip |-> "1", level |-> "SYS",
                  proto |-> "LL"]

\* Seeded fault: the caller's GPUs are not restored from the snapshot.
FallbackKeepsGpus ==
  /\ env' = FixedEnv(env.cvd) /\ prefix' = NoNode /\ applied' = FALSE

\* legacy_topo_env fallback: the caller's GPUs from the snapshot, no prefix.
Fallback ==
  /\ env' = FixedEnv(IF Given(caller) THEN caller.cvd ELSE NotSet)
  /\ prefix' = NoNode /\ applied' = FALSE

\* topo_unavailable.
Unavailable ==
  \/ ctl.auto = "strict" /\ pc' = "exited" /\ UNCHANGED shell
  \/ ctl.auto # "strict" /\ pc' = "exec" /\ Fallback
-----------------------------------------------------------------------------
(* The script up to the child.                                             *)

\* AUTO_TOPO unset, 0 or not understood.
SelectorOff ==
  /\ pc = "start" /\ ctl.auto \notin {"1", "strict"}
  /\ env' = FixedEnv(caller.cvd) /\ pc' = "exec"
  /\ UNCHANGED <<given, child, file, prefix, applied>>

Snapshot ==
  /\ pc = "start" /\ ctl.auto \in {"1", "strict"}
  /\ pc' = "waiting" /\ file' = "empty" /\ spc' = "args"
  /\ UNCHANGED <<given, thr, dec, result, rc, shell>>

MktempFails ==
  /\ pc = "start" /\ ctl.auto \in {"1", "strict"} /\ "mktemp" \in Faults
  /\ Unavailable
  /\ UNCHANGED <<given, child, file>>
-----------------------------------------------------------------------------
(* The child's main thread (main) and the watchdog over it.                *)

\* Seeded fault: the process waits for its thread before it goes.
ExitsAfterThread(code) == rc' = code /\ spc' = "dead" /\ UNCHANGED thr

\* The process ends, and the daemon thread with it.
Exits(code) == rc' = code /\ spc' = "dead" /\ thr' = "none"

Usage ==
  /\ spc = "args" /\ ~ctl.usage
  /\ Exits(2)
  /\ UNCHANGED <<given, pc, dec, result, file, shell>>

StartDiscovery ==
  /\ spc = "args" /\ ctl.usage
  /\ spc' = "joining" /\ thr' = "loading"
  /\ UNCHANGED <<given, pc, dec, result, rc, file, shell>>

\* No interpreter, or a thread that does not start.
ChildFails ==
  /\ spc = "args"
  /\ \/ "python" \in Faults /\ Exits(1)
     \/ "thread" \in Faults /\ ctl.usage /\ Exits(5)
  /\ UNCHANGED <<given, pc, dec, result, file, shell>>

Joined ==
  /\ spc = "joining" /\ thr = "done"
  /\ \/ result = "value" /\ spc' = "json" /\ UNCHANGED <<rc, thr>>
     \/ result = "refused" /\ Exits(3)
     \/ result = "error" /\ Exits(5)
  /\ UNCHANGED <<given, pc, dec, result, file, shell>>

\* os._exit(EXIT_TIMEOUT): the thread is hung, or only late.
JoinTimeout ==
  /\ spc = "joining" /\ thr # "done" /\ "timeout" \in Faults
  /\ Exits(4)
  /\ UNCHANGED <<given, pc, dec, result, file, shell>>

\* write_outputs: the diagnostics, written or not.
WriteDiagnostics ==
  /\ spc = "json" /\ spc' = "env"
  /\ UNCHANGED <<given, pc, thr, dec, result, rc, file, shell>>

\* atomic_write of the environment file.
WriteEnv ==
  /\ spc = "env" /\ spc' = "quit" /\ file' = "whole"
  /\ UNCHANGED <<given, pc, thr, dec, result, rc, shell>>

\* Writing the file fails, or printing the summary once it is written.
OutputFails ==
  /\ \/ spc = "env" /\ "write" \in Faults
     \/ spc = "quit" /\ "print" \in Faults
  /\ Exits(5)
  /\ UNCHANGED <<given, pc, dec, result, file, shell>>

Quit ==
  /\ spc = "quit" /\ Exits(0)
  /\ UNCHANGED <<given, pc, dec, result, file, shell>>

\* Seeded fault: only the wait for the discovery is watched.
WatchdogOnJoin ==
  /\ spc = "joining" /\ "watchdog" \in Faults
  /\ Exits(124)
  /\ UNCHANGED <<given, pc, dec, result, file, shell>>

\* timeout --kill-after: the child overran, whatever it is doing.
Watchdog ==
  /\ spc \in {"args", "joining", "json", "env", "quit"} /\ "watchdog" \in Faults
  /\ Exits(124)
  /\ UNCHANGED <<given, pc, dec, result, file, shell>>
-----------------------------------------------------------------------------
(* The discovery thread (decide).                                          *)

ForeignOrder == caller.order \notin {Unset, "PCI_BUS_ID"}

\* Seeded fault: the caller's device order is not looked at.
LoadAnyOrder ==
  /\ thr = "loading"
  /\ \/ thr' = "deciding" /\ UNCHANGED <<dec, result>>
     \/ /\ "nvml" \in Faults
        /\ thr' = "done" /\ result' = "value"
        /\ dec' = Legacy(caller, "nvml_unavailable")
  /\ UNCHANGED <<given, pc, spc, rc, file, shell>>

\* Before the facts: a device order of the caller's own, or no NVML.
Load ==
  /\ thr = "loading"
  /\ \/ /\ ForeignOrder
        /\ thr' = "done" /\ result' = "value"
        /\ dec' = Legacy(caller, "device_order_not_pci_bus_id")
     \/ ~ForeignOrder /\ thr' = "deciding" /\ UNCHANGED <<dec, result>>
     \/ /\ ~ForeignOrder /\ "nvml" \in Faults
        /\ thr' = "done" /\ result' = "value"
        /\ dec' = Legacy(caller, "nvml_unavailable")
  /\ UNCHANGED <<given, pc, spc, rc, file, shell>>

\* With the facts: a decision or a refusal.
Decide ==
  /\ thr = "deciding" /\ thr' = "closing"
  /\ LET d == Decision(host, caller, ctl)
     IN  IF d.reason = "refused" THEN result' = "refused" /\ UNCHANGED dec
         ELSE result' = "value" /\ dec' = d
  /\ UNCHANGED <<given, pc, spc, rc, file, shell>>

DecideFails ==
  /\ thr = "deciding" /\ "error" \in Faults
  /\ thr' = "closing" /\ result' = "error"
  /\ UNCHANGED <<given, pc, spc, dec, rc, file, shell>>

\* The thread ends, shutting NVML down if it had a topology.
Close ==
  /\ thr = "closing" /\ thr' = "done"
  /\ UNCHANGED <<given, pc, spc, dec, result, rc, file, shell>>
-----------------------------------------------------------------------------
(* The script after the child.                                             *)

\* Status 3 is the strict refusal; the file must be whole and well formed.
ChildEnded ==
  /\ pc = "waiting" /\ spc = "dead"
  /\ \/ rc = 3 /\ pc' = "exited" /\ file' = "none" /\ UNCHANGED shell
     \/ rc \notin {0, 3} /\ Unavailable /\ file' = "none"
     \/ rc = 0 /\ file = "whole" /\ pc' = "sourcing" /\ UNCHANGED <<file, shell>>
     \/ /\ rc = 0 /\ (file # "whole" \/ "format" \in Faults)
        /\ Unavailable /\ file' = "none"
  /\ UNCHANGED <<given, child>>

Names == <<"cvd", "order", "skip", "level", "proto">>

\* source: all of the file, or its first n statements.
Source ==
  /\ pc = "sourcing" /\ pc' = "exec" /\ file' = "none"
  /\ env' = dec.env /\ prefix' = dec.prefix /\ applied' = TRUE
  /\ UNCHANGED <<given, child>>

SourceFails ==
  /\ pc = "sourcing" /\ "source" \in Faults
  /\ pc' = "broken" /\ file' = "none"
  /\ \E n \in 0 .. 5 : env' = [x \in DOMAIN env |->
       IF \E i \in 1 .. n : Names[i] = x THEN dec.env[x] ELSE env[x]]
  /\ UNCHANGED <<given, child, prefix, applied>>

SourceBroken ==
  /\ pc = "broken" /\ Unavailable
  /\ UNCHANGED <<given, child, file>>

Script == SelectorOff \/ Snapshot \/ MktempFails \/ ChildEnded \/ Source
          \/ SourceFails \/ SourceBroken
Main   == Usage \/ StartDiscovery \/ ChildFails \/ Joined \/ JoinTimeout
          \/ WriteDiagnostics \/ WriteEnv \/ OutputFails \/ Quit
Thread == Load \/ Decide \/ DecideFails \/ Close
Over   == pc \in {"exec", "exited"} /\ UNCHANGED vars

Next == Script \/ Main \/ Thread \/ Watchdog \/ Over

Spec == Init /\ [][Next]_vars

\* The script runs and the watchdog fires; the child promises nothing.
FairSpec == Spec /\ WF_vars(Script) /\ WF_vars(Watchdog)
-----------------------------------------------------------------------------
\* Every variable has its type; a dead child runs no thread and has a status.
TypeOK ==
  /\ host.n \in Nat
  /\ pc \in {"start", "waiting", "sourcing", "broken", "exec", "exited"}
  /\ spc \in {"none", "args", "joining", "json", "env", "quit", "dead"}
  /\ thr \in {"none", "loading", "deciding", "closing", "done"}
  /\ result \in {"none", "value", "refused", "error"}
  /\ file \in {"none", "empty", "whole"}
  /\ rc \in {-1, 0, 1, 2, 3, 4, 5, 124} /\ applied \in BOOLEAN
  /\ spc = "dead" => thr = "none" /\ rc # -1

\* The GPUs vLLM sees: indices count in the order CUDA_DEVICE_ORDER asks for.
Visible(e) ==
  {LET t == e.cvd[i]
   IN  IF t.kind # "num" THEN Resolve(host, t)
       ELSE IF t.k >= host.n THEN 0
       ELSE IF e.order \in {Unset, "PCI_BUS_ID"} THEN t.k + 1
       ELSE host.fastest[t.k + 1] : i \in 1 .. Len(e.cvd)}

\* A decision never changes which GPUs the caller picked, only their order.
LaneIsTheCallers ==
  pc = "exec" /\ applied /\ Given(caller) => Visible(env) = Visible(caller)

\* The caller's order gives way only to a strictly better one, and no order of
\* the lane is better than the one chosen.
OrderIsBest ==
  spc = "quit" /\ dec.status = "ok" =>
    /\ dec.lane # dec.input =>
         Less(Score(host, dec.input), Score(host, dec.lane))
    /\ \A l \in OrdersOf(dec.input) : ~Less(Score(host, dec.lane), Score(host, l))

\* The prefix binds the server to the node of every GPU it will use.
BoundToItsGpus ==
  pc = "exec" /\ prefix # NoNode => \A g \in Visible(env) : Numa(host, g) = prefix

\* A child that failed, timed out, was killed late or wrote something unusable
\* leaves nothing of its decision behind.
NoTraceOfFailure ==
  pc = "exec" /\ ctl.auto = "1" /\ ~applied =>
    /\ prefix = NoNode
    /\ env = FixedEnv(IF Given(caller) THEN caller.cvd ELSE NotSet)

\* A strict launch starts only on a decision, and never on a lane the selector
\* picked itself.
StrictNeverGuesses ==
  pc = "exec" /\ ctl.auto = "strict" =>
    /\ applied
    /\ dec.status = "ok" /\ host.n > 4 => Given(caller)

\* The selector never blocks a launch, whatever it hangs in.
NeverBlocks == (pc = "start" /\ ctl.auto = "1") ~> (pc = "exec")

\* docs/topology-selector.md: a CUDA_VISIBLE_DEVICES of white space counts as
\* unset, as it always did.
BlankIsUnset == pc = "exec" /\ caller.cvd = Blank => env.cvd # Blank

\* docs/topology-selector.md: strict refuses to start when more than four GPUs
\* are visible and CUDA_VISIBLE_DEVICES is not set.
StrictRefuses ==
  pc = "exec" /\ ctl.auto = "strict" /\ host.n > 4 => Given(caller)
=============================================================================
