---------------------------- MODULE CounterWatch ----------------------------
(***************************************************************************)
(* What the guard reader promises, without threads, streams or copies: a   *)
(* watch over event counters that may go to rest.  Hits happen only while  *)
(* the watch is up; it goes to rest only when every hit is reported and a  *)
(* fatal one has made the stop due; reports never run ahead of the hits    *)
(* and never fall back; a stop that is due stays due.  This is the IDLE    *)
(* QUIESCE contract in the docstring of vllm/v1/worker/guard_telemetry.py. *)
(***************************************************************************)
EXTENDS Naturals

CONSTANTS Sites, FatalSites

VARIABLES
  hits,      \* hits so far, per site
  reported,  \* hits reported, per site
  stopping,  \* a stop of the rank is due, or under way
  resting    \* the watch does no work

vars == <<hits, reported, stopping, resting>>

Init == /\ hits = [s \in Sites |-> 0] /\ reported = [s \in Sites |-> 0]
        /\ stopping = FALSE /\ resting = FALSE

Hit(s) == /\ ~resting
          /\ hits' = [hits EXCEPT ![s] = @ + 1]
          /\ UNCHANGED <<reported, stopping, resting>>

\* Report some hits and, if one is fatal, call for the stop; a stop may also
\* be called for early (a first observation, a lost device).
Report ==
  /\ ~resting /\ UNCHANGED <<hits, resting>>
  /\ reported' \in [Sites -> Nat]
  /\ \A s \in Sites : reported[s] <= reported'[s] /\ reported'[s] <= hits[s]
  /\ stopping' \in {stopping, TRUE}
  /\ (\E s \in FatalSites : reported'[s] # reported[s]) => stopping'

Rest ==
  /\ ~resting /\ reported = hits
  /\ (\E s \in FatalSites : hits[s] > 0) => stopping
  /\ resting' = TRUE
  /\ UNCHANGED <<hits, reported, stopping>>

Wake == resting /\ resting' = FALSE /\ UNCHANGED <<hits, reported, stopping>>

Next == (\E s \in Sites : Hit(s)) \/ Report \/ Rest \/ Wake

Spec == Init /\ [][Next]_vars
=============================================================================
