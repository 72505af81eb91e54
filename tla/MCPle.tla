-------------------------------- MODULE MCPle --------------------------------
(***************************************************************************)
(* The PLE offload on small instances.  PleExchangeInv adds the inductive  *)
(* invariant of the exchange, so that the run also checks what the proofs  *)
(* of PleExchangeProofs rest on.                                           *)
(***************************************************************************)
EXTENDS PleOffload, PleExchangeInv
==============================================================================
