----------------------------- MODULE PleRunner -----------------------------
(***************************************************************************)
(* How the CPU process of the PLE offload gets ready to serve              *)
(* (PleOffloadRunner._load_weights and accept_registrations): which        *)
(* checkpoint tensors it materializes, which starts it refuses, and the    *)
(* targets and inputs it keeps for every DP rank.  A module or parameter   *)
(* name is the sequence of its dotted parts.                               *)
(***************************************************************************)
EXTENDS Integers, Sequences, SequencesExt

-----------------------------------------------------------------------------
(* Weights.  `model` has the names of its offload layers and, for each, of  *)
(* its parameters; `checkpoint` is the set of tensors, each with the names  *)
(* the model's mapper gives it (none when the mapper drops it).             *)

\* mapped_name.startswith(f"{layer}.")
InOffloadLayer(name, layers) ==
  \E l \in layers : IsStrictPrefix(l, name)

\* offload_only_iter looks at the first mapped name only.
Materialized(checkpoint, layers) ==
  {t \in checkpoint : t.mapped # << >> /\ InOffloadLayer(t.mapped[1], layers)}

\* What model.load_weights reports as loaded: the mapped names it was given.
LoadedParams(checkpoint, layers) ==
  {t.mapped[1] : t \in Materialized(checkpoint, layers)}

WeightsRefused(loader, model, checkpoint) ==
  \/ model.layers = {}
  \/ loader \notin {"dummy", "default"}
  \/ /\ loader = "default"
     /\ \/ Materialized(checkpoint, model.layers) = {}
        \/ ~(model.params \subseteq LoadedParams(checkpoint, model.layers))

\* A start from a checkpoint is accepted exactly when there are PLE layers and
\* some tensor was found for each of their parameters, under whatever name the
\* mapper gives it first.
LoadsItsLayers(model, checkpoint) ==
  ~WeightsRefused("default", model, checkpoint) <=>
    /\ model.layers # {}
    /\ \E t \in checkpoint : t.mapped # << >> /\ \E l \in model.layers : IsStrictPrefix(l, t.mapped[1])
    /\ \A p \in model.params : \E t \in checkpoint : t.mapped # << >> /\ Head(t.mapped) = p

-----------------------------------------------------------------------------
(* Registrations, in the order of arrival: DP rank, TP rank and the layers   *)
(* with an output buffer.                                                    *)

RanksIn(items, d) == {i \in DOMAIN items : items[i].dp = d}

\* Seeded fault: the TP ranks of a DP rank are counted, not compared.
RanksCounted(items, dpSize, tpSize) ==
  \/ Len(items) # dpSize * tpSize
  \/ {items[i].dp : i \in DOMAIN items} # 0..dpSize - 1
  \/ \E d \in 0..dpSize - 1 : Cardinality(RanksIn(items, d)) # tpSize

RanksRefused(items, dpSize, tpSize) ==
  \/ Len(items) # dpSize * tpSize
  \/ {items[i].dp : i \in DOMAIN items} # 0..dpSize - 1
  \/ \E d \in 0..dpSize - 1 :
       {items[i].tp : i \in RanksIn(items, d)} # 0..tpSize - 1

RegistrationsRefused(items, dpSize, tpSize, layers) ==
  \/ RanksRefused(items, dpSize, tpSize)
  \/ \E i \in DOMAIN items : items[i].layers # layers

\* What targets.sort puts in front of registration i: lower TP ranks, and equal
\* ones that arrived before it.
SortedBefore(items, d, i) ==
  {j \in RanksIn(items, d) :
     \/ items[j].tp < items[i].tp
     \/ items[j].tp = items[i].tp /\ j < i}

\* The destinations of a DP rank, one per registration, in TP order.
TargetsOf(items, d) ==
  [t \in 1..Cardinality(RanksIn(items, d)) |->
     items[CHOOSE i \in RanksIn(items, d) : Cardinality(SortedBefore(items, d, i)) = t - 1]]

\* The last registration of TP rank 0 leaves its input buffers.
InputsOf(items, d) ==
  items[CHOOSE i \in RanksIn(items, d) :
          items[i].tp = 0 /\ \A j \in RanksIn(items, d) : items[j].tp = 0 => j <= i]

\* Registrations that are accepted, in whatever order they came, give every
\* layer of a DP rank one destination per TP rank, and inputs of TP rank 0;
\* those of a full set of workers are never refused.
TargetsComplete(items, dpSize, tpSize, layers) ==
  /\ ~RegistrationsRefused(items, dpSize, tpSize, layers) =>
       \A d \in 0..dpSize - 1 :
         /\ TargetsOf(items, d) =
              [t \in 1..tpSize |-> [dp |-> d, tp |-> t - 1, layers |-> layers]]
         /\ InputsOf(items, d) = TargetsOf(items, d)[1]
  /\ ({<<items[i].dp, items[i].tp>> : i \in DOMAIN items} = (0..dpSize - 1) \X (0..tpSize - 1)
      /\ Len(items) = dpSize * tpSize
      /\ \A i \in DOMAIN items : items[i].layers = layers) =>
       ~RegistrationsRefused(items, dpSize, tpSize, layers)
=============================================================================
