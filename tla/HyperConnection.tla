--------------------------- MODULE HyperConnection ---------------------------
(***************************************************************************)
(* One forward of the language model, model.py: the decoder layers, the    *)
(* delayed combine of the hyper-connections between them, the PLE and      *)
(* deepstack additions, and the pipeline ranks the layers are divided      *)
(* among.                                                                  *)
(*                                                                         *)
(* The multi-stream state is the sequence of what was added to it; a block *)
(* reads the whole state, so its output is named by the block and by the   *)
(* number of additions it saw.  Layers count from 0 as in the code.        *)
(***************************************************************************)
EXTENDS Integers, Sequences, FiniteSets

Raised == <<"raised">>

\* A model is [layers |-> number of layers, linear, ple, dense |-> sets of
\* layers, sparseStep |-> decoder_sparse_step, experts |-> num_experts,
\* deepstack |-> number of deepstack levels]; ple holds layer + 1 as
\* config.ple_layer_ids does, dense is mlp_only_layers.
HasPle(m, l) == l + 1 \in m.ple

AttentionKind(m, l) == IF l \in m.linear THEN "linear_attn" ELSE "self_attn"

MlpKind(m, l) ==
  IF l \notin m.dense /\ m.experts > 0 /\ (l + 1) % m.sparseStep = 0
  THEN "moe" ELSE "mlp"

\* The PLE table of a layer: its rank among the distinct PLE layers.
PleDenseId(m, l) == Cardinality({i \in m.ple : i < l + 1})

-----------------------------------------------------------------------------
(* GatedResidual.  mix and combine_and_mix read the materialized state and  *)
(* produce the block's input and the injection its output is combined with; *)
(* both are named by the layer, the connection and what they saw.           *)

Mixed(state, l, hc)   == [layer |-> l, hc |-> hc, saw |-> Len(state)]
Block(name, input)    == [by |-> name, input |-> input]
\* pending holds at most one block output with its injection; combine adds it.
Combine(state, pending) == state \o pending

\* Qwen4ExpDecoderLayer.forward: a pending combine is materialized before the
\* PLE is added and is fused with the attention's mix otherwise; the MLP's
\* combine is left pending.
DecoderLayer(m, l, state, pending) ==
  LET combined == Combine(state, pending)
      withPle  == IF HasPle(m, l)
                  THEN Append(combined, Block("ple", <<PleDenseId(m, l), Len(combined)>>))
                  ELSE combined
      attn    == Mixed(withPle, l, "attn")
      atMlp   == Combine(withPle, <<[out       |-> Block(AttentionKind(m, l), attn),
                                     injection |-> attn]>>)
      mlp     == Mixed(atMlp, l, "mlp")
  IN  [state   |-> atMlp,
       pending |-> <<[out |-> Block(MlpKind(m, l), mlp), injection |-> mlp]>>]

\* Seeded fault: the deepstack levels are added before the pending combine.
WithDeepstackPending(m, l, deepstack, after) ==
  IF deepstack /\ l < m.deepstack
  THEN [after EXCEPT !.state = Append(@, Block("deepstack", <<l>>))] ELSE after

\* The deepstack addition after a layer terminates the delayed combine.
WithDeepstack(m, l, deepstack, after) ==
  IF deepstack /\ l < m.deepstack
  THEN [state   |-> Append(Combine(after.state, after.pending), Block("deepstack", <<l>>)),
        pending |-> << >>]
  ELSE after

\* The layers first..last-1 of one pipeline rank.
RankLayers(m, first, last, deepstack, state) ==
  LET after[l \in first..last] ==
        IF l = first THEN [state |-> state, pending |-> << >>]
        ELSE WithDeepstack(m, l - 1, deepstack,
               DecoderLayer(m, l - 1, after[l - 1].state, after[l - 1].pending))
  IN  after[last]

\* Qwen4ExpModel.forward on the rank of layers first..last-1.  A rank that is
\* not the last sends one materialized tensor; the last one hands the pending
\* combine to the final mixer, which has no other way to take the state.
RankForward(m, first, last, isLast, deepstack, state) ==
  LET after == RankLayers(m, first, last, deepstack, state)
  IN  IF isLast /\ after.pending = << >> THEN Raised
      ELSE Combine(after.state, after.pending)

\* A forward through every rank.  bounds[k] is the first layer of rank k, the
\* last bound the number of layers.  Only the first rank gets the deepstack
\* embeddings, and a model with PLE runs on one rank alone: the model state
\* refuses another; Qwen4ExpForConditionalGeneration.__init__ refuses a rank
\* that would begin inside the deepstack levels.
Ranks(bounds) == Len(bounds) - 1

Refused(m, bounds) ==
  \/ m.ple # {} /\ Ranks(bounds) > 1
  \/ m.deepstack > 0 /\ \E k \in 2..Ranks(bounds) : bounds[k] < m.deepstack

Forward(m, bounds, embeds) ==
  LET deepstack(k) == k = 1 /\ embeds /\ m.deepstack > 0
      after[k \in 0..Ranks(bounds)] ==
        IF k = 0 THEN << >>
        ELSE RankForward(m, bounds[k], bounds[k + 1], k = Ranks(bounds),
                         deepstack(k), after[k - 1])
  IN  after[Ranks(bounds)]

\* set_moe_parameters: the MoE layers of a rank, in order.
MoeLayers(m, first, last) ==
  LET moe[l \in first..last] ==
        IF l = first THEN << >>
        ELSE IF MlpKind(m, l - 1) = "moe" THEN Append(moe[l - 1], l - 1) ELSE moe[l - 1]
  IN  moe[last]

-----------------------------------------------------------------------------
(* Reference: every addition is made at once, on one rank.                 *)

\* What layer l adds to the state before it.
EagerLayer(m, l, embeds, before) ==
  LET ple    == IF l + 1 \in m.ple
                THEN <<Block("ple", <<Cardinality({i \in m.ple : i <= l}), Len(before)>>)>>
                ELSE << >>
      Add(s, hc, kind) ==
        LET mix == [layer |-> l, hc |-> hc, saw |-> Len(s)]
        IN  Append(s, [out |-> Block(kind, mix), injection |-> mix])
      whole  == Add(Add(before \o ple, "attn", AttentionKind(m, l)), "mlp", MlpKind(m, l))
  IN  IF embeds /\ l < m.deepstack THEN Append(whole, Block("deepstack", <<l>>)) ELSE whole

\* The state before every layer, and behind the last.
EagerStates(m, embeds) ==
  LET eager[l \in 0..m.layers] ==
        IF l = 0 THEN << >> ELSE EagerLayer(m, l - 1, embeds, eager[l - 1])
  IN  eager

EagerState(m, embeds) == EagerStates(m, embeds)[m.layers]

\* The addition a is the output of the experts of layer l.
IsMoeOutput(a, l) == "out" \in DOMAIN a /\ a.out.by = "moe" /\ a.injection.layer = l

\* The final mixer, and the drafter behind it, get the state in which every
\* block's output was combined exactly once and in order, whatever the ranks;
\* the ranks' MoE layers are those of the model.  The last layer of the model
\* is no deepstack level, and every rank has a layer.
CombinesOnce(m, bounds, embeds) ==
  (/\ ~Refused(m, bounds)
   /\ m.deepstack < m.layers
   /\ \A k \in 1..Ranks(bounds) : bounds[k] < bounds[k + 1])
  => /\ Forward(m, bounds, embeds) = EagerState(m, embeds)
     /\ \A k \in 1..Ranks(bounds) :
          LET moe == MoeLayers(m, bounds[k], bounds[k + 1])
          IN  {moe[i] : i \in DOMAIN moe} =
                {l \in bounds[k]..bounds[k + 1] - 1 :
                   \E i \in DOMAIN EagerState(m, FALSE) : IsMoeOutput(EagerState(m, FALSE)[i], l)}
==============================================================================
