---------------------------- MODULE RoutedExperts ----------------------------
(***************************************************************************)
(* Routed-experts capture, routed_experts_capturer.py: how a worker finds   *)
(* the rows of its own tokens in whatever batch the router of a MoE layer   *)
(* sees.                                                                   *)
(*                                                                         *)
(* A row is the token it routes, <<dp rank, index>>, or Pad; ranks count    *)
(* from 0, counts[d + 1] is num_tokens_across_dp_cpu of rank d.             *)
(***************************************************************************)
EXTENDS Integers, Sequences, FiniteSets, SequencesExt

Pad == <<"pad">>

\* The sums of the first 0, 1, 2 ... sizes.
Prefix(sizes) ==
  LET sum[k \in 0..Len(sizes)] == IF k = 0 THEN 0 ELSE sum[k - 1] + sizes[k]
  IN  sum

Total(sizes)       == Prefix(sizes)[Len(sizes)]
CeilDiv(n, k)      == (n + k - 1) \div k
Tokens(counts, d)  == [i \in 1..counts[d + 1] |-> <<d, i>>]
Padded(rows, size) == [i \in 1..size |-> IF i <= Len(rows) THEN rows[i] ELSE Pad]

-----------------------------------------------------------------------------
(* The layouts of topk_ids the docstring of capture lists: what the router  *)
(* of TP rank t of DP rank d sees.                                          *)

\* sp_size rows per TP shard: ceil-div padding.
ShardOf(counts, tp, d, t) ==
  LET size == CeilDiv(counts[d + 1], tp)
  IN  SubSeq(Padded(Tokens(counts, d), size * tp), t * size + 1, (t + 1) * size)

DpRanks(counts) == 0..Len(counts) - 1

RowsSeen(layout, counts, tp, d, t) ==
  CASE layout \in {"single", "modular"} -> Tokens(counts, d)
    [] layout = "naive" ->
         FlattenSeq([k \in 1..Len(counts) |-> Tokens(counts, k - 1)])
    [] layout = "gathered" ->
         FlattenSeq([k \in 1..Len(counts) * tp |->
                       ShardOf(counts, tp, (k - 1) \div tp, (k - 1) % tp)])
    [] layout = "sequence" -> ShardOf(counts, tp, d, t)

\* dp_metadata.local_sizes: set where the shards of every rank are gathered.
LocalSizes(layout, counts, tp) ==
  IF layout = "gathered"
  THEN [k \in 1..Len(counts) * tp |-> CeilDiv(counts[((k - 1) \div tp) + 1], tp)]
  ELSE << >>

-----------------------------------------------------------------------------
(* capture.                                                                *)

\* The branch that matches the batch dimension n, tested in the code's order.
Branch(n, counts, localSizes, tp, d) ==
  LET own == counts[d + 1]
  IN  IF n = Total(counts) THEN "naive"
      ELSE IF n = own THEN "modular"
      ELSE IF localSizes # << >> /\ n = Total(localSizes) THEN "gathered"
      ELSE IF tp > 1 /\ n = CeilDiv(own, tp) THEN "sequence"
      ELSE "unexpected"

\* Seeded fault: the shards are taken to be unpadded.
UnpaddedStart(counts, sizes, d) == Prefix(counts)[d]

\* Where the shards of DP rank d begin among the gathered ones.
GatheredStart(counts, sizes, d) == Prefix(sizes)[d * (Len(sizes) \div Len(counts))]

\* The rows written to device_buffer[:token_num_per_dp, layer]; all_gather
\* over the TP group is what the ranks of d see, put together in order.
Captured(layout, counts, tp, d, t) ==
  LET rows   == RowsSeen(layout, counts, tp, d, t)
      sizes  == LocalSizes(layout, counts, tp)
      own    == counts[d + 1]
      branch == Branch(Len(rows), counts, sizes, tp, d)
      start  == CASE branch = "naive"    -> Prefix(counts)[d + 1] - own
                  [] branch = "gathered" -> GatheredStart(counts, sizes, d)
                  [] OTHER -> 0
      source == IF branch = "sequence"
                THEN FlattenSeq([k \in 1..tp |-> RowsSeen(layout, counts, tp, d, k - 1)])
                ELSE rows
  IN  IF layout = "single" THEN rows
      ELSE IF branch = "unexpected" THEN <<"AssertionError">>
      ELSE SubSeq(source, start + 1, start + own)

\* The output rank of every DP rank captures the routing of its own tokens,
\* in order, in every layout a MoE layer can see; where the batch dimension
\* fits two layouts both give the same rows.
CapturesOwnTokens(layout, counts, tp) ==
  \A d \in DpRanks(counts) : Captured(layout, counts, tp, d, 0) = Tokens(counts, d)
==============================================================================
