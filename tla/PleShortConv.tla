---------------------------- MODULE PleShortConv -----------------------------
(***************************************************************************)
(* The dilated short convolution of a PLE layer, ple_layer.py: the cached   *)
(* state of a request is the last StateLen inputs of its own channel, plus  *)
(* room for the drafts of one speculative step.                             *)
(*                                                                         *)
(* A row of a batch is one request: its cache slot, its number of query     *)
(* tokens, whether it takes the speculative path, whether it has computed   *)
(* tokens already, and how many tokens its previous step accepted.  Inputs  *)
(* are tokens, and an output is the tuple of inputs under the filter's taps.*)
(* Columns and cache positions count from 0, batch rows from 1.             *)
(***************************************************************************)
EXTENDS Integers, Sequences, FiniteSets, SequencesExt

CONSTANTS Kernel, Dilation, NumSpec, NullSlot

ASSUME ConvAssumption ==
  /\ Kernel \in Nat \ {0, 1}
  /\ Dilation \in Nat \ {0}
  /\ NumSpec \in Nat

Zero == <<0, 0, 0>>

StateLen == (Kernel - 1) * Dilation
Capacity == StateLen + NumSpec
MaxQuery == NumSpec + 1

-----------------------------------------------------------------------------
(* One row.                                                                *)

\* Seeded fault: the speculative path starts at the accepted count itself.
LateRollback(row) ==
  IF row.spec THEN IF row.accepted < MaxQuery THEN row.accepted ELSE NumSpec ELSE 0

\* The speculative path reads the state behind the tokens the previous step
\* accepted: num_accepted_tokens - 1, clamped to 0..max_len - 1.
Rollback(row) ==
  LET wanted == row.accepted - 1 IN
  IF ~row.spec \/ wanted < 0 THEN 0
  ELSE IF wanted > MaxQuery - 1 THEN MaxQuery - 1 ELSE wanted

\* A row without computed tokens, or of the null slot, starts from zeros.
HasState(row) == row.slot # NullSlot /\ (row.spec \/ row.initial)

History(state, row, x) ==
  [i \in 0..StateLen + row.len - 1 |->
     IF i >= StateLen THEN x[i - StateLen]
     ELSE IF HasState(row) THEN state[row.slot][Rollback(row) + i]
     ELSE Zero]

\* conv1d: the taps are Dilation apart; a row of the null slot yields zeros.
RowOutput(state, row, x) ==
  LET history == History(state, row, x)
  IN  [i \in 1..row.len |->
         [k \in 1..Kernel |->
            IF row.slot = NullSlot THEN Zero
            ELSE history[i - 1 + (k - 1) * Dilation]]]

\* Seeded fault: the slot is replaced by the base window alone.
BaseState(state, row, x) ==
  [i \in 0..StateLen - 1 |->
     IF row.slot # NullSlot THEN History(state, row, x)[row.len + i]
     ELSE state[row.slot][i]]

\* What is written back: the last StateLen inputs, or for a speculative row
\* every window its drafts may be rolled back to; the rest of the slot, and
\* the null slot, keep what they hold.
NextState(state, row, x) ==
  LET history == History(state, row, x)
      shift   == IF row.spec THEN 1 ELSE row.len
      valid   == IF row.spec THEN StateLen + row.len - 1 ELSE StateLen
  IN  [i \in 0..Capacity - 1 |->
         IF row.slot # NullSlot /\ i < valid THEN history[shift + i]
         ELSE state[row.slot][i]]

-----------------------------------------------------------------------------
(* The batch: rows are grouped spec | decode | prefill, tokens likewise.    *)

Group(row) == IF row.spec THEN 0 ELSE IF row.len = 1 THEN 1 ELSE 2

\* The place of entry i when the entries are stably sorted by group.
Place(groups, i) ==
  Cardinality({j \in DOMAIN groups :
                 groups[j] < groups[i] \/ (groups[j] = groups[i] /\ j <= i)})

\* argsort: the indices of a sequence of group numbers, stably sorted.
Grouped(groups) ==
  [p \in DOMAIN groups |-> CHOOSE i \in DOMAIN groups : Place(groups, i) = p]

\* The rows, and the places of their tokens, in the order of the groups.
SortedRows(rows) ==
  LET order == Grouped([i \in DOMAIN rows |-> Group(rows[i])])
  IN  [k \in DOMAIN rows |-> rows[order[k]]]

TokenOrder(rows) ==
  Grouped(FlattenSeq([i \in DOMAIN rows |->
                        [j \in 1..rows[i].len |-> Group(rows[i])]]))

\* query_start_loc, a cumulative sum: the tokens in front of every row.
QueryStartLoc(rows) ==
  LET loc[k \in 1..Len(rows) + 1] ==
        IF k = 1 THEN 0 ELSE loc[k - 1] + rows[k - 1].len
  IN  loc

\* The inputs that reach the rows of the sorted batch.
RowInputs(rows, x) ==
  LET order  == TokenOrder(rows)
      sorted == SortedRows(rows)
  IN  [k \in DOMAIN rows |->
         [j \in 0..sorted[k].len - 1 |-> x[order[QueryStartLoc(sorted)[k] + j + 1]]]]

\* _short_conv_dilated_dispatch: the outputs, back in the order of the batch.
Convolved(state, rows, x) ==
  LET sorted  == SortedRows(rows)
      inputs  == RowInputs(rows, x)
      order   == TokenOrder(rows)
      outputs == FlattenSeq([k \in DOMAIN rows |-> RowOutput(state, sorted[k], inputs[k])])
  IN  [t \in DOMAIN x |-> outputs[CHOOSE k \in DOMAIN order : order[k] = t]]

\* ... and the cache: index_copy_ of every row to its slot.
Retained(state, rows, x) ==
  LET sorted == SortedRows(rows)
      inputs == RowInputs(rows, x)
  IN  [s \in DOMAIN state |->
         LET writers == {k \in DOMAIN rows : sorted[k].slot = s}
             k == CHOOSE w \in writers : TRUE
         IN  IF writers = {} THEN state[s] ELSE NextState(state, sorted[k], inputs[k])]
==============================================================================
