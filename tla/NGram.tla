-------------------------------- MODULE NGram --------------------------------
(***************************************************************************)
(* The n-gram keys of the PLE embedding, Qwen4ExpNGramEmbedding of         *)
(* ple_layer.py: one flat batch of tokens is scattered into one row per    *)
(* request, the context of each request is put before its row, the rows    *)
(* are shifted inside the segments EOS delimits, and every token gets one  *)
(* key per n-gram length.  The hash of a key is the key itself here; where *)
(* a head's hash may land is in PleTable.                                  *)
(*                                                                         *)
(* Rows are sequences, so columns start at 1; positions in the flat batch  *)
(* start at 0 as in the code.                                              *)
(***************************************************************************)
EXTENDS Integers, Sequences, FiniteSets, FiniteSetsExt, SequencesExt

CONSTANTS
  NgramSize,      \* config.ngram_size
  EOS,            \* config.eos_token_id
  MaxTotalTokens  \* max_num_batched_tokens: the width of the workspace

NgramSizeAssumption == NgramSize \in Nat /\ NgramSize >= 2
ASSUME NgramSizeAssumption

MaxTotalTokensAssumption == MaxTotalTokens \in Nat
ASSUME MaxTotalTokensAssumption

\* _shift_precompute: how far each column is into the segment that starts
\* after the last EOS before it.
PositionInSegment(row) ==
  [p \in DOMAIN row |->
     p - 1 - Max({q \in 1..p - 1 : row[q] = EOS} \cup {0})]

\* _shift_apply: the token `shift` columns earlier, EOS where that column is
\* outside the row or the segment.
Shifted(row, shift) ==
  IF shift = 0 THEN row
  ELSE LET segment == PositionInSegment(row)
       IN  [p \in DOMAIN row |->
              IF p - shift >= 1 /\ segment[p] >= shift THEN row[p - shift] ELSE EOS]

\* The tokens that are hashed for the n-gram that ends in column p.
Key(shifted, p, ngram) == [s \in 1..ngram |-> shifted[s][p]]

-----------------------------------------------------------------------------
(* forward_impl.  A batch is [start |-> query_start_loc, ids |-> input_ids, *)
(* context |-> ngram_context]; start[r] is the offset of request r.         *)

NumReqs(batch)   == Len(batch.start) - 1
NumTokens(batch) == Len(batch.ids)

\* searchsorted(query_start_loc, positions, right=True) - 1, clamped.
RequestOf(batch, pos) ==
  Min({Cardinality({i \in DOMAIN batch.start : batch.start[i] <= pos}),
       NumReqs(batch)})

\* The width of the rows and the tokens that are scattered: the CPU-offload
\* process narrows both to the real tokens, the GPU path takes all of them.
Width(batch, offload) ==
  IF offload
  THEN Max({1} \cup {batch.start[r + 1] - batch.start[r] : r \in 1..NumReqs(batch)})
  ELSE MaxTotalTokens

\* Seeded fault: the padding of the graph is scattered in the offload process too.
PaddedTokens(batch, offload) == NumTokens(batch)

ValidTokens(batch, offload) ==
  IF offload THEN Min({batch.start[NumReqs(batch) + 1], NumTokens(batch)})
  ELSE NumTokens(batch)

Column(batch, offload, pos) ==
  LET column == pos - batch.start[RequestOf(batch, pos)]
  IN  1 + Max({0, Min({column, Width(batch, offload) - 1})})

\* The rows the scatter can leave: where several tokens meet in one column,
\* any of them may be the one that is kept.
Writers(batch, offload, r, c) ==
  {pos \in 0..ValidTokens(batch, offload) - 1 :
     RequestOf(batch, pos) = r /\ Column(batch, offload, pos) = c}

Cells(batch, offload, r, c) ==
  LET writers == Writers(batch, offload, r, c)
  IN  IF writers = {} THEN {EOS} ELSE {batch.ids[pos + 1] : pos \in writers}

AnyBehind(rows, ids) == {Append(row, id) : row \in rows, id \in ids}

Packed(batch, offload, r) ==
  LET rows[c \in 0..Width(batch, offload)] ==
        IF c = 0 THEN {<< >>}
        ELSE AnyBehind(rows[c - 1], Cells(batch, offload, r, c))
  IN  rows[Width(batch, offload)]

\* The keys of the token in column p of a row, of every n-gram length.
KeysAt(row, p) ==
  LET shifted == [s \in 1..NgramSize |-> Shifted(row, s - 1)]
  IN  [ngram \in 2..NgramSize |-> Key(shifted, p, ngram)]

\* The keys of the token at a position of the batch, for each row the scatter
\* can leave.
NgramIds(batch, offload, pos) ==
  LET r == RequestOf(batch, pos)
      p == Column(batch, offload, pos) + NgramSize - 1
  IN  {KeysAt(batch.context[r] \o row, p) : row \in Packed(batch, offload, r)}

-----------------------------------------------------------------------------
(* What the model runner hands over, and what the keys have to be.         *)

\* Qwen4ExpModelState._prepare_ngram_context: the tokens before the first one
\* of the step, EOS before the request's beginning.
ContextAt(history, computed) ==
  [k \in 1..NgramSize - 1 |->
     LET i == computed - (NgramSize - 1) + k IN IF i >= 1 THEN history[i] ELSE EOS]

\* A request is [history, computed, upto]: the step runs the tokens after
\* `computed` up to `upto`; padding is what the graph pads the batch with.
StartsOf(requests) ==
  LET start[r \in 1..Len(requests) + 1] ==
        IF r = 1 THEN 0
        ELSE start[r - 1] + (requests[r - 1].upto - requests[r - 1].computed)
  IN  start

IdsOf(requests) ==
  FlattenSeq([r \in DOMAIN requests |->
                SubSeq(requests[r].history, requests[r].computed + 1, requests[r].upto)])

BatchOf(requests, padding) ==
  [start   |-> StartsOf(requests),
   ids     |-> IdsOf(requests) \o padding,
   context |-> [r \in DOMAIN requests |->
                  ContextAt(requests[r].history, requests[r].computed)]]

\* Reference: the key over the whole history.  A token counts when no EOS lies
\* between it and the token the key is for; the token itself may be EOS.
HistoryKey(history, i, ngram) ==
  [s \in 1..ngram |->
     IF i - s + 1 >= 1 /\ \A q \in i - s + 1..i - 1 : history[q] # EOS
     THEN history[i - s + 1] ELSE EOS]

HistoryKeys(history, i) == [ngram \in 2..NgramSize |-> HistoryKey(history, i, ngram)]

\* Every token of a step gets the keys the whole history gives it, however the
\* history was cut into steps, whatever the batch is padded with, on the GPU
\* and in the CPU-offload process.
KeysMatchHistory(requests, padding, offload) ==
  LET batch == BatchOf(requests, padding)
  IN  \A r \in DOMAIN requests :
        \A i \in requests[r].computed + 1..requests[r].upto :
          NgramIds(batch, offload, batch.start[r] + i - requests[r].computed - 1) =
            {HistoryKeys(requests[r].history, i)}
==============================================================================
