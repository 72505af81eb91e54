------------------------------ MODULE ModelSteps ------------------------------
(***************************************************************************)
(* Requests going through the steps of the model: chunked prefill, decode,  *)
(* speculative decode with drafts that are accepted or rejected, preemption *)
(* and recomputation, with the two caches the model keeps per request       *)
(* beside the KV cache: the short-conv state of a PLE layer and the index   *)
(* keys of a QSA layer.                                                     *)
(*                                                                         *)
(* The scheduler and the model runner are external: a step is any batch     *)
(* they may hand to the model.  The true token of request r at position p   *)
(* is <<r, p, 1>>, a rejected draft at that position <<r, p, 0>>.           *)
(***************************************************************************)
EXTENDS PleShortConv

CONSTANTS CompressRatio, NumRequests, Slots, Prompt, Limit, Chunks,
          DraftlessSteps

ASSUME StepsAssumption ==
  /\ CompressRatio \in Nat \ {0}
  /\ NumRequests \in Nat
  /\ NullSlot \notin Slots
  /\ Prompt \in [1..NumRequests -> Nat \ {0}]
  /\ Limit \in [1..NumRequests -> Nat]
  /\ Chunks \subseteq Nat \ {0}
  /\ DraftlessSteps \in BOOLEAN

Qsa == INSTANCE QsaRing

Requests == 1..NumRequests
Garbage  == <<0, 1, 0>>

\* Every group request r can reach.
Groups(r) == 0..Limit[r] \div CompressRatio

TrueToken(r, p) == IF p < 0 THEN Zero ELSE <<r, p, 1>>
WrongToken(r, p) == <<r, p, 0>>

VARIABLES
  total,       \* tokens of the request, prompt and generated
  computed,    \* num_computed_tokens
  accepted,    \* num_accepted_tokens of the request's last step
  slot,        \* its cache block, NullSlot while it has none
  conv,        \* the PLE short-conv cache
  ring,        \* the QSA compressor-state cache
  compressed   \* the QSA compressed-key cache, by request and group

vars == <<total, computed, accepted, slot, conv, ring, compressed>>

Init ==
  /\ total = Prompt
  /\ computed = [r \in Requests |-> 0]
  /\ accepted = [r \in Requests |-> 1]
  /\ slot = [r \in Requests |-> NullSlot]
  /\ conv = [s \in Slots \union {NullSlot} |-> [i \in 0..Capacity - 1 |-> Garbage]]
  /\ ring = [s \in Slots |-> [c \in 0..Qsa!RingSize - 1 |-> Garbage]]
  /\ compressed = [r \in Requests |-> [g \in Groups(r) |-> [i \in Qsa!Offsets |-> Garbage]]]

-----------------------------------------------------------------------------
(* The scheduler.                                                          *)

\* A waiting request gets a block, whatever was left in it.
Admit(r) ==
  /\ slot[r] = NullSlot
  /\ total[r] < Limit[r]
  /\ \E s \in Slots : /\ \A q \in Requests : slot[q] # s
                      /\ slot' = [slot EXCEPT ![r] = s]
  /\ UNCHANGED <<total, computed, accepted, conv, ring, compressed>>

\* A preempted request loses its blocks and is computed again from position
\* 0; a finished one only leaves.
Release(r) ==
  /\ slot[r] # NullSlot
  /\ slot' = [slot EXCEPT ![r] = NullSlot]
  /\ computed' = [computed EXCEPT ![r] = 0]
  /\ accepted' = [accepted EXCEPT ![r] = 1]
  /\ compressed' = [compressed EXCEPT ![r] = [g \in Groups(r) |-> [i \in Qsa!Offsets |-> Garbage]]]
  /\ UNCHANGED <<total, conv, ring>>

BatchRow(r, len, drafts, good) ==
  [req |-> r, slot |-> slot[r], first |-> computed[r], len |-> len,
   spec |-> drafts >= 0, initial |-> computed[r] > 0, accepted |-> accepted[r],
   good |-> good]

\* The tokens that are not computed yet, or a chunk of them that fits the
\* budget of the step; the token sampled last is a chunk of one.
PlainRows(r) ==
  LET pending == total[r] - computed[r] IN
  {BatchRow(r, n, -1, n) :
     n \in {m \in Chunks \union {pending} :
              m <= pending /\ (DraftlessSteps \/ accepted[r] = 1)}}

\* The token sampled last and its drafts, of which there may be none, on the
\* speculative path; `good` tokens of the row stay.
SpecRows(r) ==
  IF computed[r] = 0 \/ total[r] # computed[r] + 1 THEN {}
  ELSE {BatchRow(r, n + 1, n, good) :
          n \in 0..NumSpec, good \in {g \in 1..NumSpec + 1 : total[r] + g <= Limit[r]}}

Rows(r) ==
  IF slot[r] = NullSlot \/ total[r] >= Limit[r] THEN {}
  ELSE {row \in PlainRows(r) \union SpecRows(r) : row.good <= row.len}

\* A row of a full CUDA graph that stands for no request.
PadRow(spec) ==
  [req |-> 0, slot |-> NullSlot, first |-> 0, len |-> IF spec THEN 0 ELSE 1,
   spec |-> spec, initial |-> FALSE, accepted |-> 1, good |-> 0]

\* The runner puts the decodes of a batch without drafts in front; the rows of
\* a batch with drafts come in any order.
InOrder(rows) ==
  \/ \E i \in DOMAIN rows : rows[i].spec
  \/ \A i, j \in DOMAIN rows : i < j => Group(rows[i]) <= Group(rows[j])

\* A uniform batch may be padded to the size of a captured graph.
Padded(rows) ==
  {rows} \union
  (IF \A i \in DOMAIN rows : rows[i].spec THEN {Append(rows, PadRow(TRUE))} ELSE {}) \union
  (IF \A i \in DOMAIN rows : Group(rows[i]) = 1 THEN {Append(rows, PadRow(FALSE))} ELSE {})

-----------------------------------------------------------------------------
(* A step of the model.                                                    *)

Input(row) ==
  [j \in 0..row.len - 1 |->
     IF row.req = 0 THEN Garbage
     ELSE IF j < row.good THEN TrueToken(row.req, row.first + j)
     ELSE WrongToken(row.req, row.first + j)]

Inputs(rows) ==
  FlattenSeq([i \in DOMAIN rows |-> [j \in 1..rows[i].len |-> Input(rows[i])[j - 1]]])

\* The rows of request r in the batch: one or none.
RowsOf(rows, r) == {i \in DOMAIN rows : rows[i].req = r}

RunBatch(rows) ==
  LET x       == Inputs(rows)
      In(r)   == RowsOf(rows, r) # {}
      Row(r)  == rows[CHOOSE i \in RowsOf(rows, r) : TRUE]
  IN
  /\ conv' = Retained(conv, rows, x)
  /\ compressed' = [r \in Requests |->
                      IF In(r)
                      THEN Qsa!Compressed(compressed[r], ring, Row(r), Input(Row(r)))
                      ELSE compressed[r]]
  /\ ring' = [s \in Slots |->
                LET here == {i \in DOMAIN rows : rows[i].slot = s}
                    row  == rows[CHOOSE i \in here : TRUE]
                IN  IF here = {} THEN ring[s]
                    ELSE Qsa!RingAfter(ring[s], row, Input(row))]
  /\ computed' = [r \in Requests |-> computed[r] + IF In(r) THEN Row(r).good ELSE 0]
  /\ accepted' = [r \in Requests |->
                    IF ~In(r) THEN accepted[r] ELSE IF Row(r).spec THEN Row(r).good ELSE 1]
  /\ total' = [r \in Requests |->
                 IF ~In(r) THEN total[r]
                 ELSE IF Row(r).spec THEN total[r] + Row(r).good
                 ELSE IF computed[r] + Row(r).good = total[r] THEN total[r] + 1
                 ELSE total[r]]
  /\ UNCHANGED slot

\* The batches of distinct requests, in every order the runner may give them.
Batches ==
  LET AllRows == UNION {Rows(r) : r \in Requests}
      Distinct(rows) == \A i, j \in DOMAIN rows : rows[i].req = rows[j].req => i = j
  IN  UNION {{rows \in [1..n -> AllRows] : Distinct(rows) /\ InOrder(rows)} :
             n \in 1..NumRequests}

\* With the padding rows of a captured graph.
ModelBatches == UNION {Padded(rows) : rows \in Batches}

Step == \E rows \in ModelBatches : RunBatch(rows)

Next ==
  \/ \E r \in Requests : Admit(r) \/ Release(r)
  \/ Step

Spec == Init /\ [][Next]_vars

-----------------------------------------------------------------------------

TypeOK ==
  /\ \A r \in Requests : total[r] \in Nat \ {0} /\ computed[r] \in 0..total[r]
  /\ accepted \in [Requests -> 1..MaxQuery]
  /\ slot \in [Requests -> Slots \union {NullSlot}]
  /\ \A s \in Slots \union {NullSlot} : DOMAIN conv[s] = 0..Capacity - 1
  /\ \A s \in Slots : DOMAIN ring[s] = 0..Qsa!RingSize - 1

\* Whatever batch comes next, the convolution of every token that stays sees
\* that request's own inputs: however its tokens were cut into chunks and
\* speculative steps, whatever drafts were rejected in between, wherever its
\* row stands in a mixed batch and whatever the slot held before.
ConvSeesOwnHistory ==
  \A rows \in ModelBatches :
    LET outputs == Convolved(conv, rows, Inputs(rows))
    IN  \A i \in DOMAIN rows : \A j \in 1..rows[i].good :
          outputs[QueryStartLoc(rows)[i] + j] =
            [k \in 1..Kernel |->
               TrueToken(rows[i].req,
                         rows[i].first + j - 1 - StateLen + (k - 1) * Dilation)]

\* A compressed key of a complete group pools the keys of that group of that
\* request and no rejected draft's.
GroupsPoolOwnKeys ==
  \A r \in Requests : \A g \in Groups(r) :
    (g + 1) * CompressRatio <= computed[r] =>
      compressed[r][g] = [i \in Qsa!Offsets |-> TrueToken(r, Qsa!Member(g, i))]
==============================================================================
