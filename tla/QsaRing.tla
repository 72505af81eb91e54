------------------------------- MODULE QsaRing --------------------------------
(***************************************************************************)
(* The index-key caches of a QSA layer, qsa_cache.py and ops/qsa.py: every  *)
(* request keeps its latest raw keys in a ring of one cache block, and each *)
(* CompressRatio of them are pooled into one row of the compressed cache    *)
(* when the step that computes the last of them runs.                       *)
(*                                                                         *)
(* A row of a batch is one request with the position of its first query     *)
(* token; x holds its raw keys by column.  A pooled row is the function     *)
(* from the group's offsets to the keys pooled.                             *)
(***************************************************************************)
EXTENDS Integers

CONSTANTS CompressRatio, NumSpec   \* the assumptions are ModelSteps'

\* Seeded fault: the ring holds one group.
OneGroup == CompressRatio

\* get_kv_cache_spec: the open group and the rows of one speculative step, in
\* whole groups.
RingSize ==
  CompressRatio * ((CompressRatio + NumSpec + CompressRatio - 1) \div CompressRatio)

Offsets == 0..CompressRatio - 1

\* The group whose last position is e, and the positions of its members.
GroupOf(e)   == e \div CompressRatio
Member(g, i) == g * CompressRatio + i
Closes(e)    == (e + 1) % CompressRatio = 0

\* compressed_qsa_slot_mapping: only the last position of a group has a slot.
ClosedGroups(row) ==
  {GroupOf(e) : e \in {p \in row.first..row.first + row.len - 1 : Closes(p)}}

\* _compress_qsa_groups_kernel: the members of this step come from the raw
\* rows, the older ones from the ring.
Pooled(ring, row, x, g) ==
  [i \in Offsets |->
     LET p == Member(g, i) IN
     IF p >= row.first THEN x[p - row.first] ELSE ring[row.slot][p % RingSize]]

\* The pooled rows are stored, then the raw rows.
Compressed(compressed, ring, row, x) ==
  [g \in DOMAIN compressed |->
     IF g \in ClosedGroups(row) THEN Pooled(ring, row, x, g) ELSE compressed[g]]

\* circular_qsa_slot_mapping: only the last RingSize rows of a request are
\* stored, so no two rows of a step share a place of the ring.
Stored(row) ==
  {p \in row.first..row.first + row.len - 1 : p + RingSize >= row.first + row.len}

RingAfter(block, row, x) ==
  [c \in 0..RingSize - 1 |->
     LET here == {p \in Stored(row) : p % RingSize = c} IN
     IF here = {} THEN block[c] ELSE x[(CHOOSE p \in here : TRUE) - row.first]]
==============================================================================
