------------------------------ MODULE QsaSelect ------------------------------
(***************************************************************************)
(* Sparse attention over the selected tokens, ops/qsa.py: a query row is    *)
(* scored against the compressed keys it may see, the best blocks are       *)
(* expanded to tokens, the tokens are attended to in splits that run in     *)
(* parallel and are merged.                                                *)
(*                                                                         *)
(* Keys and values are the tokens (or blocks) they belong to; a weighted    *)
(* sum of values is the bag of tokens it was taken over, so what counts is   *)
(* that every selected token goes into it once.  Positions, columns, pages,  *)
(* tiles and splits count from 0.                                          *)
(***************************************************************************)
EXTENDS Integers, Sequences, FiniteSets, FiniteSetsExt

\* Beside tokens and blocks: -1 of the code, a masked load, the score of a
\* masked key, a logit no program wrote.
NoToken   == -1
Masked    == -2
MinusInf  == -3
Unwritten == -4

CeilOf(n, k) == (n + k - 1) \div k

\* The row of a paged cache a logical index names through a page table (a
\* sequence of physical pages), or Masked: the mask of every paged load.
PagedLoad(cache, table, pageSize, index) ==
  LET page     == index \div pageSize
      physical == IF page < Len(table) THEN table[page + 1] ELSE -1
  IN  IF index >= 0 /\ physical \in DOMAIN cache
      THEN cache[physical][index % pageSize] ELSE Masked

-----------------------------------------------------------------------------
(* Scoring: qsa_mqa_paged.                                                 *)

\* Blocks of the request that are complete at the query's position.
Visible(qp, length, ratio) == Min({(qp + 1) \div ratio, length \div ratio})

\* Program p of _qsa_mqa_paged_kernel: the columns of its tiles.
ProgramColumns(p, visible, columns, tileWidth, tilesPerProgram) ==
  LET start == p * tilesPerProgram
      end   == Min({start + tilesPerProgram, CeilOf(visible, tileWidth),
                    CeilOf(columns, tileWidth)})
  IN  IF start * tileWidth >= visible THEN {}
      ELSE {c \in start * tileWidth..end * tileWidth - 1 : c < visible /\ c < columns}

\* The row of logits: the key of every column some program wrote.
Logits(cache, table, pageSize, visible, tileWidth, tilesPerProgram) ==
  LET columns  == Len(table) * pageSize
      programs == 0..CeilOf(columns, tileWidth * tilesPerProgram) - 1
      Score(c) == LET key == PagedLoad(cache, table, pageSize, c)
                  IN  IF key = Masked THEN MinusInf ELSE key
  IN  [c \in 0..columns - 1 |->
         IF \E p \in programs :
              c \in ProgramColumns(p, visible, columns, tileWidth, tilesPerProgram)
         THEN Score(c) ELSE Unwritten]

\* qsa_mqa_paged: batches of more than 32 rows give each program eight tiles.
ScoreRow(cache, table, pageSize, qp, length, ratio, rows, tileWidth) ==
  Logits(cache, table, pageSize, Visible(qp, length, ratio), tileWidth,
         IF rows <= 32 THEN 1 ELSE 8)

\* persistent_topk and cooperative_topk: some k of the visible columns, in
\* some order, whatever their scores; what is behind them is not defined.
TopK(visible, k) ==
  LET count == Min({visible, k})
  IN  {b \in [0..k - 1 -> (0..visible - 1) \cup {NoToken}] :
         /\ \A i \in 0..k - 1 : (b[i] # NoToken) = (i < count)
         /\ \A i, j \in 0..count - 1 : b[i] = b[j] => i = j}

\* _expand_qsa_indices_kernel: the blocks' tokens, then the open group's.
ExpandRow(blocks, qp, length, ratio, blockTopk) ==
  LET complete  == Min({Visible(qp, length, ratio), blockTopk})
      expanded  == complete * ratio
      tailStart == ((qp + 1) \div ratio) * ratio
      tailCount == qp + 1 - tailStart
      Token(c)  ==
        IF c < expanded THEN blocks[c \div ratio] * ratio + (c % ratio)
        ELSE IF c - expanded < tailCount /\ c - expanded < ratio - 1
             THEN tailStart + c - expanded ELSE NoToken
  IN  [c \in 0..blockTopk * ratio + ratio - 2 |->
         IF Token(c) \in 0..length - 1 THEN Token(c) ELSE NoToken]

\* qsa_select_paged_tokens: rows are scored in chunks that fit the workspace.
Chunks(rows, columns, workspace) ==
  LET perChunk == Max({1, workspace \div Max({columns * 4, 1})})
  IN  {start..Min({start + perChunk, rows}) - 1 :
         start \in {s \in 0..rows - 1 : s % perChunk = 0}}

-----------------------------------------------------------------------------
(* Attention: qsa_sparse_paged_attention.                                  *)

\* 2 to the power of bit_length - 1
FloorPowerOf2(n) ==
  LET power[k \in 0..30] == IF k = 0 THEN 1 ELSE 2 * power[k - 1]
  IN  Max({power[k] : k \in {k \in 0..30 : power[k] <= n}})

\* The tuning profile: tile width and wished splits.
Profile(programs, groupSize) ==
  LET small == IF groupSize <= 8 THEN 8 ELSE 4
  IN  CASE programs <= small -> [tile |-> 16, splits |-> 64]
        [] programs > small /\ programs < 32 -> [tile |-> 16, splits |-> 32]
        [] programs >= 32 /\ programs <= 256 -> [tile |-> 64, splits |-> 8]
        [] programs > 256 /\ programs <= 512 -> [tile |-> 64, splits |-> 4]
        [] OTHER -> [tile |-> 64, splits |-> 1]

NumSplits(width, profile) ==
  Min({FloorPowerOf2(CeilOf(width, profile.tile)), profile.splits})

\* Seeded fault: every split gets the same number of tiles.
EvenColumns(split, splits, width, tile) ==
  LET each == (CeilOf(width, tile) \div splits) * tile
  IN  {c \in split * each..(split + 1) * each - 1 : c < width}

\* _qsa_sparse_paged_gqa_splitk_kernel: the columns of one split, and the
\* tokens it attends to, one entry per column.
SplitColumns(split, splits, width, tile) ==
  LET tiles == CeilOf(width, tile)
  IN  {c \in ((split * tiles) \div splits) * tile..
             (((split + 1) * tiles) \div splits) * tile - 1 : c < width}

SplitPartial(selected, columns, cache, table, pageSize) ==
  {<<c, PagedLoad(cache, table, pageSize, selected[c])>> : c \in
     {c \in columns : PagedLoad(cache, table, pageSize, selected[c]) # Masked}}

\* _qsa_merge_splitk_kernel: a split without values has weight 0.
Merge(partials) == UNION partials

Attended(selected, programs, groupSize, cache, table, pageSize) ==
  LET width   == Cardinality(DOMAIN selected)
      profile == Profile(programs, groupSize)
      splits  == NumSplits(width, profile)
  IN  Merge({SplitPartial(selected, SplitColumns(s, splits, width, profile.tile),
                          cache, table, pageSize) : s \in 0..splits - 1})

-----------------------------------------------------------------------------
(* Properties.                                                             *)

\* What the query at qp of a request of `length` tokens attends to: with room
\* for every complete block all tokens up to its own, otherwise the tokens of
\* some blocks and of the open group; never a later token, never one twice.
CausalOnce(qp, length, ratio, blockTopk, programs, groupSize, cache, table, pageSize) ==
  LET visible == Visible(qp, length, ratio)
      open    == ((qp + 1) \div ratio) * ratio..qp
  IN  \A blocks \in TopK(visible, blockTopk) :
        LET read   == Attended(ExpandRow(blocks, qp, length, ratio, blockTopk),
                               programs, groupSize, cache, table, pageSize)
            tokens == {entry[2] : entry \in read}
        IN  /\ Cardinality(read) = Cardinality(tokens)
            /\ tokens \subseteq 0..qp
            /\ open \subseteq tokens
            /\ Cardinality(tokens) =
                 Cardinality(open) + ratio * Min({visible, blockTopk})
            /\ \A t \in tokens \ open :
                 {u \in 0..qp : u \div ratio = t \div ratio} \subseteq tokens

\* Every block the top-k may pick was scored with its own compressed key, in
\* however many programs and chunks the rows are scored.
ScoresVisible(qp, length, ratio, rows, cache, table, pageSize, tileWidth) ==
  LET logits == ScoreRow(cache, table, pageSize, qp, length, ratio, rows, tileWidth)
  IN  \A c \in 0..Visible(qp, length, ratio) - 1 : logits[c] = c

\* The splits divide the columns among them, none twice and none empty.
SplitsPartition(width, programs, groupSize) ==
  LET profile == Profile(programs, groupSize)
      splits  == NumSplits(width, profile)
      Columns(s) == SplitColumns(s, splits, width, profile.tile)
  IN  /\ UNION {Columns(s) : s \in 0..splits - 1} = 0..width - 1
      /\ \A s \in 0..splits - 1 :
           Columns(s) # {} /\ \A t \in 0..s - 1 : Columns(s) \cap Columns(t) = {}
==============================================================================
