------------------------------- MODULE PleTable -------------------------------
(***************************************************************************)
(* The embedding table of a PLE layer, Qwen4ExpNGramEmbedding of           *)
(* ple_layer.py: which rows a head may address, how the checkpoint's       *)
(* shards are put into a tensor-parallel table of each quantization, what  *)
(* a GPU worker keeps of them when the table lives in the CPU-offload      *)
(* process, and how a looked-up row is turned back into numbers.           *)
(*                                                                         *)
(* A row is its number in the checkpoint; Garbage is memory nobody wrote,  *)
(* Missing an attribute nobody has set.                                    *)
(* A dequantized row is what it was computed from: [codes, scales, outer]. *)
(***************************************************************************)
EXTENDS Integers, Sequences, FiniteSets, FiniteSetsExt, Functions

Garbage == -1
Missing == -2
Raise   == [error |-> TRUE]

-----------------------------------------------------------------------------
(* Hash parameters.                                                        *)

SmallPrimes == {2, 3, 5, 7, 11, 13, 17, 19, 23, 29, 31, 37}
Bases       == {2, 325, 9375, 28178, 450775, 9780504, 1795265022}

PowMod(base, exponent, m) ==
  LET p[e \in 0..exponent] ==
        IF e = 0 THEN 1
        ELSE LET h == p[e \div 2]
             IN  IF e % 2 = 0 THEN (h * h) % m ELSE ((h * h) % m) * (base % m) % m
  IN  p[exponent]

\* _is_prime_64: division by the small primes, then Miller-Rabin.  The loop of
\* the code that halves exponent is the largest power of two that divides it.
MillerRabin(value) ==
  LET shifts   == Max({s \in 0..15 : (value - 1) % (2 ^ s) = 0})
      exponent == (value - 1) \div (2 ^ shifts)
      Passes(base) ==
        \/ base % value = 0
        \/ PowMod(base, exponent, value) = 1
        \/ \E r \in 0..shifts - 1 : PowMod(base, exponent * 2 ^ r, value) = value - 1
  IN  \A base \in Bases : Passes(base)

IsPrime64(value) ==
  /\ value >= 2
  /\ IF \E p \in SmallPrimes : value % p = 0 THEN value \in SmallPrimes ELSE MillerRabin(value)

\* _nth_prime_after: Bertrand's postulate bounds the search.
NthPrimeAfter(start, count) ==
  LET prime[n \in 0..count] ==
        IF n = 0 THEN start
        ELSE LET before == prime[n - 1]
             IN  CHOOSE c \in before + 1..2 * before + 2 :
                   IsPrime64(c) /\ \A d \in before + 1..c - 1 : ~IsPrime64(d)
  IN  prime[count]

\* layer_multipliers: odd, and small enough for token * multiplier to fit the
\* signed word; hash is what _splitmix64 returns.
Multiplier(hash, vocab, maxInt) ==
  LET halfBound == Max({1, (maxInt \div vocab) \div 2})
  IN  2 * (hash % halfBound) + 1

\* __init__: the heads of a layer, sizes and offsets; heads count from 0.
HeadSize(base, layer, heads, h) == NthPrimeAfter(base - 1, layer * heads + h + 1)

\* Seeded fault: every head is as large as the first.
EqualOffset(base, layer, heads, h) == h * HeadSize(base, layer, heads, 0)

HeadOffset(base, layer, heads, h) ==
  LET sum[k \in 0..h] ==
        IF k = 0 THEN 0 ELSE sum[k - 1] + HeadSize(base, layer, heads, k - 1)
  IN  sum[h]

PaddedVocab(base, layer, heads, divisor) ==
  LET rows == HeadOffset(base, layer, heads, heads)
  IN  ((rows + divisor - 1) \div divisor) * divisor

\* torch.remainder(mixed, sizes) + offsets
NgramId(mixed, base, layer, heads, h) ==
  (mixed % HeadSize(base, layer, heads, h)) + HeadOffset(base, layer, heads, h)

-----------------------------------------------------------------------------
(* Quantization.                                                           *)

\* _get_ple_embedding_quant_method.  q is the quantization config: its kind,
\* whether the checkpoint is serialized in it, whether it names this prefix
\* as ignored (or excluded), whether it ignores one of its shards; fp8Table
\* tells whether ple_embedding_dtype is float8_e4m3fn.
QuantMethod(q, fp8Table) ==
  CASE q.kind = "fp8" /\ q.serialized /\ ~q.ignored /\ ~q.shardIgnored -> "fp8"
    [] q.kind = "modelopt_nvfp4" /\ q.serialized /\ ~q.ignored         -> "nvfp4"
    [] q.kind = "modelopt_nvfp4" /\ q.serialized /\ q.ignored /\ fp8Table -> "fp8"
    [] OTHER -> "none"

BlockSize == 16

\* create_weights of the two methods: the elements of one row of the table.  A
\* head dimension that is no multiple of the block size is refused there.
RowWidth(method, headDim) ==
  IF method = "nvfp4" THEN headDim \div 2 + headDim \div BlockSize ELSE headDim

HeadDimRefused(method, headDim) == method = "nvfp4" /\ headDim % BlockSize # 0

\* get_offload_output_dtype and get_offload_output_dim.
OffloadDtype(method, default) ==
  CASE method = "nvfp4" -> "uint8" [] method = "fp8" -> "fp8" [] OTHER -> default

OffloadDim(method, dim) ==
  IF method = "nvfp4" THEN dim \div 2 + dim \div BlockSize ELSE dim

-----------------------------------------------------------------------------
(* load_weights.  A weight is [part, shard, rows, outer]: part is "weight", *)
(* "scale" or "outer" for the three tensors of a checkpoint shard, "global" *)
(* for the FP8 scale, "buffer" for a hash buffer, "stats" for a skipped     *)
(* one; rows is the number of rows it has, outer the value of a scale.      *)
(* emb is [vocab, parts, lo, hi]: the table of a rank holds rows lo..hi-1.  *)

\* Seeded fault: the shard size rounds down.
ShardSizeFloor(emb) == emb.vocab \div emb.parts

ShardSize(emb)       == (emb.vocab + emb.parts - 1) \div emb.parts
ShardStart(emb, s)   == s * ShardSize(emb)
ExpectedRows(emb, s) == Max({0, Min({ShardSize(emb), emb.vocab - ShardStart(emb, s)})})

EmptyTable(emb) ==
  LET nothing == [row \in 0..emb.hi - emb.lo - 1 |-> Garbage]
  IN  [error |-> FALSE, codes |-> nothing, scales |-> nothing, outer |-> Garbage,
       loaded |-> {}]

\* copy_ple_embedding_shard_ for every shard of the set: the rows that overlap
\* the rank's range.
CopyShards(emb, table, shards) ==
  [row \in DOMAIN table |->
     LET r == emb.lo + row
     IN  IF \E s \in shards :
              r \in ShardStart(emb, s)..ShardStart(emb, s) + ExpectedRows(emb, s) - 1
         THEN r ELSE table[row]]

PartOf(group, part) == {w \in group : w.part = part}
ShardsOf(ws)        == {w.shard : w \in ws}
\* _get_shared_nvfp4_outer_scale
OuterScales(ws)     == {w.outer : w \in ws}

\* What both tables check of a shard: its index and its number of rows.
WrongShape(emb, ws) ==
  \E w \in ws : w.shard >= emb.parts \/ w.rows # ExpectedRows(emb, w.shard)

BadBuffer(emb, group) == \E w \in PartOf(group, "buffer") : w.rows # 0

\* One call on a table that is kept in its storage dtype: every shard is
\* copied as it comes; the FP8 scale is one of the regular weights.
LoadPlain(emb, table, group) ==
  LET shards == PartOf(group, "weight")
      global == PartOf(group, "global")
  IN  IF BadBuffer(emb, group) \/ WrongShape(emb, shards) THEN Raise
      ELSE [table EXCEPT
              !.codes  = CopyShards(emb, @, ShardsOf(shards)),
              !.outer  = IF global = {} THEN @ ELSE CHOOSE o \in OuterScales(global) : TRUE,
              !.loaded = @ \cup {w.part : w \in shards \cup global}]

\* One call on a packed table: the three tensors of every shard are collected,
\* checked against each other and copied.
LoadPacked(emb, table, group) ==
  LET codes  == PartOf(group, "weight")
      scales == PartOf(group, "scale")
      outers == {w \in PartOf(group, "outer") : w.shard \in ShardsOf(codes)}
  IN  IF \/ BadBuffer(emb, group)
         \/ \E w \in codes \cup scales \cup PartOf(group, "outer") : w.shard >= emb.parts
         \/ codes = {}
         \/ ~(ShardsOf(codes) \subseteq ShardsOf(scales) \cap ShardsOf(outers))
         \/ Cardinality(OuterScales(outers)) # 1
         \/ WrongShape(emb, codes)
         \/ WrongShape(emb, {w \in scales : w.shard \in ShardsOf(codes)})
      THEN Raise
      ELSE [table EXCEPT
              !.codes  = CopyShards(emb, @, ShardsOf(codes)),
              !.scales = CopyShards(emb, @, ShardsOf(codes)),
              !.outer  = CHOOSE o \in OuterScales(outers) : TRUE,
              !.loaded = @ \cup {"weight", "scale", "outer"}]

LoadTable(method, emb, table, group) ==
  IF table.error THEN table
  ELSE IF method = "nvfp4" THEN LoadPacked(emb, table, group)
       ELSE LoadPlain(emb, table, group)

\* One call on a GPU worker whose table is in the CPU-offload process: it keeps
\* the scale and consumes the rest.
LoadRetained(method, kept, group) ==
  LET outers == PartOf(group, "outer")
      global == PartOf(group, "global")
  IN  CASE kept.error -> kept
        [] method = "nvfp4" ->
             IF Cardinality(OuterScales(outers)) # 1 THEN Raise
             ELSE [kept EXCEPT !.outer = CHOOSE o \in OuterScales(outers) : TRUE]
        [] method = "fp8" ->
             [kept EXCEPT !.outer =
                IF global = {} THEN @ ELSE CHOOSE o \in OuterScales(global) : TRUE]
        [] OTHER -> kept

\* initialize_dummy_offload_metadata: scale 1 for the dummy loader.
DummyMetadata(method) ==
  [error |-> FALSE, outer |-> IF method \in {"fp8", "nvfp4"} THEN 1 ELSE Missing]

\* The weights of a module may come in several calls, one per group.
LoadedTable(method, emb, groups) ==
  LET after[n \in 0..Len(groups)] ==
        IF n = 0 THEN EmptyTable(emb) ELSE LoadTable(method, emb, after[n - 1], groups[n])
  IN  after[Len(groups)]

RetainedScale(method, groups) ==
  LET after[n \in 0..Len(groups)] ==
        IF n = 0 THEN [error |-> FALSE, outer |-> Missing]
        ELSE LoadRetained(method, after[n - 1], groups[n])
  IN  after[Len(groups)]

-----------------------------------------------------------------------------
(* Lookup and dequantization.                                              *)

\* What the table hands out for a row it holds, F.embedding or index_select.
Lookup(method, emb, table, r) ==
  [dtype  |-> OffloadDtype(method, "bf16"),
   codes  |-> table.codes[r - emb.lo],
   scales |-> IF method = "nvfp4" THEN table.scales[r - emb.lo] ELSE Garbage]

\* _dequantize_embeddings, with the scale of wherever the layer finds it: the
\* table beside it, or what the GPU worker retained.
Dequantize(method, packed, scaleOwner) ==
  IF method # "nvfp4" /\ packed.dtype # "fp8"
  THEN [codes |-> packed.codes, scales |-> Garbage, outer |-> Garbage]
  ELSE IF scaleOwner.error \/ scaleOwner.outer = Missing THEN Raise
  ELSE [codes |-> packed.codes, scales |-> packed.scales, outer |-> scaleOwner.outer]

\* The row of the checkpoint, read without any of the above.
Reference(method, r, outer) ==
  [codes  |-> r,
   scales |-> IF method = "nvfp4" THEN r ELSE Garbage,
   outer  |-> IF method = "none" THEN Garbage ELSE outer]

-----------------------------------------------------------------------------
(* Properties of one checkpoint, [vocab, parts, method, outers], outers[s]  *)
(* the outer scale of shard s, loaded by a rank that holds lo..hi-1.        *)

Tensors(c, shards) ==
  LET emb  == [vocab |-> c.vocab, parts |-> c.parts, lo |-> 0, hi |-> c.vocab]
      T(part, s, o) == [part |-> part, shard |-> s, rows |-> ExpectedRows(emb, s), outer |-> o]
  IN  {T("weight", s, 0) : s \in shards} \cup
      CASE c.method = "nvfp4" ->
             {T("scale", s, 0) : s \in shards} \cup {T("outer", s, c.outers[s]) : s \in shards}
        [] c.method = "fp8" ->
             {[part |-> "global", shard |-> 0, rows |-> 0, outer |-> c.outers[0]]}
        [] OTHER -> {}

\* A row dequantizes to what the checkpoint says: beside the table as well as
\* on a GPU worker that retained the scale and got the row from the offload
\* process.  Shards whose outer scales differ are refused.
RowsOfCheckpoint(c, groups, lo, hi) ==
  LET emb   == [vocab |-> c.vocab, parts |-> c.parts, lo |-> lo, hi |-> hi]
      table == LoadedTable(c.method, emb, groups)
      kept  == RetainedScale(c.method, groups)
      Differ == c.method = "nvfp4" /\ Cardinality(Range(c.outers)) > 1
  IN  IF Differ THEN table.error /\ kept.error
      ELSE /\ ~table.error /\ ~kept.error
           /\ \A r \in lo..hi - 1, owner \in {table, kept} :
                Dequantize(c.method, Lookup(c.method, emb, table, r), owner) =
                  Reference(c.method, r, c.outers[0])

\* The rows the offload process packs are as wide as those the GPU worker
\* unpacks, and a worker with dummy weights can dequantize them too.
RowsFit(q, fp8Table, heads, headDim) ==
  LET method == QuantMethod(q, fp8Table)
      row    == [dtype |-> OffloadDtype(method, "bf16"), codes |-> 0, scales |-> 0]
  IN  ~HeadDimRefused(method, headDim) =>
        /\ OffloadDim(method, heads * headDim) = heads * RowWidth(method, headDim)
        /\ Dequantize(method, row, DummyMetadata(method)) # Raise

\* Every id a head computes lies in the head's own range of the table, and
\* the token product that is hashed fits the word.
IdsStayInHead(base, layer, heads, divisor, mixed, hash, vocab, maxInt) ==
  /\ (vocab - 1) * Multiplier(hash, vocab, maxInt) <= maxInt
  /\ PaddedVocab(base, layer, heads, divisor) % divisor = 0
  /\ \A h \in 0..heads - 1 :
       LET id == NgramId(mixed, base, layer, heads, h)
       IN  /\ id \in 0..PaddedVocab(base, layer, heads, divisor) - 1
           /\ \A k \in 0..heads - 1 \ {h} :
                id \notin HeadOffset(base, layer, heads, k)..
                          HeadOffset(base, layer, heads, k + 1) - 1
==============================================================================
