---------------------------- MODULE MCAlgorithms ----------------------------
(***************************************************************************)
(* The pure parts of the model code and of the calibration tools, compared *)
(* with their reference definitions over bounded inputs: a behaviour picks *)
(* one case of a family and stops.                                         *)
(***************************************************************************)
EXTENDS NGram, PleTable, HyperConnection, RoutedExperts, QsaSelect, Calibration, PleRunner

VARIABLE case

Families == {"ngram", "table", "quant", "ids", "prime", "forward", "capture", "select",
             "splits", "chunks", "calibration", "config", "weights", "registration"}

Init == case \in [family : {"none"}, next : Families]

Pick(c) == case' = c
Open(family) == case.family = "none" /\ case.next = family

Strings(S, n) == UNION {[1..k -> S] : k \in 0..n}

-----------------------------------------------------------------------------
(* N-grams: two requests in any split of their histories, the first with     *)
(* two ordinary tokens and EOS, and up to two tokens of padding.             *)
PickNGram == Open("ngram") /\
  \E long \in Strings({EOS, "a", "b"}, 4), short \in {<<"c">>, <<EOS, "d">>},
     padding \in {<< >>, <<"x">>, <<"x", "y">>}, offload \in BOOLEAN :
    \E from \in 0..Len(long), to \in 0..Len(long), cut \in 0..Len(short) - 1 :
      /\ from < to
      /\ Len(short) - cut + (to - from) + Len(padding) <= MaxTotalTokens
      /\ Pick([family |-> "ngram", padding |-> padding, offload |-> offload,
               requests |-> <<[history |-> long, computed |-> from, upto |-> to],
                              [history |-> short, computed |-> cut, upto |-> Len(short)]>>])

\* A token's n-gram keys do not depend on how its history was cut into steps,
\* on padding, or on whether the GPU or the offload process computes them
\* (Qwen4ExpNGramEmbedding.forward_impl).
NGramKeys ==
  case.family = "ngram" => KeysMatchHistory(case.requests, case.padding, case.offload)

-----------------------------------------------------------------------------
(* PLE table: five rows in two to four shards on one or two ranks, the whole *)
(* checkpoint in one call; the unpacked ones also in two.                    *)
Groupings(tensors, method) ==
  {<<tensors>>} \cup
  IF method = "nvfp4" THEN {}
  ELSE {<<part, tensors \ part>> : part \in SUBSET tensors}

PickTable == Open("table") /\
  \E method \in {"none", "fp8", "nvfp4"}, parts \in 2..4, range \in {<<0, 5>>, <<0, 3>>, <<3, 5>>} :
    \E outers \in [0..parts - 1 -> {7, 9}] :
      LET c == [vocab |-> 5, parts |-> parts, method |-> method, outers |-> outers]
      IN  \E groups \in Groupings(Tensors(c, 0..parts - 1), method) :
            Pick([family |-> "table", c |-> c, groups |-> groups, lo |-> range[1], hi |-> range[2]])

PickQuant == Open("quant") /\
  \E kind \in {"none", "fp8", "modelopt_nvfp4"}, serialized \in BOOLEAN, ignored \in BOOLEAN,
     shardIgnored \in BOOLEAN, fp8Table \in BOOLEAN, heads \in 1..4, headDim \in {8, 16, 24, 32} :
    Pick([family |-> "quant", fp8Table |-> fp8Table, heads |-> heads, headDim |-> headDim,
          q |-> [kind |-> kind, serialized |-> serialized, ignored |-> ignored,
                 shardIgnored |-> shardIgnored]])

\* Every row of a rank's table, and every row the offload process sends, is
\* dequantized to what the checkpoint holds, and shards that disagree about
\* the outer scale are refused (load_weights, _dequantize_embeddings).
TableHoldsCheckpoint ==
  /\ case.family = "table" => RowsOfCheckpoint(case.c, case.groups, case.lo, case.hi)
  /\ case.family = "quant" => RowsFit(case.q, case.fp8Table, case.heads, case.headDim)

PickIds == Open("ids") /\
  \E base \in {2, 3, 6, 12}, layer \in 0..1, heads \in 1..3, divisor \in {1, 8},
     mixed \in {0, 1, 30, 127}, hash \in {0, 5, 63, 127}, vocab \in {1, 3, 20, 63, 64, 100} :
    Pick([family |-> "ids", base |-> base, layer |-> layer, heads |-> heads,
          divisor |-> divisor, mixed |-> mixed, hash |-> hash, vocab |-> vocab])

PickPrime == Open("prime") /\ \E n \in 1..41 : Pick([family |-> "prime", from |-> 50 * (n - 1)])

IsPrime(n) == n >= 2 /\ \A d \in 2..n - 1 : d * d <= n => n % d # 0

\* The ids of a head stay in the head's own rows of the table, no product
\* overflows the word (7 bits here), and Miller-Rabin agrees with the
\* definition of a prime up to 2049 (_is_prime_64, _nth_prime_after, __init__).
HeadsAreDisjoint ==
  /\ case.family = "ids" =>
       IdsStayInHead(case.base, case.layer, case.heads, case.divisor, case.mixed,
                     case.hash, case.vocab, 127)
  /\ case.family = "prime" =>
       \A n \in case.from..case.from + 49 : IsPrime64(n) = IsPrime(n)

-----------------------------------------------------------------------------
(* Hyper-connections: up to four layers on up to three ranks.               *)
Bounds(layers) ==
  {b \in Strings(0..layers, 4) :
     /\ Len(b) >= 2 /\ b[1] = 0 /\ b[Len(b)] = layers
     /\ \A k \in 1..Len(b) - 1 : b[k] <= b[k + 1]}

PickForward == Open("forward") /\
  \E layers \in 1..4, deepstack \in 0..2, embeds \in BOOLEAN, step \in 1..2 :
    \E linear \in {{}, {0, 2}}, ple \in SUBSET (1..layers), dense \in {{}, {1}},
       bounds \in Bounds(layers) :
      Pick([family |-> "forward", bounds |-> bounds, embeds |-> embeds,
            m |-> [layers |-> layers, linear |-> linear, ple |-> ple, dense |-> dense,
                   sparseStep |-> step, experts |-> 4, deepstack |-> deepstack]])

\* The delayed combine is applied exactly once and in order, whatever PLE and
\* deepstack additions interrupt it and wherever a pipeline rank ends
\* (Qwen4ExpModel.forward, Qwen4ExpDecoderLayer.forward).
DelayedCombine ==
  case.family = "forward" => CombinesOnce(case.m, case.bounds, case.embeds)

-----------------------------------------------------------------------------
(* Routed experts: up to three DP ranks of up to four tokens, TP up to 3.   *)
PickCapture == Open("capture") /\
  \E tp \in 1..3, ranks \in 1..3 :
    \E counts \in [1..ranks -> 0..4], layout \in {"single", "naive", "modular", "gathered", "sequence"} :
      /\ layout = "single" => ranks = 1
      /\ layout \in {"gathered", "sequence"} => tp > 1
      /\ Pick([family |-> "capture", layout |-> layout, counts |-> counts, tp |-> tp])

\* capture finds the rows of the rank's own tokens in every layout a MoE layer
\* may see, also where the sizes of two layouts coincide.
CaptureOwnTokens ==
  case.family = "capture" => CapturesOwnTokens(case.layout, case.counts, case.tp)

-----------------------------------------------------------------------------
(* QSA: one request of up to nine tokens, compression ratio 2 or 3, top-k of *)
(* one to three blocks, two-row pages and tiles; and one of fifty tokens, two *)
(* of whose three blocks of 16 make three tiles in two splits. Page tables   *)
(* are permuted; the splits of every profile are cut over wide selections.   *)
TokenTable == <<3, 0, 4, 1, 2>>
TokenCache(pageSize) == [page \in 0..4 |-> [o \in 0..pageSize - 1 |->
                 pageSize * ((CHOOSE i \in 1..5 : TokenTable[i] = page) - 1) + o]]

Selections ==
  [ratio : 2..3, blockTopk : 1..3, length : 1..9, programs : {1, 40}, pageSize : {2}]
    \cup [ratio : {16}, blockTopk : {2}, length : {50}, programs : {1}, pageSize : {16}]

PickSelect == Open("select") /\
  \E s \in Selections : \E qp \in 0..s.length - 1 :
    Pick([family |-> "select", ratio |-> s.ratio, blockTopk |-> s.blockTopk, length |-> s.length,
          qp |-> qp, programs |-> s.programs, pageSize |-> s.pageSize])

PickSplits == Open("splits") /\
  \E width \in {1, 2, 15, 16, 17, 33, 63, 64, 65, 129, 200, 515}, groupSize \in {4, 16},
     programs \in {1, 6, 8, 20, 32, 256, 400, 600} :
    Pick([family |-> "splits", width |-> width, programs |-> programs, groupSize |-> groupSize])

PickChunks == Open("chunks") /\
  \E rows \in 1..9, columns \in {0, 1, 2, 4}, workspace \in {0, 8, 20, 64} :
    Pick([family |-> "chunks", rows |-> rows, columns |-> columns, workspace |-> workspace])

\* A query attends to each token it may see at most once, never to a later
\* one, always to its own open group, and to everything when the selection has
\* room; the scores the top-k reads are those of the blocks; splits and chunks
\* divide the work without gap or overlap (ops/qsa.py).
SelectionIsCausal ==
  /\ case.family = "select" =>
       /\ CausalOnce(case.qp, case.length, case.ratio, case.blockTopk, case.programs,
                     4, TokenCache(case.pageSize), TokenTable, case.pageSize)
       /\ ScoresVisible(case.qp, case.length, case.ratio, case.programs,
                        TokenCache(case.pageSize), TokenTable, case.pageSize, 2)
  /\ case.family = "splits" => SplitsPartition(case.width, case.programs, case.groupSize)
  /\ case.family = "chunks" =>
       LET chunks == Chunks(case.rows, case.columns, case.workspace)
       IN  /\ UNION chunks = 0..case.rows - 1
           /\ \A a, b \in chunks : a = b \/ a \cap b = {}

-----------------------------------------------------------------------------
(* Calibration: two ranks of two layers, one of them a draft layer or of     *)
(* another name; the traffic with the tokenizer on and off the ratio.        *)
Dumps(c) ==
  [r \in 0..c.files - 1 |-> RankDump(c.peaks[r], c.traffic.calls)]

CalibrationPoints ==
  [before : {0, 7, 1992}, prefill : {2048, 8192}, gen : {1, 64}, actual : {120, 126}, files : 1..2,
   other : {"q1", "mtp"}, margin : {99, 100, 110}, rank : 0..1, peak : {0, 5, 999},
   value : {Bad, 5}, extra : SUBSET {"draft"}]

TrafficAt(p) == Traffic(p.before, p.prefill, [i \in 1..Len(Arms) |-> p.gen], 126, p.actual)
LastCall(p) == IF TrafficAt(p).ok THEN TrafficAt(p).deep - p.peak ELSE 1

PeaksAt(p) ==
  [r \in 0..1 |->
     [name \in {"q0", IF r = 1 THEN p.other ELSE "q1"} \cup p.extra |->
        [call |-> LastCall(p), k |-> IF r = p.rank THEN p.value ELSE 2, v |-> 3]]]

PickCalibration == Open("calibration") /\
  \E p \in CalibrationPoints :
    Pick([family |-> "calibration", traffic |-> TrafficAt(p), peaks |-> PeaksAt(p),
          files |-> p.files, margin |-> p.margin])

PickConfig == Open("config") /\
  \E top \in {<<"arch", "text_config">>, <<KEY, "arch", "text_config">>,
              <<"arch", "text_config", KEY>>, <<"arch">>},
     text \in {<< >>, <<"hidden">>, <<KEY, "hidden">>, <<"hidden", KEY>>}, val \in {VAL, "bf16"},
     linked \in BOOLEAN :
    Pick([family |-> "config", linked |-> linked,
          config |-> [top  |-> [i \in DOMAIN top |-> [key |-> top[i], val |-> VAL]],
                      text |-> [i \in DOMAIN text |-> [key |-> text[i], val |-> val]]]])

\* A sidecar that is written covers all traffic up to the deepest prompt on
\* every rank, or nothing is written (qsa_calib_traffic.py, qsa_calib_merge.py);
\* the serving copy differs in one key and the published file survives any
\* interruption of the edit (make-e1-config.py).
CalibrationIsSafe ==
  /\ (case.family = "calibration" /\ case.traffic.ok) =>
       SidecarCovers(case.traffic, case.peaks, Dumps(case), 2, 2, case.margin)
  /\ case.family = "config" => OneKeyChanges(case.config, case.linked)

-----------------------------------------------------------------------------
(* The runner of the PLE offload: two modules and tensors of three, mapped   *)
(* to none, one or two names; two to five registrations of up to four ranks. *)
Ple1 == <<"layers", "1", "ple">>
Ple2 == <<"layers", "10", "ple">>
Params(layers) == {Append(l, "weight") : l \in layers} \cup
                  {Append(l, "scale") : l \in layers \ {Ple1}}
Mappings == {<< >>, <<<<"layers", "1", "mlp", "weight">>>>} \cup
            {<<p>> : p \in Params({Ple1, Ple2})} \cup
            {<<<<"layers", "1", "mlp", "weight">>, p>> : p \in Params({Ple1})}

PickWeights == Open("weights") /\
  \E layers \in SUBSET {Ple1, Ple2}, mappings \in SUBSET Mappings :
    Pick([family |-> "weights", model |-> [layers |-> layers, params |-> Params(layers)],
          checkpoint |-> {[mapped |-> m] : m \in mappings}])

PickRegistration == Open("registration") /\
  \E dp \in 1..2, tp \in 1..2, n \in 1..5, odd \in 0..5 :
    \E ranks \in [1..n -> (0..dp - 1) \X (0..tp - 1)] :
      Pick([family |-> "registration", dp |-> dp, tp |-> tp,
            items |-> [i \in 1..n |-> [dp |-> ranks[i][1], tp |-> ranks[i][2],
                                       layers |-> IF i = odd THEN {"a"} ELSE {"a", "b"}]]])

\* The offload process says READY only with weights for every parameter and
\* with one destination per layer and TP rank of every DP rank, in TP order,
\* whatever the order of arrival (_load_weights, accept_registrations).
RunnerIsComplete ==
  /\ case.family = "weights" => LoadsItsLayers(case.model, case.checkpoint)
  /\ case.family = "registration" =>
       TargetsComplete(case.items, case.dp, case.tp, {"a", "b"})

-----------------------------------------------------------------------------
Next ==
  \/ PickNGram \/ PickTable \/ PickQuant \/ PickIds \/ PickPrime \/ PickForward \/ PickCapture
  \/ PickSelect \/ PickSplits \/ PickChunks \/ PickCalibration \/ PickConfig
  \/ PickWeights \/ PickRegistration

Spec == Init /\ [][Next]_case
=============================================================================
