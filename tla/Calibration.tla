----------------------------- MODULE Calibration -----------------------------
(***************************************************************************)
(* The calibration of the FP8 KV scales and the serving copy of the        *)
(* checkpoint: the traffic script and the collector it drives              *)
(* (calib/qsa_calib_traffic.py), the merge of the ranks' dumps into the    *)
(* sidecar (calib/qsa_calib_merge.py), and the edit of config.json         *)
(* (scripts/make-e1-config.py).                                            *)
(*                                                                         *)
(* A maximum is a natural number; Bad stands for a value that is not a     *)
(* positive finite number.                                                 *)
(***************************************************************************)
EXTENDS Integers, Sequences, FiniteSets, FiniteSetsExt

Fail == [ok |-> FALSE]
Bad  == -1

-----------------------------------------------------------------------------
(* The traffic.  A forward is one call of the collector for every layer.    *)

QsaLayers   == 12
DumpPeriod  == 2000  \* calls between two dumps
DeepestMin  == 250000
Arms        == <<2000, 8000, 32000, 2000, 8000, 128000, 200000, 255000>>
TextArms    == {6, 7, 8}  \* the arms the deepest prompt is taken from
FlushOnce     == 64       \* mutant: one completion flushes
FlushForwards == 12 * 64  \* completions forced to 64 tokens: 1 prefill, 63 decodes

\* words_for and the server's own count: wordsPer and tokensPer are tokens per
\* hundred words, as RATIO says and as the tokenizer does.
PromptTokens(tokens, ratio, actual) == (((tokens * 100) \div ratio) * actual) \div 100

\* What the script and the collector have done: the calls up to the end of each
\* arm, and all of them.  `before` are calls of the engine's own warm-up, prefill
\* the tokens of one forward, decodes[i] the decode forwards of arm i.
ArmForwards(i, prefill, decodes) == (Arms[i] + prefill - 1) \div prefill + decodes[i]

CallsAfter(i, before, prefill, decodes) ==
  LET sum[k \in 0..i] ==
        IF k = 0 THEN before
        ELSE sum[k - 1] + QsaLayers * ArmForwards(k, prefill, decodes)
  IN  sum[i]

Traffic(before, prefill, decodes, ratio, actual) ==
  LET deepest == Max({PromptTokens(Arms[i], ratio, actual) : i \in TextArms})
      deep    == CallsAfter(Len(Arms), before, prefill, decodes)
  IN  IF deepest < DeepestMin THEN Fail
      ELSE [ok |-> TRUE, deep |-> deep, calls |-> deep + QsaLayers * FlushForwards]

\* _qsa_collect_absmax dumps its running maxima at every multiple of the
\* period: the calls the last dump on disk has seen.
Dumped(calls) == calls - (calls % DumpPeriod)

\* The dump of a rank: per layer the maximum over the calls it has seen.
\* peaks[r][name] is [call, k, v]: the call that reaches the maximum of a layer.
RankDump(peaks, calls) ==
  [name \in DOMAIN peaks |->
     IF peaks[name].call <= Dumped(calls)
     THEN [k |-> peaks[name].k, v |-> peaks[name].v] ELSE [k |-> 1, v |-> 1]]

-----------------------------------------------------------------------------
(* qsa_calib_merge.py.                                                     *)

\* dumps is a set of rank files, [rank -> dump]; the margin is in hundredths.
Good(value) == value > 0

Merged(dumps, ranks) ==
  LET names == UNION {DOMAIN dumps[r] : r \in 0..ranks - 1}
      With(name) == {r \in 0..ranks - 1 : name \in DOMAIN dumps[r]}
  IN  [name \in names |-> [k |-> Max({dumps[r][name].k : r \in With(name)}),
                           v |-> Max({dumps[r][name].v : r \in With(name)})]]

\* main: every check that exits, then the scales, here times 448 * 100.
Sidecar(dumps, ranks, layers, margin) ==
  IF \/ ranks < 1 \/ layers < 1
     \/ margin \notin 100..200
     \/ ~(0..ranks - 1 \subseteq DOMAIN dumps)
     \/ \E r \in 0..ranks - 1 :
          \/ Cardinality(DOMAIN dumps[r]) # layers
          \/ \E name \in DOMAIN dumps[r] :
               ~Good(dumps[r][name].k) \/ ~Good(dumps[r][name].v)
     \/ Cardinality(DOMAIN Merged(dumps, ranks)) # layers
  THEN Fail
  ELSE [ok |-> TRUE,
        scales |-> [name \in DOMAIN Merged(dumps, ranks) |->
                      [k |-> Merged(dumps, ranks)[name].k * margin,
                       v |-> Merged(dumps, ranks)[name].v * margin]]]

\* A sidecar is written only from the dumps of every rank, of the same layers,
\* and then no key or value the traffic has produced, on any rank, is beyond
\* what its scale represents.
SidecarCovers(traffic, peaks, dumps, ranks, layers, margin) ==
  LET sidecar == Sidecar(dumps, ranks, layers, margin)
  IN  (traffic.ok /\ sidecar.ok) =>
        /\ DOMAIN sidecar.scales = UNION {DOMAIN peaks[r] : r \in 0..ranks - 1}
        /\ \A r \in 0..ranks - 1 : \A name \in DOMAIN peaks[r] :
             peaks[r][name].call <= traffic.deep =>
               /\ sidecar.scales[name].k >= 100 * peaks[r][name].k
               /\ sidecar.scales[name].v >= 100 * peaks[r][name].v

-----------------------------------------------------------------------------
(* make-e1-config.py.  A config is [top, text]: the keys of the file and of  *)
(* its text_config in order, each [key, val]; "text_config" is a key of top. *)

KEY == "ple_embedding_dtype"
VAL == "float8_e4m3fn"

Has(entries, key) == \E i \in DOMAIN entries : entries[i].key = key
ValueIn(entries, key) == (CHOOSE i \in DOMAIN entries : entries[i].key = key)
Without(entries, key) ==
  LET kept[i \in 0..Len(entries)] ==
        IF i = 0 THEN << >>
        ELSE IF entries[i].key = key THEN kept[i - 1] ELSE Append(kept[i - 1], entries[i])
  IN  kept[Len(entries)]

\* The text edit: the new file, or Fail where the script exits.
Edited(config) ==
  LET inText == Has(config.text, KEY)
      value  == config.text[ValueIn(config.text, KEY)].val
      stale  == Has(config.top, KEY)
      before == ValueIn(config.top, KEY) < ValueIn(config.top, "text_config")
  IN  IF \/ ~Has(config.top, "text_config")
         \/ inText /\ value # VAL
         \/ inText /\ ~stale
         \/ stale /\ ~before
         \/ ~inText /\ config.text = << >>  \* the edit leaves a trailing comma
      THEN Fail
      ELSE [ok  |-> TRUE, top |-> Without(config.top, KEY),
            text |-> IF inText THEN config.text
                     ELSE <<[key |-> KEY, val |-> VAL]>> \o config.text]

\* The directory of the checkpoint, and the copy it was made from: link is the
\* file a name leads to, NoFile for none, and file what is in it.  A file is
\* known by the name it was created under.
FileNames == {"config", "published", "backup", "temp"}
NoFile    == "none"
Torn      == [top |-> << >>, text |-> << >>]  \* a file cut off while it is written

\* linked: config.json is a hard link of the published one (st_nlink > 1).
Directory(config, linked) ==
  [link |-> [n \in FileNames |->
               CASE n = "config" \/ (n = "published" /\ linked) -> "config"
                 [] n = "published" /\ ~linked -> "published"
                 [] OTHER -> NoFile],
   file |-> [f \in FileNames |-> config]]

ReadFile(disk, name) == disk.file[disk.link[name]]

\* open(name, "wb") and write, or copy2: the contents go to the file the name
\* leads to, a new one where there is none.
WriteFile(disk, name, contents) ==
  LET f == IF disk.link[name] = NoFile THEN name ELSE disk.link[name]
  IN  [link |-> [disk.link EXCEPT ![name] = f], file |-> [disk.file EXCEPT ![f] = contents]]

\* Seeded fault: the new contents are written into the file the name leads to.
CopyOver(disk, from, to) == WriteFile(disk, to, ReadFile(disk, from))

\* os.replace: the name leads to the other file, and no file is written.
Replace(disk, from, to) ==
  [link |-> [n \in FileNames |-> CASE n = to -> disk.link[from] [] n = from -> NoFile
                               [] OTHER -> disk.link[n]],
   file |-> disk.file]

Steps == 0..5

\* The disk when the script is cut off after so many steps of its writes.
WriteSteps(config, new, linked, steps) ==
  LET start  == Directory(config, linked)
      backed == WriteFile(start, "backup", config)
      copied == WriteFile(backed, "temp", new)
  IN  CASE steps = 0 -> start
        [] steps = 1 -> WriteFile(start, "backup", Torn)
        [] steps = 2 -> backed
        [] steps = 3 -> WriteFile(backed, "temp", Torn)
        [] steps = 4 -> copied
        [] steps = 5 -> Replace(copied, "temp", "config")

\* Whenever the script is cut off, config.json is the published file or the new
\* one, the published file is untouched even where config.json was a link of it,
\* a whole backup precedes the change, and the new file differs in the one key
\* and nowhere else; run again it changes nothing.
OneKeyChanges(config, linked) ==
  LET edited == Edited(config)
      new    == [top |-> edited.top, text |-> edited.text]
  IN  edited.ok =>
        /\ \A steps \in Steps :
             LET disk == WriteSteps(config, new, linked, steps)
             IN  /\ ReadFile(disk, "published") = config
                 /\ ReadFile(disk, "config") \in {config, new}
                 /\ ReadFile(disk, "config") # config => ReadFile(disk, "backup") = config
        /\ new.text[ValueIn(new.text, KEY)].val = VAL
        /\ ~Has(new.top, KEY)
        /\ Without(new.text, KEY) = Without(config.text, KEY)
        /\ Without(new.top, KEY) = Without(config.top, KEY)
        /\ ~Edited(new).ok
==============================================================================
