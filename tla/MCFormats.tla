----------------------------- MODULE MCFormats -----------------------------
(***************************************************************************)
(* What the formats give back, on small inputs. A job is picked by a step: *)
(* an input with a level and the outcomes of its trials, a pack, a delta,  *)
(* a stream of an early version, a text in record mode, a column, a sample *)
(* and an object for a shape dictionary; the invariants take it apart and  *)
(* put it together. Or a container grows (MCContainers).                   *)
(***************************************************************************)
EXTENDS Integers, Sequences, FiniteSets

CONSTANTS
  MaxLen,       \* tokens of a level's input
  CountFactor, PackLevels,
  MaxText,      \* pieces of a text
  LineEnds,     \* whether an SQL text has line ends
  Beyond,       \* what the samples and objects of shape dictionaries may hold besides
  MaxColumns, Word, MaxDigits,
  MaxDepth, ChunkPlain, MinTensor, MaxLayers, MaxTokens

VARIABLES job, obj, layers, base

container == <<obj, layers, base>>
vars == <<job, container>>

None == [kind |-> "none"]

E == INSTANCE Envelopes
       WITH Unit <- 2, RecordsUnit <- 3, ColdUnit <- 2, BaseUnit <- 2, BaseSlack <- 1, BaseTail <- 1

R == INSTANCE Shape
       WITH MaxPlaces <- 2, Escapes <- 2, DictShare <- 3, ByteIds <- 1, RecentMax <- 2,
            MaxFields <- 2, JsonColumns <- 2, TemplateColumns <- 2, MaxFrames <- 2, MaxSeeds <- 2,
            IntRing <- 2

C == INSTANCE MCContainers

Texts(A, n) == UNION {[1..k -> A] : k \in 0..n}

-----------------------------------------------------------------------------
(* Envelopes.                                                              *)

\* One container is tried, so one outcome stands for both kinds'.
Choices == {ch \in [opens : BOOLEAN, smaller : BOOLEAN, shrinks : BOOLEAN, worker : BOOLEAN,
                    pays : {{}, {"a"}, {"a", "Z"}}, region : {0}] :
              ch.shrinks = ch.opens /\ (ch.smaller => ch.opens)}
RegionAt(r) == [opens |-> TRUE, smaller |-> TRUE, shrinks |-> FALSE, worker |-> FALSE, pays |-> {}, region |-> r]
PackChoices == [opens : {FALSE}, smaller : {FALSE}, shrinks : {FALSE}, worker : BOOLEAN,
                pays : {{}, {"a"}}, region : {0}]

PickLevel(l) ==
  \E s \in Texts({"a", "n", "Z", "J"}, MaxLen), ch \in Choices :
    job' = [kind |-> "level", input |-> s, level |-> l, ch |-> ch]

PickPack ==
  \E n \in 0..3 : \E os \in [1..n -> Texts({"a", "n", "Z"}, 2)], l \in PackLevels, ch \in PackChoices :
    job' = [kind |-> "pack", objects |-> os, level |-> l, ch |-> ch]

PickDelta ==
  \E b, other \in Texts({"a", "Z"}, 3), s \in Texts({"a", "Z"}, MaxLen), r \in 0..3 :
    job' = [kind |-> "delta", base |-> b, other |-> other, input |-> s, ch |-> RegionAt(r)]

\* The units of a stream; those after the first that begin a gzip were opened.
PickLegacy ==
  \E n \in 1..3 : \E us \in [1..n -> Texts({"a", "Z"}, 2) \ {<<>>}] :
    job' = [kind |-> "legacy", units |-> us]

-----------------------------------------------------------------------------
(* Record mode. "V" is the word VALUES.                                    *)

RECURSIVE Joined(_)
Joined(ps) == IF ps = <<>> THEN <<>> ELSE Head(ps) \o Joined(Tail(ps))

Lines == [mode : {"delimited"}, delimiter : {","}, fields : 2..3]
Logs == [mode : {"template"}]
Sql == [mode : {"sql"}]
Json == [mode : {"json"}]

SqlPieces ==
  {<<"V">>, <<"(">>, <<")">>, <<",">>, <<"'">>, <<"\\">>, <<"0b">>, <<"(", "1", ")">>,
   <<"V", "(", "1", ",", "'", "a", "'", ")">>} \cup (IF LineEnds THEN {<<"\n">>} ELSE {})
JsonPieces ==
  {<<"{">>, <<"}">>, <<"[">>, <<"]">>, <<"\"">>, <<",">>, <<"1">>, <<"\n">>, <<"\\">>, <<"0b">>,
   <<"\"", "a", "\"", ":">>, <<"{", "\"", "a", "\"", ":", "1", "}", "\n">>,
   <<"{", "[", "a", ",", "\"", "_", "\"", ",", "-">>}

Fields == {<<>>, <<"0">>, <<"-", "0">>, <<"7">>, <<"-", "1", "2">>, <<"0", "7">>, <<"1", ".", "5">>,
            <<"1", ".", "5", "0">>, <<"-", "0", ".", "5">>, <<"1", "2", "3", "4", "5">>, <<"1", ".", "2", "3", "4">>,
            <<"9", "9", "9", ".", "1">>}
Words == {<<>>, <<"a">>, <<"a", "a">>}
Dates == {<<"2024", 2, 29>>, <<"2023", 2, 29>>, <<"2000", 2, 29>>, <<"1900", 2, 29>>, <<"2023", 4, 31>>,
          <<"2023", 13, 1>>, <<"0000", 12, 31>>, <<"9999", 12, 31>>, <<"2023", 1, 0>>}
Clocks == {<<23, 59, 59>>, <<23, 59, 60>>, <<24, 0, 0>>, <<0, 0, 61>>}
Year == [y \in {"2024", "2023", "2000", "1900", "0000", "9999"} |->
           CASE y = "2024" -> <<"2", "0", "2", "4">> [] y = "2023" -> <<"2", "0", "2", "3">>
             [] y = "2000" -> <<"2", "0", "0", "0">> [] y = "1900" -> <<"1", "9", "0", "0">>
             [] y = "0000" -> <<"0", "0", "0", "0">> [] y = "9999" -> <<"9", "9", "9", "9">>]
Written(p, d, c) ==
  R!Concat([k \in DOMAIN p |->
    CASE p[k] = "YYYY" -> Year[d[1]]
      [] p[k] = "mm" -> R!Digits(d[2], 2)
      [] p[k] = "MMM" -> <<R!Months[((d[2] - 1) % 12) + 1]>>
      [] p[k] = "DD" -> R!Digits(d[3], 2)
      [] p[k] = "hh" -> R!Digits(c[1], 2)
      [] p[k] = "min" -> R!Digits(c[2], 2)
      [] p[k] = "ss" -> R!Digits(c[3], 2)
      [] p[k] = "fff" -> <<"0", "4", "2">>
      [] p[k] = "ffffff" -> <<"9", "0", "0", "0", "4", "2">>
      [] OTHER -> <<p[k]>>])
Times(k) == {<<"a">>} \cup {Written(R!DatePatterns[k], d, c) : d \in Dates, c \in Clocks}

PickText(mode) ==
  \/ \E s \in Texts({"a", "1", ",", "\n", "0b"}, MaxText), h \in Lines :
       mode = "delimited" /\ job' = [kind |-> "text", input |-> s, shape |-> h]
  \/ \E s \in Texts({"a", "1", " ", "\n"}, MaxText), h \in Logs :
       mode = "template" /\ job' = [kind |-> "text", input |-> s, shape |-> h]
  \/ \E ps \in Texts(SqlPieces, MaxText - 1), h \in Sql :
       mode = "sql" /\ job' = [kind |-> "text", input |-> Joined(ps), shape |-> h]
  \/ \E ps \in Texts(JsonPieces, MaxText - 2), h \in Json :
       mode = "json" /\ job' = [kind |-> "text", input |-> Joined(ps), shape |-> h]
PickColumn ==
  \/ \E n \in 0..3 : \E c \in [1..n -> Fields] : job' = [kind |-> "column", col |-> c]
  \/ \E n \in 7..8 : \E c \in [1..n -> Words] : job' = [kind |-> "column", col |-> c]
  \/ \E k \in DOMAIN R!DatePatterns : \E n \in 1..2 : \E c \in [1..n -> Times(k)] : job' = [kind |-> "column", col |-> c]


-----------------------------------------------------------------------------
(* Shape dictionaries.                                                     *)

Dated == <<"2", "0", "2", "4", "-", "0", "2", "-", "2", "9", " ", "0", "1", ":", "0", "2", ":", "0", "3">>
With(what, pieces) == IF what \in Beyond THEN pieces ELSE {}
Kinds == {[mode |-> "delimited", delimiter |-> ",", fields |-> 2], [mode |-> "template", delimiter |-> ","],
          [mode |-> "json", delimiter |-> ","]}
Pieces(k) ==
  CASE k.mode = "delimited" ->
         {<<"a">>, <<"1">>, <<",", "1", ".", "5", "\n">>, <<",">>, <<"a", ",", "2", "\n">>, Dated,
          <<"-", "3", ",", "a", "a", "\n">>} \cup With("wide", {<<"9">>})
    [] k.mode = "template" ->
         {<<"a">>, <<"1">>, <<" ">>, <<"\n">>, <<"2", " ", "a", "\n">>} \cup With("nul", {<<"0b">>})
    [] k.mode = "json" ->
         {<<"{">>, <<"[">>, <<"}", "\n">>, <<"1">>, <<",">>, <<"\"", "a", "\"", ":">>,
          <<"{", "\"", "a", "\"", ":", "2", "}", "\n">>}
         \cup With("repeats", {<<"{", "[", "a", ",", "a", ",", "a", ",", "a", ",", "a", "]", "}", "\n">>})

PickSample(k) ==
  \E ps \in Texts(Pieces(k), MaxText - 2) :
    \E dict \in {R!Train(k, Joined(ps))} :
      dict.some /\ job' = [kind |-> "sample", shape |-> k, dict |-> dict.it]
PickObject ==
  \E ps \in Texts(Pieces(job.shape), MaxText - 2) :
    job' = [kind |-> "shape", dict |-> job.dict, input |-> Joined(ps)]

-----------------------------------------------------------------------------
Init == job = None /\ C!Init

\* What kind of job, then the job.
Choose ==
  \/ \E l \in DOMAIN E!Level : job' = [kind |-> "choose", pick |-> "level", of |-> l]
  \/ \E m \in {"delimited", "template", "sql", "json"} : job' = [kind |-> "choose", pick |-> "text", of |-> m]
  \/ \E k \in Kinds : job' = [kind |-> "choose", pick |-> "sample", of |-> k]
  \/ \E p \in {"pack", "delta", "legacy", "column"} : job' = [kind |-> "choose", pick |-> p]

Pick ==
  \/ job.pick = "level" /\ PickLevel(job.of)
  \/ job.pick = "pack" /\ PickPack
  \/ job.pick = "delta" /\ PickDelta
  \/ job.pick = "legacy" /\ PickLegacy
  \/ job.pick = "text" /\ PickText(job.of)
  \/ job.pick = "column" /\ PickColumn
  \/ job.pick = "sample" /\ PickSample(job.of)

Next ==
  \/ job = None /\ layers = 0 /\ Choose /\ UNCHANGED container
  \/ job.kind = "choose" /\ Pick /\ UNCHANGED container
  \/ job.kind = "sample" /\ PickObject /\ UNCHANGED container
  \/ job = None /\ C!Next /\ UNCHANGED job

Spec == Init /\ [][Next]_vars

-----------------------------------------------------------------------------

\* The length of the object a decoder gave.
Gives(r, s) == r = E!Ok(s)

LegacyUnit(u, first) ==
  IF ~first /\ Head(u) = "Z"
    THEN <<[k |-> "def1", original |-> Len(u), recipe |-> <<"Z">>, need |-> Len(u) - 1]>> \o E!Blocks(Tail(u))
    ELSE E!Blocks(u)

\* A stream of v0.12.0 or v0.13.0 with a unit opened where a block was due is read
\* around it.
LegacyReads(c, s) == Gives(E!Decompress(c), s) /\ E!DecompressedLen(c) = Len(s)
LegacyComesBack ==
  job.kind = "legacy" =>
    LegacyReads(E!Joined([i \in DOMAIN job.units |-> LegacyUnit(job.units[i], i = 1)]), E!Joined(job.units))

\* Whatever the trials decide, the output of a level decodes to its input: by
\* decompress and its like, by decompress_stream; decompressed_len agrees, and the
\* raw decoders, which read fewer envelopes, give the input or an error.
LevelReads(c, s) ==
  /\ Gives(E!Decompress(c), s)
  /\ Gives(E!DecompressStream(c), s)
  /\ E!DecompressedLen(c) = Len(s)
  /\ E!DecompressRaw(c) \in {E!Ok(s), E!Err}
  /\ ~E!NeedsBase(c)
LevelComesBack ==
  job.kind = "level" => LevelReads(E!Compress(job.level, job.input, FALSE, job.ch), job.input)

\* Every object of a pack comes back, alone or all at once.
PackReads(c, objects) ==
  /\ Gives(E!Decompress(c), E!Joined(objects))
  /\ \A i \in DOMAIN objects : Gives(E!PackObject(c, i), objects[i])
PacksComeBack ==
  job.kind = "pack" => PackReads(E!Pack(job.level, job.objects, job.ch), job.objects)

\* A delta decodes with its base wherever its regions lie; with another base it is
\* refused or right, and without one it is refused.
DeltaReads(c, s) ==
  /\ Gives(E!DecompressWithBase(job.base, c, job.ch), s)
  /\ E!DecompressWithBase(job.other, c, job.ch) \in {E!Ok(s), E!Err}
  /\ E!NeedsBase(c) /\ ~E!Decompress(c).ok
DeltaComesBack ==
  job.kind = "delta" => DeltaReads(E!CompressWithBase(job.base, job.input, job.ch), job.input)

\* What is compressed comes back: from this version's levels, from the streams of the
\* versions before it, from packs, and from deltas with their base.
ComesBack == LevelComesBack /\ LegacyComesBack /\ PacksComeBack /\ DeltaComesBack

GivesBack(t, text) == ~t.some \/ R!Inverse(t.it) = R!Some(text)

\* "Any input rebuilds byte for byte", and so does a column of its own.
RecordsComeBack ==
  /\ job.kind = "text" => GivesBack(R!Transform(job.shape, job.input), job.input)
  /\ job.kind = "column" => R!DecodeColumn(R!EncodeColumn(job.col), Len(job.col)) = R!Some(job.col)

Rebuilt(image, text) == image.some /\ R!Rebuild(job.dict, image.it) = R!Some(text)

\* "The object back, from `compress`'s output", with the dictionary or its copy from
\* a file, whatever the sample it was trained on.
ShapeComesBack ==
  job.kind = "shape" =>
    /\ R!Reloaded(job.dict) = R!Some(job.dict)
    /\ Rebuilt(R!Image(job.dict, job.input), job.input)

\* Whatever an object is made of, whole or cut short, what opens closes to it; and a
\* model file opened against a base closes with that base.
ClosesExactly == C!ClosesExactly

\* What a content decoder gives of a gzip file is what gunzip gives.
ContentIsGunzip == C!ContentIsGunzip

=============================================================================
