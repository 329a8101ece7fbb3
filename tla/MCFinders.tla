----------------------------- MODULE MCFinders -----------------------------
(***************************************************************************)
(* The match finders and the block formats on small texts. A job is a text *)
(* of two bytes that grows, and from any of them a parse.                  *)
(***************************************************************************)
EXTENDS Integers, Sequences

CONSTANTS MaxText, MaxGrown, MinParsed

VARIABLE job
vars == job

\* Every length of the code an eighth or less: a stored word is one byte, the ordinary minimum 3,
\* the window 8, a block 8. Literal runs of more than 5 are split, matches of 5 escaped.
F == INSTANCE Finder WITH
  Word <- 1, Proven <- 4, Margin <- 1, Lzav <- 4, Dense <- 3, Turbo <- 5,
  MinOffset <- 4, Window <- 12, MaxRef <- 7, NoUpdate <- 5, BackMax <- 2, Buckets <- 4,
  Compared <- 4, SkipStrength <- 2, LitDirect <- 1, MatchDirect <- 1, Cont <- 2, Rest <- 1,
  LowOffset <- 8, OffsetBytes <- 1, EscapeBytes <- 1, MaxBlock <- 14, Worth <- 14

D == INSTANCE DoubleFast WITH
  Long <- 5, Short <- 3, Rep <- 3, Indexes <- 2, Tags <- 2, FullIndexes <- 4, Reach <- 16, Window <- 14,
  SkipStrength <- 4, Gain <- 2, FarOffset <- 12, FarCap <- 5, Seeded <- 8, Chunk <- 4

B == INSTANCE CodedBlocks WITH
  Symbols <- 4, MaxCodeLen <- 2, Run <- 2, STREAMS <- 2, SingleMax <- 2, Vector <- 12, Lanes <- 2

\* The code lengths alone: six symbols, limits that their Huffman codes of depth 4 and 5 pass, so
\* that package_merge leaves the heaviest items out and makes packages of packages.
H3 == INSTANCE CodedBlocks WITH
  Symbols <- 6, MaxCodeLen <- 3, Run <- 2, STREAMS <- 2, SingleMax <- 2, Vector <- 12, Lanes <- 2
H4 == INSTANCE CodedBlocks WITH
  Symbols <- 6, MaxCodeLen <- 4, Run <- 2, STREAMS <- 2, SingleMax <- 2, Vector <- 12, Lanes <- 2

U == INSTANCE Ultra WITH
  Heads <- 2, DEPTH <- 4, SUFFICIENT_LEN <- 7, Twin <- 2, LOCAL_WINDOW <- 8, FarOffset <- 12, FarCap <- 5, MIN_PART <- 2

ASSUME D!DoubleFastAssumption

-----------------------------------------------------------------------------

Q(ll, ml, off) == [ll |-> ll, ml |-> ml, off |-> off]

Seeds == {<<0, 1, 1>>, <<0, 0, 0, 0, 0>>, <<1, 0, 1, 0, 0, 1>>, <<0, 1, 0, 0, 1, 1>>}

Init ==
  \/ \E t \in Seeds : job = [kind |-> "text", text |-> t, grown |-> 0]
  \/ job = [kind |-> "sequences", seqs |-> <<>>]

\* A byte more, or what came last or first once more.
MoreText ==
  /\ job.kind = "text" /\ job.grown < MaxGrown
  /\ \/ \E b \in {0, 1} : job' = [job EXCEPT !.text = Append(@, b), !.grown = @ + 1]
     \/ /\ Len(job.text) \in 5..(MaxText - 5)
        /\ \/ job' = [job EXCEPT !.text = @ \o SubSeq(@, Len(@) - 4, Len(@)), !.grown = @ + 1]
           \/ job' = [job EXCEPT !.text = @ \o SubSeq(@, 1, 5), !.grown = @ + 1]

\* Parsed at a level, on data the average says is good or poor.
Tokens ==
  /\ job.kind = "text" /\ Len(job.text) >= MinParsed
  /\ \E level \in {"default", "retry", "turbo", "fast"}, poor \in {0, 1, 2} :
       /\ level = "fast" => poor = 0
       /\ job' = [kind |-> "tokens", text |-> job.text, level |-> level, poor |-> poor,
                  blocks |-> F!compress_into(job.text, level, poor)]

\* The max level: behind a base, with the far matches, in stripes, or with a dictionary.
Contents == {<<1, 1, 0, 1, 0, 0, 0, 1>>, <<0, 0, 1, 0, 1, 1>>}
Kinds == {<<"coded">>, <<"none">>, <<"coded", "raw", "literals">>}
Plain == [id |-> 0, content |-> <<>>, prev |-> B!NoTables]
Dictionary(c) ==
  [id |-> 300, content |-> c, prev |-> B!DictTables(c, B!CodesFrom(<<Q(3, 4, 1), Q(0, 3, 6), Q(2, 0, 0)>>, B!Sc!new))]
Coded(text, start, d, kinds, blocks, sorted) ==
  [kind |-> "coded", text |-> text, start |-> start, dict |-> d, sorted |-> sorted,
   bytes |-> B!WriteBlocks(SubSeq(text, start + 1, Len(text)), blocks, kinds, d.id, TRUE, d.prev)]
Max ==
  /\ job.kind = "text" /\ Len(job.text) >= MinParsed
  /\ \E kinds \in Kinds :
       \/ \E start \in {0, 4} :
            job' = Coded(job.text, start, Plain, kinds, D!compress_max_from(job.text, start, 9, <<>>, D!NoDict), TRUE)
       \/ \E gated \in BOOLEAN :
            /\ D!Lm!find(job.text, gated) # <<>>
            /\ job' = Coded(job.text, 0, Plain, kinds, D!compress_max_from(job.text, 0, MaxText, D!Lm!find(job.text, gated), D!NoDict), TRUE)
            /\ gated => kinds = <<"coded">>
       \/ /\ kinds = <<"coded">>
          /\ job' = Coded(job.text, 0, Plain, kinds, D!compress_max_stream(job.text, 7, 12, <<>>), TRUE)
       \/ \E c \in Contents :
            /\ kinds = IF Len(c) = 8 THEN <<"coded">> ELSE <<"coded", "raw", "literals">>
            /\ job' = Coded(job.text, 0, Dictionary(c), kinds, D!compress_max_from(job.text, 0, 9, <<>>, D!Dict(c)), TRUE)

\* The ultra level, likewise, its parse cut into parts and priced in two ways.
Prices ==
  {[lit |-> <<6, 8>>, ll |-> <<2, 4, 5, 5, 7>>, ml |-> <<3, 2, 4, 6>>, rep |-> 2, off |-> 5],
   [lit |-> <<2, 3>>, ll |-> <<3, 1, 1, 2, 9>>, ml |-> <<9, 5, 3, 2, 2, 4>>, rep |-> 5, off |-> 4]}
CodesOf(blocks) ==
  [i \in DOMAIN blocks |->
    [len |-> blocks[i].len, lits |-> blocks[i].lits, fresh |-> FALSE, codes |-> B!CodesFrom(blocks[i].seqs, B!Sc!new)]]
UltraCoded(text, start, d, g) == Coded(text, start, d, <<"coded">>, CodesOf(g.blocks), g.sorted)
Ultra ==
  /\ job.kind = "text" /\ Len(job.text) >= MinParsed
  /\ \E prior, prices \in Prices : LET overhead == IF prior = prices THEN 99 ELSE 0 IN
       \/ \E start \in {0, 10} :
            /\ Len(job.text) > start + 2
            /\ job' = UltraCoded(job.text, start, Plain, U!compress_ultra(job.text, start, 9, overhead, prior, prices, <<>>))
       \/ /\ U!Lm!find(job.text, FALSE) # <<>> /\ prior = prices
          /\ job' = UltraCoded(job.text, 0, Plain, U!compress_ultra(job.text, 0, MaxText, overhead, prior, prices, U!Lm!find(job.text, FALSE)))
       \/ /\ prior = prices
          /\ \E c \in Contents :
               /\ (Len(c) = 8) = (prices.rep = 2)
               /\ job' = UltraCoded(job.text, 0, Dictionary(c), U!compress_with_dict_ultra(c, job.text, 9, overhead, prices))

-----------------------------------------------------------------------------

\* Sequences at the edges of the copies' steps, in a window and a dictionary.
Window == <<8, 9, 10, 11, 12>>
Ext == [i \in 1..16 |-> 20 + i]
Literals(n) == [i \in 1..n |-> 40 + i]
FirstSequences == {Q(13, ml, off) : ml \in {3, 13, 49}, off \in {1, 2, 3, 5, 6, 11, 12, 13, 17, 20, 31}}
NextSequences == {Q(ll, ml, off) : ll \in {0, 1, 12, 49}, ml \in {3, 12, 25}, off \in {1, 2, 5, 6, 12, 15, 30}}
LastSequences == {<<Q(1, 4, 2), Q(2, 0, 0)>>, <<Q(0, 3, 1), Q(0, 0, 0)>>}
Sequences ==
  /\ job.kind = "sequences"
  /\ \/ job.seqs = <<>> /\ \E q \in FirstSequences : job' = [job EXCEPT !.seqs = <<q>>]
     \/ Len(job.seqs) = 1 /\ \E q \in NextSequences : job' = [job EXCEPT !.seqs = Append(@, q)]
     \/ /\ Len(job.seqs) = 2
        /\ \E last \in LastSequences :
             job' = [kind |-> "copies", seqs |-> job.seqs \o last, window |-> Window, ext |-> Ext]

\* Blocks coded in every way one after another.
Data == {<<0, 0, 1, 0>>, <<0, 1, 2, 0, 0, 3, 0, 0, 1, 0, 2>>, <<3>>, <<0, 0, 0, 1, 1, 0, 0, 0, 0, 2, 0, 0, 0, 1, 0, 0, 3, 3>>}
SeqsFor(n) ==
  {<<Q(n, 0, 0)>>, <<Q(1, 3, 1), Q(n - 1, 0, 0)>>}
  \cup IF n < 4 THEN {} ELSE {<<Q(2, 40, 2), Q(0, 70, 2), Q(1, 5, 40), Q(0, 4, 40), Q(0, 9, 41), Q(0, 3, 2), Q(1, 200, 100), Q(n - 4, 0, 0)>>}
Choices ==
  [lit : {"raw", "fresh", "reuse"}, coded : {{}, {"ll", "off"}, {"ll", "ml", "off"}}, reuse : BOOLEAN, dict : {0, 300}]
Blocks ==
  /\ job.kind = "sequences" /\ job.seqs = <<>>
  /\ \E lits \in {d \in Data : Len(d) # 4} : \E seqs \in SeqsFor(Len(lits)) :
       job' = [kind |-> "block", lits |-> lits, seqs |-> seqs, before |-> {},
               e |-> B!encode_block_coded(lits, B!CodesFrom(seqs, B!Sc!new), B!NoTables,
                                          B!AllCoded(lits, B!CodesFrom(seqs, B!Sc!new), B!NoTables, 0), TRUE), compact |-> TRUE]
NextBlock ==
  /\ job.kind = "block" /\ job.before = {}
  /\ \E lits \in Data : \E seqs \in SeqsFor(Len(lits)), choice \in Choices, compact \in BOOLEAN :
       /\ compact => choice.lit # "reuse" \/ choice.dict = 300
       /\ B!IsChoice(choice, lits, B!CodesFrom(seqs, B!Sc!new), job.e.prev)
       /\ job' = [kind |-> "block", lits |-> lits, seqs |-> seqs, before |-> {job.e.prev}, compact |-> compact,
                  e |-> B!encode_block_coded(lits, B!CodesFrom(seqs, B!Sc!new), job.e.prev, choice, compact)]

\* A histogram of literals.
Histograms ==
  job.kind = "sequences" /\ job.seqs = <<>> /\ \E h \in [0..5 -> {0, 1, 2, 4, 9}] : job' = [kind |-> "hist", hist |-> h]

Next == MoreText \/ Tokens \/ Max \/ Ultra \/ Sequences \/ Blocks \/ NextBlock \/ Histograms
Spec == Init /\ [][Next]_vars

-----------------------------------------------------------------------------

Whole(d, text) == ~d.error /\ d.out = text

\* Whatever a match finder finds, the blocks of its parse decode to the text: the token
\* levels' (finder.rs, fallback.rs), the max level's and the ultra level's (v7_encode.rs,
\* v7_ultra.rs, v7_decode.rs), behind a base, with a dictionary, with far matches, in a
\* destination with and without room for the wild copies.
ReplayIsInput ==
  /\ job.kind = "tokens" => Whole(F!decompress(job.blocks), job.text)
  /\ job.kind = "coded" =>
       \A slack \in {0, 40} :
         Whole(B!ReadBlocks(job.bytes, 0, SubSeq(job.text, 1, job.start), job.dict.prev,
                            [id |-> job.dict.id, content |-> job.dict.content, slack |-> slack]), job.text)

\* What a walk starts its compare with, from the two ends of the order it is between, is what
\* the node and the position really share (v7_ultra.rs's "tree order broken"), after skipped
\* and undone insertions, across blocks and behind a dictionary.
TreesAreSorted == job.kind = "coded" => job.sorted

Passes(j, prev) ==
  B!decode_padded(j.e.bytes \o (IF j.compact THEN <<71, 96, 7, 7, 7, 7, 7, 7>> ELSE <<>>), j.compact, Len(j.seqs), Len(j.lits), prev)
\* A block's sections come back as they were coded, whatever was coded and reused, in both
\* framings, with the tables both sides carry on; and its sequences copied wild, in groups,
\* are what they say byte by byte (v7_encode.rs, v7_decode.rs).
BlocksDecode ==
  /\ job.kind = "copies" =>
       \A room \in {B!Total(job.seqs), B!Total(job.seqs) + 36} :
         Whole(B!copies(job.seqs, Literals(B!TotalLits(job.seqs)), job.window, room, B!Total(job.seqs), job.ext),
               B!Says(job.seqs, Literals(B!TotalLits(job.seqs)), job.window, job.ext))
  /\ job.kind = "block" =>
       LET p == Passes(job, IF job.before = {} THEN B!NoTables ELSE CHOOSE t \in job.before : TRUE)
       IN ~p.error /\ p.lits = job.lits /\ p.prev = job.e.prev
          /\ \A i \in DOMAIN job.seqs : p.seqs[i] = job.seqs[i]

Cost(h, l) == h[0] * l[0] + h[1] * l[1] + h[2] * l[2] + h[3] * l[3] + h[4] * l[4] + h[5] * l[5]
\* The lengths of the prefix codes of a set of the six symbols.
Within(used, limit) == {o \in [0..5 -> 0..limit] : \A s \in 0..5 : o[s] > 0 <=> s \in used}
Of3 == [used \in SUBSET (0..5) |-> {o \in Within(used, 3) : H3!Kraft(o) <= 8}]
Of4 == [used \in SUBSET (0..5) |-> {o \in Within(used, 4) : H4!Kraft(o) <= 16}]
Best(l, h, codes) == l \in codes /\ \A o \in codes : Cost(h, l) <= Cost(h, o)
ComesBack(l) == H4!unpack_lengths_v8(H4!pack_lengths_v8(l)) = [l |-> l, used |-> Len(H4!pack_lengths_v8(l))]
\* The literals' code lengths (huffman.rs) are a prefix code of all that is used within the
\* limit, none costs less, and their packed table gives them back. Under the longer limit,
\* with its many codes, only for weights that rise with the symbols.
CodesAreBest ==
  job.kind = "hist" =>
    LET h == job.hist
        used == H3!Used(h)
    IN /\ Best(H3!lengths_for(h), h, Of3[used]) /\ ComesBack(H3!lengths_for(h))
       /\ (\A s \in 1..5 : h[s - 1] <= h[s]) => Best(H4!lengths_for(h), h, Of4[used]) /\ ComesBack(H4!lengths_for(h))
=============================================================================
