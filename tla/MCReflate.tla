----------------------------- MODULE MCReflate -----------------------------
(***************************************************************************)
(* Deflate streams on small alphabets: a byte is two bits, a match two or  *)
(* three bytes at a distance of up to three, a code three bits long. A job *)
(* is a text that grows, and from any of them a stream for it: the tokens  *)
(* of some zlib, one of them perhaps replaced, in blocks of any kind; or   *)
(* bits, whatever they are; or the frequencies of a tree; or decisions     *)
(* coded one after another.                                                *)
(***************************************************************************)
EXTENDS Integers, Sequences, FiniteSets

CONSTANTS MaxText, MaxFree, MaxBits, MaxDecisions, MaxCount

VARIABLE job
vars == job

Zlibs ==
  << [fast |-> FALSE, slow |-> TRUE, good |-> 2, lazy |-> 3, nice |-> 3, chain |-> 4,
      filtered |-> FALSE, fixed |-> FALSE, tokens |-> 3, tried |-> TRUE],
     [fast |-> TRUE, slow |-> FALSE, good |-> 3, lazy |-> 2, nice |-> 3, chain |-> 4,
      filtered |-> FALSE, fixed |-> FALSE, tokens |-> 4, tried |-> TRUE],
     [fast |-> FALSE, slow |-> FALSE, good |-> 0, lazy |-> 0, nice |-> 0, chain |-> 0,
      filtered |-> FALSE, fixed |-> FALSE, tokens |-> 4, tried |-> TRUE] >>

Z == INSTANCE Reflate WITH
  ByteBits <- 2, Literals <- 4,
  LenBase <- <<2, 3>>, LenExtra <- <<1, 0>>, DistBase <- <<1, 2, 3>>, DistExtra <- <<0, 0, 1>>,
  MaxCode <- 3, FixedLit <- <<3, 3, 3, 3, 2, 3, 3>>, FixedDist <- <<1, 2, 2>>,
  HlitBits <- 2, HdistBits <- 2, HclenBits <- 2, ClenBits <- 2, HclenMin <- 4, ClenMax <- 3,
  RunBase <- <<2, 2, 4>>, RunBits <- <<1, 1, 2>>, ClenOrder <- <<4, 5, 6, 0, 2, 1, 3>>,
  Window <- 8, HashSize <- 4, MinMatch <- 2, TooFar <- 1, MaxHops <- 2,
  Candidates <- Zlibs, Judged <- 4, Chunk <- 4

R == INSTANCE RangeCoder WITH Digit <- 4, Digits <- 4, Odds <- 16

-----------------------------------------------------------------------------
(* Streams for a text.                                                     *)

\* The tokens p takes for the text.
RECURSIVE TokensFrom(_, _, _, _)
Taking(g, text, p, pos) ==
  <<g.token>> \o TokensFrom(Z!Commit(g.z, text, p, pos, g.token), text, p, pos + Z!SpanOf(g.token))
TokensFrom(z, text, p, pos) ==
  IF pos = Len(text) THEN <<>> ELSE Taking(Z!PredictToken(z, text, p, pos), text, p, pos)
TokensBy(text, p) == TokensFrom(Z!NewAt(text, 0), text, p, 0)

RECURSIVE BlocksOf(_, _, _)
BlocksOf(tokens, n, kind) ==
  IF Len(tokens) <= n THEN <<Z!Block(TRUE, 0, kind, Z!NoHeader, tokens)>>
  ELSE <<Z!Block(FALSE, 0, kind, Z!NoHeader, SubSeq(tokens, 1, n))>> \o BlocksOf(SubSeq(tokens, n + 1, Len(tokens)), n, kind)

\* zlib's own: the kind its trees give; of a stored block, the bytes.
Literal(text, pos, n) == [i \in 1..n |-> Z!Lit(text[pos + i])]
OwnBlock(b, t, text, pos, p) ==
  LET kind == Z!KindOf(t, Z!SpanOfBlock(b), p.fixed)
  IN [b EXCEPT !.kind = kind, !.header = IF kind = "dynamic" THEN t.header ELSE @,
               !.tokens = IF kind = "stored" THEN Literal(text, pos, Z!SpanOfBlock(b)) ELSE @]
\* Another's: the codes of a block that uses every symbol.
Every == <<Z!Lit(0), Z!Lit(1), Z!Lit(2), Z!Lit(3), Z!Ref(2, 1), Z!Ref(3, 2)>>
OtherBlock(b, text, pos) ==
  [b EXCEPT !.header = IF b.kind = "dynamic" THEN Z!Build(b.tokens \o Every).header ELSE @,
            !.tokens = IF b.kind = "stored" THEN Literal(text, pos, Z!SpanOfBlock(b)) ELSE @]
RECURSIVE Kinded(_, _, _, _, _)
Kinded(blocks, text, pos, p, own) ==
  IF blocks = <<>> THEN <<>>
  ELSE <<IF own THEN OwnBlock(Head(blocks), Z!Build(Head(blocks).tokens), text, pos, p)
         ELSE OtherBlock(Head(blocks), text, pos)>>
       \o Kinded(Tail(blocks), text, pos + Z!SpanOfBlock(Head(blocks)), p, own)

\* Where each block starts in the stream.
RECURSIVE Placed(_, _)
Placed(blocks, s) ==
  IF blocks = <<>> THEN <<>>
  ELSE <<[Head(blocks) EXCEPT !.at = Len(s)]>> \o Placed(Tail(blocks), Z!WriteBlock(s, Head(blocks)))

BitsOf(blocks) == Z!WriteOn(<<>>, blocks)

-----------------------------------------------------------------------------
(* Jobs.                                                                   *)

\* The window is eight bytes: the longest of these makes it slide.
Seeds == {<<>>, <<0, 1, 0, 0, 1>>, <<1, 1, 0, 1, 1, 1, 0, 0, 0>>}

Init == job = [kind |-> "none"]

Begin ==
  /\ job.kind = "none"
  /\ \/ \E t \in Seeds : job' = [kind |-> "text", text |-> t, grown |-> 0]
     \/ job' = [kind |-> "free", tokens |-> <<>>, plain |-> <<>>]
     \/ job' = [kind |-> "bits", bits |-> <<>>]
     \/ job' = [kind |-> "freq", freq |-> <<>>]
     \/ \E v \in 0..MaxCount : job' = [kind |-> "count", v |-> v]
     \/ job' = [kind |-> "coder", said |-> <<>>, e |-> R!Encoder, c |-> R!CarryEncoder]

MoreText ==
  /\ job.kind = "text" /\ job.grown < MaxText
  /\ \E b \in {0, 1} : job' = [job EXCEPT !.text = Append(@, b), !.grown = @ + 1]

\* A token no zlib may have chosen.
MoreTokens ==
  /\ job.kind = "free" /\ Len(job.tokens) < MaxFree
  /\ \/ \E b \in {0, 1} :
          job' = [job EXCEPT !.tokens = Append(@, Z!Lit(b)), !.plain = Append(@, b)]
     \/ \E l \in 2..4, d \in 1..3 :
          /\ d <= Len(job.plain)
          /\ job' = [job EXCEPT !.tokens = Append(@, Z!Ref(l, d)),
                                !.plain = Z!CopyFrom(@, d, IF l > 3 THEN 3 ELSE l)]

Stream(text, blocks) == job' = [kind |-> "stream", plain |-> text, blocks |-> Placed(blocks, <<>>)]
StreamOf ==
  \/ /\ job.kind = "text"
     /\ \E i \in DOMAIN Zlibs :
          Stream(job.text, Kinded(BlocksOf(TokensBy(job.text, Zlibs[i]), Zlibs[i].tokens, "stored"), job.text, 0, Zlibs[i], TRUE))
  \/ /\ job.kind = "free"
     /\ \E n \in {2, 5}, kind \in {"stored", "fixed", "dynamic"} :
          Stream(job.plain, Kinded(BlocksOf(job.tokens, n, kind), job.plain, 0, Zlibs[1], FALSE))

MoreBits ==
  /\ job.kind = "bits" /\ Len(job.bits) < MaxBits
  /\ \E b \in {0, 1} : job' = [job EXCEPT !.bits = Append(@, b)]

MoreFreq ==
  /\ job.kind = "freq" /\ Len(job.freq) < 7
  /\ \E n \in {0, 1, 4} : job' = [job EXCEPT !.freq = Append(@, n)]

\* Its probability is 0 where the JPEG model codes an even bit.
Decide ==
  /\ job.kind = "coder" /\ Len(job.said) < MaxDecisions
  /\ \E p \in {0, 1, 9, 15}, b \in {0, 1} :
       job' = [job EXCEPT !.said = Append(@, <<p, b>>),
                          !.e = R!Encode(@, IF p = 0 THEN 1 ELSE p, b),
                          !.c = IF p = 0 THEN R!CarryRaw(@, b) ELSE R!CarryEncode(@, p, b)]

Next == Begin \/ MoreText \/ MoreTokens \/ StreamOf \/ MoreBits \/ MoreFreq \/ Decide
Spec == Init /\ [][Next]_vars

-----------------------------------------------------------------------------

\* Bits that parse are opened unless a bit that fills a byte is not 0: before a stored block's
\* length, or after the end. What is opened closes to the stream's bytes.
Blank(bits, pos) == \A i \in (pos + 1)..Len(bits) : i <= Z!Aligned(pos) => bits[i] = 0
Whole(r, bits) ==
  /\ r.some /\ Blank(bits, r.it.pos)
  /\ \A i \in DOMAIN r.it.blocks : r.it.blocks[i].kind = "stored" => Blank(bits, r.it.blocks[i].at + 3)
ClosesTo(o, bits) == Z!Close(o.plain, o.recipe) = Z!Some(SubSeq(Z!ToBytes(bits), 1, o.consumed))
BitsComeBack(bits, r, o) == (o.some <=> Whole(r, bits)) /\ (o.some => ClosesTo(o.it, bits))
\* One that was written from blocks parses into them and opens as its text.
BlocksComeBack(blocks, plain, s, r, o) ==
  r.some /\ r.it.blocks = blocks /\ r.it.plain = plain /\ r.it.pos = Len(s) /\ o.some /\ o.it.plain = plain

\* A deflate stream, whoever made it and whatever zlib it is told from, comes back bit for bit,
\* its chunks put together, or is refused when its bits do not all say something.
StreamsComeBack ==
  /\ job.kind = "bits" => BitsComeBack(job.bits, Z!Parse(job.bits), Z!Open(job.bits))
  /\ job.kind = "stream" =>
       LET s == BitsOf(job.blocks) IN BlocksComeBack(job.blocks, job.plain, s, Z!Parse(s), Z!Open(s))

\* zlib's codes for any frequencies are complete and no longer than allowed, every symbol that
\* occurs has one, a symbol that occurs more has none longer, and the header's runs expand to them.
RECURSIVE Expand(_, _)
Expand(symbols, lens) ==
  IF symbols = <<>> THEN lens
  ELSE Expand(Tail(symbols), lens \o Z!Expanded(lens, Head(symbols)[1], Head(symbols)[2]))
RECURSIVE Kraft(_)
Kraft(lens) == IF lens = <<>> THEN 0 ELSE Kraft(Tail(lens)) + (IF Head(lens) = 0 THEN 0 ELSE 2 ^ (3 - Head(lens)))
SendsLens(symbols, lens) ==
  /\ \A i \in DOMAIN symbols : symbols[i][2] \in 0..(2 ^ Z!ExtraBits(symbols[i][1]) - 1)
  /\ Expand(symbols, <<>>) = lens
IsCode(b, freq) ==
  /\ Kraft(b.lens) = 8
  /\ \A i \in DOMAIN b.lens : b.lens[i] \in 0..3 /\ (freq[i] > 0 => b.lens[i] > 0)
  /\ \A i, j \in DOMAIN freq : freq[i] > freq[j] /\ freq[j] > 0 => b.lens[i] <= b.lens[j]
  /\ SendsLens(Z!Runs(SubSeq(b.lens, 1, b.maxCode + 1)), SubSeq(b.lens, 1, b.maxCode + 1))
TreesAreCodes == job.kind = "freq" /\ Len(job.freq) >= 3 => IsCode(Z!BuildTree(job.freq, 3), job.freq)

\* What the matcher predicts is the text's, in reach, and its chains go back.
RECURSIVE Sound(_, _, _, _)
SoundAt(g, text, p, pos) ==
  /\ g.token.ref =>
       /\ g.token.len \in 2..3 /\ g.token.arg \in 1..2 /\ pos + g.token.len <= Len(text)
       /\ \A i \in 1..g.token.len : text[pos + i] = text[pos + i - g.token.arg]
  /\ ~g.token.ref => g.token.arg = text[pos + 1]
  /\ LET chain == Z!Chain(g.z, text, pos)
     IN \A i \in DOMAIN chain : chain[i] \in 1..2 /\ \A j \in 1..(i - 1) : chain[j] < chain[i]
  /\ Sound(Z!Commit(g.z, text, p, pos, g.token), text, p, pos + Z!SpanOf(g.token))
Sound(z, text, p, pos) == pos = Len(text) \/ SoundAt(Z!PredictToken(z, text, p, pos), text, p, pos)
MatchesAreText ==
  job.kind = "text" =>
    \A i \in DOMAIN Zlibs, start \in 0..Len(job.text) :
      Sound(Z!NewAt(job.text, start), job.text, Zlibs[i], start)

\* Every coder's decisions come back, however the tail was cut, and so does a count.
Odds(said) == [i \in DOMAIN said |-> said[i][1]]
Spoken(said) == [i \in DOMAIN said |-> said[i][2]]
SureOdds(said) == [i \in DOMAIN said |-> IF said[i][1] = 0 THEN 1 ELSE said[i][1]]
RECURSIVE EncodeAll(_, _, _)
EncodeAll(e, p, bits) == IF bits = <<>> THEN e ELSE EncodeAll(R!Encode(e, p, Head(bits)), p, Tail(bits))
Returned(s, bits) == R!Decode(R!Decoder(s), s, [i \in DOMAIN bits |-> 9], <<>>) = bits
CodersInStep ==
  /\ job.kind = "count" =>
       /\ Returned(R!Finish(EncodeAll(R!Encoder, 9, R!CountBits(job.v))), R!CountBits(job.v))
       /\ R!ReadCount(R!CountBits(job.v)) = job.v
  /\ job.kind = "coder" =>
       /\ LET s == R!Finish(job.e) IN R!Decode(R!Decoder(s), s, SureOdds(job.said), <<>>) = Spoken(job.said)
       /\ LET s == R!Flush(job.e) IN R!Decode(R!Decoder(s), s, SureOdds(job.said), <<>>) = Spoken(job.said)
       /\ LET s == R!CarryFinish(job.c) IN R!CarryDecode(R!CarryDecoder(s), s, Odds(job.said), <<>>) = Spoken(job.said)
=============================================================================
