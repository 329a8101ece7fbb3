------------------------------ MODULE Reflate ------------------------------
(***************************************************************************)
(* A deflate stream opened and closed: its plain text and a recipe, the    *)
(* parameters of the zlib that predicts it best and, for each chunk of its *)
(* blocks, the decisions that tell them from the prediction. A decision is *)
(* its context and its value; the coder gives them back in their order     *)
(* (RangeCoder), so one asked for under another context is another's.      *)
(***************************************************************************)
EXTENDS Zlib

CONSTANT Chunk   \* 1 << 20: the plain text of a chunk

Say(ctx, v) == <<[ctx |-> ctx, v |-> v]>>
Flag(ctx, b) == Say(ctx, IF b THEN 1 ELSE 0)
KindOfToken(t) == IF t.ref THEN 1 ELSE 0

-----------------------------------------------------------------------------
(* Which zlib.                                                             *)

CodedTokens(b) == IF b.kind = "stored" THEN <<>> ELSE b.tokens
SpanOfBlock(b) == Span(b.tokens)
RECURSIVE SpanOfBlocks(_)
SpanOfBlocks(blocks) == IF blocks = <<>> THEN 0 ELSE SpanOfBlock(Head(blocks)) + SpanOfBlocks(Tail(blocks))

\* mismatches: how many of the first `limit` tokens are guessed wrong, no more than `stop` counted.
RECURSIVE Mismatches(_, _, _, _, _, _, _, _), WrongIn(_, _, _, _, _, _, _, _, _)
WrongToken(g, text, p, blocks, tokens, pos, limit, stop, wrong) ==
  WrongIn(Commit(g.z, text, p, pos, Head(tokens)), text, p, blocks, Tail(tokens), pos + SpanOf(Head(tokens)),
          limit - 1, stop, wrong + (IF g.token = Head(tokens) THEN 0 ELSE 1))
WrongIn(z, text, p, blocks, tokens, pos, limit, stop, wrong) ==
  IF tokens = <<>> THEN Mismatches(z, text, p, Tail(blocks), pos, limit, stop, wrong)
  ELSE IF limit = 0 \/ wrong >= stop THEN wrong
  ELSE WrongToken(PredictToken(z, text, p, pos), text, p, blocks, tokens, pos, limit, stop, wrong)
Mismatches(z, text, p, blocks, pos, limit, stop, wrong) ==
  IF blocks = <<>> THEN wrong
  ELSE IF Head(blocks).kind = "stored"
    THEN Mismatches(Through(z, text, p, pos, pos + SpanOfBlock(Head(blocks))), text, p, Tail(blocks),
                    pos + SpanOfBlock(Head(blocks)), limit, stop, wrong)
  ELSE WrongIn(z, text, p, blocks, Head(blocks).tokens, pos, limit, stop, wrong)

\* detect: the first of the candidates with the fewest wrong; a full block shows how many
\* tokens one holds, blocks that are never dynamic a fixed strategy.
NeverDynamic(blocks) ==
  /\ \A i \in DOMAIN blocks : blocks[i].kind # "dynamic"
  /\ \E i \in DOMAIN blocks : blocks[i].kind = "fixed"
FullBlock(blocks, p) == \E i \in DOMAIN blocks : ~blocks[i].last /\ Len(CodedTokens(blocks[i])) = p.tokens
Tried(blocks) ==
  LET full == {i \in DOMAIN Candidates : FullBlock(blocks, Candidates[i])}
      sized == IF full = {} THEN DOMAIN Candidates ELSE {i \in DOMAIN Candidates : \E j \in full : Candidates[i].tokens = Candidates[j].tokens}
  IN [i \in DOMAIN Candidates |-> [Candidates[i] EXCEPT !.fixed = NeverDynamic(blocks), !.tried = i \in sized]]

Worst == 1000000
RECURSIVE Best(_, _, _, _, _)
BestAfter(text, blocks, ps, best, least, wrong) ==
  IF wrong < least THEN Best(text, blocks, Tail(ps), Head(ps), wrong) ELSE Best(text, blocks, Tail(ps), best, least)
Best(text, blocks, ps, best, least) ==
  IF ps = <<>> \/ least = 0 THEN best
  ELSE IF ~Head(ps).tried THEN Best(text, blocks, Tail(ps), best, least)
  ELSE BestAfter(text, blocks, ps, best, least,
                 Mismatches(NewAt(text, 0), text, Head(ps), blocks, 0, Judged, least, 0))
BestOf(text, blocks, ps) == Best(text, blocks, ps, ps[1], Worst)
Detect(text, blocks) == BestOf(text, blocks, Tried(blocks))

-----------------------------------------------------------------------------
(* predict: what the blocks do that the emulation did not foresee.         *)

HopIn(chain, d) ==
  IF \E i \in DOMAIN chain : chain[i] = d
    THEN Flag("hop_found", TRUE) \o Say("hop", (CHOOSE i \in DOMAIN chain : chain[i] = d /\ \A j \in 1..(i - 1) : chain[j] # d) - 1)
    ELSE Flag("hop_found", FALSE) \o Say("dist", d - 1)

\* A reference the guess is not: its length and its distance, from the guess's if it is one.
RefSaid(g, text, pos, t) ==
  LET len == IF g.token.ref THEN g.token.len ELSE 0
      dist == IF g.token.ref THEN g.token.arg ELSE 0
  IN (IF len # 0 THEN Flag("len_same", t.len = len) ELSE <<>>)
     \o (IF t.len # len \/ len = 0 THEN Say("len", t.len - MinMatch) ELSE <<>>)
     \o (IF len # 0 THEN Flag("dist_same", t.arg = dist) ELSE <<>>)
     \o (IF t.arg # dist \/ len = 0 THEN HopIn(Chain(g.z, text, pos), t.arg) ELSE <<>>)
TokenSaid(g, text, pos, t) ==
  IF g.token = t THEN Flag(<<"same", KindOfToken(g.token)>>, TRUE)
  ELSE Flag(<<"same", KindOfToken(g.token)>>, FALSE) \o Flag(<<"is_ref", KindOfToken(g.token)>>, t.ref)
       \o (IF t.ref THEN RefSaid(g, text, pos, t) ELSE <<>>)

\* c is where the encoder stands: the matcher, the position and what was said.
RECURSIVE SayTokens(_, _, _, _)
SayToken(g, c, text, p, tokens) ==
  SayTokens([z |-> Commit(g.z, text, p, c.pos, Head(tokens)), pos |-> c.pos + SpanOf(Head(tokens)),
             out |-> c.out \o TokenSaid(g, text, c.pos, Head(tokens))], text, p, Tail(tokens))
SayTokens(c, text, p, tokens) ==
  IF tokens = <<>> THEN c ELSE SayToken(PredictToken(c.z, text, p, c.pos), c, text, p, tokens)

\* The kind and the header that zlib's trees give, or else the header's bits.
HeaderSaid(b, t) ==
  IF b.kind # "dynamic" THEN <<>>
  ELSE Flag("header_same", b.header = t.header)
       \o (IF b.header = t.header THEN <<>> ELSE Say("header", WriteHeader(b.header)))
KindSaid(b, kind) ==
  Flag("kind_same", b.kind = kind) \o (IF b.kind = kind THEN <<>> ELSE Flag("kind_same", b.kind = "dynamic"))
TreesSaid(b, t, p) == KindSaid(b, KindOf(t, SpanOfBlock(b), p.fixed)) \o HeaderSaid(b, t)

AsPredicted_longer(n, end, text, p) == n = p.tokens \/ end = Len(text)
AsPredicted(n, end, text, p) == n = p.tokens \/ (n < p.tokens /\ end = Len(text))
CountSaid(n, same) == Flag("block_same", same) \o (IF same THEN <<>> ELSE Say("block_count", n))

SayStored(c, text, p, b, end) ==
  [z |-> Through(c.z, text, p, c.pos, end), pos |-> end,
   out |-> c.out \o Flag("last", b.last = (end = Len(text))) \o Flag("stored", TRUE) \o Say("stored_len", end - c.pos)]
WithTrees(c, b, p) == [c EXCEPT !.out = @ \o TreesSaid(b, Build(b.tokens), p)]
SayCoded(c, text, p, b, end) ==
  WithTrees(SayTokens([c EXCEPT !.out = @ \o Flag("last", b.last = (end = Len(text))) \o Flag("stored", FALSE)
                                        \o CountSaid(Len(b.tokens), AsPredicted(Len(b.tokens), end, text, p))],
                      text, p, b.tokens), b, p)
SayBlock(c, text, p, b) ==
  IF b.kind = "stored" THEN SayStored(c, text, p, b, c.pos + SpanOfBlock(b))
  ELSE SayCoded(c, text, p, b, c.pos + SpanOfBlock(b))
RECURSIVE SayBlocks(_, _, _, _)
SayBlocks(c, text, p, blocks) ==
  IF blocks = <<>> THEN c.out ELSE SayBlocks(SayBlock(c, text, p, Head(blocks)), text, p, Tail(blocks))
Predict(text, p, blocks, start) ==
  SayBlocks([z |-> NewAt(text, start), pos |-> start, out |-> <<>>], text, p, blocks)

-----------------------------------------------------------------------------
(* recreate: the emulation again, corrected. d is where the decoder stands:*)
(* the matcher, the position, the decisions left; ok until one was another's.*)

Heard(d, ctx) == IF d.in # <<>> /\ Head(d.in).ctx = ctx THEN Head(d.in).v ELSE 0
Hear(d, ctx) ==
  IF d.in # <<>> /\ Head(d.in).ctx = ctx THEN [d EXCEPT !.in = Tail(@)] ELSE [d EXCEPT !.ok = FALSE]

RECURSIVE HearTokens(_, _, _, _, _)
Committed(d, text, p, t) == [d EXCEPT !.z = Commit(@, text, p, d.pos, t), !.pos = @ + SpanOf(t), !.tokens = Append(@, t)]

HopTo(d, text, p, len, chain) ==
  IF Heard(d, "hop") < Len(chain) THEN Committed(Hear(d, "hop"), text, p, Ref(len, chain[Heard(d, "hop") + 1]))
  ELSE [d EXCEPT !.ok = FALSE]
DistCoded(d, text, p, len, found) ==
  IF found = 1 THEN HopTo(d, text, p, len, Chain(d.z, text, d.pos))
  ELSE Committed(Hear(d, "dist"), text, p, Ref(len, Heard(d, "dist") + 1))
DistUnlike(d, text, p, len) == DistCoded(Hear(d, "hop_found"), text, p, len, Heard(d, "hop_found"))
HearDist(d, text, p, g, len) ==
  IF ~g.ref THEN DistUnlike(d, text, p, len)
  ELSE IF Heard(d, "dist_same") = 1 THEN Committed(Hear(d, "dist_same"), text, p, Ref(len, g.arg))
  ELSE DistUnlike(Hear(d, "dist_same"), text, p, len)
LenUnlike(d, text, p, g) == HearDist(Hear(d, "len"), text, p, g, Heard(d, "len") + MinMatch)
HearRef(d, text, p, g) ==
  IF ~g.ref THEN LenUnlike(d, text, p, g)
  ELSE IF Heard(d, "len_same") = 1 THEN HearDist(Hear(d, "len_same"), text, p, g, g.len)
  ELSE LenUnlike(Hear(d, "len_same"), text, p, g)
Unlike(d, text, p, g, ref) ==
  IF ref = 1 THEN HearRef(d, text, p, g)
  ELSE IF d.pos >= Len(text) THEN [d EXCEPT !.ok = FALSE]
  ELSE Committed(d, text, p, Lit(At(text, d.pos)))
HearToken(d, text, p, g) ==
  IF Heard(d, <<"same", KindOfToken(g)>>) = 1 THEN Committed(Hear(d, <<"same", KindOfToken(g)>>), text, p, g)
  ELSE Unlike(Hear(Hear(d, <<"same", KindOfToken(g)>>), <<"is_ref", KindOfToken(g)>>), text, p, g,
              Heard(Hear(d, <<"same", KindOfToken(g)>>), <<"is_ref", KindOfToken(g)>>))
HearGuessed(d, text, p, n, same, g) == HearTokens(HearToken([d EXCEPT !.z = g.z], text, p, g.token), text, p, n - 1, same)
HearTokens(d, text, p, n, same) ==
  IF n = 0 \/ (same /\ d.pos = Len(text)) \/ ~d.ok THEN d
  ELSE HearGuessed(d, text, p, n, same, PredictToken(d.z, text, p, d.pos))

Closed(d, b) == [d EXCEPT !.blocks = Append(@, b), !.tokens = <<>>]

\* The header written for keeping is read back from its bits.
HeaderRead(d, text, last, h) ==
  IF h.some THEN Closed(d, Block(last, 0, "dynamic", h.it.header, d.tokens)) ELSE [d EXCEPT !.ok = FALSE]
KeptHeader(d, text, last, bits) ==
  IF d.ok THEN HeaderRead(d, text, last, ReadHeader(bits, 0)) ELSE d
HearHeader(d, text, last, t) ==
  IF Heard(d, "header_same") = 1 THEN Closed(Hear(d, "header_same"), Block(last, 0, "dynamic", t.header, d.tokens))
  ELSE KeptHeader(Hear(Hear(d, "header_same"), "header"), text, last, Heard(Hear(d, "header_same"), "header"))
KindHeard(d, text, last, t, kind) ==
  IF kind = "dynamic" THEN HearHeader(d, text, last, t) ELSE Closed(d, Block(last, 0, kind, NoHeader, d.tokens))
OtherKind(d, text, last, t) ==
  KindHeard(Hear(d, "kind_same"), text, last, t, IF Heard(d, "kind_same") = 1 THEN "dynamic" ELSE "fixed")
HearKind(d, text, last, t, kind) ==
  IF Heard(d, "kind_same") = 1 THEN KindHeard(Hear(d, "kind_same"), text, last, t, kind)
  ELSE OtherKind(Hear(d, "kind_same"), text, last, t)
HearTrees(d, text, p, last, t) == HearKind(d, text, (last = 1) = (d.pos = Len(text)), t, KindOf(t, Span(d.tokens), p.fixed))
TokensHeard(d, text, p, last) == IF d.ok THEN HearTrees(d, text, p, last, Build(d.tokens)) ELSE d
HearCount(d, text, p, last) ==
  IF Heard(d, "block_same") = 1
    THEN TokensHeard(HearTokens(Hear(d, "block_same"), text, p, p.tokens, TRUE), text, p, last)
    ELSE TokensHeard(HearTokens(Hear(Hear(d, "block_same"), "block_count"), text, p,
                                Heard(Hear(d, "block_same"), "block_count"), FALSE), text, p, last)

StoredHeard(d, text, p, last, end) ==
  IF end > Len(text) THEN [d EXCEPT !.ok = FALSE]
  ELSE Closed([d EXCEPT !.z = Through(@, text, p, d.pos, end), !.pos = end],
              Block((last = 1) = (end = Len(text)), 0, "stored", NoHeader,
                    [i \in 1..(end - d.pos) |-> Lit(At(text, d.pos + i - 1))]))
HearStored(d, text, p, last) == StoredHeard(Hear(d, "stored_len"), text, p, last, d.pos + Heard(d, "stored_len"))
HearBody(d, text, p, last, stored) ==
  IF stored = 1 THEN HearStored(Hear(d, "stored"), text, p, last) ELSE HearCount(Hear(d, "stored"), text, p, last)
HearBlock(d, text, p) ==
  HearBody(Hear(d, "last"), text, p, Heard(d, "last"), Heard(Hear(d, "last"), "stored"))
RECURSIVE HearBlocks(_, _, _, _)
HearBlocks(d, text, p, n) == IF n = 0 \/ ~d.ok THEN d ELSE HearBlocks(HearBlock(d, text, p), text, p, n - 1)
Reached(d, end) == IF d.ok /\ d.pos = end THEN Some(d.blocks) ELSE None
Recreate(text, p, said, n, start, end) ==
  Reached(HearBlocks([z |-> NewAt(text, start), pos |-> start, in |-> said, ok |-> TRUE, tokens |-> <<>>, blocks |-> <<>>],
                     text, p, n), end)

-----------------------------------------------------------------------------
(* The recipe.                                                             *)

\* The blocks cut into chunks: what is left, where the chunk began and its blocks so far.
RECURSIVE CutChunks(_, _, _, _)
ChunkOf(part, start, end) == [blocks |-> part, start |-> start, end |-> end, bit |-> part[1].at % ByteBits]
CutAt(blocks, part, start, at) ==
  IF at - start >= Chunk \/ Len(blocks) = 1
    THEN <<ChunkOf(part, start, at)>> \o CutChunks(Tail(blocks), <<>>, at, at)
    ELSE CutChunks(Tail(blocks), part, start, at)
CutChunks(blocks, part, start, at) ==
  IF blocks = <<>> THEN <<>>
  ELSE CutAt(blocks, Append(part, Head(blocks)), start, at + SpanOfBlock(Head(blocks)))

RecipeChunk(text, p, c) ==
  [len |-> c.end - c.start, blocks |-> Len(c.blocks), bit |-> c.bit, said |-> Predict(text, p, c.blocks, c.start)]
RecipeOf(text, p, chunks) ==
  [p |-> p, chunks |-> [i \in DOMAIN chunks |-> RecipeChunk(text, p, chunks[i])]]

\* close: each chunk from its bit on, the byte two share joined.
ToBytes(s) == [i \in 1..(Aligned(Len(s)) \div ByteBits) |-> Get(Padded(s), (i - 1) * ByteBits, ByteBits)]
Piece(c, blocks) ==
  [bytes |-> ToBytes(WriteOn(Zeros(c.bit), blocks)), partial |-> Len(WriteOn(Zeros(c.bit), blocks)) % ByteBits]
PieceOf(c, b) == IF b.some THEN Some(Piece(c, b.it)) ELSE None
JoinedAt(out, partial, bytes) ==
  IF partial > 0 /\ bytes # <<>> THEN [out EXCEPT ![Len(out)] = @ + bytes[1]] \o Tail(bytes) ELSE out \o bytes
RECURSIVE ClosePieces(_, _, _, _, _, _)
WithPiece(text, p, chunks, start, out, partial, piece) ==
  IF ~piece.some THEN None
  ELSE ClosePieces(text, p, Tail(chunks), start + Head(chunks).len, JoinedAt(out, partial, piece.it.bytes), piece.it.partial)
ClosePieces(text, p, chunks, start, out, partial) ==
  IF chunks = <<>> THEN IF start = Len(text) THEN Some(out) ELSE None
  ELSE WithPiece(text, p, chunks, start, out, partial,
         PieceOf(Head(chunks), Recreate(text, p, Head(chunks).said, Head(chunks).blocks, start, start + Head(chunks).len)))
Close(text, recipe) == ClosePieces(text, recipe.p, recipe.chunks, 0, <<>>, 0)

\* open_in: a stream that does not come back bit for bit is refused.
Checked(data, o, back) ==
  IF back.some /\ back.it = SubSeq(ToBytes(data), 1, o.consumed) THEN Some(o) ELSE None
OpenedAs(data, o) == Checked(data, o, Close(o.plain, o.recipe))
OpenWith(data, r, p) ==
  OpenedAs(data, [plain |-> r.plain, consumed |-> Aligned(r.pos) \div ByteBits,
                  recipe |-> RecipeOf(r.plain, p, CutChunks(r.blocks, <<>>, 0, 0))])
OpenParsed(data, r) == IF r.some THEN OpenWith(data, r.it, Detect(r.it.plain, r.it.blocks)) ELSE None
Open(data) == OpenParsed(data, Parse(data))
=============================================================================
