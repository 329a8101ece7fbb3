------------------------------ MODULE Deflate ------------------------------
(***************************************************************************)
(* Deflate streams, bit for bit: parsed into blocks (stored bytes, or      *)
(* tokens under fixed or dynamic codes, a dynamic block's header kept as   *)
(* the symbols it was written with) and written back from them. A stream   *)
(* is a sequence of bits, the first of a byte its lowest. The alphabets    *)
(* and the widths of the fields are constants.                             *)
(***************************************************************************)
EXTENDS Integers, Sequences

CONSTANTS
  ByteBits,              \* 8
  Literals,              \* 256: the literals are below it, the end of a block is it
  LenBase, LenExtra,     \* LEN_BASE and LEN_EXTRA, from the shortest match on
  DistBase, DistExtra,   \* DIST_BASE and DIST_EXTRA
  MaxCode,               \* 15: the longest code
  FixedLit, FixedDist,   \* the fixed code's lengths
  HlitBits, HdistBits, HclenBits, ClenBits,   \* 5, 5, 4, 3
  HclenMin,              \* 4
  RunBase, RunBits,      \* <<3, 3, 11>> and <<2, 3, 7>>: the symbols past MaxCode are runs
  ClenOrder              \* CLEN_ORDER, of the symbols from 0

None == [some |-> FALSE]
Some(x) == [some |-> TRUE, it |-> x]
MaxMatch == LenBase[Len(LenBase)]

Lit(b) == [ref |-> FALSE, len |-> 1, arg |-> b]
Ref(len, dist) == [ref |-> TRUE, len |-> len, arg |-> dist]

\* A length of one more than the longest is the longest coded the long way.
SpanOf(t) == IF t.len > MaxMatch THEN MaxMatch ELSE t.len
RECURSIVE Span(_)
Span(tokens) == IF tokens = <<>> THEN 0 ELSE SpanOf(Head(tokens)) + Span(Tail(tokens))

RECURSIVE Joined(_)
Joined(ss) == IF ss = <<>> THEN <<>> ELSE Head(ss) \o Joined(Tail(ss))

RECURSIVE Number(_)
Number(bits) == IF bits = <<>> THEN 0 ELSE Head(bits) + 2 * Number(Tail(bits))
RECURSIVE Bits(_, _)
Bits(v, k) == IF k = 0 THEN <<>> ELSE <<v % 2>> \o Bits(v \div 2, k - 1)

\* BitReader::get; after align, whole bytes.
Has(s, pos, k) == pos + k <= Len(s)
Get(s, pos, k) == Number(SubSeq(s, pos + 1, pos + k))
Aligned(pos) == ((pos + ByteBits - 1) \div ByteBits) * ByteBits

-----------------------------------------------------------------------------
(* Canonical codes.                                                        *)

RECURSIVE CountOf(_, _)
CountOf(lens, l) ==
  IF lens = <<>> THEN 0 ELSE (IF Head(lens) = l THEN 1 ELSE 0) + CountOf(Tail(lens), l)
Counts(lens) == [l \in 1..MaxCode |-> CountOf(lens, l)]

\* What is left of the code space after the lengths up to l; none below 0.
RECURSIVE Left(_, _)
Left(count, l) == IF l = 0 THEN 1 ELSE 2 * Left(count, l - 1) - count[l]
Oversubscribed(count) == \E l \in 1..MaxCode : Left(count, l) < 0

\* The symbols by length, then by number.
Symbols(lens) ==
  Joined([l \in 1..MaxCode |-> Joined([s \in DOMAIN lens |-> IF lens[s] = l THEN <<s - 1>> ELSE <<>>])])

\* Decoder::new.
DecoderOf(lens, count) == IF Oversubscribed(count) THEN None ELSE Some([count |-> count, symbol |-> Symbols(lens)])
Decoder(lens) == DecoderOf(lens, Counts(lens))

\* Decoder::decode: the symbol and where the bits after it are.
RECURSIVE DecodeFrom(_, _, _, _, _, _, _)
DecodeFrom(d, s, pos, l, code, first, index) ==
  IF l > MaxCode \/ pos = Len(s) THEN None
  ELSE IF code + s[pos + 1] - d.count[l] < first
    THEN Some([sym |-> d.symbol[index + code + s[pos + 1] - first + 1], pos |-> pos + 1])
  ELSE DecodeFrom(d, s, pos + 1, l + 1, 2 * (code + s[pos + 1]), 2 * (first + d.count[l]), index + d.count[l])
Decode(d, s, pos) == DecodeFrom(d, s, pos, 1, 0, 0, 0)

\* codes: the first code of each length, then one more for each symbol; first bit first.
RECURSIVE FirstCode(_, _)
FirstCode(count, l) == IF l = 1 THEN 0 ELSE 2 * (FirstCode(count, l - 1) + count[l - 1])
RECURSIVE Backwards(_)
Backwards(s) == IF s = <<>> THEN <<>> ELSE Append(Backwards(Tail(s)), Head(s))
Code(lens, sym) ==
  LET l == lens[sym + 1]
  IN IF l = 0 THEN <<>>
     ELSE Backwards(Bits(FirstCode(Counts(lens), l) + CountOf(SubSeq(lens, 1, sym), l), l))

-----------------------------------------------------------------------------
(* Reading.                                                                *)

\* read_tokens, from r: where it stands, the text so far and the tokens.
RECURSIVE ReadTokens(_, _, _, _), CopyFrom(_, _, _)
CopyFrom(plain, dist, n) ==
  IF n = 0 THEN plain ELSE CopyFrom(Append(plain, plain[Len(plain) + 1 - dist]), dist, n - 1)

Long(i, len) == IF len = MaxMatch /\ i = Len(LenBase) - 1 THEN len + 1 ELSE len
Referred(r, t, pos) ==
  [pos |-> pos, plain |-> CopyFrom(r.plain, t.arg, SpanOf(t)), tokens |-> Append(r.tokens, t)]
AfterDist(s, lit, dist, r, t, pos) ==
  IF t.arg > Len(r.plain) THEN None ELSE ReadTokens(s, lit, dist, Referred(r, t, pos))
AfterDistCode(s, lit, dist, r, len, d) ==
  IF ~d.some \/ d.it.sym >= Len(DistBase) \/ ~Has(s, d.it.pos, DistExtra[d.it.sym + 1]) THEN None
  ELSE AfterDist(s, lit, dist, r, Ref(len, DistBase[d.it.sym + 1] + Get(s, d.it.pos, DistExtra[d.it.sym + 1])),
                 d.it.pos + DistExtra[d.it.sym + 1])
AfterLenCode(s, lit, dist, r, i, pos) ==
  IF i > Len(LenBase) \/ ~Has(s, pos, LenExtra[i]) THEN None
  ELSE AfterDistCode(s, lit, dist, r, Long(i, LenBase[i] + Get(s, pos, LenExtra[i])), Decode(dist, s, pos + LenExtra[i]))
AfterSymbol(s, lit, dist, r, d) ==
  IF ~d.some THEN None
  ELSE IF d.it.sym < Literals
    THEN ReadTokens(s, lit, dist, [pos |-> d.it.pos, plain |-> Append(r.plain, d.it.sym), tokens |-> Append(r.tokens, Lit(d.it.sym))])
  ELSE IF d.it.sym = Literals THEN Some([r EXCEPT !.pos = d.it.pos])
  ELSE AfterLenCode(s, lit, dist, r, d.it.sym - Literals, d.it.pos)
ReadTokens(s, lit, dist, r) == AfterSymbol(s, lit, dist, r, Decode(lit, s, r.pos))

\* What a symbol of the header stands for: a length, or a run of the last or of zeros.
Expanded(lens, sym, extra) ==
  IF sym <= MaxCode THEN <<sym>>
  ELSE [i \in 1..(RunBase[sym - MaxCode] + extra) |-> IF sym = MaxCode + 1 THEN lens[Len(lens)] ELSE 0]
ExtraBits(sym) == IF sym <= MaxCode THEN 0 ELSE RunBits[sym - MaxCode]

\* read_header: the counts, the code of the lengths, then the lengths.
HeaderOf(h, r) ==
  IF Len(r.lens) # h.hlit + h.hdist \/ r.lens[Literals + 1] = 0 THEN None
  ELSE Some([header |-> [hlit |-> h.hlit, hdist |-> h.hdist, hclen |-> h.hclen, clen |-> h.clen, symbols |-> r.symbols,
                         lits |-> SubSeq(r.lens, 1, h.hlit), dists |-> SubSeq(r.lens, h.hlit + 1, h.hlit + h.hdist)],
             pos |-> r.pos])
RECURSIVE ReadLens(_, _, _, _)
AfterLen(s, h, cl, r, d) ==
  IF ~d.some \/ (d.it.sym = MaxCode + 1 /\ r.lens = <<>>) \/ ~Has(s, d.it.pos, ExtraBits(d.it.sym)) THEN None
  ELSE ReadLens(s, h, cl,
         [pos |-> d.it.pos + ExtraBits(d.it.sym),
          lens |-> r.lens \o Expanded(r.lens, d.it.sym, Get(s, d.it.pos, ExtraBits(d.it.sym))),
          symbols |-> Append(r.symbols, <<d.it.sym, Get(s, d.it.pos, ExtraBits(d.it.sym))>>)])
ReadLens(s, h, cl, r) ==
  IF Len(r.lens) >= h.hlit + h.hdist THEN HeaderOf(h, r) ELSE AfterLen(s, h, cl, r, Decode(cl, s, r.pos))
HeaderCoded(s, h, pos, cl) ==
  IF cl.some THEN ReadLens(s, h, cl.it, [pos |-> pos, lens |-> <<>>, symbols |-> <<>>]) ELSE None

\* The code's lengths stand in the order of ClenOrder.
ClenAt(s, pos, hclen) ==
  [k \in 1..Len(ClenOrder) |->
     LET i == CHOOSE j \in DOMAIN ClenOrder : ClenOrder[j] = k - 1
     IN IF i <= hclen THEN Get(s, pos + (i - 1) * ClenBits, ClenBits) ELSE 0]
HeaderWith(s, h, pos) ==
  IF ~Has(s, pos, h.hclen * ClenBits) THEN None
  ELSE HeaderCoded(s, [h EXCEPT !.clen = ClenAt(s, pos, h.hclen)], pos + h.hclen * ClenBits, Decoder(ClenAt(s, pos, h.hclen)))
ReadHeader(s, pos) ==
  IF ~Has(s, pos, HlitBits + HdistBits + HclenBits) THEN None
  ELSE HeaderWith(s, [hlit |-> Get(s, pos, HlitBits) + Literals + 1,
                      hdist |-> Get(s, pos + HlitBits, HdistBits) + 1,
                      hclen |-> Get(s, pos + HlitBits + HdistBits, HclenBits) + HclenMin, clen |-> <<>>],
                  pos + HlitBits + HdistBits + HclenBits)

\* parse: blocks to the final one.
NoHeader == [hlit |-> 0, hdist |-> 0, hclen |-> 0, clen |-> <<>>, symbols |-> <<>>, lits |-> <<>>, dists |-> <<>>]
Block(last, at, kind, header, tokens) == [last |-> last, at |-> at, kind |-> kind, header |-> header, tokens |-> tokens]

BytesAt(s, pos, n) == [i \in 1..n |-> Lit(Get(s, pos + (i - 1) * ByteBits, ByteBits))]
StoredBlock(s, r, last, p, n) ==
  IF ~Has(s, p, (4 + n) * ByteBits) \/ Get(s, p + 2 * ByteBits, 2 * ByteBits) + n # 2 ^ (2 * ByteBits) - 1 THEN None
  ELSE Some([pos |-> p + (4 + n) * ByteBits,
             plain |-> r.plain \o [i \in 1..n |-> BytesAt(s, p + 4 * ByteBits, n)[i].arg],
             blocks |-> Append(r.blocks, Block(last, r.pos, "stored", NoHeader, BytesAt(s, p + 4 * ByteBits, n)))])
ReadStored(s, r, last, p) ==
  IF ~Has(s, p, 4 * ByteBits) THEN None ELSE StoredBlock(s, r, last, p, Get(s, p, 2 * ByteBits))

CodedBlock(r, last, kind, header, t) ==
  IF ~t.some THEN None
  ELSE Some([pos |-> t.it.pos, plain |-> t.it.plain,
             blocks |-> Append(r.blocks, Block(last, r.pos, kind, header, t.it.tokens))])
ReadCoded(s, r, last, kind, header, pos, lit, dist) ==
  IF ~lit.some \/ ~dist.some THEN None
  ELSE CodedBlock(r, last, kind, header, ReadTokens(s, lit.it, dist.it, [pos |-> pos, plain |-> r.plain, tokens |-> <<>>]))
ReadDynamic(s, r, last, h) ==
  IF ~h.some THEN None
  ELSE ReadCoded(s, r, last, "dynamic", h.it.header, h.it.pos, Decoder(h.it.header.lits), Decoder(h.it.header.dists))
ReadBlock(s, r) ==
  IF ~Has(s, r.pos, 3) THEN None
  ELSE CASE Get(s, r.pos + 1, 2) = 0 -> ReadStored(s, r, s[r.pos + 1] = 1, Aligned(r.pos + 3))
         [] Get(s, r.pos + 1, 2) = 1 ->
              ReadCoded(s, r, s[r.pos + 1] = 1, "fixed", NoHeader, r.pos + 3, Decoder(FixedLit), Decoder(FixedDist))
         [] Get(s, r.pos + 1, 2) = 2 -> ReadDynamic(s, r, s[r.pos + 1] = 1, ReadHeader(s, r.pos + 3))
         [] OTHER -> None

RECURSIVE ReadBlocks(_, _)
AfterBlock(s, r) ==
  IF ~r.some THEN None ELSE IF r.it.blocks[Len(r.it.blocks)].last THEN r ELSE ReadBlocks(s, r.it)
ReadBlocks(s, r) == AfterBlock(s, ReadBlock(s, r))
Parse(s) == ReadBlocks(s, [pos |-> 0, plain |-> <<>>, blocks |-> <<>>])

-----------------------------------------------------------------------------
(* Writing: what a block adds to the bits before it.                       *)

\* len_code, dist_code: the code, its extra bits and their value.
LenCode(len) ==
  IF len > MaxMatch THEN <<Literals + Len(LenBase) - 1, LenExtra[Len(LenBase) - 1], 2 ^ LenExtra[Len(LenBase) - 1] - 1>>
  ELSE LET i == CHOOSE j \in DOMAIN LenBase : LenBase[j] <= len /\ \A k \in DOMAIN LenBase : LenBase[k] <= len => k <= j
       IN <<Literals + i, LenExtra[i], len - LenBase[i]>>
DistCode(dist) ==
  LET i == CHOOSE j \in DOMAIN DistBase : DistBase[j] <= dist /\ \A k \in DOMAIN DistBase : DistBase[k] <= dist => k <= j
  IN <<i - 1, DistExtra[i], dist - DistBase[i]>>

Coded(lens, c) == Code(lens, c[1]) \o Bits(c[3], c[2])
WriteToken(t, lits, dists) ==
  IF t.ref THEN Coded(lits, LenCode(t.len)) \o Coded(dists, DistCode(t.arg)) ELSE Code(lits, t.arg)
WriteTokens(tokens, lits, dists) ==
  Joined([i \in DOMAIN tokens |-> WriteToken(tokens[i], lits, dists)]) \o Code(lits, Literals)

WriteHeader(h) ==
  Bits(h.hlit - Literals - 1, HlitBits) \o Bits(h.hdist - 1, HdistBits) \o Bits(h.hclen - HclenMin, HclenBits)
  \o Joined([i \in 1..h.hclen |-> Bits(h.clen[ClenOrder[i] + 1], ClenBits)])
  \o Joined([i \in DOMAIN h.symbols |-> Code(h.clen, h.symbols[i][1]) \o Bits(h.symbols[i][2], ExtraBits(h.symbols[i][1]))])

Zeros(n) == [i \in 1..n |-> 0]
Padded(s) == s \o Zeros(Aligned(Len(s)) - Len(s))

WriteBlock(s, b) ==
  CASE b.kind = "stored" ->
         Padded(s \o <<IF b.last THEN 1 ELSE 0, 0, 0>>)
         \o Bits(Len(b.tokens), 2 * ByteBits) \o Bits(2 ^ (2 * ByteBits) - 1 - Len(b.tokens), 2 * ByteBits)
         \o Joined([i \in DOMAIN b.tokens |-> Bits(b.tokens[i].arg, ByteBits)])
    [] b.kind = "fixed" ->
         s \o <<IF b.last THEN 1 ELSE 0, 1, 0>> \o WriteTokens(b.tokens, FixedLit, FixedDist)
    [] b.kind = "dynamic" ->
         s \o <<IF b.last THEN 1 ELSE 0, 0, 1>> \o WriteHeader(b.header)
         \o WriteTokens(b.tokens, b.header.lits, b.header.dists)

\* The blocks after the bits s already written.
RECURSIVE WriteOn(_, _)
WriteOn(s, blocks) == IF blocks = <<>> THEN s ELSE WriteOn(WriteBlock(s, Head(blocks)), Tail(blocks))
=============================================================================
