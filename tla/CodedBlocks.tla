----------------------------- MODULE CodedBlocks ------------------------------
(***************************************************************************)
(* A coded block: its payload as encode_block_coded (v7_encode.rs) writes  *)
(* it from literals and the codes of the sequences, its sections read back *)
(* (v7_decode.rs), and its sequences copied out, wild while a margin is    *)
(* left. What a code stream's bytes are under a table is Tans's: here a    *)
(* byte that the table alone gives back.                                   *)
(*                                                                         *)
(* Its literals (bits.rs, huffman.rs, huff8.rs): length-limited canonical  *)
(* Huffman codes, their packed table, and the section whose streams hold   *)
(* the codes, symbol i in stream i modulo their number. A stream is read   *)
(* by loads of eight bytes, in batches that a bound on what they take      *)
(* keeps inside the payload, then clamped.                                 *)
(***************************************************************************)
EXTENDS MatchBytes

CONSTANTS
  Symbols,    \* of the alphabet: 256
  MaxCodeLen, \* MAX_CODE_LEN
  Run,        \* unused symbols a nibble of the packed table counts: 16
  STREAMS,
  SingleMax   \* SINGLE_MAX_SYMBOLS

PAD == 8

-----------------------------------------------------------------------------
(* Bits, least significant first, and the framing of a section.            *)

RECURSIVE Value(_, _, _)
Value(bits, at, n) ==
  IF n = 0 THEN 0 ELSE (IF at < Len(bits) THEN bits[at + 1] ELSE 0) + 2 * Value(bits, at + 1, n - 1)
Bits(v, n) == [i \in 1..n |-> (v \div 2^(i - 1)) % 2]

\* What a BitCursor has put by its `finish`, and the bits of what was read.
Packed(bits) == [k \in 1..((Len(bits) + 7) \div 8) |-> Value(bits, 8 * (k - 1), 8)]
BitAt(src, i) == (src[(i \div 8) + 1] \div 2^(i % 8)) % 2
BitsFrom(src, at, n) == [i \in 1..n |-> IF (at + i - 1) \div 8 < Len(src) THEN BitAt(src, at + i - 1) ELSE 0]

RECURSIVE Joined(_)
Joined(parts) == IF parts = <<>> THEN <<>> ELSE Head(parts) \o Joined(Tail(parts))
Zeros(n) == [i \in 1..n |-> 0]
SumTo(lens, k) == LET Upto[i \in 0..k] == IF i = 0 THEN 0 ELSE Upto[i - 1] + lens[i] IN Upto[k]

RECURSIVE put_varint(_)
put_varint(v) == IF v < 128 THEN <<v>> ELSE <<(v % 128) + 128>> \o put_varint(v \div 128)

\* The value and where it ends, or an end past the source.
Truncated(src) == [v |-> 0, pos |-> Len(src) + 1]
RECURSIVE Varint(_, _, _, _)
Varint(src, pos, v, shift) ==
  IF pos >= Len(src) \/ shift > 28 THEN Truncated(src)
  ELSE IF src[pos + 1] < 128 THEN [v |-> v + src[pos + 1] * 2^shift, pos |-> pos + 1]
  ELSE Varint(src, pos + 1, v + (src[pos + 1] % 128) * 2^shift, shift + 7)
get_varint(src, pos) == Varint(src, pos, 0, 0)
RECURSIVE Varints(_, _, _)
VarintThen(src, g, n) == <<g>> \o Varints(src, g.pos, n - 1)
Varints(src, pos, n) == IF n = 0 THEN <<>> ELSE VarintThen(src, get_varint(src, pos), n)

\* `Framing`: "wide" of v8, and of v9 a table of varints or, of a short section, one stream.
compact_for(n) == IF n <= SingleMax THEN "single" ELSE "compact"
framing(compact, n) == IF compact THEN compact_for(n) ELSE "wide"
StreamsOf(f) == IF f = "single" THEN 1 ELSE STREAMS
section_frame_bytes(f) == CASE f = "wide" -> 3 * (STREAMS - 1) + PAD [] f = "compact" -> STREAMS - 1 [] f = "single" -> 0

Size24(n) == <<n % 256, (n \div 256) % 256, n \div 65536>>
Framed(f, bytes) ==
  CASE f = "wide" -> Joined([k \in 1..(STREAMS - 1) |-> Size24(Len(bytes[k]))]) \o Joined(bytes) \o Zeros(PAD)
    [] f = "compact" -> Joined([k \in 1..(STREAMS - 1) |-> put_varint(Len(bytes[k]))]) \o Joined(bytes)
    [] f = "single" -> bytes[1]

\* `write_section`: stream k of what `fill` puts into it.
RECURSIVE Strided(_, _, _)
Strided(items, k, step) == IF k > Len(items) THEN <<>> ELSE items[k] \o Strided(items, k + step, step)
write_section(items, f) == Framed(f, [k \in 1..StreamsOf(f) |-> Packed(Strided(items, k, StreamsOf(f)))])

\* `split`, `split_compact`: where each stream starts in what follows the section's start
\* and its length, or none. A compact section's streams are padded by what follows them.
NoStreams == <<>>
Starts(at, lens) == [k \in 1..Len(lens) |-> [at |-> at + SumTo(lens, k - 1), len |-> lens[k]]]
Sized(at, sizes, total) ==
  IF at + SumTo(sizes, Len(sizes)) > total THEN NoStreams ELSE Starts(at, Append(sizes, total - at - SumTo(sizes, Len(sizes))))
Padded(streams, src) ==
  IF \E k \in DOMAIN streams : streams[k].at + PAD > Len(src) THEN NoStreams ELSE streams
Compact(src, len, sizes) ==
  IF \E k \in DOMAIN sizes : sizes[k].pos > Len(src) THEN NoStreams
  ELSE Padded(Sized(IF sizes = <<>> THEN 0 ELSE sizes[Len(sizes)].pos, [k \in DOMAIN sizes |-> sizes[k].v], len), src)
Wide(src, len) ==
  IF len < 3 * (STREAMS - 1) + PAD THEN NoStreams
  ELSE Sized(3 * (STREAMS - 1), [k \in 1..(STREAMS - 1) |-> src[3 * k - 2] + 256 * src[3 * k - 1] + 65536 * src[3 * k]], len - PAD)
split(src, len, f) ==
  CASE f = "wide" -> Wide(src, len)
    [] f = "compact" -> IF len + PAD > Len(src) THEN NoStreams ELSE Compact(src, len, Varints(src, 0, STREAMS - 1))
    [] f = "single" -> IF len + PAD > Len(src) THEN NoStreams ELSE <<[at |-> 0, len |-> len]>>

-----------------------------------------------------------------------------
(* Code lengths.                                                           *)

Alphabet == 0..(Symbols - 1)
Used(hist) == {s \in Alphabet : hist[s] > 0}
Counted(set) == [s \in Alphabet |-> IF s \in set THEN 1 ELSE 0]
Sum2(f, g) == [s \in Alphabet |-> f[s] + g[s]]

\* An item is a leaf or what was merged of two, with how deep each symbol is in it.
Item(w, deep) == [w |-> w, deep |-> deep]
RECURSIVE Leaves(_, _, _)
LeafThen(hist, used, s, last) == <<Item(hist[s], Counted({s}))>> \o Leaves(hist, used \ {s}, last)
Leaves(hist, used, last) ==
  IF used = {} THEN <<>>
  ELSE LeafThen(hist, used, CHOOSE s \in used : \A t \in used : hist[s] < hist[t] \/ (hist[s] = hist[t] /\ (IF last THEN s >= t ELSE s <= t)), last)

\* `take`: the lighter head; of equal ones the merged, the newest of its weight.
NewestOf(q) == CHOOSE e \in DOMAIN q : q[e].w = q[1].w /\ \A k \in DOMAIN q : q[k].w = q[1].w => k <= e
Without(q, e) == SubSeq(q, 1, e - 1) \o SubSeq(q, e + 1, Len(q))
FromMerged(leaves, merged) == merged # <<>> /\ (leaves = <<>> \/ merged[1].w <= leaves[1].w)
Held(item, leaves, merged) == [item |-> item, leaves |-> leaves, merged |-> merged]
MergedTake(leaves, merged, e) == Held(merged[e], leaves, Without(merged, e))
take(leaves, merged) ==
  IF FromMerged(leaves, merged) THEN MergedTake(leaves, merged, NewestOf(merged))
  ELSE Held(leaves[1], Tail(leaves), merged)

\* The depth grows by one for every symbol in a merge.
Deeper(f) == [s \in Alphabet |-> IF f[s] > 0 THEN f[s] + 1 ELSE 0]
RECURSIVE Merge(_, _)
Second(a, b) == Merge(b.leaves, Append(b.merged, Item(a.item.w + b.item.w, Deeper(Sum2(a.item.deep, b.item.deep)))))
First(a) == Second(a, take(a.leaves, a.merged))
Merge(leaves, merged) ==
  IF Len(leaves) + Len(merged) = 1 THEN (leaves \o merged)[1].deep ELSE First(take(leaves, merged))

\* A leaf is counted 1 before any merge.
Depths(deep) == [s \in Alphabet |-> IF deep[s] > 1 THEN deep[s] - 1 ELSE deep[s]]
huffman_lengths(hist) == IF Used(hist) = {} THEN Counted({}) ELSE Depths(Merge(Leaves(hist, Used(hist), TRUE), <<>>))

\* `package_merge`: rounds of pairing what the last gave, merged with the leaves by weight.
RECURSIVE Packages(_)
Packages(prev) ==
  IF Len(prev) < 2 THEN <<>>
  ELSE <<Item(prev[1].w + prev[2].w, Sum2(prev[1].deep, prev[2].deep))>> \o Packages(SubSeq(prev, 3, Len(prev)))
ByWeight_leaves_first(leaves, packages) == leaves \o packages
RECURSIVE ByWeight(_, _)
ByWeight(leaves, packages) ==
  IF leaves = <<>> THEN packages ELSE IF packages = <<>> THEN leaves
  ELSE IF leaves[1].w <= packages[1].w THEN <<leaves[1]>> \o ByWeight(Tail(leaves), packages)
  ELSE <<packages[1]>> \o ByWeight(leaves, Tail(packages))
RECURSIVE Rounds(_, _, _)
Rounds(leaves, prev, n) == IF n = 0 THEN prev ELSE Rounds(leaves, ByWeight(leaves, Packages(prev)), n - 1)
RECURSIVE Sums(_, _)
Sums(items, n) == IF n = 0 THEN Counted({}) ELSE Sum2(items[n].deep, Sums(items, n - 1))
PackagesOf(leaves) == Sums(Rounds(leaves, leaves, MaxCodeLen - 1), 2 * Len(leaves) - 2)
package_merge(hist) == PackagesOf(Leaves(hist, Used(hist), FALSE))

Limited(hist, lengths) == IF \A s \in Alphabet : lengths[s] <= MaxCodeLen THEN lengths ELSE package_merge(hist)
lengths_for(hist) == Limited(hist, huffman_lengths(hist))

-----------------------------------------------------------------------------
(* The packed table: a length as itself, a run of unused symbols as 0 and  *)
(* its length less one, in nibbles.                                        *)

RECURSIVE RunAt(_, _, _)
RunAt(l, i, run) == IF i < Symbols /\ l[i] = 0 /\ run < Run THEN RunAt(l, i + 1, run + 1) ELSE run
RECURSIVE Nibbles(_, _)
RunNibbles(l, i, run) == <<0, run - 1>> \o Nibbles(l, i + run)
Nibbles(l, i) ==
  IF i = Symbols THEN <<>> ELSE IF l[i] = 0 THEN RunNibbles(l, i, RunAt(l, i, 0)) ELSE <<l[i]>> \o Nibbles(l, i + 1)
Paired(n) == [k \in 1..((Len(n) + 1) \div 2) |-> n[2 * k - 1] + (IF 2 * k <= Len(n) THEN 16 * n[2 * k] ELSE 0)]
pack_lengths_v8(l) == Paired(Nibbles(l, 0))

\* The lengths and the bytes they took, or none: past the source or the symbols.
BadLengths == [l |-> <<>>, used |-> 0]
Nibble(src, k) == IF k % 2 = 0 THEN src[(k \div 2) + 1] % 16 ELSE src[(k \div 2) + 1] \div 16
RECURSIVE Unpacked(_, _, _, _)
RunOf(src, l, i, k, run) ==
  IF i + run > Symbols THEN BadLengths ELSE Unpacked(src, l, i + run, k)
UnpackAt(src, l, i, k, n) ==
  IF n > 0 THEN Unpacked(src, [l EXCEPT ![i] = n], i + 1, k + 1)
  ELSE IF (k + 1) \div 2 >= Len(src) THEN BadLengths ELSE RunOf(src, l, i, k + 2, Nibble(src, k + 1) + 1)
Unpacked(src, l, i, k) ==
  IF i = Symbols THEN [l |-> l, used |-> (k + 1) \div 2]
  ELSE IF k \div 2 >= Len(src) THEN BadLengths ELSE UnpackAt(src, l, i, k, Nibble(src, k))
unpack_lengths_v8(src) == Unpacked(src, Counted({}), 0, 0)

-----------------------------------------------------------------------------
(* Canonical codes and the decoder's table.                                *)

RECURSIVE next(_, _)
OfLength(l, n) == {s \in Alphabet : l[s] = n}
CountOf(l, n) == LET Upto[s \in 0..Symbols] == IF s = 0 THEN 0 ELSE Upto[s - 1] + (IF l[s - 1] = n THEN 1 ELSE 0) IN Upto[Symbols]
next(l, n) == IF n = 1 THEN 0 ELSE 2 * (next(l, n - 1) + CountOf(l, n - 1))
Before(l, s) == LET Upto[t \in 0..s] == IF t = 0 THEN 0 ELSE Upto[t - 1] + (IF l[t - 1] = l[s] THEN 1 ELSE 0) IN Upto[s]
build_codes(l) == [s \in Alphabet |-> IF l[s] = 0 THEN 0 ELSE next(l, l[s]) + Before(l, s)]

\* A code's bits as they are written: the most significant first.
Reversed(code, n) == [i \in 1..n |-> (code \div 2^(n - i)) % 2]
Codes(l, codes) == [s \in Alphabet |-> Reversed(codes[s], l[s])]
CodesOf(l) == Codes(l, build_codes(l))

\* None unless the lengths are a prefix code's. An entry is what the next bits start with.
Kraft(l) == LET Upto[s \in 0..Symbols] ==
                  IF s = 0 THEN 0 ELSE Upto[s - 1] + (IF l[s - 1] \in 1..MaxCodeLen THEN 2^(MaxCodeLen - l[s - 1]) ELSE 0)
            IN Upto[Symbols]
IsTable(l) == (\A s \in Alphabet : l[s] <= MaxCodeLen) /\ Kraft(l) <= 2^MaxCodeLen
Starting(bits, codes) == {s \in DOMAIN codes : codes[s] # <<>> /\ SubSeq(bits, 1, Len(codes[s])) = codes[s]}
EntryOf(bits, codes, of) ==
  IF of = {} THEN [sym |-> 0, len |-> 0] ELSE LET s == CHOOSE s \in of : TRUE IN [sym |-> s, len |-> Len(codes[s])]
Entry(bits, codes) == EntryOf(bits, codes, Starting(bits, codes))
Entries(codes) == [i \in 0..(2^MaxCodeLen - 1) |-> Entry(Bits(i, MaxCodeLen), codes)]
TableOf(l) == Entries(CodesOf(l))

-----------------------------------------------------------------------------
(* A section of codes, and its symbols back.                               *)

Coded(data, codes) == [i \in DOMAIN data |-> codes[data[i]]]
encode_with(data, codes, f) == write_section(Coded(data, codes), f)

\* Four symbols of a stream take at most this many bytes of its load's address.
BATCH_BYTES == (4 * MaxCodeLen + 7) \div 8
safe_batches(at, last) == IF at > last THEN 0 ELSE ((last - at) \div BATCH_BYTES) + 1

\* d: the stream's bit positions, the symbols so far, whether a load left the payload.
RECURSIVE Taken(_, _, _, _, _)
TakenOne(d, table, src, k, n, e) ==
  Taken([d EXCEPT !.at[k] = @ + e.len, !.out[k] = Append(@, e.sym)], table, src, k, n - 1)
Taken(d, table, src, k, n) ==
  IF n = 0 THEN d ELSE TakenOne(d, table, src, k, n, table[Value(BitsFrom(src, d.at[k], MaxCodeLen), 0, MaxCodeLen)])
Loaded(d, src, k) == [d EXCEPT !.past = @ \/ (d.at[k] \div 8) + PAD > Len(src)]

RECURSIVE Batch(_, _, _, _)
Batch(d, table, src, k) ==
  IF k > Len(d.at) THEN [d EXCEPT !.o = @ + 4 * Len(d.at)] ELSE Batch(Taken(Loaded(d, src, k), table, src, k, 4), table, src, k + 1)
RECURSIVE Batches(_, _, _, _)
Batches(d, table, src, n) == IF n = 0 THEN d ELSE Batches(Batch(d, table, src, 1), table, src, n - 1)

RECURSIVE SafeAll(_, _, _, _)
SafeAll(d, src, k, iters) ==
  IF k > Len(d.at) THEN iters ELSE SafeAll(d, src, k + 1, Least(iters, safe_batches(d.at[k] \div 8, Len(src) - PAD)))
RECURSIVE Fast(_, _, _, _)
FastThen(d, table, src, n, iters) == IF iters = 0 THEN d ELSE Fast(Batches(d, table, src, iters), table, src, n)
Fast(d, table, src, n) == FastThen(d, table, src, n, SafeAll(d, src, 1, (n - d.o) \div (4 * Len(d.at))))

\* The rest by clamped readers.
RECURSIVE Clamped(_, _, _, _)
Clamped(d, table, src, n) ==
  IF d.o = n THEN d
  ELSE Clamped([Taken(d, table, src, (d.o % Len(d.at)) + 1, 1) EXCEPT !.o = @ + 1], table, src, n)

Overrun(d, streams) == \E k \in DOMAIN streams : d.at[k] > 8 * (streams[k].at + streams[k].len)
Woven(d, n) == [i \in 1..n |-> d.out[((i - 1) % Len(d.at)) + 1][((i - 1) \div Len(d.at)) + 1]]
Decoded(d, streams, n) == [error |-> d.past \/ Overrun(d, streams), out |-> Woven(d, n)]
decode_with(table, src, streams, n) ==
  Decoded(Clamped(Fast([at |-> [k \in DOMAIN streams |-> 8 * streams[k].at], out |-> [k \in DOMAIN streams |-> <<>>],
                        o |-> 0, past |-> FALSE], table, src, n), table, src, n), streams, n)

-----------------------------------------------------------------------------
(* The block.                                                              *)

CONSTANTS
  Vector,     \* bytes of the widest copy: 32
  Lanes       \* sequences of a group of the copies: 8

Sc == INSTANCE SequenceCodes WITH
  MaxBlock <- 2 ^ 18, WalkBits <- 57, LitLens <- {}, MatchLens <- {}, Offsets <- {},
  coder <- 0, parser <- 0, decoder <- 0

WILD_MARGIN_two == 2 * Vector
WILD_MARGIN == 3 * Vector
CONTENT_PAD == 2 * Vector
SEQ_BYTES == 8
Kinds == <<"ll", "ml", "off">>
SYMBOLS == <<38, 54, 30>>

-----------------------------------------------------------------------------
(* The header and the sub-header, compact.                                 *)

\* The header: a block stored raw has no counts. The checksum is four bytes of any value.
write_compact(h) ==
  <<71, h.flags>> \o put_varint(h.uncompressed_len) \o put_varint(h.token_bytes)
  \o (IF h.raw THEN <<>> ELSE put_varint(h.token_count) \o put_varint(h.literal_len)) \o h.checksum
varint_len(v) == IF v < 128 THEN 1 ELSE IF v < 16384 THEN 2 ELSE 3
header_len(h) ==
  2 + varint_len(h.uncompressed_len) + varint_len(h.token_bytes)
  + (IF h.raw THEN 0 ELSE varint_len(h.token_count) + varint_len(h.literal_len)) + 4
payload_len(h) == IF h.raw THEN h.uncompressed_len ELSE h.token_bytes

NoHeader == [h |-> <<>>, used |-> 0]
Header(src, raw, v, at) ==
  IF at + 4 > Len(src) THEN NoHeader
  ELSE [used |-> at + 4,
        h |-> [flags |-> src[2], raw |-> raw, uncompressed_len |-> v[1].v, token_bytes |-> v[2].v,
               token_count |-> IF raw THEN 0 ELSE v[3].v, literal_len |-> IF raw THEN 0 ELSE v[4].v, checksum |-> BytesAt(src, at, 4)]]
HeaderOf(src, raw, v) == Header(src, raw, v, v[Len(v)].pos)
read_compact(src) ==
  IF Len(src) < 8 \/ src[1] # 71 THEN NoHeader
  ELSE HeaderOf(src, src[2] % 2 = 1, Varints(src, 2, IF src[2] % 2 = 1 THEN 2 ELSE 4))

Word32(d) == <<d % 256, (d \div 256) % 256, 0, 0>>
Flag(c, v) == IF c THEN v ELSE 0
SubFlags(sub) ==
  Flag("lit" \in sub.coded, 1) + Flag("ll" \in sub.coded, 2) + Flag("ml" \in sub.coded, 4) + Flag("off" \in sub.coded, 8)
  + 16 * (Flag(sub.litReuse, 1) + Flag(sub.seqReuse, 2))
SubHeaderBytes(sub, compact) ==
  IF compact
  THEN <<SubFlags(sub) + Flag(sub.dict # 0, 128)>> \o (IF sub.dict # 0 THEN Word32(sub.dict) ELSE <<>>)
       \o Joined([s \in 1..4 |-> put_varint(sub.sizes[s])])
  ELSE <<SubFlags(sub) % 16, SubFlags(sub) \div 16>> \o Word32(sub.dict) \o Joined([s \in 1..5 |-> Word32(sub.sizes[s])])

FlagSet(f) ==
  {c \in {"lit", "ll", "ml", "off"} : (f \div (CASE c = "lit" -> 1 [] c = "ll" -> 2 [] c = "ml" -> 4 [] c = "off" -> 8)) % 2 = 1}
Sub(f, reuse, dict, sizes, at) ==
  [coded |-> FlagSet(f), litReuse |-> reuse % 2 = 1, seqReuse |-> (reuse \div 2) % 2 = 1, dict |-> dict, sizes |-> sizes, at |-> at]
WordAt(src, at) == src[at + 1] + 256 * src[at + 2]
CompactSub(src, at, v) ==
  Sub(src[1] % 16, (src[1] \div 16) % 4, IF at = 5 THEN WordAt(src, 1) ELSE 0,
      [s \in 1..5 |-> IF s < 5 THEN v[s].v ELSE (Len(src) - PAD) - v[4].pos - v[1].v - v[2].v - v[3].v - v[4].v], v[4].pos)
SizesFrom(src, at) == CompactSub(src, at, Varints(src, at, 4))
ParsedSub(src, compact) ==
  IF compact THEN SizesFrom(src, IF src[1] >= 128 THEN 5 ELSE 1)
  ELSE Sub(src[1], src[2], WordAt(src, 2), [s \in 1..5 |-> WordAt(src, 2 + 4 * s)], 26)

-----------------------------------------------------------------------------
(* The encoder. A choice says which streams are coded and with which       *)
(* tables; what they cost is BlockTables' choice too.                      *)

NoTables == [lit |-> <<>>, seq |-> <<>>]

Hist(data) == [s \in Alphabet |-> SumTo([i \in DOMAIN data |-> IF data[i] = s THEN 1 ELSE 0], Len(data))]
Covers(l, data) == l # <<>> /\ \A i \in DOMAIN data : l[data[i]] > 0

\* The literals' section, and their lengths from then on.
LitSection(lits, f, mode, l) ==
  CASE mode = "raw" -> lits
    [] mode = "fresh" -> pack_lengths_v8(l) \o encode_with(lits, CodesOf(l), f)
    [] mode = "reuse" -> encode_with(lits, CodesOf(l), f)

\* `write_tans_table`: the count of counts, then each as its width and what is below its top bit.
Width(c) == IF c = 0 THEN 0 ELSE Sc!log2(c) + 1
CountBits(c) == Bits(Width(c), 4) \o (IF Width(c) >= 2 THEN Bits(c - 2^(Width(c) - 1), Width(c) - 1) ELSE <<>>)
write_tans_table(counts) == <<Len(counts)>> \o Packed(Joined([i \in DOMAIN counts |-> CountBits(counts[i])]))

\* `tans_counts`: the counts and the bytes they took.
RECURSIVE CountsFrom(_, _, _, _)
CountThen(src, bit, n, counts, w) ==
  CountsFrom(src, bit + 4 + Most(0, w - 1), n - 1,
             Append(counts, IF w >= 2 THEN 2^(w - 1) + Value(BitsFrom(src, bit + 4, w - 1), 0, w - 1) ELSE w))
CountsFrom(src, bit, n, counts) ==
  IF n = 0 THEN [counts |-> counts, used |-> (bit + 7) \div 8]
  ELSE CountThen(src, bit, n, counts, Value(BitsFrom(src, bit, 4), 0, 4))
tans_counts(src) == CountsFrom(src, 8, src[1], <<>>)

\* A code under a table: its place in what the counts span.
Under(counts, code) == (code + SumTo(counts, Len(counts))) % 256
Over(counts, byte) == (byte + 256 - (SumTo(counts, Len(counts)) % 256)) % 256
CountsOf(codes) ==
  [c \in 1..(1 + CHOOSE m \in {codes[i] : i \in DOMAIN codes} : \A i \in DOMAIN codes : codes[i] <= m) |->
    SumTo([i \in DOMAIN codes |-> IF codes[i] = c - 1 THEN 1 ELSE 0], Len(codes))]

CodeSection(codes, f, coded, reuse, counts) ==
  IF ~coded THEN codes
  ELSE (IF reuse THEN <<>> ELSE write_tans_table(counts))
       \o write_section([i \in DOMAIN codes |-> Bits(Under(counts, codes[i]), 8)], f)

\* `put_wide` and the walk's order: literals, match, offset.
ExtraBits(q) == Bits(q.ll.extra, q.ll.bits) \o Bits(q.ml.extra, q.ml.bits) \o Bits(q.off.extra, q.off.bits)

Sizes(sections) == [s \in 1..5 |-> Len(sections[s])]
Payload(sub, compact, sections) == SubHeaderBytes(sub, compact) \o Joined(sections)
Written(choice, compact, sections) ==
  Payload([coded |-> choice.coded \cup (IF choice.lit = "raw" THEN {} ELSE {"lit"}), litReuse |-> choice.lit = "reuse",
           seqReuse |-> choice.reuse, dict |-> choice.dict, sizes |-> Sizes(sections)], compact, sections)

\* What each stream's table is: the last block's or its own.
SeqTables(prev, choice, streams) == IF choice.reuse THEN prev.seq ELSE [k \in 1..3 |-> CountsOf(streams[k])]
Sections(lits, seqs, choice, compact, l, streams, tables) ==
  <<LitSection(lits, framing(compact, Len(lits)), choice.lit, l)>>
  \o [k \in 1..3 |-> CodeSection(streams[k], framing(compact, Len(seqs)), Kinds[k] \in choice.coded, choice.reuse, tables[k])]
  \o <<write_section([i \in DOMAIN seqs |-> ExtraBits(seqs[i])], framing(compact, Len(seqs)))>>
EncodedWith(lits, seqs, prev, choice, compact, l, streams, tables) ==
  [bytes |-> Written(choice, compact, Sections(lits, seqs, choice, compact, l, streams, tables)),
   prev |-> [lit |-> IF choice.lit = "fresh" THEN l ELSE prev.lit,
             seq |-> IF choice.coded = {"ll", "ml", "off"} THEN tables ELSE <<>>]]
EncodedFrom(lits, seqs, prev, choice, compact, streams) ==
  EncodedWith(lits, seqs, prev, choice, compact,
              IF choice.lit = "reuse" THEN prev.lit ELSE lengths_for(Hist(lits)), streams, SeqTables(prev, choice, streams))
encode_block_coded(lits, seqs, prev, choice, compact) ==
  EncodedFrom(lits, seqs, prev, choice, compact,
              <<[i \in DOMAIN seqs |-> seqs[i].ll.code], [i \in DOMAIN seqs |-> seqs[i].ml.code], [i \in DOMAIN seqs |-> seqs[i].off.code]>>)

-----------------------------------------------------------------------------
(* The decoder: sections, code streams, the walk over the extra bits.      *)

\* A section: from its start, to its own end in a wide block, else to the payload's.
Section(src, compact, at, len) == IF compact THEN SubSeq(src, at + 1, Len(src)) ELSE SubSeq(src, at + 1, at + len)
SectionStart(sub, s) == sub.at + SumTo(sub.sizes, s - 1)

BadStream == [error |-> TRUE, codes |-> <<>>, counts |-> <<>>]
Gathered(src, streams, n, counts) ==
  [error |-> streams = NoStreams, counts |-> counts,
   codes |-> IF streams = NoStreams THEN <<>>
             ELSE [i \in 1..n |-> Over(counts, src[streams[((i - 1) % Len(streams)) + 1].at + ((i - 1) \div Len(streams)) + 1])]]
CodedStream(src, len, n, f, counts) == Gathered(src, split(src, len, f), n, counts)
OwnTable(src, len, n, f, t) == CodedStream(SubSeq(src, t.used + 1, Len(src)), len - t.used, n, f, t.counts)

\* `code_stream_open`: raw codes are as many as the sequences.
CodeStream(src, len, n, f, coded, reuse, before) ==
  IF ~coded THEN [error |-> len # n, codes |-> SubSeq(src, 1, Least(n, Len(src))), counts |-> <<>>]
  ELSE IF ~reuse THEN OwnTable(src, len, n, f, tans_counts(src))
  ELSE IF before = <<>> THEN BadStream ELSE CodedStream(src, len, n, f, before)

\* One sequence: its load holds what is left of eight bytes from its stream's bit.
Widths(c) == [ll |-> Sc!LL_BITS[c.ll], ml |-> Sc!ML_BITS[c.ml], off |-> IF c.off < 3 THEN 0 ELSE c.off - 3]
Walked(d, c, k, g, w) ==
  [d EXCEPT !.seqs = Append(@, [ll |-> g.ll, ml |-> g.ml, off |-> g.offset]), !.reps = g.reps, !.at[k] = @ + w.ll + w.ml + w.off]
Literal(d, c, k, ll) ==
  [d EXCEPT !.seqs = Append(@, [ll |-> ll, ml |-> 0, off |-> 0]), !.at[k] = @ + Sc!LL_BITS[c.ll]]
Chunk(c, bits) == [ll |-> c.ll, ml |-> c.ml, off |-> c.off, extra |-> bits]
OneFrom(d, c, k, bits) == Walked(d, c, k, Sc!Decoded(d.reps, Chunk(c, bits)), Widths(c))

\* The walk of one load a sequence, short of the last; the load flagged when it leaves the payload.
Fields(codes, i) == [ll |-> codes[1][i], ml |-> codes[2][i], off |-> codes[3][i]]
WalkOne(d, codes, src, i, k) ==
  OneFrom([d EXCEPT !.past = @ \/ (d.at[k] \div 8) + PAD > Len(src)], Fields(codes, i), k, BitsFrom(src, d.at[k], 64 - (d.at[k] % 8)))
RECURSIVE Walk(_, _, _, _)
Walk(d, codes, src, n) ==
  IF n = 0 THEN d
  ELSE Walk(WalkOne(d, codes, src, Len(d.seqs) + 1, (Len(d.seqs) % Len(d.at)) + 1), codes, src, n - 1)

safe_seqs(at, last) == IF at > last THEN 0 ELSE ((last - at) \div SEQ_BYTES) + 1
RECURSIVE SafeSeqs(_, _, _, _)
SafeSeqs(d, src, k, iters) ==
  IF k > Len(d.at) THEN iters ELSE SafeSeqs(d, src, k + 1, Least(iters, safe_seqs(d.at[k] \div 8, Len(src) - PAD)))
RECURSIVE Batched(_, _, _, _)
BatchThen(d, codes, src, n, iters) == IF iters = 0 THEN d ELSE Batched(Walk(d, codes, src, iters * Len(d.at)), codes, src, n)
Batched(d, codes, src, n) ==
  BatchThen(d, codes, src, n, SafeSeqs(d, src, 1, Most(0, (n - Len(d.seqs)) - 1) \div Len(d.at)))

\* The tail by clamped readers: in the last sequence match code 0 is no match.
TailOne(d, c, src, i, n, k, bits) ==
  IF c.ml = 0 /\ i = n THEN Literal(d, c, k, Sc!LL_BASE[c.ll] + Value(bits, 0, Sc!LL_BITS[c.ll])) ELSE OneFrom(d, c, k, bits)
TailAt(d, codes, src, i, n, k) == TailOne(d, Fields(codes, i), src, i, n, k, BitsFrom(src, d.at[k], 64))
RECURSIVE TailOf(_, _, _, _)
TailOf(d, codes, src, n) ==
  IF Len(d.seqs) = n THEN d
  ELSE TailOf(TailAt(d, codes, src, Len(d.seqs) + 1, n, (Len(d.seqs) % Len(d.at)) + 1), codes, src, n)

Ended(d, streams) == [seqs |-> d.seqs, error |-> d.past \/ Overrun(d, streams)]
WalkOver(codes, src, n, streams) ==
  IF streams = NoStreams THEN [seqs |-> <<>>, error |-> TRUE]
  ELSE Ended(TailOf(Batched([at |-> [k \in DOMAIN streams |-> 8 * streams[k].at], seqs |-> <<>>, reps |-> Sc!new, past |-> FALSE],
                         codes, src, n), codes, src, n), streams)
WalkSection(codes, src, len, n, f) == WalkOver(codes, src, n, split(src, len, f))

\* `literals`.
LitsUnder(src, len, n, f, l) ==
  IF ~IsTable(l) \/ split(src, len, f) = NoStreams THEN [error |-> TRUE, out |-> <<>>, l |-> l]
  ELSE LET d == decode_with(TableOf(l), src, split(src, len, f), n) IN [error |-> d.error, out |-> d.out, l |-> l]
FreshLits(src, len, n, f, t) ==
  IF t = BadLengths THEN [error |-> TRUE, out |-> <<>>, l |-> <<>>]
  ELSE LitsUnder(SubSeq(src, t.used + 1, Len(src)), len - t.used, n, f, t.l)
literals(src, len, n, f, coded, reuse, l) ==
  IF ~coded THEN [error |-> len # n, out |-> SubSeq(src, 1, Least(n, Len(src))), l |-> l]
  ELSE IF ~reuse THEN FreshLits(src, len, n, f, unpack_lengths_v8(src))
  ELSE IF l = <<>> THEN [error |-> TRUE, out |-> <<>>, l |-> l] ELSE LitsUnder(src, len, n, f, l)

\* The passes before the copies, and the tables after them. The payload is padded.
Passed(sub, streams, walk, lits) ==
  [error |-> lits.error \/ walk.error, lits |-> lits.out, seqs |-> walk.seqs,
   prev |-> [lit |-> lits.l,
             seq |-> IF {"ll", "ml", "off"} \subseteq sub.coded THEN [k \in 1..3 |-> streams[k].counts] ELSE <<>>]]
StreamK(src, compact, sub, n_seq, prev, k) ==
  CodeStream(Section(src, compact, SectionStart(sub, k + 1), sub.sizes[k + 1]), sub.sizes[k + 1], n_seq, framing(compact, n_seq),
             Kinds[k] \in sub.coded, sub.seqReuse, IF prev.seq = <<>> THEN <<>> ELSE prev.seq[k])
BadPayload(prev) == [error |-> TRUE, lits |-> <<>>, seqs |-> <<>>, prev |-> prev]
PassesOver(src, compact, sub, n_seq, n_lit, prev, streams) ==
  IF \E k \in 1..3 : streams[k].error THEN BadPayload(prev)
  ELSE Passed(sub, streams,
         WalkSection([k \in 1..3 |-> streams[k].codes], Section(src, compact, SectionStart(sub, 5), sub.sizes[5]), sub.sizes[5], n_seq,
                     framing(compact, n_seq)),
         literals(Section(src, compact, SectionStart(sub, 1), sub.sizes[1]), sub.sizes[1], n_lit, framing(compact, n_lit),
                  "lit" \in sub.coded, sub.litReuse, prev.lit))
Passes(src, compact, sub, n_seq, n_lit, prev) ==
  IF (sub.litReuse /\ "lit" \notin sub.coded) \/ (sub.seqReuse /\ ~({"ll", "ml", "off"} \subseteq sub.coded)) THEN BadPayload(prev)
  ELSE PassesOver(src, compact, sub, n_seq, n_lit, prev,
                  <<StreamK(src, compact, sub, n_seq, prev, 1), StreamK(src, compact, sub, n_seq, prev, 2), StreamK(src, compact, sub, n_seq, prev, 3)>>)
decode_padded(src, compact, n_seq, n_lit, prev) == Passes(src, compact, ParsedSub(src, compact), n_seq, n_lit, prev)

-----------------------------------------------------------------------------
(* The copies. m.mem is the output with what is before it, the window;     *)
(* past is a store or a load outside its buffer.                           *)

Store(m, d, from, s, n) ==
  IF d + n > Len(m.mem) \/ s + n > Len(from) THEN [m EXCEPT !.past = TRUE]
  ELSE [m EXCEPT !.mem = SubSeq(@, 1, d) \o SubSeq(from, s + 1, s + n) \o SubSeq(@, d + n + 1, Len(@))]

\* Steps of the output's own bytes, or of another buffer's, until `end` is reached.
RECURSIVE Own(_, _, _, _, _)
Own(m, d, s, step, n) == IF n <= 0 THEN m ELSE Own(Store(m, d, m.mem, s, step), d + step, s + step, step, n - step)
RECURSIVE Others(_, _, _, _, _, _)
Others(m, d, from, s, step, n) == IF n <= 0 THEN m ELSE Others(Store(m, d, from, s, step), d + step, from, s + step, step, n - step)

\* One wide copy, three more past its width, a loop past those.
Wide4(n) == IF n <= Vector THEN Vector ELSE Most(n, 4 * Vector)

\* `short_match`: below an eighth the period once by hand, then at a multiple of it.
Half == Vector \div 2
Quarter == Vector \div 4
short_match(m, d, off, ml) ==
  IF off >= Half THEN Own(m, d, d - off, Half, ml)
  ELSE IF off >= Quarter THEN Own(m, d, d - off, Quarter, ml)
  ELSE Own(Own(m, d, d - off, 1, Quarter), d + Quarter, d + Quarter - off * ((Quarter + off - 1) \div off), Quarter, ml - Quarter)

MatchWild(m, d, ml, off) == IF off >= Vector THEN Own(m, d, d - off, Vector, Wide4(ml)) ELSE short_match(m, d, off, ml)
copy_seq_wild(m, d, lits, lp, q) == MatchWild(Others(m, d, lits, lp, Vector, Wide4(q.ll)), d + q.ll, q.ml, q.off)

\* A match from the dictionary, and what it wants past its end at the offset.
Into(m, d, ml, off, n) == Own(m, d + n, d + n - off, 1, ml - n)
copy_seq_wild_ext(m, d, lits, lp, q, into, ext) ==
  Into(Others(Others(m, d, lits, lp, Vector, q.ll), d + q.ll, ext \o Zeros(CONTENT_PAD), Len(ext) - into, Vector, Least(q.ml, into)),
       d + q.ll, q.ml, q.off, Least(q.ml, into))
copy_seq_from_ext(m, d, lits, lp, q, into, ext) ==
  Into(Others(Others(m, d, lits, lp, 1, q.ll), d + q.ll, ext, Len(ext) - into, 1, Least(q.ml, into)), d + q.ll, q.ml, q.off, Least(q.ml, into))
copy_seq_exact(m, d, lits, lp, q) == Own(Others(m, d, lits, lp, 1, q.ll), d + q.ll, d + q.ll - q.off, 1, q.ml)

Next(c, m, q) == [c EXCEPT !.m = m, !.d = @ + q.ll + q.ml, !.lp = @ + q.ll, !.i = @ + 1]
Reaches(q, available, ext) == q.off # 0 /\ q.off <= available + Len(ext)

\* Whole groups before the last sequence, while every store ends in the buffer.
RECURSIVE Groups(_, _, _, _)
WildOne(c, seqs, lits, ext, q, available) ==
  IF (q.off = 0 \/ q.off > available) /\ ~Reaches(q, available, ext) THEN [c EXCEPT !.error = TRUE]
  ELSE IF c.d + q.ll + q.ml > Len(c.m.mem) - WILD_MARGIN THEN c
  ELSE Groups(Next(c, IF q.off > available THEN copy_seq_wild_ext(c.m, c.d, lits, c.lp, q, q.off - available, ext)
                      ELSE copy_seq_wild(c.m, c.d, lits, c.lp, q), q), seqs, lits, ext)
Groups(c, seqs, lits, ext) ==
  IF (c.i % Lanes = 0 /\ c.i + Lanes >= Len(seqs)) THEN c
  ELSE WildOne(c, seqs, lits, ext, seqs[c.i + 1], c.d + seqs[c.i + 1].ll)

RECURSIVE Exactly(_, _, _, _, _)
ExactOne(c, seqs, lits, ext, len, q, available) ==
  IF q.ml # 0 /\ (q.off = 0 \/ q.off > available)
  THEN IF ~Reaches(q, available, ext) THEN [c EXCEPT !.error = TRUE]
       ELSE Exactly(Next(c, copy_seq_from_ext(c.m, c.d, lits, c.lp, q, q.off - available, ext), q), seqs, lits, ext, len)
  ELSE Exactly(Next(c, copy_seq_exact(c.m, c.d, lits, c.lp, q), q), seqs, lits, ext, len)
Exactly(c, seqs, lits, ext, len) ==
  IF c.error \/ c.i = Len(seqs) THEN c ELSE ExactOne(c, seqs, lits, ext, len, seqs[c.i + 1], c.d + seqs[c.i + 1].ll)

\* The window is what stands before the output, `room` what the output may take.
Start(window, room) == [m |-> [mem |-> window \o Zeros(room), past |-> FALSE], d |-> Len(window), lp |-> 0, i |-> 0, error |-> FALSE]
Groupwise(c, seqs, lits, ext, room) == IF room >= WILD_MARGIN THEN Groups(c, seqs, lits, ext) ELSE c
Copied(c, window, len) ==
  [error |-> c.error \/ c.m.past \/ c.d # Len(window) + len, out |-> SubSeq(c.m.mem, Len(window) + 1, Len(window) + len)]
copies(seqs, lits, window, room, len, ext) ==
  Copied(Exactly(Groupwise(Start(window, room), seqs, lits \o Zeros(WILD_MARGIN), ext, room), seqs, lits \o Zeros(WILD_MARGIN), ext, len),
         window, len)

Total(seqs) == SumTo([i \in DOMAIN seqs |-> seqs[i].ll + seqs[i].ml], Len(seqs))
TotalLits(seqs) == SumTo([i \in DOMAIN seqs |-> seqs[i].ll], Len(seqs))
CopiesOf(p, window, room, len, ext) ==
  IF p.error \/ TotalLits(p.seqs) # Len(p.lits) \/ Total(p.seqs) # len \/ len > room THEN [error |-> TRUE, out |-> <<>>]
  ELSE copies(p.seqs, p.lits, window, room, len, ext)

-----------------------------------------------------------------------------
(* Whole blocks: written one after another, and read back in the window of *)
(* what is out. What follows a block stands in for its padding.            *)

HeaderFor(raw, reset, len, bytes, n_seq, n_lit) ==
  [flags |-> Flag(raw, 1) + Flag(reset, 2) + 96, raw |-> raw, uncompressed_len |-> len, token_bytes |-> bytes,
   token_count |-> n_seq, literal_len |-> n_lit, checksum |-> <<1, 2, 3, 4>>]
RawBlock(chunk, reset) ==
  [bytes |-> write_compact(HeaderFor(TRUE, reset, Len(chunk), Len(chunk), 0, 0)) \o chunk, prev |-> NoTables]
CodedFrom(len, reset, n_seq, n_lit, e) ==
  [bytes |-> write_compact(HeaderFor(FALSE, reset, len, Len(e.bytes), n_seq, n_lit)) \o e.bytes, prev |-> e.prev]
write_coded_block(len, reset, lits, seqs, prev, choice) ==
  CodedFrom(len, reset, Len(seqs), Len(lits), encode_block_coded(lits, seqs, prev, choice, TRUE))

\* What a block's choice may be: a table is taken over only when it covers what is coded.
CoversCodes(tables, seqs) ==
  /\ tables # <<>>
  /\ \A i \in DOMAIN seqs, k \in 1..3 :
       LET c == <<seqs[i].ll.code, seqs[i].ml.code, seqs[i].off.code>>[k] + 1 IN c <= Len(tables[k]) /\ tables[k][c] > 0
IsChoice(choice, lits, seqs, prev) ==
  /\ choice.lit = "reuse" => Covers(prev.lit, lits)
  /\ choice.reuse => choice.coded = {"ll", "ml", "off"} /\ CoversCodes(prev.seq, seqs)

\* All that can be coded, coded, with the last tables where they cover.
AllCoded(lits, seqs, prev, dict) ==
  [lit |-> IF Covers(prev.lit, lits) THEN "reuse" ELSE "fresh", coded |-> {"ll", "ml", "off"},
   reuse |-> CoversCodes(prev.seq, seqs), dict |-> dict]
NoneCoded(dict) == [lit |-> "raw", coded |-> {}, reuse |-> FALSE, dict |-> dict]

\* A block coded, coded as literals alone, left uncoded or stored raw, as its sizes say.
\* A chain's first block resets the decoder's tables, but a dictionary's goes on from them.
LitCodes(n) == <<[ll |-> Sc!ll_code(n), ml |-> Sc!ml_code(Sc!MIN_MATCH), off |-> Sc!Code(0, 0, 0)]>>
WithChoice(chunk, b, prev, choice, reset) == write_coded_block(b.len, reset, b.lits, b.codes, prev, choice)
BlockOf(kind, chunk, b, prev, dict, reset) ==
  CASE kind = "coded" -> WithChoice(chunk, b, prev, AllCoded(b.lits, b.codes, prev, dict), reset)
    [] kind = "none" -> WithChoice(chunk, b, prev, NoneCoded(dict), reset)
    [] kind = "literals" ->
         write_coded_block(b.len, reset, chunk, LitCodes(b.len), prev, AllCoded(chunk, LitCodes(b.len), prev, dict))
    [] kind = "raw" -> RawBlock(chunk, reset)

\* The blocks of a text in turn, of the kinds in turn.
RECURSIVE WriteBlocks(_, _, _, _, _, _)
WriteThen(text, blocks, kinds, dict, e) ==
  e.bytes \o WriteBlocks(SubSeq(text, blocks[1].len + 1, Len(text)), Tail(blocks), Append(Tail(kinds), Head(kinds)), dict, FALSE, e.prev)
WriteBlocks(text, blocks, kinds, dict, first, prev) ==
  IF blocks = <<>> THEN <<>>
  ELSE WriteThen(text, blocks, kinds, dict,
         BlockOf(kinds[1], SubSeq(text, 1, blocks[1].len), blocks[1], IF blocks[1].fresh THEN NoTables ELSE prev, dict, first /\ dict = 0))

\* A dictionary's tables, trained on samples and on every symbol once.
DictTables(lits, seqs) ==
  [lit |-> lengths_for([s \in Alphabet |-> 1 + Hist(lits)[s]]),
   seq |-> [k \in 1..3 |-> [c \in 1..SYMBOLS[k] |-> 1 + SumTo([i \in DOMAIN seqs |-> IF <<seqs[i].ll.code, seqs[i].ml.code, seqs[i].off.code>>[k] = c - 1 THEN 1 ELSE 0], Len(seqs))]]]

is_plausible(h) ==
  h.raw \/ (/\ h.token_count <= (h.uncompressed_len \div 3) + 1 /\ h.literal_len <= h.uncompressed_len
            /\ h.token_bytes <= 2 * h.uncompressed_len + 4096)

PaddedPayload(src, at, len) ==
  IF at + len + PAD <= Len(src) THEN BytesAt(src, at, len + PAD) ELSE BytesAt(src, at, len) \o Zeros(PAD)
block_dict_id(payload) == IF payload[1] >= 128 THEN WordAt(payload, 1) ELSE 0
NotRead(out) == [error |-> TRUE, out |-> out]

\* d: the dictionary given, or none, and what a destination has past the output.
RECURSIVE ReadBlocks(_, _, _, _, _)
AfterCopies(src, at, out, prev, d, g) ==
  IF g.error THEN NotRead(out) ELSE ReadBlocks(src, at, out \o g.out, prev, d)
AfterPasses(src, at, out, d, len, p) == AfterCopies(src, at, out, p.prev, d, CopiesOf(p, out, len + d.slack, len, d.content))
Payloads(src, at, out, prev, d, h, payload) ==
  IF block_dict_id(payload) # d.id THEN NotRead(out)
  ELSE AfterPasses(src, at, out, d, h.uncompressed_len,
         decode_padded(payload, TRUE, h.token_count, h.literal_len, IF (h.flags \div 2) % 2 = 1 THEN NoTables ELSE prev))
BlockAt(src, at, out, prev, d, h, start) ==
  IF ~is_plausible(h) \/ start + payload_len(h) > Len(src) THEN NotRead(out)
  ELSE IF h.raw THEN ReadBlocks(src, start + payload_len(h), out \o BytesAt(src, start, payload_len(h)), prev, d)
  ELSE Payloads(src, start + payload_len(h), out, prev, d, h, PaddedPayload(src, start, payload_len(h)))
HeaderAt(src, at, out, prev, d, g) ==
  IF g = NoHeader THEN NotRead(out) ELSE BlockAt(src, at, out, prev, d, g.h, at + g.used)
ReadBlocks(src, at, out, prev, d) ==
  IF at = Len(src) THEN [error |-> FALSE, out |-> out]
  ELSE HeaderAt(src, at, out, prev, d, read_compact(SubSeq(src, at + 1, Len(src))))

-----------------------------------------------------------------------------
(* What a block says, byte by byte: the dictionary, the window and the     *)
(* output are one text to copy from.                                       *)

RECURSIVE Said(_, _, _)
Said(text, seqs, lits) ==
  IF seqs = <<>> THEN text
  ELSE Said(CopyBack(text \o SubSeq(lits, 1, seqs[1].ll), seqs[1].off, seqs[1].ml), Tail(seqs),
            SubSeq(lits, seqs[1].ll + 1, Len(lits)))
Says(seqs, lits, window, ext) ==
  BytesAt(Said(ext \o window, seqs, lits), Len(ext) + Len(window), Total(seqs))

\* The codes an encoder gives the sequences, the last of them literals alone.
RECURSIVE CodesFrom(_, _)
CodesThen(q, seqs, g) == <<[ll |-> Sc!ll_code(q.ll), ml |-> Sc!ml_code(q.ml), off |-> g.off]>> \o CodesFrom(seqs, g.reps)
CodesFrom(seqs, reps) ==
  IF Len(seqs) = 1 THEN <<[ll |-> Sc!ll_code(seqs[1].ll), ml |-> Sc!ml_code(Sc!MIN_MATCH), off |-> Sc!Code(0, 0, 0)]>>
  ELSE CodesThen(seqs[1], Tail(seqs), Sc!code_for(reps, seqs[1].off, seqs[1].ll = 0))

=============================================================================
