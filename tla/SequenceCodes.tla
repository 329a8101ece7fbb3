--------------------------- MODULE SequenceCodes ---------------------------
(***************************************************************************)
(* The codes of a block's sequences (src/src/v7_format.rs), as the two     *)
(* encoders of v7_encode.rs write them and v7_decode.rs reads them: a      *)
(* literal run, a match and an offset as three codes with extra bits, the  *)
(* last three offsets having codes of their own that both sides keep up.   *)
(***************************************************************************)
EXTENDS Integers, Sequences

CONSTANTS
  MaxBlock,   \* MAX_BLOCK_SIZE
  WalkBits,   \* EXTRA_BITS: what one load of the decoder's walk holds
  LitLens, MatchLens, Offsets   \* the sequences the finders find

MIN_MATCH == 3
MAX_OFFSET_BITS == 27
FAR_OFFSET_BITS == 22
FAR_MATCH_CAP == 130

SequenceCodesAssumption ==
  /\ LitLens \subseteq 0..MaxBlock /\ MatchLens \subseteq MIN_MATCH..MaxBlock
  /\ Offsets \subseteq 1..(2^MAX_OFFSET_BITS - 1)
  /\ WalkBits \in Nat

VARIABLES
  coder,    \* the Reps of encode_block
  parser,   \* the repeat offsets of find_sequences_dfast, which codes as it parses
  decoder   \* the Reps of the block decoder

vars == <<coder, parser, decoder>>

log2(v) == CHOOSE k \in 0..30 : 2^k <= v /\ v \div 2 < 2^k

-----------------------------------------------------------------------------
(* Lengths: each code's extra bits, and its base where the one before      *)
(* ends.                                                                   *)

LL_BITS == [c \in 0..37 |->
  IF c < 16 THEN 0 ELSE IF c < 25 THEN <<1, 1, 1, 1, 2, 2, 3, 3, 4>>[c - 15] ELSE c - 19]
LL_BASE[c \in 0..37] == IF c = 0 THEN 0 ELSE LL_BASE[c - 1] + 2^LL_BITS[c - 1]

ML_BITS == [c \in 0..53 |->
  IF c < 32 THEN 0 ELSE IF c < 43 THEN <<1, 1, 1, 1, 2, 2, 3, 3, 4, 4, 5>>[c - 31] ELSE c - 36]
ML_BASE[c \in 0..53] == IF c = 0 THEN MIN_MATCH ELSE ML_BASE[c - 1] + 2^ML_BITS[c - 1]

Code(c, n, x) == [code |-> c, bits |-> n, extra |-> x]

\* The last code whose base is not past v.
small_code(base, bits, v) ==
  LET c == CHOOSE c \in DOMAIN base :
             base[c] <= v /\ (c + 1 \in DOMAIN base => v < base[c + 1])
  IN  Code(c, bits[c], v - base[c])

Pow2_code(first, v) == LET k == log2(v) IN Code(first + k, k, v - 2^k)

ll_code(v) == IF v < 64 THEN small_code(LL_BASE, LL_BITS, v) ELSE Pow2_code(19, v)
ml_code(v) == IF v < 131 THEN small_code(ML_BASE, ML_BITS, v) ELSE Pow2_code(36, v - MIN_MATCH)

off_code(offset) == Pow2_code(3, offset)
off_value(code, extra) == 2^(code - 3) + extra

-----------------------------------------------------------------------------
(* Repeat offsets.                                                         *)

new == <<1, 4, 8>>

rep_symbol(rep, ll0) == IF ll0 /\ rep < 3 THEN (rep + 2) % 3 ELSE rep
rep_of_symbol(code, ll0) == IF ll0 /\ code < 3 THEN (code + 1) % 3 ELSE code

\* `code_for`: the code of an offset, and the history after it.
Rotated_swap(r) == <<r[3], r[2], r[1]>>
Rotated(r) == <<r[3], r[1], r[2]>>
code_for(r, offset, ll0) ==
  LET Rep(k, after) == [off |-> Code(rep_symbol(k, ll0), 0, 0), reps |-> after]
  IN  CASE offset = r[1] -> Rep(0, r)
        [] offset = r[2] /\ offset # r[1] -> Rep(1, <<r[2], r[1], r[3]>>)
        [] offset = r[3] /\ offset \notin {r[1], r[2]} -> Rep(2, Rotated(r))
        [] OTHER -> [off |-> off_code(offset), reps |-> <<offset, r[1], r[2]>>]

\* The same in the fast parser, by selects, and `CodeWriter::put`.
put_code(r, offset, ll0) ==
  LET rep == IF offset = r[1] THEN 0 ELSE IF offset = r[2] THEN 1 ELSE IF offset = r[3] THEN 2 ELSE 3
      symbol == rep_symbol(rep, ll0)
  IN  [off  |-> IF symbol < 3 THEN Code(symbol, 0, 0) ELSE off_code(offset),
       reps |-> <<offset, IF offset = r[1] THEN r[2] ELSE r[1],
                  IF offset \in {r[1], r[2]} THEN r[3] ELSE r[2]>>]

\* The decoder's `update`: the chosen offset moves to the front.
update(r, code, value) ==
  LET o == IF code < 3 THEN r[code + 1] ELSE value
  IN  <<o, IF code = 0 THEN r[2] ELSE r[1], IF code < 2 THEN r[3] ELSE r[2]>>

-----------------------------------------------------------------------------
(* A sequence's extra bits, least significant first: literals, match,      *)
(* offset. The count has its place above EXTRA_BITS of the word, and what  *)
(* is past them is lost.                                                   *)

Bits(c) == [i \in 1..c.bits |-> (c.extra \div 2^(i - 1)) % 2]
Chunk(ll, ml, off) ==
  LET all == Bits(ll) \o Bits(ml) \o Bits(off)
  IN  [ll |-> ll.code, ml |-> ml.code, off |-> off.code,
       extra |-> SubSeq(all, 1, IF Len(all) < WalkBits THEN Len(all) ELSE WalkBits)]

\* `field`: n bits of w from the bit `at`, zeros past its end.
field(w, at, n) ==
  LET value[k \in 0..n] ==
        IF k = 0 THEN 0
        ELSE value[k - 1] + (IF at + k <= Len(w) THEN w[at + k] ELSE 0) * 2^(k - 1)
  IN  value[n]

\* The walk: a chunk's sequence, and the history after it.
Decoded(r, c) ==
  LET lb  == LL_BITS[c.ll]
      mb  == ML_BITS[c.ml]
      ll  == LL_BASE[c.ll] + field(c.extra, 0, lb)
      code == rep_of_symbol(c.off, ll = 0)
      after == update(r, code,
        IF c.off < 3 THEN 0 ELSE off_value(c.off, field(c.extra, lb + mb, c.off - 3)))
  IN  [ll |-> ll, ml |-> ML_BASE[c.ml] + field(c.extra, lb, mb), offset |-> after[1], reps |-> after]

-----------------------------------------------------------------------------
(* What the finders find in a block. A far match is capped, unless its     *)
(* offset is a repeat; the rest of it follows as one.                      *)

Capped(r, ml, offset) ==
  IF offset >= 2^(FAR_OFFSET_BITS + 1) /\ offset \notin {r[1], r[2], r[3]} /\ ml > FAR_MATCH_CAP
  THEN FAR_MATCH_CAP ELSE ml

Coded(r, code(_, _, _), ll, ml, offset) ==
  LET o == code(r, offset, ll = 0) IN Chunk(ll_code(ll), ml_code(Capped(r, ml, offset)), o.off)

\* The next sequence of the block, coded by either encoder and decoded.
Sequence(ll, ml, offset) ==
  /\ ll + ml <= MaxBlock
  /\ coder' = code_for(coder, offset, ll = 0).reps
  /\ parser' = put_code(parser, offset, ll = 0).reps
  /\ decoder' = Decoded(decoder, Coded(parser, put_code, ll, ml, offset)).reps

\* Every block starts anew.
Block == coder' = new /\ parser' = new /\ decoder' = new

Init == coder = new /\ parser = new /\ decoder = new

Next ==
  \/ \E ll \in LitLens, ml \in MatchLens, offset \in Offsets : Sequence(ll, ml, offset)
  \/ Block

-----------------------------------------------------------------------------

\* "Repeat-offset state, identical on both sides", and whichever sequence comes
\* after whichever others, both encoders code it alike and the decoder's walk
\* gives back its lengths and its offset from one load.
SequencesDecode ==
  /\ coder = parser /\ decoder = parser
  /\ \A ll \in LitLens, ml \in MatchLens, offset \in Offsets :
       ll + ml <= MaxBlock =>
         LET c == Coded(parser, put_code, ll, ml, offset)
             d == Decoded(decoder, c)
         IN  /\ c = Coded(coder, code_for, ll, ml, offset)
             /\ d.ll = ll /\ d.ml = Capped(parser, ml, offset) /\ d.offset = offset

=============================================================================
