----------------------------- MODULE RangeCoder -----------------------------
(***************************************************************************)
(* The binary arithmetic coders: the carry-free one of the corrections and *)
(* of the cold level, an interval [x1, x2] whose settled digits go out, and *)
(* the JPEG model's, a low end and a range whose carry waits in a cache.   *)
(* A decision is a bit with the probability its context gives it, the same *)
(* on both sides; here any. A word is Digits digits (four bytes in the     *)
(* code).                                                                  *)
(***************************************************************************)
EXTENDS Integers, Sequences

CONSTANTS
  Digit,   \* 256
  Digits,  \* 4
  Odds     \* 65536, 4096 at the cold level: what a probability is of

Word == Digit ^ Digits
Unit == Word \div Digit
Top(x) == x \div Unit

\* A digit of what was written; zeros follow its end.
ByteAt(s, pos) == IF pos \in DOMAIN s THEN s[pos] ELSE 0

RECURSIVE Digits_of(_, _)
Digits_of(v, n) == IF n = 0 THEN <<>> ELSE <<Top(v)>> \o Digits_of((v * Digit) % Word, n - 1)

RECURSIVE ReadWord(_, _, _)
ReadWord(s, pos, n) == IF n = 0 THEN 0 ELSE ByteAt(s, pos + n - 1) + Digit * ReadWord(s, pos, n - 1)

-----------------------------------------------------------------------------
(* The carry-free coder.                                                   *)

Encoder == [x1 |-> 0, x2 |-> Word - 1, out |-> <<>>]

Mid(c, p) == c.x1 + ((c.x2 - c.x1) \div Odds) * p
Narrowed(c, mid, bit) == IF bit = 1 THEN [c EXCEPT !.x2 = mid] ELSE [c EXCEPT !.x1 = mid + 1]
Shifted(c) == [c EXCEPT !.x1 = (@ * Digit) % Word, !.x2 = ((@ * Digit) % Word) + Digit - 1]

RECURSIVE Settle(_)
Settle(e) ==
  IF Top(e.x1) # Top(e.x2) THEN e ELSE Settle([Shifted(e) EXCEPT !.out = Append(@, Top(e.x2))])
Encode(e, p, bit) == Settle(Narrowed(e, Mid(e, p), bit))

\* The shortest tail that lands in [x1, x2].
Cut(x, n) == (x \div Digit ^ (Digits - n)) * Digit ^ (Digits - n)
FinishIn_top(e, n) == e.out \o Digits_of(Cut(e.x1, n), n)
FinishIn(e, n) == e.out \o Digits_of(Cut(e.x2, n), n)
Finish(e) ==
  FinishIn(e, CHOOSE n \in 1..Digits : Cut(e.x2, n) >= e.x1 /\ \A m \in 1..(n - 1) : Cut(e.x2, m) < e.x1)

\* The cold level's tail.
Flush(e) == e.out \o Digits_of(e.x1, Digits)

Decoder(s) == [x1 |-> 0, x2 |-> Word - 1, x |-> ReadWord(s, 1, Digits), pos |-> Digits + 1]
RECURSIVE Follow(_, _)
Follow(d, s) ==
  IF Top(d.x1) # Top(d.x2) THEN d
  ELSE Follow([Shifted(d) EXCEPT !.x = ((@ * Digit) % Word) + ByteAt(s, d.pos), !.pos = @ + 1], s)

RECURSIVE Decode(_, _, _, _)
DecodeBit(d, s, ps, mid, bits) ==
  Decode(Follow(Narrowed(d, mid, IF d.x <= mid THEN 1 ELSE 0), s), s, Tail(ps),
         Append(bits, IF d.x <= mid THEN 1 ELSE 0))
Decode(d, s, ps, bits) == IF ps = <<>> THEN bits ELSE DecodeBit(d, s, ps, Mid(d, Head(ps)), bits)

-----------------------------------------------------------------------------
(* The coder with a carry.                                                 *)

CarryEncoder == [low |-> 0, range |-> Word - 1, cache |-> 0, size |-> 1, out |-> <<>>]

\* shift_low: what is settled goes out with the carry, or waits for one.
ShiftLow(e) ==
  LET settled == e.low < Word - Unit \/ e.low >= Word
      carry == e.low \div Word
      waiting == [i \in 1..e.size |-> IF i = 1 THEN (e.cache + carry) % Digit ELSE (Digit - 1 + carry) % Digit]
  IN [e EXCEPT !.out = IF settled THEN @ \o waiting ELSE @,
               !.cache = IF settled THEN (e.low \div Unit) % Digit ELSE @,
               !.size = IF settled THEN 1 ELSE @ + 1,
               !.low = (@ % Unit) * Digit]

RECURSIVE Widen(_)
Widen(e) == IF e.range < Unit THEN Widen(ShiftLow([e EXCEPT !.range = @ * Digit])) ELSE e

Bound(c, p) == (c.range \div Odds) * p
Taken(e, bound, bit) ==
  IF bit = 1 THEN [e EXCEPT !.range = bound] ELSE [e EXCEPT !.low = @ + bound, !.range = @ - bound]
CarryEncode(e, p, bit) == Widen(Taken(e, Bound(e, p), bit))

\* An even bit: the range is halved first, so an odd one loses a unit.
CarryRaw(e, bit) ==
  Widen([e EXCEPT !.range = @ \div 2, !.low = IF bit = 1 THEN @ ELSE @ + e.range \div 2])

RECURSIVE CarryTail(_, _)
CarryTail(e, n) == IF n = 0 THEN e.out ELSE CarryTail(ShiftLow(e), n - 1)
CarryFinish(e) == CarryTail(e, Digits + 1)

CarryDecoder(s) == [range |-> Word - 1, code |-> ReadWord(s, 2, Digits), pos |-> Digits + 2]
RECURSIVE Refill(_, _)
Refill(d, s) ==
  IF d.range < Unit
    THEN Refill([d EXCEPT !.range = @ * Digit, !.code = ((@ * Digit) % Word) + ByteAt(s, d.pos), !.pos = @ + 1], s)
    ELSE d

Split(d, bound, raw) ==
  IF d.code < bound THEN [d EXCEPT !.range = bound]
  ELSE [d EXCEPT !.code = @ - bound, !.range = IF raw THEN bound ELSE @ - bound]

\* A probability of 0 marks an even bit.
RECURSIVE CarryDecode(_, _, _, _)
CarryDecodeBit(d, s, ps, bound, bits) ==
  CarryDecode(Refill(Split(d, bound, Head(ps) = 0), s), s, Tail(ps), Append(bits, IF d.code < bound THEN 1 ELSE 0))
CarryDecode(d, s, ps, bits) ==
  IF ps = <<>> THEN bits
  ELSE CarryDecodeBit(d, s, ps, IF Head(ps) = 0 THEN d.range \div 2 ELSE Bound(d, Head(ps)), bits)

-----------------------------------------------------------------------------
(* Numbers as decisions: a count is its length in unary, then its bits     *)
(* below the first; every bit has the context of its place.                *)

RECURSIVE BitsOf(_, _)
BitsOf(v, n) == IF n = 0 THEN <<>> ELSE Append(BitsOf(v \div 2, n - 1), v % 2)
Length(v) == CHOOSE n \in 0..31 : (n = 0 /\ v = 0) \/ (n > 0 /\ v \div 2 ^ (n - 1) = 1)
CountBits(v) ==
  [i \in 1..(Length(v) + 1) |-> IF i <= Length(v) THEN 1 ELSE 0]
  \o (IF v = 0 THEN <<>> ELSE BitsOf(v - 2 ^ (Length(v) - 1), Length(v) - 1))

RECURSIVE ValueOf(_, _)
ValueOf(bits, v) == IF bits = <<>> THEN v ELSE ValueOf(Tail(bits), 2 * v + Head(bits))
ReadCountOf(bits, n) == IF n = 0 THEN 0 ELSE ValueOf(SubSeq(bits, n + 2, 2 * n), 1)
ReadCount(bits) == ReadCountOf(bits, CHOOSE n \in 0..Len(bits) : bits[n + 1] = 0 /\ \A i \in 1..n : bits[i] = 1)
=============================================================================
