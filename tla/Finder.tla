------------------------------ MODULE Finder ------------------------------
(***************************************************************************)
(* The token format (src/src/format.rs, fallback.rs) and its two match     *)
(* finders (finder.rs), as lib.rs runs them over the blocks of an input:   *)
(* a table of stored words and positions carried from block to block and,  *)
(* when a block would be stored raw, into the dense retry of the block;    *)
(* and the fast level's table of positions. A block is four streams        *)
(* (tokens, offsets, escapes, literals) that the portable decoder replays  *)
(* over the output before it.                                              *)
(*                                                                         *)
(* Positions count from 0, as in the code.                                 *)
(***************************************************************************)
EXTENDS MatchBytes

CONSTANTS
  Word,        \* bytes of a stored word
  Proven,      \* PROVEN: bytes that the word and the verify mask may prove
  Margin,      \* what hash_limit keeps past the longest read
  Lzav, Dense, Turbo,   \* MIN_MATCH_LEN of each parse
  MinOffset,   \* MIN_OFFSET
  Window,      \* window_size()
  MaxRef,      \* MAX_REF_LEN
  NoUpdate,    \* NO_UPDATE_OFFSET
  BackMax,     \* BACK_MATCH_MAX
  Buckets,     \* HASH_SIZE
  Compared,    \* bytes of the fast finder's compare
  SkipStrength,\* 2 ^ SKIP_STRENGTH
  LitDirect, MatchDirect,   \* LIT_DIRECT_MAX, and 14
  Cont, Rest,  \* ESCAPE_CONT, and the most its u16 holds
  LowOffset,   \* 2^16: an offset's low part
  OffsetBytes, EscapeBytes, \* of an offset, of an escape's continuation
  MaxBlock,    \* MAX_BLOCK_SIZE
  Worth        \* 25: one part in so many must be saved

LitEscape == LitDirect + 1
MatchEscape == MatchDirect + 1
MaxLit == LitDirect + 1 + Cont + Rest

-----------------------------------------------------------------------------
(* Streams of a block.                                                     *)

NoStreams == [tokens |-> <<>>, offsets |-> <<>>, extras |-> <<>>, literals |-> <<>>]

Token(lit, match, hi) == [lit |-> lit, match |-> match, hi |-> hi]

push_escape(v) == IF v < Cont THEN <<v>> ELSE <<Cont, v - Cont>>

Escaped(lc, rc, bias) ==
  (IF lc > LitDirect THEN push_escape(lc - LitEscape) ELSE <<>>)
  \o (IF rc > bias + MatchDirect THEN push_escape(rc - (bias + MatchEscape)) ELSE <<>>)

OneToken(s, lits, rc, offset, bias) ==
  [tokens   |-> Append(s.tokens, Token(Least(Len(lits), LitEscape),
                  IF rc = 0 THEN 0 ELSE Least(rc - bias, MatchEscape),
                  IF rc = 0 THEN 0 ELSE offset \div LowOffset)),
   offsets  |-> IF rc = 0 THEN s.offsets ELSE Append(s.offsets, offset % LowOffset),
   extras   |-> s.extras \o Escaped(Len(lits), rc, bias),
   literals |-> s.literals \o lits]

\* A match of rc bytes after the literals, 0 for none. A run of more literals than
\* an escape holds goes ahead of it in tokens of its own.
RECURSIVE emit(_, _, _, _, _)
emit(s, lits, rc, offset, bias) ==
  IF Len(lits) > MaxLit
  THEN emit(OneToken(s, SubSeq(lits, 1, MaxLit), 0, 0, bias), SubSeq(lits, MaxLit + 1, Len(lits)), rc, offset, bias)
  ELSE OneToken(s, lits, rc, offset, bias)

-----------------------------------------------------------------------------
(* The ordinary, turbo and dense parses: two words and their positions in  *)
(* a bucket, the newer first.                                              *)

Verified(min) == Least(min, Proven) - Word

\* A bucket of the word at pos and of the first two verified bytes after it.
hash6(text, pos, min) == Hash(BytesAt(text, pos, Word + Least(2, Verified(min))), Buckets)

init_table(text) ==
  LET w == IF Len(text) >= Word THEN BytesAt(text, 0, Word) ELSE [i \in 1..Word |-> 0]
  IN [h \in 0..(Buckets - 1) |-> [w1 |-> w, p1 |-> 0, w2 |-> w, p2 |-> 0]]

NoCandidate == [at |-> -1, first |-> FALSE]
Confirmed(text, pos, cand, min) == BytesAt(text, cand + Word, Verified(min)) = BytesAt(text, pos + Word, Verified(min))

\* The tuple with the word, the first before the second, whose next bytes agree.
Candidate(text, pos, b, w, min) ==
  CASE w = b.w1 /\ Confirmed(text, pos, b.p1, min) -> [at |-> b.p1, first |-> TRUE]
    [] w = b.w2 /\ Confirmed(text, pos, b.p2, min) -> [at |-> b.p2, first |-> w = b.w1]
    [] OTHER -> NoCandidate

\* What the average of the match rate says of the data, from 0, good, to 3: the step
\* widens with it, by one more after a position that was odd.
Skip(m, poor) == IF poor = 0 \/ m.pos = m.anchor THEN 1 ELSE poor + 1 + m.rnd
Missed(m, h, w, poor) ==
  [m EXCEPT !.table[h].w2 = w, !.table[h].p2 = m.pos,
            !.pos = @ + Skip(m, poor),
            !.rnd = IF poor = 0 \/ m.pos = m.anchor THEN @ ELSE m.pos % 2]

\* Out of the window: the position replaces the tuple it hit.
Refused(m, h, first, far) ==
  [m EXCEPT !.pos = @ + 1,
            !.table[h] = IF ~far THEN @ ELSE IF first THEN [@ EXCEPT !.p1 = m.pos] ELSE [@ EXCEPT !.p2 = m.pos]]

Updated(b, w, pos, first, d) ==
  IF d <= NoUpdate THEN b
  ELSE IF first THEN [b EXCEPT !.p1 = pos]
  ELSE [w1 |-> w, p1 |-> pos, w2 |-> b.w1, p2 |-> b.p1]

Emitted(m, text, back, rc, d, bias) ==
  [m EXCEPT !.s = emit(@, BytesAt(text, m.anchor, m.pos - back - m.anchor), rc + back, d, bias),
            !.pos = @ + rc, !.anchor = m.pos + rc]

Extended(m, text, cand, d, ml, rc, min) ==
  IF min > Proven /\ rc < min THEN [m EXCEPT !.pos = @ + 1]
  ELSE Emitted(m, text, Back(text, m.pos, text, cand, Least3(ml - rc, m.pos - m.anchor, Least(cand, BackMax))), rc, d, min - 1)

\* A match is no longer than its offset, so that no copy overlaps itself.
CapAt(d, left) == Least3(d, MaxRef, left)
Matched(m, text, h, w, first, cand, d, ml, min) ==
  Extended([m EXCEPT !.table[h] = Updated(@, w, m.pos, first, d)], text, cand, d, ml,
           Least(min, Proven) + prefix(text, m.pos + Least(min, Proven), text, cand + Least(min, Proven), ml - Least(min, Proven)), min)

\* A position past this one, as the retry's table has them, counts as out of the window.
Hit(m, text, end, h, w, c, d, min) ==
  IF d < 0 \/ d >= Window THEN Refused(m, h, c.first, TRUE)
  ELSE IF d < MinOffset THEN Refused(m, h, c.first, FALSE)
  ELSE Matched(m, text, h, w, c.first, c.at, d, CapAt(d, end - m.pos), min)

Probe(m, text, end, h, w, c, min, poor) ==
  IF c = NoCandidate THEN Missed(m, h, w, poor) ELSE Hit(m, text, end, h, w, c, m.pos - c.at, min)
ProbeAt(m, text, end, h, w, min, poor) ==
  Probe(m, text, end, h, w, Candidate(text, m.pos, m.table[h], w, min), min, poor)

RECURSIVE Scan(_, _, _, _, _, _)
Scan(m, text, end, limit, min, poor) ==
  IF m.pos >= limit THEN m
  ELSE Scan(ProbeAt(m, text, end, hash6(text, m.pos, min), BytesAt(text, m.pos, Word), min, poor), text, end, limit, min, poor)

\* The literals after the last match.
Closed(m, text, end, bias) ==
  [s |-> IF m.anchor = end THEN m.s ELSE emit(m.s, BytesAt(text, m.anchor, end - m.anchor), 0, 0, bias), table |-> m.table]

Start(table, start) == [pos |-> start, anchor |-> start, table |-> table, s |-> NoStreams, rnd |-> 0]

find_matches(text, start, end, table, min, poor) ==
  Closed(Scan(Start(table, start), text, end, Most(end - (Most(min, Proven) + Margin), start), min, poor), text, end, min - 1)

-----------------------------------------------------------------------------
(* The fast parse: one position in a bucket, 0 at first.                   *)

hash5(text, pos) == Hash(BytesAt(text, pos, Least(Compared, Dense)), Buckets)

FastTable == [h \in 0..(Buckets - 1) |-> 0]

\* The step grows with the searches since the last match.
FastMissed(m) == [m EXCEPT !.pos = @ + m.nb \div SkipStrength, !.nb = @ + 1]

\* The last position but one of a match is indexed, for runs.
Indexed(m, text, limit) ==
  IF m.pos >= 2 /\ m.pos < limit THEN [m EXCEPT !.table[hash5(text, m.pos - 2)] = m.pos - 2] ELSE m

FastMatched(m, text, cand, limit, rc, min) ==
  Indexed([Emitted(m, text, Back(text, m.pos, text, cand, Least3(m.pos - m.anchor, cand, BackMax)), rc, m.pos - cand, min - 1)
             EXCEPT !.nb = SkipStrength], text, limit)

FastProbe(m, text, end, limit, cand, same, min) ==
  IF m.pos - cand \in 1..(Window - 1) /\ same >= min
  THEN FastMatched(m, text, cand, limit,
         Least3(IF same = Compared /\ Least(end - m.pos, MaxRef) > Compared
                THEN Compared + prefix(text, m.pos + Compared, text, cand + Compared, Least(end - m.pos, MaxRef) - Compared)
                ELSE same, end - m.pos, MaxRef), min)
  ELSE FastMissed(m)

RECURSIVE FastScan(_, _, _, _, _)
FastAt(m, text, end, limit, h, min) ==
  FastScan(FastProbe([m EXCEPT !.table[h] = m.pos], text, end, limit, m.table[h],
                     prefix(text, m.pos, text, m.table[h], Compared), min), text, end, limit, min)
FastScan(m, text, end, limit, min) ==
  IF m.pos >= limit THEN m ELSE FastAt(m, text, end, limit, hash5(text, m.pos), min)

FastStart(table, start) ==
  [pos |-> start, anchor |-> start, table |-> table, s |-> NoStreams, nb |-> SkipStrength]

find_matches_fast(text, start, end, table, min) ==
  Closed(FastScan(FastStart(table, start), text, end, Most(end - Compared, start), min), text, end, min - 1)

-----------------------------------------------------------------------------
(* Blocks.                                                                 *)

RECURSIVE ExtraBytes(_)
ExtraBytes(extras) ==
  IF extras = <<>> THEN 0
  ELSE IF Head(extras) = Cont THEN 1 + EscapeBytes + ExtraBytes(Tail(Tail(extras)))
  ELSE 1 + ExtraBytes(Tail(extras))
PayloadBytes(s) == Len(s.tokens) + OffsetBytes * Len(s.offsets) + ExtraBytes(s.extras) + Len(s.literals)

not_worth_it(len, s) == PayloadBytes(s) >= len - len \div Worth

Block(text, start, end, flag, s) ==
  [flag |-> flag, len |-> end - start, reset |-> start = 0,
   s |-> IF flag = "raw" THEN [NoStreams EXCEPT !.literals = BytesAt(text, start, end - start)] ELSE s]

\* `parse_block`: with the retry, over the table the first parse left.
Retried(g, text, start, end) ==
  [flag |-> IF not_worth_it(end - start, g.s) THEN "raw" ELSE "dense", s |-> g.s, table |-> g.table]
parse_block(g, text, start, end, poor, retry) ==
  IF ~not_worth_it(end - start, g.s) THEN [flag |-> "compressed", s |-> g.s, table |-> g.table]
  ELSE IF ~retry
  THEN [flag |-> IF PayloadBytes(g.s) < end - start THEN "compressed" ELSE "raw", s |-> g.s, table |-> g.table]
  ELSE Retried(find_matches(text, start, end, g.table, Dense, poor), text, start, end)

Judged(g, flag, len) == [flag |-> IF not_worth_it(len, g.s) THEN "raw" ELSE flag, s |-> g.s, table |-> g.table]

\* One block at a level: `compress_into` with and without the retry, turbo, fast.
BlockAt(text, start, end, table, level, poor) ==
  CASE level \in {"default", "retry"} ->
         parse_block(find_matches(text, start, end, table, Lzav, poor), text, start, end, poor, level = "retry")
    [] level = "turbo" -> Judged(find_matches(text, start, end, table, Turbo, poor), "turbo", end - start)
    [] level = "fast" -> Judged(find_matches_fast(text, start, end, table, Dense), "dense", end - start)

RECURSIVE BlocksFrom(_, _, _, _, _)
BlockThen(text, start, end, g, level, poor) ==
  <<Block(text, start, end, g.flag, g.s)>> \o BlocksFrom(text, end, g.table, level, poor)
BlocksFrom(text, start, table, level, poor) ==
  IF start = Len(text) THEN <<>>
  ELSE BlockThen(text, start, Least(start + MaxBlock, Len(text)),
                 BlockAt(text, start, Least(start + MaxBlock, Len(text)), table, level, poor), level, poor)

compress_into(text, level, poor) ==
  BlocksFrom(text, 0, IF level = "fast" THEN FastTable ELSE init_table(text), level, poor)

-----------------------------------------------------------------------------
(* The portable decoder.                                                   *)

\* An escaped length, and the streams after it.
read_escape(d, base) ==
  IF d.extras = <<>> THEN [d EXCEPT !.error = TRUE]
  ELSE IF Head(d.extras) # Cont THEN [d EXCEPT !.extras = Tail(@), !.n = base + Head(d.extras)]
  ELSE IF Len(d.extras) < 2 THEN [d EXCEPT !.error = TRUE]
  ELSE [d EXCEPT !.extras = Tail(Tail(@)), !.n = base + Cont + Head(Tail(d.extras))]

LitLen(d, t) == IF t.lit = LitEscape THEN read_escape(d, LitEscape) ELSE [d EXCEPT !.n = t.lit]
MatchLen(d, t, bias) ==
  IF t.match = MatchEscape THEN read_escape(d, bias + MatchEscape)
  ELSE [d EXCEPT !.n = IF t.match = 0 THEN 0 ELSE t.match + bias]

MatchAt(d, offset, n) ==
  IF offset = 0 \/ offset > Len(d.out) THEN [d EXCEPT !.error = TRUE]
  ELSE [d EXCEPT !.out = CopyBack(@, offset, n), !.offsets = Tail(@)]

Match(d, t, n) ==
  IF n = 0 \/ d.error THEN d
  ELSE IF d.offsets = <<>> THEN [d EXCEPT !.error = TRUE]
  ELSE MatchAt(d, Head(d.offsets) + t.hi * LowOffset, n)

Literals(d, n) ==
  IF n > Len(d.literals) THEN [d EXCEPT !.error = TRUE]
  ELSE [d EXCEPT !.out = @ \o SubSeq(d.literals, 1, n), !.literals = SubSeq(@, n + 1, Len(@))]

\* A token never writes past the block's length.
Replay(d, t, lits, end) ==
  IF d.error \/ lits + d.n > end - Len(d.out) THEN [d EXCEPT !.error = TRUE]
  ELSE Match(Literals(d, lits), t, d.n)
OneReplayed(d, t, bias, end) ==
  IF d.error THEN d ELSE Replay(MatchLen(d, t, bias), t, d.n, end)

RECURSIVE Tokens(_, _, _, _)
Tokens(d, tokens, bias, end) ==
  IF tokens = <<>> \/ d.error THEN d
  ELSE Tokens(OneReplayed(LitLen(d, Head(tokens)), Head(tokens), bias, end), Tail(tokens), bias, end)

Bias(flag) == (CASE flag = "compressed" -> Lzav [] flag = "dense" -> Dense [] flag = "turbo" -> Turbo) - 1

Ended(d, end) == [d EXCEPT !.error = @ \/ Len(d.out) # end]
decompress_fallback_raw(b, out) ==
  Ended(Tokens([out |-> out, offsets |-> b.s.offsets, extras |-> b.s.extras, literals |-> b.s.literals,
                n |-> 0, error |-> FALSE], b.s.tokens, Bias(b.flag), Len(out) + b.len), Len(out) + b.len)

\* "Section sizes that could have come from the compressor".
is_plausible(b) ==
  /\ b.len <= MaxBlock /\ Len(b.s.tokens) <= b.len
  /\ OffsetBytes * Len(b.s.offsets) <= 2 * b.len
  /\ ExtraBytes(b.s.extras) <= 3 * b.len /\ Len(b.s.literals) <= b.len

Unread == [out |-> <<>>, error |-> TRUE]
RECURSIVE Decompressed(_, _)
AfterBlock(d, blocks) == IF d.error THEN Unread ELSE Decompressed(blocks, d.out)
Decompressed(blocks, out) ==
  IF blocks = <<>> THEN [out |-> out, error |-> FALSE]
  ELSE IF ~is_plausible(Head(blocks)) THEN Unread
  ELSE AfterBlock(IF Head(blocks).flag = "raw"
                  THEN [out |-> out \o Head(blocks).s.literals, error |-> FALSE]
                  ELSE decompress_fallback_raw(Head(blocks), out), Tail(blocks))

decompress(blocks) == Decompressed(blocks, <<>>)
=============================================================================
