---------------------------- MODULE DoubleFast ----------------------------
(***************************************************************************)
(* The max level's parse (src/src/v7_encode.rs): two tables of tagged      *)
(* positions, of the hash of eight bytes and of five, read modulo the      *)
(* table's range; the last three offsets; the tables of a dictionary whose *)
(* content stands before the input; and the matches of the long-distance   *)
(* pass. The sequences of a block are coded as they are found.             *)
(***************************************************************************)
EXTENDS MatchBytes

CONSTANTS
  Long, Short, \* bytes of the two hashes
  Rep,         \* bytes of a repeat's compare, and the least a match may be
  Indexes, Tags,   \* slots of a small table; values of an entry's tag
  FullIndexes, \* slots of a table at its full size, as a dictionary's are
  Reach,       \* 2 ^ POS_BITS of an entry
  Window,      \* LOCAL_WINDOW
  SkipStrength,\* 2 ^ DFAST_SKIP_STRENGTH
  Gain,        \* LONG_AHEAD_GAIN
  FarOffset,   \* 2 ^ (FAR_OFFSET_BITS + 1)
  FarCap,      \* FAR_MATCH_CAP
  Seeded,      \* BASE_SEED: how much of a base the tables take
  Chunk        \* CHUNK of the long-distance pass

DoubleFastAssumption == Window < Reach /\ FullIndexes % Indexes = 0

Lm == INSTANCE LongMatches WITH
  MinLen <- Long - 1, HashLen <- Long - 1, WordLen <- 2, Slots <- 4, Checks <- 2, Reach <- 2 * Reach,
  EarlyAt <- 4, EarlyYield <- 4, GateAt <- 8, GateYield <- 4, GateOffset <- Window

Sc == INSTANCE SequenceCodes WITH
  MaxBlock <- 2 ^ 18, WalkBits <- 57, LitLens <- {}, MatchLens <- {}, Offsets <- {},
  coder <- 0, parser <- 0, decoder <- 0

\* The index of a position's bytes is the top of their hash, its tag what is below.
Hash64(text, pos, n) == Hash(BytesAt(text, pos, n), 2 * FullIndexes * Tags)
Index(h, indexes) == h \div (((2 * FullIndexes) \div indexes) * Tags)
Tag(h, indexes) == (h \div ((2 * FullIndexes) \div indexes)) % Tags
Entry(h, pos, indexes) == [pos |-> pos % Reach, tag |-> Tag(h, indexes)]

NoEntries(indexes) == [i \in 0..(indexes - 1) |-> [pos |-> 0, tag |-> 0]]

Put(table, h, pos, indexes) == [table EXCEPT ![Index(h, indexes)] = Entry(h, pos, indexes)]
LongPut(t, text, pos) == [t EXCEPT !.long = Put(@, Hash64(text, pos, Long), pos, t.indexes)]
ShortPut(t, text, pos) == [t EXCEPT !.short = Put(@, Hash64(text, pos, Short), pos, t.indexes)]
BothPut(t, text, pos) == ShortPut(LongPut(t, text, pos), text, pos)

\* `seed_range`: every position with eight bytes before `end`.
RECURSIVE seed_range(_, _, _, _)
seed_range(t, text, from, end) ==
  IF from + Long > end THEN t ELSE seed_range(BothPut(t, text, from), text, from + 1, end)

\* `clear_for`.
Cleared(indexes) == [indexes |-> indexes, long |-> NoEntries(indexes), short |-> NoEntries(indexes)]

\* The position an entry names for a probe at pos, by its distance modulo the table's range,
\* or -1: another epoch's, or another input's, is a wrong guess that the compare refuses.
candidate(e, tag, pos) ==
  IF e.tag = tag /\ (pos - e.pos) % Reach \in 1..Least(pos, Window - 1) THEN pos - ((pos - e.pos) % Reach) ELSE -1

-----------------------------------------------------------------------------
(* The match at a position.                                                *)

Nothing == [off |-> 0, len |-> 0, short |-> FALSE, dict |-> FALSE, at |-> 0]
Here(pos, at, len, short) == [off |-> pos - at, len |-> len, short |-> short, dict |-> FALSE, at |-> at]

\* The second and third of the last offsets: the last never goes on here.
RepAt(text, pos, o) == o <= pos /\ BytesAt(text, pos, Rep) = BytesAt(text, pos - o, Rep)
Repeat(text, pos, o, end) == Here(pos, pos - o, prefix(text, pos, text, pos - o, end - pos), FALSE)

\* The input's: the long candidate that verifies, else the short.
LocalOf(text, pos, end, c, short) ==
  IF c < 0 THEN Nothing ELSE Here(pos, c, prefix(text, pos, text, c, end - pos), short)
Local(long, short) == IF long.len >= Rep THEN long ELSE IF short.len >= Rep THEN short ELSE Nothing

\* The dictionary's, within its content and the window; the longer of the two wins.
DictAt(text, pos, end, e, tag, content) ==
  IF e.tag # tag \/ e.pos >= Len(content) \/ pos + Len(content) - e.pos >= Window THEN Nothing
  ELSE [off |-> pos + Len(content) - e.pos, short |-> FALSE, dict |-> TRUE, at |-> e.pos,
        len |-> prefix(text, pos, content, e.pos, Least(end - pos, Len(content) - e.pos))]
Better(best, long, short) ==
  IF long.len >= Rep /\ long.len > best.len THEN long
  ELSE IF short.len >= Rep /\ short.len > best.len THEN short ELSE best
WithDict(text, pos, end, best, d, hl, hs) ==
  Better(best,
    DictAt(text, pos, end, d.tables.long[Index(hl, FullIndexes)], Tag(hl, FullIndexes), d.content),
    DictAt(text, pos, end, d.tables.short[Index(hs, FullIndexes)], Tag(hs, FullIndexes), d.content))

NoDict == [content |-> <<>>]

\* `probe`, with the entries of pos as they were before it was put there.
probe(m, text, end, hl, hs, d) ==
  CASE RepAt(text, m.pos, m.r[2]) -> Repeat(text, m.pos, m.r[2], end)
    [] ~RepAt(text, m.pos, m.r[2]) /\ RepAt(text, m.pos, m.r[3]) -> Repeat(text, m.pos, m.r[3], end)
    [] OTHER ->
       LET best == Local(
             LocalOf(text, m.pos, end, candidate(m.t.long[Index(hl, m.t.indexes)], Tag(hl, m.t.indexes), m.pos), FALSE),
             LocalOf(text, m.pos, end, candidate(m.t.short[Index(hs, m.t.indexes)], Tag(hs, m.t.indexes), m.pos), TRUE))
       IN IF d = NoDict THEN best ELSE WithDict(text, m.pos, end, best, d, hl, hs)

\* A far match over the position wins when it is longer.
FarOr(found, pos, end, far) ==
  IF Least(far.len, end - pos) > found.len /\ Least(far.len, end - pos) >= Rep
  THEN Here(pos, pos - far.off, Least(far.len, end - pos), FALSE) ELSE found

\* One byte on, the long table's, when the short one's gives way to it.
Ahead(text, pos, end, c, found) ==
  IF c >= 0 /\ BytesAt(text, pos + 1, Long) = BytesAt(text, c, Long)
     /\ prefix(text, pos + 1, text, c, end - pos - 1) >= found.len + Gain
  THEN Here(pos + 1, c, prefix(text, pos + 1, text, c, end - pos - 1), FALSE) ELSE found

-----------------------------------------------------------------------------
(* A match taken: back into the pending literals, capped when far and new, *)
(* and coded.                                                              *)

FarCapped(r, off, len) == IF off >= FarOffset /\ off \notin {r[1], r[2], r[3]} THEN Least(len, FarCap) ELSE len

\* `CodeWriter::put`: the codes of a sequence, and the offsets after it.
Sequence(ll, ml, code) == [ll |-> Sc!ll_code(ll), ml |-> Sc!ml_code(ml), off |-> code]

Coded(m, text, mpos, len, off, put) ==
  [m EXCEPT !.codes = Append(@, Sequence(mpos - m.anchor, len, put.off)), !.r = put.reps,
            !.lits = @ \o BytesAt(text, m.anchor, mpos - m.anchor), !.pos = mpos + len, !.anchor = mpos + len]
CodedAt(m, text, mpos, len, off) == Coded(m, text, mpos, len, off, Sc!put_code(m.r, off, mpos = m.anchor))

BackOf(text, pos, anchor, found, content) ==
  IF found.dict THEN Back(text, pos, content, found.at, Least(pos - anchor, found.at))
  ELSE Back(text, pos, text, found.at, Least(pos - anchor, found.at))

\* Its second position and its tail are indexed.
Tailed(m, text, mpos, limit) ==
  IF m.pos >= limit THEN m
  ELSE [m EXCEPT !.t = ShortPut(LongPut(BothPut(@, text, mpos + 2), text, m.pos - 2), text, m.pos - 1)]

Taken(m, text, limit, pos, found, back) ==
  Tailed(CodedAt(m, text, pos - back, FarCapped(m.r, found.off, found.len + back), found.off), text, pos - back, limit)
TakenAt(m, text, limit, pos, found, content) == Taken(m, text, limit, pos, found, BackOf(text, pos, m.anchor, found, content))

Missed(m) == [m EXCEPT !.pos = @ + m.nb \div SkipStrength, !.nb = @ + 1]

\* pos + 1 is indexed once something is found.
Found(m, text, end, limit, pos, found, ahead, d) ==
  IF found.off = 0 THEN Missed(m)
  ELSE TakenAt([m EXCEPT !.nb = SkipStrength, !.t = BothPut(@, text, m.pos + 1)], text, limit,
               IF ahead = found THEN pos ELSE pos + 1, ahead, d.content)

\* The last offset one byte on comes before anything the tables say.
Step(m, text, end, limit, far, hl, hs, d, repAhead, t) ==
  LET pos   == IF repAhead THEN m.pos + 1 ELSE m.pos
      found == FarOr(IF repAhead THEN Repeat(text, pos, m.r[1], end) ELSE probe(m, text, end, hl, hs, d),
                     pos, end, Lm!Over(far, Lm!Moved(far, m.far, pos), pos))
      h1    == Hash64(text, m.pos + 1, Long)
  IN Found([m EXCEPT !.t = t, !.far = Lm!Moved(far, @, pos)], text, end, limit, pos, found,
           IF found.short /\ ~repAhead
           THEN Ahead(text, m.pos, end, candidate(t.long[Index(h1, t.indexes)], Tag(h1, t.indexes), m.pos + 1), found)
           ELSE found, d)

RECURSIVE Parse(_, _, _, _, _, _)
StepAt(m, text, end, limit, far, hl, hs, d) ==
  Parse(Step(m, text, end, limit, far, hl, hs, d, RepAt(text, m.pos + 1, m.r[1]),
             BothPut(m.t, text, m.pos)), text, end, limit, far, d)
Parse(m, text, end, limit, far, d) ==
  IF m.pos >= limit THEN m
  ELSE StepAt(m, text, end, limit, far, Hash64(text, m.pos, Long), Hash64(text, m.pos, Short), d)

\* The last sequence is literals alone, coded as the shortest match at the last offset.
Ended(m, text, end) ==
  [codes |-> Append(m.codes, Sequence(end - m.anchor, Sc!MIN_MATCH, Sc!Code(0, 0, 0))),
   lits |-> m.lits \o BytesAt(text, m.anchor, end - m.anchor), t |-> m.t]

\* Every block starts from the offsets the decoder starts from.
find_sequences_dfast(text, start, end, t, far, d) ==
  Ended(Parse([pos |-> start, anchor |-> start, t |-> t, r |-> Sc!new, codes |-> <<>>, lits |-> <<>>,
               nb |-> SkipStrength, far |-> Lm!cursor(far, start)],
              text, end, Most(end - (Long + 1), start), far, d), text, end)

\* A dictionary's tables, at full size.
DictTables(content) == seed_range(Cleared(FullIndexes), content, 0, Len(content))
Dict(content) == [content |-> content, tables |-> DictTables(content)]

-----------------------------------------------------------------------------
(* `compress_max_from`: the blocks of an input, cut at `size` where the    *)
(* statistics say so. What is before `start` is a base.                    *)

RECURSIVE Blocks(_, _, _, _, _, _, _, _)
BlockThen(text, g, end, size, far, d, start, fresh, to) ==
  <<[len |-> end - start, codes |-> g.codes, lits |-> g.lits, fresh |-> fresh]>> \o Blocks(text, end, size, g.t, far, d, FALSE, to)
Blocks(text, start, size, t, far, d, fresh, to) ==
  IF start = to THEN <<>>
  ELSE BlockThen(text, find_sequences_dfast(text, start, Least(start + size, to), t, far, d),
                 Least(start + size, to), size, far, d, start, fresh, to)

compress_max_from(text, start, size, far, d) ==
  Blocks(text, start, size, seed_range(Cleared(Indexes), text, Most(0, start - Seeded), start), far, d, FALSE, Len(text))

\* `compress_max_stream`: stripes of a unit, each from tables seeded with what is before it,
\* its first block from no tables of codes, though no header says so.
RECURSIVE Stripes(_, _, _, _, _)
Stripes(text, from, size, stripe, far) ==
  IF from = Len(text) THEN <<>>
  ELSE Blocks(text, from, size, seed_range(Cleared(Indexes), text, Most(0, from - Seeded), from), far, NoDict, TRUE,
              Least(from + stripe, Len(text)))
       \o Stripes(text, Least(from + stripe, Len(text)), size, stripe, far)
compress_max_stream(text, size, stripe, far) == Stripes(text, 0, size, stripe, far)
=============================================================================
