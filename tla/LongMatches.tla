---------------------------- MODULE LongMatches ----------------------------
(***************************************************************************)
(* The long-distance matcher (src/src/ldm.rs): one pass over a unit before *)
(* it is parsed. Anchors that its bytes choose go into a table under a     *)
(* hash; an entry is the anchor's position modulo the window and a few     *)
(* bits of the hash, and a later anchor of the slot replaces it. A repeat  *)
(* is compared, extended both ways and kept when long enough; those kept   *)
(* do not overlap, and a parse walks over them with a cursor.              *)
(***************************************************************************)
EXTENDS MatchBytes

CONSTANTS
  MinLen,     \* MIN_LEN
  HashLen,    \* HASH_LEN: bytes hashed at an anchor
  WordLen,    \* bytes that make a position an anchor
  Slots, Checks,   \* slots of the table, values of the check bits
  Reach,      \* 2 ^ POS_BITS: the window
  Chunk,      \* CHUNK
  EarlyAt, EarlyYield, GateAt, GateYield, GateOffset   \* when the max level gives up

Nowhere == -1

\* `anchor`: the hash of the word at pos, which is no run of one byte.
anchor(text, pos) ==
  /\ Hash(BytesAt(text, pos, WordLen), 3) = 0
  /\ \E i, j \in 1..WordLen : text[pos + i] # text[pos + j]

AnchorHash(text, pos) == Hash(BytesAt(text, pos, HashLen), Slots * Checks)

\* `gather`: the anchors of a chunk from where no match covers it.
RECURSIVE gather(_, _, _)
gather(text, from, to) ==
  IF from >= to THEN <<>>
  ELSE (IF anchor(text, from) THEN <<from>> ELSE <<>>) \o gather(text, from + 1, to)

Empty == [h \in 0..(Slots - 1) |-> [check |-> Checks - 1, pos |-> Reach - 1]]

Far(start, len, off) == [start |-> start, len |-> len, off |-> off]

Kept(m, text, back, pos, off, len) ==
  [m EXCEPT !.list = Append(@, Far(pos - back, len + back, off)), !.covered = pos + len,
            !.all = @ + len + back, !.far = IF off >= GateOffset THEN @ + len + back ELSE @]
Compared(m, text, pos, off, len) ==
  IF len < MinLen THEN m
  ELSE Kept(m, text, Back(text, pos, text, pos - off, pos - Most(m.covered, off)), pos, off, len)

\* The nearest position with the entry's low bits; inside a match the table only learns.
Recalled(m, text, pos, off) ==
  IF off < MinLen \/ off > pos THEN m
  ELSE Compared(m, text, pos, off, prefix(text, pos, text, pos - off, Len(text) - pos))
Learned(m, text, pos, h, entry) ==
  LET n == [m EXCEPT !.table[h \div Checks] = [check |-> h % Checks, pos |-> pos % Reach]]
  IN IF pos < m.covered \/ entry.check # h % Checks THEN n ELSE Recalled(n, text, pos, (pos - entry.pos) % Reach)
At(m, text, pos, h) == Learned(m, text, pos, h, m.table[h \div Checks])

RECURSIVE Anchored(_, _, _)
Anchored(m, text, anchors) ==
  IF anchors = <<>> THEN m
  ELSE Anchored(At(m, text, Head(anchors), AnchorHash(text, Head(anchors))), text, Tail(anchors))

\* Past a gate the pass goes on only if it has paid; each is asked once.
GivesUp(m) ==
  \/ m.at >= m.early /\ m.all < m.early \div EarlyYield
  \/ m.at >= m.gate /\ m.far < m.gate \div GateYield
Passed(m, never) ==
  [m EXCEPT !.early = IF m.at >= @ THEN never ELSE @, !.gate = IF m.at >= @ THEN never ELSE @]

RECURSIVE Pass(_, _, _)
Pass(m, text, end) ==
  IF m.at >= end \/ GivesUp(m) THEN m.list
  ELSE Pass([Anchored(Passed(m, Len(text) + 1), text, gather(text, Most(m.at, m.covered), Least(m.at + Chunk, end)))
               EXCEPT !.at = Least(m.at + Chunk, end)], text, end)

find(text, gated) ==
  IF Len(text) < 2 * MinLen + HashLen THEN <<>>
  ELSE Pass([at |-> 0, covered |-> 0, table |-> Empty, list |-> <<>>, all |-> 0, far |-> 0,
             early |-> IF gated THEN Least(Len(text) \div 2, EarlyAt) ELSE Len(text) + 1,
             gate |-> IF gated THEN Least(Len(text) \div 2, GateAt) ELSE Len(text) + 1],
            text, Len(text) - HashLen)

\* A cursor starts at the first match that ends past the position, and `at` moves it on to the
\* match over the position, if any; positions asked for never go back.
cursor(list, from) ==
  IF \E i \in DOMAIN list : list[i].start + list[i].len > from
  THEN CHOOSE i \in DOMAIN list : list[i].start + list[i].len > from /\ \A j \in 1..(i - 1) : list[j].start + list[j].len <= from
  ELSE Len(list) + 1

RECURSIVE Moved(_, _, _)
Moved(list, i, pos) ==
  IF i > Len(list) \/ pos < list[i].start \/ pos < list[i].start + list[i].len THEN i ELSE Moved(list, i + 1, pos)
Over_whole(list, i, pos) ==
  IF i > Len(list) \/ pos < list[i].start THEN [len |-> 0, off |-> 0] ELSE [len |-> list[i].len, off |-> list[i].off]
Over(list, i, pos) ==
  IF i > Len(list) \/ pos < list[i].start THEN [len |-> 0, off |-> 0]
  ELSE [len |-> list[i].start + list[i].len - pos, off |-> list[i].off]
=============================================================================
