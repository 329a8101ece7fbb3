--------------------------------- MODULE Zlib ---------------------------------
(***************************************************************************)
(* zlib run over a plain text: the codes it makes for a block (trees.c),   *)
(* and its matcher, with the decisions by which a stream's blocks are told *)
(* from what zlib would have done: the corrections of a recipe.            *)
(*                                                                         *)
(* A tree is built on a heap whose ties go to the shallower, its lengths   *)
(* cut to the longest allowed. Nodes are numbered from 1: the symbols      *)
(* (symbol n is node n + 1), then the inner. Positions count from 0; those *)
(* in the tables are relative to `base`, and 0 there is none. A text is a  *)
(* sequence of bytes; past its end it reads as zeros.                      *)
(***************************************************************************)
EXTENDS Deflate, FiniteSets

CONSTANT ClenMax   \* 7: the longest code of the lengths' code

RECURSIVE SumTo(_, _)
SumTo(f, n) == IF n = 0 THEN 0 ELSE f[n] + SumTo(f, n - 1)

-----------------------------------------------------------------------------
(* The heap.                                                               *)

Smaller(b, n, m) == b.freq[n] < b.freq[m] \/ (b.freq[n] = b.freq[m] /\ b.depth[n] <= b.depth[m])
Child(b, heap, k) ==
  IF 2 * k < Len(heap) /\ Smaller(b, heap[2 * k + 1], heap[2 * k]) THEN 2 * k + 1 ELSE 2 * k

\* pqdownheap
RECURSIVE Sift(_, _, _, _)
SiftTo(b, heap, v, k, j) ==
  IF Smaller(b, v, heap[j]) THEN [heap EXCEPT ![k] = v] ELSE Sift(b, [heap EXCEPT ![k] = heap[j]], v, j)
Sift(b, heap, v, k) ==
  IF 2 * k > Len(heap) THEN [heap EXCEPT ![k] = v] ELSE SiftTo(b, heap, v, k, Child(b, heap, k))
Down(b, heap, k) == IF heap = <<>> THEN heap ELSE Sift(b, heap, heap[k], k)
RECURSIVE Heaped(_, _, _)
Heaped(b, heap, k) == IF k = 0 THEN heap ELSE Heaped(b, Down(b, heap, k), k - 1)

\* The symbols that occur, and symbols of frequency 1 until there are two.
RECURSIVE Occurring(_, _)
Occurring(freq, n) ==
  IF n = 0 THEN <<>> ELSE Occurring(freq, n - 1) \o (IF freq[n] > 0 THEN <<n>> ELSE <<>>)
RECURSIVE Forced(_, _)
ForcedAt(f, n, maxCode) ==
  Forced([f EXCEPT !.freq[n] = 1, !.present = Append(@, n), !.forced = Append(@, n)], maxCode)
Forced(f, maxCode) ==
  IF Len(f.present) >= 2 THEN [freq |-> f.freq, present |-> f.present, forced |-> f.forced, maxCode |-> maxCode]
  ELSE IF maxCode < 2 THEN ForcedAt(f, maxCode + 2, maxCode + 1) ELSE ForcedAt(f, 1, maxCode)
PresentOf(freq, present) ==
  Forced([freq |-> freq, present |-> present, forced |-> <<>>], IF present = <<>> THEN -1 ELSE present[Len(present)] - 1)

\* build_tree: the two least are joined until one is left. `order` is how the nodes left the heap.
RECURSIVE Grow(_, _)
Join(b, rest, n, m, node) ==
  Grow([b EXCEPT !.freq[node] = b.freq[n] + b.freq[m],
                 !.depth[node] = 1 + (IF b.depth[n] > b.depth[m] THEN b.depth[n] ELSE b.depth[m]),
                 !.dad[n] = node, !.dad[m] = node,
                 !.order = @ \o <<n, m>>, !.node = @ + 1],
       [rest EXCEPT ![1] = node])
Least(b, n, rest) == Join(b, rest, n, rest[1], b.node)
Without(heap) == SubSeq([heap EXCEPT ![1] = heap[Len(heap)]], 1, Len(heap) - 1)
Reheaped(b, heap) == Down(b, heap, 1)
Grow(b, heap) ==
  IF Len(heap) < 2 THEN [b EXCEPT !.order = Append(@, heap[1])]
  ELSE Least(b, Reheaped(b, heap)[1], Reheaped(b, Without(Reheaped(b, heap))))

Tree(f, b) == Grow(b, Heaped(b, f.present, Len(f.present) \div 2))
Nodes(elems) == 1..(2 * elems)
Seed(f, elems) ==
  [freq |-> [n \in Nodes(elems) |-> IF n <= elems THEN f.freq[n] ELSE 0], depth |-> [n \in Nodes(elems) |-> 0],
   dad |-> [n \in Nodes(elems) |-> 0], order |-> <<>>, node |-> elems + 1]
TreeOf(f) == Tree(f, Seed(f, Len(f.freq)))

-----------------------------------------------------------------------------
(* gen_bitlen.                                                             *)

RECURSIVE Depth(_, _, _)
Depth(dad, n, max) ==
  IF dad[n] = 0 THEN 0 ELSE LET d == Depth(dad, dad[n], max) IN IF d + 1 > max THEN max ELSE d + 1
RECURSIVE Depths(_, _, _)
Depths(dad, n, max) == IF n = 0 THEN <<>> ELSE Append(Depths(dad, n - 1, max), Depth(dad, n, max))
TooDeep(dad, max) == {n \in DOMAIN dad : dad[n] # 0 /\ Depth(dad, dad[n], max) = max}

RECURSIVE HowMany(_, _, _)
HowMany(lens, l, n) == IF n = 0 THEN 0 ELSE HowMany(lens, l, n - 1) + (IF lens[n] = l THEN 1 ELSE 0)

\* The overflow moved down: a code above the longest makes room for two.
RECURSIVE Relieved(_, _, _)
RelievedAt(count, over, max, b) ==
  Relieved([[count EXCEPT ![b] = @ - 1, ![b + 1] = @ + 2] EXCEPT ![max] = @ - 1], over - 2, max)
Relieved(count, over, max) ==
  IF over <= 0 THEN count
  ELSE RelievedAt(count, over, max,
         CHOOSE b \in 1..(max - 1) : count[b] > 0 /\ \A c \in (b + 1)..(max - 1) : count[c] = 0)

\* The longest lengths go to the leaves that left the heap first.
RECURSIVE Assigned(_, _, _, _, _)
Assigned(lens, leaves, count, l, used) ==
  IF leaves = <<>> THEN lens
  ELSE IF used = count[l] THEN Assigned(lens, leaves, count, l - 1, 0)
  ELSE Assigned([lens EXCEPT ![Head(leaves)] = l], Tail(leaves), count, l, used + 1)

RECURSIVE LeavesOf(_, _)
LeavesOf(order, elems) ==
  IF order = <<>> THEN <<>>
  ELSE (IF Head(order) <= elems THEN <<Head(order)>> ELSE <<>>) \o LeavesOf(Tail(order), elems)

Fitted(t, elems, max, lens, over) ==
  IF over = 0 THEN lens
  ELSE Assigned(lens, LeavesOf(t.order, elems), Relieved([l \in 1..max |-> HowMany(lens, l, elems)], over, max), max, 0)

\* The lengths of the first `elems` nodes, the symbols; 0 for one that does not occur.
Lengths(t, elems, max) ==
  Fitted(t, elems, max, Depths(t.dad, elems, max), Cardinality(TooDeep(t.dad, max)))

Built(f, max) ==
  [lens |-> Lengths(TreeOf(f), Len(f.freq), max), maxCode |-> f.maxCode, freq |-> f.freq, forced |-> f.forced]
BuildTree(freq, max) == Built(PresentOf(freq, Occurring(freq, Len(freq))), max)

\* What the symbols cost: lens may be the fixed code's; base is the first symbol with extra bits.
RECURSIVE Cost(_, _, _, _, _)
Cost(t, lens, extra, base, n) ==
  IF n = 0 THEN 0
  ELSE Cost(t, lens, extra, base, n - 1)
       + t.freq[n] * (lens[n] + (IF n > base THEN extra[n - base] ELSE 0))
Costs(t, lens, extra, base) ==
  Cost(t, lens, extra, base, Len(t.freq)) - SumTo([i \in DOMAIN t.forced |-> lens[t.forced[i]]], Len(t.forced))

-----------------------------------------------------------------------------
(* scan_tree and send_tree: lengths as symbols.                            *)

LongestRun(i) == RunBase[i] + 2 ^ RunBits[i] - 1
MaxCountAfter(cur, next) ==
  IF next = 0 THEN LongestRun(3) ELSE IF cur = next THEN LongestRun(1) ELSE 1 + LongestRun(1)
MinCountAfter_short(cur, next) == IF next = 0 THEN RunBase[2] ELSE RunBase[1]
MinCountAfter(cur, next) ==
  IF next = 0 THEN RunBase[2] ELSE IF cur = next THEN RunBase[1] ELSE 1 + RunBase[1]

RunSymbols(cur, prev, count, min) ==
  CASE count < min -> [i \in 1..count |-> <<cur, 0>>]
    [] count >= min /\ cur # 0 /\ cur # prev -> <<<<cur, 0>>, <<MaxCode + 1, count - 1 - RunBase[1]>>>>
    [] count >= min /\ cur # 0 /\ cur = prev -> <<<<MaxCode + 1, count - RunBase[1]>>>>
    [] count >= min /\ cur = 0 /\ count <= LongestRun(2) -> <<<<MaxCode + 2, count - RunBase[2]>>>>
    [] OTHER -> <<<<MaxCode + 3, count - RunBase[3]>>>>

\* From length n of a run of `count` before it; `max` and `min` are what the run may hold.
RECURSIVE RunsFrom(_, _, _, _, _, _)
RunsFrom(lens, n, count, prev, max, min) ==
  LET cur == lens[n]
      next == IF n < Len(lens) THEN lens[n + 1] ELSE MaxCode + 1
  IN IF count + 1 < max /\ cur = next THEN RunsFrom(lens, n + 1, count + 1, prev, max, min)
     ELSE RunSymbols(cur, prev, count + 1, min)
          \o (IF n = Len(lens) THEN <<>>
              ELSE RunsFrom(lens, n + 1, 0, cur, MaxCountAfter(cur, next), MinCountAfter(cur, next)))
Runs(lens) == RunsFrom(lens, 1, 0, MaxCode + 1, MaxCountAfter(MaxCode + 1, lens[1]), MinCountAfter(MaxCode + 1, lens[1]))

-----------------------------------------------------------------------------
(* A block.                                                                *)

RECURSIVE Uses(_, _, _)
Uses(tokens, sym, dist) ==
  IF tokens = <<>> THEN 0
  ELSE Uses(Tail(tokens), sym, dist)
       + (IF sym = (IF dist THEN IF Head(tokens).ref THEN DistCode(Head(tokens).arg)[1] ELSE -1
                    ELSE IF Head(tokens).ref THEN LenCode(Head(tokens).len)[1] ELSE Head(tokens).arg)
            THEN 1 ELSE 0)
LitFreq(tokens) ==
  [n \in 1..(Literals + 1 + Len(LenBase)) |-> IF n = Literals + 1 THEN 1 ELSE Uses(tokens, n - 1, FALSE)]
DistFreq(tokens) == [n \in 1..Len(DistBase) |-> Uses(tokens, n - 1, TRUE)]

RECURSIVE Occurrences(_, _)
Occurrences(symbols, sym) ==
  IF symbols = <<>> THEN 0 ELSE Occurrences(Tail(symbols), sym) + (IF Head(symbols)[1] = sym THEN 1 ELSE 0)
SymbolFreq(symbols) == [n \in 1..Len(ClenOrder) |-> Occurrences(symbols, n - 1)]

\* max_blindex, counted from 1: the lengths' code is sent to its last length.
RECURSIVE LastClen(_, _)
LastClen(clen, n) == IF n > HclenMin /\ clen[ClenOrder[n] + 1] = 0 THEN LastClen(clen, n - 1) ELSE n

HeaderOfTrees(lit, dist, symbols, clen, hclen) ==
  [hlit |-> lit.maxCode + 1, hdist |-> dist.maxCode + 1, hclen |-> hclen, clen |-> clen, symbols |-> symbols,
   lits |-> SubSeq(lit.lens, 1, lit.maxCode + 1), dists |-> SubSeq(dist.lens, 1, dist.maxCode + 1)]

\* build: the header, what the block's tokens and header take, and what they take under the fixed code.
TreesSent(lit, dist, symbols, bl, hclen) ==
  [header |-> HeaderOfTrees(lit, dist, symbols, bl.lens, hclen),
   opt |-> Costs(lit, lit.lens, LenExtra, Literals + 1) + Costs(dist, dist.lens, DistExtra, 0)
           + Costs(bl, bl.lens, RunBits, MaxCode + 1) + ClenBits * hclen + HlitBits + HdistBits + HclenBits,
   static |-> Costs(lit, FixedLit, LenExtra, Literals + 1) + Costs(dist, FixedDist, DistExtra, 0)]
TreesCoded(lit, dist, symbols, bl) == TreesSent(lit, dist, symbols, bl, LastClen(bl.lens, Len(ClenOrder)))
TreesRun(lit, dist, symbols) == TreesCoded(lit, dist, symbols, BuildTree(SymbolFreq(symbols), ClenMax))
TreesOf(lit, dist) ==
  TreesRun(lit, dist, Runs(SubSeq(lit.lens, 1, lit.maxCode + 1)) \o Runs(SubSeq(dist.lens, 1, dist.maxCode + 1)))
Build(tokens) == TreesOf(BuildTree(LitFreq(tokens), MaxCode), BuildTree(DistFreq(tokens), MaxCode))

\* kind_of: stored when the bytes are no longer than the least of the codes.
Bytes(bits) == (bits + 3 + ByteBits - 1) \div ByteBits
KindFor(opt, static, stored) ==
  IF stored + 4 <= opt /\ stored < 2 ^ (2 * ByteBits) THEN "stored" ELSE IF static = opt THEN "fixed" ELSE "dynamic"
KindOf(t, stored, fixed) ==
  KindFor(IF Bytes(t.static) <= Bytes(t.opt) \/ fixed THEN Bytes(t.static) ELSE Bytes(t.opt), Bytes(t.static), stored)

-----------------------------------------------------------------------------
(* The matcher.                                                            *)

CONSTANTS
  Window,     \* 1 << windowBits
  HashSize,   \* 1 << (memLevel + 7)
  MinMatch,   \* 3
  TooFar,     \* 4096
  MaxHops,    \* 4096: how far down a chain a distance is looked for
  Candidates, \* Params::all: the parameters in the order they are tried
  Judged      \* 4096: the tokens of a sample

\* Params: [fast, slow: BOOLEAN (neither: no matching), good, lazy, nice, chain: its row of
\* CONFIG, filtered, fixed: BOOLEAN, tokens: block_tokens].
ZlibAssumption == Window > MaxMatch + MinMatch + 1
MaxDist == Window - (MaxMatch + MinMatch + 1)

At(text, i) == IF i < Len(text) THEN text[i + 1] ELSE 0
Lookahead(text, pos) == Len(text) - pos

\* The hash of the first MinMatch bytes: shifts that push the oldest out.
RECURSIVE HashOf(_, _, _)
HashOf(text, pos, n) == IF n = 0 THEN 0 ELSE (2 * HashOf(text, pos, n - 1) + At(text, pos + n - 1)) % HashSize

-----------------------------------------------------------------------------
(* The tables.                                                             *)

Slid(table) == [i \in DOMAIN table |-> IF table[i] >= Window THEN table[i] - Window ELSE 0]
Slide_head(z) == [z EXCEPT !.head = Slid(@), !.base = @ + Window]
Slide(z) == [z EXCEPT !.head = Slid(@), !.prev = Slid(@), !.base = @ + Window]
Room(z, pos) == IF pos >= z.base + Window + MaxDist THEN Slide(z) ELSE z

Linked(z, rel, h) ==
  [z EXCEPT !.prev[rel % Window] = z.head[h], !.head[h] = rel]
InsertAt(z, text, pos) == Linked(z, pos - z.base, HashOf(text, pos, MinMatch))

RECURSIVE Insert(_, _, _, _)
Insert(z, text, pos, end) ==
  IF pos >= end THEN z ELSE Insert(InsertAt(Room(z, pos), text, pos), text, pos + 1, end)

\* insert_to: every position below `to` that still has MinMatch bytes.
InsertEnd(text, to) ==
  IF Len(text) + 1 < MinMatch \/ to <= Len(text) + 1 - MinMatch THEN to ELSE Len(text) + 1 - MinMatch
Larger(a, b) == IF a > b THEN a ELSE b
InsertBelow(z, text, to, end) ==
  IF z.inserted >= end THEN [z EXCEPT !.inserted = Larger(@, to)]
  ELSE [Insert(z, text, z.inserted, end) EXCEPT !.inserted = Larger(to, end)]
InsertTo(z, text, to) == InsertBelow(z, text, to, InsertEnd(text, to))

NoCarry == [some |-> FALSE, len |-> 0, start |-> 0]
Found(len, start) == [some |-> TRUE, len |-> len, start |-> start]
Nothing == Found(0, 0)

\* new_at: the window before `start` learned.
Fresh(start) ==
  [head |-> [h \in 0..(HashSize - 1) |-> 0], prev |-> [i \in 0..(Window - 1) |-> 0],
   base |-> start, inserted |-> start, carry |-> NoCarry]
NewAt(text, start) == InsertTo(Fresh(IF start > Window THEN start - Window ELSE 0), text, start)

-----------------------------------------------------------------------------
(* Matches.                                                                *)

\* hash_head, of a z into which pos has been inserted.
HeadAt(z, text, pos) == IF Lookahead(text, pos) < MinMatch THEN 0 ELSE z.prev[(pos - z.base) % Window]
Limit(z, pos) == IF pos - z.base > MaxDist THEN pos - z.base - MaxDist ELSE 0

RECURSIVE Common(_, _, _, _)
Common(text, a, b, n) ==
  IF n = MaxMatch \/ At(text, a + n) # At(text, b + n) THEN n ELSE Common(text, a, b, n + 1)

\* longest_match: down the chain, until a nice one, the limit or the chain's length.
RECURSIVE Longest(_, _, _, _, _, _, _)
LongestOn(z, text, nice, pos, cur, best, chain) ==
  IF best.len >= nice /\ best.start = z.base + cur THEN best
  ELSE IF z.prev[cur % Window] <= Limit(z, pos) \/ chain = 1 THEN best
  ELSE Longest(z, text, nice, pos, z.prev[cur % Window], best, chain - 1)
LongestAt(z, text, nice, pos, cur, best, chain, len) ==
  LongestOn(z, text, nice, pos, cur, IF len > best.len THEN Found(len, z.base + cur) ELSE best, chain)
Longest(z, text, nice, pos, cur, best, chain) ==
  LongestAt(z, text, nice, pos, cur, best, chain, Common(text, z.base + cur, pos, 0))

Capped(n, most) == IF n > most THEN most ELSE n
LongestMatch(z, text, p, pos, cur, prevLen) ==
  LET m == Longest(z, text, Capped(p.nice, Lookahead(text, pos)), pos, cur, Found(prevLen, 0),
                   IF prevLen >= p.good THEN p.chain \div 4 ELSE p.chain)
  IN [m EXCEPT !.len = Capped(@, Lookahead(text, pos))]

\* search, as deflate_slow looks for more than prevLen.
Worth(p, pos, m, prevLen) ==
  m.len > prevLen /\ ~(m.len <= 5 /\ (p.filtered \/ (m.len = MinMatch /\ pos - m.start > TooFar)))
Kept(p, pos, m, prevLen) == IF Worth(p, pos, m, prevLen) THEN m ELSE Nothing
SearchFrom(z, text, p, pos, head, prevLen) ==
  IF head = 0 \/ prevLen >= p.lazy \/ pos - z.base - head > MaxDist THEN Nothing
  ELSE Kept(p, pos, LongestMatch(z, text, p, pos, head, prevLen), prevLen)
Search(z, text, p, pos, prevLen) == SearchFrom(z, text, p, pos, HeadAt(z, text, pos), prevLen)

Guess(z, token) == [z |-> z, token |-> token]
Back(pos, m) == Ref(m.len, pos - m.start)

FastToken(text, pos, m) == IF m.len >= MinMatch THEN Back(pos, m) ELSE Lit(At(text, pos))
FastFrom(z, text, p, pos, head) ==
  IF head = 0 \/ pos - z.base - head > MaxDist THEN Lit(At(text, pos))
  ELSE FastToken(text, pos, LongestMatch(z, text, p, pos, head, MinMatch - 1))
Fast(z, text, p, pos) == Guess(z, FastFrom(z, text, p, pos, HeadAt(z, text, pos)))

\* Lazily: a longer match one position on makes this one a literal.
LazyFrom(z, text, pos, m, next) ==
  IF next.len > m.len THEN Guess([z EXCEPT !.carry = next], Lit(At(text, pos))) ELSE Guess(z, Back(pos, m))
LazyNext(z, text, p, pos, m) == LazyFrom(z, text, pos, m, Search(z, text, p, pos + 1, m.len))
LazyWith(z, text, p, pos, m) ==
  IF m.len < MinMatch THEN Guess(z, Lit(At(text, pos))) ELSE LazyNext(InsertTo(z, text, pos + 2), text, p, pos, m)
LazyFresh(z, text, p, pos) == LazyWith(z, text, p, pos, Search(z, text, p, pos, MinMatch - 1))
Lazy(z, text, p, pos) ==
  IF z.carry.some THEN LazyWith([z EXCEPT !.carry = NoCarry], text, p, pos, z.carry)
  ELSE LazyFresh(InsertTo(z, text, pos + 1), text, p, pos)

\* predict: the token at pos, and the matcher after looking.
PredictToken(z, text, p, pos) ==
  IF p.slow THEN Lazy(z, text, p, pos)
  ELSE IF p.fast THEN Fast(InsertTo(z, text, pos + 1), text, p, pos)
  ELSE Guess(z, Lit(At(text, pos)))

\* commit: past the token that was there; deflate_fast skips the inside of a long match.
Inserted(z, text, p, pos, len) ==
  IF p.slow \/ (p.fast /\ len <= p.lazy /\ Lookahead(text, pos + len) >= MinMatch)
    THEN InsertTo(z, text, Capped(pos + len, IF Len(text) < MinMatch THEN 0 ELSE Len(text) + 1 - MinMatch))
    ELSE InsertTo(z, text, pos + 1)
Moved(z, pos) == [z EXCEPT !.inserted = Larger(@, pos)]
Commit(z, text, p, pos, t) ==
  IF t.ref THEN Moved(Inserted([z EXCEPT !.carry = NoCarry], text, p, pos, SpanOf(t)), pos + SpanOf(t))
  ELSE InsertTo(z, text, pos + 1)

\* The positions with the hash of pos, nearest first, as distances.
RECURSIVE ChainFrom(_, _, _, _)
ChainFrom(z, pos, cur, n) ==
  IF cur = 0 \/ cur <= Limit(z, pos) \/ n = 0 THEN <<>>
  ELSE <<pos - z.base - cur>> \o ChainFrom(z, pos, z.prev[cur % Window], n - 1)
ChainIn(z, text, pos) == ChainFrom(z, pos, HeadAt(z, text, pos), MaxHops)
Chain(z, text, pos) == ChainIn(InsertTo(z, text, pos + 1), text, pos)

\* A stored block: the tokens are its own, none past its end.
OwnToken(t, text, pos, end) == IF t.ref /\ pos + t.len > end THEN Lit(At(text, pos)) ELSE t
RECURSIVE Through(_, _, _, _, _)
ThroughToken(z, text, p, pos, end, t) == Through(Commit(z, text, p, pos, t), text, p, pos + SpanOf(t), end)
ThroughGuess(g, text, p, pos, end) == ThroughToken(g.z, text, p, pos, end, OwnToken(g.token, text, pos, end))
Through(z, text, p, pos, end) ==
  IF pos >= end THEN z ELSE ThroughGuess(PredictToken(z, text, p, pos), text, p, pos, end)

=============================================================================
