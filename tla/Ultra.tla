------------------------------- MODULE Ultra -------------------------------
(***************************************************************************)
(* The ultra level's parse (src/src/v7_ultra.rs). The positions of a       *)
(* bucket are a tree, newest at the root and sorted by what follows them,  *)
(* in a ring as long as the window; a walk down it inserts a position and  *)
(* lists its matches. A dynamic program keeps the cheapest way to every    *)
(* position of a block, with the last offsets on that way; prices are      *)
(* whatever the statistics of other blocks make them. The first block is   *)
(* parsed twice, its insertions taken back in between.                     *)
(***************************************************************************)
EXTENDS MatchBytes

CONSTANTS
  Heads,      \* entries of each table of heads
  DEPTH,      \* nodes a walk compares
  SUFFICIENT_LEN,
  Twin,       \* bytes of a repeat's end that are inserted all the same: 8
  LOCAL_WINDOW,
  FarOffset, FarCap,  \* 2 ^ (FAR_OFFSET_BITS + 1), FAR_MATCH_CAP
  MIN_PART    \* bytes of a part: 48 KB; SPLIT_STEP is one sequence here

MIN_MATCH == 3
NONE == -1

Lm == INSTANCE LongMatches WITH
  MinLen <- 4, HashLen <- 4, WordLen <- 2, Slots <- 4, Checks <- 2, Reach <- 32, Chunk <- 4,
  EarlyAt <- 4, EarlyYield <- 4, GateAt <- 8, GateYield <- 4, GateOffset <- LOCAL_WINDOW

h4(text, pos) == Hash(BytesAt(text, pos, 4), Heads)
h3(text, pos) == Hash(BytesAt(text, pos, 3), Heads)
Slot(pos) == pos % LOCAL_WINDOW

NoHeads == [i \in 0..(Heads - 1) |-> NONE]
clear ==
  [hash4 |-> NoHeads, hash3 |-> NoHeads, inserted |-> 0, undo |-> <<>>, sorted |-> TRUE,
   tree |-> [s \in 0..(LOCAL_WINDOW - 1) |-> [smaller |-> NONE, larger |-> NONE]]]
start_at(u, pos) == [u EXCEPT !.inserted = pos]

-----------------------------------------------------------------------------
(* One walk. `sorted` is what the code asserts of every node it compares.  *)

\* The position becomes the root; what the heads were is logged when it will be undone.
Rooted(u, pos, i4, i3, log) ==
  [u EXCEPT !.hash4[i4] = pos, !.hash3[i3] = pos,
            !.undo = IF log THEN Append(@, [i4 |-> i4, was4 |-> u.hash4[i4], i3 |-> i3, was3 |-> u.hash3[i3]]) ELSE @]

Low(pos) == Most(0, pos - (LOCAL_WINDOW - 1))
Link(u, open, m) == [u EXCEPT !.tree[open.slot][open.side] = m]
Open(slot, side) == [slot |-> slot, side |-> side]
Closed(w) == [w EXCEPT !.u = Link(Link(@, w.sp, NONE), w.lp, NONE)]

\* The node is compared from what both its ends of the order agree on already.
Listed(w, text, pos, ml, usable) ==
  [w EXCEPT !.n = @ - 1, !.reach = Most(@, w.m + ml),
            !.u.sorted = @ /\ ml = prefix(text, pos, text, w.m, Len(text) - pos),
            !.cands = IF w.collect /\ usable > w.best THEN Append(@, [len |-> usable, off |-> pos - w.m]) ELSE @,
            !.best = IF w.collect THEN Most(@, usable) ELSE @]

\* The node goes to its side of the position, and the walk into its other side, but at
\* the window's edge no further.
Below(w, node, ml) ==
  [w EXCEPT !.u = Link(@, w.sp, w.m), !.cls = ml, !.sp = Open(Slot(w.m), "larger"), !.m = node.larger]
Above(w, node, ml) ==
  [w EXCEPT !.u = Link(@, w.lp, w.m), !.cll = ml, !.lp = Open(Slot(w.m), "smaller"), !.m = node.smaller]
Edge(w, below) ==
  [w EXCEPT !.u = IF below THEN Link(Link(@, w.sp, w.m), w.lp, NONE) ELSE Link(Link(@, w.lp, w.m), w.sp, NONE)]

RECURSIVE Down(_, _, _, _)
Beside(w, text, pos, limit, ml, below) ==
  IF w.m <= Low(pos) THEN Edge(w, below)
  ELSE Down(IF below THEN Below(w, w.u.tree[Slot(w.m)], ml) ELSE Above(w, w.u.tree[Slot(w.m)], ml), text, pos, limit)
Compared(w, text, pos, limit, ml) ==
  IF pos + ml >= Len(text) THEN Closed(Listed(w, text, pos, ml, Least(ml, limit - pos)))
  ELSE Beside(Listed(w, text, pos, ml, Least(ml, limit - pos)), text, pos, limit, ml, text[w.m + ml + 1] < text[pos + ml + 1])
AtNode(w, text, pos, limit, from) ==
  Compared(w, text, pos, limit, from + prefix(text, pos + from, text, w.m + from, Len(text) - pos - from))
Down(w, text, pos, limit) ==
  IF w.n = 0 \/ w.m \notin Low(pos)..(pos - 1) THEN Closed(w) ELSE AtNode(w, text, pos, limit, Least(w.cls, w.cll))

LastLen(cands) == IF cands = <<>> THEN MIN_MATCH - 1 ELSE cands[Len(cands)].len
walk(u, text, pos, limit, log, collect, cands) ==
  Down([u |-> Rooted(u, pos, h4(text, pos), h3(text, pos), log), m |-> u.hash4[h4(text, pos)], n |-> DEPTH,
        sp |-> Open(Slot(pos), "smaller"), lp |-> Open(Slot(pos), "larger"), cls |-> 0, cll |-> 0, reach |-> pos,
        collect |-> collect, cands |-> cands, best |-> IF collect THEN LastLen(cands) ELSE 0],
       text, pos, limit)

\* Positions under a match found have their twins in the tree, but for its last ones.
Skipped(w, pos) == [w.u EXCEPT !.inserted = pos + Most(1, w.reach - (pos + Twin))]
RECURSIVE insert_upto(_, _, _, _)
insert_upto(u, text, end, log) ==
  IF u.inserted >= Least(end, Len(text) - 3) THEN u
  ELSE insert_upto(Skipped(walk(u, text, u.inserted, u.inserted, log, FALSE, <<>>), u.inserted), text, end, log)

\* What was logged taken back, newest first, as if every position had been.
Cut_none(tree, pos) == tree
Cut(tree, pos) == [tree EXCEPT ![Slot(pos)] = [smaller |-> NONE, larger |-> NONE]]
RECURSIVE TakeBack(_, _, _)
TakeBack(u, e, pos) ==
  IF u.undo = <<>> THEN u
  ELSE TakeBack([u EXCEPT !.tree = Cut(@, pos), !.hash4[e.i4] = e.was4, !.hash3[e.i3] = e.was3, !.undo = SubSeq(@, 1, Len(@) - 1)],
                IF Len(u.undo) = 1 THEN e ELSE u.undo[Len(u.undo) - 1], pos - 1)
undo(u) ==
  IF u.undo = <<>> THEN u ELSE [TakeBack(u, u.undo[Len(u.undo)], u.inserted - 1) EXCEPT !.inserted = @ - Len(u.undo)]

-----------------------------------------------------------------------------
(* The candidates of a position: the last offsets, the short head, the     *)
(* tree, a far match. The position is inserted.                            *)

Cand(len, off) == IF len >= MIN_MATCH THEN <<[len |-> len, off |-> off]>> ELSE <<>>
RepCand(text, pos, max, r) == IF r > pos THEN <<>> ELSE Cand(prefix(text, pos, text, pos - r, max), r)
Longest(cands) == IF cands = <<>> THEN MIN_MATCH - 1 ELSE CHOOSE n \in {cands[i].len : i \in DOMAIN cands} : \A i \in DOMAIN cands : cands[i].len <= n

HeadLen(text, pos, max, p3) ==
  IF p3 # NONE /\ p3 < pos /\ pos - p3 < LOCAL_WINDOW THEN prefix(text, pos, text, p3, max) ELSE 0
WithHead(cands, best, len, off) == IF best < SUFFICIENT_LEN /\ len > best THEN Append(cands, [len |-> len, off |-> off]) ELSE cands

FarLen(far, max) == IF far.off >= FarOffset THEN Least(Least(far.len, max), FarCap) ELSE Least(far.len, max)
WithFar(g, len, off) ==
  IF len > g.best THEN [g EXCEPT !.cands = Append(@, [len |-> len, off |-> off]), !.best = len] ELSE g
FromTree(w, pos, best) ==
  [u |-> [w.u EXCEPT !.inserted = Most(@, pos + 1)], cands |-> w.cands, best |-> IF w.collect THEN Most(best, w.best) ELSE best]
Found(u, text, pos, limit, log, cands, best, far) ==
  WithFar(FromTree(walk(u, text, pos, limit, log, best < SUFFICIENT_LEN, cands), pos, best), FarLen(far, limit - pos), far.off)
WithReps(u, text, pos, limit, log, far, cands, best, headLen) ==
  IF Len(text) - pos < 4 THEN [u |-> u, cands |-> cands, best |-> best]
  ELSE Found(u, text, pos, limit, log, WithHead(cands, best, headLen, pos - u.hash3[h3(text, pos)]),
             IF best < SUFFICIENT_LEN THEN Most(best, headLen) ELSE best, far)
RepsThen(u, text, pos, limit, log, far, cands) ==
  WithReps(u, text, pos, limit, log, far, cands, Longest(cands),
           IF Len(text) - pos < 4 THEN 0 ELSE HeadLen(text, pos, limit - pos, u.hash3[h3(text, pos)]))
candidates(u, text, pos, limit, log, reps, far) ==
  IF limit - pos < MIN_MATCH THEN [u |-> u, cands |-> <<>>, best |-> 0]
  ELSE RepsThen(u, text, pos, limit, log, far,
         RepCand(text, pos, limit - pos, reps[1]) \o RepCand(text, pos, limit - pos, reps[2]) \o RepCand(text, pos, limit - pos, reps[3]))

-----------------------------------------------------------------------------
(* The dynamic program over a block. c: the block, its prices and its far  *)
(* matches.                                                                *)

Node(price, mlen, off, litlen, reps) == [price |-> price, mlen |-> mlen, off |-> off, litlen |-> litlen, reps |-> reps]
UNREACHED == Node(1000000, 0, 0, 0, <<0, 0, 0>>)

\* A literal run and a match length cost by their size, an offset by whether it is a repeat.
LlPrice(p, n) == p.ll[Least(n, Len(p.ll) - 1) + 1]
MlPrice(p, n) == p.ml[Least(n, Len(p.ml) + MIN_MATCH - 1) - MIN_MATCH + 1]
OffPrice(p, off, r) == IF off \in {r[1], r[2], r[3]} THEN p.rep ELSE p.off

rep_code(off, r) ==
  IF off = r[1] THEN r ELSE IF off = r[2] THEN <<r[2], r[1], r[3]>>
  ELSE IF off = r[3] THEN <<r[3], r[1], r[2]>> ELSE <<off, r[1], r[2]>>

Reached(opt, to, node) == IF node.price < opt[to].price THEN [opt EXCEPT ![to] = node] ELSE opt
LiteralPrice(p, price, byte, litlen) == Most(0, price + p.lit[byte + 1] + LlPrice(p, litlen) - LlPrice(p, litlen - 1))
ByLiteral(opt, cur, c, n, litlen) ==
  Reached(opt, cur + 1, Node(LiteralPrice(c.prices, n.price, c.text[c.start + cur + 1], litlen), 0, 0, litlen, n.reps))

ByMatch(opt, cur, c, n, len, off) ==
  Reached(opt, cur + len, Node(n.price + LlPrice(c.prices, 0) + MlPrice(c.prices, len) + OffPrice(c.prices, off, n.reps),
                               len, off, 0, rep_code(off, n.reps)))
RECURSIVE Lengths(_, _, _, _, _, _)
Lengths(opt, cur, c, n, l, cand) ==
  IF l > cand.len THEN opt ELSE Lengths(ByMatch(opt, cur, c, n, l, cand.off), cur, c, n, l + 1, cand)

\* A repeat prices every length, another candidate those past the one before it.
RECURSIVE Priced(_, _, _, _, _, _)
PricedRep(opt, cur, c, n, cands, from) ==
  Priced(Lengths(opt, cur, c, n, MIN_MATCH, cands[1]), cur, c, n, Tail(cands), from)
PricedNew(opt, cur, c, n, cands, from) ==
  Priced(Lengths(opt, cur, c, n, from, cands[1]), cur, c, n, Tail(cands), cands[1].len + 1)
Priced(opt, cur, c, n, cands, from) ==
  IF cands = <<>> THEN opt
  ELSE IF cands[1].off \in {n.reps[1], n.reps[2], n.reps[3]} THEN PricedRep(opt, cur, c, n, cands, from)
  ELSE PricedNew(opt, cur, c, n, cands, from)

\* A sufficient match is taken whole, and no position inside it is searched.
FirstLong(cands, best) == cands[CHOOSE i \in DOMAIN cands : cands[i].len = best /\ \A j \in 1..(i - 1) : cands[j].len # best]
Whole(p, cur, c, n, cand) ==
  [p EXCEPT !.opt = ByMatch(@, cur, c, n, cand.len, cand.off), !.skip = cur + cand.len]
Matched(p, cur, c, n, g) ==
  IF g.best < MIN_MATCH THEN p
  ELSE IF g.best >= SUFFICIENT_LEN THEN Whole(p, cur, c, n, FirstLong(g.cands, g.best))
  ELSE [p EXCEPT !.opt = Priced(@, cur, c, n, g.cands, MIN_MATCH)]
Searched(p, cur, c, n, g, far) == Matched([p EXCEPT !.u = g.u, !.far = far], cur, c, n, g)
Search(p, cur, c, n, pos, far) ==
  Searched(p, cur, c, n,
    candidates(insert_upto(p.u, c.text, pos, c.log), c.text, pos, c.start + c.len, c.log, n.reps, Lm!Over(c.far, far, pos)), far)

RECURSIVE Across(_, _, _)
Step(p, cur, c, n) ==
  IF cur < p.skip THEN p ELSE Search(p, cur, c, n, c.start + cur, Lm!Moved(c.far, p.far, c.start + cur))
Onwards(p, cur, c, n) ==
  Across(Step([p EXCEPT !.opt = ByLiteral(@, cur, c, n, IF n.mlen = 0 THEN n.litlen + 1 ELSE 1)], cur, c, n), cur + 1, c)
Across(p, cur, c) == IF cur = c.len THEN p ELSE Onwards(p, cur, c, p.opt[cur])

\* Back along the cheapest way.
RECURSIVE Trace(_, _)
TraceFrom(opt, cur, n, ll) ==
  Append(Trace(opt, cur - n.mlen - ll), [ll |-> ll, ml |-> n.mlen, off |-> n.off])
Trace(opt, cur) == IF cur = 0 THEN <<>> ELSE TraceFrom(opt, cur, opt[cur], opt[cur - opt[cur].mlen].litlen)
Trailing(n) == IF n.mlen = 0 THEN n.litlen ELSE 0
Traced(opt, len, trailing) == Append(Trace(opt, len - trailing), [ll |-> trailing, ml |-> 0, off |-> 0])

Parsed(p, c) ==
  [seqs |-> Traced(p.opt, c.len, Trailing(p.opt[c.len])), u |-> insert_upto(p.u, c.text, c.start + c.len, c.log)]
parse(u, c) ==
  Parsed(Across([u |-> insert_upto(u, c.text, c.start, FALSE), skip |-> 0, far |-> Lm!cursor(c.far, c.start),
                 opt |-> [i \in 0..c.len |-> IF i = 0 THEN Node(0, 0, 0, 0, <<1, 4, 8>>) ELSE UNREACHED]], 0, c), c)

Again(g, c) == parse(undo(g.u), [c EXCEPT !.log = FALSE])
find_sequences_ultra(u, c, first, prior) ==
  IF first THEN Again(parse(u, [c EXCEPT !.prices = prior, !.log = TRUE]), c) ELSE parse(u, c)

-----------------------------------------------------------------------------
(* The blocks of an input: a block's parse may be cut into parts with      *)
(* tables of their own, each closed by a sequence without a match.         *)

SeqsLen(seqs) == LET Upto[i \in 0..Len(seqs)] == IF i = 0 THEN 0 ELSE Upto[i - 1] + seqs[i].ll + seqs[i].ml IN Upto[Len(seqs)]
RECURSIVE LiteralsOf(_, _, _)
LiteralsOf(text, at, seqs) ==
  IF seqs = <<>> THEN <<>>
  ELSE BytesAt(text, at, seqs[1].ll) \o LiteralsOf(text, at + seqs[1].ll + seqs[1].ml, Tail(seqs))
PartEnded(seqs) == IF seqs[Len(seqs)].ml = 0 THEN seqs ELSE Append(seqs, [ll |-> 0, ml |-> 0, off |-> 0])
Part(text, at, seqs) ==
  [len |-> SeqsLen(seqs), seqs |-> PartEnded(seqs), lits |-> LiteralsOf(text, at, seqs), fresh |-> FALSE]

\* What a run of sequences counts in each table; a match's offset by its bits.
RECURSIVE Floor2(_)
Floor2(n) == IF n < 2 THEN 0 ELSE 1 + Floor2(n \div 2)
WithMatches(seqs) == SelectSeq(seqs, LAMBDA q : q.ml # 0)
OffsetBits(ms) == [i \in DOMAIN ms |-> Floor2(ms[i].off)]
MatchLens(ms) == [i \in DOMAIN ms |-> ms[i].ml]
stats_of(seqs, lits) ==
  [lit |-> lits, ll |-> [i \in DOMAIN seqs |-> seqs[i].ll],
   ml |-> MatchLens(WithMatches(seqs)), off |-> OffsetBits(WithMatches(seqs))]
Past(all, pre) == SubSeq(all, Len(pre) + 1, Len(all))
sub_stats(all, pre) ==
  [lit |-> Past(all.lit, pre.lit), ll |-> Past(all.ll, pre.ll), ml |-> Past(all.ml, pre.ml), off |-> Past(all.off, pre.off)]

\* A symbol's order-0 cost, in quarters of a bit, and a table's.
log2_q2(v) == Floor2(v^4)
cost_q2(c, total) == log2_q2(total) - log2_q2(c)
CountOf(codes, s) == LET Upto[i \in 0..Len(codes)] == IF i = 0 THEN 0 ELSE Upto[i - 1] + (IF codes[i] = s THEN 1 ELSE 0) IN Upto[Len(codes)]
entropy_bits(codes) ==
  LET Upto[i \in 0..Len(codes)] == IF i = 0 THEN 0 ELSE Upto[i - 1] + cost_q2(CountOf(codes, codes[i]), Len(codes)) IN Upto[Len(codes)]
stats_cost(s) == entropy_bits(s.lit) + entropy_bits(s.ll) + entropy_bits(s.ml) + entropy_bits(s.off)

\* The cut of a span whose two parts cost least, when by enough less than it whole.
StatsFor(text, at, seqs, from, to) ==
  stats_of(SubSeq(seqs, from + 1, to), LiteralsOf(text, at + SeqsLen(SubSeq(seqs, 1, from)), SubSeq(seqs, from + 1, to)))
CutCost(all, pre) == stats_cost(pre) + stats_cost(sub_stats(all, pre))
CutsOf(seqs, from, to) ==
  {k \in (from + 1)..(to - 1) :
    SeqsLen(SubSeq(seqs, from + 1, k)) >= MIN_PART /\ SeqsLen(SubSeq(seqs, k + 1, to)) >= MIN_PART}
Costs(text, at, seqs, from, to, all) ==
  [k \in CutsOf(seqs, from, to) |-> CutCost(all, StatsFor(text, at, seqs, from, k))]
Cheapest(costs, under) ==
  {k \in DOMAIN costs : costs[k] < under /\ \A j \in DOMAIN costs : costs[k] < costs[j] \/ (costs[k] = costs[j] /\ k <= j)}
BestCut(text, at, seqs, from, to, overhead, all) ==
  Cheapest(Costs(text, at, seqs, from, to, all), Most(0, stats_cost(all) - 4 * overhead))
RECURSIVE Spans(_, _, _, _, _, _)
Halves(text, at, seqs, from, to, overhead, k) ==
  k \cup UNION {Spans(text, at, seqs, from, c, overhead) \cup Spans(text, at, seqs, c, to, overhead) : c \in k}
Spans(text, at, seqs, from, to, overhead) ==
  IF to - from < 2 THEN {}
  ELSE Halves(text, at, seqs, from, to, overhead, BestCut(text, at, seqs, from, to, overhead, StatsFor(text, at, seqs, from, to)))
split_points(text, at, seqs, overhead) == Spans(text, at, seqs, 0, Len(seqs), overhead)

\* The parts, in order.
RECURSIVE Parts(_, _, _, _, _)
FirstOf(cuts, n) == IF cuts = {} THEN n ELSE CHOOSE k \in cuts : \A j \in cuts : k <= j
UpTo(text, at, seqs, from, cuts, to) ==
  <<Part(text, at, SubSeq(seqs, from + 1, to))>> \o Parts(text, at + SeqsLen(SubSeq(seqs, from + 1, to)), seqs, to, cuts \ {to})
Parts(text, at, seqs, from, cuts) ==
  IF from = Len(seqs) THEN <<>> ELSE UpTo(text, at, seqs, from, cuts, FirstOf(cuts, Len(seqs)))

RECURSIVE Blocks(_, _, _, _, _, _)
Following(blocks, rest) == [blocks |-> blocks \o rest.blocks, sorted |-> rest.sorted]
BlockThen(g, c, size, overhead, prior, next) ==
  Following(Parts(c.text, c.start, g.seqs, 0, split_points(c.text, c.start, g.seqs, overhead)),
            Blocks([c EXCEPT !.start = next, !.len = Least(size, Len(c.text) - next)], g.u, size, overhead, FALSE, prior))
Blocks(c, u, size, overhead, first, prior) ==
  IF c.len = 0 THEN [blocks |-> <<>>, sorted |-> u.sorted]
  ELSE BlockThen(find_sequences_ultra(u, c, first, prior), c, size, overhead, prior, c.start + c.len)

\* Behind a base the trees start a window before the input; behind a dictionary they are
\* its content's, inserted once, and the prices its tables'.
Block(text, start, size, prices, far) ==
  [text |-> text, start |-> start, len |-> Least(size, Len(text) - start), prices |-> prices, far |-> far, log |-> FALSE]
compress_ultra(text, start, size, overhead, prior, prices, far) ==
  Blocks(Block(text, start, size, prices, far), start_at(clear, Most(0, start - LOCAL_WINDOW)), size, overhead, TRUE, prior)
snapshot_of(content) == insert_upto(clear, content, Len(content), FALSE)
compress_with_dict_ultra(content, input, size, overhead, prices) ==
  Blocks(Block(content \o input, Len(content), size, prices, <<>>), snapshot_of(content), size, overhead, FALSE, prices)
=============================================================================
