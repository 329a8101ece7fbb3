-------------------------------- MODULE Shape --------------------------------
(***************************************************************************)
(* Shape dictionaries (ShapeDict, src/src/shape.rs): trained once on a     *)
(* sample, they take a small object's lines apart into frames and columns  *)
(* and make an image of it, which an LZ dictionary then codes; that stage  *)
(* gives back what it is given and is left out.                            *)
(*                                                                         *)
(* An image is a sequence of tokens of a byte each: a number n or a        *)
(* character c.  (A time's delta is one token of its own.)                 *)
(***************************************************************************)
EXTENDS Records

CONSTANTS
  MaxFrames, MaxColumns, MaxSeeds,  \* frames and columns of a dictionary, seeds of a column
  IntRing,                          \* INT_RING
  Word                              \* the values an integer has, 2^64 in the code

N(v) == <<[n |-> v]>>
Chars(s) == [i \in DOMAIN s |-> [c |-> s[i]]]
Line(v) == Chars(v) \o <<[c |-> LineEnd]>>
Numbers(vs) == [i \in DOMAIN vs |-> [n |-> vs[i]]]

\* A sum as the machine has it, signed; zigzag and back.
Wrap(v) == ((v + Word \div 2) % Word) - Word \div 2
Zigzag(d) == IF d >= 0 THEN 2 * d ELSE -2 * d - 1
Unzigzag_short(u) == IF u % 2 = 0 THEN u \div 2 ELSE -(u \div 2)
Unzigzag(u) == IF u % 2 = 0 THEN u \div 2 ELSE -((u + 1) \div 2)

IntOf(v) ==
  LET p == ParseInt(v)
  IN IF p.some /\ p.it < Word \div 2 /\ -p.it < Word \div 2 THEN p ELSE None

-----------------------------------------------------------------------------
(* Lines and their frames.                                                 *)

ObjectLines(s) == IF s = <<>> THEN <<>> ELSE TextLines(s)

Alnum == DOMAIN DigitOf \cup {"a"}

\* Every run of letters and digits is a hole.
RECURSIVE Skeleton(_)
Skeleton(l) ==
  IF l = <<>> THEN [text |-> <<>>, values |-> <<>>]
  ELSE
    LET ends == {i \in 0..Len(l) : i = Len(l) \/ l[i + 1] \notin Alnum}
        n == CHOOSE i \in ends : \A j \in ends : i <= j
        rest == Skeleton(From(l, IF n = 0 THEN 2 ELSE n + 1))
    IN IF n = 0 THEN [rest EXCEPT !.text = <<l[1]>> \o @]
       ELSE [text |-> <<Hole>> \o rest.text, values |-> <<SubSeq(l, 1, n)>> \o rest.values]

\* A line's text with its holes, the values in them and the keys of their columns.
FrameOfLine(kind, l) ==
  LET fields == SplitAt(l, kind.delimiter)
      scanned == IF At(l, 1, "{") /\ l[Len(l)] = "}" THEN Scan(l, 1, <<>>, <<>>, None) ELSE <<>>
      skeleton == Skeleton(l)
  IN CASE kind.mode = "delimited" ->
            IF Len(fields) # kind.fields THEN None
            ELSE Some([text |-> JoinWith([i \in DOMAIN fields |-> <<Hole>>], kind.delimiter),
                       values |-> fields, keys |-> [i \in DOMAIN fields |-> <<i>>]])
       [] kind.mode = "json" ->
            IF scanned = <<>> THEN None
            ELSE Some([text |-> FrameOf(l, 1, scanned),
                       values |-> [i \in DOMAIN scanned |-> SubSeq(l, scanned[i].start, scanned[i].end)],
                       keys |-> [i \in DOMAIN scanned |-> scanned[i].path]])
       [] kind.mode = "template" ->
            IF skeleton.values = <<>> THEN None
            ELSE Some([text |-> skeleton.text, values |-> skeleton.values,
                       keys |-> [i \in DOMAIN skeleton.values |-> <<skeleton.text, i>>]])

-----------------------------------------------------------------------------
(* Training.                                                               *)

\* The frames, counted, and the columns' keys and values, line after line. A frame
\* that comes when the columns are too many is left in the list uncounted.
NewKeys(keys, known) ==
  Distinct(Picked(keys, {i \in DOMAIN keys : \A k \in DOMAIN known : known[k] # keys[i]}))

RECURSIVE Counted(_, _)
Counted(fs, m) ==
  IF fs = <<>> THEN m
  ELSE
    LET f == Head(fs)
        at == {k \in DOMAIN m.frames : m.frames[k].text = f.text}
        k == IF at = {} THEN Len(m.frames) + 1 ELSE CHOOSE i \in at : TRUE
        old == IF at = {} THEN [text |-> f.text, count |-> 0, cols |-> <<>>] ELSE m.frames[k]
        keys == IF old.count = 0 THEN m.keys \o NewKeys(f.keys, m.keys) ELSE m.keys
        cols == IF old.count = 0
                  THEN [i \in DOMAIN f.keys |-> CHOOSE c \in DOMAIN keys : keys[c] = f.keys[i]]
                  ELSE old.cols
        full == old.count = 0 /\ Len(keys) > MaxColumns
        frame == IF full THEN old ELSE [old EXCEPT !.count = @ + 1, !.cols = cols]
        more(c) == IF full THEN <<>> ELSE Picked(f.values, {i \in DOMAIN f.values : cols[i] = c})
    IN Counted(Tail(fs),
               [frames |-> [i \in DOMAIN m.frames \cup {k} |-> IF i = k THEN frame ELSE m.frames[i]],
                keys |-> keys,
                values |-> [c \in DOMAIN keys |->
                              (IF c <= Len(m.values) THEN m.values[c] ELSE <<>>) \o more(c)]])

\* The n most frequent, the earlier first on a tie.
RECURSIVE MostFrequent(_, _)
MostFrequent(xs, n) ==
  IF n = 0 \/ xs = <<>> THEN <<>>
  ELSE LET most == CHOOSE i \in DOMAIN xs :
                     \A j \in DOMAIN xs : xs[j].count < xs[i].count \/ (xs[j].count = xs[i].count /\ i <= j)
       IN <<xs[most]>> \o MostFrequent(SubSeq(xs, 1, most - 1) \o From(xs, most + 1), n - 1)

SeedsOf(vals) ==
  LET d == Distinct(vals)
      top == MostFrequent([i \in DOMAIN d |-> [v |-> d[i], count |-> Cardinality({j \in DOMAIN vals : vals[j] = d[i]})]],
                          MaxSeeds)
  IN [i \in DOMAIN top |-> top[i].v]

\* A column's type from the values it had in the sample.
Typed(vals, pi, decs, at) ==
  LET most(of) == vals # <<>> /\ FewEscapes(Len(vals) - Cardinality(of), vals)
      places == Most({decs[i].it.places : i \in at})
      whole == Most({Len(vals[i]) - decs[i].it.places - (IF decs[i].it.places > 0 THEN 1 ELSE 0) : i \in at})
  IN CASE most({i \in DOMAIN vals : IntOf(vals[i]).some}) -> [type |-> "int"]
       [] OTHER ->
            IF pi.some /\ most({i \in DOMAIN vals : Exact(DatePatterns[pi.it], vals[i], <<>>)})
              THEN [type |-> "time", pattern |-> pi.it]
            ELSE IF Cardinality({vals[i] : i \in DOMAIN vals}) = 1 THEN [type |-> "const", seeds |-> <<vals[1]>>]
            ELSE IF vals # <<>> /\ Few(vals) THEN [type |-> "dict", seeds |-> SeedsOf(vals)]
            ELSE IF most(at) /\ whole + places <= MaxDigits THEN [type |-> "dec", places |-> places]
            ELSE [type |-> "text"]
TypeParsed(vals, pi, decs) == Typed(vals, pi, decs, {i \in DOMAIN vals : decs[i].some})
TypeColumn(vals) == TypeParsed(vals, PatternOf(vals), [i \in DOMAIN vals |-> ParseDecimal(vals[i])])

Train(kind, sample) ==
  LET lines == ObjectLines(sample)
      fs == [i \in DOMAIN lines |-> FrameOfLine(kind, lines[i])]
      shaped == Picked(fs, {i \in DOMAIN fs : fs[i].some})
      m == Counted([i \in DOMAIN shaped |-> shaped[i].it], [frames |-> <<>>, keys |-> <<>>, values |-> <<>>])
      kept == MostFrequent(m.frames, MaxFrames)
  IN IF shaped = <<>> THEN None
     ELSE Some([kind |-> kind,
                frames |-> [i \in DOMAIN kept |-> [text |-> kept[i].text, cols |-> kept[i].cols]],
                columns |-> [c \in DOMAIN m.values |-> TypeColumn(m.values[c])]])

\* from_bytes of to_bytes: a frame has as many columns there as holes.
RECURSIVE Cut(_, _)
Cut(frames, cols) ==
  IF frames = <<>> THEN <<>>
  ELSE LET n == HolesIn(Head(frames).text)
       IN <<[Head(frames) EXCEPT !.cols = SubSeq(cols, 1, n)]>> \o Cut(Tail(frames), From(cols, n + 1))
Reloaded(d) ==
  IF Len(d.columns) > MaxColumns THEN None
  ELSE Some([d EXCEPT !.frames = Cut(d.frames, Concat([i \in DOMAIN d.frames |-> d.frames[i].cols]))])

-----------------------------------------------------------------------------
(* encode_values and decode_values. A decoder gives the values and the     *)
(* rest of the image, or None.                                             *)

Front(xs, x, max) == <<x>> \o SubSeq(xs, 1, IF Len(xs) < max THEN Len(xs) ELSE max - 1)

\* Integers: a recent one by its rank, any other by its distance from the last.
RECURSIVE IntCodes(_, _, _)
IntCodes(vals, last, ring) ==
  IF vals = <<>> THEN <<>>
  ELSE
    LET v == IntOf(Head(vals))
        p == FirstAt(ring, v.it)
    IN IF ~v.some THEN <<0>> \o IntCodes(Tail(vals), last, ring)
       ELSE IF p > 0 THEN <<p>> \o IntCodes(Tail(vals), v.it, Touched(ring, p))
       ELSE <<(Zigzag(Wrap(v.it - last)) + IntRing + 1) % Word>>
            \o IntCodes(Tail(vals), v.it, Front(ring, v.it, IntRing))

\* The codes' values; <<>> stands for an escape.
RECURSIVE IntsOf(_, _, _)
IntsOf(codes, last, ring) ==
  IF codes = <<>> THEN Some(<<>>)
  ELSE
    LET c == Head(codes)
        v == IF c <= IntRing THEN ring[c] ELSE Wrap(last + Unzigzag(c - IntRing - 1))
        rest == IF c = 0 THEN IntsOf(Tail(codes), last, ring)
                ELSE IF c <= IntRing THEN IntsOf(Tail(codes), v, Touched(ring, c))
                ELSE IntsOf(Tail(codes), v, Front(ring, v, IntRing))
    IN IF c \in 1..IntRing /\ c > Len(ring) THEN None
       ELSE IF ~rest.some THEN None
       ELSE Some(<<IF c = 0 THEN <<>> ELSE PrintInt(v)>> \o rest.it)

\* The rows of a constant column that differ, each by its distance from the last.
RECURSIVE Differing(_, _, _)
Differing(seed, vals, at) ==
  LET differ == {i \in DOMAIN vals : i >= at /\ vals[i] # seed}
      i == CHOOSE j \in differ : \A k \in differ : j <= k
      back == {j \in DOMAIN vals : j < at /\ vals[j] # seed}
      last == IF back = {} THEN 1 ELSE CHOOSE j \in back : \A k \in back : k <= j
  IN IF differ = {} THEN <<>> ELSE N(i - last) \o Line(vals[i]) \o Differing(seed, vals, i + 1)

Initial(c) == [i \in 1..(IF Len(c.seeds) < RecentMax THEN Len(c.seeds) ELSE RecentMax) |-> i - 1]
Ids(c, vals) ==
  LET all == c.seeds \o Distinct(Picked(vals, {i \in DOMAIN vals : \A k \in DOMAIN c.seeds : c.seeds[k] # vals[i]}))
  IN IdsOf(vals, all)

Escaped(vals, kept) == Concat([i \in DOMAIN vals |-> IF i \in kept THEN <<>> ELSE Line(vals[i])])
HasFraction(p) == IndexOf(p, "fff") + IndexOf(p, "ffffff") > 0

\* Values kept as times, and as decimals of a scale.
TimesFrom(p, vals, moments) ==
  LET kept(i) == moments[i].some
  IN [i \in DOMAIN vals |-> IF kept(i) THEN [day |-> moments[i].it.day, sec |-> moments[i].it.sec] ELSE [n |-> 0]]
     \o (IF HasFraction(p) THEN Concat([i \in DOMAIN vals |-> IF kept(i) THEN N(moments[i].it.frac) ELSE <<>>]) ELSE <<>>)
     \o Escaped(vals, {i \in DOMAIN vals : kept(i)})
DecimalsFrom(scale, vals, decs) ==
  LET kept == {i \in DOMAIN vals : decs[i].some /\ decs[i].it.places <= scale}
      scaled(i) == Wrap(decs[i].it.v * Power(scale - decs[i].it.places))
      last(i) == LET b == {j \in kept : j < i} IN IF b = {} THEN 0 ELSE scaled(CHOOSE j \in b : \A k \in b : k <= j)
  IN [i \in DOMAIN vals |-> [n |-> IF i \in kept THEN (Zigzag(Wrap(scaled(i) - last(i))) + 1) % Word ELSE 0]]
     \o Concat([i \in DOMAIN vals |-> IF i \in kept THEN N(decs[i].it.places) ELSE <<>>])
     \o Escaped(vals, kept)

EncodeValues(c, vals) ==
  CASE c.type = "int" ->
         LET kept == {i \in DOMAIN vals : IntOf(vals[i]).some}
         IN Numbers(IntCodes(vals, 0, <<>>)) \o Escaped(vals, kept)
    [] c.type = "const" ->
         LET differ == {i \in DOMAIN vals : vals[i] # c.seeds[1]}
         IN IF vals = <<>> THEN <<>> ELSE N(Cardinality(differ)) \o Differing(c.seeds[1], vals, 1)
    [] c.type = "time" ->
         LET p == DatePatterns[c.pattern]
         IN TimesFrom(p, vals, [i \in DOMAIN vals |-> IF Exact(p, vals[i], <<>>) THEN ParseTime(p, vals[i]) ELSE None])
    [] c.type = "dec" ->
         DecimalsFrom(c.places, vals, [i \in DOMAIN vals |-> ParseDecimal(vals[i])])
    [] c.type = "dict" ->
         LET coded == Ranked(Ids(c, vals), Len(c.seeds), Initial(c), {Initial(c)[i] : i \in DOMAIN Initial(c)})
             new == {i \in DOMAIN vals : /\ \A k \in DOMAIN c.seeds : c.seeds[k] # vals[i]
                                         /\ \A j \in 1..(i - 1) : vals[j] # vals[i]}
         IN Numbers(coded.ranks) \o Numbers(coded.escaped) \o Escaped(vals, DOMAIN vals \ new)
    [] c.type = "text" -> Escaped(vals, {})

\* n lines off the front of an image.
RECURSIVE TakeLines(_, _)
TakeLines(s, n) ==
  LET i == FirstAt(s, [c |-> LineEnd])
      rest == TakeLines(From(s, i + 1), n - 1)
  IN IF n = 0 THEN Some([lines |-> <<>>, rest |-> s])
     ELSE IF i = 0 THEN None
     ELSE IF ~rest.some THEN None
     ELSE Some([lines |-> <<[k \in 1..(i - 1) |-> s[k].c]>> \o rest.it.lines, rest |-> rest.it.rest])

\* n values, those of `codes` that are 0 from the lines at the front of s, the others printed.
WithEscapes(codes, printed, s) ==
  LET zero == {i \in DOMAIN codes : codes[i] = 0}
      t == TakeLines(s, Cardinality(zero))
  IN IF ~t.some THEN None
     ELSE Some([vals |-> [i \in DOMAIN codes |->
                            IF i \in zero THEN t.it.lines[Cardinality({j \in zero : j <= i})] ELSE printed[i]],
                rest |-> t.it.rest])

CodesOf(s, n) == [i \in 1..n |-> s[i].n]
AreNumbers(s, n) == n <= Len(s) /\ \A i \in 1..n : DOMAIN s[i] = {"n"}

RECURSIVE Undiffer(_, _, _)
Undiffer(s, k, at) ==
  LET l == TakeLines(Tail(s), 1)
      row == at + s[1].n
      rest == Undiffer(l.it.rest, k - 1, row)
  IN IF k = 0 THEN [rows |-> <<>>, rest |-> s]
     ELSE [rows |-> <<[row |-> row, v |-> l.it.lines[1]]>> \o rest.rows, rest |-> rest.rest]

DecodeInts(s, n) ==
  LET codes == CodesOf(s, n)
      v == IntsOf(codes, 0, <<>>)
  IN IF ~AreNumbers(s, n) THEN None
     ELSE IF ~v.some THEN None ELSE WithEscapes(codes, v.it, From(s, n + 1))

DecodeConst(c, s, n) ==
  LET d == Undiffer(Tail(s), s[1].n, 1)
  IN IF n = 0 THEN Some([vals |-> <<>>, rest |-> s])
     ELSE IF ~AreNumbers(s, 1) THEN None
     ELSE Some([vals |-> [i \in 1..n |-> LET of == {k \in DOMAIN d.rows : d.rows[k].row = i}
                                         IN IF of = {} THEN c.seeds[1] ELSE d.rows[CHOOSE k \in of : TRUE].v],
                rest |-> d.rest])

DecodeTimes(c, s, n) ==
  LET p == DatePatterns[c.pattern]
      kept == {i \in 1..n : DOMAIN s[i] = {"day", "sec"}}
      fracs == IF HasFraction(p) THEN Cardinality(kept) ELSE 0
      nth(i) == Cardinality({j \in kept : j <= i})
      moment(i) == [day |-> s[i].day, sec |-> s[i].sec, frac |-> IF fracs > 0 THEN s[n + nth(i)].n ELSE 0]
  IN WithEscapes([i \in 1..n |-> IF i \in kept THEN 1 ELSE 0],
                 [i \in 1..n |-> IF i \in kept THEN FormatTime(p, moment(i)) ELSE <<>>],
                 From(s, n + fracs + 1))

DecodeDecimals(c, s, n) ==
  LET codes == CodesOf(s, n)
      kept == {i \in 1..n : codes[i] # 0}
      nth(i) == Cardinality({j \in kept : j <= i})
      places(i) == s[n + nth(i)].n
      scaled[i \in 0..n] == IF i = 0 THEN 0
                            ELSE IF i \in kept THEN Wrap(scaled[i - 1] + Unzigzag(codes[i] - 1)) ELSE scaled[i - 1]
      digits(i) == IF scaled[i] < 0 THEN -scaled[i] ELSE scaled[i]
  IN IF \E i \in kept : digits(i) % Power(c.places - places(i)) # 0 THEN None
     ELSE WithEscapes(codes,
            [i \in 1..n |-> IF i \in kept THEN PrintDecimal(scaled[i], c.places, places(i)) ELSE <<>>],
            From(s, n + Cardinality(kept) + 1))

DecodeDict(c, s, n) ==
  LET ranks == CodesOf(s, n)
      misses == Cardinality({i \in 1..n : ranks[i] = 0})
      ids == CodesOf(From(s, n + 1), misses)
      fresh == TakeLines(From(s, n + misses + 1), Cardinality({i \in DOMAIN ids : ids[i] = 0}))
      all == c.seeds \o fresh.it.lines
      of == Unranked(ranks, ids, Len(c.seeds), Initial(c))
  IN IF ~AreNumbers(s, n + misses) \/ ~fresh.some THEN None
     ELSE Some([vals |-> [i \in 1..n |-> all[of[i] + 1]], rest |-> fresh.it.rest])

\* What an image of `length` bytes may hold: the guard on a column's count.
Holds(n, length) == n <= length + 1

DecodeValues(c, s, n, length) ==
  IF ~Holds(n, length) THEN None
  ELSE CASE c.type = "int" -> DecodeInts(s, n)
         [] c.type = "const" -> DecodeConst(c, s, n)
         [] c.type = "time" -> DecodeTimes(c, s, n)
         [] c.type = "dec" -> DecodeDecimals(c, s, n)
         [] c.type = "dict" -> DecodeDict(c, s, n)
         [] c.type = "text" -> LET t == TakeLines(s, n)
                               IN IF t.some THEN Some([vals |-> t.it.lines, rest |-> t.it.rest]) ELSE None

-----------------------------------------------------------------------------
(* An object's image, and the object back.                                 *)

\* None where the code indexes past a frame's columns, and panics.
FrameIn(frames, f) ==
  IF f.some /\ \E k \in DOMAIN frames : frames[k].text = f.it.text
    THEN CHOOSE k \in DOMAIN frames : frames[k].text = f.it.text ELSE 0
RowImage(line, frame) == IF frame > 0 THEN N(frame) ELSE N(0) \o N(Len(line)) \o Chars(line)
ValuesOf(values, cols, c) == Picked(values, {h \in DOMAIN values : cols[h] = c})
ColumnValues(d, f, frame, c) ==
  Concat([i \in DOMAIN f |->
            IF frame[i] = 0 THEN <<>> ELSE ValuesOf(f[i].it.values, d.frames[frame[i]].cols, c)])
ImageWith(d, lines, f, frame, trailing) ==
  IF \E i \in DOMAIN lines : frame[i] > 0 /\ Len(d.frames[frame[i]].cols) < Len(f[i].it.values)
    THEN None
  ELSE Some(N(2 * Len(lines) + trailing) \o Concat([i \in DOMAIN lines |-> RowImage(lines[i], frame[i])])
            \o Concat([c \in DOMAIN d.columns |-> EncodeValues(d.columns[c], ColumnValues(d, f, frame, c))]))
ImageFramed(d, lines, f, trailing) ==
  ImageWith(d, lines, f, [i \in DOMAIN lines |-> FrameIn(d.frames, f[i])], trailing)
ImageLines(d, lines, trailing) ==
  ImageFramed(d, lines, [i \in DOMAIN lines |-> FrameOfLine(d.kind, lines[i])], trailing)
Image(d, s) == ImageLines(d, ObjectLines(s), IF Trailing(s) THEN 1 ELSE 0)

RECURSIVE RowsOf(_, _)
RowsOf(s, n) ==
  IF n = 0 THEN [rows |-> <<>>, rest |-> s]
  ELSE LET len == s[2].n
           raw == s[1].n = 0
           rest == RowsOf(From(s, IF raw THEN 3 + len ELSE 2), n - 1)
       IN [rows |-> <<[frame |-> s[1].n, raw |-> IF raw THEN [i \in 1..len |-> s[2 + i].c] ELSE <<>>]>> \o rest.rows,
           rest |-> rest.rest]

RECURSIVE ColumnsOf(_, _, _, _, _), ColumnsThen(_, _, _, _, _)
ColumnsThen(cs, counts, v, length, before) ==
  IF ~v.some THEN None ELSE ColumnsOf(cs, counts, v.it.rest, length, Append(before, v.it.vals))
ColumnsOf(cs, counts, s, length, before) ==
  IF cs = <<>> THEN (IF s = <<>> THEN Some(before) ELSE None)
  ELSE ColumnsThen(Tail(cs), Tail(counts), DecodeValues(Head(cs), s, Head(counts), length), length, before)

\* The rows' holes in their order take each column's values in theirs.
HolesOf(d, row) == IF row.frame = 0 THEN <<>> ELSE d.frames[row.frame].cols
CountIn(cols, c) == Cardinality({h \in DOMAIN cols : cols[h] = c})
RowText(d, row, cols, before, vals) ==
  IF row.frame = 0 THEN row.raw
  ELSE Filled(d.frames[row.frame].text,
              [h \in DOMAIN cols |-> vals[cols[h]][before[cols[h]] + CountIn(SubSeq(cols, 1, h), cols[h])]])
CountsTo(cols, columns, i) == [c \in columns |-> Sum([j \in 1..i |-> CountIn(cols[j], c)])]
RowsText(d, rows, cols, vals) ==
  IF ~vals.some THEN None
  ELSE Some(JoinWith([i \in DOMAIN rows |->
         RowText(d, rows[i], cols[i], CountsTo(cols, DOMAIN d.columns, i - 1), vals.it)], LineEnd))
RowsFilled(d, r, cols, length) ==
  RowsText(d, r.rows, cols, ColumnsOf(d.columns, CountsTo(cols, DOMAIN d.columns, Len(cols)), r.rest, length, <<>>))
RebuildRows(d, r, length) == RowsFilled(d, r, [i \in DOMAIN r.rows |-> HolesOf(d, r.rows[i])], length)
WithEnd(text, ended) == IF text.some /\ ended THEN Some(Append(text.it, LineEnd)) ELSE text
Rebuild(d, image) ==
  WithEnd(RebuildRows(d, RowsOf(Tail(image), image[1].n \div 2), Len(image)), image[1].n % 2 = 1)
=============================================================================
