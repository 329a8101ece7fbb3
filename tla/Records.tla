------------------------------- MODULE Records --------------------------------
(***************************************************************************)
(* Record mode: a text taken apart into columns under one of four shapes,  *)
(* and rebuilt; and one column, the values of a field as a typed encoding, *)
(* and the values back. The shape is the caller's choice, for `detect`     *)
(* looks at no more than the first megabyte: whatever follows must fit or  *)
(* be kept raw.                                                            *)
(*                                                                         *)
(* A value is a sequence of characters; "\n" ends a line, "0b" is the byte *)
(* 0, and a month's name is one character; "V" is the word VALUES, "a" any *)
(* letter of a token. The streams of text (values, dictionary entries,     *)
(* escapes) are characters, for it is their line ends that keep the values *)
(* apart.                                                                  *)
(***************************************************************************)
EXTENDS Integers, Sequences, FiniteSets, TLC

CONSTANTS
  MaxDigits,    \* the digits of a number, 18 in the code
  MaxPlaces,    \* DEC_PLACES
  Escapes,      \* one value in this many may be escaped, 10 in the code
  DictShare,    \* DICT_SHARE
  ByteIds,      \* the distinct values that have a byte each, 256 in the code
  RecentMax     \* RECENT

LineEnd == "\n"
DigitOf == [d \in {"0", "1", "2", "3", "4", "5", "6", "7", "8", "9"} |->
              CHOOSE n \in 0..9 : d = <<"0", "1", "2", "3", "4", "5", "6", "7", "8", "9">>[n + 1]]
IsDigit(c) == c \in DOMAIN DigitOf

RECURSIVE Concat(_)
Concat(ss) == IF ss = <<>> THEN <<>> ELSE Head(ss) \o Concat(Tail(ss))

RECURSIVE Sum(_)
Sum(ns) == IF ns = <<>> THEN 0 ELSE Head(ns) + Sum(Tail(ns))

From(s, i) == SubSeq(s, i, Len(s))
FirstAt(s, c) == LET at == {i \in DOMAIN s : s[i] = c}
                 IN IF at = {} THEN 0 ELSE CHOOSE i \in at : \A j \in at : i <= j

\* s cut at every c: one part more than there are c's.
RECURSIVE SplitAt(_, _)
SplitAt(s, c) ==
  LET i == FirstAt(s, c)
  IN IF i = 0 THEN <<s>> ELSE <<SubSeq(s, 1, i - 1)>> \o SplitAt(From(s, i + 1), c)

RECURSIVE JoinWith(_, _)
JoinWith(ss, c) ==
  IF Len(ss) <= 1 THEN Concat(ss) ELSE Head(ss) \o <<c>> \o JoinWith(Tail(ss), c)

Ended(ss) == Concat([i \in DOMAIN ss |-> Append(ss[i], LineEnd)])

\* dict_entries: what stands before each line end.
Entries(s) == LET l == SplitAt(s, LineEnd) IN SubSeq(l, 1, Len(l) - 1)

\* The i-th line of joined values; past the last, the empty one.
LineOf(s, i) == LET l == SplitAt(s, LineEnd) IN IF i <= Len(l) THEN l[i] ELSE <<>>

None == [some |-> FALSE]
Some(x) == [some |-> TRUE, it |-> x]

RECURSIVE Power(_)
Power(n) == IF n = 0 THEN 1 ELSE 10 * Power(n - 1)

-----------------------------------------------------------------------------
(* Numbers.                                                                *)

RECURSIVE NumberOf(_, _)
NumberOf(s, v) == IF s = <<>> THEN v ELSE NumberOf(Tail(s), 10 * v + DigitOf[Head(s)])

DigitsOnly(s) == \A i \in DOMAIN s : IsDigit(s[i])
Negative(s) == s # <<>> /\ Head(s) = "-"
Unsigned(s) == IF Negative(s) THEN Tail(s) ELSE s
Signed(s, v) == IF Negative(s) THEN -v ELSE v

\* parse_canonical_int: what printing it would give.
ParseInt(s) ==
  LET d == Unsigned(s)
  IN IF \/ d = <<>> \/ Len(d) > MaxDigits \/ ~DigitsOnly(d)
        \/ (Len(d) > 1 /\ d[1] = "0")
        \/ (Negative(s) /\ d = <<"0">>)
       THEN None ELSE Some(Signed(s, NumberOf(d, 0)))

\* push_digits: the last n digits of v, zeros before them.
RECURSIVE Digits(_, _)
Digits(v, n) ==
  IF n = 0 THEN <<>>
  ELSE Digits(v \div 10, n - 1) \o <<CHOOSE c \in DOMAIN DigitOf : DigitOf[c] = v % 10>>

PrintInt(v) ==
  LET a == IF v < 0 THEN -v ELSE v
      n == CHOOSE k \in 1..9 : a < Power(k) /\ (k > 1 => a >= Power(k - 1))
  IN (IF v < 0 THEN <<"-">> ELSE <<>>) \o Digits(a, n)

\* parse_decimal: all the digits as one number, and how many are places.
ParseDecimal(s) ==
  LET b == Unsigned(s)
      dot == FirstAt(b, ".")
      int == IF dot > 0 THEN SubSeq(b, 1, dot - 1) ELSE b
      frac == IF dot > 0 THEN From(b, dot + 1) ELSE <<>>
      v == NumberOf(int \o frac, 0)
  IN IF \/ int = <<>> \/ (dot > 0 /\ frac = <<>>)
        \/ Len(int) + Len(frac) > MaxDigits \/ Len(frac) > MaxPlaces
        \/ ~DigitsOnly(int) \/ ~DigitsOnly(frac)
        \/ (Len(int) > 1 /\ int[1] = "0")
       THEN None
     ELSE IF Negative(s) /\ v = 0 THEN None
     ELSE Some([v |-> Signed(s, v), places |-> Len(frac)])

\* A value at the column's scale, printed with its own places.
PrintDecimal(v, scale, places) ==
  LET a == IF v < 0 THEN -v ELSE v
  IN (IF v < 0 THEN <<"-">> ELSE <<>>) \o PrintInt(a \div Power(scale))
     \o (IF places > 0 THEN <<".">> \o SubSeq(Digits(a % Power(scale), scale), 1, places) ELSE <<>>)

-----------------------------------------------------------------------------
(* Date-times. A moment is a day, the second of the day and a fraction.    *)

Clock == <<"hh", ":", "min", ":", "ss">>
Iso(sep) == <<"YYYY", "-", "mm", "-", "DD", sep>>
Named == <<"DD", "/", "MMM", "/", "YYYY", ":">>
DatePatterns ==
  <<<<"[">> \o Named \o Clock, Iso("T") \o Clock \o <<"Z">>, Iso(" ") \o Clock, Named \o Clock,
    Iso(" ") \o Clock \o <<".", "ffffff">>, Iso("T") \o Clock \o <<".", "fff", "Z">>,
    Iso("T") \o Clock \o <<".", "ffffff", "Z">>, Iso(" ") \o Clock \o <<".", "fff">>>>

Width == [f \in {"YYYY", "mm", "DD", "hh", "min", "ss", "fff", "ffffff"} |->
            CASE f = "YYYY" -> 4 [] f = "fff" -> 3 [] f = "ffffff" -> 6 [] OTHER -> 2]
WidthOf(f) == IF f \in DOMAIN Width THEN Width[f] ELSE 1
Months == <<"Jan", "Feb", "Mar", "Apr", "May", "Jun", "Jul", "Aug", "Sep", "Oct", "Nov", "Dec">>

\* Where the k-th field of a pattern begins, less one.
Before(p, k) == Sum([j \in 1..(k - 1) |-> WidthOf(p[j])])
FieldAt(p, k, s) == SubSeq(s, Before(p, k) + 1, Before(p, k) + WidthOf(p[k]))
IndexOf(p, f) == FirstAt(p, f)

DaysFromCivil(year, m, d) ==
  LET y == IF m <= 2 THEN year - 1 ELSE year
      era == y \div 400
      yoe == y - era * 400
      doy == (153 * ((m + 9) % 12) + 2) \div 5 + d - 1
  IN era * 146097 + yoe * 365 + yoe \div 4 - yoe \div 100 + doy - 719468

CivilMonth(y, doy, mp) ==
  [y |-> IF mp >= 10 THEN y + 1 ELSE y, m |-> IF mp < 10 THEN mp + 3 ELSE mp - 9,
   d |-> doy - (153 * mp + 2) \div 5 + 1]
CivilDay(y, doy) == CivilMonth(y, doy, (5 * doy + 2) \div 153)
CivilYear(era, yoe, doe) == CivilDay(era * 400 + yoe, doe - (365 * yoe + yoe \div 4 - yoe \div 100))
CivilOf(era, doe) ==
  CivilYear(era, (doe - doe \div 1460 + doe \div 36524 - doe \div 146096) \div 365, doe)
CivilFromDays(days) == CivilOf((days + 719468) \div 146097, (days + 719468) % 146097)

\* parse_time: every field in its place and in range; a day of 31 in any month and a
\* second of 60 are, so what comes out need not print back.
FitsField(f, name) ==
  IF name \in DOMAIN Width THEN DigitsOnly(f)
  ELSE IF name = "MMM" THEN \E m \in DOMAIN Months : f = <<Months[m]>>
  ELSE f = <<name>>
MomentAt(secs, day, frac) == [day |-> day + secs \div 86400, sec |-> secs % 86400, frac |-> frac]
MomentOf(n) ==
  IF \/ n["mm"] \notin 1..12 \/ n["DD"] \notin 1..31
     \/ n["hh"] > 23 \/ n["min"] > 59 \/ n["ss"] > 60 THEN None
  ELSE Some(MomentAt(n["hh"] * 3600 + n["min"] * 60 + n["ss"], DaysFromCivil(n["YYYY"], n["mm"], n["DD"]),
                     n["fff"] + n["ffffff"]))
ParseTime(p, s) ==
  LET at == [k \in DOMAIN p |-> FieldAt(p, k, s)]
      num(f, i) == IF i > 0 THEN NumberOf(at[i], 0)
                   ELSE IF f = "mm" THEN FirstAt(Months, at[IndexOf(p, "MMM")][1]) ELSE 0
  IN IF Len(s) # Before(p, Len(p) + 1) \/ ~\A k \in DOMAIN p : FitsField(at[k], p[k]) THEN None
     ELSE MomentOf([f \in DOMAIN Width |-> num(f, IndexOf(p, f))])

\* format_time_cached, and TimeFmt on the way back.
NumberAt(c, t, f) ==
  CASE f = "YYYY" -> c.y % 10000
    [] f = "mm" -> c.m
    [] f = "DD" -> c.d
    [] f = "hh" -> t.sec \div 3600
    [] f = "min" -> (t.sec \div 60) % 60
    [] f = "ss" -> t.sec % 60
    [] OTHER -> t.frac
FieldText(c, t, f) ==
  IF f = "MMM" THEN <<Months[c.m]>>
  ELSE IF f \in DOMAIN Width THEN Digits(NumberAt(c, t, f), Width[f]) ELSE <<f>>
TimeText(p, t, c) == Concat([k \in DOMAIN p |-> FieldText(c, t, p[k])])
FormatTime(p, t) == TimeText(p, t, CivilFromDays(t.day))

\* A value kept as a time is one that prints back; where the text up to the hour is
\* the last such value's, and the second is below 60, that is taken to be so.
SameHour(s, prev, hour) == Len(prev) = Len(s) /\ SubSeq(s, 1, hour) = SubSeq(prev, 1, hour)
PrintsBack(p, s, t) == t.some /\ FormatTime(p, t.it) = s
Exact_leap(p, s, prev) ==
  \/ ParseTime(p, s).some /\ SameHour(s, prev, Before(p, IndexOf(p, "hh")))
  \/ PrintsBack(p, s, ParseTime(p, s))
Exact(p, s, prev) ==
  \/ /\ ParseTime(p, s).some /\ SameHour(s, prev, Before(p, IndexOf(p, "hh")))
     /\ s[Before(p, IndexOf(p, "ss")) + 1] # "6"
  \/ PrintsBack(p, s, ParseTime(p, s))

-----------------------------------------------------------------------------
(* Encoding a column: the first of the types that its values allow.        *)

Deltas(vs) == [i \in DOMAIN vs |-> vs[i] - (IF i = 1 THEN 0 ELSE vs[i - 1])]
Undelta(ds) == [i \in DOMAIN ds |-> Sum(SubSeq(ds, 1, i))]

Picked(col, at) == Concat([i \in DOMAIN col |-> IF i \in at THEN <<col[i]>> ELSE <<>>])
FewEscapes(n, col) == n * Escapes <= Len(col)

\* Which values of a column are kept as times.
RECURSIVE KeptFrom(_, _, _, _)
KeptFrom(p, col, i, prev) ==
  IF i > Len(col) THEN {}
  ELSE IF Exact(p, col[i], prev) THEN {i} \cup KeptFrom(p, col, i + 1, col[i])
  ELSE KeptFrom(p, col, i + 1, prev)

\* The first pattern one of the first eight values parses under.
Least(S) == CHOOSE i \in S : \A j \in S : i <= j
FirstOf(at) == IF at = {} THEN None ELSE Some(Least({ik[2] : ik \in {jk \in at : jk[1] = Least({x[1] : x \in at})}}))
PatternOf(col) ==
  FirstOf({ik \in {i \in DOMAIN col : i <= 8} \X DOMAIN DatePatterns : ParseTime(DatePatterns[ik[2]], col[ik[1]]).some})

Moments(p, values) == [i \in DOMAIN values |-> ParseTime(p, values[i]).it]
TimesOf(col, k, kept) ==
  IF ~FewEscapes(Len(col) - Cardinality(kept), col) THEN None
  ELSE Some([type |-> "time", pattern |-> k, kept |-> [i \in DOMAIN col |-> i \in kept],
             moments |-> Moments(DatePatterns[k], Picked(col, kept)),
             esc |-> Ended(Picked(col, DOMAIN col \ kept))])
TimeUnder(col, k) == IF ~k.some THEN None ELSE TimesOf(col, k.it, KeptFrom(DatePatterns[k.it], col, 1, <<>>))
AsTime(col) == TimeUnder(col, PatternOf(col))

\* The distinct values in the order they appear, and each value's id.
Distinct(col) == LET new == {i \in DOMAIN col : \A j \in 1..(i - 1) : col[j] # col[i]} IN Picked(col, new)
IdsOf(col, dict) == [i \in DOMAIN col |-> (CHOOSE k \in DOMAIN dict : dict[k] = col[i]) - 1]
Few(col) == Cardinality({col[i] : i \in DOMAIN col}) <= Len(col) \div DictShare + 1

\* The recency list: its last entry falls off when another comes.
Pushed(recent, id) == <<id>> \o SubSeq(recent, 1, IF Len(recent) < RecentMax THEN Len(recent) ELSE RecentMax - 1)
Touched(recent, p) == <<recent[p]>> \o SubSeq(recent, 1, p - 1) \o From(recent, p + 1)

\* What becomes of `listed` when id is put in front.
Listed(recent, listed, id) ==
  (IF Len(recent) = RecentMax THEN listed \ {recent[RecentMax]} ELSE listed) \cup {id}

\* A listed value by its rank, any other by an escape and its id, or 0 when new.
RECURSIVE Ranked(_, _, _, _)
Ranked(ids, next, recent, listed) ==
  IF ids = <<>> THEN [ranks |-> <<>>, escaped |-> <<>>]
  ELSE
    LET id == Head(ids)
        new == id = next
        p == IF id \in listed THEN FirstAt(recent, id) ELSE 0
        rest == Ranked(Tail(ids), IF new THEN next + 1 ELSE next,
                       IF p > 0 THEN Touched(recent, p) ELSE Pushed(recent, id),
                       IF p > 0 THEN listed ELSE Listed(recent, listed, id))
    IN [ranks |-> <<p>> \o rest.ranks,
        escaped |-> (IF p > 0 THEN <<>> ELSE <<IF new THEN 0 ELSE id + 1>>) \o rest.escaped]

DictRanked(dict, coded) == [type |-> "dict", dict |-> Ended(dict), ranks |-> coded.ranks, ids |-> coded.escaped]
DictOf(dict, ids) ==
  IF Len(dict) <= ByteIds
    THEN [type |-> "dict8", dict |-> Ended(dict), ids |-> ids]
    ELSE DictRanked(dict, Ranked(ids, 0, <<>>, {}))
IdsUnder(col, dict) == DictOf(dict, IdsOf(col, dict))
AsDict(col) == IdsUnder(col, Distinct(col))

\* Decimals at the scale of the one with the most places.
Most(S) == CHOOSE n \in S \cup {0} : \A m \in S : m <= n
DecimalsAt(col, decs, at, scale) ==
  LET whole == {Len(col[i]) - decs[i].it.places - (IF decs[i].it.places > 0 THEN 1 ELSE 0) : i \in at}
  IN IF ~FewEscapes(Len(col) - Cardinality(at), col) \/ Most(whole) + scale > MaxDigits THEN None
     ELSE Some([type |-> "dec", scale |-> scale, kept |-> [i \in DOMAIN col |-> i \in at],
                deltas |-> Deltas(Picked([i \in DOMAIN col |->
                             IF i \in at THEN decs[i].it.v * Power(scale - decs[i].it.places) ELSE 0], at)),
                places |-> Picked([i \in DOMAIN col |-> IF i \in at THEN decs[i].it.places ELSE 0], at),
                esc |-> Ended(Picked(col, DOMAIN col \ at))])
DecimalsOf(col, decs, at) == DecimalsAt(col, decs, at, Most({decs[i].it.places : i \in at}))
DecimalParsed(col, decs) == DecimalsOf(col, decs, {i \in DOMAIN col : decs[i].some})
AsDecimal(col) == DecimalParsed(col, [i \in DOMAIN col |-> ParseDecimal(col[i])])

TypedAs(col, ints, time, dec) ==
  CASE col # <<>> /\ \A i \in DOMAIN col : ints[i].some -> [type |-> "int", deltas |-> Deltas([i \in DOMAIN col |-> ints[i].it])]
    [] OTHER -> IF time.some THEN time.it
                ELSE IF col # <<>> /\ Few(col) THEN AsDict(col)
                ELSE IF col # <<>> /\ dec.some THEN dec.it
                ELSE [type |-> "text", text |-> JoinWith(col, LineEnd)]
EncodeColumn(col) == TypedAs(col, [i \in DOMAIN col |-> ParseInt(col[i])], AsTime(col), AsDecimal(col))

-----------------------------------------------------------------------------
(* Decoding n values of a column; None for an image that is corrupt.       *)

RECURSIVE Unranked(_, _, _, _)
Unranked(ranks, ids, next, recent) ==
  IF ranks = <<>> THEN <<>>
  ELSE
    LET r == Head(ranks)
        id == IF r > 0 THEN recent[r] ELSE IF Head(ids) = 0 THEN next ELSE Head(ids) - 1
    IN <<id>> \o Unranked(Tail(ranks), IF r > 0 THEN ids ELSE Tail(ids),
                          IF r = 0 /\ Head(ids) = 0 THEN next + 1 ELSE next,
                          IF r > 0 THEN Touched(recent, r) ELSE Pushed(recent, id))

\* The kept values printed, and the escaped ones, each in its turn.
Merged(kept, printed, esc) ==
  LET rank(i, b) == Cardinality({j \in 1..i : kept[j] = b})
      entries == Entries(esc)
  IN IF Len(entries) < Cardinality({i \in DOMAIN kept : ~kept[i]}) THEN None
     ELSE Some([i \in DOMAIN kept |->
                  IF kept[i] THEN printed[rank(i, TRUE)] ELSE entries[rank(i, FALSE)]])

ByIds(dict, ids) ==
  LET e == Entries(dict)
  IN IF \E i \in DOMAIN ids : ids[i] >= Len(e) THEN None
     ELSE Some([i \in DOMAIN ids |-> e[ids[i] + 1]])

DecodeColumn(c, n) ==
  CASE c.type = "int" -> LET v == Undelta(c.deltas) IN Some([i \in 1..n |-> PrintInt(v[i])])
    [] c.type = "time" ->
         Merged(c.kept, [i \in DOMAIN c.moments |-> FormatTime(DatePatterns[c.pattern], c.moments[i])], c.esc)
    [] c.type = "dict8" -> ByIds(c.dict, c.ids)
    [] c.type = "dict" -> ByIds(c.dict, Unranked(c.ranks, c.ids, 0, <<>>))
    [] c.type = "dec" ->
         LET v == Undelta(c.deltas)
         IN Merged(c.kept, [i \in DOMAIN v |-> PrintDecimal(v[i], c.scale, c.places[i])], c.esc)
    [] c.type = "text" -> Some([i \in 1..n |-> LineOf(c.text, i)])

-----------------------------------------------------------------------------
(* The records.                                                            *)

CONSTANTS
  MaxFields,      \* the fields of a delimited line or a tuple, 64 in the code
  JsonColumns,    \* JSON_MAX_COLUMNS
  TemplateColumns \* TEMPLATE_MAX_COLUMNS

Hole == "0b"

\* The lines of a text; a line end at its very end is noted, not a line.
Trailing(s) == s # <<>> /\ s[Len(s)] = LineEnd
TextLines(s) == SplitAt(IF Trailing(s) THEN SubSeq(s, 1, Len(s) - 1) ELSE s, LineEnd)

\* The kinds of the lines and those kept raw, joined.
Framed(lines, isRecord) ==
  [kind |-> [i \in DOMAIN lines |-> IF isRecord[i] THEN 0 ELSE 1],
   raw |-> JoinWith(Picked(lines, {i \in DOMAIN lines : ~isRecord[i]}), LineEnd)]

-----------------------------------------------------------------------------
(* Lines of one delimiter and one number of fields.                        *)

TransformDelimited(s, delimiter, fields) ==
  LET lines == TextLines(s)
      isRecord == [i \in DOMAIN lines |-> Len(SplitAt(lines[i], delimiter)) = fields]
      rows == LET r == Picked(lines, {i \in DOMAIN lines : isRecord[i]})
              IN [i \in DOMAIN r |-> SplitAt(r[i], delimiter)]
  IN Some([mode |-> "delimited", delimiter |-> delimiter, trailing |-> Trailing(s)]
          @@ Framed(lines, isRecord)
          @@ [cols |-> [k \in 1..fields |-> EncodeColumn([i \in DOMAIN rows |-> rows[i][k]])]])

-----------------------------------------------------------------------------
(* Logs: a line's text with a hole where each token that holds a digit was.*)

TokenChars == DOMAIN DigitOf \cup {"a", "_", ".", ":", "/", "-"}

RECURSIVE TemplateOf(_)
TemplateOf(s) ==
  IF s = <<>> THEN [key |-> <<>>, tokens |-> <<>>]
  ELSE
    LET ends == {i \in 0..Len(s) : i = Len(s) \/ s[i + 1] \notin TokenChars}
        n == CHOOSE i \in ends : \A j \in ends : i <= j
        token == SubSeq(s, 1, n)
        digit == \E i \in 1..n : IsDigit(s[i])
        rest == TemplateOf(From(s, IF n = 0 THEN 2 ELSE n + 1))
    IN [key |-> (IF n = 0 THEN <<s[1]>> ELSE IF digit THEN <<Hole>> ELSE token) \o rest.key,
        tokens |-> (IF digit THEN <<token>> ELSE <<>>) \o rest.tokens]

\* The templates in the order they come, while their columns are within the budget.
RECURSIVE TemplatesOf(_, _, _)
TemplatesOf(ts, known, columns) ==
  IF ts = <<>> THEN known
  ELSE LET t == Head(ts)
           fits == columns + Len(t.tokens) <= TemplateColumns
       IN IF (\E k \in DOMAIN known : known[k].key = t.key) \/ ~fits
            THEN TemplatesOf(Tail(ts), known, columns)
            ELSE TemplatesOf(Tail(ts), Append(known, [key |-> t.key, base |-> columns, holes |-> Len(t.tokens)]),
                             columns + Len(t.tokens))

TransformTemplate(s) ==
  LET lines == TextLines(s)
      ts == [i \in DOMAIN lines |-> TemplateOf(lines[i])]
      known == TemplatesOf(ts, <<>>, 0)
      has == [i \in DOMAIN lines |-> \E k \in DOMAIN known : known[k].key = ts[i].key]
      tid == [i \in DOMAIN lines |-> IF has[i] THEN CHOOSE k \in DOMAIN known : known[k].key = ts[i].key ELSE 0]
      column(t, slot) ==
        LET of == Picked(ts, {i \in DOMAIN lines : tid[i] = t})
        IN EncodeColumn([i \in DOMAIN of |-> of[i].tokens[slot]])
  IN IF \E i \in DOMAIN s : s[i] = Hole THEN None
     ELSE Some([mode |-> "template", trailing |-> Trailing(s)] @@ Framed(lines, has)
               @@ [templates |-> Ended([k \in DOMAIN known |-> known[k].key]),
                   tids |-> Picked(tid, {i \in DOMAIN lines : has[i]}),
                   cols |-> Concat([k \in DOMAIN known |-> [slot \in 1..known[k].holes |-> column(k, slot)]])])

-----------------------------------------------------------------------------
(* SQL dumps: the tuples of VALUES lists of the commonest arity.           *)

\* Past a quoted string from its first character on: its closing quote, or 0.
RECURSIVE Closing(_, _, _)
Closing(s, i, quote) ==
  IF i > Len(s) THEN 0
  ELSE IF s[i] = "\\" THEN Closing(s, i + 2, quote)
  ELSE IF s[i] = quote THEN i ELSE Closing(s, i + 1, quote)

\* The fields of a tuple from i on, and where it ends; None when it is not closed.
RECURSIVE TupleFrom(_, _, _, _)
TupleFrom(s, i, from, fields) ==
  LET field == Append(fields, SubSeq(s, from, i - 1))
      q == Closing(s, i + 1, "'")
  IN IF i > Len(s) THEN None
     ELSE IF s[i] = "'" THEN IF q = 0 THEN None ELSE TupleFrom(s, q + 1, from, fields)
     ELSE IF s[i] = "," THEN TupleFrom(s, i + 1, i + 1, field)
     ELSE IF s[i] = ")" THEN Some([end |-> i, fields |-> field])
     ELSE TupleFrom(s, i + 1, from, fields)

RECURSIVE PastAny(_, _, _)
PastAny(s, i, chars) == IF i <= Len(s) /\ s[i] \in chars THEN PastAny(s, i + 1, chars) ELSE i
At(s, i, c) == i <= Len(s) /\ s[i] = c

\* The tuples of a list whose first is at i, then those of the lists after it.
RECURSIVE TuplesAt(_, _), TuplesFrom(_, _)
TuplesAt(s, i) ==
  LET t == TupleFrom(s, i + 1, i + 1, <<>>)
      next == PastAny(s, t.it.end + 1, {",", LineEnd, " "})
  IN IF ~t.some THEN <<>>
     ELSE <<[start |-> i, end |-> t.it.end, fields |-> t.it.fields]>>
          \o (IF At(s, next, "(") THEN TuplesAt(s, next) ELSE TuplesFrom(s, t.it.end + 1))
TuplesFrom(s, i) ==
  LET p == FirstAt(From(s, i), "V")
      k == PastAny(s, i + p, {" ", LineEnd})
  IN IF p = 0 THEN <<>> ELSE IF At(s, k, "(") THEN TuplesAt(s, k) ELSE TuplesFrom(s, k)

Tuples(s) == IF At(s, 1, "(") THEN TuplesAt(s, 1) ELSE TuplesFrom(s, 1)

\* The commonest arity, the smallest on a tie.
Arity(tuples) ==
  LET count(n) == Cardinality({i \in DOMAIN tuples : Len(tuples[i].fields) = n})
      all == {Len(tuples[i].fields) : i \in DOMAIN tuples}
      most == {n \in all : \A m \in all : count(m) <= count(n)}
  IN CHOOSE n \in most : \A m \in most : n <= m

\* The text outside the cuts, with a hole for each.
RECURSIVE FrameOf(_, _, _)
FrameOf(s, at, cuts) ==
  IF cuts = <<>> THEN From(s, at)
  ELSE SubSeq(s, at, Head(cuts).start - 1) \o <<Hole>> \o FrameOf(s, Head(cuts).end + 1, Tail(cuts))
HolesIn(frame) == Cardinality({i \in DOMAIN frame : frame[i] = Hole})

TransformSql(s) ==
  LET tuples == Tuples(s)
      arity == Arity(tuples)
      rows == Picked(tuples, {i \in DOMAIN tuples : Len(tuples[i].fields) = arity})
      frame == FrameOf(s, 1, rows)
  IN IF tuples = <<>> THEN None
     ELSE IF arity > MaxFields \/ HolesIn(frame) # Len(rows) THEN None
     ELSE Some([mode |-> "sql", frame |-> frame, n |-> Len(rows),
                cols |-> [k \in 1..arity |-> EncodeColumn([i \in DOMAIN rows |-> rows[i].fields[k]])]])

-----------------------------------------------------------------------------
(* JSON, an object a line: the scalars by their key paths.                 *)

\* scan_json: the values of a line from its i-th character on; a key's path is the
\* enclosing keys and its own, and marks are the path's lengths outside.
RECURSIVE Scan(_, _, _, _, _)
Scan(l, i, path, marks, key) ==
  LET dot == IF path = <<>> THEN <<>> ELSE <<".">>
      own == IF key.some THEN path \o dot \o key.it ELSE path
      c == l[i]
      q == Closing(l, i + 1, "\"")
      close == IF q = 0 THEN Len(l) + 1 ELSE q
      after == PastAny(l, close + 1, {" "})
      stop == {j \in (i + 1)..Len(l) : l[j] \in {",", "}", "]", " ", "\""}} \cup {Len(l) + 1}
      end == CHOOSE j \in stop : \A k \in stop : j <= k
      value(from, to) == <<[path |-> own, start |-> from, end |-> to]>>
  IN IF i > Len(l) THEN <<>>
     ELSE IF c = "\"" /\ At(l, after, ":") THEN Scan(l, after + 1, path, marks, Some(SubSeq(l, i + 1, close - 1)))
     ELSE IF c = "\"" THEN value(i + 1, close - 1) \o Scan(l, close + 1, path, marks, key)
     ELSE IF c = "{" THEN Scan(l, i + 1, own, <<Len(path)>> \o marks, None)
     ELSE IF c = "[" THEN Scan(l, i + 1, own \o (IF own = <<>> THEN <<>> ELSE <<".">>) \o <<"[", "]">>,
                               <<Len(path)>> \o marks, None)
     ELSE IF c \in {"}", "]"}
       THEN IF marks = <<>> THEN Scan(l, i + 1, path, marks, None)
            ELSE Scan(l, i + 1, SubSeq(path, 1, Head(marks)), Tail(marks), None)
     ELSE IF c = "," THEN Scan(l, i + 1, path, marks, None)
     ELSE IF c \in {" ", ":"} THEN Scan(l, i + 1, path, marks, key)
     ELSE value(i, end - 1) \o Scan(l, end, path, marks, key)

\* The values of every line that is an object, by where they stand in the text.
RECURSIVE ScanLines(_, _)
ScanLines(lines, at) ==
  IF lines = <<>> THEN <<>>
  ELSE LET l == Head(lines)
           vs == IF At(l, 1, "{") /\ l[Len(l)] = "}" THEN Scan(l, 1, <<>>, <<>>, None) ELSE <<>>
       IN [i \in DOMAIN vs |-> [vs[i] EXCEPT !.start = @ + at, !.end = @ + at]]
          \o ScanLines(Tail(lines), at + Len(l) + 1)

FirstOnes(d, n) == SubSeq(d, 1, IF Len(d) < n THEN Len(d) ELSE n)
TextsAt(s, v) == [i \in DOMAIN v |-> SubSeq(s, v[i].start, v[i].end)]

JsonImage(names, cols, cuts, frame) ==
  IF cuts = <<>> \/ HolesIn(frame) # Len(cuts) THEN None
     ELSE Some([mode |-> "json", frame |-> frame,
                order |-> [i \in DOMAIN cuts |-> CHOOSE k \in DOMAIN names : names[k] = cuts[i].path],
                cols |-> [k \in DOMAIN cols |-> IF cols[k].type = "text" THEN [type |-> "text", text |-> <<>>] ELSE cols[k]]])
JsonCut(s, names, cols, cuts) == JsonImage(names, cols, cuts, FrameOf(s, 1, cuts))

\* The values of a path of no type stay in the frame.
JsonTyped(s, values, names, cols) ==
  JsonCut(s, names, cols,
          Picked(values, {i \in DOMAIN values : \E k \in DOMAIN names : values[i].path = names[k] /\ cols[k].type # "text"}))
JsonNamed(s, values, names) ==
  LET of(k) == Picked(values, {i \in DOMAIN values : values[i].path = names[k]})
  IN JsonTyped(s, values, names, [k \in DOMAIN names |-> EncodeColumn(TextsAt(s, of(k)))])
JsonValues(s, values) ==
  JsonNamed(s, values, FirstOnes(Distinct([i \in DOMAIN values |-> values[i].path]), JsonColumns))
TransformJson(s) == JsonValues(s, ScanLines(SplitAt(s, LineEnd), 0))

Transform(shape, s) ==
  CASE shape.mode = "delimited" -> TransformDelimited(s, shape.delimiter, shape.fields)
    [] shape.mode = "template" -> TransformTemplate(s)
    [] shape.mode = "sql" -> TransformSql(s)
    [] shape.mode = "json" -> TransformJson(s)

-----------------------------------------------------------------------------
(* inverse_into.                                                           *)

AllOf(t) == IF \A k \in DOMAIN t : t[k].some THEN Some([k \in DOMAIN t |-> t[k].it]) ELSE None

\* The columns decoded, counts[k] values of the k-th; None when one is corrupt.
Tables(cols, counts) ==
  AllOf([k \in DOMAIN cols |-> DecodeColumn(cols[k], counts[k])])

RankIn(seq, i) == Cardinality({j \in 1..i : seq[j] = seq[i]})

\* The lines by their kind: the next raw one, or the next record.
Lines(image, records) ==
  JoinWith([i \in DOMAIN image.kind |->
              IF image.kind[i] = 1 THEN LineOf(image.raw, RankIn(image.kind, i))
              ELSE records[RankIn(image.kind, i)]], LineEnd)
  \o (IF image.trailing THEN <<LineEnd>> ELSE <<>>)

\* A frame with the values in its holes.
RECURSIVE Filled(_, _)
Filled(frame, values) ==
  LET h == FirstAt(frame, Hole)
  IN IF h = 0 THEN frame
     ELSE SubSeq(frame, 1, h - 1) \o Head(values) \o Filled(From(frame, h + 1), Tail(values))

Row(t, r, delimiter) == JoinWith([k \in DOMAIN t |-> t[k][r]], delimiter)

DelimitedRows(m, t, n) == IF t.some THEN Some(Lines(m, [r \in 1..n |-> Row(t.it, r, m.delimiter)])) ELSE None
DelimitedOf(m, n) == DelimitedRows(m, Tables(m.cols, [k \in DOMAIN m.cols |-> n]), n)
InverseDelimited(m) == DelimitedOf(m, Cardinality({i \in DOMAIN m.kind : m.kind[i] = 0}))

\* base[t] columns belong to the templates before the t-th.
Base(holes) == [t \in 1..(Len(holes) + 1) |-> Sum(SubSeq(holes, 1, t - 1))]
Owner(base, c) == CHOOSE t \in 1..(Len(base) - 1) : base[t] < c /\ c <= base[t + 1]
TemplateLine(key, table, base, t, k) ==
  Filled(key, [slot \in 1..(base[t + 1] - base[t]) |-> table[base[t] + slot][k]])
TemplateLines(m, keys, base, table) ==
  IF table.some
    THEN Some(Lines(m, [r \in DOMAIN m.tids |->
                          TemplateLine(keys[m.tids[r]], table.it, base, m.tids[r], RankIn(m.tids, r))]))
    ELSE None
Uses(m, t) == Cardinality({i \in DOMAIN m.tids : m.tids[i] = t})
TemplateBased(m, keys, base) ==
  IF base[Len(base)] # Len(m.cols) THEN None
  ELSE TemplateLines(m, keys, base, Tables(m.cols, [c \in DOMAIN m.cols |-> Uses(m, Owner(base, c))]))
TemplateKeys(m, keys) == TemplateBased(m, keys, Base([k \in DOMAIN keys |-> HolesIn(keys[k])]))
InverseTemplate(m) == TemplateKeys(m, Entries(m.templates))

SqlRows(m, t) ==
  IF t.some THEN Some(Filled(m.frame, [r \in 1..m.n |-> <<"(">> \o Row(t.it, r, ",") \o <<")">>])) ELSE None
InverseSql(m) == SqlRows(m, Tables(m.cols, [k \in DOMAIN m.cols |-> m.n]))

JsonRows(m, t) ==
  IF t.some THEN Some(Filled(m.frame, [i \in DOMAIN m.order |-> t.it[m.order[i]][RankIn(m.order, i)]])) ELSE None
InverseJson(m) ==
  JsonRows(m, Tables(m.cols, [k \in DOMAIN m.cols |-> Cardinality({i \in DOMAIN m.order : m.order[i] = k})]))

Inverse(m) ==
  CASE m.mode = "delimited" -> InverseDelimited(m)
    [] m.mode = "template" -> InverseTemplate(m)
    [] m.mode = "sql" -> InverseSql(m)
    [] m.mode = "json" -> InverseJson(m)

=============================================================================
