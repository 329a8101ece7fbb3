----------------------------- MODULE Envelopes -----------------------------
(***************************************************************************)
(* The envelopes of the codec: what each level writes around its blocks    *)
(* (an opened container, record units, cold units, a pack, a delta against *)
(* a base) and how each decoder tells them apart and reads them back.      *)
(*                                                                         *)
(* Bytes are sequences of symbols. "Z" begins a gzip (the rest is what it  *)
(* holds), "J" a JPEG, "n" ends a line, "R" begins a record image.         *)
(* A compressed stream is a sequence of items: a head carries the fields   *)
(* the code writes, and a stream's length is its number of items. What a   *)
(* trial decides is a choice ch, the same for every call of a compression: *)
(*   opens     whether a gzip's deflate stream can be written back         *)
(*   smaller   whether the opened form is smaller than the closed one      *)
(*   shrinks   whether a JPEG shrinks                                      *)
(*   pays      the first symbols of the samples record mode pays on        *)
(*   worker    whether units run on threads other than the caller's        *)
(*   region    where in its base a delta's unit looks for its content      *)
(***************************************************************************)
EXTENDS Integers, Sequences, FiniteSets

CONSTANTS
  Unit,         \* PARALLEL_UNIT_MAX and its like: a parallel stream's unit
  RecordsUnit,  \* RECORDS_UNIT
  ColdUnit,     \* COLD_UNIT
  BaseUnit,     \* BASE_UNIT
  BaseSlack,    \* BASE_SLACK
  BaseTail,     \* BASE_TAIL
  CountFactor   \* what a pack's count may be to its index's length, 64 in the code

Least(a, b) == IF a < b THEN a ELSE b
Most(a, b) == IF a > b THEN a ELSE b

RECURSIVE Cut(_, _)
Cut(s, n) ==
  IF Len(s) <= n THEN <<s>> ELSE <<SubSeq(s, 1, n)>> \o Cut(SubSeq(s, n + 1, Len(s)), n)

RECURSIVE Joined(_)
Joined(ss) == IF ss = <<>> THEN <<>> ELSE Head(ss) \o Joined(Tail(ss))

RECURSIVE Total(_)
Total(ns) == IF ns = <<>> THEN 0 ELSE Head(ns) + Total(Tail(ns))

Starts(s, b) == s # <<>> /\ Head(s) = b

-----------------------------------------------------------------------------
(* Compressing.                                                            *)

\* A level: whether it opens containers, whether it tries record mode, what codes a
\* unit, and the level its units are coded by when it cuts its input into units.
Level == [
  fast          |-> [wraps |-> FALSE, records |-> FALSE, coder |-> "blocks", units |-> "one"],
  parallel_fast |-> [wraps |-> FALSE, records |-> FALSE, coder |-> "blocks", units |-> "fast"],
  max           |-> [wraps |-> TRUE,  records |-> FALSE, coder |-> "blocks", units |-> "one"],
  parallel_max  |-> [wraps |-> TRUE,  records |-> FALSE, coder |-> "blocks", units |-> "max"],
  records_max   |-> [wraps |-> TRUE,  records |-> TRUE,  coder |-> "blocks", units |-> "max"],
  cold          |-> [wraps |-> TRUE,  records |-> FALSE, coder |-> "cm", units |-> "one"],
  records_cold  |-> [wraps |-> TRUE,  records |-> TRUE,  coder |-> "cm", units |-> "one"]]

\* as_part: the thread is marked as compressing a part.
AsPart(part) == TRUE

\* The blocks of one chain; only its first carries the reset.
Blocks(s) == [i \in 1..Len(s) |-> [k |-> "block", reset |-> i = 1, data |-> <<s[i]>>]]

\* write_cold: an empty input has one empty unit.
ColdOf(units) ==
  <<[k |-> "cold", units |-> [i \in DOMAIN units |-> [len |-> Len(units[i]), slen |-> 1, sum |-> units[i]]]]>>
  \o [i \in DOMAIN units |-> [k |-> "cm", data |-> units[i]]]
Cold(s) == ColdOf(Cut(s, ColdUnit))

IsContainer(s) == Starts(s, "Z") \/ Starts(s, "J")

\* deflate::open, here of a gzip: the plain text and the recipe.
Opened(s) == [plain |-> Tail(s), recipe |-> <<Head(s)>>]

\* record::transform and inverse: the columns of a text.
Image(s) == <<"R">> \o s
Pays(s, ch) == s # <<>> /\ Head(s) \in ch.pays

Last(at) == IF at = {} THEN 0 ELSE CHOOSE i \in at : \A j \in at : j <= i
LastLineEnd(s) == Last({i \in DOMAIN s : s[i] = "n"})

\* A unit ends after its last line end, when that is not at its first symbol.
UnitEnd(lineEnd) == IF lineEnd > 1 THEN lineEnd ELSE RecordsUnit
RECURSIVE RecordUnits(_), UnitThen(_, _)
UnitThen(s, n) == <<SubSeq(s, 1, n)>> \o RecordUnits(SubSeq(s, n + 1, Len(s)))
RecordUnits(s) ==
  IF Len(s) <= RecordsUnit THEN <<s>> ELSE UnitThen(s, UnitEnd(LastLineEnd(SubSeq(s, 1, RecordsUnit))))

RECURSIVE Compress(_, _, _, _), EachCompressed(_, _, _, _)

\* compress_parallel_with and compress_stream: each unit by the sequential level, on
\* the caller's thread or on one of its own that compresses no part yet.
EachCompressed(level, units, part, ch) ==
  [i \in DOMAIN units |-> Compress(level, units[i], AsPart(part /\ ~ch.worker), ch)]
Spread(level, s, part, ch) ==
  IF Len(s) <= Unit THEN Compress(level, s, AsPart(part), ch)
  ELSE Joined(EachCompressed(level, Cut(s, Unit), part, ch))

Sequential(coder) == IF coder = "cm" THEN "cold" ELSE "max"

\* records_units: the image of a unit where the transform pays on its beginning.
RecordsOf(units, stream, ch) ==
  <<[k |-> "recs", units |-> [i \in DOMAIN units |->
       [len |-> Len(units[i]), slen |-> Len(stream[i]), image |-> Pays(units[i], ch)]]]>>
  \o Joined(stream)
RecordsAs(coder, units, part, ch) ==
  RecordsOf(units, EachCompressed(Sequential(coder),
                     [i \in DOMAIN units |-> IF Pays(units[i], ch) THEN Image(units[i]) ELSE units[i]], part, ch), ch)
Records(coder, s, part, ch) == RecordsAs(coder, RecordUnits(s), part, ch)

\* records_with, whose level is a sequential one.
RecordsWith(level, s, part, ch) ==
  IF Pays(s, ch) THEN Records(Level[level].coder, s, part, ch) ELSE Spread(level, s, part, ch)

\* A level's own work, once no container is opened.
BodyAt(l, s, part, ch) ==
  IF l.records /\ Pays(s, ch) THEN Records(l.coder, s, part, ch)
  ELSE IF l.coder = "cm" THEN Cold(s)
  ELSE IF l.units = "one" THEN Blocks(s)
  ELSE Spread(l.units, s, part, ch)
Body(level, s, part, ch) == BodyAt(Level[level], s, part, ch)

\* deflate::wrap: a JPEG as its own stream, any other container opened when that is
\* smaller than what the level makes of it closed. Never on a part.
Compress(level, s, part, ch) ==
  IF part \/ ~Level[level].wraps \/ ~IsContainer(s)
      \/ (Head(s) = "J" /\ ~ch.shrinks) \/ (Head(s) = "Z" /\ ~ch.opens) THEN Body(level, s, part, ch)
  ELSE IF Head(s) = "J" THEN <<[k |-> "jpeg", original |-> Len(s)], [k |-> "dct", data |-> s]>>
  ELSE IF ch.smaller
    THEN <<[k |-> "def3", original |-> Len(s), recipe |-> Opened(s).recipe]>>
         \o Compress(level, Opened(s).plain, AsPart(part), ch)
    ELSE Compress(level, s, AsPart(part), ch)

\* compress_pack: the lengths as differences, compressed; then the objects joined,
\* in record mode where it pays.
Deltas(objects) ==
  [i \in DOMAIN objects |-> Len(objects[i]) - (IF i = 1 THEN 0 ELSE Len(objects[i - 1]))]

\* What the index takes compressed: a run of equal differences costs what one does.
Runs(d) == Cardinality({i \in DOMAIN d : i = 1 \/ d[i] # d[i - 1]})

Pack(level, objects, ch) ==
  <<[k |-> "pack", count |-> Len(objects), index |-> Deltas(objects)]>>
  \o RecordsWith(level, Joined(objects), AsPart(FALSE), ch)

-----------------------------------------------------------------------------
(* Decoding.                                                               *)

Ok(s) == [ok |-> TRUE, out |-> s]
Err == [ok |-> FALSE, out |-> <<>>]
AllOk(rs) == IF \A i \in DOMAIN rs : rs[i].ok THEN Ok(Joined([i \in DOMAIN rs |-> rs[i].out])) ELSE Err

HeadIs(c, kind) == c # <<>> /\ c[1].k = kind
Legacy(item) == item.k = "def1"

\* The streams a head's units have in what follows it; none when they do not fill it.
StreamAt(c, unit, at) == SubSeq(c, at + 1, at + unit.slen)
Streams(c) ==
  [i \in DOMAIN c[1].units |->
     StreamAt(c, c[1].units[i], 1 + Total([j \in 1..(i - 1) |-> c[1].units[j].slen]))]
UnitsLen(units) == Total([i \in DOMAIN units |-> units[i].len])
Fills(c) == Len(c) = 1 + Total([i \in DOMAIN c[1].units |-> c[1].units[i].slen])

\* records_envelope, cold_envelope: None unless the units end where the stream does.
IsRecords(c) == HeadIs(c, "recs") /\ Fills(c)
IsCold(c) == HeadIs(c, "cold") /\ Fills(c)
IsPack(c) == HeadIs(c, "pack")

\* deflate::inner_stream, for an envelope of any version.
IsOpened(c) == HeadIs(c, "def3") \/ HeadIs(c, "def1")
NeedsBase(c) == IF IsOpened(c) THEN HeadIs(Tail(c), "base") ELSE HeadIs(c, "base")

IsStream(c) == \A i \in DOMAIN c : c[i].k = "block"

\* decompress_sequential and decompress_parallel_impl: every item must be a block.
Plain(c) == IF IsStream(c) THEN Ok(Joined([i \in DOMAIN c |-> c[i].data])) ELSE Err

\* cold_into: each unit against its checksum.
ColdUnitOut(u, item) ==
  IF item.k = "cm" /\ Len(item.data) = u.len /\ item.data = u.sum THEN Ok(item.data) ELSE Err
ColdUnits(units, streams) == AllOk([i \in DOMAIN units |-> ColdUnitOut(units[i], streams[i][1])])
ColdOut(c) == ColdUnits(c[1].units, Streams(c))

\* close, checked by the original's length.
Close(head, plain) ==
  IF Len(head.recipe) + Len(plain) = head.original THEN Ok(head.recipe \o plain) ELSE Err

\* embedded_envelopes: a stream of blocks up to an envelope of an early version.
Embedded(c) ==
  \E i \in DOMAIN c : Legacy(c[i]) /\ \A j \in 1..(i - 1) : c[j].k = "block"

RECURSIVE Decompress(_)

\* read_around_envelopes: the runs of blocks as they are; an envelope's inner blocks
\* are those that hold the plain text its recipe needs.
RECURSIVE Held(_, _, _)
Held(c, need, n) ==
  IF need = 0 THEN n
  ELSE IF c = <<>> \/ c[1].k # "block" \/ Len(c[1].data) > need THEN -1
  ELSE Held(Tail(c), need - Len(c[1].data), n + 1)

CloseOr(head, plain) == IF plain.ok THEN Close(head, plain.out) ELSE Err
RECURSIVE Around(_), AroundInner(_, _)
AroundInner(c, n) ==
  IF n < 0 THEN Err
  ELSE AllOk(<<CloseOr(c[1], Plain(SubSeq(c, 2, n + 1))), Around(SubSeq(c, n + 2, Len(c)))>>)
Around(c) ==
  IF c = <<>> THEN Ok(<<>>)
  ELSE IF Legacy(c[1]) THEN AroundInner(c, Held(Tail(c), c[1].need, 0))
  ELSE AllOk(<<Plain(<<c[1]>>), Around(Tail(c))>>)

\* records_into: an image is rebuilt; each unit has its length.
OfLength(out, n) == IF Len(out) = n THEN Ok(out) ELSE Err
RecordUnit(u, r) ==
  IF ~r.ok \/ (u.image /\ ~Starts(r.out, "R")) THEN Err
  ELSE OfLength(IF u.image THEN Tail(r.out) ELSE r.out, u.len)
RecordsIn(units, streams) == AllOk([i \in DOMAIN units |-> RecordUnit(units[i], Decompress(streams[i]))])
RecordsOut(c) == RecordsIn(c[1].units, Streams(c))

\* pack_envelope: the count against the index's compressed length; the lengths.
Lengths(c) ==
  [i \in 1..c[1].count |-> Total(SubSeq(c[1].index, 1, i))]
PackReads(c) == c[1].count <= CountFactor * Runs(c[1].index) + CountFactor

PackWhole(lengths, all) == IF all.ok /\ Total(lengths) = Len(all.out) THEN all ELSE Err
PackOut(c) == IF PackReads(c) THEN PackWhole(Lengths(c), Decompress(Tail(c))) ELSE Err

\* decompress_pack_object: the pack decoded and sliced.
Slice(all, end, n) == IF all.ok /\ end <= Len(all.out) THEN Ok(SubSeq(all.out, end - n + 1, end)) ELSE Err
ObjectIn(lengths, all, i) == Slice(all, Total(SubSeq(lengths, 1, i)), lengths[i])
PackObject(c, i) == IF PackReads(c) THEN ObjectIn(Lengths(c), Decompress(Tail(c)), i) ELSE Err

OpenedOut(head, plain) ==
  IF Legacy(head) /\ Len(plain.out) # head.need THEN Err ELSE CloseOr(head, plain)

\* deflate::unwrap, whose inner stream is decoded by decompress_parallel.
Unwrap(c) ==
  IF HeadIs(c, "jpeg") THEN Ok(c[2].data)
  ELSE OpenedOut(c[1], Decompress(Tail(c)))

\* The order decompress, decompress_into and the parallel decoders try them in.
Decompress(c) ==
  IF HeadIs(c, "jpeg") \/ IsOpened(c) THEN Unwrap(c)
  ELSE IF NeedsBase(c) THEN Err
  ELSE IF IsRecords(c) THEN RecordsOut(c)
  ELSE IF IsCold(c) THEN ColdOut(c)
  ELSE IF IsPack(c) THEN PackOut(c)
  ELSE IF Embedded(c) THEN Around(c)
  ELSE Plain(c)

\* decompress_stream asks for a pack before the cold level, and for no base.
DecompressStream(c) ==
  IF HeadIs(c, "jpeg") \/ IsOpened(c) THEN Unwrap(c)
  ELSE IF IsRecords(c) THEN RecordsOut(c)
  ELSE IF IsPack(c) THEN PackOut(c)
  ELSE IF IsCold(c) THEN ColdOut(c)
  ELSE IF Embedded(c) THEN Around(c)
  ELSE Plain(c)

\* decompress_into_raw and decompress_parallel_into_raw read no other envelope.
DecompressRaw(c) == IF IsCold(c) THEN ColdOut(c) ELSE Plain(c)

\* decompressed_len, from the heads alone; -1 for an error.
LenOf(r) == IF r.ok THEN Len(r.out) ELSE -1
DecompressedLen(c) ==
  IF HeadIs(c, "jpeg") \/ IsOpened(c) THEN c[1].original
  ELSE IF IsRecords(c) \/ IsCold(c) THEN UnitsLen(c[1].units)
  ELSE IF IsPack(c) THEN IF PackReads(c) THEN Total(Lengths(c)) ELSE -1
  ELSE IF HeadIs(c, "base") THEN UnitsLen(c[1].units)
  ELSE IF Embedded(c) THEN LenOf(Around(c))
  ELSE LenOf(Plain(c))

-----------------------------------------------------------------------------
(* Deltas against a base.                                                  *)

BaseEnd_whole(base) == Len(base)
BaseEnd(base) == Most(Len(base) - BaseTail, 0)

\* base_region: a window of the base, shrunk or not, wherever the unit's anchors are
\* found; here from the symbol ch.region on.
RegionAt(r0, end, n) == [start |-> r0, len |-> Least(n + 2 * BaseSlack, end - r0)]
Region(base, n, ch) == RegionAt(Least(ch.region, BaseEnd(base)), BaseEnd(base), n)

RegionBytes(base, r) == SubSeq(base, r.start + 1, r.start + r.len)

\* compress_with_base_anchored: each unit's blocks may match into its region.
DeltaBlocks(u, history) == [j \in 1..Len(u) |-> [k |-> "dblock", data |-> <<u[j]>>, history |-> history]]
DeltaUnits(base, units, region) ==
  <<[k |-> "base", id |-> base, units |-> [i \in DOMAIN units |->
       [start |-> region[i].start, span |-> region[i].len, len |-> Len(units[i]), slen |-> Len(units[i])]]]>>
  \o Joined([i \in DOMAIN units |-> DeltaBlocks(units[i], RegionBytes(base, region[i]))])
DeltaAt(base, units, ch) == DeltaUnits(base, units, [i \in DOMAIN units |-> Region(base, Len(units[i]), ch)])
DeltaOf(base, s, ch) == DeltaAt(base, Cut(s, BaseUnit), ch)

BasePlain(base, ch) == IF IsContainer(base) /\ Starts(base, "Z") /\ ch.opens THEN Opened(base).plain ELSE base

\* compress_with_base: a container and its base both opened, else neither.
CompressWithBase(base, s, ch) ==
  IF Starts(s, "Z") /\ ch.opens
    THEN <<[k |-> "def3", original |-> Len(s), recipe |-> Opened(s).recipe]>>
         \o DeltaOf(BasePlain(base, ch), Opened(s).plain, ch)
    ELSE DeltaOf(base, s, ch)

\* base_units_into: a unit's blocks with the region before them. What a block gives
\* with other history than its own is not its data; its checksum refuses it.
DeltaUnit(u, blocks, history) ==
  IF \A j \in DOMAIN blocks : blocks[j].history = history
    THEN OfLength(Joined([j \in DOMAIN blocks |-> blocks[j].data]), u.len) ELSE Err
DeltaUnitOf(base, u, blocks) ==
  IF u.span = 0 \/ u.start + u.span + BaseTail <= Len(base)
    THEN DeltaUnit(u, blocks, RegionBytes(base, [start |-> u.start, len |-> u.span])) ELSE Err
DeltasOut(base, units, streams) == AllOk([i \in DOMAIN units |-> DeltaUnitOf(base, units[i], streams[i])])
DeltaOut(base, c) == DeltasOut(base, c[1].units, Streams(c))

FromBase(base, c) ==
  IF HeadIs(c, "base") /\ Fills(c) /\ c[1].id = base THEN DeltaOut(base, c) ELSE Err

\* decompress_with_base: an opened object's delta is against the base opened.
DecompressWithBase(base, c, ch) ==
  IF IsOpened(c) THEN CloseOr(c[1], FromBase(BasePlain(base, ch), Tail(c))) ELSE FromBase(base, c)
=============================================================================
