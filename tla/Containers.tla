------------------------------ MODULE Containers ------------------------------
(***************************************************************************)
(* What an opened container becomes: the content of its streams, the side  *)
(* data (every other byte, and what it takes to write the streams back)    *)
(* and a recipe of segments, and how these close to the object again; then *)
(* how each format's container is opened: what its walk finds, in what     *)
(* order it claims its pieces, and what it keeps.                          *)
(*                                                                         *)
(* An object is a sequence of tokens, [t |-> kind, ...]: an "x" stands for *)
(* bytes of no interest, and a deflate stream of a text is two "e" tokens, *)
(* so that it can be cut short. What an outside engine records of a stream *)
(* (preflate's corrections, reflate's recipe) is one "fix" token that      *)
(* names the text: with another text or another fix no stream comes out.   *)
(* The others:                                                             *)
(*   gz, zl         a gzip member's header, a zlib stream's header         *)
(*   tar            an entry's header: size, regular                       *)
(*   pk, dir        a zip's local header: size, method, secret, sized, and *)
(*                  width when a checkpoint's tensor; its directory's end: *)
(*                  the local headers it names                             *)
(*   png, chunk     a PNG's signature; a chunk's header: kind, len         *)
(*   pdf, stream, endstream     a PDF's head and two keywords              *)
(*   par, frame     a Parquet file's magic; a compressed page or zstd frame*)
(*   col            a page's values that a model makes smaller             *)
(*   st, v          a safetensors header: tensors; a tensor's element byte *)
(*   jpg            a JPEG's head: shrinks                                 *)
(***************************************************************************)
EXTENDS Integers, Sequences, FiniteSets, TLC

\* The tags of the segments.
KEEP == 0
DEFLATE == 1
PNG_IMAGE == 2
JPEG == 3
DEFLATE_JPEG == 4
DEFLATE_NESTED == 5
NESTED == 6
DEFLATE_CHUNKED == 7
DEFLATE_NESTED_CHUNKED == 8
REFLATE == 9
REFLATE_NESTED == 10
PNG_REFLATE == 11
REFLATE_JPEG == 12
SNAPPY_PAGE == 13
SNAPPY_MODELED == 14
ZSTD_FRAME == 15
ZSTD_MODELED == 16
ZSTD_NESTED == 17
TENSOR_PLANES == 18
TENSOR_DELTA == 19

X == [t |-> "x"]
IsA(s, kind) == s # <<>> /\ s[1].t = kind

\* s[at + 1 .. at + n], what there is of it: a cursor that has run past the end is
\* found out when all have been read.
Take(s, at, n) == SubSeq(s, at + 1, IF at + n < Len(s) THEN at + n ELSE Len(s))
Drop(s, n) == SubSeq(s, n + 1, Len(s))

RECURSIVE Flat(_)
Flat(ss) == IF ss = <<>> THEN <<>> ELSE Head(ss) \o Flat(Tail(ss))

RECURSIVE SumOf(_)
SumOf(ns) == IF ns = <<>> THEN 0 ELSE Head(ns) + SumOf(Tail(ns))

-----------------------------------------------------------------------------
(* The engines, as their callers see them.                                 *)

\* A deflate stream made of a text; `by` says what can write it back.
Stream(text, by) == <<[t |-> "e", i |-> 1, text |-> text, by |-> by],
                      [t |-> "e", i |-> 2, text |-> text, by |-> by]>>
Fix(text, by, part) == [t |-> "fix", text |-> text, by |-> by, part |-> part]

\* recreate_whole_deflate_stream and reflate::close.
Recreate(text, fix) ==
  IF Len(fix) = 1 /\ fix[1].t = "fix" /\ fix[1].text = text /\ fix[1].part = 0
    THEN Stream(text, fix[1].by) ELSE <<[t |-> "wrong"]>>

Lepton(jpeg) == <<[t |-> "lepton", jpeg |-> jpeg]>>
Restore(lepton) == IF Len(lepton) = 1 /\ lepton[1].t = "lepton" THEN lepton[1].jpeg ELSE <<[t |-> "wrong"]>>

\* rezstd, resnappy: a frame or page of a text by one of the known builds.
Frame(text, build) == <<[t |-> "frame", text |-> text, build |-> build]>>

\* parquet::model and unmodel.
Modeled(text) == [recipe |-> <<[t |-> "model"]>>, bytes |-> <<[t |-> "columns", text |-> text]>>]
Unmodel(recipe, bytes) ==
  IF IsA(recipe, "model") /\ IsA(bytes, "columns") THEN bytes[1].text ELSE <<[t |-> "wrong"]>>

\* safetensors::split and join: the bytes of every element as planes.
Split(data, w) ==
  LET n == Len(data) \div w
  IN [i \in 1..(n * w) |-> data[((i - 1) % n) * w + ((i - 1) \div n) + 1]]
Join(planes, w) ==
  IF w = 0 \/ Len(planes) % w # 0 THEN <<[t |-> "wrong"]>>
  ELSE [i \in DOMAIN planes |-> planes[((i - 1) % w) * (Len(planes) \div w) + ((i - 1) \div w) + 1]]

\* A tensor's data and its base's, bit against bit.
XorWith(data, base) ==
  IF Len(data) # Len(base) THEN <<[t |-> "wrong"]>>
  ELSE [i \in DOMAIN data |-> [t |-> "v", v |-> (data[i].v + base[i].v) % 2]]

-----------------------------------------------------------------------------
(* The builder. `from` and `to` bound the run kept and not yet written.    *)

Builder(depth, at) ==
  [content |-> <<>>, side |-> <<>>, body |-> <<>>, segments |-> 0,
   from |-> at, to |-> at, depth |-> depth, opened |-> FALSE]

KeepTo(b, to) == IF to > b.to THEN [b EXCEPT !.to = to] ELSE b

Flush(b, input) ==
  IF b.from < b.to
    THEN [b EXCEPT !.body = @ \o <<KEEP, b.to - b.from>>, !.side = @ \o SubSeq(input, b.from + 1, b.to),
                   !.segments = @ + 1, !.from = b.to]
    ELSE [b EXCEPT !.from = b.to]

\* A segment claiming the input up to end: its tag and fields, what it adds to the
\* side and to the content.
Segment(b, input, tag, at, end, fields, side, content) ==
  LET f == Flush(KeepTo(b, at), input)
  IN [f EXCEPT !.body = @ \o <<tag>> \o fields, !.segments = @ + 1, !.opened = TRUE,
               !.side = @ \o side, !.content = @ \o content, !.from = end, !.to = end]

Lay_over(b, input, p, at, resume) ==
  [b EXCEPT !.body = @ \o p.body, !.content = @ \o p.content, !.side = @ \o p.side,
            !.segments = @ + p.segments, !.opened = TRUE, !.from = resume, !.to = resume]

\* A piece opened on its own, standing at at..resume.
Lay(b, input, p, at, resume) ==
  LET f == Flush(KeepTo(b, at), input)
  IN [f EXCEPT !.body = @ \o p.body, !.content = @ \o p.content, !.side = @ \o p.side,
               !.segments = @ + p.segments, !.opened = TRUE, !.from = resume, !.to = resume]

\* An inner container's fields after its segment's own.
NestFields(p) == <<p.segments, Len(p.body)>> \o p.body \o <<Len(p.content), Len(p.side)>>

None == [none |-> TRUE]
Some(x) == [none |-> FALSE, it |-> x]

IntoParts(b, input, to) ==
  IF ~b.opened THEN None
  ELSE LET f == Flush(KeepTo(b, to), input)
       IN Some([content |-> f.content, side |-> f.side, body |-> f.body, segments |-> f.segments])

-----------------------------------------------------------------------------
(* Reading a recipe.                                                       *)

\* The cursors into the body, the content and the side; fields yet to read are 0.
Field(r) == IF r.pos < Len(r.body) THEN r.body[r.pos + 1] ELSE 0
Fields(r, n) == Take(r.body, r.pos, n)
Skip(r, n) == [r EXCEPT !.pos = @ + n]

\* A segment that takes `side` and then `content` of each, with its inner container,
\* when it has one, read at the cursors after its own.
Read(r, seg, fields, side, content) ==
  [seg |-> seg @@ [side |-> Take(r.side, r.sat, side), text |-> Take(r.content, r.at, content)],
   r |-> [r EXCEPT !.pos = @ + fields, !.sat = @ + side, !.at = @ + content]]

InnerAt(r, segments, len, clen, slen) ==
  [inner |-> [segments |-> segments, body |-> Take(r.body, r.pos + 2, len),
              content |-> Take(r.content, r.at, clen), side |-> Take(r.side, r.sat, slen)],
   r |-> [r EXCEPT !.pos = @ + 4 + len, !.at = @ + clen, !.sat = @ + slen]]
InnerOf(r) ==
  LET q == Skip(r, 2 + Field(Skip(r, 1)))
  IN InnerAt(r, Field(r), Field(Skip(r, 1)), Field(q), Field(Skip(q, 1)))

WithInner(seg, in) == [seg |-> seg @@ [inner |-> in.inner], r |-> in.r]
NestedIn(own) == WithInner(own.seg, InnerOf(own.r))
ReadNested(r, kind, fields, side) == NestedIn(Read(r, [kind |-> kind, build |-> Field(r)], fields, side, 0))

\* The chunks of a stream: each its text's length and its corrections.
RECURSIVE ReadChunks(_, _, _)
ReadChunks(r, k, chunks) ==
  IF k = 0 THEN [chunks |-> chunks, r |-> r]
  ELSE LET c == Field(Skip(r, 1))
       IN ReadChunks([r EXCEPT !.pos = @ + 2, !.sat = @ + c], k - 1,
                     Append(chunks, [plain |-> Field(r), fix |-> Take(r.side, r.sat, c)]))
OfChunks(ch) == Read(ch.r, [kind |-> "chunked", chunks |-> ch.chunks], 1, 0, Field(ch.r))
OfNestedChunks(ch) == WithInner([kind |-> "chunked nested", chunks |-> ch.chunks], InnerOf(ch.r))

\* segments_with: one segment, from its tag.
ReadSegment(tag, r) ==
  LET a == Field(r)
      b == Field(Skip(r, 1))
      c == Field(Skip(r, 2))
  IN CASE tag = KEEP -> Read(r, [kind |-> "bytes"], 1, a, 0)
       [] tag \in {DEFLATE, REFLATE} -> Read(r, [kind |-> "deflate"], 2, a, b)
       [] tag \in {PNG_IMAGE, PNG_REFLATE} ->
            LET k == Field(Skip(r, 4))
            IN Read(r, [kind |-> "png", header |-> a, adler |-> Field(Skip(r, 3)),
                        chunks |-> [i \in 1..k |-> [len |-> Field(Skip(r, 3 + 2 * i)), crc |-> Field(Skip(r, 4 + 2 * i))]]],
                    5 + 2 * k, b, c)
       [] tag = JPEG -> Read(r, [kind |-> "jpeg"], 1, a, 0)
       [] tag \in {DEFLATE_JPEG, REFLATE_JPEG} -> Read(r, [kind |-> "deflate jpeg", fix |-> a], 2, a + b, 0)
       [] tag \in {DEFLATE_NESTED, REFLATE_NESTED} -> ReadNested(r, "deflate nested", 1, a)
       [] tag = NESTED -> ReadNested(r, "nested", 0, 0)
       [] tag = DEFLATE_CHUNKED ->
            OfChunks(ReadChunks(Skip(r, 1), a, <<>>))
       [] tag = DEFLATE_NESTED_CHUNKED ->
            OfNestedChunks(ReadChunks(Skip(r, 1), a, <<>>))
       [] tag \in {SNAPPY_PAGE, ZSTD_FRAME} -> Read(r, [kind |-> "frame", build |-> a], 2, 0, b)
       [] tag \in {SNAPPY_MODELED, ZSTD_MODELED} -> Read(r, [kind |-> "modeled", build |-> a], 3, b, c)
       [] tag = ZSTD_NESTED -> ReadNested(r, "frame nested", 1, 0)
       [] tag = TENSOR_PLANES -> Read(r, [kind |-> "planes", width |-> a], 2, 0, b)
       [] tag = TENSOR_DELTA -> Read(r, [kind |-> "delta", width |-> a, base |-> Take(r.base, c, b)], 3, 0, b)

RECURSIVE ReadSegments(_, _, _)
AfterSegment(one, n, segs) == ReadSegments(one.r, n - 1, Append(segs, one.seg))
ReadSegments(r, n, segs) ==
  IF n > 0 THEN AfterSegment(ReadSegment(Field(r), Skip(r, 1)), n, segs)
  ELSE IF r.pos = Len(r.body) /\ r.at = Len(r.content) /\ r.sat = Len(r.side) THEN Some(segs) ELSE None

Segments(inner, base) ==
  ReadSegments([body |-> inner.body, pos |-> 0, content |-> inner.content, at |-> 0,
                side |-> inner.side, sat |-> 0, base |-> base], inner.segments, <<>>)

-----------------------------------------------------------------------------
(* Closing.                                                                *)

\* recreate_chunked: each chunk's part of the text with its corrections.
Rechunked(chunks, text) ==
  LET at(i) == SumOf([j \in 1..(i - 1) |-> chunks[j].plain])
      good(i) == chunks[i].fix = <<Fix(Take(text, at(i), chunks[i].plain), "chunked", i)>>
  IN IF chunks # <<>> /\ at(Len(chunks) + 1) = Len(text) /\ \A i \in DOMAIN chunks : good(i)
       THEN Stream(text, "chunked") ELSE <<[t |-> "wrong"]>>

\* png_chunks: the image, its header and Adler-32 around the stream, cut into chunks.
RECURSIVE PngChunks(_, _)
PngChunks(chunks, image) ==
  IF chunks = <<>> THEN image
  ELSE <<[t |-> "chunk", kind |-> "IDAT", len |-> chunks[1].len]>> \o Take(image, 0, chunks[1].len)
       \o <<chunks[1].crc>> \o PngChunks(Tail(chunks), Drop(image, chunks[1].len))

RECURSIVE CloseInner(_, _)

OrWrong(c) == IF c.none THEN <<[t |-> "wrong"]>> ELSE c.it
Inside(seg) == OrWrong(CloseInner(seg.inner, <<>>))

Produce(seg) ==
  CASE seg.kind = "bytes" -> seg.side
    [] seg.kind = "deflate" -> Recreate(seg.text, seg.side)
    [] seg.kind = "deflate nested" -> Recreate(Inside(seg), seg.side)
    [] seg.kind = "deflate jpeg" -> Recreate(Restore(Drop(seg.side, seg.fix)), Take(seg.side, 0, seg.fix))
    [] seg.kind = "chunked" -> Rechunked(seg.chunks, seg.text)
    [] seg.kind = "chunked nested" -> Rechunked(seg.chunks, Inside(seg))
    [] seg.kind = "nested" -> Inside(seg)
    [] seg.kind = "jpeg" -> Restore(seg.side)
    [] seg.kind = "png" ->
         PngChunks(seg.chunks, <<seg.header>> \o Recreate(seg.text, seg.side) \o <<seg.adler>>)
    [] seg.kind = "frame" -> Frame(seg.text, seg.build)
    [] seg.kind = "frame nested" -> Frame(Inside(seg), seg.build)
    [] seg.kind = "modeled" -> Frame(Unmodel(seg.side, seg.text), seg.build)
    [] seg.kind = "planes" -> Join(seg.text, seg.width)
    [] seg.kind = "delta" -> XorWith(Join(seg.text, seg.width), seg.base)

Produced(segs) == IF segs.none THEN None ELSE Some(Flat([i \in DOMAIN segs.it |-> Produce(segs.it[i])]))
CloseInner(inner, base) == Produced(Segments(inner, base))

\* The recipe says how much of the plain text is content; the rest is the side.
OfPlain(recipe, plain) ==
  [segments |-> recipe.segments, body |-> recipe.body,
   content |-> Take(plain, 0, recipe.clen), side |-> Drop(plain, recipe.clen)]

CloseWith(recipe, plain, base) == CloseInner(OfPlain(recipe, plain), base)

\* content_of: what the streams of a gzip or zlib object hold; None for an object
\* that does not begin with one's header or holds another kind of segment.
ContentIn(segs) ==
  LET held(s) ==
        CASE s.kind = "bytes" -> <<>>
          [] s.kind \in {"deflate", "chunked", "frame"} -> s.text
          [] s.kind \in {"deflate nested", "chunked nested", "frame nested"} -> Inside(s)
          [] s.kind = "deflate jpeg" -> Restore(Drop(s.side, s.fix))
      kept == {i \in DOMAIN segs.it : segs.it[i].kind = "bytes"}
      first == segs.it[CHOOSE i \in kept : \A j \in kept : i <= j].side
      streams == {"bytes", "deflate", "deflate nested", "deflate jpeg", "chunked", "chunked nested",
                  "frame", "frame nested"}
  IN IF segs.none \/ kept = {} THEN None
     ELSE IF ~(IsA(first, "gz") \/ IsA(first, "zl")) THEN None
     ELSE IF \E i \in DOMAIN segs.it : segs.it[i].kind \notin streams THEN None
     ELSE Some(Flat([i \in DOMAIN segs.it |-> held(segs.it[i])]))
ContentOf(recipe, plain) == ContentIn(Segments(OfPlain(recipe, plain), <<>>))

-----------------------------------------------------------------------------
(* Opening.                                                                *)

CONSTANTS
  MaxDepth,     \* MAX_DEPTH: containers inside containers are opened this deep
  ChunkPlain,   \* CHUNK_PLAIN
  MinTensor     \* the fewest bytes of a tensor worth its planes

IsContainer(s) == s # <<>> /\ s[1].t \in {"gz", "zl", "tar", "pk", "png", "pdf", "par", "frame", "st", "jpg"}

\* jpeg::transcode, kept only when it is smaller.
Shrinks(s) == IsA(s, "jpg") /\ s[1].shrinks

\* A deflate stream at the front of data: complete, and one an engine can write back.
Opens(data, engines) ==
  Len(data) >= 2 /\ data[1].t = "e" /\ data[1].i = 1 /\ data[2] = [data[1] EXCEPT !.i = 2]
  /\ data[1].by \in engines

RECURSIVE OpenParts(_, _)

\* nested: a container inside, unless it lies too deep or is a JPEG.
Nested(b, data) ==
  IF b.depth + 1 >= MaxDepth \/ ~IsContainer(data) \/ IsA(data, "jpg") THEN None
  ELSE OpenParts(data, b.depth + 1)

StreamAround(b, input, at, tag, nestedTag, fields, side, text, inner) ==
  IF inner.none
    THEN Segment(b, input, tag, at, at + 2, fields \o <<Len(text)>>, side, text)
    ELSE Segment(b, input, nestedTag, at, at + 2, fields \o NestFields(inner.it),
                 side \o inner.it.side, inner.it.content)

\* A stream's segment, by what lies under it: its text, or a container.
StreamSegment(b, input, at, tag, nestedTag, fields, side, text) ==
  StreamAround(b, input, at, tag, nestedTag, fields, side, text, Nested(b, text))

JpegSegment(b, input, at, tag, text, fix) ==
  Segment(b, input, tag, at, at + 2, <<1, 1>>, <<fix>> \o Lepton(text), <<>>)

RECURSIVE CutIn(_, _)
CutIn(s, n) == IF Len(s) < 2 * n THEN <<s>> ELSE <<SubSeq(s, 1, n)>> \o CutIn(Drop(s, n), n)

\* Builder.deflate: Glyd's own reconstruction; else preflate, in chunks when the text
\* is long. n is the stream's length, 0 when it does not open.
Chunks(cut) == [n |-> Len(cut), fields |-> <<Len(cut)>> \o Flat([i \in DOMAIN cut |-> <<Len(cut[i]), 1>>]),
                fixes |-> [i \in DOMAIN cut |-> Fix(cut[i], "chunked", i)]]
StreamOf(b, input, at, data, text, chunks) ==
  LET by == data[1].by
      done(x) == [n |-> 2, b |-> x]
  IN IF Opens(data, {"reflate"}) /\ ~IsA(text, "jpg")
       THEN done(StreamSegment(b, input, at, REFLATE, REFLATE_NESTED, <<1>>, <<Fix(text, by, 0)>>, text))
     ELSE IF Opens(data, {"reflate"}) /\ Shrinks(text)
       THEN done(JpegSegment(b, input, at, REFLATE_JPEG, text, Fix(text, by, 0)))
     ELSE IF Opens(data, {"chunked"}) /\ Len(text) >= 2 * ChunkPlain /\ ~IsA(text, "jpg")
       THEN done(StreamSegment(b, input, at, DEFLATE_CHUNKED, DEFLATE_NESTED_CHUNKED, chunks.fields, chunks.fixes, text))
     ELSE IF Opens(data, {"reflate", "chunked", "preflate"})
       THEN IF Shrinks(text) THEN done(JpegSegment(b, input, at, DEFLATE_JPEG, text, Fix(text, by, 0)))
            ELSE done(StreamSegment(b, input, at, DEFLATE, DEFLATE_NESTED, <<1>>, <<Fix(text, by, 0)>>, text))
     ELSE [n |-> 0, b |-> b]
DeflateData(b, input, at, data) ==
  IF data = <<>> \/ data[1].t # "e" THEN [n |-> 0, b |-> b]
  ELSE StreamOf(b, input, at, data, data[1].text, Chunks(CutIn(data[1].text, ChunkPlain)))
Deflate(b, input, at, end) == DeflateData(b, input, at, SubSeq(input, at + 1, end))

\* Builder.stored: an entry's data that is a JPEG or a container.
StoredAs(b, input, from, to, data, inner) ==
  IF Shrinks(data) THEN Segment(b, input, JPEG, from, to, <<1>>, Lepton(data), <<>>)
  ELSE IF ~inner.none
    THEN Segment(b, input, NESTED, from, to, NestFields(inner.it), inner.it.side, inner.it.content)
  ELSE b
StoredData(b, input, from, to, data) == StoredAs(b, input, from, to, data, Nested(b, data))
Stored(b, input, from, to) == StoredData(b, input, from, to, SubSeq(input, from + 1, to))

\* A piece opened with a builder of its own; what follows its stream is kept.
StoredParts(input, from, to, depth) ==
  IntoParts(Stored(Builder(depth, from), input, from, to), input, to)
PartsOf(d, input, from, to) ==
  IF d.n = 0 THEN [parts |-> None, end |-> to]
  ELSE [parts |-> IntoParts(d.b, input, to), end |-> from + d.n]
DeflateParts(input, from, to, depth) == PartsOf(Deflate(Builder(depth, from), input, from, to), input, from, to)

\* Pieces [at, resume, parts] laid in order.
RECURSIVE LayAll(_, _, _)
LayAll(b, input, pieces) ==
  IF pieces = <<>> THEN b
  ELSE LET p == Head(pieces)
       IN LayAll(IF p.parts.none THEN b ELSE Lay(b, input, p.parts.it, p.at, p.resume), input, Tail(pieces))

-----------------------------------------------------------------------------
(* The formats.                                                            *)

\* open_gzip: members until one does not open or has no trailer.
RECURSIVE Members(_, _, _)
MembersAfter(d, b, input, at) ==
  IF d.n = 0 THEN b
  ELSE IF at + 1 + d.n + 1 > Len(input) THEN d.b
  ELSE Members(d.b, input, at + 1 + d.n + 1)
Members(b, input, at) ==
  IF ~IsA(Drop(input, at), "gz") THEN b
  ELSE MembersAfter(Deflate(b, input, at + 1, Len(input)), b, input, at)

\* open_tar: the entries up to one that does not fit; of them regular files that are
\* containers.
RECURSIVE TarEntries(_, _)
TarEntries(input, at) ==
  LET h == input[at + 1]
      end == at + 1 + h.size
  IN IF ~IsA(Drop(input, at), "tar") \/ end > Len(input) THEN <<>>
     ELSE (IF h.regular /\ IsContainer(SubSeq(input, at + 2, end)) THEN <<[at |-> at + 1, resume |-> end]>> ELSE <<>>)
          \o TarEntries(input, end)

TarPieces(es, depth, input) ==
  [i \in DOMAIN es |-> es[i] @@ [parts |-> StoredParts(input, es[i].at, es[i].resume, depth)]]
Tar(b, input) == LayAll(b, input, TarPieces(TarEntries(input, 0), b.depth, input))

\* zip_entries: the local headers the directory names, in the order of the file; none
\* when two overlap or one is not where it says.
Sorted(s) ==
  LET rank(i) == Cardinality({j \in DOMAIN s : s[j] < s[i] \/ (s[j] = s[i] /\ j <= i)})
  IN [k \in DOMAIN s |-> s[CHOOSE i \in DOMAIN s : rank(i) = k]]

ZipEntries(input) ==
  LET offsets == Sorted(input[Len(input)].offsets)
      entry(o) == [at |-> o + 1, resume |-> o + 1 + input[o + 1].size, head |-> input[o + 1]]
      whole(o) == o < Len(input) /\ input[o + 1].t = "pk" /\ o + 1 + input[o + 1].size <= Len(input)
  IN IF input = <<>> \/ input[Len(input)].t # "dir" THEN None
     ELSE IF \E i \in DOMAIN offsets : ~whole(offsets[i]) THEN None
     ELSE IF \E i \in DOMAIN offsets : i > 1 /\ offsets[i] < entry(offsets[i - 1]).resume THEN None
     ELSE Some([i \in DOMAIN offsets |-> entry(offsets[i])])

\* A tensor in planes, or the difference to the base's where that is cheaper.
Tensor(b, input, at, end, w, base, theirs, cheaper) ==
  LET data == SubSeq(input, at + 1, end)
      u == CHOOSE t \in theirs : TRUE
  IN IF theirs # {} /\ cheaper
       THEN Segment(b, input, TENSOR_DELTA, at, end, <<w, Len(data), u.at>>, <<>>,
                    Split(XorWith(data, SubSeq(base, u.at + 1, u.end)), w))
     ELSE IF w >= 2
       THEN Segment(b, input, TENSOR_PLANES, at, end, <<w, Len(data)>>, <<>>, Split(data, w))
     ELSE b

\* open_zip_against: each entry by its width or method, against the base's of its name.
OfName(be, h) == {[at |-> be[i].at, end |-> be[i].resume] : i \in
                    {i \in DOMAIN be : be[i].head.name = h.name /\ be[i].head.width = h.width /\ be[i].head.size = h.size}}
EntryParts(input, e, depth) ==
  IF e.head.method = "deflate" /\ ~e.head.secret THEN DeflateParts(input, e.at, e.resume, depth).parts
  ELSE IF e.head.method = "stored" /\ IsContainer(SubSeq(input, e.at + 1, e.resume))
    THEN StoredParts(input, e.at, e.resume, depth)
  ELSE None

RECURSIVE ZipPieces(_, _, _, _, _, _)
ZipPieces(b, input, es, base, be, cheaper) ==
  IF es = <<>> THEN b
  ELSE
    LET e == Head(es)
    IN ZipPieces(IF e.head.width >= 2
                   THEN Tensor(b, input, e.at, e.resume, e.head.width, base, OfName(be, e.head), cheaper)
                 ELSE LayAll(b, input, <<[at |-> e.at, resume |-> e.resume, parts |-> EntryParts(input, e, b.depth)]>>),
                 input, Tail(es), base, be, cheaper)

\* open_zip_walk, without a directory: an entry ends with its stream, at its size, or
\* where the next local header is. The walk goes on at one right there or a data
\* descriptor past it, and no farther (32 bytes: two tokens), or else ends there.
DescriptorRoom == 2
NextHeader(input, from) ==
  LET at == {p \in from..(Len(input) - 1) : input[p + 1].t = "pk"}
  IN IF at = {} THEN Len(input) ELSE CHOOSE p \in at : \A q \in at : p <= q
NextEntry(input, end) ==
  LET p == NextHeader(input, end) IN IF p < end + DescriptorRoom THEN p ELSE end

RECURSIVE Walk(_, _, _)
WalkTo(b, input, h, data, end) ==
  IF end > Len(input) THEN b
  ELSE Walk(IF h.method = "stored" THEN Stored(b, input, data, end) ELSE b, input, NextEntry(input, end))
WalkPast(d, input, h, data) ==
  WalkTo(d.b, input, h, data,
         IF d.n > 0 THEN data + d.n ELSE IF h.sized THEN data + h.size ELSE NextHeader(input, data))
Walk(b, input, at) ==
  IF ~IsA(Drop(input, at), "pk") THEN b
  ELSE LET h == input[at + 1]
       IN WalkPast(IF h.method = "deflate" /\ ~h.secret THEN Deflate(b, input, at + 1, Len(input)) ELSE [n |-> 0, b |-> b],
                   input, h, at + 1)

\* open_pdf: the streams that begin as zlib does and end, after the check and white
\* space, at their endstream.
RECURSIVE PdfPieces(_, _, _)
KeywordAt(input, kind, from) ==
  LET at == {p \in from..(Len(input) - 1) : input[p + 1].t = kind}
  IN IF at = {} THEN Len(input) ELSE CHOOSE p \in at : \A q \in at : p <= q
PdfPiece(data, stop, d) == <<[at |-> data + 1, resume |-> stop, parts |-> IF stop - d.end >= 1 THEN d.parts ELSE None]>>
PdfStreamAt(b, input, data, stop) ==
  IF data > Len(input) THEN <<>>
  ELSE IF ~IsA(Drop(input, data), "zl") THEN PdfPieces(b, input, data)
  ELSE IF stop = Len(input) THEN <<>>
  ELSE PdfPiece(data, stop, DeflateParts(input, data + 1, stop, b.depth)) \o PdfPieces(b, input, stop + 1)
PdfStreamFrom(b, input, data) == PdfStreamAt(b, input, data, KeywordAt(input, "endstream", data))
PdfPieces(b, input, at) == PdfStreamFrom(b, input, KeywordAt(input, "stream", at) + 1)

\* Builder.png: the image is what the first run of IDAT chunks hold, joined.
RECURSIVE Idats(_, _, _)
Idats(input, at, seen) ==
  LET h == input[at + 1]
      end == at + 2 + h.len
  IN IF ~IsA(Drop(input, at), "chunk") \/ end > Len(input) THEN <<>>
     ELSE IF h.kind = "IDAT" THEN <<[at |-> at, len |-> h.len]>> \o Idats(input, end, TRUE)
     ELSE IF seen THEN <<>>
     ELSE Idats(input, end, FALSE)

Png(b, input) ==
  LET cs == Idats(input, 1, FALSE)
      image == Flat([i \in DOMAIN cs |-> SubSeq(input, cs[i].at + 2, cs[i].at + 1 + cs[i].len)])
      last == cs[Len(cs)].at + 2 + cs[Len(cs)].len
      crcs == Flat([i \in DOMAIN cs |-> <<cs[i].len, input[cs[i].at + 2 + cs[i].len]>>])
      text == image[2].text
  IN IF cs = <<>> \/ ~IsA(image, "zl") \/ ~Opens(Drop(image, 1), {"reflate"}) \/ Len(image) # 1 + 2 + 1 THEN b
     ELSE Segment(b, input, PNG_REFLATE, cs[1].at, last,
                  <<image[1], 1, Len(text), image[4], Len(cs)>> \o crcs, <<Fix(text, "reflate", 0)>>, text)

\* open_parquet: the pages a build writes back, modelled where that is smaller.
RECURSIVE Pages(_, _, _)
Pages(b, input, at) ==
  IF at = Len(input) THEN b
  ELSE LET p == input[at + 1]
           m == Modeled(p.text)
       IN IF p.t # "frame" \/ p.build = 0 THEN Pages(b, input, at + 1)
          ELSE Pages(IF IsA(p.text, "col")
                       THEN Segment(b, input, SNAPPY_MODELED, at, at + 1, <<p.build, 1, 1>>, m.recipe, m.bytes)
                       ELSE Segment(b, input, SNAPPY_PAGE, at, at + 1, <<p.build, Len(p.text)>>, <<>>, p.text),
                     input, at + 1)

\* open_zstd: one frame and nothing else.
ZstdAround(b, input, p, inner) ==
  IF inner.none
    THEN Segment(b, input, ZSTD_FRAME, 0, 1, <<p.build, Len(p.text)>>, <<>>, p.text)
    ELSE Segment(b, input, ZSTD_NESTED, 0, 1, <<p.build>> \o NestFields(inner.it), inner.it.side, inner.it.content)
Zstd(b, input) ==
  IF Len(input) # 1 \/ input[1].build = 0 THEN b ELSE ZstdAround(b, input, input[1], Nested(b, input[1].text))

\* safetensors::tensors, by where they lie; none when two overlap.
Tensors(input) ==
  IF \/ ~IsA(input, "st")
     \/ \E t \in input[1].tensors : t.end > Len(input)
     \/ \E u, w \in input[1].tensors : u # w /\ u.at < w.end /\ w.at < u.end
    THEN None
  ELSE Some([i \in 1..Cardinality(input[1].tensors) |->
              CHOOSE t \in input[1].tensors : Cardinality({u \in input[1].tensors : u.at <= t.at}) = i])

RECURSIVE TensorPieces(_, _, _, _, _, _)
TensorPieces(b, input, ts, base, bt, cheaper) ==
  IF ts = <<>> THEN b
  ELSE LET t == Head(ts)
           theirs == {u \in {bt[i] : i \in DOMAIN bt} :
                        u.name = t.name /\ u.width = t.width /\ u.end - u.at = t.end - t.at}
       IN TensorPieces(IF t.end - t.at < MinTensor \/ (t.end - t.at) % t.width # 0 THEN b
                       ELSE Tensor(b, input, t.at, t.end, t.width, base, theirs, cheaper),
                       input, Tail(ts), base, bt, cheaper)

\* The pieces of the base; none without one.
OrNone(pieces) == IF pieces.none THEN <<>> ELSE pieces.it

SafetensorsOf(b, input, ts, base, cheaper) ==
  IF ts.none THEN b ELSE TensorPieces(b, input, ts.it, base, OrNone(Tensors(base)), cheaper)
Safetensors(b, input, base, cheaper) == SafetensorsOf(b, input, Tensors(input), base, cheaper)

ZipOf(b, input, es, base, cheaper) ==
  IF es.none THEN Walk(b, input, 0) ELSE ZipPieces(b, input, es.it, base, OrNone(ZipEntries(base)), cheaper)
Zip(b, input, base, cheaper) == ZipOf(b, input, ZipEntries(input), base, cheaper)

\* open_parts, in the order the formats are tried; what no segment claims is kept.
OpenParts(input, depth) ==
  LET b == Builder(depth, 0)
      kind == input[1].t
      opened ==
        CASE kind = "gz" -> Members(b, input, 0)
          [] kind = "pk" -> Zip(b, input, <<>>, FALSE)
          [] kind = "png" -> Png(b, input)
          [] kind = "pdf" -> LayAll(b, input, PdfPieces(b, input, 0))
          [] kind = "tar" -> Tar(b, input)
          [] kind = "zl" -> Deflate(b, input, 1, Len(input)).b
          [] kind = "par" -> Pages(b, input, 0)
          [] kind = "frame" -> Zstd(b, input)
          [] kind = "st" -> Safetensors(b, input, <<>>, FALSE)
          [] OTHER -> b
  IN IF input = <<>> THEN None ELSE IntoParts(opened, input, Len(input))

Finished(parts) ==
  IF parts.none THEN None
  ELSE Some([plain |-> parts.it.content \o parts.it.side,
             recipe |-> [segments |-> parts.it.segments, clen |-> Len(parts.it.content), body |-> parts.it.body]])

Open(input) == Finished(OpenParts(input, 0))

\* open_against: tensors against the base's of their name, when it is of the same kind.
OpenAgainst(input, base, cheaper) ==
  IF IsA(input, "st") /\ IsA(base, "st")
    THEN Finished(IntoParts(Safetensors(Builder(0, 0), input, base, cheaper), input, Len(input)))
  ELSE IF IsA(input, "pk") /\ IsA(base, "pk")
    THEN Finished(IntoParts(Zip(Builder(0, 0), input, base, cheaper), input, Len(input)))
  ELSE Open(input)

=============================================================================
