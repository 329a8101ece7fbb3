--------------------------- MODULE MCContainers ---------------------------
(***************************************************************************)
(* Objects grown by steps: a text, then layer upon layer a container of    *)
(* each format around it, whole, cut short, damaged or beside a sibling;   *)
(* and model files against bases.                                          *)
(***************************************************************************)
EXTENDS Containers

CONSTANTS MaxLayers, MaxTokens

VARIABLES obj, layers, base

vars == <<obj, layers, base>>

T(kind) == [t |-> kind]
Jpg(shrinks) == [t |-> "jpg", shrinks |-> shrinks]
Texts == {<<>>, <<X>>, <<T("col"), X>>, <<X, X, X, X>>, <<Jpg(TRUE), X>>, <<Jpg(FALSE), X>>}

Engines == {"reflate", "chunked", "preflate", "none"}
Member(o, by) == <<T("gz")>> \o Stream(o, by) \o <<X>>
Gzips(o) == {Member(o, by) \o tail : by \in Engines, tail \in {<<>>, <<X>>, Member(<<X>>, "none")}}
            \cup {SubSeq(Member(o, "reflate"), 1, n) : n \in 2..3}
            \cup {Member(<<X>>, "reflate") \o Member(o, by) : by \in Engines}

Zlibs(o) == {<<T("zl")>> \o Stream(o, by) \o <<X>> : by \in {"reflate", "preflate", "none"}}

Entry(o, regular) == <<[t |-> "tar", size |-> Len(o), regular |-> regular]>> \o o
Tars(o) == {Entry(o, r) \o tail : r \in BOOLEAN, tail \in {<<>>, <<X>>, Entry(Member(<<X>>, "reflate"), TRUE)}}
           \cup {SubSeq(Entry(o, TRUE), 1, Len(o))}

\* A local header and its data, of the size the directory gives it.
Local(o, method, secret, sized) ==
  <<[t |-> "pk", size |-> Len(o), method |-> method, secret |-> secret, sized |-> sized, width |-> 1, name |-> "a"]>> \o o
Dir(offsets) == <<[t |-> "dir", offsets |-> offsets]>>
Locals(o) == {Local(Stream(o, by) \o tail, "deflate", FALSE, sized) :
                 by \in {"reflate", "preflate", "none"}, tail \in {<<>>, <<X>>}, sized \in BOOLEAN}
             \cup {Local(Stream(o, "reflate") \o <<X, X, X>>, "deflate", FALSE, FALSE),
                   Local(Stream(o, "reflate"), "deflate", TRUE, TRUE)}
             \cup {Local(o, "stored", FALSE, sized) : sized \in BOOLEAN}
Second == Local(Stream(<<X>>, "reflate"), "deflate", FALSE, TRUE)
Zips(o) == UNION {{l, l \o Second, l \o Dir(<<0>>), l \o Second \o Dir(<<Len(l), 0>>),
                   l \o Second \o Dir(<<0, 0>>)} : l \in Locals(o)}

PdfStream(o, by) == <<T("stream"), T("zl")>> \o Stream(o, by) \o <<X, T("endstream")>>
Pdfs(o) == {<<T("pdf")>> \o PdfStream(o, by) \o tail :
              by \in {"reflate", "none"}, tail \in {<<>>, <<X>>, PdfStream(<<X>>, "reflate"), <<T("stream"), X>>}}
           \cup {<<T("pdf"), T("stream"), T("zl")>> \o Stream(o, "reflate") \o tail : tail \in {<<>>, <<T("endstream")>>}}

\* The image cut into chunks at every place.
Chunk(kind, data) == <<[t |-> "chunk", kind |-> kind, len |-> Len(data)]>> \o data \o <<X>>
Pngs(o) == LET image(by) == <<T("zl")>> \o Stream(o, by) \o <<X>>
           IN UNION {{<<T("png")>> \o Chunk("IHDR", <<X>>) \o Chunk("IDAT", SubSeq(image(by), 1, k))
                      \o between \o Chunk("IDAT", SubSeq(image(by), k + 1, 4)) \o Chunk("IEND", <<>>)
                      : between \in {<<>>, Chunk("tEXt", <<>>)}} : k \in 1..4, by \in {"reflate", "none"}}

Zsts(o) == {Frame(o, build) : build \in 0..1} \cup {Frame(o, 1) \o <<X>>}
Parquets(o) == {<<T("par")>> \o Frame(o, build) \o <<X>> \o Frame(<<X>>, 1) \o <<X>> : build \in 0..1}

\* The innermost layer, whole.
Plain(o) == {Member(o, "reflate"), Entry(o, TRUE), Local(o, "stored", FALSE, TRUE) \o Dir(<<0>>),
             Local(Stream(o, "preflate"), "deflate", FALSE, TRUE) \o Dir(<<0>>),
             Frame(o, 1), <<T("par")>> \o Frame(o, 1), <<T("pdf")>> \o PdfStream(o, "reflate")}
Layer(o) == Gzips(o) \cup Zlibs(o) \cup Tars(o) \cup Zips(o) \cup Pdfs(o) \cup Pngs(o) \cup Zsts(o) \cup Parquets(o)

-----------------------------------------------------------------------------
(* Model files of up to two tensors, and checkpoints of up to two storages. *)

V(v) == [t |-> "v", v |-> v]
Bytes(n) == [1..n -> {V(0), V(1)}]
Shapes == {<<>>, <<<<"a", 2, 4>>>>, <<<<"a", 1, 3>>, <<"b", 2, 2>>>>, <<<<"b", 2, 2>>, <<"a", 2, 4>>>>}

StFile(shape, data) ==
  LET at(i) == 1 + SumOf([j \in 1..(i - 1) |-> shape[j][3]])
  IN <<[t |-> "st", tensors |-> {[name |-> shape[i][1], width |-> shape[i][2], at |-> at(i), end |-> at(i + 1)] : i \in DOMAIN shape}]>> \o data
TorchFile(shape, data) ==
  LET at(i) == SumOf([j \in 1..(i - 1) |-> shape[j][3]])
      local(i) == <<[t |-> "pk", size |-> shape[i][3], method |-> "stored", secret |-> FALSE, sized |-> TRUE,
                     width |-> shape[i][2], name |-> shape[i][1]]>> \o SubSeq(data, at(i) + 1, at(i + 1))
  IN Flat([i \in DOMAIN shape |-> local(i)]) \o Dir([i \in DOMAIN shape |-> at(i) + i - 1])
Size(shape) == SumOf([i \in DOMAIN shape |-> shape[i][3]])

Files == UNION {UNION {{StFile(s, d), TorchFile(s, d)} : d \in Bytes(Size(s))} : s \in Shapes}

-----------------------------------------------------------------------------
Init == obj = <<>> /\ base = <<>> /\ layers = 0

Leaf == layers = 0 /\ obj' \in Texts /\ layers' = 1 /\ UNCHANGED base
Wrap == /\ layers \in 1..MaxLayers
        /\ obj' \in {o \in IF layers = 1 THEN Plain(obj) ELSE Layer(obj) : Len(o) <= MaxTokens}
        /\ layers' = layers + 1 /\ UNCHANGED base

\* A model file, then a base for it: another, of its kind or not.
Weights == layers = 0 /\ obj' \in Files /\ layers' = MaxLayers + 2 /\ UNCHANGED base
Base == layers = MaxLayers + 2 /\ base' \in Files /\ layers' = MaxLayers + 3 /\ UNCHANGED obj

Next == Leaf \/ Wrap \/ Weights \/ Base
Spec == Init /\ [][Next]_vars

Closes(o, b) == o.none \/ CloseWith(o.it.recipe, o.it.plain, b) = Some(obj)

\* Whatever an object is made of, whole or cut short, what opens closes to it; and a
\* model file opened against a base closes with that base.
ClosesExactly ==
  /\ layers \in 2..(MaxLayers + 1) => Closes(Open(obj), <<>>)
  /\ layers = MaxLayers + 3 =>
       \A cheaper \in BOOLEAN : Closes(OpenAgainst(obj, base, cheaper), base)

\* What gunzip prints of an object: its members' texts one after the other; an object
\* cut short is an error.
RECURSIVE Gunzip(_)
Gunzip(s) ==
  IF ~IsA(s, "gz") THEN <<>>
  ELSE s[2].text \o Gunzip(Drop(s, 4))
ContentIsGunzip ==
  layers \in 2..(MaxLayers + 1) /\ IsA(obj, "gz") /\ Len(obj) >= 4 =>
    LET o == Open(obj)
        c == IF o.none THEN None ELSE ContentOf(o.it.recipe, o.it.plain)
    IN c.none \/ c.it = Gunzip(obj)
=============================================================================
