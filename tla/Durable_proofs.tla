--------------------------- MODULE Durable_proofs ---------------------------
(***************************************************************************)
(* What the store opened again has against the store in memory, for every  *)
(* number of objects, of writes under way and of kills: the invariant over *)
(* the index's lines and those still to be written, and over the streams   *)
(* stored and still to be written; each action's keeping it; and from it   *)
(* the state with every write done, the step of a kill, and what can be    *)
(* read when the store is opened at any moment.  Then the same for the     *)
(* sidecars and the store rebuilt from them.                               *)
(***************************************************************************)
EXTENDS Durable, SequenceTheorems, FiniteSetTheorems, WellFoundedInduction, TLAPS

\* What the state's parts are, without Durable's bounds on the numbers.
EntryT ==
  {e \in [of : Nat \cup {None}, kind : {"large", "small", "pack"}, base : Nat \cup {None},
          pack : Nat \cup {None, Open}, at : Nat, deleted : BOOLEAN] :
     e.kind = "large" => e.pack # Open}
\* A base is an earlier object.
Earlier(b, i) == b = None \/ b \in 0..(i - 1)
LineT == {l \in [id : 0..(MaxLen - 1), entry : EntryT, delete : BOOLEAN] : Earlier(l.entry.base, l.id)}
StreamT == [of : Nat \cup {None}, base : Nat \cup {None}, members : Seq(Nat \cup {None})]
WriteT ==
  [to : {"stream"}, id : Nat, value : StreamT] \cup [to : {"sidecar"}, id : Nat, value : Seq(LineT)]
    \cup [to : {"index"}, id : Nat, value : LineT] \cup [to : {"remove"}, id : Nat, value : {None}]

Typed ==
  /\ entries \in Seq(EntryT) /\ Len(entries) <= MaxLen
  /\ \A i \in Ids(entries) : Earlier(At(entries, i).base, i)
  /\ pending \in Seq(Nat) /\ \A k \in 1..Len(pending) : pending[k] \in Ids(entries)
  /\ index \in Seq(LineT)
  /\ todo \in Seq(WriteT)
  /\ \A c \in DOMAIN streams : streams[c] \in StreamT
  /\ puts \in Nat

\* Lines of an id, in the index and among the writes under way.
IsPut(l, i) == ~l.delete /\ l.id = i
IsDelete(l, i) == l.delete /\ l.id = i
Has(lines, i) == \E k \in 1..Len(lines) : IsPut(lines[k], i)
Deletes(lines, i) == \E k \in 1..Len(lines) : IsDelete(lines[k], i)
DuePut(w, i) == w.to = "index" /\ IsPut(w.value, i)
DueDelete(w, i) == w.to = "index" /\ IsDelete(w.value, i)
Due(ws, i) == \E k \in 1..Len(ws) : DuePut(ws[k], i)
DueDeletes(ws, i) == \E k \in 1..Len(ws) : DueDelete(ws[k], i)

\* A line is about an entry of the same object; it is current when the entry
\* still is what it says.
About(es, l) ==
  /\ l.id \in Ids(es) /\ l.entry.of # None /\ ~l.entry.deleted
  /\ l.entry.of = At(es, l.id).of /\ l.entry.kind = At(es, l.id).kind
Current(es, l) == l.entry = [At(es, l.id) EXCEPT !.deleted = FALSE]
IsLast(lines, k) ==
  ~lines[k].delete /\ \A j \in (k + 1)..Len(lines) : ~IsPut(lines[j], lines[k].id)
IsPending(i) == \E k \in 1..Len(pending) : pending[k] = i

\* Every put line is about an entry there is.
OfEntries ==
  /\ \A k \in 1..Len(index) : ~index[k].delete => About(entries, index[k])
  /\ \A k \in 1..Len(todo) : todo[k].to = "index" /\ ~todo[k].value.delete => About(entries, todo[k].value)
\* A put line under way is current, and so is an id's last line when none is.
Newest ==
  /\ \A k \in 1..Len(todo) : todo[k].to = "index" /\ ~todo[k].value.delete => Current(entries, todo[k].value)
  /\ \A k \in 1..Len(index) : IsLast(index, k) /\ ~Due(todo, index[k].id) => Current(entries, index[k])
\* What is deleted in memory was never written or has a deletion.
Deletions ==
  \A i \in Ids(entries) :
    /\ At(entries, i).of = None => At(entries, i).deleted
    /\ At(entries, i).deleted => At(entries, i).of = None \/ Deletes(index, i) \/ DueDeletes(todo, i)
\* What has no line waits in the open pack or was lost by an earlier kill.
Written ==
  \A i \in Ids(entries) :
    Has(index, i) \/ Due(todo, i) <=> ~IsPending(i) /\ At(entries, i).of # None
\* Outside a rebase, of a large object, a line under way is the first of its id,
\* and it is the only one under way.
Once ==
  /\ \A i \in Ids(entries) : Has(index, i) /\ Due(todo, i) => busy = "rebase" /\ At(entries, i).kind = "large"
  /\ \A i \in Ids(entries) : \A j, k \in 1..Len(todo) : DuePut(todo[j], i) /\ DuePut(todo[k], i) => j = k
\* The open pack holds small objects, each once and at its place.
Waiting ==
  /\ \A k \in 1..Len(pending) :
       /\ At(entries, pending[k]).of # None /\ At(entries, pending[k]).kind = "small"
       /\ At(entries, pending[k]).at = k - 1
  /\ \A j, k \in 1..Len(pending) : pending[j] = pending[k] => j = k
Kept == OfEntries /\ Newest /\ Deletions /\ Written /\ Once /\ Waiting
\* What has a deletion is an entry there is, deleted in memory: not so once a
\* deletion's line outlived the open pack its object was in.
Reopens ==
  /\ \A i \in Ids(entries) : Deletes(index, i) \/ DueDeletes(todo, i) => At(entries, i).deleted
  /\ \A k \in 1..Len(index) : index[k].delete => index[k].id \in Ids(entries)
  /\ \A k \in 1..Len(todo) : todo[k].to = "index" /\ todo[k].value.delete => todo[k].value.id \in Ids(entries)

\* Streams under way and streams taken away: behind the first comes a line of
\* its id, the others are of entries there are.
IsStream(w, c) == w.to = "stream" /\ w.id = c
IsRemove(w, c) == w.to = "remove" /\ w.id = c
Under(es, ws) ==
  \A k \in 1..Len(ws) :
    /\ ws[k].to = "stream" => \E j \in (k + 1)..Len(ws) : DuePut(ws[j], ws[k].id)
    /\ ws[k].to = "remove" => ws[k].id \in Ids(es)

\* The stream of c is in the backend or under way, is not about to be taken
\* away, and is one of S.
Holds(ws, ss, c, S) ==
  /\ \A k \in 1..Len(ws) : ~IsRemove(ws[k], c) /\ (IsStream(ws[k], c) => ws[k].value \in S)
  /\ (\E k \in 1..Len(ws) : IsStream(ws[k], c)) \/ (c \in DOMAIN ss /\ ss[c] \in S)
\* The streams a large object's entry is about, and those a small one's is.
LargeStreams(e) == {s \in StreamT : s.of = e.of /\ s.base = e.base}
SmallStreams(e) == {s \in StreamT : e.at + 1 \in DOMAIN s.members /\ s.members[e.at + 1] = e.of}

\* What the store has, or has again when a kill undoes a deletion whose line
\* was not written.
Required(es, lines, ws, i) ==
  /\ Has(lines, i) \/ Due(ws, i)
  /\ ~(Deletes(lines, i) /\ At(es, i).deleted)

\* A large object's line comes after its base's.
Based(es, lines, ws) ==
  \A i \in Ids(es) :
    At(es, i).kind = "large" /\ At(es, i).base # None =>
      /\ Has(lines, i) => Has(lines, At(es, i).base)
      /\ \A k \in 1..Len(ws) :
           DuePut(ws[k], i) =>
             Has(lines, At(es, i).base) \/ \E j \in 1..(k - 1) : DuePut(ws[j], At(es, i).base)
\* T has each large object required and the base of each it has, and every one
\* it has is held: compact takes from T, nothing else does.
HoldsLarge(es, lines, ws, ss, T) ==
  /\ \A c \in T : c \in Ids(es) /\ At(es, c).kind = "large"
  /\ \A c \in T : At(es, c).base # None => At(es, c).base \in T
  /\ \A i \in Ids(es) : At(es, i).kind = "large" /\ Required(es, lines, ws, i) => i \in T
  /\ \A c \in T : Holds(ws, ss, c, LargeStreams(At(es, c)))
LargeKept ==
  /\ Based(entries, index, todo)
  /\ \E T \in SUBSET Ids(entries) : HoldsLarge(entries, index, todo, streams, T)

\* A small object required is in a pack there is, held, and its line is in the
\* index before its pack's only in a flush.
HoldsSmall(es, lines, ws, ss, op, i) ==
  /\ Due(ws, i) => op = "flush"
  /\ Required(es, lines, ws, i) =>
       /\ At(es, i).pack \in Ids(es) /\ At(es, At(es, i).pack).kind = "pack"
       /\ Has(lines, At(es, i).pack) \/ Due(ws, At(es, i).pack)
       /\ Has(lines, i) /\ op # "flush" => Has(lines, At(es, i).pack)
       /\ Holds(ws, ss, At(es, i).pack, SmallStreams(At(es, i)))
SmallKept ==
  \A i \in Ids(entries) :
    At(entries, i).kind = "small" => HoldsSmall(entries, index, todo, streams, busy, i)

DurableInv ==
  /\ Typed /\ Kept /\ Under(entries, todo)
  /\ "open deletion" \notin events => Reopens
  /\ "rebase cut" \notin events => LargeKept
  /\ "flush cut" \notin events => SmallKept

-----------------------------------------------------------------------------
(* What the sidecars have against the index.                               *)

\* The sidecar of c stored or under way; with every write done it is one of S.
IsSidecar(w, c) == w.to = "sidecar" /\ w.id = c
Stored(sc, c, S) == c \in DOMAIN sc /\ sc[c] \in S
Beside(ws, sc, c, S) ==
  /\ \A k \in 1..Len(ws) : IsSidecar(ws[k], c) => ws[k].value \in S
  /\ (\E k \in 1..Len(ws) : IsSidecar(ws[k], c)) \/ Stored(sc, c, S)

\* The object whose sidecar has the line of i, what an entry's line says of it,
\* and the sidecars that have such a line of i and no other put's of i.
Home(es, i) == IF At(es, i).kind = "small" THEN At(es, i).pack ELSE i
Bare(e) == [e EXCEPT !.deleted = FALSE]
Saying(i, b) ==
  {v \in Seq(LineT) : /\ \E k \in 1..Len(v) : IsPut(v[k], i)
                      /\ \A k \in 1..Len(v) : IsPut(v[k], i) => v[k].entry = b}
Right(es, i) == Saying(i, Bare(At(es, i)))
Deleting(i) == {v \in Seq(LineT) : Deletes(v, i)}

Known(lines, ws, i) == Has(lines, i) \/ Due(ws, i)
DeletedBefore(lines, ws, k, i) == Deletes(lines, i) \/ \E m \in 1..(k - 1) : DueDelete(ws[m], i)

\* A line of another object than the sidecar's is an earlier, small one's.
Packed(es, c, l) ==
  l.id \in 0..(c - 1) /\ l.id \in Ids(es) /\ At(es, l.id).kind = "small" /\ l.entry = Bare(At(es, l.id))

\* What the sidecars stored say is in the index.
StoredLine(es, lines, c, l) ==
  /\ l.delete => Deletes(lines, l.id)
  /\ ~l.delete /\ l.id # c => Packed(es, c, l) /\ Has(lines, l.id)
StoredLines(es, lines, sc) ==
  \A c \in DOMAIN sc : \A j \in 1..Len(sc[c]) : StoredLine(es, lines, c, sc[c][j])

\* What the sidecars under way say is in the index before them, but for the
\* put's own line; only a flush, whose sidecar is the last write, writes a pack's.
DueLine(es, lines, ws, op, k, l) ==
  /\ l.delete => DeletedBefore(lines, ws, k, l.id)
  /\ ~l.delete /\ l.id # ws[k].id =>
       op = "flush" /\ k = Len(ws) /\ Packed(es, ws[k].id, l) /\ Known(lines, ws, l.id)
DueSidecar(es, lines, ws, op, k) ==
  /\ ws[k].id \in Ids(es)
  /\ op # "flush" => At(es, ws[k].id).kind # "pack"
  /\ op \notin {"flush", "rebase"} => Due(ws, ws[k].id) \/ DeletedBefore(lines, ws, k, ws[k].id)
  /\ \A j \in 1..Len(ws[k].value) : DueLine(es, lines, ws, op, k, ws[k].value[j])
DueSidecars(es, lines, ws, op) ==
  \A k \in 1..Len(ws) : ws[k].to = "sidecar" => DueSidecar(es, lines, ws, op, k)

\* A put's sidecar is written before its line.
SidecarFirst(es, ws, op) ==
  /\ \A i \in Ids(es) : Due(ws, i) /\ At(es, i).kind # "large" => op = "flush"
  /\ op \notin {"flush", "rebase"} =>
       \A j, k \in 1..Len(ws) : DuePut(ws[k], ws[j].id) /\ ws[j].to = "sidecar" => j < k

\* What has a line, and no deletion once a kill may have undone one in memory,
\* is said where it should be.
Wanted(lines, ws, kl, i) == Known(lines, ws, i) /\ (Deletes(lines, i) => kl = 0)
AtHome(es, lines, ws, sc, op, i) ==
  /\ Home(es, i) \in Ids(es)
  /\ At(es, i).kind = "small" => At(es, Home(es, i)).kind = "pack"
  /\ Beside(ws, sc, Home(es, i), Right(es, i))
  /\ Has(lines, i) /\ op \notin {"flush", "rebase"} => Stored(sc, Home(es, i), Right(es, i))
AllAtHome(es, lines, ws, sc, op, kl) ==
  \A i \in Ids(es) : Wanted(lines, ws, kl, i) => AtHome(es, lines, ws, sc, op, i)
Apart(es) == \A i \in Ids(es) : At(es, i).kind = "small" <=> At(es, i).pack # None

\* Until the first kill no sidecar says more than the index, and every deletion
\* is in one.
FromStart(es, lines, ws, sc) ==
  /\ \A c \in DOMAIN sc : \A j \in 1..Len(sc[c]) : ~sc[c][j].delete => Known(lines, ws, sc[c][j].id)
  /\ \A k \in 1..Len(ws) : ws[k].to = "sidecar" =>
       \A j \in 1..Len(ws[k].value) : ~ws[k].value[j].delete => Known(lines, ws, ws[k].value[j].id)
  /\ \A i \in Ids(es) : At(es, i).deleted => Beside(ws, sc, i, Deleting(i))

Excluded == {"flush cut", "rebase cut", "pack deleted"}
SideTyped == kills \in Nat /\ \A c \in DOMAIN sidecars : sidecars[c] \in Seq(LineT)
Sides ==
  /\ StoredLines(entries, index, sidecars)
  /\ DueSidecars(entries, index, todo, busy)
  /\ SidecarFirst(entries, todo, busy)
  /\ AllAtHome(entries, index, todo, sidecars, busy, kills)
  /\ Apart(entries)
  /\ kills = 0 => "open deletion" \notin events /\ FromStart(entries, index, todo, sidecars)
SideInv == SideTyped /\ (events \cap Excluded = {} => Sides)

-----------------------------------------------------------------------------

NatLess == {ss \in Nat \X Nat : ss[1] < ss[2]}

\* Every set of naturals has a least element.
LEMMA LeastNatural ==
  ASSUME NEW T, T \subseteq Nat, T # {}
  PROVE  \E m \in T : \A k \in T : m <= k
<1>1. IsWellFoundedOn(NatLess, Nat)
  BY ONLY NatLessThanWellFounded, Zenon DEF OpToRel, NatLess
<1>2. PICK m \in T : \A k \in T : ~(<<k, m>> \in NatLess)
  BY <1>1, WFMin
<1>3. \A k \in T : ~(k < m)
  BY <1>2 DEF NatLess
<1>4. QED
  BY <1>3

\* A nonempty set of positions has a last one.
LEMMA LastPosition ==
  ASSUME NEW n \in Nat, NEW T, T \subseteq 1..n, T # {}
  PROVE  \E m \in T : \A k \in T : k <= m
<1> DEFINE R == {d \in Nat : \E k \in T : d = n - k}
<1>1. PICK t \in T : TRUE
  OBVIOUS
<1>2. n - t \in R
  OBVIOUS
<1>3. R \subseteq Nat /\ R # {}
  BY <1>2
<1>4. PICK r \in R : \A d \in R : r <= d
  BY <1>3, LeastNatural
<1>5. PICK m \in T : r = n - m
  OBVIOUS
<1>6. ASSUME NEW k \in T
      PROVE  k <= m
  <2>1. n - k \in R
    OBVIOUS
  <2>2. r <= n - k
    BY <2>1, <1>4
  <2>3. QED
    BY <2>2, <1>5
<1>7. QED
  BY <1>6

\* The store opens with an entry for every id up to the highest that has a line.
LEMMA CountCovers ==
  ASSUME NEW lines, lines \in Seq(LineT)
  PROVE  /\ Count(lines) \in Nat /\ Count(lines) <= MaxLen
         /\ \A k \in PutLines(lines) : lines[k].id < Count(lines)
         /\ \A n \in Nat : (\A k \in PutLines(lines) : lines[k].id < n) => Count(lines) <= n
<1> DEFINE S == {i \in 0..MaxLen : \E k \in PutLines(lines) : lines[k].id >= i}
<1>0. MaxLen \in Nat
  BY DurableAssumption
<1>1. \A k \in PutLines(lines) : lines[k].id \in 0..(MaxLen - 1)
  <2>1. \A k \in 1..Len(lines) : lines[k] \in LineT
    OBVIOUS
  <2>2. \A k \in 1..Len(lines) : lines[k].id \in 0..(MaxLen - 1)
    BY <2>1 DEF LineT
  <2>3. QED
    BY <2>2 DEF PutLines
<1>2. S \subseteq 0..(MaxLen - 1)
  BY <1>0, <1>1
<1>3. IsFiniteSet(0..(MaxLen - 1)) /\ Cardinality(0..(MaxLen - 1)) = MaxLen
  BY <1>0, FS_Interval
<1> HIDE DEF S
<1>4. IsFiniteSet(S) /\ Cardinality(S) <= MaxLen
  BY <1>2, <1>3, FS_Subset
<1>5. Count(lines) = Cardinality(S)
  BY DEF Count, S
<1>6. Cardinality(S) \in Nat
  BY <1>4, FS_CardinalityType
<1>7. ASSUME NEW k \in PutLines(lines)
      PROVE  lines[k].id < Cardinality(S)
  <2>1. lines[k].id \in 0..(MaxLen - 1)
    BY <1>1
  <2>2. PICK x \in 0..(MaxLen - 1) : x = lines[k].id
    BY <2>1
  <2>3. 0..x \subseteq S
    BY <2>2, <1>0 DEF S
  <2>4. Cardinality(0..x) = x + 1
    BY <1>0, FS_Interval
  <2>5. Cardinality(0..x) <= Cardinality(S)
    BY <2>3, <1>4, FS_Subset
  <2>6. QED
    BY <2>2, <2>4, <2>5, <1>6, <1>0
<1>8. ASSUME NEW n \in Nat, \A k \in PutLines(lines) : lines[k].id < n
      PROVE  Cardinality(S) <= n
  <2>1. S \subseteq 0..(n - 1)
    BY <1>0, <1>1, <1>8 DEF S
  <2>2. IsFiniteSet(0..(n - 1)) /\ Cardinality(0..(n - 1)) = n
    BY FS_Interval
  <2>3. QED
    BY <2>1, <2>2, FS_Subset
<1>9. QED
  BY <1>4, <1>5, <1>6, <1>7, <1>8

\* What an entry of the opened store is: lost where its id has no line, and
\* otherwise that of its last line, deleted when any line deletes it.
LEMMA OpenedEntries ==
  ASSUME NEW lines, lines \in Seq(LineT)
  PROVE  /\ Entries(lines) \in Seq(EntryT) /\ Len(Entries(lines)) = Count(lines)
         /\ \A i \in Ids(Entries(lines)) : Earlier(At(Entries(lines), i).base, i)
         /\ \A i \in Ids(Entries(lines)) : ~Has(lines, i) => At(Entries(lines), i) = Lost
         /\ \A i \in Nat : Has(lines, i) =>
              /\ i \in Ids(Entries(lines))
              /\ \E k \in 1..Len(lines) :
                   /\ IsPut(lines[k], i) /\ IsLast(lines, k)
                   /\ At(Entries(lines), i) = [lines[k].entry EXCEPT !.deleted = Deletes(lines, i)]
<1> DEFINE n == Count(lines)
           b(i) == IF LinesOf(lines, i) = {} THEN Lost
                   ELSE [lines[LastLine(lines, i)].entry EXCEPT !.deleted = Deletes(lines, i)]
<1>0. n \in Nat /\ Len(lines) \in Nat /\ MaxLen \in Nat
  BY CountCovers, DurableAssumption
<1>1. \A i \in Nat : LinesOf(lines, i) = {k \in 1..Len(lines) : IsPut(lines[k], i)}
  BY DEF LinesOf, PutLines, IsPut
<1>2. \A i \in Nat : Has(lines, i) <=> LinesOf(lines, i) # {}
  BY <1>1 DEF Has
<1>3. ASSUME NEW i \in Nat, LinesOf(lines, i) # {}
      PROVE  /\ LastLine(lines, i) \in 1..Len(lines)
             /\ IsPut(lines[LastLine(lines, i)], i)
             /\ IsLast(lines, LastLine(lines, i))
             /\ lines[LastLine(lines, i)] \in LineT
             /\ i < n
  <2> DEFINE T == LinesOf(lines, i)
  <2>1. T \subseteq 1..Len(lines) /\ T # {}
    BY <1>1, <1>3
  <2>2. \E m \in T : \A k \in T : k <= m
    BY <2>1, <1>0, LastPosition
  <2>3. LastLine(lines, i) \in T /\ \A k \in T : k <= LastLine(lines, i)
    BY <2>2 DEF LastLine
  <2>4. PICK m \in T : m = LastLine(lines, i)
    BY <2>3
  <2>5. m \in 1..Len(lines) /\ IsPut(lines[m], i) /\ lines[m] \in LineT
    BY <2>1, <1>1
  <2>6. IsLast(lines, m)
    <3>1. ASSUME NEW j \in (m + 1)..Len(lines), IsPut(lines[j], i)
          PROVE  FALSE
      <4>1. j \in 1..Len(lines) /\ j > m
        BY <2>5, <1>0
      <4>2. j \in T
        BY <4>1, <3>1, <1>1
      <4>3. QED
        BY <4>1, <4>2, <2>3, <2>4, <2>5
    <3>2. QED
      BY <3>1, <2>5 DEF IsLast, IsPut
  <2>7. m \in PutLines(lines) /\ lines[m].id = i
    BY <2>5 DEF PutLines, IsPut
  <2>8. i < n
    BY <2>7, CountCovers
  <2>9. QED
    BY <2>4, <2>5, <2>6, <2>8
<1>4. ASSUME NEW i \in Nat
      PROVE  b(i) \in EntryT /\ Earlier(b(i).base, i)
  <2>1. Lost \in EntryT /\ Earlier(Lost.base, i)
    BY DEF Lost, EntryT, Earlier
  <2>2. \A l \in LineT : l.entry \in EntryT
    BY DEF LineT
  <2>3. Deletes(lines, i) \in BOOLEAN
    BY DEF Deletes
  <2>4. \A e \in EntryT, d \in BOOLEAN : [e EXCEPT !.deleted = d] \in EntryT /\ [e EXCEPT !.deleted = d].base = e.base
    BY DEF EntryT
  <2>5. CASE LinesOf(lines, i) = {}
    BY <2>1, <2>5
  <2>6. CASE LinesOf(lines, i) # {}
    <3>1. PICK l \in LineT : l = lines[LastLine(lines, i)] /\ l.id = i
      BY <1>3, <2>6 DEF IsPut
    <3>2. l.entry \in EntryT /\ Earlier(l.entry.base, i)
      BY <3>1 DEF LineT
    <3>3. QED
      BY <3>1, <3>2, <2>3, <2>4, <2>6
  <2>7. QED
    BY <2>5, <2>6
<1>5. Entries(lines) = [j \in 1..n |-> b(j - 1)]
  <2>1. \A i : Deletes(lines, i) = \E k \in 1..Len(lines) : lines[k].delete /\ lines[k].id = i
    BY DEF Deletes, IsDelete
  <2>2. QED
    BY <2>1 DEF Entries
<1> HIDE DEF n, b
<1>6. \A j \in 1..n : j - 1 \in Nat /\ b(j - 1) \in EntryT
  BY <1>0, <1>4
<1>7. Entries(lines) \in [1..n -> EntryT]
  BY <1>5, <1>6
<1>8. \A es : es \in [1..n -> EntryT] => es \in Seq(EntryT) /\ Len(es) = n
  BY <1>0
<1>9. Entries(lines) \in Seq(EntryT) /\ Len(Entries(lines)) = n
  BY <1>7, <1>8
<1>10. \A i \in 0..(n - 1) : At(Entries(lines), i) = b(i)
  <2>1. ASSUME NEW i \in 0..(n - 1)
        PROVE  At(Entries(lines), i) = b(i)
    <3>1. i + 1 \in 1..n /\ (i + 1) - 1 = i
      BY <1>0
    <3>2. PICK j \in 1..n : j = i + 1
      BY <3>1
    <3>3. Entries(lines)[j] = b(j - 1)
      BY <1>5
    <3>4. QED
      BY <3>1, <3>2, <3>3 DEF At
  <2>2. QED
    BY <2>1
<1>11. Ids(Entries(lines)) = 0..(n - 1)
  BY <1>9 DEF Ids
<1>12. ASSUME NEW i \in Ids(Entries(lines)), ~Has(lines, i)
       PROVE  At(Entries(lines), i) = Lost
  <2>1. i \in Nat /\ i \in 0..(n - 1)
    BY <1>11, <1>0
  <2>2. QED
    BY <2>1, <1>10, <1>2, <1>12 DEF b
<1>13. ASSUME NEW i \in Nat, Has(lines, i)
       PROVE  /\ i \in Ids(Entries(lines))
              /\ \E k \in 1..Len(lines) :
                   /\ IsPut(lines[k], i) /\ IsLast(lines, k)
                   /\ At(Entries(lines), i) = [lines[k].entry EXCEPT !.deleted = Deletes(lines, i)]
  <2>1. LinesOf(lines, i) # {}
    BY <1>2, <1>13
  <2>2. i \in 0..(n - 1)
    BY <2>1, <1>3, <1>0
  <2>3. At(Entries(lines), i) = [lines[LastLine(lines, i)].entry EXCEPT !.deleted = Deletes(lines, i)]
    BY <2>2, <1>10, <2>1 DEF b
  <2>4. QED
    BY <2>1, <2>2, <2>3, <1>3, <1>11
<1>14. \A i \in Ids(Entries(lines)) : Earlier(At(Entries(lines), i).base, i)
  <2>1. \A i \in Ids(Entries(lines)) : i \in Nat /\ i \in 0..(n - 1)
    BY <1>11, <1>0
  <2>2. QED
    BY <2>1, <1>4, <1>10
<1>15. QED
  BY <1>9, <1>12, <1>13, <1>14 DEF n

-----------------------------------------------------------------------------
(* Types.                                                                  *)

LEMMA WriteTypes ==
  /\ \A id \in Nat, v \in StreamT : Stream(id, v) \in WriteT
  /\ \A id \in Nat, v \in Seq(LineT) : Sidecar(id, v) \in WriteT
  /\ \A l \in LineT : Line(l) \in WriteT
  /\ \A id \in Nat : Remove(id) \in WriteT
<1>1. \A id \in Nat, v \in StreamT : Stream(id, v) \in WriteT
  BY DEF Stream, WriteT
<1>2. \A id \in Nat, v \in Seq(LineT) : Sidecar(id, v) \in WriteT
  BY DEF Sidecar, WriteT
<1>3. \A l \in LineT : Line(l) \in WriteT
  BY DurableAssumption DEF Line, WriteT, LineT
<1>4. \A id \in Nat : Remove(id) \in WriteT
  BY DEF Remove, WriteT
<1>5. QED
  BY <1>1, <1>2, <1>3, <1>4

LEMMA LineTypes ==
  /\ \A id \in 0..(MaxLen - 1), e \in EntryT : Earlier(e.base, id) => line(id, e) \in LineT
  /\ \A id \in 0..(MaxLen - 1) : D(id) \in LineT
<1>1. \A e \in EntryT : [e EXCEPT !.deleted = FALSE] \in EntryT /\ [e EXCEPT !.deleted = FALSE].base = e.base
  BY DEF EntryT
<1>2. \A id \in 0..(MaxLen - 1), e \in EntryT : Earlier(e.base, id) => line(id, e) \in LineT
  BY <1>1 DEF line, LineT
<1>3. Lost \in EntryT /\ \A id : Earlier(Lost.base, id)
  BY DEF Lost, EntryT, Earlier
<1>4. QED
  BY <1>2, <1>3 DEF D, LineT

LEMMA WriteLines ==
  ASSUME NEW ws, ws \in Seq(WriteT), NEW k \in 1..Len(ws), ws[k].to = "index"
  PROVE  ws[k].value \in LineT
<1>1. PICK w \in WriteT : w = ws[k]
  OBVIOUS
<1>2. w.to = "index" => w.value \in LineT
  BY DEF WriteT
<1>3. QED
  BY <1>1, <1>2

\* Of a large put: the new entry is the last, its line the last of its writes.
LEMMA AfterPutLarge ==
  ASSUME Typed, PutLarge
  PROVE  LET n == Len(entries)
             t == Len(todo)
         IN  /\ n < MaxLen /\ busy' = busy
             /\ entries' \in Seq(EntryT) /\ Len(entries') = n + 1
             /\ \A i \in Ids(entries) : At(entries', i) = At(entries, i)
             /\ At(entries', n).of \in Nat /\ ~At(entries', n).deleted /\ At(entries', n).kind = "large"
             /\ At(entries', n).base \in {None} \cup {i \in Live(entries) : At(entries, i).kind = "large"}
             /\ Earlier(At(entries', n).base, n)
             /\ todo' \in Seq(WriteT) /\ Len(todo') = t + 3
             /\ \A k \in 1..t : todo'[k] = todo[k]
             /\ todo'[t + 1] = Stream(n, [of |-> At(entries', n).of, base |-> At(entries', n).base,
                                          members |-> <<>>])
             /\ todo'[t + 1].to = "stream" /\ todo'[t + 2].to = "sidecar"
             /\ todo'[t + 2] = Sidecar(n, <<line(n, At(entries', n))>>)
             /\ todo'[t + 3] = Line(line(n, At(entries', n)))
<1> DEFINE n == Len(entries)
           t == Len(todo)
<1>0. /\ entries \in Seq(EntryT) /\ n \in Nat /\ n < MaxLen /\ MaxLen \in Nat
      /\ todo \in Seq(WriteT) /\ puts \in Nat /\ t \in Nat
  BY DurableAssumption DEF Typed, PutLarge
<1>1. PICK b \in {None} \cup {i \in Live(entries) : At(entries, i).kind = "large"} :
        /\ entries' = Append(entries, Entry(puts, "large", b, None, 0))
        /\ todo' = todo \o LargeWrites(n, [of |-> puts, base |-> b, members |-> <<>>],
                                      line(n, Entry(puts, "large", b, None, 0)))
  BY DEF PutLarge
<1>2. b \in Nat \cup {None} /\ Earlier(b, n)
  BY <1>0 DEF Live, Ids, Earlier
<1>3. PICK e : e = Entry(puts, "large", b, None, 0)
  OBVIOUS
<1>4. e \in EntryT /\ e.of = puts /\ ~e.deleted /\ e.kind = "large" /\ e.base = b
  BY <1>0, <1>2, <1>3, DurableAssumption DEF Entry, EntryT
<1>5. PICK sv : sv = [of |-> puts, base |-> b, members |-> <<>>]
  OBVIOUS
<1>6. sv \in StreamT
  BY <1>0, <1>2, <1>5 DEF StreamT
<1>7. PICK l : l = line(n, e)
  OBVIOUS
<1>8. l \in LineT /\ <<l>> \in Seq(LineT)
  BY <1>0, <1>2, <1>4, <1>7, LineTypes
<1>9. PICK w : w = LargeWrites(n, sv, l)
  OBVIOUS
<1>10. /\ w \in Seq(WriteT) /\ Len(w) = 3
       /\ w[1] = Stream(n, sv) /\ w[1].to = "stream" /\ w[2].to = "sidecar" /\ w[3] = Line(l)
       /\ w[2] = Sidecar(n, <<l>>)
  <2>1. Stream(n, sv) \in WriteT /\ Sidecar(n, <<l>>) \in WriteT /\ Line(l) \in WriteT
    BY <1>0, <1>6, <1>8, WriteTypes
  <2>2. w = <<Stream(n, sv), Sidecar(n, <<l>>), Line(l)>>
    BY <1>9 DEF LargeWrites
  <2>3. w \in Seq(WriteT) /\ Len(w) = 3 /\ w[1] = Stream(n, sv) /\ w[2] = Sidecar(n, <<l>>) /\ w[3] = Line(l)
    BY <2>1, <2>2
  <2>4. QED
    BY <2>3 DEF Stream, Sidecar
<1>11. todo' = todo \o w
  BY <1>1, <1>3, <1>5, <1>7, <1>9
<1>12. /\ todo' \in Seq(WriteT) /\ Len(todo') = t + 3
       /\ \A k \in 1..(t + 3) : todo'[k] = IF k <= t THEN todo[k] ELSE w[k - t]
  <2>1. todo' \in Seq(WriteT) /\ Len(todo') = t + Len(w)
    BY <1>0, <1>10, <1>11, ConcatProperties
  <2>2. \A k \in 1..(t + Len(w)) : todo'[k] = IF k <= t THEN todo[k] ELSE w[k - t]
    BY <1>0, <1>10, <1>11, ConcatProperties
  <2>3. QED
    BY <2>1, <2>2, <1>10
<1>13. \A k \in 1..t : todo'[k] = todo[k]
  <2>1. \A k \in 1..t : k \in 1..(t + 3) /\ k <= t
    BY <1>0
  <2>2. QED
    BY <2>1, <1>12
<1>14. todo'[t + 1] = w[1] /\ todo'[t + 2] = w[2] /\ todo'[t + 3] = w[3]
  <2>1. ASSUME NEW j \in 1..3
        PROVE  todo'[t + j] = w[j]
    <3>1. PICK k \in 1..(t + 3) : k = t + j
      BY <1>0
    <3>2. ~(k <= t) /\ k - t = j
      BY <3>1, <1>0
    <3>3. QED
      BY <3>1, <3>2, <1>12
  <2>2. QED
    BY <2>1
<1>15. /\ entries' \in Seq(EntryT) /\ Len(entries') = n + 1 /\ entries'[n + 1] = e
       /\ \A j \in 1..n : entries'[j] = entries[j]
  BY <1>0, <1>1, <1>3, <1>4, AppendProperties
<1>16. At(entries', n) = e
  BY <1>15 DEF At
<1>17. ASSUME NEW i \in Ids(entries)
       PROVE  At(entries', i) = At(entries, i)
  <2>1. i + 1 \in 1..n
    BY <1>0 DEF Ids
  <2>2. QED
    BY <2>1, <1>15 DEF At
<1>18. busy' = busy
  BY DEF PutLarge
<1>19. At(entries', n).base = b /\ todo'[t + 1] = Stream(n, [of |-> At(entries', n).of, base |-> At(entries', n).base,
                                                             members |-> <<>>])
  BY <1>4, <1>5, <1>10, <1>14, <1>16
<1>20. QED
  BY <1>0, <1>1, <1>2, <1>4, <1>7, <1>10, <1>12, <1>13, <1>14, <1>15, <1>16, <1>17, <1>18, <1>19

LEMMA TypedPutLarge ==
  ASSUME Typed, PutLarge
  PROVE  Typed'
<1>1. /\ entries' \in Seq(EntryT) /\ Len(entries') = Len(entries) + 1 /\ Len(entries) < MaxLen
      /\ todo' \in Seq(WriteT)
      /\ \A i \in Ids(entries) : At(entries', i) = At(entries, i)
      /\ Earlier(At(entries', Len(entries)).base, Len(entries))
  BY AfterPutLarge
<1>2. pending' = pending /\ index' = index /\ streams' = streams /\ puts' = puts + 1
  BY DEF PutLarge, disk
<1>3. Len(entries) \in Nat /\ MaxLen \in Nat /\ Len(entries') <= MaxLen
  BY <1>1, DurableAssumption DEF Typed
<1>4. /\ \A i \in Ids(entries) : i \in Ids(entries')
      /\ \A i \in Ids(entries') : i \in Ids(entries) \/ i = Len(entries)
  BY <1>1, <1>3 DEF Ids
<1>5. \A i \in Ids(entries') : Earlier(At(entries', i).base, i)
  BY <1>1, <1>4 DEF Typed
<1>6. QED
  BY <1>1, <1>2, <1>3, <1>4, <1>5 DEF Typed

\* Of a small put: the new entry is the last, and the last of the open pack.
LEMMA AfterPutSmall ==
  ASSUME Typed, PutSmall
  PROVE  LET n == Len(entries)
             m == Len(pending)
         IN  /\ n < MaxLen
             /\ entries' \in Seq(EntryT) /\ Len(entries') = n + 1
             /\ \A i \in Ids(entries) : At(entries', i) = At(entries, i)
             /\ At(entries', n).of \in Nat /\ At(entries', n).kind = "small" /\ ~At(entries', n).deleted
             /\ At(entries', n).base = None /\ At(entries', n).at = m
             /\ pending' \in Seq(Nat) /\ Len(pending') = m + 1 /\ pending'[m + 1] = n
             /\ \A k \in 1..m : pending'[k] = pending[k]
<1> DEFINE n == Len(entries)
<1>0. /\ entries \in Seq(EntryT) /\ n \in Nat /\ n < MaxLen /\ MaxLen \in Nat
      /\ pending \in Seq(Nat) /\ puts \in Nat /\ Len(pending) \in Nat
  BY DurableAssumption DEF Typed, PutSmall
<1>1. PICK e : e = Entry(puts, "small", None, Open, Len(pending))
  OBVIOUS
<1>2. e \in EntryT /\ e.of \in Nat /\ e.kind = "small" /\ ~e.deleted /\ e.base = None /\ e.at = Len(pending)
  BY <1>0, <1>1 DEF Entry, EntryT
<1>3. entries' = Append(entries, e) /\ pending' = Append(pending, n)
  BY <1>1 DEF PutSmall
<1>4. /\ entries' \in Seq(EntryT) /\ Len(entries') = n + 1 /\ entries'[n + 1] = e
      /\ \A j \in 1..n : entries'[j] = entries[j]
  BY <1>0, <1>2, <1>3, AppendProperties
<1>5. /\ pending' \in Seq(Nat) /\ Len(pending') = Len(pending) + 1
      /\ pending'[Len(pending) + 1] = n
      /\ \A k \in 1..Len(pending) : pending'[k] = pending[k]
  BY <1>0, <1>3, AppendProperties
<1>6. At(entries', n) = e
  BY <1>4 DEF At
<1>7. ASSUME NEW i \in Ids(entries)
      PROVE  At(entries', i) = At(entries, i)
  <2>1. i + 1 \in 1..n
    BY <1>0 DEF Ids
  <2>2. QED
    BY <2>1, <1>4 DEF At
<1>8. QED
  BY <1>0, <1>2, <1>4, <1>5, <1>6, <1>7

LEMMA TypedPutSmall ==
  ASSUME Typed, PutSmall
  PROVE  Typed'
<1> DEFINE n == Len(entries)
           m == Len(pending)
<1>1. /\ entries' \in Seq(EntryT) /\ Len(entries') = n + 1 /\ n < MaxLen
      /\ \A i \in Ids(entries) : At(entries', i) = At(entries, i)
      /\ At(entries', n).base = None
      /\ pending' \in Seq(Nat) /\ Len(pending') = m + 1 /\ pending'[m + 1] = n
      /\ \A k \in 1..m : pending'[k] = pending[k]
  BY AfterPutSmall
<1>2. todo' = todo /\ index' = index /\ streams' = streams /\ puts' = puts + 1
  BY DEF PutSmall, disk
<1>3. n \in Nat /\ m \in Nat /\ MaxLen \in Nat /\ Len(entries') <= MaxLen
  BY <1>1, DurableAssumption DEF Typed
<1>4. ASSUME NEW k \in 1..(m + 1)
      PROVE  pending'[k] \in 0..n
  <2>1. CASE k \in 1..m
    <3>1. pending[k] \in 0..(n - 1)
      BY <2>1 DEF Typed, Ids
    <3>2. QED
      BY SMTT(40), <2>1, <3>1, <1>1, <1>3
  <2>2. CASE k = m + 1
    BY <2>2, <1>1, <1>3
  <2>3. k \in 1..m \/ k = m + 1
    BY <1>3
  <2>4. QED
    BY <2>1, <2>2, <2>3
<1>5. Ids(entries') = 0..n
  BY <1>1, <1>3 DEF Ids
<1>6. \A i \in Ids(entries') : Earlier(At(entries', i).base, i)
  <2>1. \A i \in Ids(entries') : i \in Ids(entries) \/ i = n
    BY <1>3, <1>5 DEF Ids
  <2>2. QED
    BY <2>1, <1>1 DEF Typed, Earlier
<1>7. QED
  BY <1>1, <1>2, <1>3, <1>4, <1>5, <1>6 DEF Typed

\* Of delete: the entry differs in `deleted` alone, and the deletion is the
\* one line among the writes.
LEMMA AfterDelete ==
  ASSUME Typed, delete
  PROVE  /\ todo = <<>>
         /\ entries' \in Seq(EntryT) /\ Len(entries') = Len(entries)
         /\ todo' \in Seq(WriteT) /\ Len(todo') = 2 /\ todo'[2].to = "sidecar"
         /\ \E id \in Live(entries) :
              /\ At(entries', id) = [At(entries, id) EXCEPT !.deleted = TRUE]
              /\ \A i \in Ids(entries) : i # id => At(entries', i) = At(entries, i)
              /\ todo'[1] = Line(D(id))
              /\ todo'[2] = Sidecar(id, DeletedSidecar(id, At(entries, id))) /\ busy' = "delete"
<1>0. entries \in Seq(EntryT) /\ Len(entries) \in Nat /\ Len(entries) <= MaxLen /\ MaxLen \in Nat
  BY DurableAssumption DEF Typed
<1>1. PICK id \in Live(entries) :
        /\ Own("delete", DeleteWrites(id, At(entries, id)))
        /\ entries' = [entries EXCEPT ![id + 1].deleted = TRUE]
  BY DEF delete
<1>2. id \in Nat /\ id \in 0..(MaxLen - 1) /\ id + 1 \in 1..Len(entries)
  BY <1>0 DEF Live, Ids
<1>3. PICK e \in EntryT : e = At(entries, id) /\ Earlier(e.base, id)
  BY <1>0, <1>1, <1>2 DEF At, Typed, Live
<1>4. D(id) \in LineT /\ line(id, e) \in LineT
  BY <1>2, <1>3, LineTypes
<1>5. DeletedSidecar(id, e) \in Seq(LineT)
  BY <1>4 DEF DeletedSidecar
<1>6. PICK w : w = DeleteWrites(id, e)
  OBVIOUS
<1>7. w \in Seq(WriteT) /\ Len(w) = 2 /\ w[1] = Line(D(id)) /\ w[2].to = "sidecar"
      /\ w[2] = Sidecar(id, DeletedSidecar(id, e))
  <2>1. Line(D(id)) \in WriteT /\ Sidecar(id, DeletedSidecar(id, e)) \in WriteT
    BY <1>2, <1>4, <1>5, WriteTypes
  <2>2. w = <<Line(D(id)), Sidecar(id, DeletedSidecar(id, e))>>
    BY <1>6 DEF DeleteWrites
  <2>3. w \in Seq(WriteT) /\ Len(w) = 2 /\ w[1] = Line(D(id)) /\ w[2] = Sidecar(id, DeletedSidecar(id, e))
    BY <2>1, <2>2
  <2>4. QED
    BY <2>3 DEF Sidecar
<1>8. todo = <<>> /\ todo' = w /\ busy' = "delete"
  BY <1>1, <1>3, <1>6 DEF Own
<1>9. PICK x \in 1..Len(entries) : x = id + 1
  BY <1>2
<1>10. PICK y : y = [entries[x] EXCEPT !.deleted = TRUE]
  OBVIOUS
<1>11. y \in EntryT
  <2>1. PICK z \in EntryT : z = entries[x]
    BY <1>9, <1>0
  <2>2. QED
    BY <2>1, <1>10 DEF EntryT
<1>12. entries' = [entries EXCEPT ![x] = y]
  BY <1>1, <1>9, <1>10
<1>13. /\ entries' \in Seq(EntryT) /\ Len(entries') = Len(entries)
       /\ entries'[x] = y /\ \A j \in 1..Len(entries) : j # x => entries'[j] = entries[j]
  BY <1>11, <1>12, <1>0
<1>14. At(entries', id) = [At(entries, id) EXCEPT !.deleted = TRUE]
  BY <1>9, <1>10, <1>13 DEF At
<1>15. ASSUME NEW i \in Ids(entries), i # id
       PROVE  At(entries', i) = At(entries, i)
  <2>1. i + 1 \in 1..Len(entries) /\ i + 1 # x
    BY <1>0, <1>2, <1>9, <1>15 DEF Ids
  <2>2. QED
    BY <2>1, <1>13 DEF At
<1>16. QED
  BY <1>3, <1>7, <1>8, <1>13, <1>14, <1>15

LEMMA TypedDelete ==
  ASSUME Typed, delete
  PROVE  Typed'
<1>1. entries' \in Seq(EntryT) /\ Len(entries') = Len(entries) /\ todo' \in Seq(WriteT)
  BY AfterDelete
<1>2. pending' = pending /\ index' = index /\ streams' = streams /\ puts' = puts
  BY DEF delete, disk
<1>3. Ids(entries') = Ids(entries)
  BY <1>1 DEF Ids
<1>4. \A i \in Ids(entries) : At(entries', i).base = At(entries, i).base
  <2>1. PICK id \in Live(entries) :
          /\ At(entries', id) = [At(entries, id) EXCEPT !.deleted = TRUE]
          /\ \A i \in Ids(entries) : i # id => At(entries', i) = At(entries, i)
    BY AfterDelete
  <2>2. id \in Ids(entries)
    BY DEF Live
  <2>3. PICK e \in EntryT : e = At(entries, id)
    BY <2>2 DEF Typed, Ids, At
  <2>4. At(entries', id).base = e.base
    BY <2>1, <2>3 DEF EntryT
  <2>5. QED
    BY <2>1, <2>3, <2>4
<1>5. QED
  BY <1>1, <1>2, <1>3, <1>4 DEF Typed

\* Of rebase: the entry, a large one, loses its base alone, and has a line
\* among the writes.
LEMMA AfterRebase ==
  ASSUME Typed, rebase
  PROVE  /\ todo = <<>> /\ busy' = "rebase"
         /\ entries' \in Seq(EntryT) /\ Len(entries') = Len(entries)
         /\ todo' \in Seq(WriteT) /\ Len(todo') = 3
         /\ todo'[1].to = "stream" /\ todo'[3].to = "sidecar"
         /\ \E id \in Live(entries) :
              /\ At(entries, id).kind = "large"
              /\ At(entries', id) = [At(entries, id) EXCEPT !.base = None]
              /\ \A i \in Ids(entries) : i # id => At(entries', i) = At(entries, i)
              /\ todo'[1] = Stream(id, [of |-> At(entries', id).of, base |-> None, members |-> <<>>])
              /\ todo'[2] = Line(line(id, At(entries', id)))
              /\ todo'[3] = Sidecar(id, <<line(id, At(entries', id))>>)
<1>0. entries \in Seq(EntryT) /\ Len(entries) \in Nat /\ Len(entries) <= MaxLen /\ MaxLen \in Nat
  BY DurableAssumption DEF Typed
<1>1. PICK id \in Live(entries) :
        LET e == [At(entries, id) EXCEPT !.base = None]
        IN  /\ e.kind = "large"
            /\ Own("rebase", RebaseWrites(id, [of |-> e.of, base |-> None, members |-> <<>>], line(id, e)))
            /\ entries' = [entries EXCEPT ![id + 1] = e]
  BY DEF rebase
<1>2. id \in Nat /\ id \in 0..(MaxLen - 1) /\ id + 1 \in 1..Len(entries)
  BY <1>0 DEF Live, Ids
<1>3. PICK x \in 1..Len(entries) : x = id + 1
  BY <1>2
<1>4. PICK e : e = [At(entries, id) EXCEPT !.base = None]
  OBVIOUS
<1>5. e \in EntryT /\ e.kind = At(entries, id).kind /\ Earlier(e.base, id)
  <2>1. PICK z \in EntryT : z = At(entries, id)
    BY <1>0, <1>3 DEF At
  <2>2. QED
    BY <1>4, <2>1 DEF EntryT, Earlier
<1>6. PICK sv : sv = [of |-> e.of, base |-> None, members |-> <<>>]
  OBVIOUS
<1>7. sv \in StreamT
  <2>1. e.of \in Nat \cup {None}
    BY <1>5 DEF EntryT
  <2>2. QED
    BY <1>6, <2>1 DEF StreamT
<1>8. PICK l : l = line(id, e)
  OBVIOUS
<1>9. l \in LineT /\ <<l>> \in Seq(LineT)
  BY <1>2, <1>5, <1>8, LineTypes
<1>10. PICK w : w = RebaseWrites(id, sv, l)
  OBVIOUS
<1>11. /\ w \in Seq(WriteT) /\ Len(w) = 3
       /\ w[1] = Stream(id, sv) /\ w[1].to = "stream" /\ w[2] = Line(l) /\ w[3].to = "sidecar"
       /\ w[3] = Sidecar(id, <<l>>)
  <2>1. Stream(id, sv) \in WriteT /\ Sidecar(id, <<l>>) \in WriteT /\ Line(l) \in WriteT
    BY <1>2, <1>7, <1>9, WriteTypes
  <2>2. w = <<Stream(id, sv), Line(l), Sidecar(id, <<l>>)>>
    BY <1>10 DEF RebaseWrites
  <2>3. w \in Seq(WriteT) /\ Len(w) = 3 /\ w[1] = Stream(id, sv) /\ w[2] = Line(l) /\ w[3] = Sidecar(id, <<l>>)
    BY <2>1, <2>2
  <2>4. QED
    BY <2>3 DEF Stream, Sidecar
<1>12. todo = <<>> /\ todo' = w /\ busy' = "rebase"
  BY <1>1, <1>4, <1>6, <1>8, <1>10 DEF Own
<1>13. entries' = [entries EXCEPT ![x] = e]
  BY <1>1, <1>3, <1>4
<1>14. /\ entries' \in Seq(EntryT) /\ Len(entries') = Len(entries)
       /\ entries'[x] = e /\ \A j \in 1..Len(entries) : j # x => entries'[j] = entries[j]
  BY <1>13, <1>5, <1>0
<1>15. At(entries', id) = e
  BY <1>3, <1>14 DEF At
<1>16. ASSUME NEW i \in Ids(entries), i # id
       PROVE  At(entries', i) = At(entries, i)
  <2>1. i + 1 \in 1..Len(entries) /\ i + 1 # x
    BY <1>0, <1>2, <1>3, <1>16 DEF Ids
  <2>2. QED
    BY <2>1, <1>14 DEF At
<1>17. At(entries, id).kind = "large"
  BY <1>1, <1>4, <1>5
<1>18. QED
  BY <1>4, <1>6, <1>8, <1>11, <1>12, <1>14, <1>15, <1>16, <1>17

LEMMA TypedRebase ==
  ASSUME Typed, rebase
  PROVE  Typed'
<1>1. entries' \in Seq(EntryT) /\ Len(entries') = Len(entries) /\ todo' \in Seq(WriteT)
  BY AfterRebase
<1>2. pending' = pending /\ index' = index /\ streams' = streams /\ puts' = puts
  BY DEF rebase, disk
<1>3. Ids(entries') = Ids(entries)
  BY <1>1 DEF Ids
<1>4. \A i \in Ids(entries) : At(entries', i).base = None \/ At(entries', i) = At(entries, i)
  <2>1. PICK id \in Live(entries) :
          /\ At(entries', id) = [At(entries, id) EXCEPT !.base = None]
          /\ \A i \in Ids(entries) : i # id => At(entries', i) = At(entries, i)
    BY AfterRebase
  <2>2. id \in Ids(entries)
    BY DEF Live
  <2>3. PICK e \in EntryT : e = At(entries, id)
    BY <2>2 DEF Typed, Ids, At
  <2>4. At(entries', id).base = None
    BY <2>1, <2>3 DEF EntryT
  <2>5. QED
    BY <2>1, <2>4
<1>5. QED
  BY <1>1, <1>2, <1>3, <1>4 DEF Typed, Earlier

\* Of flush: the packed objects keep all but their pack, and each has one line
\* among the writes, the pack another.
LEMMA AfterFlush ==
  ASSUME Typed, flush
  PROVE  LET n == Len(entries)
             m == Len(pending)
         IN  /\ todo = <<>> /\ m > 0 /\ n < MaxLen /\ busy' = "flush"
             /\ entries' \in Seq(EntryT) /\ Len(entries') = n + 1
             /\ \A i \in Ids(entries) :
                  At(entries', i) = IF IsPending(i) THEN [At(entries, i) EXCEPT !.pack = n] ELSE At(entries, i)
             /\ At(entries', n) = Entry(n, "pack", None, None, 0)
             /\ todo' \in Seq(WriteT) /\ Len(todo') = m + 3
             /\ todo'[1] = Stream(n, [of |-> n, base |-> None,
                                      members |-> [k \in 1..m |-> At(entries, pending[k]).of]])
             /\ todo'[1].to = "stream" /\ todo'[m + 3].to = "sidecar"
             /\ \A k \in 1..m : todo'[k + 1] = Line(line(pending[k], At(entries', pending[k])))
             /\ todo'[m + 2] = Line(line(n, At(entries', n)))
             /\ todo'[m + 3].id = n /\ Len(todo'[m + 3].value) = m + 1
             /\ \A k \in 1..m : todo'[m + 3].value[k] = line(pending[k], At(entries', pending[k]))
             /\ todo'[m + 3].value[m + 1] = line(n, At(entries', n))
<1> DEFINE n == Len(entries)
           m == Len(pending)
<1>0. /\ entries \in Seq(EntryT) /\ n \in Nat /\ n < MaxLen /\ MaxLen \in Nat
      /\ pending \in Seq(Nat) /\ m \in Nat /\ m > 0
      /\ \A k \in 1..m : pending[k] \in 0..(n - 1)
  BY DurableAssumption DEF Typed, Ids, flush
<1>1. PICK e : e = Entry(n, "pack", None, None, 0)
  OBVIOUS
<1>2. e \in EntryT /\ Earlier(e.base, n)
  BY <1>0, <1>1 DEF Entry, EntryT, Earlier
<1>3. PICK packed : packed = [j \in 1..n |-> IF \E k \in 1..m : pending[k] = j - 1
                                            THEN [entries[j] EXCEPT !.pack = n] ELSE entries[j]]
  OBVIOUS
<1>4. PICK lines : lines = [k \in 1..m |-> line(pending[k], packed[pending[k] + 1])]
  OBVIOUS
<1>5. PICK sv : sv = [of |-> n, base |-> None, members |-> [k \in 1..m |-> At(entries, pending[k]).of]]
  OBVIOUS
<1>6. packed \in Seq(EntryT) /\ Len(packed) = n
  <2>1. ASSUME NEW j \in 1..n
        PROVE  packed[j] \in EntryT
    <3>1. PICK z \in EntryT : z = entries[j]
      BY <1>0
    <3>2. [z EXCEPT !.pack = n] \in EntryT
      BY <1>0, DurableAssumption DEF EntryT
    <3>3. QED
      BY <3>1, <3>2, <1>3
  <2>2. packed \in [1..n -> EntryT]
    BY <2>1, <1>3
  <2>3. \A g : g \in [1..n -> EntryT] => g \in Seq(EntryT) /\ Len(g) = n
    BY SMTT(40), <1>0
  <2>4. QED
    BY <2>2, <2>3
<1>7. lines \in Seq(LineT) /\ Len(lines) = m
  <2>1. ASSUME NEW k \in 1..m
        PROVE  lines[k] \in LineT
    <3>1. pending[k] \in 0..(MaxLen - 1) /\ pending[k] + 1 \in 1..n
      BY <1>0
    <3>2. packed[pending[k] + 1] \in EntryT /\ Earlier(packed[pending[k] + 1].base, pending[k])
      <4>1. PICK i \in 0..(n - 1), j \in 1..n : i = pending[k] /\ j = i + 1
        BY <3>1, <1>0
      <4>2. Earlier(entries[j].base, i)
        BY <4>1 DEF Typed, Ids, At
      <4>3. PICK z \in EntryT : z = entries[j]
        BY <1>0
      <4>4. [z EXCEPT !.pack = n].base = z.base
        BY DEF EntryT
      <4>5. packed[j].base = entries[j].base
        BY <4>3, <4>4, <1>3
      <4>6. QED
        BY <4>1, <4>2, <4>5, <1>6
    <3>3. QED
      BY <3>1, <3>2, <1>4, LineTypes
  <2>2. lines \in [1..m -> LineT]
    BY <2>1, <1>4
  <2>3. QED
    BY <2>2, <1>0
<1>8. sv \in StreamT
  <2>1. ASSUME NEW k \in 1..m
        PROVE  At(entries, pending[k]).of \in Nat \cup {None}
    <3>1. pending[k] + 1 \in 1..n
      BY <1>0
    <3>2. entries[pending[k] + 1] \in EntryT
      BY <3>1, <1>0
    <3>3. QED
      BY <3>2 DEF At, EntryT
  <2>2. [k \in 1..m |-> At(entries, pending[k]).of] \in Seq(Nat \cup {None})
    BY <2>1, <1>0
  <2>3. QED
    BY <2>2, <1>0, <1>5 DEF StreamT
<1>9. PICK own : own = line(n, e)
  OBVIOUS
<1>10. own \in LineT
  <2>1. n \in 0..(MaxLen - 1)
    BY <1>0
  <2>2. QED
    BY <2>1, <1>2, <1>9, LineTypes
<1>11. PICK a : a = [k \in 1..m |-> Line(lines[k])]
  OBVIOUS
<1>12. a \in Seq(WriteT) /\ Len(a) = m
  <2>1. \A k \in 1..m : Line(lines[k]) \in WriteT
    BY <1>7, WriteTypes
  <2>2. a \in [1..m -> WriteT]
    BY <2>1, <1>11
  <2>3. QED
    BY <2>2, <1>0
<1>13. PICK s1 : s1 = Stream(n, sv)
  OBVIOUS
<1>14. PICK c : c = Sidecar(n, PackSidecar(lines, own))
  OBVIOUS
<1>15. PICK l : l = Line(own)
  OBVIOUS
<1>16. s1 \in WriteT /\ c \in WriteT /\ l \in WriteT
  <2>1. PackSidecar(lines, own) \in Seq(LineT)
    BY <1>7, <1>10, AppendProperties DEF PackSidecar
  <2>2. QED
    BY <2>1, <1>0, <1>8, <1>10, <1>13, <1>14, <1>15, WriteTypes
<1>17. todo = <<>> /\ todo' = <<s1>> \o a \o <<l, c>> /\ busy' = "flush"
  <2>1. DOMAIN lines = 1..m
    BY <1>4
  <2>2. [k \in 1..Len(lines) |-> Line(lines[k])] = a
    BY <1>7, <1>11
  <2>3. Own("flush", <<Stream(n, sv)>> \o [k \in 1..Len(lines) |-> Line(lines[k])]
                  \o <<Line(own), Sidecar(n, PackSidecar(lines, own))>>)
    <3> DEFINE E1 == Entry(n, "pack", None, None, 0)
               P == [j \in 1..n |-> IF \E k \in 1..m : pending[k] = j - 1
                                   THEN [entries[j] EXCEPT !.pack = n] ELSE entries[j]]
               L == [k \in 1..m |-> line(pending[k], P[pending[k] + 1])]
               V == [of |-> n, base |-> None, members |-> [k \in 1..m |-> At(entries, pending[k]).of]]
    <3>1. Own("flush", <<Stream(n, V)>> \o [k \in 1..Len(L) |-> Line(L[k])]
                  \o <<Line(line(n, E1)), Sidecar(n, PackSidecar(L, line(n, E1)))>>)
      BY DEF flush, PackId
    <3> HIDE DEF E1, P, L, V
    <3>2. P = packed
      BY <1>3 DEF P
    <3>3. L = lines
      BY <3>2, <1>4 DEF L
    <3>4. V = sv /\ E1 = e
      BY <1>1, <1>5 DEF V, E1
    <3>5. QED
      BY <3>1, <3>2, <3>3, <3>4, <1>9
  <2>4. QED
    BY <2>2, <2>3, <1>13, <1>14, <1>15 DEF Own
<1>18. PICK t1 : t1 = <<s1>> \o a
  OBVIOUS
<1>19. /\ t1 \in Seq(WriteT) /\ Len(t1) = m + 1 /\ t1[1] = s1
       /\ \A k \in 1..m : t1[k + 1] = a[k]
  <2>1. <<s1>> \in Seq(WriteT) /\ Len(<<s1>>) = 1 /\ <<s1>>[1] = s1
    BY <1>16
  <2>2. t1 \in Seq(WriteT) /\ Len(t1) = 1 + m
    BY <2>1, <1>12, <1>18, ConcatProperties
  <2>3. \A k \in 1..(1 + m) : t1[k] = IF k <= 1 THEN <<s1>>[k] ELSE a[k - 1]
    BY <2>1, <1>12, <1>18, ConcatProperties
  <2>4. ASSUME NEW k \in 1..m
        PROVE  t1[k + 1] = a[k]
    <3>1. PICK y \in 1..(1 + m) : y = k + 1
      BY <1>0
    <3>2. ~(y <= 1) /\ y - 1 = k
      BY <3>1, <1>0
    <3>3. QED
      BY <3>1, <3>2, <2>3
  <2>5. 1 \in 1..(1 + m)
    BY <1>0
  <2>6. QED
    BY <2>1, <2>2, <2>3, <2>4, <2>5, <1>0
<1>20. /\ todo' \in Seq(WriteT) /\ Len(todo') = m + 3
       /\ \A k \in 1..(m + 1) : todo'[k] = t1[k]
       /\ todo'[m + 2] = l /\ todo'[m + 3] = c
  <2>0. todo' = t1 \o <<l, c>>
    BY <1>17, <1>18
  <2>1. <<l, c>> \in Seq(WriteT) /\ Len(<<l, c>>) = 2 /\ <<l, c>>[1] = l /\ <<l, c>>[2] = c
    BY <1>16
  <2>2. todo' \in Seq(WriteT) /\ Len(todo') = m + 1 + 2
    BY <2>0, <2>1, <1>19, ConcatProperties
  <2>3. \A k \in 1..(m + 1 + 2) : todo'[k] = IF k <= m + 1 THEN t1[k] ELSE <<l, c>>[k - (m + 1)]
    BY <2>0, <2>1, <1>19, ConcatProperties
  <2>4. ASSUME NEW k \in 1..(m + 1)
        PROVE  todo'[k] = t1[k]
    <3>1. k \in 1..(m + 1 + 2) /\ k <= m + 1
      BY <1>0
    <3>2. QED
      BY <3>1, <2>3
  <2>5. m + 2 \in 1..(m + 1 + 2) /\ m + 3 \in 1..(m + 1 + 2)
    BY <1>0
  <2>6. ~(m + 2 <= m + 1) /\ ~(m + 3 <= m + 1) /\ (m + 2) - (m + 1) = 1 /\ (m + 3) - (m + 1) = 2
    BY <1>0
  <2>7. todo'[m + 2] = l /\ todo'[m + 3] = c
    BY <2>1, <2>3, <2>5, <2>6
  <2>8. QED
    BY <2>2, <2>4, <2>7, <1>0
<1>21. entries' = Append(packed, e)
  BY <1>1, <1>3 DEF flush, PackId
<1>22. /\ entries' \in Seq(EntryT) /\ Len(entries') = n + 1 /\ entries'[n + 1] = e
       /\ \A j \in 1..n : entries'[j] = packed[j]
  BY <1>2, <1>6, <1>21, AppendProperties
<1>23. ASSUME NEW i \in Ids(entries)
       PROVE  /\ At(entries', i) = packed[i + 1]
              /\ At(entries', i) = IF IsPending(i) THEN [At(entries, i) EXCEPT !.pack = n] ELSE At(entries, i)
  <2>1. PICK j \in 1..n : j = i + 1 /\ j - 1 = i
    BY <1>0 DEF Ids
  <2>2. entries'[j] = packed[j]
    BY <1>22
  <2>3. packed[j] = IF IsPending(i) THEN [entries[j] EXCEPT !.pack = n] ELSE entries[j]
    BY <2>1, <1>3 DEF IsPending
  <2>4. QED
    BY <2>1, <2>2, <2>3 DEF At
<1>24. At(entries', n) = e
  BY <1>22 DEF At
<1>25. ASSUME NEW k \in 1..m
       PROVE  todo'[k + 1] = Line(line(pending[k], At(entries', pending[k])))
  <2>1. k + 1 \in 1..(m + 1)
    BY <1>0
  <2>2. todo'[k + 1] = a[k]
    BY <2>1, <1>19, <1>20
  <2>3. a[k] = Line(line(pending[k], packed[pending[k] + 1]))
    BY <1>4, <1>7, <1>11
  <2>4. pending[k] \in Ids(entries)
    BY <1>0 DEF Ids
  <2>5. At(entries', pending[k]) = packed[pending[k] + 1]
    BY <2>4, <1>23
  <2>6. QED
    BY <2>2, <2>3, <2>5
<1>26. todo'[1] = s1 /\ todo'[1].to = "stream" /\ todo'[m + 3].to = "sidecar"
  <2>1. 1 \in 1..(m + 1)
    BY <1>0
  <2>2. todo'[1] = s1 /\ todo'[m + 3] = c
    BY <2>1, <1>19, <1>20
  <2>3. QED
    BY <2>2, <1>13, <1>14 DEF Stream, Sidecar
<1>27. todo'[m + 2] = Line(line(n, At(entries', n)))
  BY <1>9, <1>15, <1>20, <1>24
<1>28. /\ todo'[m + 3].id = n /\ Len(todo'[m + 3].value) = m + 1
       /\ \A k \in 1..m : todo'[m + 3].value[k] = line(pending[k], At(entries', pending[k]))
       /\ todo'[m + 3].value[m + 1] = line(n, At(entries', n))
  <2>1. PICK v : v = Append(lines, own)
    OBVIOUS
  <2>2. Len(v) = m + 1 /\ v[m + 1] = own /\ \A k \in 1..m : v[k] = lines[k]
    BY <2>1, <1>7, <1>10, AppendProperties
  <2>3. todo'[m + 3].id = n /\ todo'[m + 3].value = v
    BY <2>1, <1>14, <1>20 DEF Sidecar, PackSidecar
  <2>4. ASSUME NEW k \in 1..m
        PROVE  lines[k] = line(pending[k], At(entries', pending[k]))
    <3>1. pending[k] \in Ids(entries)
      BY <1>0 DEF Ids
    <3>2. At(entries', pending[k]) = packed[pending[k] + 1]
      BY <3>1, <1>23
    <3>3. QED
      BY <3>2, <1>4
  <2>5. QED
    BY <2>2, <2>3, <2>4, <1>9, <1>24
<1>29. QED
  BY <1>0, <1>1, <1>5, <1>13, <1>17, <1>20, <1>22, <1>23, <1>24, <1>25, <1>26, <1>27, <1>28

LEMMA TypedFlush ==
  ASSUME Typed, flush
  PROVE  Typed'
<1>1. /\ entries' \in Seq(EntryT) /\ Len(entries') = Len(entries) + 1 /\ Len(entries) < MaxLen
      /\ todo' \in Seq(WriteT)
  BY AfterFlush
<1>2. pending' = <<>> /\ index' = index /\ streams' = streams /\ puts' = puts
  BY DEF flush, disk
<1>3. pending' \in Seq(Nat) /\ Len(pending') = 0
  BY <1>2
<1>4. Len(entries) \in Nat /\ MaxLen \in Nat /\ Len(entries') <= MaxLen
  BY <1>1, DurableAssumption DEF Typed
<1>5. \A i \in Ids(entries') : Earlier(At(entries', i).base, i)
  <2>1. /\ \A i \in Ids(entries) :
             At(entries', i) = IF IsPending(i) THEN [At(entries, i) EXCEPT !.pack = Len(entries)]
                               ELSE At(entries, i)
        /\ At(entries', Len(entries)) = Entry(Len(entries), "pack", None, None, 0)
    BY AfterFlush
  <2>2. ASSUME NEW i \in Ids(entries)
        PROVE  Earlier(At(entries', i).base, i)
    <3>1. PICK e \in EntryT : e = At(entries, i) /\ Earlier(e.base, i)
      BY DEF Typed, Ids, At
    <3>2. [e EXCEPT !.pack = Len(entries)].base = e.base
      BY DEF EntryT
    <3>3. QED
      BY <3>1, <3>2, <2>1
  <2>3. Earlier(At(entries', Len(entries)).base, Len(entries))
    BY <2>1 DEF Entry, Earlier
  <2>4. \A i \in Ids(entries') : i \in Ids(entries) \/ i = Len(entries)
    BY <1>1, <1>4 DEF Ids
  <2>5. QED
    BY <2>2, <2>3, <2>4
<1>6. QED
  BY <1>1, <1>2, <1>3, <1>4, <1>5 DEF Typed

\* Of compact: no write is a line.
LEMMA AfterCompact ==
  ASSUME Typed, compact
  PROVE  /\ todo = <<>> /\ todo' \in Seq(WriteT)
         /\ \A k \in 1..Len(todo') :
              todo'[k].to = "remove" /\ todo'[k].id \in Ids(entries) /\ todo'[k].id \notin Needed
<1>1. PICK gone : /\ gone = {i \in Ids(entries) : i \notin Needed /\ At(entries, i).pack = None
                                                /\ i \in DOMAIN streams}
                  /\ \E order \in [1..Cardinality(gone) -> gone] :
                       Own("compact", [k \in DOMAIN order |-> Remove(order[k])])
  BY DEF compact
<1>2. PICK order \in [1..Cardinality(gone) -> gone] :
        Own("compact", [k \in DOMAIN order |-> Remove(order[k])])
  BY <1>1
<1>3. gone \subseteq 0..(Len(entries) - 1) /\ gone \subseteq Nat /\ Len(entries) \in Nat
  BY <1>1 DEF Ids, Typed
<1>4. Cardinality(gone) \in Nat
  <2>1. IsFiniteSet(0..(Len(entries) - 1))
    BY <1>3, FS_Interval
  <2>2. IsFiniteSet(gone)
    BY <2>1, <1>3, FS_Subset
  <2>3. QED
    BY <2>2, FS_CardinalityType
<1>5. PICK c \in Nat : c = Cardinality(gone)
  BY <1>4
<1>6. \A k \in 1..c : order[k] \in Nat /\ order[k] \in Ids(entries) /\ order[k] \notin Needed
  BY <1>1, <1>2, <1>3, <1>5
<1>7. todo = <<>> /\ todo' = [k \in 1..c |-> Remove(order[k])]
  BY <1>2, <1>5 DEF Own
<1>8. \A k \in 1..c : Remove(order[k]) \in WriteT /\ Remove(order[k]).to = "remove" /\ Remove(order[k]).id = order[k]
  BY <1>6, WriteTypes DEF Remove
<1>9. todo' \in [1..c -> WriteT]
  BY <1>7, <1>8
<1>10. todo' \in Seq(WriteT) /\ Len(todo') = c
  BY <1>9, <1>5
<1>11. QED
  BY <1>6, <1>7, <1>8, <1>10

LEMMA TypedCompact ==
  ASSUME Typed, compact
  PROVE  Typed'
<1>1. todo' \in Seq(WriteT)
  BY AfterCompact
<1>2. entries' = entries /\ pending' = pending /\ index' = index /\ streams' = streams /\ puts' = puts
  BY DEF compact, memory, disk
<1>3. QED
  BY <1>1, <1>2 DEF Typed

LEMMA TypedWrite ==
  ASSUME Typed, Write
  PROVE  Typed'
<1>1. todo \in Seq(WriteT) /\ todo # <<>> /\ todo' = Tail(todo) /\ index \in Seq(LineT)
  BY DEF Typed, Write
<1>2. Head(todo) = todo[1] /\ 1 \in 1..Len(todo) /\ todo' \in Seq(WriteT)
  BY <1>1, HeadTailProperties
<1>3. index' = IF Head(todo).to = "index" THEN Append(index, Head(todo).value) ELSE index
  BY DEF Write
<1>4. Head(todo).to = "index" => Head(todo).value \in LineT
  BY <1>1, <1>2, WriteLines
<1>5. index' \in Seq(LineT)
  BY <1>1, <1>3, <1>4, AppendProperties
<1>6. entries' = entries /\ pending' = pending /\ puts' = puts
  BY DEF Write, memory
<1>7. \A c \in DOMAIN streams' : streams'[c] \in StreamT
  <2>1. PICK w \in WriteT : w = Head(todo)
    BY <1>1, <1>2
  <2>2. streams' = CASE w.to = "stream" -> With(streams, w.id, w.value)
                     [] w.to = "remove" -> [i \in DOMAIN streams \ {w.id} |-> streams[i]]
                     [] OTHER -> streams
    BY <2>1 DEF Write
  <2>3. CASE w.to = "stream"
    <3>1. w.value \in StreamT
      BY <2>1, <2>3 DEF WriteT
    <3>2. streams' = With(streams, w.id, w.value)
      BY <2>2, <2>3
    <3>3. QED
      BY <3>1, <3>2 DEF With, Typed
  <2>4. CASE w.to = "remove"
    BY <2>2, <2>4 DEF Typed
  <2>5. CASE w.to # "stream" /\ w.to # "remove"
    BY <2>2, <2>5 DEF Typed
  <2>6. QED
    BY <2>3, <2>4, <2>5
<1>8. QED
  BY <1>2, <1>5, <1>6, <1>7 DEF Typed

LEMMA TypedKill ==
  ASSUME Typed, Kill
  PROVE  Typed'
<1>1. entries' = Entries(index) /\ pending' = <<>> /\ todo' = <<>> /\ index' = index /\ puts' = puts
  BY DEF Kill, Opened
<1>2. index \in Seq(LineT)
  BY DEF Typed
<1>3. /\ entries' \in Seq(EntryT) /\ Len(entries') <= MaxLen
      /\ \A i \in Ids(entries') : Earlier(At(entries', i).base, i)
  BY <1>1, <1>2, OpenedEntries, CountCovers
<1>4. pending' \in Seq(Nat) /\ Len(pending') = 0 /\ todo' \in Seq(WriteT)
  BY <1>1
<1>5. \A c \in DOMAIN streams' : streams'[c] \in StreamT
  <2>1. Torn \in StreamT
    BY DEF Torn, StreamT
  <2>2. streams' = streams \/ streams' = With(streams, Head(todo).id, Torn)
    BY DEF Kill
  <2>3. \A c \in DOMAIN streams : streams[c] \in StreamT
    BY DEF Typed
  <2>4. CASE streams' = streams
    BY <2>3, <2>4
  <2>5. CASE streams' = With(streams, Head(todo).id, Torn)
    <3>1. PICK x : x = Head(todo).id
      OBVIOUS
    <3>2. streams' = [i \in DOMAIN streams \cup {x} |-> IF i = x THEN Torn ELSE streams[i]]
      BY <2>5, <3>1 DEF With
    <3>3. QED
      BY <2>1, <2>3, <3>2
  <2>6. QED
    BY <2>2, <2>4, <2>5
<1>6. QED
  BY <1>1, <1>3, <1>4, <1>5 DEF Typed

LEMMA TypedNext ==
  ASSUME Typed, [Next]_vars
  PROVE  Typed'
<1>1. CASE UNCHANGED vars
  BY <1>1 DEF vars, memory, disk, Typed
<1>2. QED
  BY <1>1, TypedWrite, TypedKill, TypedPutLarge, TypedPutSmall, TypedFlush, TypedDelete, TypedCompact,
     TypedRebase DEF Next

-----------------------------------------------------------------------------
(* The lines each action adds to those under way.                          *)

\* A large put's is its entry's.
LEMMA LinesPutLarge ==
  ASSUME Typed, PutLarge
  PROVE  LET n == Len(entries)
             t == Len(todo)
             e == At(entries', n)
             l == line(n, e)
         IN  /\ e.of # None /\ ~e.deleted /\ e.kind = "large"
             /\ l.id = n /\ ~l.delete /\ l.entry = [e EXCEPT !.deleted = FALSE]
             /\ l.entry.of # None /\ ~l.entry.deleted /\ l.entry.of = e.of /\ l.entry.kind = e.kind
             /\ \A k \in 1..Len(todo') :
                  todo'[k].to = "index" => (k \in 1..t /\ todo'[k] = todo[k]) \/ (k = t + 3 /\ todo'[k] = Line(l))
             /\ \A i : DuePut(todo'[t + 3], i) <=> i = n
             /\ \A i : Due(todo', i) <=> Due(todo, i) \/ i = n
             /\ \A i : DueDeletes(todo', i) <=> DueDeletes(todo, i)
<1> DEFINE n == Len(entries)
           t == Len(todo)
<1>1. /\ Len(entries') = n + 1 /\ entries' \in Seq(EntryT)
      /\ At(entries', n).of \in Nat /\ ~At(entries', n).deleted /\ At(entries', n).kind = "large"
      /\ Len(todo') = t + 3
      /\ \A k \in 1..t : todo'[k] = todo[k]
      /\ todo'[t + 1].to = "stream" /\ todo'[t + 2].to = "sidecar"
      /\ todo'[t + 3] = Line(line(n, At(entries', n)))
  BY AfterPutLarge
<1>2. n \in Nat /\ t \in Nat /\ None \notin Nat
  BY DurableAssumption DEF Typed
<1>3. PICK e : e = At(entries', n)
  OBVIOUS
<1>4. PICK l : l = line(n, e)
  OBVIOUS
<1>5. PICK w : w = Line(l)
  OBVIOUS
<1>6. /\ e.of # None /\ ~e.deleted /\ e.kind = "large"
      /\ l.id = n /\ ~l.delete /\ l.entry = [e EXCEPT !.deleted = FALSE]
      /\ l.entry.of # None /\ ~l.entry.deleted /\ l.entry.of = e.of /\ l.entry.kind = e.kind
  <2>1. e \in EntryT
    <3>1. n + 1 \in 1..Len(entries')
      BY <1>1, <1>2
    <3>2. QED
      BY <3>1, <1>1, <1>3 DEF At
  <2>2. e.of # None /\ ~e.deleted /\ e.kind = "large"
    BY <1>1, <1>2, <1>3
  <2>3. QED
    BY <2>1, <2>2, <1>4 DEF line, EntryT
<1>7. w.to = "index" /\ w.value = l /\ todo'[t + 3] = w
  BY <1>1, <1>3, <1>4, <1>5 DEF Line
<1>8. \A k \in 1..Len(todo') :
        todo'[k].to = "index" => (k \in 1..t /\ todo'[k] = todo[k]) \/ (k = t + 3 /\ todo'[k] = w)
  <2>1. ASSUME NEW k \in 1..Len(todo'), todo'[k].to = "index"
        PROVE  (k \in 1..t /\ todo'[k] = todo[k]) \/ (k = t + 3 /\ todo'[k] = w)
    <3>1. k \in 1..t \/ k = t + 1 \/ k = t + 2 \/ k = t + 3
      BY <1>1, <1>2
    <3>2. QED
      BY <3>1, <2>1, <1>1, <1>7
  <2>2. QED
    BY <2>1
<1>9. t + 3 \in 1..Len(todo') /\ \A k \in 1..t : k \in 1..Len(todo')
  BY <1>1, <1>2
<1>10. \A i : (DuePut(w, i) <=> i = n) /\ ~DueDelete(w, i)
  BY <1>6, <1>7 DEF DuePut, IsPut, DueDelete, IsDelete
<1>11. \A i : Due(todo', i) <=> Due(todo, i) \/ i = n
  <2>1. ASSUME NEW i, Due(todo, i)
        PROVE  Due(todo', i)
    BY <2>1, <1>1, <1>9 DEF Due
  <2>2. Due(todo', n)
    BY <1>7, <1>9, <1>10 DEF Due
  <2>3. ASSUME NEW i, Due(todo', i)
        PROVE  Due(todo, i) \/ i = n
    BY <2>3, <1>8, <1>10 DEF Due, DuePut
  <2>4. QED
    BY <2>1, <2>2, <2>3
<1>12. \A i : DueDeletes(todo', i) <=> DueDeletes(todo, i)
  <2>1. ASSUME NEW i, DueDeletes(todo, i)
        PROVE  DueDeletes(todo', i)
    BY <2>1, <1>1, <1>9 DEF DueDeletes
  <2>2. ASSUME NEW i, DueDeletes(todo', i)
        PROVE  DueDeletes(todo, i)
    BY <2>2, <1>8, <1>10 DEF DueDeletes, DueDelete
  <2>3. QED
    BY <2>1, <2>2
<1>13. QED
  BY <1>3, <1>4, <1>5, <1>6, <1>7, <1>8, <1>10, <1>11, <1>12

\* A deletion's is the deletion.
LEMMA LinesDelete ==
  ASSUME Typed, delete,
         NEW id \in Live(entries), todo'[1] = Line(D(id))
  PROVE  /\ \A k \in 1..Len(todo') : todo'[k].to = "index" => todo'[k].value.delete /\ todo'[k].value.id = id
         /\ \A k \in 1..Len(todo') : todo'[k].to \in {"index", "sidecar"}
         /\ \A i : ~Due(todo, i) /\ ~DueDeletes(todo, i) /\ ~Due(todo', i)
         /\ \A i : DueDeletes(todo', i) <=> i = id
<1>1. todo = <<>> /\ Len(todo') = 2 /\ todo'[2].to = "sidecar"
  BY AfterDelete
<1>2. \A k \in 1..Len(todo) : FALSE
  BY <1>1
<1>3. PICK w : w = Line(D(id))
  OBVIOUS
<1>4. w.to = "index" /\ w.value.delete /\ w.value.id = id
  BY <1>3 DEF Line, D
<1>5. /\ 1 \in 1..Len(todo') /\ todo'[1] = w
      /\ \A k \in 1..Len(todo') : (k = 1 /\ todo'[k] = w) \/ todo'[k].to = "sidecar"
  <2>1. \A k \in 1..Len(todo') : k = 1 \/ k = 2
    BY <1>1
  <2>2. QED
    BY <2>1, <1>1, <1>3
<1>6. \A i : ~Due(todo', i) /\ ~Due(todo, i) /\ ~DueDeletes(todo, i)
  BY <1>2, <1>4, <1>5 DEF Due, DuePut, IsPut, DueDeletes
<1>7. \A i : DueDeletes(todo', i) <=> i = id
  BY <1>4, <1>5 DEF DueDeletes, DueDelete, IsDelete
<1>8. QED
  BY <1>4, <1>5, <1>6, <1>7

\* compact adds none.
LEMMA LinesCompact ==
  ASSUME Typed, compact
  PROVE  \A i : ~Due(todo, i) /\ ~DueDeletes(todo, i) /\ ~Due(todo', i) /\ ~DueDeletes(todo', i)
<1>1. todo = <<>> /\ \A k \in 1..Len(todo') : todo'[k].to = "remove"
  BY AfterCompact
<1>2. \A k \in 1..Len(todo) : FALSE
  BY <1>1
<1>3. QED
  BY <1>1, <1>2 DEF Due, DueDeletes, DuePut, DueDelete

\* A rebase's is its entry's.
LEMMA LinesRebase ==
  ASSUME Typed, rebase,
         NEW id \in Ids(entries), todo'[2] = Line(line(id, At(entries', id)))
  PROVE  LET l == line(id, At(entries', id))
         IN  /\ l.id = id /\ ~l.delete /\ l.entry = [At(entries', id) EXCEPT !.deleted = FALSE]
             /\ ~l.entry.deleted /\ l.entry.of = At(entries', id).of /\ l.entry.kind = At(entries', id).kind
             /\ \A k \in 1..Len(todo') : todo'[k].to = "index" => k = 2 /\ todo'[k] = Line(l)
             /\ DuePut(todo'[2], id)
             /\ \A i : ~Due(todo, i) /\ ~DueDeletes(todo, i) /\ ~DueDeletes(todo', i)
             /\ \A i : Due(todo', i) <=> i = id
<1>1. /\ todo = <<>> /\ Len(entries') = Len(entries) /\ entries' \in Seq(EntryT)
      /\ Len(todo') = 3 /\ todo'[1].to = "stream" /\ todo'[3].to = "sidecar"
  BY AfterRebase
<1>2. \A k \in 1..Len(todo) : FALSE
  BY <1>1
<1>3. PICK e : e = At(entries', id)
  OBVIOUS
<1>4. PICK l : l = line(id, e)
  OBVIOUS
<1>5. PICK w : w = Line(l)
  OBVIOUS
<1>6. /\ l.id = id /\ ~l.delete /\ l.entry = [e EXCEPT !.deleted = FALSE]
      /\ ~l.entry.deleted /\ l.entry.of = e.of /\ l.entry.kind = e.kind
  <2>1. e \in EntryT
    <3>1. id + 1 \in 1..Len(entries')
      BY <1>1 DEF Typed, Ids
    <3>2. QED
      BY <3>1, <1>1, <1>3 DEF At
  <2>2. QED
    BY <2>1, <1>4 DEF line, EntryT
<1>7. w.to = "index" /\ w.value = l
  BY <1>5 DEF Line
<1>8. /\ 2 \in 1..Len(todo') /\ todo'[2] = w
      /\ \A k \in 1..Len(todo') : todo'[k].to = "index" => k = 2 /\ todo'[k] = w
  <2>1. \A k \in 1..Len(todo') : k = 1 \/ k = 2 \/ k = 3
    BY <1>1
  <2>2. QED
    BY <2>1, <1>1, <1>3, <1>4, <1>5
<1>9. \A i : (DuePut(w, i) <=> i = id) /\ ~DueDelete(w, i)
  BY <1>6, <1>7 DEF DuePut, IsPut, DueDelete, IsDelete
<1>10. \A i : ~Due(todo, i) /\ ~DueDeletes(todo, i) /\ (Due(todo', i) <=> i = id)
  BY <1>2, <1>8, <1>9 DEF Due, DueDeletes, DuePut
<1>11. \A i : ~DueDeletes(todo', i)
  BY <1>8, <1>9 DEF DueDeletes, DueDelete
<1>12. QED
  BY <1>3, <1>4, <1>5, <1>6, <1>8, <1>9, <1>10, <1>11

\* A flush's are one of each packed object and the pack's.
LEMMA LinesFlush ==
  ASSUME Typed, flush
  PROVE  LET n == Len(entries)
             m == Len(pending)
         IN  /\ Ids(entries') = Ids(entries) \cup {n} /\ n \notin Ids(entries)
             /\ \A i \in Ids(entries) :
                  /\ At(entries', i).of = At(entries, i).of /\ At(entries', i).kind = At(entries, i).kind
                  /\ At(entries', i).base = At(entries, i).base /\ At(entries', i).at = At(entries, i).at
                  /\ At(entries', i).deleted <=> At(entries, i).deleted
                  /\ IsPending(i) => At(entries', i).pack = n
                  /\ ~IsPending(i) => At(entries', i) = At(entries, i)
             /\ At(entries', n).of = n /\ At(entries', n).kind = "pack" /\ ~At(entries', n).deleted
             /\ \A i \in Ids(entries') : \A w :
                  w = Line(line(i, At(entries', i))) =>
                    /\ w.to = "index" /\ w.value.id = i /\ ~w.value.delete
                    /\ w.value.entry = [At(entries', i) EXCEPT !.deleted = FALSE]
                    /\ ~w.value.entry.deleted /\ w.value.entry.of = At(entries', i).of
                    /\ w.value.entry.kind = At(entries', i).kind
             /\ \A k \in 1..Len(todo') :
                  todo'[k].to = "index" =>
                    \E i \in Ids(entries') :
                      /\ todo'[k] = Line(line(i, At(entries', i)))
                      /\ \/ k - 1 \in 1..m /\ i = pending[k - 1] /\ i \in Ids(entries)
                         \/ k = m + 2 /\ i = n
             /\ DuePut(todo'[m + 2], n)
             /\ \A i \in Ids(entries') : Due(todo', i) <=> IsPending(i) \/ i = n
             /\ \A i : ~Due(todo, i) /\ ~DueDeletes(todo, i) /\ ~DueDeletes(todo', i)
<1> DEFINE n == Len(entries)
           m == Len(pending)
<1>1. /\ todo = <<>> /\ Len(entries') = n + 1
      /\ \A i \in Ids(entries) :
           At(entries', i) = IF IsPending(i) THEN [At(entries, i) EXCEPT !.pack = n] ELSE At(entries, i)
      /\ At(entries', n) = Entry(n, "pack", None, None, 0)
      /\ Len(todo') = m + 3
      /\ todo'[1].to = "stream" /\ todo'[m + 3].to = "sidecar"
      /\ \A k \in 1..m : todo'[k + 1] = Line(line(pending[k], At(entries', pending[k])))
      /\ todo'[m + 2] = Line(line(n, At(entries', n)))
      /\ entries' \in Seq(EntryT)
  BY AfterFlush
<1>2. /\ n \in Nat /\ m \in Nat
      /\ \A k \in 1..m : pending[k] \in Ids(entries)
  BY DurableAssumption DEF Typed
<1>3. Ids(entries) = 0..(n - 1) /\ Ids(entries') = 0..n
  BY <1>1, <1>2 DEF Ids
<1>4. Ids(entries') = Ids(entries) \cup {n} /\ n \notin Ids(entries)
  BY <1>2, <1>3
<1>5. \A k \in 1..Len(todo) : FALSE
  BY <1>1
<1>6. \A i \in Ids(entries') : At(entries', i) \in EntryT
  <2>1. \A i \in 0..n : i + 1 \in 1..(n + 1)
    BY <1>2
  <2>2. QED
    BY <2>1, <1>1, <1>3 DEF At
<1>7. ASSUME NEW i \in Ids(entries)
      PROVE  /\ At(entries', i).of = At(entries, i).of /\ At(entries', i).kind = At(entries, i).kind
             /\ At(entries', i).base = At(entries, i).base /\ At(entries', i).at = At(entries, i).at
             /\ At(entries', i).deleted <=> At(entries, i).deleted
             /\ IsPending(i) => At(entries', i).pack = n
             /\ ~IsPending(i) => At(entries', i) = At(entries, i)
  <2>1. PICK e \in EntryT : e = At(entries, i)
    BY DEF Typed, Ids, At
  <2>2. CASE IsPending(i)
    BY <2>1, <2>2, <1>1 DEF EntryT
  <2>3. CASE ~IsPending(i)
    BY <2>1, <2>3, <1>1
  <2>4. QED
    BY <2>2, <2>3
<1>8. At(entries', n).of = n /\ At(entries', n).kind = "pack" /\ ~At(entries', n).deleted
  BY <1>1 DEF Entry
<1>9. \A k \in 1..Len(todo') :
        todo'[k].to = "index" =>
          \/ k - 1 \in 1..m /\ todo'[k] = Line(line(pending[k - 1], At(entries', pending[k - 1])))
          \/ k = m + 2 /\ todo'[k] = Line(line(n, At(entries', n)))
  <2>1. ASSUME NEW k \in 1..Len(todo'), todo'[k].to = "index"
        PROVE  \/ k - 1 \in 1..m /\ todo'[k] = Line(line(pending[k - 1], At(entries', pending[k - 1])))
               \/ k = m + 2 /\ todo'[k] = Line(line(n, At(entries', n)))
    <3>1. k = 1 \/ k - 1 \in 1..m \/ k = m + 2 \/ k = m + 3
      BY <1>1, <1>2
    <3>2. CASE k - 1 \in 1..m
      <4>1. PICK j \in 1..m : j = k - 1
        BY <3>2
      <4>2. k = j + 1
        BY <4>1, <1>2
      <4>3. todo'[k] = Line(line(pending[j], At(entries', pending[j])))
        BY <4>2, <1>1
      <4>4. QED
        BY <3>2, <4>1, <4>3
    <3>3. QED
      BY <3>1, <3>2, <2>1, <1>1
  <2>2. QED
    BY <2>1
<1>10. \A i \in Ids(entries') : \A w :
         w = Line(line(i, At(entries', i))) =>
           /\ w.to = "index" /\ w.value.id = i /\ ~w.value.delete
           /\ w.value.entry = [At(entries', i) EXCEPT !.deleted = FALSE]
           /\ ~w.value.entry.deleted /\ w.value.entry.of = At(entries', i).of
           /\ w.value.entry.kind = At(entries', i).kind
  <2>1. ASSUME NEW i \in Ids(entries'), NEW w, w = Line(line(i, At(entries', i)))
        PROVE  /\ w.to = "index" /\ w.value.id = i /\ ~w.value.delete
               /\ w.value.entry = [At(entries', i) EXCEPT !.deleted = FALSE]
               /\ ~w.value.entry.deleted /\ w.value.entry.of = At(entries', i).of
               /\ w.value.entry.kind = At(entries', i).kind
    <3>1. PICK e \in EntryT : e = At(entries', i)
      BY <1>6
    <3>2. QED
      BY <2>1, <3>1 DEF Line, line, EntryT
  <2>2. QED
    BY <2>1
<1>11. \A k \in 1..Len(todo') :
         todo'[k].to = "index" =>
           \E i \in Ids(entries') :
             /\ todo'[k] = Line(line(i, At(entries', i)))
             /\ \/ k - 1 \in 1..m /\ i = pending[k - 1] /\ i \in Ids(entries)
                \/ k = m + 2 /\ i = n
  <2>1. ASSUME NEW k \in 1..Len(todo'), todo'[k].to = "index"
        PROVE  \E i \in Ids(entries') :
                 /\ todo'[k] = Line(line(i, At(entries', i)))
                 /\ \/ k - 1 \in 1..m /\ i = pending[k - 1] /\ i \in Ids(entries)
                    \/ k = m + 2 /\ i = n
    <3>1. CASE k - 1 \in 1..m /\ todo'[k] = Line(line(pending[k - 1], At(entries', pending[k - 1])))
      <4>1. PICK j \in 1..m : j = k - 1
        BY <3>1
      <4>2. PICK i \in Ids(entries) : i = pending[j]
        BY <1>2
      <4>3. QED
        BY <3>1, <4>1, <4>2, <1>4
    <3>2. CASE k = m + 2 /\ todo'[k] = Line(line(n, At(entries', n)))
      BY <3>2, <1>4
    <3>3. QED
      BY <3>1, <3>2, <2>1, <1>9
  <2>2. QED
    BY <2>1
<1>12. DuePut(todo'[m + 2], n)
  <2>1. n \in Ids(entries')
    BY <1>4
  <2>2. PICK w : w = todo'[m + 2]
    OBVIOUS
  <2>3. w = Line(line(n, At(entries', n)))
    BY <2>2, <1>1
  <2>4. w.to = "index" /\ w.value.id = n /\ ~w.value.delete
    BY ONLY <2>1, <2>3, <1>10
  <2>5. QED
    BY <2>2, <2>4 DEF DuePut, IsPut
<1>13. \A i \in Ids(entries') : Due(todo', i) <=> IsPending(i) \/ i = n
  <2>1. ASSUME NEW i \in Ids(entries'), IsPending(i)
        PROVE  Due(todo', i)
    <3>1. PICK j \in 1..m : pending[j] = i
      BY <2>1 DEF IsPending
    <3>2. PICK k \in 1..Len(todo') : k = j + 1
      BY <1>1, <1>2
    <3>3. todo'[k] = Line(line(i, At(entries', i)))
      BY <3>1, <3>2, <1>1
    <3>4. DuePut(todo'[k], i)
      BY <3>3, <1>10 DEF DuePut, IsPut
    <3>5. QED
      BY <3>4 DEF Due
  <2>2. Due(todo', n)
    <3>1. m + 2 \in 1..Len(todo')
      BY <1>1, <1>2
    <3>2. QED
      BY <3>1, <1>12 DEF Due
  <2>3. ASSUME NEW i \in Ids(entries'), Due(todo', i)
        PROVE  IsPending(i) \/ i = n
    <3>1. PICK k \in 1..Len(todo') : DuePut(todo'[k], i)
      BY <2>3 DEF Due
    <3>2. PICK x \in Ids(entries') :
            /\ todo'[k] = Line(line(x, At(entries', x)))
            /\ (k - 1 \in 1..m /\ x = pending[k - 1]) \/ x = n
      BY <3>1, <1>11 DEF DuePut
    <3>3. x = i
      BY <3>1, <3>2, <1>10 DEF DuePut, IsPut
    <3>4. QED
      BY <3>2, <3>3 DEF IsPending
  <2>4. QED
    BY <2>1, <2>2, <2>3
<1>14. \A i : ~DueDeletes(todo', i) /\ ~Due(todo, i) /\ ~DueDeletes(todo, i)
  <2>1. ASSUME NEW k \in 1..Len(todo'), todo'[k].to = "index"
        PROVE  ~todo'[k].value.delete
    <3>1. PICK i \in Ids(entries') : todo'[k] = Line(line(i, At(entries', i)))
      BY <2>1, <1>11
    <3>2. PICK w : w = todo'[k]
      OBVIOUS
    <3>3. ~w.value.delete
      BY <3>1, <3>2, <1>10
    <3>4. QED
      BY <3>2, <3>3
  <2>2. QED
    BY <2>1, <1>5 DEF DueDeletes, DueDelete, IsDelete, Due
<1>15. QED
  BY <1>4, <1>7, <1>8, <1>10, <1>11, <1>12, <1>13, <1>14

\* A write moves one to the end of the index.
LEMMA LinesWrite ==
  ASSUME Typed, Write, NEW w, w = Head(todo)
  PROVE  LET t == Len(todo)
             n == Len(index)
         IN  /\ w \in WriteT /\ w = todo[1] /\ 1 \in 1..t /\ Len(todo') = t - 1
             /\ \A k \in 1..(t - 1) : k + 1 \in 1..t /\ k + 1 # 1 /\ todo'[k] = todo[k + 1]
             /\ \A k \in 1..t : k = 1 \/ (k - 1 \in 1..(t - 1) /\ todo'[k - 1] = todo[k])
             /\ \A i : Due(todo, i) <=> DuePut(w, i) \/ Due(todo', i)
             /\ \A i : DueDeletes(todo, i) <=> DueDelete(w, i) \/ DueDeletes(todo', i)
             /\ \/ w.to # "index" /\ Len(index') = n
                \/ /\ w.to = "index" /\ Len(index') = n + 1 /\ index'[n + 1] = w.value
                   /\ \A i : (DuePut(w, i) <=> IsPut(w.value, i)) /\ (DueDelete(w, i) <=> IsDelete(w.value, i))
             /\ \A k \in 1..n : k \in 1..Len(index') /\ index'[k] = index[k]
             /\ \A k \in 1..Len(index') : k \in 1..n \/ (k = n + 1 /\ w.to = "index" /\ index'[k] = w.value)
             /\ \A i : Has(index', i) <=> Has(index, i) \/ DuePut(w, i)
             /\ \A i : Deletes(index', i) <=> Deletes(index, i) \/ DueDelete(w, i)
             /\ todo' # <<>> => busy' = busy
<1> DEFINE t == Len(todo)
           n == Len(index)
<1>1. todo \in Seq(WriteT) /\ todo # <<>> /\ todo' = Tail(todo) /\ index \in Seq(LineT)
  BY DEF Typed, Write
<1>2. /\ t \in Nat /\ n \in Nat /\ 1 \in 1..t /\ todo[1] = w /\ w \in WriteT
      /\ Len(todo') = t - 1 /\ todo' \in Seq(WriteT)
      /\ \A k \in 1..(t - 1) : todo'[k] = todo[k + 1]
  BY <1>1, HeadTailProperties
<1>3. \A k \in 1..(t - 1) : k + 1 \in 1..t /\ k + 1 # 1
  BY <1>2
<1>4. \A k \in 1..t : k = 1 \/ (k - 1 \in 1..(t - 1) /\ todo'[k - 1] = todo[k])
  <2>1. ASSUME NEW k \in 1..t, k # 1
        PROVE  k - 1 \in 1..(t - 1) /\ todo'[k - 1] = todo[k]
    <3>1. PICK j \in 1..(t - 1) : j = k - 1 /\ j + 1 = k
      BY <2>1, <1>2
    <3>2. QED
      BY <3>1, <1>2
  <2>2. QED
    BY <2>1
<1>5. index' = IF w.to = "index" THEN Append(index, w.value) ELSE index
  BY DEF Write
<1>6. \A i : Due(todo, i) <=> DuePut(w, i) \/ Due(todo', i)
  BY <1>2, <1>3, <1>4 DEF Due
<1>7. \A i : DueDeletes(todo, i) <=> DueDelete(w, i) \/ DueDeletes(todo', i)
  BY <1>2, <1>3, <1>4 DEF DueDeletes
<1>8. /\ \/ w.to # "index" /\ Len(index') = n
         \/ /\ w.to = "index" /\ Len(index') = n + 1 /\ index'[n + 1] = w.value
            /\ \A i : (DuePut(w, i) <=> IsPut(w.value, i)) /\ (DueDelete(w, i) <=> IsDelete(w.value, i))
      /\ \A k \in 1..n : k \in 1..Len(index') /\ index'[k] = index[k]
  <2>1. CASE w.to # "index"
    BY <2>1, <1>5
  <2>2. CASE w.to = "index"
    <3>1. w.value \in LineT
      BY <2>2, <1>1, <1>2, WriteLines
    <3>2. Len(index') = n + 1 /\ index'[n + 1] = w.value /\ \A k \in 1..n : index'[k] = index[k]
      BY <3>1, <2>2, <1>1, <1>5, AppendProperties
    <3>3. \A k \in 1..n : k \in 1..Len(index')
      BY <3>2, <1>2
    <3>4. QED
      BY <3>2, <3>3, <2>2 DEF DuePut, DueDelete
  <2>3. QED
    BY <2>1, <2>2
<1>9. \A k \in 1..Len(index') : k \in 1..n \/ (k = n + 1 /\ w.to = "index" /\ index'[k] = w.value)
  BY <1>2, <1>8
<1>10. /\ \A i : Has(index', i) <=> Has(index, i) \/ DuePut(w, i)
       /\ \A i : Deletes(index', i) <=> Deletes(index, i) \/ DueDelete(w, i)
  <2>1. ASSUME NEW i
        PROVE  /\ Has(index, i) => Has(index', i)
               /\ Deletes(index, i) => Deletes(index', i)
    BY <1>8 DEF Has, Deletes
  <2>2. ASSUME NEW i
        PROVE  /\ DuePut(w, i) => Has(index', i)
               /\ DueDelete(w, i) => Deletes(index', i)
    <3>1. CASE w.to = "index"
      <4>1. n + 1 \in 1..Len(index') /\ index'[n + 1] = w.value
        BY <3>1, <1>2, <1>8
      <4>2. QED
        BY <4>1 DEF Has, Deletes, DuePut, DueDelete
    <3>2. CASE w.to # "index"
      BY <3>2 DEF DuePut, DueDelete
    <3>3. QED
      BY <3>1, <3>2
  <2>3. ASSUME NEW i
        PROVE  /\ Has(index', i) => Has(index, i) \/ DuePut(w, i)
               /\ Deletes(index', i) => Deletes(index, i) \/ DueDelete(w, i)
    BY <1>8, <1>9 DEF Has, Deletes, DuePut, DueDelete
  <2>4. QED
    BY <2>1, <2>2, <2>3
<1>11. todo' # <<>> => busy' = busy
  BY DEF Write
<1>12. QED
  BY <1>2, <1>3, <1>4, <1>6, <1>7, <1>8, <1>9, <1>10, <1>11

-----------------------------------------------------------------------------
(* What is kept, action by action.                                         *)

\* A line stays about its entry, and current, where the entry stays the same.
LEMMA SameEntry ==
  ASSUME NEW es, NEW fs, NEW l, l.id \in Ids(fs), At(fs, l.id) = At(es, l.id)
  PROVE  /\ About(es, l) => About(fs, l)
         /\ Current(es, l) => Current(fs, l)
BY DEF About, Current

LEMMA KeptPutLarge ==
  ASSUME Typed, Kept, PutLarge
  PROVE  Kept' /\ (Reopens => Reopens')
<1> DEFINE n == Len(entries)
           t == Len(todo)
<1>1. /\ n < MaxLen /\ Len(entries') = n + 1 /\ busy' = busy
      /\ \A i \in Ids(entries) : At(entries', i) = At(entries, i)
      /\ Len(todo') = t + 3
  BY AfterPutLarge
<1>2. index' = index /\ pending' = pending
  BY DEF PutLarge, disk
<1>3. /\ n \in Nat /\ t \in Nat
      /\ \A k \in 1..Len(pending) : pending[k] \in Ids(entries)
  BY DEF Typed
<1>4. Ids(entries) = 0..(n - 1) /\ Ids(entries') = 0..n
  BY <1>1, <1>3 DEF Ids
<1>5. Ids(entries') = Ids(entries) \cup {n} /\ n \notin Ids(entries)
  BY <1>3, <1>4
<1>6. PICK e : e = At(entries', n)
  OBVIOUS
<1>7. PICK l : l = line(n, e)
  OBVIOUS
<1>8. PICK w : w = Line(l)
  OBVIOUS
<1>9. w.to = "index" /\ w.value = l
  BY <1>8 DEF Line
<1>10. /\ e.of # None /\ ~e.deleted
       /\ l.id = n /\ ~l.delete /\ l.entry = [e EXCEPT !.deleted = FALSE]
       /\ l.entry.of # None /\ ~l.entry.deleted /\ l.entry.of = e.of /\ l.entry.kind = e.kind
  BY <1>6, <1>7, LinesPutLarge
<1>11. \A k \in 1..Len(todo') :
         todo'[k].to = "index" => (k \in 1..t /\ todo'[k] = todo[k]) \/ (k = t + 3 /\ todo'[k] = w)
  BY <1>6, <1>7, <1>8, LinesPutLarge
<1>12. \A i : (Due(todo', i) <=> Due(todo, i) \/ i = n) /\ (DueDeletes(todo', i) <=> DueDeletes(todo, i))
  BY LinesPutLarge
\* No put line is about the new id.
<1>13. /\ \A k \in 1..Len(index) : ~index[k].delete => index[k].id \in Ids(entries)
       /\ \A k \in 1..t : todo[k].to = "index" /\ ~todo[k].value.delete => todo[k].value.id \in Ids(entries)
  BY DEF Kept, OfEntries, About
<1>14. ~Has(index, n) /\ ~Due(todo, n)
  BY <1>5, <1>13 DEF Has, Due, IsPut, DuePut
<1>15. OfEntries'
  <2>1. ASSUME NEW k \in 1..Len(index), ~index[k].delete
        PROVE  About(entries', index[k])
    BY <2>1, <1>1, <1>5, <1>13, SameEntry DEF Kept, OfEntries
  <2>2. ASSUME NEW k \in 1..Len(todo'), todo'[k].to = "index", ~todo'[k].value.delete
        PROVE  About(entries', todo'[k].value)
    <3>1. CASE k \in 1..t /\ todo'[k] = todo[k]
      <4>1. About(entries, todo[k].value) /\ todo[k].value.id \in Ids(entries)
        BY <3>1, <2>2, <1>13 DEF Kept, OfEntries
      <4>2. QED
        BY <4>1, <3>1, <1>1, <1>5, SameEntry
    <3>2. CASE todo'[k] = w
      BY <3>2, <1>5, <1>6, <1>9, <1>10 DEF About
    <3>3. QED
      BY <3>1, <3>2, <2>2, <1>11
  <2>3. QED
    BY <2>1, <2>2, <1>2 DEF OfEntries
<1>16. Newest'
  <2>1. ASSUME NEW k \in 1..Len(todo'), todo'[k].to = "index", ~todo'[k].value.delete
        PROVE  Current(entries', todo'[k].value)
    <3>1. CASE k \in 1..t /\ todo'[k] = todo[k]
      <4>1. Current(entries, todo[k].value) /\ todo[k].value.id \in Ids(entries)
        BY <3>1, <2>1, <1>13 DEF Kept, Newest
      <4>2. QED
        BY <4>1, <3>1, <1>1, <1>5, SameEntry
    <3>2. CASE todo'[k] = w
      BY <3>2, <1>6, <1>9, <1>10 DEF Current
    <3>3. QED
      BY <3>1, <3>2, <2>1, <1>11
  <2>2. ASSUME NEW k \in 1..Len(index), IsLast(index, k), ~Due(todo', index[k].id)
        PROVE  Current(entries', index[k])
    <3>1. Current(entries, index[k]) /\ index[k].id \in Ids(entries)
      BY <2>2, <1>12, <1>13 DEF Kept, Newest, IsLast
    <3>2. QED
      BY <3>1, <1>1, <1>5, SameEntry
  <2>3. QED
    BY <2>1, <2>2, <1>2 DEF Newest
<1>17. Deletions'
  <2>1. ASSUME NEW i \in Ids(entries')
        PROVE  /\ At(entries', i).of = None => At(entries', i).deleted
               /\ At(entries', i).deleted => At(entries', i).of = None \/ Deletes(index, i) \/ DueDeletes(todo', i)
    <3>1. CASE i \in Ids(entries)
      BY <3>1, <1>1, <1>12 DEF Kept, Deletions
    <3>2. CASE i = n
      BY <3>2, <1>6, <1>10
    <3>3. QED
      BY <3>1, <3>2, <1>5
  <2>2. QED
    BY <2>1, <1>2 DEF Deletions
<1>18. Written'
  <2>1. ASSUME NEW i \in Ids(entries')
        PROVE  Has(index, i) \/ Due(todo', i) <=> ~IsPending(i) /\ At(entries', i).of # None
    <3>1. CASE i \in Ids(entries)
      BY <3>1, <1>1, <1>5, <1>12 DEF Kept, Written
    <3>2. CASE i = n
      <4>1. ~IsPending(n)
        BY <1>3, <1>5 DEF IsPending
      <4>2. QED
        BY <4>1, <3>2, <1>6, <1>10, <1>12
    <3>3. QED
      BY <3>1, <3>2, <1>5
  <2>2. \A i : IsPending(i)' <=> IsPending(i)
    BY <1>2 DEF IsPending
  <2>3. QED
    BY <2>1, <2>2, <1>2 DEF Written
<1>19. Once'
  <2>1. ASSUME NEW i \in Ids(entries'), Has(index, i), Due(todo', i)
        PROVE  busy' = "rebase" /\ At(entries', i).kind = "large"
    <3>1. i # n
      BY <2>1, <1>14
    <3>2. i \in Ids(entries) /\ Due(todo, i)
      BY <3>1, <2>1, <1>5, <1>12
    <3>3. QED
      BY <3>2, <2>1, <1>1 DEF Kept, Once
  <2>2. ASSUME NEW i \in Ids(entries'), NEW j \in 1..Len(todo'), NEW k \in 1..Len(todo'),
               DuePut(todo'[j], i), DuePut(todo'[k], i)
        PROVE  j = k
    <3>1. \A x \in {j, k} : (x \in 1..t /\ todo'[x] = todo[x]) \/ (x = t + 3 /\ todo'[x] = w)
      BY <2>2, <1>11 DEF DuePut
    <3>2. CASE i \in Ids(entries)
      <4>1. ~DuePut(w, i)
        BY <3>2, <1>5, <1>9, <1>10 DEF DuePut, IsPut
      <4>2. QED
        BY <4>1, <3>1, <3>2, <2>2 DEF Kept, Once
    <3>3. CASE i = n
      <4>1. \A x \in 1..t : ~DuePut(todo[x], n)
        BY <1>14 DEF Due
      <4>2. QED
        BY <4>1, <3>1, <3>3, <2>2
    <3>4. QED
      BY <3>2, <3>3, <1>5
  <2>3. QED
    BY <2>1, <2>2, <1>2 DEF Once
<1>20. Waiting'
  BY <1>1, <1>2, <1>3 DEF Kept, Waiting
<1>21. ASSUME Reopens
       PROVE  Reopens'
  <2>1. ~Deletes(index, n) /\ ~DueDeletes(todo, n)
    BY <1>5, <1>21 DEF Reopens, Deletes, DueDeletes, IsDelete, DueDelete
  <2>2. ASSUME NEW i \in Ids(entries'), Deletes(index, i) \/ DueDeletes(todo', i)
        PROVE  At(entries', i).deleted
    <3>1. i # n /\ i \in Ids(entries) /\ (Deletes(index, i) \/ DueDeletes(todo, i))
      BY <2>1, <2>2, <1>5, <1>12
    <3>2. QED
      BY <3>1, <1>1, <1>21 DEF Reopens
  <2>3. ASSUME NEW k \in 1..Len(todo'), todo'[k].to = "index", todo'[k].value.delete
        PROVE  todo'[k].value.id \in Ids(entries')
    BY <2>3, <1>5, <1>9, <1>10, <1>11, <1>21 DEF Reopens
  <2>4. QED
    BY <2>2, <2>3, <1>2, <1>5, <1>21 DEF Reopens
<1>22. QED
  BY <1>15, <1>16, <1>17, <1>18, <1>19, <1>20, <1>21 DEF Kept

LEMMA KeptPutSmall ==
  ASSUME Typed, Kept, PutSmall
  PROVE  Kept' /\ (Reopens => Reopens')
<1> DEFINE n == Len(entries)
           m == Len(pending)
<1>1. /\ n < MaxLen /\ Len(entries') = n + 1
      /\ \A i \in Ids(entries) : At(entries', i) = At(entries, i)
      /\ At(entries', n).of \in Nat /\ At(entries', n).kind = "small" /\ ~At(entries', n).deleted
      /\ At(entries', n).at = m
      /\ Len(pending') = m + 1 /\ pending'[m + 1] = n
      /\ \A k \in 1..m : pending'[k] = pending[k]
  BY AfterPutSmall
<1>2. index' = index /\ todo' = todo /\ busy' = busy
  BY DEF PutSmall, disk
<1>3. /\ n \in Nat /\ m \in Nat /\ None \notin Nat
      /\ \A k \in 1..m : pending[k] \in Ids(entries)
  BY DurableAssumption DEF Typed
<1>4. Ids(entries) = 0..(n - 1) /\ Ids(entries') = 0..n
  BY <1>1, <1>3 DEF Ids
<1>5. Ids(entries') = Ids(entries) \cup {n} /\ n \notin Ids(entries)
  BY <1>3, <1>4
<1>6. PICK e : e = At(entries', n)
  OBVIOUS
<1>7. e.of # None /\ e.kind = "small" /\ ~e.deleted /\ e.at = m
  BY <1>1, <1>3, <1>6
\* No put line is about the new id.
<1>8. /\ \A k \in 1..Len(index) : ~index[k].delete => index[k].id \in Ids(entries)
      /\ \A k \in 1..Len(todo) : todo[k].to = "index" /\ ~todo[k].value.delete => todo[k].value.id \in Ids(entries)
  BY DEF Kept, OfEntries, About
<1>9. ~Has(index, n) /\ ~Due(todo, n)
  BY <1>5, <1>8 DEF Has, Due, IsPut, DuePut
<1>10. m + 1 \in 1..Len(pending')
       /\ \A k \in 1..Len(pending') : k \in 1..m \/ k = m + 1
  BY <1>1, <1>3
<1>11. \A i : (\E k \in 1..Len(pending') : pending'[k] = i) <=> IsPending(i) \/ i = n
  <2>1. ASSUME NEW i, IsPending(i)
        PROVE  \E k \in 1..Len(pending') : pending'[k] = i
    <3>1. PICK k \in 1..m : pending[k] = i
      BY <2>1 DEF IsPending
    <3>2. k \in 1..Len(pending') /\ pending'[k] = i
      BY <3>1, <1>1, <1>3
    <3>3. QED
      BY <3>2
  <2>2. ASSUME NEW i, NEW k \in 1..Len(pending'), pending'[k] = i
        PROVE  IsPending(i) \/ i = n
    <3>1. CASE k \in 1..m
      BY <3>1, <2>2, <1>1 DEF IsPending
    <3>2. CASE k = m + 1
      BY <3>2, <2>2, <1>1
    <3>3. QED
      BY <3>1, <3>2, <1>10
  <2>3. QED
    BY <2>1, <2>2, <1>1, <1>10
<1>12. OfEntries'
  <2>1. ASSUME NEW k \in 1..Len(index), ~index[k].delete
        PROVE  About(entries', index[k])
    BY <2>1, <1>1, <1>5, <1>8, SameEntry DEF Kept, OfEntries
  <2>2. ASSUME NEW k \in 1..Len(todo), todo[k].to = "index", ~todo[k].value.delete
        PROVE  About(entries', todo[k].value)
    BY <2>2, <1>1, <1>5, <1>8, SameEntry DEF Kept, OfEntries
  <2>3. QED
    BY <2>1, <2>2, <1>2 DEF OfEntries
<1>13. Newest'
  <2>1. ASSUME NEW k \in 1..Len(todo), todo[k].to = "index", ~todo[k].value.delete
        PROVE  Current(entries', todo[k].value)
    BY <2>1, <1>1, <1>5, <1>8, SameEntry DEF Kept, Newest
  <2>2. ASSUME NEW k \in 1..Len(index), IsLast(index, k), ~Due(todo, index[k].id)
        PROVE  Current(entries', index[k])
    <3>1. Current(entries, index[k]) /\ index[k].id \in Ids(entries)
      BY <2>2, <1>8 DEF Kept, Newest, IsLast
    <3>2. QED
      BY <3>1, <1>1, <1>5, SameEntry
  <2>3. QED
    BY <2>1, <2>2, <1>2 DEF Newest
<1>14. Deletions'
  <2>1. ASSUME NEW i \in Ids(entries')
        PROVE  /\ At(entries', i).of = None => At(entries', i).deleted
               /\ At(entries', i).deleted => At(entries', i).of = None \/ Deletes(index, i) \/ DueDeletes(todo, i)
    <3>1. CASE i \in Ids(entries)
      BY <3>1, <1>1 DEF Kept, Deletions
    <3>2. CASE i = n
      BY <3>2, <1>6, <1>7
    <3>3. QED
      BY <3>1, <3>2, <1>5
  <2>2. QED
    BY <2>1, <1>2 DEF Deletions
<1>15. Written'
  <2>1. ASSUME NEW i \in Ids(entries')
        PROVE  Has(index, i) \/ Due(todo, i) <=> ~(IsPending(i) \/ i = n) /\ At(entries', i).of # None
    <3>1. CASE i \in Ids(entries)
      BY <3>1, <1>1, <1>5 DEF Kept, Written
    <3>2. CASE i = n
      BY <3>2, <1>9
    <3>3. QED
      BY <3>1, <3>2, <1>5
  <2>2. QED
    BY <2>1, <1>2, <1>11 DEF Written, IsPending
<1>16. Once'
  <2>1. ASSUME NEW i \in Ids(entries'), Has(index, i), Due(todo, i)
        PROVE  busy = "rebase" /\ At(entries', i).kind = "large"
    <3>1. i \in Ids(entries)
      BY <2>1, <1>5, <1>9
    <3>2. QED
      BY <3>1, <2>1, <1>1 DEF Kept, Once
  <2>2. ASSUME NEW i \in Ids(entries'), NEW j \in 1..Len(todo), NEW k \in 1..Len(todo),
               DuePut(todo[j], i), DuePut(todo[k], i)
        PROVE  j = k
    <3>1. i \in Ids(entries)
      BY <2>2, <1>5, <1>9 DEF Due
    <3>2. QED
      BY <3>1, <2>2 DEF Kept, Once
  <2>3. QED
    BY <2>1, <2>2, <1>2 DEF Once
<1>17. Waiting'
  <2>1. ASSUME NEW k \in 1..Len(pending')
        PROVE  /\ At(entries', pending'[k]).of # None /\ At(entries', pending'[k]).kind = "small"
               /\ At(entries', pending'[k]).at = k - 1
    <3>1. CASE k \in 1..m
      BY <3>1, <1>1, <1>3 DEF Kept, Waiting
    <3>2. CASE k = m + 1
      <4>1. k - 1 = m
        BY <3>2, <1>3
      <4>2. QED
        BY <3>2, <4>1, <1>1, <1>6, <1>7
    <3>3. QED
      BY <3>1, <3>2, <1>10
  <2>2. ASSUME NEW j \in 1..Len(pending'), NEW k \in 1..Len(pending'), pending'[j] = pending'[k]
        PROVE  j = k
    <3>1. \A x \in 1..m : pending'[x] # n
      BY <1>1, <1>3, <1>5
    <3>2. QED
      BY <2>2, <3>1, <1>1, <1>10 DEF Kept, Waiting
  <2>3. QED
    BY <2>1, <2>2 DEF Waiting
<1>18. ASSUME Reopens
       PROVE  Reopens'
  <2>1. ~Deletes(index, n) /\ ~DueDeletes(todo, n)
    BY <1>5, <1>18 DEF Reopens, Deletes, DueDeletes, IsDelete, DueDelete
  <2>2. ASSUME NEW i \in Ids(entries'), Deletes(index, i) \/ DueDeletes(todo, i)
        PROVE  At(entries', i).deleted
    <3>1. i \in Ids(entries)
      BY <2>1, <2>2, <1>5
    <3>2. QED
      BY <3>1, <2>2, <1>1, <1>18 DEF Reopens
  <2>3. QED
    BY <2>2, <1>2, <1>5, <1>18 DEF Reopens
<1>19. QED
  BY <1>12, <1>13, <1>14, <1>15, <1>16, <1>17, <1>18 DEF Kept

LEMMA KeptDelete ==
  ASSUME Typed, Kept, delete
  PROVE  Kept' /\ (Reopens => Reopens')
<1>1. Len(entries') = Len(entries)
  BY AfterDelete
<1>2. PICK id \in Live(entries) :
        /\ At(entries', id) = [At(entries, id) EXCEPT !.deleted = TRUE]
        /\ \A i \in Ids(entries) : i # id => At(entries', i) = At(entries, i)
        /\ todo'[1] = Line(D(id))
  BY AfterDelete
<1>3. index' = index /\ pending' = pending
  BY DEF delete, disk
<1>4. Ids(entries') = Ids(entries) /\ id \in Ids(entries)
  BY <1>1, <1>2 DEF Ids, Live
<1>5. ASSUME NEW i \in Ids(entries)
      PROVE  /\ At(entries', i).of = At(entries, i).of
             /\ At(entries', i).kind = At(entries, i).kind
             /\ At(entries', i).at = At(entries, i).at
             /\ [At(entries', i) EXCEPT !.deleted = FALSE] = [At(entries, i) EXCEPT !.deleted = FALSE]
             /\ At(entries', i).deleted <=> At(entries, i).deleted \/ i = id
  <2>1. PICK e \in EntryT : e = At(entries, i)
    BY DEF Typed, Ids, At
  <2>2. CASE i = id
    BY <2>1, <2>2, <1>2 DEF EntryT
  <2>3. CASE i # id
    BY <2>1, <2>3, <1>2
  <2>4. QED
    BY <2>2, <2>3
<1>6. /\ \A k \in 1..Len(todo') : todo'[k].to = "index" => todo'[k].value.delete /\ todo'[k].value.id = id
      /\ \A i : ~Due(todo, i) /\ ~DueDeletes(todo, i) /\ ~Due(todo', i)
      /\ \A i : DueDeletes(todo', i) <=> i = id
  BY <1>2, LinesDelete
<1>7. \A l : /\ About(entries, l) => About(entries', l)
             /\ l.id \in Ids(entries) /\ Current(entries, l) => Current(entries', l)
  BY <1>4, <1>5 DEF About, Current
<1>8. OfEntries'
  BY <1>3, <1>6, <1>7 DEF Kept, OfEntries
<1>9. Newest'
  <2>1. ASSUME NEW k \in 1..Len(index), IsLast(index, k)
        PROVE  Current(entries', index[k])
    <3>1. Current(entries, index[k]) /\ index[k].id \in Ids(entries)
      BY <2>1, <1>6 DEF Kept, Newest, OfEntries, About, IsLast
    <3>2. QED
      BY <3>1, <1>7
  <2>2. QED
    BY <2>1, <1>3, <1>6 DEF Newest
<1>10. Deletions'
  <2>1. ASSUME NEW i \in Ids(entries)
        PROVE  /\ At(entries', i).of = None => At(entries', i).deleted
               /\ At(entries', i).deleted => At(entries', i).of = None \/ Deletes(index, i) \/ DueDeletes(todo', i)
    BY <1>5, <1>6 DEF Kept, Deletions
  <2>2. QED
    BY <2>1, <1>3, <1>4 DEF Deletions
<1>11. Written'
  <2>1. ASSUME NEW i \in Ids(entries)
        PROVE  Has(index, i) \/ Due(todo', i) <=> ~IsPending(i) /\ At(entries', i).of # None
    BY <1>5, <1>6 DEF Kept, Written
  <2>2. \A i : IsPending(i)' <=> IsPending(i)
    BY <1>3 DEF IsPending
  <2>3. QED
    BY <2>1, <2>2, <1>3, <1>4 DEF Written
<1>12. Once'
  <2>1. \A i, k : ~(k \in 1..Len(todo') /\ DuePut(todo'[k], i))
    BY <1>6 DEF Due
  <2>2. QED
    BY <2>1, <1>6 DEF Once
<1>13. Waiting'
  BY <1>3, <1>5 DEF Kept, Waiting, Typed
<1>14. ASSUME Reopens
       PROVE  Reopens'
  <2>1. ASSUME NEW i \in Ids(entries), Deletes(index, i) \/ DueDeletes(todo', i)
        PROVE  At(entries', i).deleted
    BY <2>1, <1>5, <1>6, <1>14 DEF Reopens
  <2>2. QED
    BY <2>1, <1>3, <1>4, <1>6, <1>14 DEF Reopens
<1>15. QED
  BY <1>8, <1>9, <1>10, <1>11, <1>12, <1>13, <1>14 DEF Kept

LEMMA KeptCompact ==
  ASSUME Typed, Kept, compact
  PROVE  Kept' /\ (Reopens => Reopens')
<1>1. todo = <<>> /\ \A k \in 1..Len(todo') : todo'[k].to = "remove"
  BY AfterCompact
<1>2. entries' = entries /\ pending' = pending /\ index' = index
  BY DEF compact, memory, disk
<1>3. \A i : ~Due(todo, i) /\ ~DueDeletes(todo, i) /\ ~Due(todo', i) /\ ~DueDeletes(todo', i)
  BY LinesCompact
<1>4. \A i, k : ~(k \in 1..Len(todo') /\ DuePut(todo'[k], i))
  BY <1>3 DEF Due
<1>5. OfEntries' /\ Newest'
  BY <1>1, <1>2, <1>3 DEF Kept, OfEntries, Newest
<1>6. Deletions' /\ Waiting'
  BY <1>2, <1>3 DEF Kept, Deletions, Waiting
<1>7. Written'
  BY <1>2, <1>3 DEF Kept, Written, IsPending
<1>8. Once'
  BY <1>3, <1>4 DEF Once
<1>9. Reopens => Reopens'
  BY <1>1, <1>2, <1>3 DEF Reopens
<1>10. QED
  BY <1>5, <1>6, <1>7, <1>8, <1>9 DEF Kept

LEMMA KeptRebase ==
  ASSUME Typed, Kept, rebase
  PROVE  Kept' /\ (Reopens => Reopens')
<1>1. busy' = "rebase" /\ Len(entries') = Len(entries)
  BY AfterRebase
<1>2. PICK id \in Live(entries) :
        /\ At(entries, id).kind = "large"
        /\ At(entries', id) = [At(entries, id) EXCEPT !.base = None]
        /\ \A i \in Ids(entries) : i # id => At(entries', i) = At(entries, i)
        /\ todo'[2] = Line(line(id, At(entries', id)))
  BY AfterRebase
<1>3. index' = index /\ pending' = pending
  BY DEF rebase, disk
<1>4. Ids(entries') = Ids(entries) /\ id \in Ids(entries) /\ ~At(entries, id).deleted
  BY <1>1, <1>2 DEF Ids, Live
<1>5. ASSUME NEW i \in Ids(entries)
      PROVE  /\ At(entries', i).of = At(entries, i).of
             /\ At(entries', i).kind = At(entries, i).kind
             /\ At(entries', i).at = At(entries, i).at
             /\ At(entries', i).deleted <=> At(entries, i).deleted
  <2>1. PICK e \in EntryT : e = At(entries, i)
    BY DEF Typed, Ids, At
  <2>2. CASE i = id
    BY <2>1, <2>2, <1>2 DEF EntryT
  <2>3. CASE i # id
    BY <2>1, <2>3, <1>2
  <2>4. QED
    BY <2>2, <2>3
<1>6. PICK e : e = At(entries', id)
  OBVIOUS
<1>7. PICK l : l = line(id, e)
  OBVIOUS
<1>8. PICK w : w = Line(l)
  OBVIOUS
<1>9. w.to = "index" /\ w.value = l
  BY <1>8 DEF Line
<1>10. At(entries, id).of # None
  BY <1>4 DEF Kept, Deletions
<1>11. /\ l.id = id /\ ~l.delete /\ l.entry = [e EXCEPT !.deleted = FALSE]
       /\ l.entry.of # None /\ ~l.entry.deleted /\ l.entry.of = e.of /\ l.entry.kind = e.kind
  <2>1. e.of # None
    BY <1>4, <1>5, <1>6, <1>10
  <2>2. QED
    BY <2>1, <1>2, <1>4, <1>6, <1>7, LinesRebase
<1>12. \A k \in 1..Len(todo') : todo'[k].to = "index" => k = 2 /\ todo'[k] = w
  BY <1>2, <1>4, <1>6, <1>7, <1>8, LinesRebase
<1>13. \A i : ~Due(todo, i) /\ ~DueDeletes(todo, i) /\ ~DueDeletes(todo', i) /\ (Due(todo', i) <=> i = id)
  BY <1>2, <1>4, LinesRebase
<1>14. ~IsPending(id)
  BY <1>2 DEF IsPending, Kept, Waiting
<1>15. OfEntries'
  <2>1. About(entries', w.value)
    BY <1>4, <1>6, <1>9, <1>11 DEF About
  <2>2. \A l1 : About(entries, l1) => About(entries', l1)
    BY <1>4, <1>5 DEF About
  <2>3. QED
    BY <2>1, <2>2, <1>3, <1>12 DEF Kept, OfEntries
<1>16. Newest'
  <2>1. Current(entries', w.value)
    BY <1>6, <1>9, <1>11 DEF Current
  <2>2. ASSUME NEW k \in 1..Len(index), IsLast(index, k), ~Due(todo', index[k].id)
        PROVE  Current(entries', index[k])
    <3>1. Current(entries, index[k]) /\ index[k].id \in Ids(entries)
      BY <2>2, <1>13 DEF Kept, Newest, OfEntries, About, IsLast
    <3>2. index[k].id # id
      BY <2>2, <1>13
    <3>3. QED
      BY <3>1, <3>2, <1>2 DEF Current
  <2>3. QED
    BY <2>1, <2>2, <1>3, <1>12 DEF Newest
<1>17. Deletions'
  <2>1. ASSUME NEW i \in Ids(entries)
        PROVE  /\ At(entries', i).of = None => At(entries', i).deleted
               /\ At(entries', i).deleted => At(entries', i).of = None \/ Deletes(index, i) \/ DueDeletes(todo', i)
    BY <1>5, <1>13 DEF Kept, Deletions
  <2>2. QED
    BY <2>1, <1>3, <1>4 DEF Deletions
<1>18. Written'
  <2>1. ASSUME NEW i \in Ids(entries)
        PROVE  Has(index, i) \/ Due(todo', i) <=> ~IsPending(i) /\ At(entries', i).of # None
    <3>1. CASE i = id
      BY <3>1, <1>5, <1>10, <1>13, <1>14
    <3>2. CASE i # id
      BY <3>2, <1>5, <1>13 DEF Kept, Written
    <3>3. QED
      BY <3>1, <3>2
  <2>2. \A i : IsPending(i)' <=> IsPending(i)
    BY <1>3 DEF IsPending
  <2>3. QED
    BY <2>1, <2>2, <1>3, <1>4 DEF Written
<1>19. Once'
  <2>1. \A i, k : k \in 1..Len(todo') /\ DuePut(todo'[k], i) => k = 2
    BY <1>12 DEF DuePut
  <2>2. ASSUME NEW i \in Ids(entries), Due(todo', i)
        PROVE  At(entries', i).kind = "large"
    BY <2>2, <1>2, <1>5, <1>13
  <2>3. QED
    BY <2>1, <2>2, <1>1, <1>4 DEF Once
<1>20. Waiting'
  BY <1>3, <1>5 DEF Kept, Waiting, Typed
<1>21. ASSUME Reopens
       PROVE  Reopens'
  <2>1. ASSUME NEW i \in Ids(entries), Deletes(index, i) \/ DueDeletes(todo', i)
        PROVE  At(entries', i).deleted
    BY <2>1, <1>5, <1>13, <1>21 DEF Reopens
  <2>2. \A k \in 1..Len(todo') : todo'[k].to = "index" => ~todo'[k].value.delete
    BY <1>9, <1>11, <1>12
  <2>3. QED
    BY <2>1, <2>2, <1>3, <1>4, <1>21 DEF Reopens
<1>22. QED
  BY <1>15, <1>16, <1>17, <1>18, <1>19, <1>20, <1>21 DEF Kept

\* Of flush: the packed objects had no line, the others keep theirs.
LEMMA KeptFlush ==
  ASSUME Typed, Kept, flush
  PROVE  Kept' /\ (Reopens => Reopens')
<1> DEFINE n == Len(entries)
           m == Len(pending)
<1>1. Ids(entries') = Ids(entries) \cup {n} /\ n \notin Ids(entries)
  BY LinesFlush
<1>2. index' = index /\ pending' = <<>> /\ Len(todo') = m + 3
  BY AfterFlush DEF flush, disk
<1>3. n \in Nat /\ m \in Nat /\ None \notin Nat
      /\ \A k \in 1..m : pending[k] \in Ids(entries)
  BY DurableAssumption DEF Typed
<1>4. ASSUME NEW i \in Ids(entries)
      PROVE  /\ At(entries', i).of = At(entries, i).of
             /\ At(entries', i).kind = At(entries, i).kind
             /\ At(entries', i).deleted <=> At(entries, i).deleted
             /\ ~IsPending(i) => At(entries', i) = At(entries, i)
  BY LinesFlush
<1>5. At(entries', n).of = n /\ ~At(entries', n).deleted
  BY LinesFlush
<1>6. \A i \in Ids(entries') : \A w :
        w = Line(line(i, At(entries', i))) =>
          /\ w.to = "index" /\ w.value.id = i /\ ~w.value.delete
          /\ w.value.entry = [At(entries', i) EXCEPT !.deleted = FALSE]
          /\ ~w.value.entry.deleted /\ w.value.entry.of = At(entries', i).of
          /\ w.value.entry.kind = At(entries', i).kind
  BY LinesFlush
<1>7. \A k \in 1..Len(todo') :
        todo'[k].to = "index" =>
          \E i \in Ids(entries') :
            /\ todo'[k] = Line(line(i, At(entries', i)))
            /\ \/ k - 1 \in 1..m /\ i = pending[k - 1] /\ i \in Ids(entries)
               \/ k = m + 2 /\ i = n
  BY LinesFlush
<1>8. \A i \in Ids(entries') : Due(todo', i) <=> IsPending(i) \/ i = n
  BY LinesFlush
<1>9. \A i : ~Due(todo, i) /\ ~DueDeletes(todo, i) /\ ~DueDeletes(todo', i)
  BY LinesFlush
<1>10. /\ \A k \in 1..Len(index) : ~index[k].delete => index[k].id \in Ids(entries)
       /\ ~Has(index, n)
  <2>1. \A k \in 1..Len(index) : ~index[k].delete => index[k].id \in Ids(entries)
    BY DEF Kept, OfEntries, About
  <2>2. QED
    BY <2>1, <1>1 DEF Has, IsPut
<1>11. OfEntries'
  <2>1. ASSUME NEW k \in 1..Len(index), ~index[k].delete
        PROVE  About(entries', index[k])
    <3>1. About(entries, index[k]) /\ index[k].id \in Ids(entries)
      BY <2>1, <1>10 DEF Kept, OfEntries
    <3>2. QED
      BY <3>1, <1>1, <1>4 DEF About
  <2>2. ASSUME NEW k \in 1..Len(todo'), todo'[k].to = "index"
        PROVE  About(entries', todo'[k].value)
    <3>1. PICK i \in Ids(entries') :
            /\ todo'[k] = Line(line(i, At(entries', i)))
            /\ \/ k - 1 \in 1..m /\ i = pending[k - 1] /\ i \in Ids(entries)
               \/ i = n
      BY <2>2, <1>7
    <3>2. At(entries', i).of # None
      <4>1. CASE k - 1 \in 1..m /\ i = pending[k - 1] /\ i \in Ids(entries)
        <5>1. PICK j \in 1..m : i = pending[j]
          BY <4>1
        <5>2. At(entries, i).of # None
          BY <5>1 DEF Kept, Waiting
        <5>3. QED
          BY <5>2, <4>1, <1>4
      <4>2. CASE i = n
        BY <4>2, <1>3, <1>5
      <4>3. QED
        BY <3>1, <4>1, <4>2
    <3>3. PICK w : w = todo'[k]
      OBVIOUS
    <3>4. /\ w.value.id = i /\ ~w.value.entry.deleted
          /\ w.value.entry.of = At(entries', i).of /\ w.value.entry.kind = At(entries', i).kind
      BY <3>1, <3>3, <1>6
    <3>5. QED
      BY <3>2, <3>3, <3>4 DEF About
  <2>3. QED
    BY <2>1, <2>2, <1>2 DEF OfEntries
<1>12. Newest'
  <2>1. ASSUME NEW k \in 1..Len(todo'), todo'[k].to = "index", ~todo'[k].value.delete
        PROVE  Current(entries', todo'[k].value)
    <3>1. PICK i \in Ids(entries') : todo'[k] = Line(line(i, At(entries', i)))
      BY <2>1, <1>7
    <3>2. PICK w : w = todo'[k]
      OBVIOUS
    <3>3. w.value.id = i /\ w.value.entry = [At(entries', i) EXCEPT !.deleted = FALSE]
      BY <3>1, <3>2, <1>6
    <3>4. QED
      BY <3>2, <3>3 DEF Current
  <2>2. ASSUME NEW k \in 1..Len(index), IsLast(index, k), ~Due(todo', index[k].id)
        PROVE  Current(entries', index[k])
    <3>1. Current(entries, index[k]) /\ index[k].id \in Ids(entries)
      BY <2>2, <1>9, <1>10 DEF Kept, Newest, IsLast
    <3>2. ~IsPending(index[k].id)
      BY <2>2, <3>1, <1>1, <1>8
    <3>3. QED
      BY <3>1, <3>2, <1>4 DEF Current
  <2>3. QED
    BY <2>1, <2>2, <1>2 DEF Newest
<1>13. Deletions'
  <2>1. ASSUME NEW i \in Ids(entries')
        PROVE  /\ At(entries', i).of = None => At(entries', i).deleted
               /\ At(entries', i).deleted => At(entries', i).of = None \/ Deletes(index, i) \/ DueDeletes(todo', i)
    <3>1. CASE i \in Ids(entries)
      BY <3>1, <1>4, <1>9 DEF Kept, Deletions
    <3>2. CASE i = n
      BY <3>2, <1>3, <1>5
    <3>3. QED
      BY <3>1, <3>2, <1>1
  <2>2. QED
    BY <2>1, <1>2 DEF Deletions
<1>14. Written'
  <2>1. ASSUME NEW i \in Ids(entries')
        PROVE  Has(index, i) \/ Due(todo', i) <=> At(entries', i).of # None
    <3>1. CASE i \in Ids(entries)
      <4>1. CASE IsPending(i)
        <5>1. At(entries, i).of # None
          BY <4>1 DEF IsPending, Kept, Waiting
        <5>2. QED
          BY <5>1, <4>1, <3>1, <1>4, <1>8
      <4>2. CASE ~IsPending(i)
        BY <4>2, <3>1, <1>1, <1>4, <1>8, <1>9 DEF Kept, Written
      <4>3. QED
        BY <4>1, <4>2
    <3>2. CASE i = n
      BY <3>2, <1>3, <1>5, <1>8
    <3>3. QED
      BY <3>1, <3>2, <1>1
  <2>2. \A k \in 1..Len(pending') : FALSE
    BY <1>2
  <2>3. QED
    BY <2>1, <2>2, <1>2 DEF Written, IsPending
<1>15. Once'
  <2>1. ASSUME NEW i \in Ids(entries'), Has(index, i), Due(todo', i)
        PROVE  FALSE
    <3>1. CASE i = n
      BY <3>1, <2>1, <1>10
    <3>2. CASE i \in Ids(entries) /\ IsPending(i)
      BY <3>2, <2>1 DEF Kept, Written
    <3>3. CASE i \in Ids(entries) /\ ~IsPending(i)
      BY <3>3, <2>1, <1>1, <1>8
    <3>4. QED
      BY <3>1, <3>2, <3>3, <1>1
  <2>2. ASSUME NEW i \in Ids(entries'), NEW j \in 1..Len(todo'), NEW k \in 1..Len(todo'),
               DuePut(todo'[j], i), DuePut(todo'[k], i)
        PROVE  j = k
    <3>1. \A y \in {j, k} :
            \/ y - 1 \in 1..m /\ i = pending[y - 1] /\ i \in Ids(entries)
            \/ y = m + 2 /\ i = n
      <4>1. ASSUME NEW y \in {j, k}
            PROVE  \/ y - 1 \in 1..m /\ i = pending[y - 1] /\ i \in Ids(entries)
                   \/ y = m + 2 /\ i = n
        <5>1. PICK x \in Ids(entries') :
                /\ todo'[y] = Line(line(x, At(entries', x)))
                /\ \/ y - 1 \in 1..m /\ x = pending[y - 1] /\ x \in Ids(entries)
                   \/ y = m + 2 /\ x = n
          BY <2>2, <1>7 DEF DuePut
        <5>2. PICK w : w = todo'[y]
          OBVIOUS
        <5>3. w.value.id = x
          BY <5>1, <5>2, <1>6
        <5>4. w.value.id = i
          BY <2>2, <5>2 DEF DuePut, IsPut
        <5>5. QED
          BY <5>1, <5>3, <5>4
      <4>2. QED
        BY <4>1
    <3>2. CASE i = n
      BY <3>1, <3>2, <1>1
    <3>3. CASE i # n
      <4>1. j - 1 \in 1..m /\ k - 1 \in 1..m /\ pending[j - 1] = pending[k - 1]
        BY <3>1, <3>3
      <4>2. j - 1 = k - 1
        BY <4>1 DEF Kept, Waiting
      <4>3. QED
        BY <4>2, <1>2, <1>3
    <3>4. QED
      BY <3>2, <3>3
  <2>3. QED
    BY <2>1, <2>2, <1>2 DEF Once
<1>16. Waiting'
  <2>1. \A k \in 1..Len(pending') : FALSE
    BY <1>2
  <2>2. QED
    BY <2>1 DEF Waiting
<1>17. ASSUME Reopens
       PROVE  Reopens'
  <2>1. ~Deletes(index, n)
    BY <1>1, <1>17 DEF Reopens, Deletes, IsDelete
  <2>2. ASSUME NEW i \in Ids(entries'), Deletes(index, i) \/ DueDeletes(todo', i)
        PROVE  At(entries', i).deleted
    BY <2>1, <2>2, <1>1, <1>4, <1>9, <1>17 DEF Reopens
  <2>3. ASSUME NEW k \in 1..Len(todo'), todo'[k].to = "index"
        PROVE  ~todo'[k].value.delete
    <3>1. PICK i \in Ids(entries') : todo'[k] = Line(line(i, At(entries', i)))
      BY <2>3, <1>7
    <3>2. PICK w : w = todo'[k]
      OBVIOUS
    <3>3. QED
      BY <3>1, <3>2, <1>6
  <2>4. QED
    BY <2>2, <2>3, <1>1, <1>2, <1>17 DEF Reopens
<1>18. QED
  BY <1>11, <1>12, <1>13, <1>14, <1>15, <1>16, <1>17 DEF Kept

\* Of a write: a line moves from those under way to the end of the index.
LEMMA KeptWrite ==
  ASSUME Typed, Kept, Write
  PROVE  Kept' /\ (Reopens => Reopens')
<1> DEFINE t == Len(todo)
           n == Len(index)
<1>1. PICK w : w = Head(todo)
  OBVIOUS
<1>2. /\ w = todo[1] /\ 1 \in 1..t /\ Len(todo') = t - 1
      /\ \A k \in 1..(t - 1) : k + 1 \in 1..t /\ k + 1 # 1 /\ todo'[k] = todo[k + 1]
  BY <1>1, LinesWrite
<1>3. /\ \A i : Due(todo, i) <=> DuePut(w, i) \/ Due(todo', i)
      /\ \A i : DueDeletes(todo, i) <=> DueDelete(w, i) \/ DueDeletes(todo', i)
  BY <1>1, LinesWrite
<1>4. \/ w.to # "index" /\ Len(index') = n
      \/ /\ w.to = "index" /\ Len(index') = n + 1 /\ index'[n + 1] = w.value
         /\ \A i : (DuePut(w, i) <=> IsPut(w.value, i)) /\ (DueDelete(w, i) <=> IsDelete(w.value, i))
  BY <1>1, LinesWrite
<1>5. /\ \A k \in 1..n : k \in 1..Len(index') /\ index'[k] = index[k]
      /\ \A k \in 1..Len(index') : k \in 1..n \/ (k = n + 1 /\ w.to = "index" /\ index'[k] = w.value)
  BY <1>1, LinesWrite
<1>6. /\ \A i : Has(index', i) <=> Has(index, i) \/ DuePut(w, i)
      /\ \A i : Deletes(index', i) <=> Deletes(index, i) \/ DueDelete(w, i)
  BY <1>1, LinesWrite
<1>7. t \in Nat /\ n \in Nat
  BY DEF Typed
<1>8. entries' = entries /\ pending' = pending
  BY DEF Write, memory
<1>9. \A i \in Ids(entries) : DuePut(w, i) => ~Due(todo', i)
  <2>1. ASSUME NEW i \in Ids(entries), DuePut(w, i), Due(todo', i)
        PROVE  FALSE
    <3>1. PICK k \in 1..(t - 1) : DuePut(todo'[k], i)
      BY <2>1, <1>2 DEF Due
    <3>2. k + 1 \in 1..t /\ DuePut(todo[k + 1], i) /\ DuePut(todo[1], i) /\ k + 1 # 1
      BY <2>1, <3>1, <1>2
    <3>3. QED
      BY <3>2, <1>2 DEF Kept, Once
  <2>2. QED
    BY <2>1
<1>10. OfEntries'
  <2>1. w.to = "index" /\ ~w.value.delete => About(entries, w.value)
    BY <1>2 DEF Kept, OfEntries
  <2>2. ASSUME NEW k \in 1..Len(index'), ~index'[k].delete
        PROVE  About(entries, index'[k])
    BY <2>1, <2>2, <1>5 DEF Kept, OfEntries
  <2>3. ASSUME NEW k \in 1..Len(todo'), todo'[k].to = "index", ~todo'[k].value.delete
        PROVE  About(entries, todo'[k].value)
    BY <2>3, <1>2 DEF Kept, OfEntries
  <2>4. QED
    BY <2>2, <2>3, <1>8 DEF OfEntries
<1>11. Newest'
  <2>1. ASSUME NEW k \in 1..Len(todo'), todo'[k].to = "index", ~todo'[k].value.delete
        PROVE  Current(entries, todo'[k].value)
    BY <2>1, <1>2 DEF Kept, Newest
  <2>2. ASSUME NEW k \in 1..Len(index'), IsLast(index', k), ~Due(todo', index'[k].id)
        PROVE  Current(entries, index'[k])
    <3>1. CASE k \in 1..n
      <4>1. index'[k] = index[k]
        BY <3>1, <1>5
      <4>2. ~DuePut(w, index[k].id)
        <5>1. CASE w.to = "index"
          <6>1. n + 1 \in (k + 1)..Len(index') /\ index'[n + 1] = w.value
            BY <3>1, <5>1, <1>4, <1>7
          <6>2. QED
            BY <6>1, <2>2, <4>1 DEF IsLast, DuePut
        <5>2. CASE w.to # "index"
          BY <5>2 DEF DuePut
        <5>3. QED
          BY <5>1, <5>2
      <4>3. IsLast(index, k)
        <5>1. \A j \in (k + 1)..n : j \in 1..n /\ j \in (k + 1)..Len(index')
          BY <3>1, <1>4, <1>7
        <5>2. QED
          BY <5>1, <2>2, <4>1, <1>5 DEF IsLast
      <4>4. QED
        BY <3>1, <4>1, <4>2, <4>3, <2>2, <1>3 DEF Kept, Newest
    <3>2. CASE w.to = "index" /\ index'[k] = w.value
      BY <3>2, <2>2, <1>2 DEF Kept, Newest, IsLast
    <3>3. QED
      BY <3>1, <3>2, <1>5
  <2>3. QED
    BY <2>1, <2>2, <1>8 DEF Newest
<1>12. Deletions'
  BY <1>3, <1>6, <1>8 DEF Kept, Deletions
<1>13. Written'
  <2>1. ASSUME NEW i \in Ids(entries)
        PROVE  Has(index', i) \/ Due(todo', i) <=> ~IsPending(i) /\ At(entries, i).of # None
    BY <1>3, <1>6 DEF Kept, Written
  <2>2. \A i : IsPending(i)' <=> IsPending(i)
    BY <1>8 DEF IsPending
  <2>3. QED
    BY <2>1, <2>2, <1>8 DEF Written
<1>14. Once'
  <2>1. ASSUME NEW i \in Ids(entries), Has(index', i), Due(todo', i)
        PROVE  busy' = "rebase" /\ At(entries, i).kind = "large"
    <3>1. todo' # <<>>
      BY <2>1 DEF Due
    <3>2. busy' = busy
      BY <3>1, <1>1, LinesWrite
    <3>3. Due(todo, i) /\ ~DuePut(w, i)
      BY <2>1, <1>3, <1>9
    <3>4. Has(index, i)
      BY <3>3, <2>1, <1>6
    <3>5. QED
      BY <3>2, <3>3, <3>4 DEF Kept, Once
  <2>2. ASSUME NEW i \in Ids(entries), NEW j \in 1..Len(todo'), NEW k \in 1..Len(todo'),
               DuePut(todo'[j], i), DuePut(todo'[k], i)
        PROVE  j = k
    <3>1. /\ j + 1 \in 1..t /\ DuePut(todo[j + 1], i)
          /\ k + 1 \in 1..t /\ DuePut(todo[k + 1], i)
      BY <2>2, <1>2
    <3>2. j + 1 = k + 1
      BY <3>1 DEF Kept, Once
    <3>3. QED
      BY <3>2, <1>7
  <2>3. QED
    BY <2>1, <2>2, <1>8 DEF Once
<1>15. Waiting'
  BY <1>8 DEF Kept, Waiting
<1>16. ASSUME Reopens
       PROVE  Reopens'
  <2>1. ASSUME NEW i \in Ids(entries), Deletes(index', i) \/ DueDeletes(todo', i)
        PROVE  At(entries, i).deleted
    BY <2>1, <1>3, <1>6, <1>16 DEF Reopens
  <2>2. ASSUME NEW k \in 1..Len(index'), index'[k].delete
        PROVE  index'[k].id \in Ids(entries)
    BY <2>2, <1>2, <1>5, <1>16 DEF Reopens
  <2>3. ASSUME NEW k \in 1..Len(todo'), todo'[k].to = "index", todo'[k].value.delete
        PROVE  todo'[k].value.id \in Ids(entries)
    BY <2>3, <1>2, <1>16 DEF Reopens
  <2>4. QED
    BY <2>1, <2>2, <2>3, <1>8 DEF Reopens
<1>17. QED
  BY <1>10, <1>11, <1>12, <1>13, <1>14, <1>15, <1>16 DEF Kept

LEMMA SameButDeleted ==
  ASSUME NEW e \in EntryT, NEW f \in EntryT,
         [e EXCEPT !.deleted = FALSE] = [f EXCEPT !.deleted = FALSE],
         e.deleted <=> f.deleted
  PROVE  e = f
<1>1. e.deleted \in BOOLEAN /\ f.deleted \in BOOLEAN
  BY DEF EntryT
<1>2. e.deleted = f.deleted
  <2>1. PICK a \in BOOLEAN : a = e.deleted
    BY <1>1
  <2>2. PICK b \in BOOLEAN : b = f.deleted
    BY <1>1
  <2>3. a => b
    BY <2>1, <2>2
  <2>4. b => a
    BY <2>1, <2>2
  <2>5. a = b
    BY ONLY <2>3, <2>4, a \in BOOLEAN, b \in BOOLEAN
  <2>6. QED
    BY <2>1, <2>2, <2>5
<1>3. PICK g : g = [e EXCEPT !.deleted = FALSE]
  OBVIOUS
<1>4. g.of = e.of /\ g.kind = e.kind /\ g.base = e.base /\ g.pack = e.pack /\ g.at = e.at
  BY <1>3 DEF EntryT
<1>5. g.of = f.of /\ g.kind = f.kind /\ g.base = f.base /\ g.pack = f.pack /\ g.at = f.at
  BY <1>3 DEF EntryT
<1>6. QED
  BY <1>2, <1>4, <1>5 DEF EntryT

\* Two last lines of an id are one.
LEMMA OneLast ==
  ASSUME NEW lines \in Seq(LineT), NEW i, NEW j \in 1..Len(lines), NEW k \in 1..Len(lines),
         IsPut(lines[j], i), IsLast(lines, j), IsPut(lines[k], i), IsLast(lines, k)
  PROVE  j = k
<1>1. PICK n \in Nat : n = Len(lines)
  OBVIOUS
<1>2. j \notin (k + 1)..n
  BY <1>1 DEF IsLast, IsPut
<1>3. k \notin (j + 1)..n
  BY <1>1 DEF IsLast, IsPut
<1>4. j \in 1..n /\ k \in 1..n
  BY <1>1
<1>5. QED
  BY <1>2, <1>3, <1>4

\* The opened store against the one in memory: an id with a line is the same
\* object in both, its entry that of its last line, and what memory has of it
\* when no line of it is under way.
LEMMA OpenedKeeps ==
  ASSUME Typed, Kept
  PROVE  /\ Ids(Opened) \subseteq Ids(entries)
         /\ \A i \in Ids(Opened) : ~Has(index, i) => At(Opened, i) = Lost
         /\ \A i : Has(index, i) =>
              /\ i \in Ids(entries) /\ i \in Ids(Opened)
              /\ At(Opened, i) \in EntryT /\ At(entries, i) \in EntryT
              /\ At(Opened, i).of = At(entries, i).of /\ At(Opened, i).of # None
              /\ At(Opened, i).kind = At(entries, i).kind
              /\ At(Opened, i).deleted <=> Deletes(index, i)
              /\ \E k \in 1..Len(index) :
                   /\ IsPut(index[k], i) /\ IsLast(index, k)
                   /\ [At(Opened, i) EXCEPT !.deleted = FALSE] = index[k].entry
              /\ ~Due(todo, i) =>
                   [At(Opened, i) EXCEPT !.deleted = FALSE] = [At(entries, i) EXCEPT !.deleted = FALSE]
<1>1. index \in Seq(LineT) /\ entries \in Seq(EntryT) /\ Len(entries) \in Nat
  BY DEF Typed
<1>2. Opened = Entries(index)
  BY DEF Opened
<1>3. ASSUME NEW i, Has(index, i)
      PROVE  /\ i \in Ids(entries) /\ i \in Ids(Opened)
             /\ At(Opened, i) \in EntryT /\ At(entries, i) \in EntryT
             /\ At(Opened, i).of = At(entries, i).of /\ At(Opened, i).of # None
             /\ At(Opened, i).kind = At(entries, i).kind
             /\ At(Opened, i).deleted <=> Deletes(index, i)
             /\ \E k \in 1..Len(index) :
                  /\ IsPut(index[k], i) /\ IsLast(index, k)
                  /\ [At(Opened, i) EXCEPT !.deleted = FALSE] = index[k].entry
             /\ ~Due(todo, i) =>
                  [At(Opened, i) EXCEPT !.deleted = FALSE] = [At(entries, i) EXCEPT !.deleted = FALSE]
  <2>1. i \in Ids(entries)
    BY <1>3 DEF Has, IsPut, Kept, OfEntries, About
  <2>2. i \in Nat /\ i + 1 \in 1..Len(entries)
    BY <2>1, <1>1 DEF Ids
  <2>3. At(entries, i) \in EntryT
    BY <2>2, <1>1 DEF At
  <2>4. i \in Ids(Opened)
    BY <2>2, <1>1, <1>2, <1>3, OpenedEntries
  <2>5. PICK k \in 1..Len(index) :
          /\ IsPut(index[k], i) /\ IsLast(index, k)
          /\ At(Opened, i) = [index[k].entry EXCEPT !.deleted = Deletes(index, i)]
    BY <2>2, <1>1, <1>2, <1>3, OpenedEntries
  <2>6. PICK f : f = index[k].entry
    OBVIOUS
  <2>7. f \in EntryT
    <3>1. index[k] \in LineT
      BY <1>1
    <3>2. QED
      BY <3>1, <2>6 DEF LineT
  <2>8. f.of # None /\ ~f.deleted /\ f.of = At(entries, i).of /\ f.kind = At(entries, i).kind
    BY <2>5, <2>6 DEF Kept, OfEntries, About, IsPut
  <2>9. PICK d \in BOOLEAN : d = Deletes(index, i)
    BY DEF Deletes
  <2>10. At(Opened, i) = [f EXCEPT !.deleted = d]
    BY <2>5, <2>6, <2>9
  <2>11. PICK g : g = [f EXCEPT !.deleted = d]
    OBVIOUS
  <2>12. g \in EntryT /\ g.of = f.of /\ g.kind = f.kind /\ (g.deleted <=> d) /\ [g EXCEPT !.deleted = FALSE] = f
    <3>1. g \in EntryT /\ g.of = f.of /\ g.kind = f.kind /\ g.deleted = d
      BY <2>7, <2>11 DEF EntryT
    <3>2. f.deleted \in BOOLEAN
      BY <2>7 DEF EntryT
    <3>3. f.deleted = FALSE
      BY <3>2, <2>8
    <3>4. [g EXCEPT !.deleted = FALSE] = f
      BY <2>7, <2>11, <3>3 DEF EntryT
    <3>5. QED
      BY <3>1, <3>4
  <2>13. ~Due(todo, i) => f = [At(entries, i) EXCEPT !.deleted = FALSE]
    BY <2>5, <2>6 DEF Kept, Newest, Current, IsPut
  <2>14. QED
    BY <2>1, <2>3, <2>4, <2>5, <2>6, <2>8, <2>9, <2>10, <2>11, <2>12, <2>13
<1>4. \A i \in Ids(Opened) : ~Has(index, i) => At(Opened, i) = Lost
  BY <1>1, <1>2, OpenedEntries
<1>5. Ids(Opened) \subseteq Ids(entries)
  <2>1. \A k \in PutLines(index) : index[k].id \in 0..(Len(entries) - 1)
    BY DEF Kept, OfEntries, About, Ids, PutLines
  <2>2. \A k \in PutLines(index) : index[k].id < Len(entries)
    BY <2>1, <1>1
  <2>3. Len(Opened) \in Nat /\ Len(Opened) <= Len(entries)
    BY <2>2, <1>1, <1>2, CountCovers, OpenedEntries
  <2>4. QED
    BY <2>3, <1>1 DEF Ids
<1>6. QED
  BY <1>3, <1>4, <1>5

\* Of a kill: the store is the opened one, without a line under way.
LEMMA KeptKill ==
  ASSUME Typed, Kept, Kill
  PROVE  Kept' /\ ("open deletion" \notin events' => Reopens')
<1>1. entries' = Opened /\ pending' = <<>> /\ todo' = <<>> /\ index' = index
  BY DEF Kill
<1>2. (\A k \in 1..Len(todo') : FALSE) /\ (\A k \in 1..Len(pending') : FALSE)
  <2>1. todo' = <<>>
    BY <1>1
  <2>2. \A k \in 1..Len(todo') : FALSE
    BY ONLY <2>1
  <2>3. pending' = <<>>
    BY <1>1
  <2>4. \A k \in 1..Len(pending') : FALSE
    BY ONLY <2>3
  <2>5. QED
    BY <2>2, <2>4
<1>3. \A i : ~Due(todo', i) /\ ~DueDeletes(todo', i) /\ ~IsPending(i)'
  BY <1>2 DEF Due, DueDeletes, IsPending
<1>4. \A k \in 1..Len(index) : ~index[k].delete => Has(index, index[k].id)
  BY DEF Has, IsPut
<1>5. Lost.of = None /\ Lost.deleted
  BY DEF Lost
<1>6. OfEntries'
  <2>1. ASSUME NEW k \in 1..Len(index), ~index[k].delete
        PROVE  About(Opened, index[k])
    <3>1. PICK i : i = index[k].id
      OBVIOUS
    <3>2. Has(index, i)
      BY <2>1, <3>1, <1>4
    <3>3. /\ i \in Ids(Opened) /\ At(Opened, i).of = At(entries, i).of
          /\ At(Opened, i).kind = At(entries, i).kind
      BY <3>2, OpenedKeeps
    <3>4. About(entries, index[k])
      BY <2>1 DEF Kept, OfEntries
    <3>5. QED
      BY <3>1, <3>3, <3>4 DEF About
  <2>2. QED
    BY <2>1, <1>1, <1>2 DEF OfEntries
<1>7. Newest'
  <2>1. ASSUME NEW k \in 1..Len(index), IsLast(index, k)
        PROVE  Current(Opened, index[k])
    <3>1. PICK i : i = index[k].id
      OBVIOUS
    <3>2. Has(index, i)
      BY <2>1, <3>1, <1>4 DEF IsLast
    <3>3. PICK j \in 1..Len(index) :
            /\ IsPut(index[j], i) /\ IsLast(index, j)
            /\ [At(Opened, i) EXCEPT !.deleted = FALSE] = index[j].entry
      BY <3>2, OpenedKeeps
    <3>4. IsPut(index[k], i) /\ index[j].id = i
      BY <2>1, <3>1, <3>3 DEF IsLast, IsPut
    <3>5. j = k
      BY <2>1, <3>1, <3>3, <3>4, OneLast DEF IsPut, Typed
    <3>6. QED
      BY <3>1, <3>3, <3>5 DEF Current
  <2>2. QED
    BY <2>1, <1>1, <1>2 DEF Newest
<1>8. Deletions'
  <2>1. ASSUME NEW i \in Ids(Opened)
        PROVE  /\ At(Opened, i).of = None => At(Opened, i).deleted
               /\ At(Opened, i).deleted => At(Opened, i).of = None \/ Deletes(index, i)
    <3>1. CASE Has(index, i)
      BY <3>1, OpenedKeeps
    <3>2. CASE ~Has(index, i)
      BY <3>2, <1>5, OpenedKeeps
    <3>3. QED
      BY <3>1, <3>2
  <2>2. QED
    BY <2>1, <1>1, <1>3 DEF Deletions
<1>9. Written'
  <2>1. ASSUME NEW i \in Ids(Opened)
        PROVE  Has(index, i) <=> At(Opened, i).of # None
    <3>1. CASE Has(index, i)
      BY <3>1, OpenedKeeps
    <3>2. CASE ~Has(index, i)
      BY <3>2, <1>5, OpenedKeeps
    <3>3. QED
      BY <3>1, <3>2
  <2>2. QED
    BY <2>1, <1>1, <1>2, <1>3 DEF Written, IsPending
<1>10. Once' /\ Waiting'
  BY <1>2, <1>3 DEF Once, Waiting
<1>11. ASSUME "open deletion" \notin events'
       PROVE  Reopens'
  <2>1. \A k \in 1..Len(index) : index[k].delete => Has(index, index[k].id)
    <3>1. \A k \in 1..Len(index) : index[k].delete => LinesOf(index, index[k].id) # {}
      BY <1>11 DEF Kill
    <3>2. QED
      BY <3>1 DEF LinesOf, PutLines, Has, IsPut
  <2>2. \A k \in 1..Len(index) : index[k].delete => index[k].id \in Ids(Opened)
    BY <2>1, OpenedKeeps
  <2>3. ASSUME NEW i \in Ids(Opened), Deletes(index, i)
        PROVE  At(Opened, i).deleted
    BY <2>3, <1>5, OpenedKeeps
  <2>4. QED
    BY <2>2, <2>3, <1>1, <1>2, <1>3 DEF Reopens
<1>12. QED
  BY <1>6, <1>7, <1>8, <1>9, <1>10, <1>11 DEF Kept

-----------------------------------------------------------------------------
(* Chains.                                                                 *)

ClosedUnderBase(es, T) == \A i \in T : At(es, i).base # None => At(es, i).base \in T
BasesEarlier(es) == Len(es) \in Nat /\ \A i \in Ids(es) : Earlier(At(es, i).base, i)

\* The recursion that defines a chain has a solution (the intersection of the
\* closed sets around each id), so the chain satisfies it.
LEMMA ChainStep ==
  ASSUME NEW es, BasesEarlier(es), NEW x \in Ids(es)
  PROVE  ChainOf(es, x) = {x} \cup IF At(es, x).base = None THEN {} ELSE ChainOf(es, At(es, x).base)
<1> DEFINE I == Ids(es)
           Closed(T) == T \subseteq I /\ ClosedUnderBase(es, T)
           g == [i \in I |-> {a \in I : \A T \in SUBSET I : i \in T /\ Closed(T) => a \in T}]
           Solves(f) == f = [i \in I |->
              {i} \cup IF At(es, i).base = None THEN {} ELSE f[At(es, i).base]]
<1>0. \A i \in I : At(es, i).base # None => At(es, i).base \in I
  BY DEF BasesEarlier, Earlier, Ids
<1>1. ASSUME NEW i \in I
      PROVE  g[i] = {i} \cup IF At(es, i).base = None THEN {} ELSE g[At(es, i).base]
  <2> DEFINE R == {i} \cup IF At(es, i).base = None THEN {} ELSE g[At(es, i).base]
  <2>1. R \subseteq g[i]
    <3>1. i \in g[i]
      OBVIOUS
    <3>2. ASSUME At(es, i).base # None, NEW a \in g[At(es, i).base]
          PROVE  a \in g[i]
      <4>1. At(es, i).base \in I
        BY <3>2, <1>0
      <4>2. ASSUME NEW T \in SUBSET I, i \in T, Closed(T)
            PROVE  a \in T
        BY <4>1, <4>2, <3>2 DEF ClosedUnderBase
      <4>3. QED
        BY <4>1, <4>2, <3>2
    <3>3. QED
      BY <3>1, <3>2
  <2>2. R \in SUBSET I /\ i \in R
    BY <1>0
  <2>3. Closed(R)
    <3>1. ASSUME NEW c \in R, At(es, c).base # None
          PROVE  At(es, c).base \in R
      <4>1. CASE c = i
        <5>1. At(es, i).base \in I /\ At(es, i).base \in g[At(es, i).base]
          BY <4>1, <3>1, <1>0
        <5>2. QED
          BY <4>1, <3>1, <5>1
      <4>2. CASE c # i
        <5>1. At(es, i).base # None /\ c \in g[At(es, i).base] /\ At(es, i).base \in I
          BY <4>2, <1>0
        <5>2. c \in I /\ At(es, c).base \in I
          BY <5>1, <3>1, <1>0
        <5>3. At(es, c).base \in g[At(es, i).base]
          BY <5>1, <5>2, <3>1 DEF ClosedUnderBase
        <5>4. QED
          BY <5>1, <5>3
      <4>3. QED
        BY <4>1, <4>2
    <3>2. QED
      BY <2>2, <3>1 DEF ClosedUnderBase
  <2>4. g[i] \subseteq R
    BY <2>2, <2>3
  <2>5. QED
    BY <2>1, <2>4
<1>2. Solves(g)
  BY <1>1
<1>3. Solves(CHOOSE f : Solves(f))
  BY <1>2, Zenon
<1>4. \A i : ChainOf(es, i) = (CHOOSE f : Solves(f))[i]
  BY Zenon DEF ChainOf
<1>5. PICK f : f = CHOOSE h : Solves(h)
  OBVIOUS
<1>6. Solves(f) /\ \A i : ChainOf(es, i) = f[i]
  BY <1>3, <1>4, <1>5
<1>7. f[x] = {x} \cup IF At(es, x).base = None THEN {} ELSE f[At(es, x).base]
  BY <1>6
<1>8. QED
  BY <1>6, <1>7

\* The chain of i holds i and each member's base.
LEMMA ChainFacts ==
  ASSUME NEW es, BasesEarlier(es), NEW i \in Ids(es)
  PROVE  /\ i \in ChainOf(es, i)
         /\ ChainOf(es, i) \subseteq Ids(es)
         /\ ClosedUnderBase(es, ChainOf(es, i))
<1> DEFINE Ok(j) == /\ j \in ChainOf(es, j)
                    /\ ChainOf(es, j) \subseteq Ids(es)
                    /\ ClosedUnderBase(es, ChainOf(es, j))
           Bad == {j \in Ids(es) : ~Ok(j)}
<1>1. ASSUME Bad # {}
      PROVE  FALSE
  <2>1. Ids(es) \subseteq Nat
    BY DEF BasesEarlier, Ids
  <2>2. PICK j \in Bad : \A k \in Bad : j <= k
    BY <1>1, <2>1, LeastNatural
  <2>3. j \in Ids(es) /\ ~Ok(j)
    OBVIOUS
  <2>4. CASE At(es, j).base = None
    <3>1. ChainOf(es, j) = {j}
      BY <2>3, <2>4, ChainStep
    <3>2. QED
      BY <2>3, <2>4, <3>1 DEF ClosedUnderBase
  <2>5. CASE At(es, j).base # None
    <3>1. PICK b \in Ids(es) : b = At(es, j).base /\ b < j
      BY <2>1, <2>3, <2>5 DEF BasesEarlier, Earlier, Ids
    <3>2. Ok(b)
      <4>1. ~(j <= b)
        BY <2>1, <2>3, <3>1
      <4>2. QED
        BY <4>1, <2>2, <3>1
    <3>3. ChainOf(es, j) = {j} \cup ChainOf(es, b)
      BY <2>3, <2>5, <3>1, ChainStep
    <3>4. ChainOf(es, j) \subseteq Ids(es) /\ j \in ChainOf(es, j)
      BY <2>3, <3>2, <3>3
    <3>5. ClosedUnderBase(es, ChainOf(es, j))
      BY <3>1, <3>2, <3>3 DEF ClosedUnderBase
    <3>6. QED
      BY <2>3, <3>4, <3>5
  <2>6. QED
    BY <2>4, <2>5
<1>2. QED
  BY <1>1

\* What holds of i and is handed down from an object to its base holds along
\* the chain of i.
LEMMA ChainLeast ==
  ASSUME NEW es, BasesEarlier(es), NEW i \in Ids(es),
         NEW T, ClosedUnderBase(es, T), i \in T
  PROVE  ChainOf(es, i) \subseteq T
<1> DEFINE Bad == {j \in Ids(es) : j \in T /\ ~(ChainOf(es, j) \subseteq T)}
<1>1. ASSUME Bad # {}
      PROVE  FALSE
  <2>1. Ids(es) \subseteq Nat
    BY DEF BasesEarlier, Ids
  <2>2. PICK j \in Bad : \A k \in Bad : j <= k
    BY <1>1, <2>1, LeastNatural
  <2>3. j \in Ids(es) /\ j \in T /\ ~(ChainOf(es, j) \subseteq T)
    OBVIOUS
  <2>4. CASE At(es, j).base = None
    BY <2>3, <2>4, ChainStep
  <2>5. CASE At(es, j).base # None
    <3>1. PICK b \in Ids(es) : b = At(es, j).base /\ b < j
      BY <2>1, <2>3, <2>5 DEF BasesEarlier, Earlier, Ids
    <3>2. b \in T
      BY <2>3, <2>5, <3>1 DEF ClosedUnderBase
    <3>3. ChainOf(es, b) \subseteq T
      <4>1. ~(j <= b)
        BY <2>1, <2>3, <3>1
      <4>2. QED
        BY <4>1, <2>2, <3>1, <3>2
    <3>4. QED
      BY <2>3, <2>5, <3>1, <3>3, ChainStep
  <2>6. QED
    BY <2>4, <2>5
<1>2. QED
  BY <1>1

-----------------------------------------------------------------------------
(* Streams under way and stored.                                           *)

\* Writes of other streams leave a stream held.
LEMMA HoldsMore ==
  ASSUME NEW ws, NEW more, NEW ss, NEW c, NEW S, Holds(ws, ss, c, S),
         \A k \in 1..Len(ws) : k \in 1..Len(more) /\ more[k] = ws[k],
         \A k \in 1..Len(more) :
           k \in 1..Len(ws) \/ (~IsStream(more[k], c) /\ ~IsRemove(more[k], c))
  PROVE  Holds(more, ss, c, S)
BY DEF Holds

\* A stream just put among the writes is held.
LEMMA HoldsNew ==
  ASSUME NEW ws, NEW ss, NEW c, NEW S, NEW j \in 1..Len(ws), IsStream(ws[j], c), ws[j].value \in S,
         \A k \in 1..Len(ws) : ~IsRemove(ws[k], c) /\ (IsStream(ws[k], c) => k = j)
  PROVE  Holds(ws, ss, c, S)
BY DEF Holds

\* A write leaves it held: the stream that was under way is stored.
LEMMA HoldsWrite ==
  ASSUME Typed, Write, NEW c, NEW S, Holds(todo, streams, c, S)
  PROVE  Holds(todo', streams', c, S)
<1> DEFINE t == Len(todo)
<1>1. PICK w \in WriteT : w = Head(todo)
  <2>1. todo \in Seq(WriteT) /\ todo # <<>>
    BY DEF Typed, Write
  <2>2. QED
    BY <2>1
<1>2. /\ w = todo[1] /\ 1 \in 1..t /\ Len(todo') = t - 1
      /\ \A k \in 1..(t - 1) : k + 1 \in 1..t /\ todo'[k] = todo[k + 1]
      /\ \A k \in 1..t : k = 1 \/ (k - 1 \in 1..(t - 1) /\ todo'[k - 1] = todo[k])
  BY <1>1, LinesWrite
<1>3. streams' = CASE w.to = "stream" -> With(streams, w.id, w.value)
                   [] w.to = "remove" -> [i \in DOMAIN streams \ {w.id} |-> streams[i]]
                   [] OTHER -> streams
  BY <1>1 DEF Write
<1>4. ~IsRemove(w, c) /\ (IsStream(w, c) => w.value \in S)
  BY <1>2 DEF Holds
<1>5. \A k \in 1..Len(todo') : ~IsRemove(todo'[k], c) /\ (IsStream(todo'[k], c) => todo'[k].value \in S)
  BY <1>2 DEF Holds
<1>6. CASE IsStream(w, c)
  <2>1. streams' = With(streams, c, w.value)
    BY <1>3, <1>6 DEF IsStream
  <2>2. c \in DOMAIN streams' /\ streams'[c] = w.value
    BY <2>1 DEF With
  <2>3. QED
    BY <2>2, <1>4, <1>5, <1>6 DEF Holds
<1>7. CASE ~IsStream(w, c)
  <2>1. ASSUME NEW k \in 1..t, IsStream(todo[k], c)
        PROVE  \E j \in 1..Len(todo') : IsStream(todo'[j], c)
    <3>1. k # 1
      BY <2>1, <1>2, <1>7
    <3>2. k - 1 \in 1..Len(todo') /\ IsStream(todo'[k - 1], c)
      BY <2>1, <3>1, <1>2
    <3>3. QED
      BY <3>2
  <2>2. ASSUME c \in DOMAIN streams, streams[c] \in S
        PROVE  c \in DOMAIN streams' /\ streams'[c] \in S
    <3>1. CASE w.to = "stream"
      <4>1. c # w.id /\ streams' = With(streams, w.id, w.value)
        BY <3>1, <1>3, <1>7 DEF IsStream
      <4>2. QED
        BY <4>1, <2>2 DEF With
    <3>2. CASE w.to = "remove"
      <4>1. c # w.id /\ streams' = [i \in DOMAIN streams \ {w.id} |-> streams[i]]
        BY <3>2, <1>3, <1>4 DEF IsRemove
      <4>2. QED
        BY <4>1, <2>2
    <3>3. CASE w.to # "stream" /\ w.to # "remove"
      BY <3>3, <2>2, <1>3
    <3>4. QED
      BY <3>1, <3>2, <3>3
  <2>3. QED
    BY <2>1, <2>2, <1>5 DEF Holds
<1>8. QED
  BY <1>6, <1>7

\* A kill leaves a stored stream held when none of its id is under way.
LEMMA HoldsKill ==
  ASSUME Typed, Kill, NEW c, NEW S, Holds(todo, streams, c, S),
         \A k \in 1..Len(todo) : ~IsStream(todo[k], c)
  PROVE  Holds(todo', streams', c, S)
<1>1. c \in DOMAIN streams /\ streams[c] \in S
  BY DEF Holds
<1>2. \A k \in 1..Len(todo') : FALSE
  <2>1. todo' = <<>>
    BY DEF Kill
  <2>2. QED
    BY ONLY <2>1
<1>3. \/ streams' = streams
      \/ todo # <<>> /\ Head(todo).to = "stream" /\ streams' = With(streams, Head(todo).id, Torn)
  BY DEF Kill
<1>4. CASE todo # <<>> /\ Head(todo).to = "stream" /\ streams' = With(streams, Head(todo).id, Torn)
  <2>1. todo \in Seq(WriteT)
    BY DEF Typed
  <2>2. 1 \in 1..Len(todo) /\ Head(todo) = todo[1]
    BY <2>1, <1>4
  <2>3. Head(todo).id # c
    BY <2>2, <1>4 DEF IsStream
  <2>4. c \in DOMAIN streams' /\ streams'[c] \in S
    BY <2>3, <1>1, <1>4 DEF With
  <2>5. QED
    BY <2>4, <1>2 DEF Holds
<1>5. CASE streams' = streams
  BY <1>1, <1>2, <1>5 DEF Holds
<1>6. QED
  BY <1>3, <1>4, <1>5


\* The writes of a flush: the pack's stream first, and no other.
LEMMA FlushWrites ==
  ASSUME Typed, flush
  PROVE  LET n == Len(entries)
             m == Len(pending)
         IN  /\ 1 \in 1..Len(todo') /\ IsStream(todo'[1], n) /\ todo'[1].value \in StreamT
             /\ DOMAIN todo'[1].value.members = 1..m
             /\ \A k \in 1..m : todo'[1].value.members[k] = At(entries, pending[k]).of
             /\ DuePut(todo'[m + 2], n) /\ todo'[m + 2].to = "index" /\ m + 2 \in 2..Len(todo')
             /\ \A k \in 1..Len(todo') : k = 1 \/ (k # 1 /\ todo'[k].to \in {"index", "sidecar"})
<1> DEFINE n == Len(entries)
           m == Len(pending)
<1>1. /\ Len(todo') = m + 3 /\ m \in Nat
      /\ todo'[1] = Stream(n, [of |-> n, base |-> None,
                               members |-> [k \in 1..m |-> At(entries, pending[k]).of]])
      /\ \A k \in 1..m : todo'[k + 1] = Line(line(pending[k], At(entries', pending[k])))
      /\ todo'[m + 3].to = "sidecar" /\ todo' \in Seq(WriteT)
  BY AfterFlush DEF Typed
<1>2. PICK v : v = [of |-> n, base |-> None, members |-> [k \in 1..m |-> At(entries, pending[k]).of]]
  OBVIOUS
<1>3. DOMAIN v.members = 1..m /\ \A k \in 1..m : v.members[k] = At(entries, pending[k]).of
  BY <1>2
<1>4. todo'[1].id = n /\ todo'[1].to = "stream" /\ todo'[1].value = v
  BY <1>1, <1>2 DEF Stream
<1>5. v \in StreamT
  <2>1. 1 \in 1..Len(todo')
    BY <1>1
  <2>2. PICK w \in WriteT : w = todo'[1]
    <3>1. todo' \in Seq(WriteT)
      BY <1>1
    <3>2. todo'[1] \in WriteT
      BY <2>1, <3>1
    <3>3. QED
      BY <3>2
  <2>3. w.to = "stream" => w.value \in StreamT
    BY DEF WriteT
  <2>4. QED
    BY <2>2, <2>3, <1>4
<1>6. DuePut(todo'[m + 2], n) /\ todo'[m + 2].to = "index" /\ m + 2 \in 2..Len(todo')
  BY <1>1, LinesFlush DEF DuePut
<1>7. ASSUME NEW k \in 1..m
      PROVE  todo'[k + 1].to = "index"
  <2>1. PICK w : w = Line(line(pending[k], At(entries', pending[k])))
    OBVIOUS
  <2>2. w.to = "index"
    BY <2>1 DEF Line
  <2>3. todo'[k + 1] = w
    BY <1>1, <2>1
  <2>4. QED
    BY <2>2, <2>3
<1>8. ASSUME NEW k \in 1..Len(todo'), k # 1
      PROVE  todo'[k].to \in {"index", "sidecar"}
  <2>1. k - 1 \in 1..m \/ k = m + 2 \/ k = m + 3
    BY <1>1, <1>8
  <2>2. CASE k - 1 \in 1..m
    <3>1. PICK j \in 1..m : j = k - 1 /\ k = j + 1
      BY <2>2, <1>1
    <3>2. QED
      BY <3>1, <1>7
  <2>3. QED
    BY <2>1, <2>2, <1>1, <1>6
<1>9. 1 \in 1..Len(todo')
  BY <1>1
<1>10. QED
  BY <1>3, <1>4, <1>5, <1>6, <1>8, <1>9 DEF IsStream

\* Behind a stream under way comes a line of its id, action by action.
LEMMA UnderNext ==
  ASSUME Typed, Kept, Under(entries, todo), [Next]_vars
  PROVE  Under(entries', todo')
<1>1. CASE UNCHANGED vars
  BY <1>1 DEF vars, memory
<1>2. CASE Write
  <2> DEFINE t == Len(todo)
  <2>1. /\ Len(todo') = t - 1 /\ t \in Nat
        /\ \A k \in 1..(t - 1) : k + 1 \in 1..t /\ todo'[k] = todo[k + 1]
    BY <1>2, LinesWrite DEF Typed
  <2>2. entries' = entries
    BY <1>2 DEF Write, memory
  <2>3. ASSUME NEW k \in 1..Len(todo'), todo'[k].to = "stream"
        PROVE  \E j \in (k + 1)..Len(todo') : DuePut(todo'[j], todo'[k].id)
    <3>1. k + 1 \in 1..t /\ todo[k + 1] = todo'[k]
      BY <2>1
    <3>2. PICK j \in (k + 1 + 1)..t : DuePut(todo[j], todo'[k].id)
      BY <3>1, <2>3 DEF Under
    <3>3. PICK i \in (k + 1)..(t - 1) : i = j - 1 /\ j = i + 1
      BY <2>1
    <3>4. i \in 1..(t - 1)
      BY <2>1
    <3>5. QED
      BY <3>2, <3>3, <3>4, <2>1
  <2>4. QED
    BY <2>1, <2>2, <2>3 DEF Under
<1>3. CASE Kill
  <2>1. todo' = <<>>
    BY <1>3 DEF Kill
  <2>2. \A k \in 1..Len(todo') : FALSE
    BY ONLY <2>1
  <2>3. QED
    BY <2>2 DEF Under
<1>4. CASE PutLarge
  <2> DEFINE n == Len(entries)
             t == Len(todo)
  <2>1. /\ Len(entries') = n + 1 /\ Len(todo') = t + 3
        /\ \A k \in 1..t : todo'[k] = todo[k]
        /\ todo'[t + 1] = Stream(n, [of |-> At(entries', n).of, base |-> At(entries', n).base,
                                     members |-> <<>>])
        /\ todo'[t + 2].to = "sidecar"
    BY <1>4, AfterPutLarge
  <2>2. todo'[t + 1].id = n /\ todo'[t + 1].to = "stream"
    BY <2>1 DEF Stream
  <2>3. DuePut(todo'[t + 3], n)
    BY <1>4, LinesPutLarge
  <2>4. n \in Nat /\ t \in Nat
    BY DEF Typed
  <2>5. \A i \in Ids(entries) : i \in Ids(entries')
    BY <2>1, <2>4 DEF Ids
  <2>6. ASSUME NEW k \in 1..t
        PROVE  /\ todo'[k].to = "stream" => \E j \in (k + 1)..Len(todo') : DuePut(todo'[j], todo'[k].id)
               /\ todo'[k].to = "remove" => todo'[k].id \in Ids(entries')
    <3>1. \A j \in (k + 1)..t : j \in (k + 1)..Len(todo') /\ todo'[j] = todo[j]
      BY <2>1, <2>4
    <3>2. QED
      BY <3>1, <2>1, <2>5 DEF Under
  <2>7. t + 3 \in (t + 2)..Len(todo') /\ todo'[t + 3].to = "index"
    BY <2>1, <2>3, <2>4 DEF DuePut
  <2>8. \A k \in 1..Len(todo') : k \in 1..t \/ k = t + 1 \/ k = t + 2 \/ k = t + 3
    BY <2>1, <2>4
  <2>9. t + 1 + 1 = t + 2
    BY <2>4
  <2>10. QED
    BY <2>1, <2>2, <2>3, <2>6, <2>7, <2>8, <2>9 DEF Under
<1>5. CASE PutSmall
  <2>1. todo' = todo /\ Len(entries') = Len(entries) + 1 /\ Len(entries) \in Nat
    BY <1>5, AfterPutSmall DEF PutSmall, Typed
  <2>2. \A i \in Ids(entries) : i \in Ids(entries')
    BY <2>1 DEF Ids
  <2>3. QED
    BY <2>1, <2>2 DEF Under
<1>6. CASE flush
  <2> DEFINE n == Len(entries)
             m == Len(pending)
  <2>1. /\ IsStream(todo'[1], n)
        /\ DuePut(todo'[m + 2], n) /\ m + 2 \in 2..Len(todo')
        /\ \A k \in 1..Len(todo') : k = 1 \/ (k # 1 /\ todo'[k].to \in {"index", "sidecar"})
    BY <1>6, FlushWrites
  <2>2. 1 + 1 = 2
    OBVIOUS
  <2>3. QED
    BY <2>1, <2>2 DEF Under, IsStream
<1>7. CASE delete
  <2>1. PICK id \in Live(entries) : todo'[1] = Line(D(id))
    BY <1>7, AfterDelete
  <2>2. \A k \in 1..Len(todo') : todo'[k].to \in {"index", "sidecar"}
    BY <1>7, <2>1, LinesDelete
  <2>3. QED
    BY <2>2 DEF Under
<1>8. CASE compact
  <2>1. \A k \in 1..Len(todo') : todo'[k].to = "remove" /\ todo'[k].id \in Ids(entries)
    BY <1>8, AfterCompact
  <2>2. entries' = entries
    BY <1>8 DEF compact, memory
  <2>3. QED
    BY <2>1, <2>2 DEF Under
<1>9. CASE rebase
  <2>1. /\ Len(todo') = 3 /\ todo'[1].to = "stream" /\ todo'[3].to = "sidecar"
        /\ \E id \in Live(entries) :
             /\ todo'[1] = Stream(id, [of |-> At(entries', id).of, base |-> None, members |-> <<>>])
             /\ todo'[2] = Line(line(id, At(entries', id)))
    BY <1>9, AfterRebase
  <2>2. PICK id \in Ids(entries) :
          /\ todo'[1] = Stream(id, [of |-> At(entries', id).of, base |-> None, members |-> <<>>])
          /\ todo'[2] = Line(line(id, At(entries', id)))
    BY <2>1 DEF Live
  <2>3. todo'[1].id = id /\ DuePut(todo'[2], id)
    <3>1. todo'[1].id = id
      BY <2>2 DEF Stream
    <3>2. DuePut(todo'[2], id)
      BY <1>9, <2>2, LinesRebase
    <3>3. QED
      BY <3>1, <3>2
  <2>4. \A k \in 1..Len(todo') : k = 1 \/ k = 2 \/ k = 3
    BY <2>1
  <2>5. 2 \in (1 + 1)..Len(todo') /\ todo'[2].to = "index"
    BY <2>1, <2>3 DEF DuePut
  <2>6. QED
    BY <2>1, <2>3, <2>4, <2>5 DEF Under
<1>10. QED
  BY <1>1, <1>2, <1>3, <1>4, <1>5, <1>6, <1>7, <1>8, <1>9 DEF Next

\* A stream under way is of an id whose line is under way.
LEMMA StreamsUnder ==
  ASSUME Under(entries, todo), NEW c, NEW k \in 1..Len(todo), IsStream(todo[k], c),
         Len(todo) \in Nat
  PROVE  Due(todo, c)
<1>1. PICK j \in (k + 1)..Len(todo) : DuePut(todo[j], c)
  BY DEF Under, IsStream
<1>2. j \in 1..Len(todo)
  OBVIOUS
<1>3. QED
  BY <1>1, <1>2 DEF Due


-----------------------------------------------------------------------------
(* What each action leaves of the streams that are held.                   *)

\* What has a line, in the index or under way, is an entry there is.
LEMMA LinesInIds ==
  ASSUME Typed, Kept, NEW i, Has(index, i) \/ Due(todo, i)
  PROVE  i \in Ids(entries)
<1>1. CASE Has(index, i)
  BY <1>1 DEF Kept, OfEntries, Has, IsPut, About
<1>2. CASE Due(todo, i)
  BY <1>2 DEF Kept, OfEntries, Due, DuePut, IsPut, About
<1>3. QED
  BY <1>1, <1>2

\* With no write under way.
LEMMA IdleWrites ==
  ASSUME todo = <<>>
  PROVE  /\ Len(todo) = 0 /\ \A k \in 1..Len(todo) : FALSE
         /\ \A i : ~Due(todo, i) /\ ~DueDeletes(todo, i)
<1>1. Len(todo) = 0 /\ \A k \in 1..Len(todo) : FALSE
  BY ONLY todo = <<>>
<1>2. QED
  BY <1>1 DEF Due, DueDeletes

LEMMA HoldsIdle ==
  ASSUME NEW more, NEW ss, NEW c, NEW S, todo = <<>>, Holds(todo, ss, c, S),
         \A k \in 1..Len(more) : ~IsStream(more[k], c) /\ ~IsRemove(more[k], c)
  PROVE  Holds(more, ss, c, S)
BY IdleWrites, HoldsMore

\* A large object that is live has a line, in the index or under way.
LEMMA LiveLargeRequired ==
  ASSUME Typed, Kept, NEW i \in Live(entries), At(entries, i).kind = "large"
  PROVE  i \in Ids(entries) /\ Required(entries, index, todo, i)
<1>1. i \in Ids(entries) /\ ~At(entries, i).deleted
  BY DEF Live
<1>2. At(entries, i).of # None
  BY <1>1 DEF Kept, Deletions
<1>3. ~IsPending(i)
  BY DEF IsPending, Kept, Waiting
<1>4. QED
  BY <1>1, <1>2, <1>3 DEF Kept, Written, Required

\* The fields of entries that differ in the deletion alone.
LEMMA SameFields ==
  ASSUME NEW e \in EntryT, NEW f \in EntryT,
         [e EXCEPT !.deleted = FALSE] = [f EXCEPT !.deleted = FALSE]
  PROVE  e.of = f.of /\ e.kind = f.kind /\ e.base = f.base /\ e.pack = f.pack /\ e.at = f.at
<1>1. PICK d : d = [e EXCEPT !.deleted = FALSE]
  OBVIOUS
<1>2. d.of = e.of /\ d.kind = e.kind /\ d.base = e.base /\ d.pack = e.pack /\ d.at = e.at
  BY <1>1 DEF EntryT
<1>3. d.of = f.of /\ d.kind = f.kind /\ d.base = f.base /\ d.pack = f.pack /\ d.at = f.at
  BY <1>1 DEF EntryT
<1>4. QED
  BY <1>2, <1>3

\* What a delete changes of the entries.
LEMMA DeleteFields ==
  ASSUME Typed, delete
  PROVE  /\ Ids(entries') = Ids(entries)
         /\ \A i \in Ids(entries) :
              /\ At(entries', i).of = At(entries, i).of /\ At(entries', i).kind = At(entries, i).kind
              /\ At(entries', i).base = At(entries, i).base /\ At(entries', i).pack = At(entries, i).pack
              /\ At(entries', i).at = At(entries, i).at
              /\ At(entries, i).deleted => At(entries', i).deleted
<1>1. PICK id \in Live(entries) :
        /\ At(entries', id) = [At(entries, id) EXCEPT !.deleted = TRUE]
        /\ \A i \in Ids(entries) : i # id => At(entries', i) = At(entries, i)
  BY AfterDelete
<1>2. Ids(entries') = Ids(entries)
  BY AfterDelete DEF Ids
<1>3. PICK e \in EntryT : e = At(entries, id)
  BY DEF Typed, Live, Ids, At
<1>4. PICK f : f = [e EXCEPT !.deleted = TRUE]
  OBVIOUS
<1>5. /\ f.of = e.of /\ f.kind = e.kind /\ f.base = e.base /\ f.pack = e.pack /\ f.at = e.at
      /\ f.deleted
  BY <1>4 DEF EntryT
<1>6. At(entries', id) = f
  BY <1>1, <1>3, <1>4
<1>7. QED
  BY <1>1, <1>2, <1>3, <1>5, <1>6

\* What a rebase changes of the entries, and its writes.
LEMMA RebaseFields ==
  ASSUME Typed, rebase
  PROVE  /\ Ids(entries') = Ids(entries)
         /\ \E id \in Live(entries) :
              /\ At(entries, id).kind = "large"
              /\ At(entries', id).of = At(entries, id).of /\ At(entries', id).kind = "large"
              /\ At(entries', id).base = None
              /\ At(entries', id).deleted <=> At(entries, id).deleted
              /\ \A i \in Ids(entries) : i # id => At(entries', i) = At(entries, i)
              /\ IsStream(todo'[1], id) /\ todo'[1].value \in LargeStreams(At(entries', id))
              /\ todo'[2] = Line(line(id, At(entries', id)))
              /\ \A k \in 1..Len(todo') : k = 1 \/ (k # 1 /\ todo'[k].to \in {"index", "sidecar"})
<1>0. Ids(entries') = Ids(entries)
  BY AfterRebase DEF Ids
<1>1. PICK id \in Live(entries) :
        /\ At(entries, id).kind = "large"
        /\ At(entries', id) = [At(entries, id) EXCEPT !.base = None]
        /\ \A i \in Ids(entries) : i # id => At(entries', i) = At(entries, i)
        /\ todo'[1] = Stream(id, [of |-> At(entries', id).of, base |-> None, members |-> <<>>])
        /\ todo'[2] = Line(line(id, At(entries', id)))
  BY AfterRebase
<1>2. PICK e \in EntryT : e = At(entries, id)
  BY DEF Typed, Live, Ids, At
<1>3. PICK f : f = [e EXCEPT !.base = None]
  OBVIOUS
<1>4. f.of = e.of /\ f.kind = e.kind /\ f.base = None /\ (f.deleted <=> e.deleted)
  BY <1>3 DEF EntryT
<1>5. At(entries', id) = f
  BY <1>1, <1>2, <1>3
<1>6. PICK v : v = [of |-> At(entries', id).of, base |-> None, members |-> <<>>]
  OBVIOUS
<1>7. v.of = At(entries', id).of /\ v.base = None
  BY <1>6
<1>8. todo' \in Seq(WriteT) /\ Len(todo') = 3 /\ todo'[1].to = "stream" /\ todo'[3].to = "sidecar"
  BY AfterRebase
<1>9. todo'[1].id = id /\ todo'[1].value = v
  BY <1>1, <1>6 DEF Stream
<1>10. IsStream(todo'[1], id)
  BY <1>8, <1>9 DEF IsStream
<1>11. v \in StreamT
  <2>1. todo'[1] \in WriteT
    BY <1>8
  <2>2. PICK w \in WriteT : w = todo'[1]
    BY <2>1
  <2>3. w.to = "stream" => w.value \in StreamT
    BY DEF WriteT
  <2>4. QED
    BY <2>2, <2>3, <1>8, <1>9
<1>12. todo'[1].value \in LargeStreams(At(entries', id))
  BY <1>4, <1>5, <1>7, <1>9, <1>11 DEF LargeStreams
<1>13. todo'[2].to = "index"
  <2>1. id \in Ids(entries)
    BY DEF Live
  <2>2. DuePut(todo'[2], id)
    BY <1>1, <2>1, LinesRebase
  <2>3. QED
    BY <2>2 DEF DuePut
<1>14. \A k \in 1..Len(todo') : k = 1 \/ k = 2 \/ k = 3
  BY <1>8
<1>15. \A k \in 1..Len(todo') : k = 1 \/ (k # 1 /\ todo'[k].to \in {"index", "sidecar"})
  BY <1>8, <1>13, <1>14
<1>16. QED
  BY <1>0, <1>1, <1>2, <1>4, <1>5, <1>10, <1>12, <1>15

LEMMA LargeWrite ==
  ASSUME Typed, LargeKept, Write
  PROVE  LargeKept'
<1>1. PICK w : w = Head(todo)
  OBVIOUS
<1>2. /\ w = todo[1] /\ 1 \in 1..Len(todo) /\ Len(todo') = Len(todo) - 1
      /\ \A k \in 1..(Len(todo) - 1) : k + 1 \in 1..Len(todo) /\ todo'[k] = todo[k + 1]
      /\ \A k \in 1..Len(todo) : k = 1 \/ (k - 1 \in 1..(Len(todo) - 1) /\ todo'[k - 1] = todo[k])
      /\ \A i : Due(todo, i) <=> DuePut(w, i) \/ Due(todo', i)
      /\ \A i : Has(index', i) <=> Has(index, i) \/ DuePut(w, i)
      /\ \A i : Deletes(index', i) <=> Deletes(index, i) \/ DueDelete(w, i)
  BY <1>1, LinesWrite
<1>3. entries' = entries /\ Len(todo) \in Nat
  BY DEF Write, memory, Typed
<1>4. Based(entries, index', todo')
  <2>1. ASSUME NEW i \in Ids(entries), At(entries, i).kind = "large", At(entries, i).base # None
        PROVE  /\ Has(index', i) => Has(index', At(entries, i).base)
               /\ \A k \in 1..Len(todo') :
                    DuePut(todo'[k], i) =>
                      Has(index', At(entries, i).base)
                        \/ \E j \in 1..(k - 1) : DuePut(todo'[j], At(entries, i).base)
    <3>1. PICK b : b = At(entries, i).base
      OBVIOUS
    <3>2. /\ Has(index, i) => Has(index, b)
          /\ \A k \in 1..Len(todo) :
               DuePut(todo[k], i) => Has(index, b) \/ \E j \in 1..(k - 1) : DuePut(todo[j], b)
      BY <2>1, <3>1 DEF LargeKept, Based
    <3>3. DuePut(w, i) => Has(index, b)
      BY <3>2, <1>2
    <3>4. ASSUME NEW k \in 1..Len(todo'), DuePut(todo'[k], i)
          PROVE  Has(index', b) \/ \E j \in 1..(k - 1) : DuePut(todo'[j], b)
      <4>1. k + 1 \in 1..Len(todo) /\ DuePut(todo[k + 1], i)
        BY <3>4, <1>2
      <4>2. PICK x \in 1..Len(todo) : x = k + 1
        BY <4>1
      <4>3. CASE Has(index, b)
        BY <4>3, <1>2
      <4>4. ASSUME NEW j \in 1..(x - 1), DuePut(todo[j], b)
            PROVE  Has(index', b) \/ \E y \in 1..(k - 1) : DuePut(todo'[y], b)
        <5>1. j \in 1..Len(todo)
          BY <4>2, <1>3
        <5>2. CASE j = 1
          BY <5>2, <4>4, <1>2
        <5>3. CASE j # 1
          <6>1. todo'[j - 1] = todo[j]
            BY <5>1, <5>3, <1>2
          <6>2. j - 1 \in 1..(k - 1)
            BY <5>1, <5>3, <4>2, <1>3, <4>4
          <6>3. QED
            BY <6>1, <6>2, <4>4
        <5>4. QED
          BY <5>2, <5>3
      <4>5. QED
        BY <4>1, <4>2, <4>3, <4>4, <3>2
    <3>5. QED
      BY <3>1, <3>2, <3>3, <3>4, <1>2
  <2>2. QED
    BY <2>1 DEF Based
<1>5. \A i : Required(entries, index', todo', i) => Required(entries, index, todo, i)
  BY <1>2 DEF Required
<1>6. PICK T \in SUBSET Ids(entries) : HoldsLarge(entries, index, todo, streams, T)
  BY DEF LargeKept
<1>7. \A c \in T : Holds(todo', streams', c, LargeStreams(At(entries, c)))
  BY <1>6, HoldsWrite DEF HoldsLarge
<1>8. HoldsLarge(entries, index', todo', streams', T)
  BY <1>5, <1>6, <1>7 DEF HoldsLarge
<1>9. QED
  BY <1>3, <1>4, <1>8 DEF LargeKept

LEMMA SmallWrite ==
  ASSUME Typed, SmallKept, Write
  PROVE  SmallKept'
<1>1. PICK w : w = Head(todo)
  OBVIOUS
<1>2. /\ \A i : Due(todo, i) <=> DuePut(w, i) \/ Due(todo', i)
      /\ \A i : Has(index', i) <=> Has(index, i) \/ DuePut(w, i)
      /\ \A i : Deletes(index', i) <=> Deletes(index, i) \/ DueDelete(w, i)
      /\ todo' # <<>> => busy' = busy
  BY <1>1, LinesWrite
<1>3. entries' = entries
  BY DEF Write, memory
<1>4. todo' = <<>> => \A i : ~Due(todo', i)
  <2>1. ASSUME todo' = <<>>
        PROVE  \A k \in 1..Len(todo') : FALSE
    BY ONLY <2>1
  <2>2. QED
    BY <2>1 DEF Due
<1>5. \A i : Required(entries, index', todo', i) => Required(entries, index, todo, i)
  BY <1>2 DEF Required
<1>6. ASSUME NEW i \in Ids(entries), At(entries, i).kind = "small"
      PROVE  HoldsSmall(entries, index', todo', streams', busy', i)
  <2>1. HoldsSmall(entries, index, todo, streams, busy, i)
    BY <1>6 DEF SmallKept
  <2>2. Due(todo', i) => busy' = "flush"
    BY <2>1, <1>2, <1>4 DEF HoldsSmall
  <2>3. ASSUME Required(entries, index', todo', i)
        PROVE  /\ At(entries, i).pack \in Ids(entries) /\ At(entries, At(entries, i).pack).kind = "pack"
               /\ Has(index', At(entries, i).pack) \/ Due(todo', At(entries, i).pack)
               /\ Has(index', i) /\ busy' # "flush" => Has(index', At(entries, i).pack)
               /\ Holds(todo', streams', At(entries, i).pack, SmallStreams(At(entries, i)))
    <3>1. PICK p : p = At(entries, i).pack
      OBVIOUS
    <3>2. /\ p \in Ids(entries) /\ At(entries, p).kind = "pack"
          /\ Has(index, p) \/ Due(todo, p)
          /\ Has(index, i) /\ busy # "flush" => Has(index, p)
          /\ Holds(todo, streams, p, SmallStreams(At(entries, i)))
      BY <2>1, <2>3, <1>5, <3>1 DEF HoldsSmall
    <3>3. Has(index', p) \/ Due(todo', p)
      BY <3>2, <1>2
    <3>4. ASSUME Has(index', i), busy' # "flush"
          PROVE  Has(index', p)
      <4>1. CASE todo' = <<>>
        BY <4>1, <3>3, <1>4
      <4>2. CASE todo' # <<>>
        <5>1. busy # "flush"
          BY <4>2, <3>4, <1>2
        <5>2. Has(index, i)
          BY <5>1, <3>4, <2>1, <1>2 DEF HoldsSmall
        <5>3. QED
          BY <5>1, <5>2, <3>2, <1>2
      <4>3. QED
        BY <4>1, <4>2
    <3>5. Holds(todo', streams', p, SmallStreams(At(entries, i)))
      BY <3>2, HoldsWrite
    <3>6. QED
      BY <3>1, <3>2, <3>3, <3>4, <3>5
  <2>4. QED
    BY <2>2, <2>3 DEF HoldsSmall
<1>7. QED
  BY <1>3, <1>6 DEF SmallKept

\* A kill outside a rebase: the entries opened are those in memory that have a
\* line, but for the deletion, and no stream of theirs is under way.
LEMMA KillFields ==
  ASSUME Typed, Kept, Under(entries, todo), NEW i, Has(index, i), ~Due(todo, i)
  PROVE  /\ i \in Ids(entries) /\ i \in Ids(Opened)
         /\ At(Opened, i).of = At(entries, i).of /\ At(Opened, i).kind = At(entries, i).kind
         /\ At(Opened, i).base = At(entries, i).base /\ At(Opened, i).pack = At(entries, i).pack
         /\ At(Opened, i).at = At(entries, i).at
         /\ At(Opened, i).deleted <=> Deletes(index, i)
         /\ \A k \in 1..Len(todo) : ~IsStream(todo[k], i)
<1>1. /\ i \in Ids(entries) /\ i \in Ids(Opened)
      /\ At(Opened, i) \in EntryT /\ At(entries, i) \in EntryT
      /\ At(Opened, i).deleted <=> Deletes(index, i)
      /\ [At(Opened, i) EXCEPT !.deleted = FALSE] = [At(entries, i) EXCEPT !.deleted = FALSE]
  BY OpenedKeeps
<1>2. Len(todo) \in Nat
  BY DEF Typed
<1>3. \A k \in 1..Len(todo) : ~IsStream(todo[k], i)
  BY <1>2, StreamsUnder
<1>4. QED
  BY <1>1, <1>3, SameFields

\* Nothing is under way once the process was killed.
LEMMA AfterKill ==
  ASSUME Kill
  PROVE  /\ entries' = Opened /\ index' = index /\ busy' = None
         /\ Len(todo') = 0 /\ (\A k \in 1..Len(todo') : FALSE) /\ \A i : ~Due(todo', i)
<1>1. entries' = Opened /\ index' = index /\ busy' = None /\ todo' = <<>>
  BY DEF Kill
<1>2. Len(todo') = 0 /\ \A k \in 1..Len(todo') : FALSE
  BY ONLY <1>1
<1>3. QED
  BY <1>1, <1>2 DEF Due

LEMMA LargeKill ==
  ASSUME Typed, Kept, Under(entries, todo), LargeKept, Kill, "rebase cut" \notin events'
  PROVE  LargeKept'
<1>1. /\ entries' = Opened /\ index' = index
      /\ (\A k \in 1..Len(todo') : FALSE) /\ \A i : ~Due(todo', i)
  BY AfterKill
<1>2. todo = <<>> \/ busy # "rebase"
  BY DEF Kill, Cut
<1>3. ASSUME NEW i, Has(index, i)
      PROVE  ~Due(todo, i)
  <2>1. CASE todo = <<>>
    BY <2>1, IdleWrites
  <2>2. CASE busy # "rebase"
    BY <2>2, <1>3, LinesInIds DEF Kept, Once
  <2>3. QED
    BY <1>2, <2>1, <2>2
<1>4. ASSUME NEW i, Has(index, i)
      PROVE  /\ i \in Ids(entries) /\ i \in Ids(Opened)
             /\ At(Opened, i).of = At(entries, i).of /\ At(Opened, i).kind = At(entries, i).kind
             /\ At(Opened, i).base = At(entries, i).base
             /\ At(Opened, i).deleted <=> Deletes(index, i)
             /\ \A k \in 1..Len(todo) : ~IsStream(todo[k], i)
  BY <1>3, <1>4, KillFields
<1>5. ASSUME NEW i \in Ids(Opened), At(Opened, i).kind = "large"
      PROVE  Has(index, i)
  <2>1. Lost.kind = "small"
    BY DEF Lost
  <2>2. At(Opened, i) # Lost
    BY <2>1, <1>5
  <2>3. QED
    BY <2>2, OpenedKeeps
<1>6. PICK T \in SUBSET Ids(entries) : HoldsLarge(entries, index, todo, streams, T)
  BY DEF LargeKept
<1>7. ASSUME NEW i, Has(index, i), At(entries, i).kind = "large", At(entries, i).base # None
      PROVE  Has(index, At(entries, i).base)
  BY <1>4, <1>7 DEF LargeKept, Based
<1>8. Based(Opened, index, todo')
  <2>1. ASSUME NEW i \in Ids(Opened), At(Opened, i).kind = "large", At(Opened, i).base # None
        PROVE  Has(index, At(Opened, i).base)
    BY <2>1, <1>4, <1>5, <1>7
  <2>2. QED
    BY <2>1, <1>1 DEF Based
<1> DEFINE U == {c \in T : Has(index, c)}
<1>9. U \in SUBSET Ids(Opened)
  BY <1>4
<1>10. HoldsLarge(Opened, index, todo', streams', U)
  <2>1. \A c \in U : c \in Ids(Opened) /\ At(Opened, c).kind = "large"
    BY <1>4, <1>6 DEF HoldsLarge
  <2>2. ASSUME NEW c \in U, At(Opened, c).base # None
        PROVE  At(Opened, c).base \in U
    <3>1. PICK b : b = At(Opened, c).base
      OBVIOUS
    <3>2. b = At(entries, c).base
      BY <3>1, <1>4
    <3>3. b \in T
      BY <3>1, <3>2, <2>2, <1>6 DEF HoldsLarge
    <3>4. Has(index, b)
      <4>1. Has(index, c) /\ At(entries, c).kind = "large"
        BY <1>6 DEF HoldsLarge
      <4>2. At(entries, c).base # None
        BY <2>2, <3>1, <3>2
      <4>3. QED
        BY <4>1, <4>2, <3>2, <1>7
    <3>5. QED
      BY <3>1, <3>3, <3>4
  <2>3. ASSUME NEW i \in Ids(Opened), At(Opened, i).kind = "large", Required(Opened, index, todo', i)
        PROVE  i \in U
    <3>1. Has(index, i)
      BY <2>3, <1>5
    <3>2. ~Deletes(index, i)
      BY <2>3, <3>1, <1>4 DEF Required
    <3>3. i \in Ids(entries) /\ At(entries, i).kind = "large" /\ Required(entries, index, todo, i)
      BY <2>3, <3>1, <3>2, <1>4 DEF Required
    <3>4. QED
      BY <3>1, <3>3, <1>6 DEF HoldsLarge
  <2>4. ASSUME NEW c \in U
        PROVE  Holds(todo', streams', c, LargeStreams(At(Opened, c)))
    <3>1. Holds(todo, streams, c, LargeStreams(At(entries, c)))
      BY <1>6 DEF HoldsLarge
    <3>2. LargeStreams(At(Opened, c)) = LargeStreams(At(entries, c))
      BY <1>4 DEF LargeStreams
    <3>3. QED
      BY <3>1, <3>2, <1>4, HoldsKill
  <2>5. QED
    BY <2>1, <2>2, <2>3, <2>4 DEF HoldsLarge
<1>11. QED
  BY <1>1, <1>8, <1>9, <1>10 DEF LargeKept

LEMMA SmallKill ==
  ASSUME Typed, Kept, Under(entries, todo), SmallKept, Kill, "flush cut" \notin events'
  PROVE  SmallKept'
<1>1. /\ entries' = Opened /\ index' = index /\ busy' = None
      /\ (\A k \in 1..Len(todo') : FALSE) /\ \A i : ~Due(todo', i)
  BY AfterKill
<1>2. todo = <<>> \/ busy # "flush"
  BY DEF Kill, Cut
<1>3. ASSUME NEW i, Has(index, i), At(entries, i).kind # "large"
      PROVE  /\ i \in Ids(entries) /\ i \in Ids(Opened)
             /\ At(Opened, i).of = At(entries, i).of /\ At(Opened, i).kind = At(entries, i).kind
             /\ At(Opened, i).pack = At(entries, i).pack /\ At(Opened, i).at = At(entries, i).at
             /\ At(Opened, i).deleted <=> Deletes(index, i)
             /\ \A k \in 1..Len(todo) : ~IsStream(todo[k], i)
  <2>1. ~Due(todo, i)
    BY <1>3, LinesInIds DEF Kept, Once
  <2>2. QED
    BY <2>1, <1>3, KillFields
<1>4. ASSUME NEW i \in Ids(Opened), At(Opened, i).kind = "small", Required(Opened, index, todo', i)
      PROVE  /\ At(Opened, i).pack \in Ids(Opened) /\ At(Opened, At(Opened, i).pack).kind = "pack"
             /\ Has(index, At(Opened, i).pack)
             /\ Holds(todo', streams', At(Opened, i).pack, SmallStreams(At(Opened, i)))
  <2>1. Has(index, i)
    BY <1>1, <1>4 DEF Required
  <2>2. i \in Ids(entries) /\ At(entries, i).kind = "small"
    BY <2>1, <1>4, OpenedKeeps
  <2>3. /\ At(Opened, i).of = At(entries, i).of
        /\ At(Opened, i).pack = At(entries, i).pack /\ At(Opened, i).at = At(entries, i).at
        /\ At(Opened, i).deleted <=> Deletes(index, i)
    BY <2>1, <2>2, <1>3
  <2>4. Required(entries, index, todo, i)
    BY <2>1, <2>3, <1>4 DEF Required
  <2>5. PICK p : p = At(entries, i).pack
    OBVIOUS
  <2>6. /\ p \in Ids(entries) /\ At(entries, p).kind = "pack"
        /\ Has(index, p) \/ Due(todo, p)
        /\ busy # "flush" => Has(index, p)
        /\ Holds(todo, streams, p, SmallStreams(At(entries, i)))
    BY <2>1, <2>2, <2>4, <2>5 DEF SmallKept, HoldsSmall
  <2>7. Has(index, p)
    BY <2>6, <1>2, IdleWrites
  <2>8. /\ p \in Ids(Opened) /\ At(Opened, p).kind = "pack"
        /\ \A k \in 1..Len(todo) : ~IsStream(todo[k], p)
    BY <2>6, <2>7, <1>3
  <2>9. Holds(todo', streams', p, SmallStreams(At(entries, i)))
    BY <2>6, <2>8, HoldsKill
  <2>10. SmallStreams(At(Opened, i)) = SmallStreams(At(entries, i))
    BY <2>3 DEF SmallStreams
  <2>11. QED
    BY <2>3, <2>5, <2>7, <2>8, <2>9, <2>10
<1>5. \A i \in Ids(Opened) :
        At(Opened, i).kind = "small" => HoldsSmall(Opened, index, todo', streams', None, i)
  BY <1>1, <1>4 DEF HoldsSmall
<1>6. QED
  BY <1>1, <1>5 DEF SmallKept

LEMMA LargePutLarge ==
  ASSUME Typed, Kept, Under(entries, todo), LargeKept, PutLarge
  PROVE  LargeKept'
<1> DEFINE n == Len(entries)
           t == Len(todo)
<1>0. n \in Nat /\ t \in Nat
  BY DEF Typed
<1>1. /\ Len(entries') = n + 1 /\ Len(todo') = t + 3
      /\ \A i \in Ids(entries) : At(entries', i) = At(entries, i)
      /\ \A k \in 1..t : todo'[k] = todo[k]
      /\ todo'[t + 1] = Stream(n, [of |-> At(entries', n).of, base |-> At(entries', n).base,
                                   members |-> <<>>])
      /\ todo'[t + 1].to = "stream" /\ todo'[t + 2].to = "sidecar"
      /\ At(entries', n).base \in {None} \cup {i \in Live(entries) : At(entries, i).kind = "large"}
      /\ todo' \in Seq(WriteT)
  BY AfterPutLarge
<1>2. index' = index /\ streams' = streams
  BY DEF PutLarge, disk
<1>3. Ids(entries') = Ids(entries) \cup {n} /\ n \notin Ids(entries)
  BY <1>0, <1>1 DEF Ids
<1>4. /\ At(entries', n).kind = "large" /\ todo'[t + 3].to = "index"
      /\ \A i : DuePut(todo'[t + 3], i) <=> i = n
      /\ \A i : Due(todo', i) <=> Due(todo, i) \/ i = n
  <2>1. /\ At(entries', n).kind = "large"
        /\ \A i : DuePut(todo'[t + 3], i) <=> i = n
        /\ \A i : Due(todo', i) <=> Due(todo, i) \/ i = n
    BY LinesPutLarge
  <2>2. DuePut(todo'[t + 3], n)
    BY <2>1
  <2>3. QED
    BY <2>1, <2>2 DEF DuePut
<1>5. ~Has(index, n) /\ ~Due(todo, n)
  BY <1>3, LinesInIds
<1>6. PICK T \in SUBSET Ids(entries) : HoldsLarge(entries, index, todo, streams, T)
  BY DEF LargeKept
<1>7. PICK b : b = At(entries', n).base
  OBVIOUS
<1>8. ASSUME b # None
      PROVE  b \in T /\ (Has(index, b) \/ Due(todo, b))
  <2>1. b \in Live(entries) /\ At(entries, b).kind = "large"
    BY <1>1, <1>7, <1>8
  <2>2. b \in Ids(entries) /\ Required(entries, index, todo, b)
    BY <2>1, LiveLargeRequired
  <2>3. QED
    BY <2>1, <2>2, <1>6 DEF HoldsLarge, Required
<1>9. \A k \in 1..Len(todo') : k \in 1..t \/ k = t + 1 \/ k = t + 2 \/ k = t + 3
  <2>1. t \in Nat /\ Len(todo') = t + 3
    BY <1>0, <1>1
  <2>2. QED
    BY ONLY <2>1
<1>10. \A k \in 1..t : k \in 1..Len(todo')
  BY <1>0, <1>1
<1>11. Based(entries', index, todo')
  <2>1. ASSUME NEW i \in Ids(entries), At(entries, i).kind = "large", At(entries, i).base # None
        PROVE  /\ Has(index, i) => Has(index, At(entries, i).base)
               /\ \A k \in 1..Len(todo') :
                    DuePut(todo'[k], i) =>
                      Has(index, At(entries, i).base)
                        \/ \E j \in 1..(k - 1) : DuePut(todo'[j], At(entries, i).base)
    <3>1. PICK c : c = At(entries, i).base
      OBVIOUS
    <3>2. /\ Has(index, i) => Has(index, c)
          /\ \A k \in 1..t : DuePut(todo[k], i) => Has(index, c) \/ \E j \in 1..(k - 1) : DuePut(todo[j], c)
      BY <2>1, <3>1 DEF LargeKept, Based
    <3>3. ASSUME NEW k \in 1..Len(todo'), DuePut(todo'[k], i)
          PROVE  Has(index, c) \/ \E j \in 1..(k - 1) : DuePut(todo'[j], c)
      <4>1. i # n
        BY <1>3
      <4>2. k \in 1..t
        BY <3>3, <4>1, <1>1, <1>4, <1>9 DEF DuePut
      <4>3. \A j \in 1..(k - 1) : j \in 1..t
        BY <4>2, <1>0
      <4>4. QED
        BY <3>2, <3>3, <4>2, <4>3, <1>1
    <3>4. QED
      BY <3>1, <3>2, <3>3
  <2>2. ASSUME b # None
        PROVE  /\ ~Has(index, n)
               /\ \A k \in 1..Len(todo') :
                    DuePut(todo'[k], n) => Has(index, b) \/ \E j \in 1..(k - 1) : DuePut(todo'[j], b)
    <3>1. ASSUME NEW k \in 1..Len(todo'), DuePut(todo'[k], n), ~Has(index, b)
          PROVE  \E j \in 1..(k - 1) : DuePut(todo'[j], b)
      <4>1. k = t + 3
        <5>1. k \notin 1..t
          BY <3>1, <1>1, <1>5 DEF Due
        <5>2. QED
          BY <5>1, <3>1, <1>1, <1>9 DEF DuePut
      <4>2. PICK j \in 1..t : DuePut(todo[j], b)
        BY <2>2, <3>1, <1>8 DEF Due
      <4>3. j \in 1..(k - 1)
        BY <4>1, <1>0
      <4>4. QED
        BY <4>2, <4>3, <1>1
    <3>2. QED
      BY <3>1, <1>5
  <2>3. QED
    BY <2>1, <2>2, <1>1, <1>3, <1>7 DEF Based
<1>12. ASSUME NEW c \in T
       PROVE  Holds(todo', streams, c, LargeStreams(At(entries, c)))
  <2>1. Holds(todo, streams, c, LargeStreams(At(entries, c)))
    BY <1>6 DEF HoldsLarge
  <2>2. c # n
    BY <1>3
  <2>3. ~IsStream(todo'[t + 1], c)
    BY <1>1, <2>2 DEF Stream, IsStream
  <2>4. \A k \in 1..Len(todo') : k \in 1..t \/ (~IsStream(todo'[k], c) /\ ~IsRemove(todo'[k], c))
    BY <2>3, <1>1, <1>4, <1>9 DEF IsStream, IsRemove
  <2>5. QED
    BY <2>1, <2>4, <1>1, <1>10, HoldsMore
<1>13. Holds(todo', streams, n, LargeStreams(At(entries', n)))
  <2>1. PICK j : j = t + 1
    OBVIOUS
  <2>2. PICK v : v = [of |-> At(entries', n).of, base |-> At(entries', n).base, members |-> <<>>]
    OBVIOUS
  <2>3. todo'[j].id = n /\ todo'[j].value = v /\ todo'[j].to = "stream"
    BY <1>1, <2>1, <2>2 DEF Stream
  <2>4. j \in 1..Len(todo')
    BY <1>0, <1>1, <2>1
  <2>5. v \in StreamT
    <3>1. todo'[j] \in WriteT
      BY <1>1, <2>4
    <3>2. PICK w \in WriteT : w = todo'[j]
      BY <3>1
    <3>3. w.to = "stream" => w.value \in StreamT
      BY DEF WriteT
    <3>4. QED
      BY <3>2, <3>3, <2>3
  <2>6. v.of = At(entries', n).of /\ v.base = At(entries', n).base
    BY <2>2
  <2>7. v \in LargeStreams(At(entries', n))
    BY <2>5, <2>6 DEF LargeStreams
  <2>8. ASSUME NEW k \in 1..t
        PROVE  ~IsRemove(todo[k], n) /\ ~IsStream(todo[k], n)
    <3>1. ~IsRemove(todo[k], n)
      BY <1>3 DEF Under, IsRemove
    <3>2. ~IsStream(todo[k], n)
      BY <1>0, <1>5, StreamsUnder
    <3>3. QED
      BY <3>1, <3>2
  <2>9. \A k \in 1..Len(todo') : ~IsRemove(todo'[k], n) /\ (IsStream(todo'[k], n) => k = j)
    BY <2>1, <2>3, <2>8, <1>1, <1>4, <1>9 DEF IsStream, IsRemove
  <2>10. IsStream(todo'[j], n)
    BY <2>3 DEF IsStream
  <2>11. QED
    BY <2>3, <2>4, <2>7, <2>9, <2>10, HoldsNew
<1> DEFINE U == T \cup {n}
<1>14. HoldsLarge(entries', index, todo', streams, U)
  <2>1. \A c \in U : c \in Ids(entries') /\ At(entries', c).kind = "large"
    BY <1>1, <1>3, <1>4, <1>6 DEF HoldsLarge
  <2>2. \A c \in U : At(entries', c).base # None => At(entries', c).base \in U
    BY <1>1, <1>3, <1>6, <1>7, <1>8 DEF HoldsLarge
  <2>3. \A i \in Ids(entries') : At(entries', i).kind = "large" /\ Required(entries', index, todo', i) => i \in U
    <3>1. ASSUME NEW i \in Ids(entries), Required(entries', index, todo', i)
          PROVE  Required(entries, index, todo, i)
      BY <3>1, <1>1, <1>3, <1>4 DEF Required
    <3>2. QED
      BY <3>1, <1>1, <1>3, <1>6 DEF HoldsLarge
  <2>4. \A c \in U : Holds(todo', streams, c, LargeStreams(At(entries', c)))
    BY <1>1, <1>6, <1>12, <1>13
  <2>5. QED
    BY <2>1, <2>2, <2>3, <2>4 DEF HoldsLarge
<1>15. U \in SUBSET Ids(entries')
  BY <1>3, <1>6
<1>16. QED
  BY <1>2, <1>11, <1>14, <1>15 DEF LargeKept

LEMMA SmallPutLarge ==
  ASSUME Typed, Kept, SmallKept, PutLarge
  PROVE  SmallKept'
<1> DEFINE n == Len(entries)
           t == Len(todo)
<1>0. n \in Nat /\ t \in Nat
  BY DEF Typed
<1>1. /\ Len(entries') = n + 1 /\ Len(todo') = t + 3
      /\ \A i \in Ids(entries) : At(entries', i) = At(entries, i)
      /\ \A k \in 1..t : todo'[k] = todo[k]
      /\ todo'[t + 1] = Stream(n, [of |-> At(entries', n).of, base |-> At(entries', n).base,
                                   members |-> <<>>])
      /\ todo'[t + 1].to = "stream" /\ todo'[t + 2].to = "sidecar"
  BY AfterPutLarge
<1>2. index' = index /\ streams' = streams /\ busy' = busy
  BY DEF PutLarge, disk
<1>3. Ids(entries') = Ids(entries) \cup {n} /\ n \notin Ids(entries)
  BY <1>0, <1>1 DEF Ids
<1>4. /\ At(entries', n).kind = "large" /\ todo'[t + 3].to = "index"
      /\ \A i : Due(todo', i) <=> Due(todo, i) \/ i = n
  <2>1. /\ At(entries', n).kind = "large"
        /\ \A i : DuePut(todo'[t + 3], i) <=> i = n
        /\ \A i : Due(todo', i) <=> Due(todo, i) \/ i = n
    BY LinesPutLarge
  <2>2. DuePut(todo'[t + 3], n)
    BY <2>1
  <2>3. QED
    BY <2>1, <2>2 DEF DuePut
<1>5. \A k \in 1..Len(todo') : k \in 1..t \/ k = t + 1 \/ k = t + 2 \/ k = t + 3
  BY <1>0, <1>1
<1>6. \A k \in 1..t : k \in 1..Len(todo')
  BY <1>0, <1>1
<1>7. ASSUME NEW i \in Ids(entries), At(entries, i).kind = "small"
      PROVE  HoldsSmall(entries', index, todo', streams, busy, i)
  <2>1. HoldsSmall(entries, index, todo, streams, busy, i)
    BY <1>7 DEF SmallKept
  <2>2. At(entries', i) = At(entries, i) /\ (Due(todo', i) <=> Due(todo, i))
    BY <1>1, <1>3, <1>4
  <2>3. Required(entries', index, todo', i) => Required(entries, index, todo, i)
    BY <2>2 DEF Required
  <2>4. PICK p : p = At(entries, i).pack
    OBVIOUS
  <2>5. ASSUME Required(entries, index, todo, i)
        PROVE  /\ p \in Ids(entries') /\ At(entries', p).kind = "pack"
               /\ Has(index, p) \/ Due(todo', p)
               /\ Has(index, i) /\ busy # "flush" => Has(index, p)
               /\ Holds(todo', streams, p, SmallStreams(At(entries, i)))
    <3>1. /\ p \in Ids(entries) /\ At(entries, p).kind = "pack"
          /\ Has(index, p) \/ Due(todo, p)
          /\ Has(index, i) /\ busy # "flush" => Has(index, p)
          /\ Holds(todo, streams, p, SmallStreams(At(entries, i)))
      BY <2>1, <2>4, <2>5 DEF HoldsSmall
    <3>2. p # n
      BY <3>1, <1>3
    <3>3. ~IsStream(todo'[t + 1], p)
      BY <1>1, <3>2 DEF Stream, IsStream
    <3>4. \A k \in 1..Len(todo') : k \in 1..t \/ (~IsStream(todo'[k], p) /\ ~IsRemove(todo'[k], p))
      BY <3>3, <1>1, <1>4, <1>5 DEF IsStream, IsRemove
    <3>5. Holds(todo', streams, p, SmallStreams(At(entries, i)))
      BY <3>1, <3>4, <1>1, <1>6, HoldsMore
    <3>6. QED
      BY <3>1, <3>5, <1>1, <1>3, <1>4
  <2>6. QED
    BY <2>1, <2>2, <2>3, <2>4, <2>5 DEF HoldsSmall
<1>8. \A i \in Ids(entries') :
        At(entries', i).kind = "small" => HoldsSmall(entries', index, todo', streams, busy, i)
  BY <1>1, <1>3, <1>4, <1>7
<1>9. QED
  BY <1>2, <1>8 DEF SmallKept

LEMMA StreamsPutSmall ==
  ASSUME Typed, Kept, PutSmall
  PROVE  /\ LargeKept => LargeKept'
         /\ SmallKept => SmallKept'
<1> DEFINE n == Len(entries)
<1>1. /\ Len(entries') = n + 1 /\ n \in Nat
      /\ \A i \in Ids(entries) : At(entries', i) = At(entries, i)
      /\ At(entries', n).kind = "small"
  BY AfterPutSmall DEF Typed
<1>2. index' = index /\ streams' = streams /\ todo' = todo /\ busy' = busy
  BY DEF PutSmall, disk
<1>3. Ids(entries') = Ids(entries) \cup {n} /\ n \notin Ids(entries)
  BY <1>1 DEF Ids
<1>4. ~Has(index, n) /\ ~Due(todo, n)
  BY <1>3, LinesInIds
<1>5. \A i \in Ids(entries) : Required(entries', index, todo, i) <=> Required(entries, index, todo, i)
  BY <1>1 DEF Required
<1>6. ASSUME LargeKept
      PROVE  LargeKept'
  <2>1. PICK T \in SUBSET Ids(entries) : HoldsLarge(entries, index, todo, streams, T)
    BY <1>6 DEF LargeKept
  <2>2. HoldsLarge(entries', index, todo, streams, T)
    BY <2>1, <1>1, <1>3, <1>5 DEF HoldsLarge
  <2>3. Based(entries', index, todo)
    BY <1>1, <1>3, <1>6 DEF LargeKept, Based
  <2>4. T \in SUBSET Ids(entries')
    BY <2>1, <1>3
  <2>5. QED
    BY <2>2, <2>3, <2>4, <1>2 DEF LargeKept
<1>7. ASSUME SmallKept
      PROVE  SmallKept'
  <2>1. ASSUME NEW i \in Ids(entries), At(entries, i).kind = "small"
        PROVE  HoldsSmall(entries', index, todo, streams, busy, i)
    <3>1. HoldsSmall(entries, index, todo, streams, busy, i)
      BY <2>1, <1>7 DEF SmallKept
    <3>2. QED
      BY <3>1, <1>1, <1>3, <1>5 DEF HoldsSmall
  <2>2. HoldsSmall(entries', index, todo, streams, busy, n)
    BY <1>4 DEF HoldsSmall, Required
  <2>3. QED
    BY <2>1, <2>2, <1>1, <1>2, <1>3 DEF SmallKept
<1>8. QED
  BY <1>6, <1>7

LEMMA LargeFlush ==
  ASSUME Typed, Kept, LargeKept, flush
  PROVE  LargeKept'
<1> DEFINE n == Len(entries)
<1>1. /\ Ids(entries') = Ids(entries) \cup {n} /\ n \notin Ids(entries)
      /\ \A i \in Ids(entries) :
           /\ At(entries', i).of = At(entries, i).of /\ At(entries', i).kind = At(entries, i).kind
           /\ At(entries', i).base = At(entries, i).base
           /\ At(entries', i).deleted <=> At(entries, i).deleted
      /\ At(entries', n).kind = "pack"
      /\ \A i \in Ids(entries') : Due(todo', i) <=> IsPending(i) \/ i = n
  BY LinesFlush
<1>2. index' = index /\ streams' = streams /\ todo = <<>>
  BY AfterFlush DEF flush, disk
<1>3. \A k \in 1..Len(todo') : k = 1 \/ (k # 1 /\ todo'[k].to \in {"index", "sidecar"})
  BY FlushWrites
<1>4. IsStream(todo'[1], n)
  BY FlushWrites
<1>5. ASSUME NEW i \in Ids(entries), At(entries, i).kind = "large"
      PROVE  ~Due(todo', i)
  <2>1. ~IsPending(i)
    BY <1>5 DEF IsPending, Kept, Waiting
  <2>2. QED
    BY <2>1, <1>1
<1>6. Based(entries', index, todo')
  <2>1. ASSUME NEW i \in Ids(entries), At(entries, i).kind = "large", At(entries, i).base # None
        PROVE  /\ Has(index, i) => Has(index, At(entries, i).base)
               /\ \A k \in 1..Len(todo') : ~DuePut(todo'[k], i)
    BY <2>1, <1>5 DEF LargeKept, Based, Due
  <2>2. QED
    BY <2>1, <1>1 DEF Based
<1>7. PICK T \in SUBSET Ids(entries) : HoldsLarge(entries, index, todo, streams, T)
  BY DEF LargeKept
<1>8. ASSUME NEW i \in Ids(entries), At(entries, i).kind = "large", Required(entries', index, todo', i)
      PROVE  Required(entries, index, todo, i)
  BY <1>8, <1>1, <1>5 DEF Required
<1>9. ASSUME NEW c \in T
      PROVE  Holds(todo', streams, c, LargeStreams(At(entries', c)))
  <2>1. Holds(todo, streams, c, LargeStreams(At(entries, c)))
    BY <1>7 DEF HoldsLarge
  <2>2. c # n
    BY <1>1
  <2>3. \A k \in 1..Len(todo') : ~IsStream(todo'[k], c) /\ ~IsRemove(todo'[k], c)
    BY <2>2, <1>3, <1>4 DEF IsStream, IsRemove
  <2>4. LargeStreams(At(entries', c)) = LargeStreams(At(entries, c))
    BY <1>1 DEF LargeStreams
  <2>5. QED
    BY <2>1, <2>3, <2>4, <1>2, HoldsIdle
<1>10. HoldsLarge(entries', index, todo', streams, T)
  <2>1. \A c \in T : c \in Ids(entries') /\ At(entries', c).kind = "large"
    BY <1>1, <1>7 DEF HoldsLarge
  <2>2. \A c \in T : At(entries', c).base # None => At(entries', c).base \in T
    BY <1>1, <1>7 DEF HoldsLarge
  <2>3. \A i \in Ids(entries') : At(entries', i).kind = "large" /\ Required(entries', index, todo', i) => i \in T
    BY <1>1, <1>7, <1>8 DEF HoldsLarge
  <2>4. QED
    BY <2>1, <2>2, <2>3, <1>9 DEF HoldsLarge
<1>11. T \in SUBSET Ids(entries')
  BY <1>1
<1>12. QED
  BY <1>2, <1>6, <1>10, <1>11 DEF LargeKept

LEMMA SmallFlush ==
  ASSUME Typed, Kept, SmallKept, flush
  PROVE  SmallKept'
<1> DEFINE n == Len(entries)
           m == Len(pending)
<1>1. /\ Ids(entries') = Ids(entries) \cup {n} /\ n \notin Ids(entries)
      /\ \A i \in Ids(entries) :
           /\ At(entries', i).of = At(entries, i).of /\ At(entries', i).kind = At(entries, i).kind
           /\ At(entries', i).at = At(entries, i).at
           /\ At(entries', i).deleted <=> At(entries, i).deleted
           /\ IsPending(i) => At(entries', i).pack = n
           /\ ~IsPending(i) => At(entries', i) = At(entries, i)
      /\ At(entries', n).kind = "pack"
      /\ \A i \in Ids(entries') : Due(todo', i) <=> IsPending(i) \/ i = n
  BY LinesFlush
<1>2. index' = index /\ streams' = streams /\ todo = <<>> /\ busy' = "flush"
  BY AfterFlush DEF flush, disk
<1>3. /\ 1 \in 1..Len(todo') /\ IsStream(todo'[1], n) /\ todo'[1].value \in StreamT
      /\ DOMAIN todo'[1].value.members = 1..m
      /\ \A k \in 1..m : todo'[1].value.members[k] = At(entries, pending[k]).of
      /\ \A k \in 1..Len(todo') : k = 1 \/ (k # 1 /\ todo'[k].to \in {"index", "sidecar"})
  BY FlushWrites
<1>4. ASSUME NEW i \in Ids(entries), IsPending(i)
      PROVE  Holds(todo', streams, n, SmallStreams(At(entries', i)))
  <2>1. PICK k \in 1..m : pending[k] = i
    BY <1>4 DEF IsPending
  <2>2. At(entries, i).at = k - 1 /\ k \in Nat
    BY <2>1 DEF Kept, Waiting
  <2>3. PICK x : x = At(entries', i).at
    OBVIOUS
  <2>4. x + 1 = k
    BY <2>2, <2>3, <1>1
  <2>5. PICK s \in StreamT : s = todo'[1].value
    BY <1>3
  <2>6. x + 1 \in DOMAIN s.members /\ s.members[x + 1] = At(entries', i).of
    BY <2>1, <2>4, <2>5, <1>1, <1>3
  <2>7. s \in SmallStreams(At(entries', i))
    BY <2>3, <2>6 DEF SmallStreams
  <2>8. \A j \in 1..Len(todo') : ~IsRemove(todo'[j], n) /\ (IsStream(todo'[j], n) => j = 1)
    BY <1>3 DEF IsStream, IsRemove
  <2>9. QED
    BY <2>5, <2>7, <2>8, <1>3, HoldsNew
<1>5. ASSUME NEW i \in Ids(entries), At(entries, i).kind = "small", Required(entries', index, todo', i)
      PROVE  /\ At(entries', i).pack \in Ids(entries') /\ At(entries', At(entries', i).pack).kind = "pack"
             /\ Has(index, At(entries', i).pack) \/ Due(todo', At(entries', i).pack)
             /\ Holds(todo', streams, At(entries', i).pack, SmallStreams(At(entries', i)))
  <2>1. CASE IsPending(i)
    BY <2>1, <1>1, <1>4
  <2>2. CASE ~IsPending(i)
    <3>1. At(entries', i) = At(entries, i)
      BY <2>2, <1>1
    <3>2. i # n
      BY <1>1
    <3>3. ~Due(todo', i)
      BY <2>2, <3>2, <1>1
    <3>4. Required(entries, index, todo, i)
      BY <3>1, <3>3, <1>5 DEF Required
    <3>5. PICK p : p = At(entries, i).pack
      OBVIOUS
    <3>6. /\ p \in Ids(entries) /\ At(entries, p).kind = "pack"
          /\ Has(index, p) \/ Due(todo, p)
          /\ Holds(todo, streams, p, SmallStreams(At(entries, i)))
      BY <3>4, <3>5, <1>5 DEF SmallKept, HoldsSmall
    <3>7. Has(index, p)
      BY <3>6, <1>2, IdleWrites
    <3>8. p # n
      BY <3>6, <1>1
    <3>9. \A k \in 1..Len(todo') : ~IsStream(todo'[k], p) /\ ~IsRemove(todo'[k], p)
      BY <3>8, <1>3 DEF IsStream, IsRemove
    <3>10. Holds(todo', streams, p, SmallStreams(At(entries, i)))
      BY <3>6, <3>9, <1>2, HoldsIdle
    <3>11. QED
      BY <3>1, <3>5, <3>6, <3>7, <3>10, <1>1
  <2>3. QED
    BY <2>1, <2>2
<1>6. \A i \in Ids(entries') :
        At(entries', i).kind = "small" => HoldsSmall(entries', index, todo', streams, "flush", i)
  BY <1>1, <1>5 DEF HoldsSmall
<1>7. QED
  BY <1>2, <1>6 DEF SmallKept

\* A delete writes no put's line and no stream.
LEMMA DeleteWritesLines ==
  ASSUME Typed, delete
  PROVE  /\ todo = <<>> /\ index' = index /\ streams' = streams
         /\ \A i : ~Due(todo', i)
         /\ \A c : \A k \in 1..Len(todo') : ~IsStream(todo'[k], c) /\ ~IsRemove(todo'[k], c)
<1>1. PICK id \in Live(entries) : todo'[1] = Line(D(id))
  BY AfterDelete
<1>2. /\ \A k \in 1..Len(todo') : todo'[k].to \in {"index", "sidecar"}
      /\ \A i : ~Due(todo', i)
  BY <1>1, LinesDelete
<1>3. \A c : \A k \in 1..Len(todo') : ~IsStream(todo'[k], c) /\ ~IsRemove(todo'[k], c)
  BY <1>2 DEF IsStream, IsRemove
<1>4. QED
  BY <1>2, <1>3, AfterDelete DEF delete, disk

LEMMA LargeDelete ==
  ASSUME Typed, LargeKept, delete
  PROVE  LargeKept'
<1>1. /\ Ids(entries') = Ids(entries)
      /\ \A i \in Ids(entries) :
           /\ At(entries', i).of = At(entries, i).of /\ At(entries', i).kind = At(entries, i).kind
           /\ At(entries', i).base = At(entries, i).base
           /\ At(entries, i).deleted => At(entries', i).deleted
  BY DeleteFields
<1>2. /\ todo = <<>> /\ index' = index /\ streams' = streams
      /\ \A i : ~Due(todo', i)
      /\ \A c : \A k \in 1..Len(todo') : ~IsStream(todo'[k], c) /\ ~IsRemove(todo'[k], c)
  BY DeleteWritesLines
<1>3. Based(entries', index, todo')
  <2>1. \A k \in 1..Len(todo') : \A i : ~DuePut(todo'[k], i)
    BY <1>2 DEF Due
  <2>2. QED
    BY <2>1, <1>1 DEF LargeKept, Based
<1>4. PICK T \in SUBSET Ids(entries) : HoldsLarge(entries, index, todo, streams, T)
  BY DEF LargeKept
<1>5. ASSUME NEW i \in Ids(entries), Required(entries', index, todo', i)
      PROVE  Required(entries, index, todo, i)
  BY <1>5, <1>1, <1>2 DEF Required
<1>6. ASSUME NEW c \in T
      PROVE  Holds(todo', streams, c, LargeStreams(At(entries', c)))
  <2>1. Holds(todo, streams, c, LargeStreams(At(entries, c)))
    BY <1>4 DEF HoldsLarge
  <2>2. LargeStreams(At(entries', c)) = LargeStreams(At(entries, c))
    BY <1>1 DEF LargeStreams
  <2>3. QED
    BY <2>1, <2>2, <1>2, HoldsIdle
<1>7. HoldsLarge(entries', index, todo', streams, T)
  BY <1>1, <1>4, <1>5, <1>6 DEF HoldsLarge
<1>8. QED
  BY <1>1, <1>2, <1>3, <1>7 DEF LargeKept

LEMMA SmallDelete ==
  ASSUME Typed, SmallKept, delete
  PROVE  SmallKept'
<1>1. /\ Ids(entries') = Ids(entries)
      /\ \A i \in Ids(entries) :
           /\ At(entries', i).of = At(entries, i).of /\ At(entries', i).kind = At(entries, i).kind
           /\ At(entries', i).pack = At(entries, i).pack /\ At(entries', i).at = At(entries, i).at
           /\ At(entries, i).deleted => At(entries', i).deleted
  BY DeleteFields
<1>2. /\ todo = <<>> /\ index' = index /\ streams' = streams
      /\ \A i : ~Due(todo', i)
      /\ \A c : \A k \in 1..Len(todo') : ~IsStream(todo'[k], c) /\ ~IsRemove(todo'[k], c)
  BY DeleteWritesLines
<1>3. ASSUME NEW i \in Ids(entries), At(entries, i).kind = "small", Required(entries', index, todo', i)
      PROVE  /\ At(entries', i).pack \in Ids(entries') /\ At(entries', At(entries', i).pack).kind = "pack"
             /\ Has(index, At(entries', i).pack)
             /\ Holds(todo', streams, At(entries', i).pack, SmallStreams(At(entries', i)))
  <2>1. Required(entries, index, todo, i)
    BY <1>1, <1>2, <1>3 DEF Required
  <2>2. PICK p : p = At(entries, i).pack
    OBVIOUS
  <2>3. /\ p \in Ids(entries) /\ At(entries, p).kind = "pack"
        /\ Has(index, p) \/ Due(todo, p)
        /\ Holds(todo, streams, p, SmallStreams(At(entries, i)))
    BY <2>1, <2>2, <1>3 DEF SmallKept, HoldsSmall
  <2>4. Has(index, p)
    BY <2>3, <1>2, IdleWrites
  <2>5. Holds(todo', streams, p, SmallStreams(At(entries, i)))
    BY <2>3, <1>2, HoldsIdle
  <2>6. SmallStreams(At(entries', i)) = SmallStreams(At(entries, i))
    BY <1>1 DEF SmallStreams
  <2>7. QED
    BY <2>2, <2>3, <2>4, <2>5, <2>6, <1>1
<1>4. \A i \in Ids(entries') :
        At(entries', i).kind = "small" => HoldsSmall(entries', index, todo', streams, busy', i)
  BY <1>1, <1>2, <1>3 DEF HoldsSmall
<1>5. QED
  BY <1>2, <1>4 DEF SmallKept

LEMMA LargeRebase ==
  ASSUME Typed, Kept, LargeKept, rebase
  PROVE  LargeKept'
<1>1. PICK id \in Live(entries) :
        /\ At(entries, id).kind = "large"
        /\ At(entries', id).of = At(entries, id).of /\ At(entries', id).kind = "large"
        /\ At(entries', id).base = None
        /\ At(entries', id).deleted <=> At(entries, id).deleted
        /\ \A i \in Ids(entries) : i # id => At(entries', i) = At(entries, i)
        /\ IsStream(todo'[1], id) /\ todo'[1].value \in LargeStreams(At(entries', id))
        /\ todo'[2] = Line(line(id, At(entries', id)))
        /\ \A k \in 1..Len(todo') : k = 1 \/ (k # 1 /\ todo'[k].to \in {"index", "sidecar"})
  BY RebaseFields
<1>2. Ids(entries') = Ids(entries)
  BY RebaseFields
<1>3. id \in Ids(entries)
  BY DEF Live
<1>4. \A i : Due(todo', i) <=> i = id
  BY <1>1, <1>3, LinesRebase
<1>5. todo = <<>> /\ Len(todo') = 3 /\ index' = index /\ streams' = streams
  BY AfterRebase DEF rebase, disk
<1>6. PICK T \in SUBSET Ids(entries) : HoldsLarge(entries, index, todo, streams, T)
  BY DEF LargeKept
<1>7. id \in T
  <2>1. Required(entries, index, todo, id)
    BY <1>1, LiveLargeRequired
  <2>2. QED
    BY <2>1, <1>1, <1>3, <1>6 DEF HoldsLarge
<1>8. Based(entries', index, todo')
  <2>1. ASSUME NEW i \in Ids(entries), i # id, At(entries, i).kind = "large", At(entries, i).base # None
        PROVE  /\ Has(index, i) => Has(index, At(entries, i).base)
               /\ \A k \in 1..Len(todo') : ~DuePut(todo'[k], i)
    BY <2>1, <1>4 DEF LargeKept, Based, Due
  <2>2. QED
    BY <2>1, <1>1, <1>2 DEF Based
<1>9. ASSUME NEW i \in Ids(entries), At(entries, i).kind = "large", Required(entries', index, todo', i)
      PROVE  i \in T
  <2>1. CASE i = id
    BY <2>1, <1>7
  <2>2. CASE i # id
    <3>1. Required(entries, index, todo, i)
      BY <2>2, <1>1, <1>4, <1>9 DEF Required
    <3>2. QED
      BY <3>1, <1>6, <1>9 DEF HoldsLarge
  <2>3. QED
    BY <2>1, <2>2
<1>10. ASSUME NEW c \in T
       PROVE  Holds(todo', streams, c, LargeStreams(At(entries', c)))
  <2>1. CASE c = id
    <3>1. 1 \in 1..Len(todo')
      BY <1>5
    <3>2. \A k \in 1..Len(todo') : ~IsRemove(todo'[k], id) /\ (IsStream(todo'[k], id) => k = 1)
      BY <1>1 DEF IsStream, IsRemove
    <3>3. QED
      BY <2>1, <3>1, <3>2, <1>1, HoldsNew
  <2>2. CASE c # id
    <3>1. Holds(todo, streams, c, LargeStreams(At(entries, c)))
      BY <1>6 DEF HoldsLarge
    <3>2. \A k \in 1..Len(todo') : ~IsStream(todo'[k], c) /\ ~IsRemove(todo'[k], c)
      BY <2>2, <1>1 DEF IsStream, IsRemove
    <3>3. At(entries', c) = At(entries, c)
      BY <2>2, <1>1
    <3>4. QED
      BY <3>1, <3>2, <3>3, <1>5, HoldsIdle
  <2>3. QED
    BY <2>1, <2>2
<1>11. HoldsLarge(entries', index, todo', streams, T)
  <2>1. \A c \in T : c \in Ids(entries') /\ At(entries', c).kind = "large"
    BY <1>1, <1>2, <1>6 DEF HoldsLarge
  <2>2. \A c \in T : At(entries', c).base # None => At(entries', c).base \in T
    BY <1>1, <1>2, <1>6 DEF HoldsLarge
  <2>3. \A i \in Ids(entries') : At(entries', i).kind = "large" /\ Required(entries', index, todo', i) => i \in T
    BY <1>1, <1>2, <1>7, <1>9
  <2>4. QED
    BY <2>1, <2>2, <2>3, <1>10 DEF HoldsLarge
<1>12. QED
  BY <1>2, <1>5, <1>8, <1>11 DEF LargeKept

LEMMA SmallRebase ==
  ASSUME Typed, SmallKept, rebase
  PROVE  SmallKept'
<1>1. PICK id \in Live(entries) :
        /\ At(entries, id).kind = "large" /\ At(entries', id).kind = "large"
        /\ \A i \in Ids(entries) : i # id => At(entries', i) = At(entries, i)
        /\ IsStream(todo'[1], id)
        /\ todo'[2] = Line(line(id, At(entries', id)))
        /\ \A k \in 1..Len(todo') : k = 1 \/ (k # 1 /\ todo'[k].to \in {"index", "sidecar"})
  BY RebaseFields
<1>2. Ids(entries') = Ids(entries)
  BY RebaseFields
<1>3. id \in Ids(entries)
  BY DEF Live
<1>4. \A i : Due(todo', i) <=> i = id
  BY <1>1, <1>3, LinesRebase
<1>5. todo = <<>> /\ index' = index /\ streams' = streams
  BY AfterRebase DEF rebase, disk
<1>6. ASSUME NEW i \in Ids(entries), At(entries, i).kind = "small", Required(entries', index, todo', i)
      PROVE  /\ At(entries, i).pack \in Ids(entries) /\ At(entries', At(entries, i).pack).kind = "pack"
             /\ Has(index, At(entries, i).pack)
             /\ Holds(todo', streams, At(entries, i).pack, SmallStreams(At(entries, i)))
  <2>1. Required(entries, index, todo, i)
    BY <1>1, <1>4, <1>6 DEF Required
  <2>2. PICK p : p = At(entries, i).pack
    OBVIOUS
  <2>3. /\ p \in Ids(entries) /\ At(entries, p).kind = "pack"
        /\ Has(index, p) \/ Due(todo, p)
        /\ Holds(todo, streams, p, SmallStreams(At(entries, i)))
    BY <2>1, <2>2, <1>6 DEF SmallKept, HoldsSmall
  <2>4. Has(index, p)
    BY <2>3, <1>5, IdleWrites
  <2>5. p # id
    BY <2>3, <1>1
  <2>6. \A k \in 1..Len(todo') : ~IsStream(todo'[k], p) /\ ~IsRemove(todo'[k], p)
    BY <2>5, <1>1 DEF IsStream, IsRemove
  <2>7. Holds(todo', streams, p, SmallStreams(At(entries, i)))
    BY <2>3, <2>6, <1>5, HoldsIdle
  <2>8. QED
    BY <2>2, <2>3, <2>4, <2>5, <2>7, <1>1
<1>7. ASSUME NEW i \in Ids(entries), At(entries', i).kind = "small"
      PROVE  HoldsSmall(entries', index, todo', streams, busy', i)
  <2>1. i # id
    BY <1>1, <1>7
  <2>2. At(entries', i) = At(entries, i) /\ ~Due(todo', i)
    BY <2>1, <1>1, <1>4
  <2>3. QED
    BY <2>2, <1>2, <1>6, <1>7 DEF HoldsSmall
<1>8. QED
  BY <1>2, <1>5, <1>7 DEF SmallKept

\* What compact takes away is needed by nothing the store has: with no write
\* under way, what is required is live.
LEMMA CompactTakes ==
  ASSUME Typed, Kept, compact
  PROVE  /\ todo = <<>> /\ index' = index /\ streams' = streams /\ entries' = entries
         /\ \A i : ~Due(todo, i) /\ ~Due(todo', i)
         /\ \A c : \A k \in 1..Len(todo') :
              ~IsStream(todo'[k], c) /\ (c \in Needed => ~IsRemove(todo'[k], c))
         /\ \A i \in Ids(entries) :
              Required(entries, index, todo', i) => Required(entries, index, todo, i) /\ i \in Live(entries)
<1>1. /\ todo = <<>>
      /\ \A k \in 1..Len(todo') : todo'[k].to = "remove" /\ todo'[k].id \notin Needed
  BY AfterCompact
<1>2. \A i : ~Due(todo, i) /\ ~DueDeletes(todo, i) /\ ~Due(todo', i)
  BY LinesCompact
<1>3. \A c : \A k \in 1..Len(todo') :
        ~IsStream(todo'[k], c) /\ (c \in Needed => ~IsRemove(todo'[k], c))
  BY <1>1 DEF IsStream, IsRemove
<1>4. ASSUME NEW i \in Ids(entries), Required(entries, index, todo', i)
      PROVE  Required(entries, index, todo, i) /\ i \in Live(entries)
  <2>1. Has(index, i) /\ ~(Deletes(index, i) /\ At(entries, i).deleted)
    BY <1>2, <1>4 DEF Required
  <2>2. At(entries, i).of # None
    BY <2>1 DEF Kept, Written
  <2>3. At(entries, i).deleted => Deletes(index, i)
    BY <2>2, <1>2 DEF Kept, Deletions
  <2>4. QED
    BY <2>1, <2>3 DEF Required, Live
<1>5. QED
  BY <1>1, <1>2, <1>3, <1>4 DEF compact, disk, memory

LEMMA LargeCompact ==
  ASSUME Typed, Kept, LargeKept, compact
  PROVE  LargeKept'
<1>1. /\ todo = <<>> /\ index' = index /\ streams' = streams /\ entries' = entries
      /\ \A i : ~Due(todo, i) /\ ~Due(todo', i)
      /\ \A c : \A k \in 1..Len(todo') :
           ~IsStream(todo'[k], c) /\ (c \in Needed => ~IsRemove(todo'[k], c))
      /\ \A i \in Ids(entries) :
           Required(entries, index, todo', i) => Required(entries, index, todo, i) /\ i \in Live(entries)
  BY CompactTakes
<1>2. BasesEarlier(entries)
  BY DEF Typed, BasesEarlier
<1>3. Based(entries, index, todo')
  <2>1. \A k \in 1..Len(todo') : \A i : ~DuePut(todo'[k], i)
    BY <1>1 DEF Due
  <2>2. QED
    BY <2>1 DEF LargeKept, Based
<1>4. PICK T \in SUBSET Ids(entries) : HoldsLarge(entries, index, todo, streams, T)
  BY DEF LargeKept
<1> DEFINE R == {j \in Live(entries) : At(entries, j).pack # Open}
           N == UNION {ChainOf(entries, i) : i \in R}
           U == {c \in T : c \in N}
<1>5. R \subseteq Ids(entries)
  BY DEF Live
<1>6. \A i \in R : i \in ChainOf(entries, i) /\ ClosedUnderBase(entries, ChainOf(entries, i))
  BY <1>2, <1>5, ChainFacts
<1>7. N \subseteq Needed
  BY DEF Needed
<1>8. ASSUME NEW c \in N, At(entries, c).base # None
      PROVE  At(entries, c).base \in N
  BY <1>6, <1>8 DEF ClosedUnderBase
<1>9. ASSUME NEW i \in Ids(entries), At(entries, i).kind = "large", Required(entries, index, todo', i)
      PROVE  i \in U
  <2>1. Required(entries, index, todo, i) /\ i \in Live(entries)
    BY <1>1, <1>9
  <2>2. i \in T
    BY <2>1, <1>4, <1>9 DEF HoldsLarge
  <2>3. PICK e \in EntryT : e = At(entries, i)
    BY DEF Typed, Ids, At
  <2>4. e.pack # Open
    BY <2>3, <1>9 DEF EntryT
  <2>5. i \in R
    BY <2>1, <2>3, <2>4
  <2>6. i \in N
    BY <2>5, <1>6
  <2>7. QED
    BY <2>2, <2>6
<1>10. ASSUME NEW c \in U
       PROVE  Holds(todo', streams, c, LargeStreams(At(entries, c)))
  <2>1. Holds(todo, streams, c, LargeStreams(At(entries, c)))
    BY <1>4 DEF HoldsLarge
  <2>2. c \in Needed
    BY <1>7
  <2>3. \A k \in 1..Len(todo') : ~IsStream(todo'[k], c) /\ ~IsRemove(todo'[k], c)
    BY <2>2, <1>1
  <2>4. QED
    BY <2>1, <2>3, <1>1, HoldsIdle
<1>11. HoldsLarge(entries, index, todo', streams, U)
  <2>1. \A c \in U : c \in Ids(entries) /\ At(entries, c).kind = "large"
    BY <1>4 DEF HoldsLarge
  <2>2. \A c \in U : At(entries, c).base # None => At(entries, c).base \in U
    BY <1>4, <1>8 DEF HoldsLarge
  <2>3. QED
    BY <2>1, <2>2, <1>9, <1>10 DEF HoldsLarge
<1>12. U \in SUBSET Ids(entries)
  BY <1>4
<1>13. QED
  BY <1>1, <1>3, <1>11, <1>12 DEF LargeKept

LEMMA SmallCompact ==
  ASSUME Typed, Kept, SmallKept, compact
  PROVE  SmallKept'
<1>1. /\ todo = <<>> /\ index' = index /\ streams' = streams /\ entries' = entries
      /\ \A i : ~Due(todo, i) /\ ~Due(todo', i)
      /\ \A c : \A k \in 1..Len(todo') :
           ~IsStream(todo'[k], c) /\ (c \in Needed => ~IsRemove(todo'[k], c))
      /\ \A i \in Ids(entries) :
           Required(entries, index, todo', i) => Required(entries, index, todo, i) /\ i \in Live(entries)
  BY CompactTakes
<1>2. ASSUME NEW i \in Ids(entries), At(entries, i).kind = "small", Required(entries, index, todo', i)
      PROVE  /\ At(entries, i).pack \in Ids(entries) /\ At(entries, At(entries, i).pack).kind = "pack"
             /\ Has(index, At(entries, i).pack)
             /\ Holds(todo', streams, At(entries, i).pack, SmallStreams(At(entries, i)))
  <2>1. Required(entries, index, todo, i) /\ i \in Live(entries)
    BY <1>1, <1>2
  <2>2. PICK p : p = At(entries, i).pack
    OBVIOUS
  <2>3. /\ p \in Ids(entries) /\ At(entries, p).kind = "pack"
        /\ Has(index, p) \/ Due(todo, p)
        /\ Holds(todo, streams, p, SmallStreams(At(entries, i)))
    BY <2>1, <2>2, <1>2 DEF SmallKept, HoldsSmall
  <2>4. Has(index, p)
    BY <2>3, <1>1
  <2>5. p \in Needed
    <3>1. PICK B : B = {At(entries, j).pack : j \in Live(entries)}
      OBVIOUS
    <3>2. B \subseteq Needed
      BY <3>1, Zenon DEF Needed
    <3>3. p \in B
      BY <2>1, <2>2, <3>1
    <3>4. QED
      BY <3>2, <3>3
  <2>6. \A k \in 1..Len(todo') : ~IsStream(todo'[k], p) /\ ~IsRemove(todo'[k], p)
    BY <2>5, <1>1
  <2>7. Holds(todo', streams, p, SmallStreams(At(entries, i)))
    BY <2>3, <2>6, <1>1, HoldsIdle
  <2>8. QED
    BY <2>2, <2>3, <2>4, <2>7
<1>3. \A i \in Ids(entries) :
        At(entries, i).kind = "small" => HoldsSmall(entries, index, todo', streams, busy', i)
  BY <1>1, <1>2 DEF HoldsSmall
<1>4. QED
  BY <1>1, <1>3 DEF SmallKept

-----------------------------------------------------------------------------
(* The invariant.                                                          *)

\* What was cut stays cut.
LEMMA EventsStay ==
  ASSUME [Next]_vars
  PROVE  events \subseteq events'
BY DEF Next, Write, Kill, PutLarge, PutSmall, flush, delete, compact, rebase, vars

LEMMA KeptNext ==
  ASSUME Typed, Kept, "open deletion" \notin events => Reopens, [Next]_vars
  PROVE  Kept' /\ ("open deletion" \notin events' => Reopens')
<1>1. events \subseteq events'
  BY EventsStay
<1>2. CASE UNCHANGED vars
  <2>1. Kept'
    <3>1. /\ entries' = entries /\ pending' = pending /\ todo' = todo /\ index' = index
          /\ busy' = busy
      BY <1>2 DEF vars, memory, disk
    <3>2. OfEntries' /\ Newest' /\ Deletions'
      BY <3>1 DEF Kept, OfEntries, Newest, Deletions
    <3>3. Written'
      BY <3>1 DEF Kept, Written, IsPending
    <3>4. Once' /\ Waiting'
      BY <3>1 DEF Kept, Once, Waiting
    <3>5. QED
      BY <3>2, <3>3, <3>4 DEF Kept
  <2>2. Reopens => Reopens'
    BY <1>2 DEF vars, memory, disk, Reopens
  <2>3. QED
    BY <2>1, <2>2, <1>1
<1>3. CASE Kill
  BY <1>3, KeptKill
<1>4. CASE Write \/ PutLarge \/ PutSmall \/ flush \/ delete \/ compact \/ rebase
  <2>1. Kept' /\ (Reopens => Reopens')
    BY <1>4, KeptWrite, KeptPutLarge, KeptPutSmall, KeptFlush, KeptDelete, KeptCompact, KeptRebase
  <2>2. QED
    BY <2>1, <1>1
<1>5. QED
  BY <1>2, <1>3, <1>4 DEF Next

LEMMA LargeNext ==
  ASSUME Typed, Kept, Under(entries, todo), "rebase cut" \notin events => LargeKept, [Next]_vars
  PROVE  "rebase cut" \notin events' => LargeKept'
<1>1. SUFFICES ASSUME "rebase cut" \notin events'
               PROVE  LargeKept'
  OBVIOUS
<1>2. LargeKept
  BY <1>1, EventsStay
<1>3. CASE UNCHANGED vars
  BY <1>2, <1>3 DEF vars, memory, disk, LargeKept
<1>4. QED
  BY <1>1, <1>2, <1>3, LargeWrite, LargeKill, LargePutLarge, StreamsPutSmall, LargeFlush, LargeDelete,
     LargeCompact, LargeRebase DEF Next

LEMMA SmallNext ==
  ASSUME Typed, Kept, Under(entries, todo), "flush cut" \notin events => SmallKept, [Next]_vars
  PROVE  "flush cut" \notin events' => SmallKept'
<1>1. SUFFICES ASSUME "flush cut" \notin events'
               PROVE  SmallKept'
  OBVIOUS
<1>2. SmallKept
  BY <1>1, EventsStay
<1>3. CASE UNCHANGED vars
  BY <1>2, <1>3 DEF vars, memory, disk, SmallKept
<1>4. QED
  BY <1>1, <1>2, <1>3, SmallWrite, SmallKill, SmallPutLarge, StreamsPutSmall, SmallFlush, SmallDelete,
     SmallCompact, SmallRebase DEF Next

LEMMA DurableInit == Init => DurableInv
<1>1. SUFFICES ASSUME Init
               PROVE  DurableInv
  OBVIOUS
<1>2. entries = <<>> /\ pending = <<>> /\ todo = <<>> /\ index = <<>> /\ puts = 0
  <2>1. entries = <<>> /\ pending = <<>> /\ todo = <<>>
    BY <1>1 DEF Init
  <2>2. index = <<>>
    BY <1>1 DEF Init
  <2>3. puts = 0
    BY <1>1 DEF Init
  <2>4. QED
    BY <2>1, <2>2, <2>3
<1>3. /\ \A k \in 1..Len(index) : FALSE
      /\ \A k \in 1..Len(todo) : FALSE
      /\ \A k \in 1..Len(pending) : FALSE
  BY <1>2
<1>4. Len(entries) = 0 /\ \A i \in Ids(entries) : FALSE
  BY <1>2 DEF Ids
<1>5. \A c \in DOMAIN streams : FALSE
  BY <1>1 DEF Init
<1>6. Typed
  BY <1>2, <1>3, <1>4, <1>5, DurableAssumption DEF Typed
<1>7. Kept
  BY <1>3, <1>4 DEF Kept, OfEntries, Newest, Deletions, Written, Once, Waiting
<1>8. Reopens
  BY <1>3, <1>4 DEF Reopens
<1>9. Under(entries, todo)
  BY <1>3 DEF Under
<1>10. LargeKept
  <2>1. Based(entries, index, todo)
    BY <1>4 DEF Based
  <2>2. HoldsLarge(entries, index, todo, streams, {})
    BY <1>4 DEF HoldsLarge
  <2>3. QED
    BY <2>1, <2>2 DEF LargeKept
<1>11. SmallKept
  BY <1>4 DEF SmallKept
<1>12. QED
  BY <1>6, <1>7, <1>8, <1>9, <1>10, <1>11 DEF DurableInv

-----------------------------------------------------------------------------
(* The theorems.                                                           *)

\* The index's lines, the writes under way and the streams stored are about
\* the entries in memory, but for what a kill has cut.
THEOREM DurableInvariant == Spec => []DurableInv
<1>1. Init => DurableInv
  BY DurableInit
<1>2. DurableInv /\ [Next]_vars => DurableInv'
  <2>1. SUFFICES ASSUME DurableInv, [Next]_vars
                 PROVE  DurableInv'
    OBVIOUS
  <2>2. /\ Typed /\ Kept /\ Under(entries, todo)
        /\ "open deletion" \notin events => Reopens
        /\ "rebase cut" \notin events => LargeKept
        /\ "flush cut" \notin events => SmallKept
    BY <2>1 DEF DurableInv
  <2>3. Typed'
    BY <2>1, <2>2, TypedNext
  <2>4. Kept' /\ ("open deletion" \notin events' => Reopens')
    BY <2>1, <2>2, KeptNext
  <2>5. Under(entries', todo')
    BY <2>1, <2>2, UnderNext
  <2>6. "rebase cut" \notin events' => LargeKept'
    BY <2>1, <2>2, LargeNext
  <2>7. "flush cut" \notin events' => SmallKept'
    BY <2>1, <2>2, SmallNext
  <2>8. QED
    BY <2>3, <2>4, <2>5, <2>6, <2>7 DEF DurableInv
<1>3. QED
  BY <1>1, <1>2, PTL DEF Spec

LEMMA IdleMatches == DurableInv => IndexIsMemory
<1>1. SUFFICES ASSUME DurableInv, Idle, "open deletion" \notin events
               PROVE  Matches(Opened)
  BY DEF IndexIsMemory
<1>2. Typed /\ Kept /\ Reopens
  BY <1>1 DEF DurableInv
<1>3. \A i : ~Due(todo, i) /\ ~DueDeletes(todo, i)
  <2>1. todo = <<>>
    BY <1>1 DEF Idle
  <2>2. \A k \in 1..Len(todo) : FALSE
    BY <2>1
  <2>3. QED
    BY <2>2 DEF Due, DueDeletes
<1>4. \A i \in Ids(entries) : Has(index, i) <=> ~IsPending(i) /\ At(entries, i).of # None
  BY <1>2, <1>3 DEF Kept, Written
<1>5. \A i \in Ids(entries) : i \in Unwritten(Opened) <=> ~Has(index, i)
  <2>1. ASSUME NEW i \in Ids(entries), Has(index, i)
        PROVE  i \notin Unwritten(Opened)
    BY <2>1, <1>2, OpenedKeeps DEF Unwritten
  <2>2. ASSUME NEW i \in Ids(entries), ~Has(index, i)
        PROVE  i \in Unwritten(Opened)
    BY <2>2, <1>2, OpenedKeeps DEF Unwritten, Lost
  <2>3. QED
    BY <2>1, <2>2
<1>6. ASSUME NEW i \in Ids(Opened) \ Unwritten(Opened)
      PROVE  i \in Ids(entries) /\ At(Opened, i) = At(entries, i)
  <2>1. At(Opened, i).of # None \/ i \notin Ids(entries)
    BY <1>6 DEF Unwritten
  <2>2. CASE ~Has(index, i)
    <3>1. At(Opened, i) = Lost
      BY <2>2, <1>2, OpenedKeeps
    <3>2. i \notin Ids(entries)
      BY <2>1, <3>1 DEF Lost
    <3>3. QED
      BY <3>2, <1>2, OpenedKeeps
  <2>3. CASE Has(index, i)
    <3>1. /\ i \in Ids(entries)
          /\ At(Opened, i) \in EntryT /\ At(entries, i) \in EntryT
          /\ At(Opened, i).deleted <=> Deletes(index, i)
          /\ At(entries, i).of # None
      BY <2>3, <1>2, OpenedKeeps
    <3>2. PICK k \in 1..Len(index) :
            /\ IsPut(index[k], i) /\ IsLast(index, k)
            /\ [At(Opened, i) EXCEPT !.deleted = FALSE] = index[k].entry
      BY <2>3, <1>2, OpenedKeeps
    <3>3. index[k].entry = [At(entries, i) EXCEPT !.deleted = FALSE]
      BY <3>2, <1>2, <1>3 DEF Kept, Newest, Current, IsPut
    <3>4. At(entries, i).deleted <=> Deletes(index, i)
      BY <3>1, <1>2, <1>3 DEF Kept, Deletions, Reopens
    <3>5. QED
      BY <3>1, <3>2, <3>3, <3>4, SameButDeleted
  <2>4. QED
    BY <2>2, <2>3
<1>7. Unwritten(Opened) = {i \in Ids(entries) : \E k \in 1..Len(pending) : pending[k] = i}
                          \cup {i \in Ids(entries) : At(entries, i).of = None}
  <2>1. Unwritten(Opened) \subseteq Ids(entries)
    BY DEF Unwritten
  <2>2. QED
    BY <2>1, <1>4, <1>5 DEF IsPending
<1>8. QED
  BY <1>6, <1>7 DEF Matches

\* With every write done, opening the store again gives the entries in memory,
\* unless a deletion's line outlived the open pack its object was in.
THEOREM IndexStaysMemory == Spec => []IndexIsMemory
<1>1. DurableInv => IndexIsMemory
  BY IdleMatches
<1>2. QED
  BY <1>1, DurableInvariant, PTL

LEMMA KillKeeps ==
  ASSUME DurableInv, [Next]_vars, kills' # kills, "open deletion" \notin events,
         NEW i \in Live(entries), Indexed(i, At(entries, i))
  PROVE  /\ i \in Live(entries')
         /\ At(entries', i).of = At(entries, i).of
         /\ busy # "rebase" => At(entries', i) = At(entries, i)
<1>1. Typed /\ Kept /\ Reopens
  BY DEF DurableInv
<1>2. entries' = Opened
  <2>1. Kill
    BY DEF Next, Write, Kill, PutLarge, PutSmall, flush, delete, compact, rebase, vars
  <2>2. QED
    BY <2>1 DEF Kill
<1>3. Has(index, i)
  BY DEF Indexed, Has, IsPut
<1>4. /\ i \in Ids(entries) /\ i \in Ids(Opened)
      /\ At(Opened, i) \in EntryT /\ At(entries, i) \in EntryT
      /\ At(Opened, i).of = At(entries, i).of
      /\ At(Opened, i).deleted <=> Deletes(index, i)
  BY <1>1, <1>3, OpenedKeeps
<1>5. ~At(entries, i).deleted
  BY DEF Live
<1>6. ~At(Opened, i).deleted
  BY <1>1, <1>4, <1>5 DEF Reopens
<1>7. ASSUME busy # "rebase"
      PROVE  At(Opened, i) = At(entries, i)
  <2>1. ~Due(todo, i)
    BY <1>1, <1>3, <1>4, <1>7 DEF Kept, Once
  <2>2. PICK k \in 1..Len(index) :
          /\ IsPut(index[k], i) /\ IsLast(index, k)
          /\ [At(Opened, i) EXCEPT !.deleted = FALSE] = index[k].entry
    BY <1>1, <1>3, OpenedKeeps
  <2>3. index[k].entry = [At(entries, i) EXCEPT !.deleted = FALSE]
    BY <2>1, <2>2, <1>1 DEF Kept, Newest, Current, IsPut
  <2>4. At(Opened, i).deleted <=> At(entries, i).deleted
    BY <1>5, <1>6
  <2>5. QED
    BY <1>4, <2>2, <2>3, <2>4, SameButDeleted
<1>8. i \in Live(Opened)
  BY <1>4, <1>6 DEF Live
<1>9. QED
  BY <1>2, <1>4, <1>7, <1>8

\* A kill loses no object whose line was written, and gives its id to no
\* other, unless a deletion's line outlived the open pack its object was in.
THEOREM KillKeepsIndexed == Spec => KeptByKill
<1>1. DurableInv /\ [Next]_vars =>
        [kills' # kills /\ "open deletion" \notin events =>
           \A i \in Live(entries) :
             Indexed(i, At(entries, i)) =>
               /\ i \in Live(entries')
               /\ At(entries', i).of = At(entries, i).of
               /\ busy # "rebase" => At(entries', i) = At(entries, i)]_vars
  BY KillKeeps
<1>2. QED
  BY <1>1, DurableInvariant, PTL DEF Spec, KeptByKill

\* What can be read of large objects, opened again outside a rebase: those of T
\* that have a line are closed under base, and each one's stream is stored.
LEMMA LargeOpens ==
  ASSUME Typed, Kept, Under(entries, todo), LargeKept, busy # "rebase",
         NEW i \in Live(Opened), At(Opened, i).kind = "large"
  PROVE  Readable(Opened, i)
<1>1. BasesEarlier(Opened)
  <2>1. index \in Seq(LineT)
    BY DEF Typed
  <2>2. Entries(index) \in Seq(EntryT) /\ \A j \in Ids(Entries(index)) : Earlier(At(Entries(index), j).base, j)
    BY <2>1, OpenedEntries
  <2>3. QED
    BY <2>2 DEF BasesEarlier, Opened
<1>2. i \in Ids(Opened) /\ ~At(Opened, i).deleted
  BY DEF Live
<1>3. Has(index, i)
  BY <1>2, OpenedKeeps DEF Lost
<1>4. ASSUME NEW c, Has(index, c)
      PROVE  /\ c \in Ids(entries) /\ c \in Ids(Opened)
             /\ At(Opened, c).of = At(entries, c).of /\ At(Opened, c).kind = At(entries, c).kind
             /\ At(Opened, c).base = At(entries, c).base
             /\ At(Opened, c).deleted <=> Deletes(index, c)
             /\ \A k \in 1..Len(todo) : ~IsStream(todo[k], c)
  <2>1. ~Due(todo, c)
    BY <1>4, LinesInIds DEF Kept, Once
  <2>2. QED
    BY <2>1, <1>4, KillFields
<1>5. PICK T \in SUBSET Ids(entries) : HoldsLarge(entries, index, todo, streams, T)
  BY DEF LargeKept
<1> DEFINE U == {c \in T : Has(index, c)}
<1>6. i \in U
  <2>1. i \in Ids(entries) /\ At(entries, i).kind = "large" /\ ~Deletes(index, i)
    BY <1>2, <1>3, <1>4
  <2>2. Required(entries, index, todo, i)
    BY <2>1, <1>3 DEF Required
  <2>3. QED
    BY <2>1, <2>2, <1>3, <1>5 DEF HoldsLarge
<1>7. ClosedUnderBase(Opened, U)
  <2>1. ASSUME NEW c \in U, At(Opened, c).base # None
        PROVE  At(Opened, c).base \in U
    <3>1. PICK b : b = At(Opened, c).base
      OBVIOUS
    <3>2. c \in Ids(entries) /\ b = At(entries, c).base /\ At(entries, c).kind = "large" /\ b # None
      BY <2>1, <3>1, <1>4, <1>5 DEF HoldsLarge
    <3>3. b \in T
      BY <3>2, <1>5 DEF HoldsLarge
    <3>4. Has(index, b)
      BY <3>2 DEF LargeKept, Based
    <3>5. QED
      BY <3>1, <3>3, <3>4
  <2>2. QED
    BY <2>1 DEF ClosedUnderBase
<1>8. ChainOf(Opened, i) \subseteq U
  BY <1>1, <1>2, <1>6, <1>7, ChainLeast
<1>9. ASSUME NEW c \in U
      PROVE  c \in DOMAIN streams /\ streams[c].of = At(Opened, c).of /\ streams[c].base = At(Opened, c).base
  <2>1. Holds(todo, streams, c, LargeStreams(At(entries, c)))
    BY <1>5 DEF HoldsLarge
  <2>2. c \in DOMAIN streams /\ streams[c] \in LargeStreams(At(entries, c))
    BY <2>1, <1>4 DEF Holds
  <2>3. QED
    BY <2>2, <1>4 DEF LargeStreams
<1>10. QED
  BY <1>8, <1>9 DEF Readable

\* What can be read of small objects, opened again outside a flush.
LEMMA SmallOpens ==
  ASSUME Typed, Kept, Under(entries, todo), SmallKept, busy # "flush",
         NEW i \in Live(Opened), At(Opened, i).kind = "small"
  PROVE  InPack(Opened, i)
<1>1. i \in Ids(Opened) /\ ~At(Opened, i).deleted
  BY DEF Live
<1>2. Has(index, i)
  BY <1>1, OpenedKeeps DEF Lost
<1>3. ASSUME NEW c, Has(index, c), At(entries, c).kind # "large"
      PROVE  /\ c \in Ids(entries) /\ c \in Ids(Opened)
             /\ At(Opened, c).of = At(entries, c).of /\ At(Opened, c).kind = At(entries, c).kind
             /\ At(Opened, c).pack = At(entries, c).pack /\ At(Opened, c).at = At(entries, c).at
             /\ At(Opened, c).deleted <=> Deletes(index, c)
             /\ \A k \in 1..Len(todo) : ~IsStream(todo[k], c)
  <2>1. ~Due(todo, c)
    BY <1>3, LinesInIds DEF Kept, Once
  <2>2. QED
    BY <2>1, <1>3, KillFields
<1>4. i \in Ids(entries) /\ At(entries, i).kind = "small"
  BY <1>2, OpenedKeeps
<1>5. /\ At(Opened, i).of = At(entries, i).of
      /\ At(Opened, i).pack = At(entries, i).pack /\ At(Opened, i).at = At(entries, i).at
      /\ ~Deletes(index, i)
  BY <1>1, <1>2, <1>3, <1>4
<1>6. Required(entries, index, todo, i)
  BY <1>2, <1>5 DEF Required
<1>7. PICK p : p = At(entries, i).pack
  OBVIOUS
<1>8. /\ p \in Ids(entries) /\ At(entries, p).kind = "pack" /\ Has(index, p)
      /\ Holds(todo, streams, p, SmallStreams(At(entries, i)))
  BY <1>2, <1>4, <1>6, <1>7 DEF SmallKept, HoldsSmall
<1>9. /\ p \in Ids(Opened) /\ At(Opened, p).kind = "pack"
      /\ \A k \in 1..Len(todo) : ~IsStream(todo[k], p)
  BY <1>3, <1>8
<1>10. p \in DOMAIN streams /\ streams[p] \in SmallStreams(At(entries, i))
  BY <1>8, <1>9 DEF Holds
<1>11. PICK k : k = At(entries, i).at + 1
  OBVIOUS
<1>12. k \in DOMAIN streams[p].members /\ streams[p].members[k] = At(entries, i).of
  BY <1>10, <1>11 DEF SmallStreams
<1>13. QED
  BY <1>5, <1>7, <1>9, <1>10, <1>11, <1>12 DEF InPack

LEMMA DurableOpens == DurableInv => OpensReadable
<1>1. SUFFICES ASSUME DurableInv
               PROVE  OpensReadable
  OBVIOUS
<1>2. Typed /\ Kept /\ Under(entries, todo)
  BY <1>1 DEF DurableInv
<1>3. LargeReadable
  <2>1. ASSUME "rebase cut" \notin events, busy # "rebase",
               NEW i \in Live(Opened), At(Opened, i).kind = "large"
        PROVE  Readable(Opened, i)
    <3>1. LargeKept
      BY <2>1, <1>1 DEF DurableInv
    <3>2. QED
      BY <2>1, <3>1, <1>2, LargeOpens
  <2>2. QED
    BY <2>1 DEF LargeReadable, AllLargeReadable
<1>4. SmallReadable
  <2>1. ASSUME "flush cut" \notin events, busy # "flush",
               NEW i \in Live(Opened), At(Opened, i).kind = "small"
        PROVE  InPack(Opened, i)
    <3>1. SmallKept
      BY <2>1, <1>1 DEF DurableInv
    <3>2. QED
      BY <2>1, <3>1, <1>2, SmallOpens
  <2>2. QED
    BY <2>1 DEF SmallReadable, AllSmallReadable
<1>5. QED
  BY <1>3, <1>4 DEF OpensReadable

\* Opened again at any moment, the store has every object it lists: each large
\* one's chain outside a rebase and until one was cut, each small one in a
\* pack it lists outside a flush and until one was cut.
THEOREM OpensStayReadable == Spec => []OpensReadable
<1>1. DurableInv => OpensReadable
  BY DurableOpens
<1>2. QED
  BY <1>1, DurableInvariant, PTL

-----------------------------------------------------------------------------
(* What the rebuilt store reads.                                           *)

\* The recursion that joins the sidecars has a solution, and satisfies it.
LEMMA RebuiltIs ==
  \E f : /\ Rebuilt = Entries(f[MaxLen]) /\ f[0] = <<>>
         /\ \A k \in 1..MaxLen :
              f[k] = f[k - 1] \o IF k - 1 \in DOMAIN sidecars THEN sidecars[k - 1] ELSE <<>>
<1> DEFINE Step(k, s) == s \o IF k - 1 \in DOMAIN sidecars THEN sidecars[k - 1] ELSE <<>>
           Solves(m, g) == g = [k \in 0..m |-> IF k = 0 THEN <<>> ELSE Step(k, g[k - 1])]
           Bad == {m \in Nat : ~\E g : Solves(m, g)}
<1>0. MaxLen \in Nat
  BY DurableAssumption
<1>1. Rebuilt = Entries((CHOOSE g : Solves(MaxLen, g))[MaxLen])
  BY ZenonT(60) DEF Rebuilt
<1> HIDE DEF Step
<1>2. ASSUME Bad # {}
      PROVE  FALSE
  <2>1. Bad \subseteq Nat
    OBVIOUS
  <2>2. PICK m \in Bad : \A k \in Bad : m <= k
    <3> HIDE DEF Bad
    <3>1. QED
      BY <1>2, <2>1, LeastNatural
  <2>3. m \in Nat /\ ~\E g : Solves(m, g)
    OBVIOUS
  <2>4. CASE m = 0
    <3> DEFINE g == [k \in 0..0 |-> <<>>]
    <3>1. \A k \in 0..0 : k = 0
      OBVIOUS
    <3>2. g = [k \in 0..0 |-> IF k = 0 THEN <<>> ELSE Step(k, g[k - 1])]
      BY <3>1
    <3>3. Solves(0, g)
      BY <3>2
    <3>4. QED
      BY <2>3, <2>4, <3>3
  <2>5. CASE m # 0
    <3>1. m - 1 \in Nat /\ ~(m <= m - 1)
      BY <2>3, <2>5
    <3>2. m - 1 \notin Bad
      BY <2>2, <3>1
    <3>3. PICK g : Solves(m - 1, g)
      BY <3>1, <3>2
    <3> DEFINE h == [k \in 0..m |-> IF k = m THEN Step(m, g[m - 1]) ELSE g[k]]
    <3>4. ASSUME NEW k \in 0..m
          PROVE  h[k] = IF k = 0 THEN <<>> ELSE Step(k, h[k - 1])
      <4>1. CASE k = m
        <5>1. m # 0 /\ m - 1 \in 0..m /\ m - 1 # m
          BY <2>3, <2>5
        <5>2. h[k] = Step(m, g[m - 1]) /\ h[m - 1] = g[m - 1]
          BY <4>1, <5>1
        <5>3. QED
          BY <4>1, <5>1, <5>2
      <4>2. CASE k # m
        <5>1. k \in 0..(m - 1) /\ h[k] = g[k]
          BY <2>3, <4>2
        <5>2. g[k] = IF k = 0 THEN <<>> ELSE Step(k, g[k - 1])
          BY <3>3, <5>1
        <5>3. k # 0 => k - 1 \in 0..m /\ k - 1 # m
          BY <2>3, <5>1
        <5>4. k # 0 => h[k - 1] = g[k - 1]
          BY <5>3
        <5>5. QED
          BY <5>1, <5>2, <5>4
      <4>3. QED
        BY <4>1, <4>2
    <3>5. h = [k \in 0..m |-> h[k]]
      OBVIOUS
    <3> HIDE DEF h
    <3>6. Solves(m, h)
      BY <3>4, <3>5
    <3>7. QED
      BY <2>3, <3>6
  <2>6. QED
    BY <2>4, <2>5
<1>3. \E g : Solves(MaxLen, g)
  BY <1>0, <1>2
<1>4. PICK f : f = CHOOSE g : Solves(MaxLen, g)
  OBVIOUS
<1>5. Solves(MaxLen, f)
  <2> HIDE DEF Solves
  <2>1. QED
    BY <1>3, <1>4
<1>6. f[0] = <<>>
  BY <1>0, <1>5
<1>7. \A k \in 1..MaxLen : f[k] = Step(k, f[k - 1])
  BY <1>0, <1>5
<1>8. Rebuilt = Entries(f[MaxLen])
  BY <1>1, <1>4
<1>9. QED
  BY <1>6, <1>7, <1>8 DEF Step

\* The lines of t are those of the sidecars below n, in the order of these.
SourcedBy(sc, t, n, src) ==
  /\ \A k \in 1..Len(t) :
       /\ src[k] \in 0..(n - 1) /\ src[k] \in DOMAIN sc
       /\ \E j \in 1..Len(sc[src[k]]) : t[k] = sc[src[k]][j]
  /\ \A j, k \in 1..Len(t) : j < k => src[j] <= src[k]
  /\ \A c \in DOMAIN sc : c \in 0..(n - 1) =>
       \A j \in 1..Len(sc[c]) : \E k \in 1..Len(t) : src[k] = c /\ t[k] = sc[c][j]
Sourced(sc, t, n) == t \in Seq(LineT) /\ \E src : SourcedBy(sc, t, n, src)

LEMMA SourcedNext ==
  ASSUME NEW sc, \A c \in DOMAIN sc : sc[c] \in Seq(LineT), NEW n \in Nat,
         NEW t, Sourced(sc, t, n),
         NEW u, u = t \o IF n \in DOMAIN sc THEN sc[n] ELSE <<>>
  PROVE  Sourced(sc, u, n + 1)
<1>1. PICK v : v = IF n \in DOMAIN sc THEN sc[n] ELSE <<>>
  OBVIOUS
<1>2. v \in Seq(LineT) /\ (n \notin DOMAIN sc => Len(v) = 0)
  BY <1>1
<1>3. t \in Seq(LineT) /\ u = t \o v
  BY <1>1 DEF Sourced
<1>4. PICK src : SourcedBy(sc, t, n, src)
  BY DEF Sourced
<1>5. PICK a, b \in Nat : a = Len(t) /\ b = Len(v)
  BY <1>2, <1>3
<1>6. /\ u \in Seq(LineT) /\ Len(u) = a + b
      /\ \A k \in 1..a : u[k] = t[k]
      /\ \A k \in 1..b : u[a + k] = v[k]
  <2>1. /\ t \o v \in Seq(LineT) /\ Len(t \o v) = Len(t) + Len(v)
        /\ \A k \in 1..(Len(t) + Len(v)) : (t \o v)[k] = IF k <= Len(t) THEN t[k] ELSE v[k - Len(t)]
    BY <1>2, <1>3, ConcatProperties
  <2>2. /\ u \in Seq(LineT) /\ Len(u) = a + b
        /\ \A k \in 1..(a + b) : u[k] = IF k <= a THEN t[k] ELSE v[k - a]
    BY <2>1, <1>3, <1>5
  <2>3. \A k \in 1..a : u[k] = t[k]
    BY <2>2, <1>5
  <2>4. ASSUME NEW k \in 1..b
        PROVE  u[a + k] = v[k]
    <3>1. a + k \in 1..(a + b) /\ ~(a + k <= a) /\ (a + k) - a = k
      BY <1>5
    <3>2. QED
      BY <3>1, <2>2
  <2>5. QED
    BY <2>2, <2>3, <2>4
<1> DEFINE g == [k \in 1..(a + b) |-> IF k <= a THEN src[k] ELSE n]
<1>7. /\ \A k \in 1..a : g[k] = src[k] /\ k \in 1..(a + b)
      /\ \A k \in 1..b : g[a + k] = n /\ a + k \in 1..(a + b)
      /\ \A k \in 1..(a + b) : k \in 1..a \/ (k > a /\ k - a \in 1..b /\ a + (k - a) = k /\ g[k] = n)
  BY <1>5
<1> HIDE DEF g
<1>8. ASSUME NEW k \in 1..b
      PROVE  n \in DOMAIN sc /\ v = sc[n]
  <2>1. b # 0
    BY <1>5
  <2>2. QED
    BY <2>1, <1>1, <1>2, <1>5
<1>9. ASSUME NEW k \in 1..Len(u)
      PROVE  /\ g[k] \in 0..n /\ g[k] \in DOMAIN sc
             /\ \E j \in 1..Len(sc[g[k]]) : u[k] = sc[g[k]][j]
  <2>1. CASE k \in 1..a
    <3>1. /\ src[k] \in 0..(n - 1) /\ src[k] \in DOMAIN sc
          /\ \E j \in 1..Len(sc[src[k]]) : t[k] = sc[src[k]][j]
      BY <2>1, <1>4, <1>5 DEF SourcedBy
    <3>2. g[k] = src[k] /\ u[k] = t[k]
      BY <2>1, <1>6, <1>7
    <3>3. QED
      BY <3>1, <3>2
  <2>2. CASE k \notin 1..a
    <3>1. k - a \in 1..b /\ g[k] = n /\ u[k] = v[k - a]
      <4>1. k - a \in 1..b /\ g[k] = n /\ a + (k - a) = k
        BY <2>2, <1>6, <1>7
      <4>2. PICK y \in 1..b : y = k - a
        BY <4>1
      <4>3. u[a + y] = v[y]
        BY <1>6
      <4>4. QED
        BY <4>1, <4>2, <4>3
    <3>2. n \in DOMAIN sc /\ v = sc[n]
      BY <3>1, <1>8
    <3>3. QED
      BY <3>1, <3>2, <1>5
  <2>3. QED
    BY <2>1, <2>2
<1>10. ASSUME NEW j \in 1..Len(u), NEW k \in 1..Len(u), j < k
       PROVE  g[j] <= g[k]
  <2>1. CASE k \in 1..a
    <3>1. j \in 1..a
      BY <2>1, <1>5, <1>10
    <3>2. src[j] <= src[k]
      BY <2>1, <3>1, <1>4, <1>5, <1>10 DEF SourcedBy
    <3>3. QED
      BY <2>1, <3>1, <3>2, <1>7
  <2>2. CASE k \notin 1..a
    <3>1. g[k] = n
      BY <2>2, <1>6, <1>7
    <3>2. g[j] \in 0..n
      BY <1>9
    <3>3. QED
      BY <3>1, <3>2
  <2>3. QED
    BY <2>1, <2>2
<1>11. ASSUME NEW c \in DOMAIN sc, c \in 0..n, NEW j \in 1..Len(sc[c])
       PROVE  \E k \in 1..Len(u) : g[k] = c /\ u[k] = sc[c][j]
  <2>1. CASE c = n
    <3>1. v = sc[n] /\ j \in 1..b
      BY <2>1, <1>1, <1>5, <1>11
    <3>2. a + j \in 1..Len(u) /\ g[a + j] = n /\ u[a + j] = v[j]
      BY <3>1, <1>6, <1>7
    <3>3. QED
      BY <2>1, <3>1, <3>2
  <2>2. CASE c # n
    <3>1. c \in 0..(n - 1)
      BY <2>2, <1>11
    <3>2. PICK k \in 1..a : src[k] = c /\ t[k] = sc[c][j]
      BY <3>1, <1>4, <1>5, <1>11 DEF SourcedBy
    <3>3. QED
      BY <3>2, <1>6, <1>7
  <2>3. QED
    BY <2>1, <2>2
<1>12. n = (n + 1) - 1
  OBVIOUS
<1>13. SourcedBy(sc, u, n + 1, g)
  BY <1>9, <1>10, <1>11, <1>12 DEF SourcedBy
<1>14. QED
  BY <1>6, <1>13 DEF Sourced

\* The text that the store is rebuilt from.
LEMMA TextOfSidecars ==
  ASSUME SideTyped
  PROVE  \E t : Rebuilt = Entries(t) /\ Sourced(sidecars, t, MaxLen)
<1>1. PICK f : /\ Rebuilt = Entries(f[MaxLen]) /\ f[0] = <<>>
               /\ \A k \in 1..MaxLen :
                    f[k] = f[k - 1] \o IF k - 1 \in DOMAIN sidecars THEN sidecars[k - 1] ELSE <<>>
  BY RebuiltIs
<1>2. MaxLen \in Nat /\ \A c \in DOMAIN sidecars : sidecars[c] \in Seq(LineT)
  BY DurableAssumption DEF SideTyped
<1> DEFINE Bad == {m \in 0..MaxLen : ~Sourced(sidecars, f[m], m)}
<1>3. ASSUME Bad # {}
      PROVE  FALSE
  <2>1. Bad \subseteq Nat
    BY <1>2
  <2>2. PICK m \in Bad : \A k \in Bad : m <= k
    <3> HIDE DEF Bad
    <3>1. QED
      BY <1>3, <2>1, LeastNatural
  <2>3. m \in 0..MaxLen /\ ~Sourced(sidecars, f[m], m)
    OBVIOUS
  <2>4. CASE m = 0
    <3>1. PICK t : t = <<>>
      OBVIOUS
    <3>2. t \in Seq(LineT) /\ Len(t) = 0
      BY <3>1
    <3>3. SourcedBy(sidecars, t, 0, <<>>)
      BY <3>2 DEF SourcedBy
    <3>4. f[m] = t
      BY <2>4, <3>1, <1>1
    <3>5. QED
      BY <2>3, <2>4, <3>2, <3>3, <3>4 DEF Sourced
  <2>5. CASE m # 0
    <3>1. PICK n \in Nat : n = m - 1
      BY <2>3, <2>5
    <3>2. n \in 0..MaxLen /\ m \in 1..MaxLen /\ n + 1 = m /\ ~(m <= n)
      BY <2>3, <2>5, <3>1, <1>2
    <3>3. Sourced(sidecars, f[n], n)
      BY <2>2, <3>2
    <3>4. f[m] = f[n] \o IF n \in DOMAIN sidecars THEN sidecars[n] ELSE <<>>
      BY <1>1, <3>1, <3>2
    <3>5. PICK t, u, sc : t = f[n] /\ u = f[m] /\ sc = sidecars
      OBVIOUS
    <3>6. Sourced(sc, u, n + 1)
      BY <3>3, <3>4, <3>5, <1>2, SourcedNext
    <3>7. QED
      BY <2>3, <3>2, <3>5, <3>6
  <2>6. QED
    BY <2>4, <2>5
<1>4. MaxLen \in 0..MaxLen
  BY <1>2
<1>5. Sourced(sidecars, f[MaxLen], MaxLen)
  BY <1>3, <1>4
<1>6. QED
  BY <1>1, <1>5

\* Line k of t, of i, is one of the last sidecar that has a line of i.
FromLast(sc, t, n, k, i) ==
  \E c \in DOMAIN sc : \E j \in 1..Len(sc[c]) :
    /\ t[k] = sc[c][j] /\ c \in 0..(n - 1)
    /\ \A d \in DOMAIN sc : d \in 0..(n - 1) /\ Has(sc[d], i) => d <= c

\* A line of the text is one of a sidecar, and the last of an id one of the last
\* sidecar that has any.
LEMMA LinesOfText ==
  ASSUME NEW sc, NEW n, NEW t, Sourced(sc, t, n), \A c \in DOMAIN sc : sc[c] \in Seq(LineT), NEW i
  PROVE  /\ Has(t, i) => \E c \in DOMAIN sc : Has(sc[c], i)
         /\ Deletes(t, i) => \E c \in DOMAIN sc : Deletes(sc[c], i)
         /\ \A c \in DOMAIN sc : c \in 0..(n - 1) /\ Has(sc[c], i) => Has(t, i)
         /\ \A c \in DOMAIN sc : c \in 0..(n - 1) /\ Deletes(sc[c], i) => Deletes(t, i)
         /\ \A k \in 1..Len(t) : IsPut(t[k], i) /\ IsLast(t, k) => FromLast(sc, t, n, k, i)
<1>1. PICK src : SourcedBy(sc, t, n, src)
  BY DEF Sourced
<1>2. \A k \in 1..Len(t) :
        /\ src[k] \in 0..(n - 1) /\ src[k] \in DOMAIN sc
        /\ \E j \in 1..Len(sc[src[k]]) : t[k] = sc[src[k]][j]
  BY <1>1 DEF SourcedBy
<1>3. \A c \in DOMAIN sc : c \in 0..(n - 1) =>
        \A j \in 1..Len(sc[c]) : \E k \in 1..Len(t) : src[k] = c /\ t[k] = sc[c][j]
  BY <1>1 DEF SourcedBy
<1>4. \A j, k \in 1..Len(t) : j < k => src[j] <= src[k]
  BY <1>1 DEF SourcedBy
<1>5. Has(t, i) => \E c \in DOMAIN sc : Has(sc[c], i)
  BY <1>2 DEF Has
<1>6. Deletes(t, i) => \E c \in DOMAIN sc : Deletes(sc[c], i)
  BY <1>2 DEF Deletes
<1>7. \A c \in DOMAIN sc : c \in 0..(n - 1) /\ Has(sc[c], i) => Has(t, i)
  BY <1>3 DEF Has
<1>8. \A c \in DOMAIN sc : c \in 0..(n - 1) /\ Deletes(sc[c], i) => Deletes(t, i)
  BY <1>3 DEF Deletes
<1>9. ASSUME NEW k \in 1..Len(t), IsPut(t[k], i), IsLast(t, k)
      PROVE  FromLast(sc, t, n, k, i)
  <2>1. PICK c \in DOMAIN sc : c = src[k] /\ c \in 0..(n - 1)
    BY <1>2
  <2>2. PICK j \in 1..Len(sc[c]) : t[k] = sc[c][j]
    BY <1>2, <2>1
  <2>3. ASSUME NEW d \in DOMAIN sc, d \in 0..(n - 1), Has(sc[d], i)
        PROVE  d <= c
    <3>1. PICK x \in 1..Len(sc[d]) : IsPut(sc[d][x], i)
      BY <2>3 DEF Has
    <3>2. PICK y \in 1..Len(t) : src[y] = d /\ IsPut(t[y], i)
      BY <1>3, <2>3, <3>1
    <3>3. ~(y \in (k + 1)..Len(t))
      <4>1. t[k].id = i
        BY <1>9 DEF IsPut
      <4>2. QED
        BY <3>2, <4>1, <1>9 DEF IsLast
    <3>4. y = k \/ y < k
      <4>1. Len(t) \in Nat
        BY DEF Sourced
      <4>2. QED
        BY <3>3, <4>1
    <3>5. CASE y = k
      BY <3>5, <3>2, <2>1, <2>3
    <3>6. CASE y < k
      BY <3>6, <3>2, <2>1, <1>4
    <3>7. QED
      BY <3>4, <3>5, <3>6
  <2>4. QED
    BY <2>1, <2>2, <2>3 DEF FromLast
<1>10. QED
  BY <1>5, <1>6, <1>7, <1>8, <1>9

\* Lines of the same ids make as many entries.
LEMMA SameCount ==
  ASSUME NEW lines \in Seq(LineT), NEW more \in Seq(LineT), \A i \in Nat : Has(lines, i) <=> Has(more, i)
  PROVE  Count(lines) = Count(more)
<1>1. ASSUME NEW v \in Seq(LineT), NEW u \in Seq(LineT), \A i \in Nat : Has(v, i) <=> Has(u, i)
      PROVE  Count(v) <= Count(u)
  <2>1. Count(u) \in Nat /\ \A k \in PutLines(u) : u[k].id < Count(u)
    BY CountCovers
  <2>2. ASSUME NEW k \in PutLines(v)
        PROVE  v[k].id < Count(u)
    <3>1. k \in 1..Len(v) /\ ~v[k].delete
      BY DEF PutLines
    <3>2. v[k].id \in Nat
      <4>1. v[k] \in LineT
        BY <3>1
      <4>2. QED
        BY <4>1 DEF LineT
    <3>3. Has(v, v[k].id)
      BY <3>1 DEF Has, IsPut
    <3>4. Has(u, v[k].id)
      BY <3>2, <3>3, <1>1
    <3>5. PICK j \in 1..Len(u) : ~u[j].delete /\ u[j].id = v[k].id
      BY <3>4 DEF Has, IsPut
    <3>6. j \in PutLines(u)
      BY <3>5 DEF PutLines
    <3>7. QED
      BY <3>5, <3>6, <2>1
  <2>3. QED
    BY <2>1, <2>2, CountCovers
<1>2. Count(lines) <= Count(more) /\ Count(more) <= Count(lines)
  BY <1>1
<1>3. Count(lines) \in Nat /\ Count(more) \in Nat
  BY CountCovers
<1>4. QED
  BY <1>2, <1>3

\* With no sidecar under way, what is beside is stored.
LEMMA BesideIdle ==
  ASSUME NEW ws, Len(ws) = 0, NEW sc, NEW c, NEW S, Beside(ws, sc, c, S)
  PROVE  Stored(sc, c, S)
<1>1. ~\E k \in 1..Len(ws) : TRUE
  OBVIOUS
<1>2. QED
  BY <1>1 DEF Beside

\* With every write done, the last line of an object in the text is as the
\* object is.
LEMMA SaidLast ==
  ASSUME Typed, Kept, SideTyped, Sides, todo = <<>>, NEW t, Sourced(sidecars, t, MaxLen),
         NEW i, Has(index, i), Deletes(index, i) => kills = 0
  PROVE  /\ Has(t, i)
         /\ \A k \in 1..Len(t) : IsPut(t[k], i) /\ IsLast(t, k) => t[k].entry = Bare(At(entries, i))
<1>1. i \in Ids(entries)
  BY LinesInIds
<1>2. Wanted(index, todo, kills, i)
  BY DEF Wanted, Known
<1>3. PICK h : h = Home(entries, i)
  OBVIOUS
<1>4. /\ h \in Ids(entries)
      /\ At(entries, i).kind = "small" => At(entries, h).kind = "pack"
      /\ Stored(sidecars, h, Right(entries, i))
  <2>1. AtHome(entries, index, todo, sidecars, busy, i)
    BY <1>1, <1>2 DEF Sides, AllAtHome
  <2>2. Len(todo) = 0
    BY IdleWrites
  <2>3. QED
    BY <1>3, <2>1, <2>2, BesideIdle DEF AtHome
<1>5. h \in DOMAIN sidecars /\ h \in 0..(MaxLen - 1)
  <2>1. Len(entries) \in Nat /\ Len(entries) <= MaxLen /\ MaxLen \in Nat
    BY DurableAssumption DEF Typed
  <2>2. h \in DOMAIN sidecars
    BY <1>4 DEF Stored
  <2>3. h \in 0..(Len(entries) - 1)
    BY <1>4 DEF Ids
  <2>4. QED
    BY <2>1, <2>2, <2>3
<1>6. /\ Has(sidecars[h], i)
      /\ \A j \in 1..Len(sidecars[h]) : IsPut(sidecars[h][j], i) => sidecars[h][j].entry = Bare(At(entries, i))
  BY <1>4 DEF Stored, Right, Saying, Has
<1>7. \A c \in DOMAIN sidecars : sidecars[c] \in Seq(LineT)
  BY DEF SideTyped
<1>8. Has(t, i)
  BY <1>5, <1>6, <1>7, LinesOfText
<1>9. ASSUME NEW k \in 1..Len(t), IsPut(t[k], i), IsLast(t, k)
      PROVE  t[k].entry = Bare(At(entries, i))
  <2>1. PICK c \in DOMAIN sidecars : \E j \in 1..Len(sidecars[c]) :
          /\ t[k] = sidecars[c][j] /\ c \in 0..(MaxLen - 1)
          /\ \A d \in DOMAIN sidecars : d \in 0..(MaxLen - 1) /\ Has(sidecars[d], i) => d <= c
    <3>1. FromLast(sidecars, t, MaxLen, k, i)
      BY <1>7, <1>9, LinesOfText
    <3>2. QED
      BY <3>1 DEF FromLast
  <2>2. PICK j \in 1..Len(sidecars[c]) : t[k] = sidecars[c][j]
    BY <2>1
  <2>3. c \in Nat /\ h <= c
    BY <1>5, <1>6, <2>1
  <2>4. IsPut(sidecars[c][j], i)
    BY <2>2, <1>9
  <2>5. StoredLine(entries, index, c, sidecars[c][j])
    BY DEF Sides, StoredLines
  <2>6. CASE i # c
    BY <2>2, <2>4, <2>5, <2>6 DEF StoredLine, Packed, IsPut
  <2>7. CASE i = c
    <3>1. h = i
      <4>1. CASE At(entries, i).kind # "small"
        BY <4>1, <1>3 DEF Home
      <4>2. CASE At(entries, i).kind = "small"
        <5>1. h # i
          BY <4>2, <1>4
        <5>2. PICK x \in 1..Len(sidecars[h]) : IsPut(sidecars[h][x], i)
          BY <1>6 DEF Has
        <5>3. StoredLine(entries, index, h, sidecars[h][x])
          BY <1>5 DEF Sides, StoredLines
        <5>4. i \in 0..(h - 1)
          BY <5>1, <5>2, <5>3 DEF StoredLine, Packed, IsPut
        <5>5. QED
          BY <5>4, <2>3, <2>7, <1>5
      <4>3. QED
        BY <4>1, <4>2
    <3>2. QED
      BY <3>1, <2>2, <2>4, <2>7, <1>6
  <2>8. QED
    BY <2>6, <2>7
<1>10. QED
  BY <1>8, <1>9

\* And so the rebuilt store has the object as the opened one has it.
LEMMA SaidSame ==
  ASSUME Typed, Kept, SideTyped, Sides, todo = <<>>, NEW t, Sourced(sidecars, t, MaxLen),
         NEW i, Has(index, i), Deletes(index, i) => kills = 0,
         Deletes(t, i) <=> Deletes(index, i)
  PROVE  i \in Ids(Entries(t)) /\ At(Entries(t), i) = At(Opened, i)
<1>1. t \in Seq(LineT)
  BY DEF Sourced
<1>2. /\ i \in Ids(entries) /\ i \in Nat
      /\ At(Opened, i) \in EntryT
      /\ At(Opened, i).deleted <=> Deletes(index, i)
      /\ Bare(At(Opened, i)) = Bare(At(entries, i))
  <2>1. ~Due(todo, i)
    BY IdleWrites
  <2>2. QED
    BY <2>1, OpenedKeeps DEF Bare, Ids
<1>3. PICK es : es = Entries(t)
  OBVIOUS
<1>4. /\ es \in Seq(EntryT) /\ i \in Ids(es)
      /\ \E k \in 1..Len(t) :
           IsPut(t[k], i) /\ IsLast(t, k) /\ At(es, i) = [t[k].entry EXCEPT !.deleted = Deletes(t, i)]
  <2>1. Has(t, i)
    BY SaidLast
  <2>2. QED
    BY <1>1, <1>2, <1>3, <2>1, OpenedEntries
<1>5. PICK k \in 1..Len(t) :
        IsPut(t[k], i) /\ IsLast(t, k) /\ At(es, i) = [t[k].entry EXCEPT !.deleted = Deletes(t, i)]
  BY <1>4
<1>6. t[k].entry = Bare(At(entries, i))
  BY <1>5, SaidLast
<1>7. At(es, i) \in EntryT
  <2>1. Len(es) \in Nat
    BY <1>4
  <2>2. i + 1 \in 1..Len(es)
    BY <1>4, <2>1 DEF Ids
  <2>3. QED
    BY <1>4, <2>2 DEF At
<1>8. PICK e \in EntryT, f \in EntryT, b \in EntryT, d \in BOOLEAN :
        e = At(es, i) /\ f = At(Opened, i) /\ b = t[k].entry /\ d = Deletes(t, i)
  <2>1. t[k] \in LineT
    BY <1>1
  <2>2. t[k].entry \in EntryT
    BY <2>1 DEF LineT
  <2>3. Deletes(t, i) \in BOOLEAN
    BY DEF Deletes
  <2>4. QED
    BY <2>2, <2>3, <1>2, <1>7
<1>9. e = [b EXCEPT !.deleted = d] /\ b = Bare(f)
  BY <1>2, <1>5, <1>6, <1>8
<1>10. Bare(e) = Bare(f)
  BY <1>9 DEF Bare, EntryT
<1>11. e.deleted = d
  BY <1>9 DEF EntryT
<1>12. e.deleted <=> f.deleted
  BY <1>2, <1>8, <1>11
<1>13. e = f
  BY <1>10, <1>12, SameButDeleted DEF Bare
<1>14. QED
  BY <1>3, <1>4, <1>8, <1>13

LEMMA IdleSidecars == DurableInv /\ SideInv => SidecarsAreIndex
<1>1. SUFFICES ASSUME DurableInv, SideInv, Idle, events \cap Excluded = {}
               PROVE  /\ kills = 0 => Matches(Rebuilt)
                      /\ \A i \in Live(Opened) : i \in Ids(Rebuilt) /\ At(Rebuilt, i) = At(Opened, i)
  BY DEF SidecarsAreIndex, Excluded
<1>2. Typed /\ Kept /\ SideTyped /\ Sides /\ todo = <<>>
  BY <1>1 DEF DurableInv, SideInv, Idle
<1>3. PICK t : Rebuilt = Entries(t) /\ Sourced(sidecars, t, MaxLen)
  BY <1>2, TextOfSidecars
<1>4. \A c \in DOMAIN sidecars : sidecars[c] \in Seq(LineT)
  BY <1>2 DEF SideTyped
<1>5. ASSUME NEW i, Deletes(t, i)
      PROVE  Deletes(index, i)
  <2>1. PICK c \in DOMAIN sidecars : Deletes(sidecars[c], i)
    BY <1>3, <1>4, <1>5, LinesOfText
  <2>2. PICK j \in 1..Len(sidecars[c]) : IsDelete(sidecars[c][j], i)
    BY <2>1 DEF Deletes
  <2>3. StoredLine(entries, index, c, sidecars[c][j])
    BY <1>2 DEF Sides, StoredLines
  <2>4. QED
    BY <2>2, <2>3 DEF StoredLine, IsDelete
<1>6. ASSUME NEW i \in Live(Opened)
      PROVE  i \in Ids(Rebuilt) /\ At(Rebuilt, i) = At(Opened, i)
  <2>1. i \in Ids(Opened) /\ ~At(Opened, i).deleted
    BY DEF Live
  <2>2. Has(index, i)
    BY <2>1, <1>2, OpenedKeeps DEF Lost
  <2>3. ~Deletes(index, i)
    BY <2>1, <2>2, <1>2, OpenedKeeps
  <2>4. QED
    BY <2>2, <2>3, <1>2, <1>3, <1>5, SaidSame
<1>7. ASSUME kills = 0
      PROVE  Matches(Rebuilt)
  <2>1. /\ "open deletion" \notin events
        /\ FromStart(entries, index, todo, sidecars)
    BY <1>2, <1>7 DEF Sides
  <2>2. Reopens /\ Matches(Opened)
    BY <1>1, <2>1, IdleMatches DEF DurableInv, IndexIsMemory
  <2>3. \A i : ~Due(todo, i) /\ ~DueDeletes(todo, i)
    BY <1>2, IdleWrites
  <2>4. ASSUME NEW i
        PROVE  Has(t, i) <=> Has(index, i)
    <3>1. ASSUME Has(t, i)
          PROVE  Has(index, i)
      <4>1. PICK c \in DOMAIN sidecars : Has(sidecars[c], i)
        BY <1>3, <1>4, <3>1, LinesOfText
      <4>2. PICK j \in 1..Len(sidecars[c]) : IsPut(sidecars[c][j], i)
        BY <4>1 DEF Has
      <4>3. Known(index, todo, sidecars[c][j].id)
        BY <2>1, <4>2 DEF FromStart, IsPut
      <4>4. QED
        BY <4>2, <4>3, <2>3 DEF Known, IsPut
    <3>2. QED
      BY <3>1, <1>2, <1>3, <1>7, SaidLast
  <2>5. ASSUME NEW i, Has(index, i), Deletes(index, i)
        PROVE  Deletes(t, i)
    <3>1. i \in Ids(entries)
      BY <1>2, <2>5, LinesInIds
    <3>2. At(entries, i).deleted
      BY <2>2, <2>5, <3>1 DEF Reopens
    <3>3. Beside(todo, sidecars, i, Deleting(i))
      BY <2>1, <3>1, <3>2 DEF FromStart
    <3>4. Stored(sidecars, i, Deleting(i))
      BY <3>3, <1>2, IdleWrites, BesideIdle
    <3>5. i \in DOMAIN sidecars /\ Deletes(sidecars[i], i)
      BY <3>4 DEF Stored, Deleting
    <3>6. i \in 0..(MaxLen - 1)
      <4>1. Len(entries) \in Nat /\ Len(entries) <= MaxLen /\ MaxLen \in Nat
        BY <1>2, DurableAssumption DEF Typed
      <4>2. QED
        BY <3>1, <4>1 DEF Ids
    <3>7. QED
      BY <1>3, <1>4, <3>5, <3>6, LinesOfText
  <2>6. ASSUME NEW i, Has(index, i)
        PROVE  At(Rebuilt, i) = At(Opened, i)
    BY <2>5, <2>6, <1>2, <1>3, <1>5, <1>7, SaidSame
  <2>7. index \in Seq(LineT) /\ t \in Seq(LineT)
    BY <1>2, <1>3 DEF Typed, Sourced
  <2>8. /\ Rebuilt \in Seq(EntryT) /\ Opened \in Seq(EntryT) /\ Len(Rebuilt) = Len(Opened)
    BY <1>3, <2>4, <2>7, SameCount, OpenedEntries DEF Opened
  <2>9. ASSUME NEW i \in Ids(Opened)
        PROVE  At(Rebuilt, i) = At(Opened, i)
    <3>1. CASE Has(index, i)
      BY <3>1, <2>6
    <3>2. CASE ~Has(index, i)
      <4>1. i \in Ids(Rebuilt) /\ ~Has(t, i)
        BY <3>2, <2>4, <2>8 DEF Ids
      <4>2. At(Rebuilt, i) = Lost
        BY <4>1, <1>3, <2>7, OpenedEntries
      <4>3. QED
        BY <3>2, <4>2, <1>2, OpenedKeeps
    <3>3. QED
      BY <3>1, <3>2
  <2>10. Rebuilt = Opened
    <3>1. PICK a, b : a = Rebuilt /\ b = Opened
      OBVIOUS
    <3>2. a \in Seq(EntryT) /\ b \in Seq(EntryT) /\ Len(a) = Len(b)
      BY <2>8, <3>1
    <3>3. ASSUME NEW k \in 1..Len(a)
          PROVE  a[k] = b[k]
      <4>1. k - 1 \in Ids(Opened) /\ (k - 1) + 1 = k
        BY <3>1, <3>2 DEF Ids
      <4>2. At(Rebuilt, k - 1) = At(Opened, k - 1)
        BY <2>9, <4>1
      <4>3. QED
        BY <3>1, <4>1, <4>2 DEF At
    <3>4. QED
      BY <3>1, <3>2, <3>3, SeqEqual
  <2>11. QED
    BY <2>2, <2>10
<1>8. QED
  BY <1>6, <1>7

-----------------------------------------------------------------------------
(* What a step leaves of the sidecars.                                     *)

\* i is an entry still, the same but for its deletion.
Stays(es, fs, i) ==
  /\ i \in Ids(fs) /\ Bare(At(fs, i)) = Bare(At(es, i))
  /\ At(fs, i).kind = At(es, i).kind /\ At(fs, i).pack = At(es, i).pack

LEMMA SameStays ==
  ASSUME NEW es, NEW fs, NEW i \in Ids(fs), At(fs, i) = At(es, i)
  PROVE  Stays(es, fs, i)
BY DEF Stays

LEMMA HomeStays ==
  ASSUME NEW es, NEW fs, NEW i, Stays(es, fs, i)
  PROVE  /\ Home(fs, i) = Home(es, i) /\ Right(fs, i) = Right(es, i)
         /\ \A c, l : l.id = i /\ Packed(es, c, l) => Packed(fs, c, l)
BY DEF Stays, Home, Right, Packed

\* The sidecars stored say no more than the index where its lines stay and the
\* entries they are about.
LEMMA StoredStays ==
  ASSUME NEW es, NEW fs, NEW lines, NEW more, NEW sc, StoredLines(es, lines, sc),
         \A i : (Has(lines, i) => Has(more, i)) /\ (Deletes(lines, i) => Deletes(more, i)),
         \A i \in Ids(es) : At(es, i).kind = "small" /\ Has(lines, i) => Stays(es, fs, i)
  PROVE  StoredLines(fs, more, sc)
<1>1. ASSUME NEW c \in DOMAIN sc, NEW j \in 1..Len(sc[c])
      PROVE  StoredLine(fs, more, c, sc[c][j])
  <2>1. PICK l : l = sc[c][j]
    OBVIOUS
  <2>2. StoredLine(es, lines, c, l)
    BY <2>1 DEF StoredLines
  <2>3. ASSUME ~l.delete, l.id # c
        PROVE  Packed(fs, c, l) /\ Has(more, l.id)
    <3>1. Packed(es, c, l) /\ Has(lines, l.id)
      BY <2>2, <2>3 DEF StoredLine
    <3>2. Stays(es, fs, l.id)
      BY <3>1 DEF Packed
    <3>3. QED
      BY <3>1, <3>2, HomeStays
  <2>4. QED
    BY <2>1, <2>2, <2>3 DEF StoredLine
<1>2. QED
  BY <1>1 DEF StoredLines

\* What is stored at home is there still when no write is about to change it.
LEMMA AtHomeStored ==
  ASSUME NEW es, NEW fs, NEW lines, NEW more, NEW sc, NEW op, NEW i, NEW h, h = Home(es, i),
         Stays(es, fs, i), h \in Ids(fs), At(es, i).kind = "small" => At(fs, h).kind = "pack",
         Stored(sc, h, Right(es, i)),
         \A k \in 1..Len(more) : IsSidecar(more[k], h) => more[k].value \in Right(es, i)
  PROVE  AtHome(fs, lines, more, sc, op, i)
<1>1. Home(fs, i) = h /\ Right(fs, i) = Right(es, i)
  BY HomeStays
<1>2. At(fs, i).kind = At(es, i).kind
  BY DEF Stays
<1>3. Beside(more, sc, h, Right(es, i))
  BY DEF Beside
<1>4. QED
  BY <1>1, <1>2, <1>3 DEF AtHome

\* Sidecars of other objects added to the writes leave it so.
LEMMA BesideMore ==
  ASSUME NEW ws, NEW more, NEW sc, NEW c, NEW S, Beside(ws, sc, c, S),
         \A k \in 1..Len(ws) : k \in 1..Len(more) /\ more[k] = ws[k],
         \A k \in 1..Len(more) : k \in 1..Len(ws) \/ ~IsSidecar(more[k], c)
  PROVE  Beside(more, sc, c, S)
BY DEF Beside

LEMMA SidecarValue ==
  ASSUME NEW ws \in Seq(WriteT), NEW k \in 1..Len(ws), ws[k].to = "sidecar"
  PROVE  ws[k].value \in Seq(LineT)
<1>1. PICK w \in WriteT : w = ws[k]
  OBVIOUS
<1>2. w.to = "sidecar" => w.value \in Seq(LineT)
  BY DEF WriteT
<1>3. QED
  BY <1>1, <1>2

\* A small put's entry has no line yet.
LEMMA SidesPutSmall ==
  ASSUME Typed, Kept, Sides, PutSmall
  PROVE  Sides'
<1> DEFINE n == Len(entries)
<1>1. /\ n \in Nat /\ entries \in Seq(EntryT) /\ Len(entries') = n + 1
      /\ \A i \in Ids(entries) : At(entries', i) = At(entries, i)
      /\ At(entries', n).kind = "small" /\ ~At(entries', n).deleted
  BY AfterPutSmall DEF Typed
<1>2. /\ todo' = todo /\ index' = index /\ sidecars' = sidecars /\ busy' = busy /\ kills' = kills
      /\ events' = events
  BY DEF PutSmall, disk
<1>3. At(entries', n).pack = Open
  <2>1. PICK e : e = Entry(puts, "small", None, Open, Len(pending))
    OBVIOUS
  <2>2. entries' = Append(entries, e) /\ e.pack = Open
    BY <2>1 DEF PutSmall, Entry
  <2>3. entries'[n + 1] = e
    BY <2>2, <1>1
  <2>4. QED
    BY <2>2, <2>3 DEF At
<1>4. /\ Ids(entries') = Ids(entries) \cup {n} /\ n \notin Ids(entries)
  BY <1>1 DEF Ids
<1>5. \A i \in Ids(entries) : i \in Ids(entries') /\ Stays(entries, entries', i)
  BY <1>1, <1>4, SameStays
<1>6. ~Known(index, todo, n)
  BY <1>4, LinesInIds DEF Known
<1>7. StoredLines(entries', index, sidecars)
  BY <1>5, StoredStays DEF Sides
<1>8. DueSidecars(entries', index, todo, busy)
  <2>1. ASSUME NEW k \in 1..Len(todo), todo[k].to = "sidecar"
        PROVE  DueSidecar(entries', index, todo, busy, k)
    <3>1. DueSidecar(entries, index, todo, busy, k)
      BY <2>1 DEF Sides, DueSidecars
    <3>2. ASSUME NEW l, DueLine(entries, index, todo, busy, k, l)
          PROVE  DueLine(entries', index, todo, busy, k, l)
      <4>1. Packed(entries, todo[k].id, l) => Packed(entries', todo[k].id, l)
        <5>1. Packed(entries, todo[k].id, l) => Stays(entries, entries', l.id)
          BY <1>5 DEF Packed
        <5>2. QED
          BY <5>1, HomeStays
      <4>2. QED
        BY <3>2, <4>1 DEF DueLine
    <3>3. todo[k].id \in Ids(entries') /\ At(entries', todo[k].id).kind = At(entries, todo[k].id).kind
      BY <3>1, <1>5 DEF DueSidecar, Stays
    <3>4. QED
      BY <3>1, <3>2, <3>3 DEF DueSidecar
  <2>2. QED
    BY <2>1 DEF DueSidecars
<1>9. SidecarFirst(entries', todo, busy)
  <2>1. ASSUME NEW i \in Ids(entries'), Due(todo, i), At(entries', i).kind # "large"
        PROVE  busy = "flush"
    <3>1. i # n
      BY <2>1, <1>6 DEF Known
    <3>2. QED
      BY <2>1, <3>1, <1>1, <1>4 DEF Sides, SidecarFirst
  <2>2. QED
    BY <2>1 DEF Sides, SidecarFirst
<1>10. AllAtHome(entries', index, todo, sidecars, busy, kills)
  <2>1. ASSUME NEW i \in Ids(entries'), Wanted(index, todo, kills, i)
        PROVE  AtHome(entries', index, todo, sidecars, busy, i)
    <3>1. i \in Ids(entries)
      BY <2>1, <1>4, <1>6 DEF Wanted
    <3>2. AtHome(entries, index, todo, sidecars, busy, i)
      BY <2>1, <3>1 DEF Sides, AllAtHome
    <3>3. /\ Home(entries', i) = Home(entries, i) /\ Right(entries', i) = Right(entries, i)
          /\ At(entries', i) = At(entries, i)
      BY <3>1, <1>1, <1>5, HomeStays
    <3>4. Home(entries, i) \in Ids(entries)
      BY <3>2 DEF AtHome
    <3>5. Home(entries, i) \in Ids(entries') /\ At(entries', Home(entries, i)) = At(entries, Home(entries, i))
      BY <3>4, <1>1, <1>4
    <3>6. QED
      BY <3>2, <3>3, <3>5 DEF AtHome
  <2>2. QED
    BY <2>1 DEF AllAtHome
<1>11. Apart(entries')
  BY <1>1, <1>3, <1>4, DurableAssumption DEF Sides, Apart
<1>12. kills = 0 => "open deletion" \notin events /\ FromStart(entries', index, todo, sidecars)
  BY <1>1, <1>4 DEF Sides, FromStart
<1>13. QED
  BY <1>2, <1>7, <1>8, <1>9, <1>10, <1>11, <1>12 DEF Sides

\* The writes of a large put: its sidecar is the one before the last.
LEMMA SidecarPutLarge ==
  ASSUME Typed, PutLarge
  PROVE  LET n == Len(entries)
             t == Len(todo)
         IN  /\ t \in Nat /\ t + 2 \in 1..Len(todo') /\ IsSidecar(todo'[t + 2], n)
             /\ Len(todo'[t + 2].value) = 1 /\ todo'[t + 2].value \in Right(entries', n)
             /\ todo'[t + 2].value[1].id = n /\ ~todo'[t + 2].value[1].delete
             /\ \A k \in 1..t : k \in 1..Len(todo') /\ todo'[k] = todo[k]
             /\ \A k \in 1..Len(todo') : k \in 1..t \/ k = t + 2 \/ (k > t /\ todo'[k].to # "sidecar")
             /\ \A k \in 1..Len(todo') : k \in 1..t \/ k = t + 3 \/ (k > t /\ todo'[k].to # "index")
<1> DEFINE n == Len(entries)
           t == Len(todo)
<1>1. /\ todo' \in Seq(WriteT) /\ Len(todo') = t + 3 /\ \A k \in 1..t : todo'[k] = todo[k]
      /\ todo'[t + 1].to = "stream" /\ todo'[t + 2].to = "sidecar"
      /\ todo'[t + 2] = Sidecar(n, <<line(n, At(entries', n))>>)
      /\ todo'[t + 3] = Line(line(n, At(entries', n)))
  BY AfterPutLarge
<1>2. t \in Nat
  BY DEF Typed
<1>3. PICK l : l = line(n, At(entries', n))
  OBVIOUS
<1>4. l.id = n /\ ~l.delete /\ l.entry = Bare(At(entries', n))
  BY <1>3 DEF line, Bare
<1>5. PICK v : v = <<l>>
  OBVIOUS
<1>6. Len(v) = 1 /\ v[1] = l /\ \A k \in 1..Len(v) : k = 1
  BY <1>5
<1>7. todo'[t + 2].id = n /\ todo'[t + 2].value = v
  BY <1>1, <1>3, <1>5 DEF Sidecar
<1>8. v \in Seq(LineT)
  <2>1. PICK w \in WriteT : w = todo'[t + 2]
    BY <1>1, <1>2
  <2>2. w.to = "sidecar" => w.value \in Seq(LineT)
    BY DEF WriteT
  <2>3. QED
    BY <2>1, <2>2, <1>1, <1>7
<1>9. v \in Right(entries', n)
  <2>1. 1 \in 1..Len(v)
    BY <1>6
  <2>2. QED
    BY <2>1, <1>4, <1>6, <1>8 DEF Right, Saying, IsPut
<1>10. todo'[t + 3].to = "index"
  BY <1>1 DEF Line
<1>11. \A k \in 1..Len(todo') : k \in 1..t \/ k = t + 1 \/ k = t + 2 \/ k = t + 3
  BY <1>1, <1>2
<1>12. /\ t + 2 \in 1..Len(todo') /\ \A k \in 1..t : k \in 1..Len(todo')
       /\ t + 1 > t /\ t + 2 > t /\ t + 3 > t
  BY <1>1, <1>2
<1>13. \A k \in 1..Len(todo') : k \in 1..t \/ k = t + 2 \/ (k > t /\ todo'[k].to # "sidecar")
  BY <1>1, <1>10, <1>11, <1>12
<1>14. \A k \in 1..Len(todo') : k \in 1..t \/ k = t + 3 \/ (k > t /\ todo'[k].to # "index")
  BY <1>1, <1>10, <1>11, <1>12
<1>15. QED
  BY <1>1, <1>2, <1>4, <1>6, <1>7, <1>9, <1>12, <1>13, <1>14 DEF IsSidecar

LEMMA SidesPutLarge ==
  ASSUME Typed, Kept, Sides, PutLarge
  PROVE  Sides'
<1> DEFINE n == Len(entries)
           t == Len(todo)
<1>1. /\ n \in Nat /\ entries \in Seq(EntryT) /\ Len(entries') = n + 1
      /\ \A i \in Ids(entries) : At(entries', i) = At(entries, i)
      /\ At(entries', n).kind = "large" /\ ~At(entries', n).deleted
  BY AfterPutLarge DEF Typed
<1>2. /\ index' = index /\ sidecars' = sidecars /\ busy = None /\ busy' = None /\ kills' = kills
      /\ events' = events
  BY DEF PutLarge, disk
<1>3. At(entries', n).pack = None
  <2>1. PICK b, e : e = Entry(puts, "large", b, None, 0) /\ entries' = Append(entries, e)
    BY DEF PutLarge
  <2>2. e.pack = None
    BY <2>1 DEF Entry
  <2>3. entries'[n + 1] = e
    BY <2>1, <1>1
  <2>4. QED
    BY <2>2, <2>3 DEF At
<1>4. /\ Ids(entries') = Ids(entries) \cup {n} /\ n \notin Ids(entries)
  BY <1>1 DEF Ids
<1>5. \A i \in Ids(entries) : i \in Ids(entries') /\ Stays(entries, entries', i)
  BY <1>1, <1>4, SameStays
<1>6. ~Has(index, n) /\ ~Due(todo, n)
  BY <1>4, LinesInIds
<1>7. /\ t \in Nat /\ t + 2 \in 1..Len(todo') /\ IsSidecar(todo'[t + 2], n)
      /\ Len(todo'[t + 2].value) = 1 /\ todo'[t + 2].value \in Right(entries', n)
      /\ todo'[t + 2].value[1].id = n /\ ~todo'[t + 2].value[1].delete
      /\ \A k \in 1..t : k \in 1..Len(todo') /\ todo'[k] = todo[k]
      /\ \A k \in 1..Len(todo') : k \in 1..t \/ k = t + 2 \/ (k > t /\ todo'[k].to # "sidecar")
      /\ \A k \in 1..Len(todo') : k \in 1..t \/ k = t + 3 \/ (k > t /\ todo'[k].to # "index")
  BY SidecarPutLarge
<1>8. \A i : Due(todo', i) <=> Due(todo, i) \/ i = n
  BY LinesPutLarge
<1>9. busy \notin {"flush", "rebase"} /\ busy # "flush"
  BY <1>2, DurableAssumption
<1>10. \A k \in 1..t : todo[k].to = "sidecar" => DueSidecar(entries, index, todo, busy, k)
  BY DEF Sides, DueSidecars
<1>11. StoredLines(entries', index, sidecars)
  BY <1>5, StoredStays DEF Sides
<1>12. DueSidecars(entries', index, todo', busy)
  <2>1. ASSUME NEW k \in 1..t, todo'[k].to = "sidecar"
        PROVE  DueSidecar(entries', index, todo', busy, k)
    <3>1. todo'[k] = todo[k] /\ DueSidecar(entries, index, todo, busy, k)
      BY <2>1, <1>7, <1>10
    <3>2. \A i : DeletedBefore(index, todo, k, i) => DeletedBefore(index, todo', k, i)
      <4>1. \A m \in 1..(k - 1) : m \in 1..t /\ todo'[m] = todo[m]
        BY <1>7
      <4>2. QED
        BY <4>1 DEF DeletedBefore
    <3>3. todo[k].id \in Ids(entries') /\ At(entries', todo[k].id).kind = At(entries, todo[k].id).kind
      BY <3>1, <1>5 DEF DueSidecar, Stays
    <3>4. ASSUME NEW l, DueLine(entries, index, todo, busy, k, l)
          PROVE  DueLine(entries', index, todo', busy, k, l)
      BY <3>1, <3>2, <3>4, <1>9 DEF DueLine
    <3>5. QED
      BY <3>1, <3>2, <3>3, <3>4, <1>8 DEF DueSidecar
  <2>2. DueSidecar(entries', index, todo', busy, t + 2)
    <3>1. todo'[t + 2].id = n
      BY <1>7 DEF IsSidecar
    <3>2. \A j \in 1..Len(todo'[t + 2].value) : j = 1
      BY <1>7
    <3>3. DueLine(entries', index, todo', busy, t + 2, todo'[t + 2].value[1])
      BY <3>1, <1>7 DEF DueLine
    <3>4. QED
      BY <3>1, <3>2, <3>3, <1>1, <1>4, <1>8 DEF DueSidecar
  <2>3. QED
    BY <2>1, <2>2, <1>7 DEF DueSidecars
<1>13. SidecarFirst(entries', todo', busy)
  <2>1. ASSUME NEW i \in Ids(entries'), Due(todo', i), At(entries', i).kind # "large"
        PROVE  busy = "flush"
    <3>1. i # n
      BY <2>1, <1>1
    <3>2. QED
      BY <2>1, <3>1, <1>1, <1>4, <1>8 DEF Sides, SidecarFirst
  <2>2. ASSUME NEW j \in 1..Len(todo'), NEW k \in 1..Len(todo'),
               DuePut(todo'[k], todo'[j].id), todo'[j].to = "sidecar"
        PROVE  j < k
    <3>1. todo'[k].to = "index"
      BY <2>2 DEF DuePut
    <3>2. CASE j \in 1..t /\ k \in 1..t
      BY <3>2, <2>2, <1>7, <1>9 DEF Sides, SidecarFirst
    <3>3. CASE j \in 1..t /\ k \notin 1..t
      BY <3>3, <1>7
    <3>4. CASE j \notin 1..t
      <4>1. j = t + 2 /\ todo'[j].id = n
        BY <3>4, <2>2, <1>7 DEF IsSidecar
      <4>2. ASSUME k \in 1..t
            PROVE  FALSE
        <5>1. DuePut(todo[k], n)
          BY <4>1, <4>2, <2>2, <1>7
        <5>2. QED
          BY <5>1, <4>2, <1>6 DEF Due
      <4>3. k = t + 3
        BY <4>2, <3>1, <1>7
      <4>4. QED
        BY <4>1, <4>3, <1>7
    <3>5. QED
      BY <3>2, <3>3, <3>4
  <2>3. QED
    BY <2>1, <2>2 DEF SidecarFirst
<1>14. AllAtHome(entries', index, todo', sidecars, busy, kills)
  <2>1. ASSUME NEW i \in Ids(entries), Wanted(index, todo', kills, i)
        PROVE  AtHome(entries', index, todo', sidecars, busy, i)
    <3>1. i # n
      BY <1>4
    <3>2. Wanted(index, todo, kills, i)
      BY <2>1, <3>1, <1>8 DEF Wanted, Known
    <3>3. AtHome(entries, index, todo, sidecars, busy, i)
      BY <3>2 DEF Sides, AllAtHome
    <3>4. PICK h : h = Home(entries, i)
      OBVIOUS
    <3>5. /\ Home(entries', i) = h /\ Right(entries', i) = Right(entries, i)
          /\ At(entries', i) = At(entries, i)
      BY <3>4, <1>1, <1>5, HomeStays
    <3>6. h \in Ids(entries) /\ h # n
      BY <3>3, <3>4, <1>4 DEF AtHome
    <3>7. h \in Ids(entries') /\ At(entries', h) = At(entries, h)
      BY <3>6, <1>1, <1>4
    <3>8. Beside(todo', sidecars, h, Right(entries, i))
      <4>1. Beside(todo, sidecars, h, Right(entries, i))
        BY <3>3, <3>4 DEF AtHome
      <4>2. \A k \in 1..Len(todo') : k \in 1..t \/ ~IsSidecar(todo'[k], h)
        BY <3>6, <1>7 DEF IsSidecar
      <4>3. QED
        BY <4>1, <4>2, <1>7, BesideMore
    <3>9. QED
      BY <3>3, <3>4, <3>5, <3>7, <3>8 DEF AtHome
  <2>2. AtHome(entries', index, todo', sidecars, busy, n)
    <3>1. Home(entries', n) = n
      BY <1>1 DEF Home
    <3>2. ASSUME NEW k \in 1..Len(todo'), IsSidecar(todo'[k], n)
          PROVE  k = t + 2
      <4>1. CASE k \in 1..t
        <5>1. todo[k].to = "sidecar" /\ todo[k].id = n
          BY <3>2, <4>1, <1>7 DEF IsSidecar
        <5>2. todo[k].id \in Ids(entries)
          BY <4>1, <5>1, <1>10 DEF DueSidecar
        <5>3. QED
          BY <5>1, <5>2, <1>4
      <4>2. QED
        BY <3>2, <4>1, <1>7 DEF IsSidecar
    <3>3. Beside(todo', sidecars, n, Right(entries', n))
      BY <3>2, <1>7 DEF Beside
    <3>4. QED
      BY <3>1, <3>3, <1>1, <1>4, <1>6 DEF AtHome
  <2>3. QED
    BY <2>1, <2>2, <1>4 DEF AllAtHome
<1>15. Apart(entries')
  BY <1>1, <1>3, <1>4 DEF Sides, Apart
<1>16. ASSUME kills = 0
       PROVE  "open deletion" \notin events /\ FromStart(entries', index, todo', sidecars)
  <2>1. "open deletion" \notin events /\ FromStart(entries, index, todo, sidecars)
    BY <1>16 DEF Sides
  <2>2. \A i : Known(index, todo, i) => Known(index, todo', i)
    BY <1>8 DEF Known
  <2>3. \A c \in DOMAIN sidecars : \A j \in 1..Len(sidecars[c]) :
          ~sidecars[c][j].delete => Known(index, todo', sidecars[c][j].id)
    BY <2>1, <2>2 DEF FromStart
  <2>4. ASSUME NEW k \in 1..Len(todo'), todo'[k].to = "sidecar", NEW j \in 1..Len(todo'[k].value),
               ~todo'[k].value[j].delete
        PROVE  Known(index, todo', todo'[k].value[j].id)
    <3>1. CASE k \in 1..t
      BY <3>1, <2>1, <2>2, <2>4, <1>7 DEF FromStart
    <3>2. CASE k \notin 1..t
      <4>1. k = t + 2 /\ j = 1
        BY <3>2, <2>4, <1>7
      <4>2. QED
        BY <4>1, <1>7, <1>8 DEF Known
    <3>3. QED
      BY <3>1, <3>2
  <2>5. ASSUME NEW i \in Ids(entries'), At(entries', i).deleted
        PROVE  Beside(todo', sidecars, i, Deleting(i))
    <3>1. i \in Ids(entries) /\ i # n
      BY <2>5, <1>1, <1>4
    <3>2. Beside(todo, sidecars, i, Deleting(i))
      BY <2>1, <2>5, <3>1, <1>1 DEF FromStart
    <3>3. \A k \in 1..Len(todo') : k \in 1..t \/ ~IsSidecar(todo'[k], i)
      BY <3>1, <1>7 DEF IsSidecar
    <3>4. QED
      BY <3>2, <3>3, <1>7, BesideMore
  <2>6. QED
    BY <2>1, <2>3, <2>4, <2>5 DEF FromStart
<1>17. QED
  BY <1>2, <1>11, <1>12, <1>13, <1>14, <1>15, <1>16 DEF Sides

\* Before an operation of the store's own thread everything is stored.
LEMMA IdleHome ==
  ASSUME Sides, todo = <<>>, NEW i \in Ids(entries), Has(index, i), Deletes(index, i) => kills = 0,
         NEW h, h = Home(entries, i)
  PROVE  /\ h \in Ids(entries)
         /\ At(entries, i).kind = "small" => At(entries, h).kind = "pack"
         /\ Stored(sidecars, h, Right(entries, i))
<1>1. Wanted(index, todo, kills, i)
  BY DEF Wanted, Known
<1>2. AtHome(entries, index, todo, sidecars, busy, i)
  BY <1>1 DEF Sides, AllAtHome
<1>3. QED
  BY <1>2, IdleWrites, BesideIdle DEF AtHome

LEMMA IdleStart ==
  ASSUME Sides, todo = <<>>, kills = 0
  PROVE  /\ "open deletion" \notin events
         /\ \A c \in DOMAIN sidecars : \A j \in 1..Len(sidecars[c]) :
              ~sidecars[c][j].delete => Has(index, sidecars[c][j].id)
         /\ \A i \in Ids(entries) : At(entries, i).deleted => Stored(sidecars, i, Deleting(i))
<1>1. "open deletion" \notin events /\ FromStart(entries, index, todo, sidecars)
  BY DEF Sides
<1>2. Len(todo) = 0 /\ \A i : ~Due(todo, i)
  BY IdleWrites
<1>3. \A i \in Ids(entries) : At(entries, i).deleted => Stored(sidecars, i, Deleting(i))
  BY <1>1, <1>2, BesideIdle DEF FromStart
<1>4. \A c \in DOMAIN sidecars : \A j \in 1..Len(sidecars[c]) :
        ~sidecars[c][j].delete => Has(index, sidecars[c][j].id)
  BY <1>1, <1>2 DEF FromStart, Known
<1>5. QED
  BY <1>1, <1>3, <1>4

LEMMA SidesCompact ==
  ASSUME Typed, Kept, Sides, compact
  PROVE  Sides'
<1>1. /\ entries' = entries /\ index' = index /\ sidecars' = sidecars /\ kills' = kills
      /\ events' = events
  BY DEF compact, memory, disk
<1>2. todo = <<>> /\ \A k \in 1..Len(todo') : todo'[k].to = "remove"
  BY AfterCompact
<1>3. \A i : ~Due(todo, i) /\ ~Due(todo', i)
  BY LinesCompact
<1>4. \A k \in 1..Len(todo') : todo'[k].to # "sidecar" /\ \A c : ~IsSidecar(todo'[k], c)
  BY <1>2 DEF IsSidecar
<1>5. StoredLines(entries, index, sidecars) /\ Apart(entries)
  BY DEF Sides
<1>6. DueSidecars(entries, index, todo', busy') /\ SidecarFirst(entries, todo', busy')
  BY <1>3, <1>4 DEF DueSidecars, SidecarFirst
<1>7. AllAtHome(entries, index, todo', sidecars, busy', kills)
  <2>1. ASSUME NEW i \in Ids(entries), Wanted(index, todo', kills, i)
        PROVE  AtHome(entries, index, todo', sidecars, busy', i)
    <3>1. Has(index, i) /\ (Deletes(index, i) => kills = 0)
      BY <2>1, <1>3 DEF Wanted, Known
    <3>2. PICK h : h = Home(entries, i)
      OBVIOUS
    <3>3. /\ h \in Ids(entries)
          /\ At(entries, i).kind = "small" => At(entries, h).kind = "pack"
          /\ Stored(sidecars, h, Right(entries, i))
      BY <3>1, <3>2, <1>2, IdleHome
    <3>4. Stays(entries, entries, i)
      BY SameStays
    <3>5. PICK o : o = busy'
      OBVIOUS
    <3>6. AtHome(entries, index, todo', sidecars, o, i)
      BY <3>2, <3>3, <3>4, <1>4, AtHomeStored
    <3>7. QED
      BY <3>5, <3>6
  <2>2. QED
    BY <2>1 DEF AllAtHome
<1>8. ASSUME kills = 0
      PROVE  "open deletion" \notin events /\ FromStart(entries, index, todo', sidecars)
  <2>1. /\ "open deletion" \notin events
        /\ \A c \in DOMAIN sidecars : \A j \in 1..Len(sidecars[c]) :
             ~sidecars[c][j].delete => Has(index, sidecars[c][j].id)
        /\ \A i \in Ids(entries) : At(entries, i).deleted => Stored(sidecars, i, Deleting(i))
    BY <1>2, <1>8, IdleStart
  <2>2. QED
    BY <2>1, <1>4 DEF FromStart, Known, Beside
<1>9. QED
  BY <1>1, <1>5, <1>6, <1>7, <1>8 DEF Sides

\* The writes of a rebase: its sidecar is the last.
LEMMA SidecarRebase ==
  ASSUME Typed, rebase, NEW id \in Live(entries), todo'[3] = Sidecar(id, <<line(id, At(entries', id))>>)
  PROVE  /\ 3 \in 1..Len(todo') /\ IsSidecar(todo'[3], id)
         /\ Len(todo'[3].value) = 1 /\ todo'[3].value \in Right(entries', id)
         /\ todo'[3].value[1].id = id /\ ~todo'[3].value[1].delete
         /\ \A k \in 1..Len(todo') : todo'[k].to = "sidecar" => k = 3
<1>1. /\ todo' \in Seq(WriteT) /\ Len(todo') = 3
      /\ todo'[1].to = "stream" /\ todo'[3].to = "sidecar"
  BY AfterRebase
<1>2. todo'[2].to = "index"
  <2>1. \E x \in Live(entries) : todo'[2] = Line(line(x, At(entries', x)))
    BY AfterRebase
  <2>2. QED
    BY <2>1 DEF Line
<1>3. PICK l : l = line(id, At(entries', id))
  OBVIOUS
<1>4. l.id = id /\ ~l.delete /\ l.entry = Bare(At(entries', id))
  BY <1>3 DEF line, Bare
<1>5. PICK v : v = <<l>>
  OBVIOUS
<1>6. Len(v) = 1 /\ v[1] = l /\ \A k \in 1..Len(v) : k = 1
  BY <1>5
<1>7. todo'[3].id = id /\ todo'[3].value = v
  BY <1>3, <1>5 DEF Sidecar
<1>8. v \in Seq(LineT)
  <2>1. Len(todo') = 3
    BY <1>1
  <2>2. 3 \in 1..Len(todo')
    BY ONLY <2>1
  <2>3. todo'[3].value \in Seq(LineT)
    BY <1>1, <2>2, SidecarValue
  <2>4. QED
    BY <2>3, <1>7
<1>9. v \in Right(entries', id)
  <2>1. 1 \in 1..Len(v)
    BY <1>6
  <2>2. QED
    BY <2>1, <1>4, <1>6, <1>8 DEF Right, Saying, IsPut
<1>10. 3 \in 1..Len(todo') /\ \A k \in 1..Len(todo') : k = 1 \/ k = 2 \/ k = 3
  <2>1. Len(todo') = 3
    BY <1>1
  <2>2. QED
    BY ONLY <2>1
<1>11. \A k \in 1..Len(todo') : todo'[k].to = "sidecar" => k = 3
  BY <1>1, <1>2, <1>10
<1>12. QED
  BY <1>1, <1>4, <1>6, <1>7, <1>9, <1>10, <1>11 DEF IsSidecar

LEMMA SidesRebase ==
  ASSUME Typed, Kept, Sides, rebase
  PROVE  Sides'
<1>1. /\ index' = index /\ sidecars' = sidecars /\ kills' = kills /\ events' = events
  BY DEF rebase, disk
<1>2. todo = <<>> /\ busy' = "rebase" /\ entries \in Seq(EntryT) /\ Len(entries') = Len(entries)
  BY AfterRebase DEF Typed
<1>3. PICK id \in Live(entries) :
        /\ At(entries, id).kind = "large"
        /\ At(entries', id) = [At(entries, id) EXCEPT !.base = None]
        /\ \A i \in Ids(entries) : i # id => At(entries', i) = At(entries, i)
        /\ todo'[2] = Line(line(id, At(entries', id)))
        /\ todo'[3] = Sidecar(id, <<line(id, At(entries', id))>>)
  BY AfterRebase
<1>4. Ids(entries') = Ids(entries) /\ id \in Ids(entries) /\ ~At(entries, id).deleted
  BY <1>2 DEF Ids, Live
<1>5. /\ At(entries', id).kind = "large" /\ At(entries', id).pack = At(entries, id).pack
      /\ ~At(entries', id).deleted
  <2>1. PICK e \in EntryT : e = At(entries, id)
    BY <1>2, <1>4 DEF Ids, At
  <2>2. PICK f : f = [e EXCEPT !.base = None]
    OBVIOUS
  <2>3. f.kind = e.kind /\ f.pack = e.pack /\ f.deleted = e.deleted
    BY <2>2 DEF EntryT
  <2>4. At(entries', id) = f
    BY <2>1, <2>2, <1>3
  <2>5. QED
    BY <2>1, <2>3, <2>4, <1>3, <1>4
<1>6. /\ 3 \in 1..Len(todo') /\ IsSidecar(todo'[3], id)
      /\ Len(todo'[3].value) = 1 /\ todo'[3].value \in Right(entries', id)
      /\ todo'[3].value[1].id = id /\ ~todo'[3].value[1].delete
      /\ \A k \in 1..Len(todo') : todo'[k].to = "sidecar" => k = 3
  BY <1>3, SidecarRebase
<1>7. \A i : Due(todo', i) <=> i = id
  BY <1>3, <1>4, LinesRebase
<1>8. \A i \in Ids(entries) : i # id => Stays(entries, entries', i)
  BY <1>3, <1>4, SameStays
<1>9. \A i \in Ids(entries) : At(entries', i).kind = At(entries, i).kind /\ At(entries', i).pack = At(entries, i).pack
  BY <1>3, <1>5
<1>10. StoredLines(entries', index, sidecars)
  BY <1>3, <1>8, StoredStays DEF Sides
<1>11. todo'[3].id = id
  BY <1>6 DEF IsSidecar
<1>12. DueSidecars(entries', index, todo', "rebase")
  <2>1. DueLine(entries', index, todo', "rebase", 3, todo'[3].value[1])
    BY <1>6, <1>11 DEF DueLine
  <2>2. \A j \in 1..Len(todo'[3].value) : j = 1
    BY <1>6
  <2>3. DueSidecar(entries', index, todo', "rebase", 3)
    BY <2>1, <2>2, <1>4, <1>5, <1>11 DEF DueSidecar
  <2>4. QED
    BY <2>3, <1>6 DEF DueSidecars
<1>13. SidecarFirst(entries', todo', "rebase")
  BY <1>5, <1>7 DEF SidecarFirst
<1>14. AllAtHome(entries', index, todo', sidecars, "rebase", kills)
  <2>1. ASSUME NEW i \in Ids(entries), i # id, Wanted(index, todo', kills, i)
        PROVE  AtHome(entries', index, todo', sidecars, "rebase", i)
    <3>1. Has(index, i) /\ (Deletes(index, i) => kills = 0)
      BY <2>1, <1>7 DEF Wanted, Known
    <3>2. PICK h : h = Home(entries, i)
      OBVIOUS
    <3>3. /\ h \in Ids(entries)
          /\ At(entries, i).kind = "small" => At(entries, h).kind = "pack"
          /\ Stored(sidecars, h, Right(entries, i))
      BY <3>1, <3>2, <1>2, IdleHome
    <3>4. h # id
      BY <2>1, <3>2, <3>3, <1>3 DEF Home
    <3>5. \A k \in 1..Len(todo') : ~IsSidecar(todo'[k], h)
      BY <3>4, <1>6, <1>11 DEF IsSidecar
    <3>6. Stays(entries, entries', i) /\ h \in Ids(entries') /\ At(entries', h).kind = At(entries, h).kind
      BY <2>1, <3>3, <1>4, <1>8, <1>9
    <3>7. QED
      BY <3>2, <3>3, <3>5, <3>6, AtHomeStored
  <2>2. AtHome(entries', index, todo', sidecars, "rebase", id)
    <3>1. Home(entries', id) = id
      BY <1>5 DEF Home
    <3>2. Beside(todo', sidecars, id, Right(entries', id))
      BY <1>6 DEF Beside, IsSidecar
    <3>3. QED
      BY <3>1, <3>2, <1>4, <1>5 DEF AtHome
  <2>3. QED
    BY <2>1, <2>2, <1>4 DEF AllAtHome
<1>15. Apart(entries')
  BY <1>4, <1>9 DEF Sides, Apart
<1>16. ASSUME kills = 0
       PROVE  "open deletion" \notin events /\ FromStart(entries', index, todo', sidecars)
  <2>1. /\ "open deletion" \notin events
        /\ \A c \in DOMAIN sidecars : \A j \in 1..Len(sidecars[c]) :
             ~sidecars[c][j].delete => Has(index, sidecars[c][j].id)
        /\ \A i \in Ids(entries) : At(entries, i).deleted => Stored(sidecars, i, Deleting(i))
    BY <1>2, <1>16, IdleStart
  <2>2. \A k \in 1..Len(todo') : todo'[k].to = "sidecar" =>
          \A j \in 1..Len(todo'[k].value) : Known(index, todo', todo'[k].value[j].id)
    <3>1. \A j \in 1..Len(todo'[3].value) : j = 1
      BY <1>6
    <3>2. Known(index, todo', todo'[3].value[1].id)
      BY <1>6, <1>7 DEF Known
    <3>3. QED
      BY <3>1, <3>2, <1>6
  <2>3. ASSUME NEW i \in Ids(entries'), At(entries', i).deleted
        PROVE  Beside(todo', sidecars, i, Deleting(i))
    <3>1. i # id /\ i \in Ids(entries) /\ At(entries, i).deleted
      BY <2>3, <1>3, <1>4, <1>5
    <3>2. \A k \in 1..Len(todo') : ~IsSidecar(todo'[k], i)
      BY <3>1, <1>6, <1>11 DEF IsSidecar
    <3>3. QED
      BY <3>1, <3>2, <2>1 DEF Beside
  <2>4. QED
    BY <2>1, <2>2, <2>3 DEF FromStart, Known
<1>17. QED
  BY <1>1, <1>2, <1>10, <1>12, <1>13, <1>14, <1>15, <1>16 DEF Sides

\* The writes of a delete: its sidecar is the last, and has the object's own
\* line where that is not in a pack's sidecar.
LEMMA SidecarDelete ==
  ASSUME Typed, delete, NEW id \in Live(entries), todo'[1] = Line(D(id)),
         todo'[2] = Sidecar(id, DeletedSidecar(id, At(entries, id)))
  PROVE  /\ 2 \in 1..Len(todo') /\ IsSidecar(todo'[2], id)
         /\ \A k \in 1..Len(todo') : todo'[k].to = "sidecar" => k = 2
         /\ todo'[2].value \in Deleting(id)
         /\ At(entries, id).pack = None => todo'[2].value \in Right(entries, id)
         /\ \A j \in 1..Len(todo'[2].value) :
              /\ todo'[2].value[j].id = id
              /\ ~todo'[2].value[j].delete => At(entries, id).pack = None
         /\ DueDelete(todo'[1], id)
<1>1. todo' \in Seq(WriteT) /\ Len(todo') = 2 /\ todo'[2].to = "sidecar"
  BY AfterDelete
<1>2. 2 \in 1..Len(todo') /\ \A k \in 1..Len(todo') : k = 1 \/ k = 2
  <2>1. Len(todo') = 2
    BY <1>1
  <2>2. QED
    BY ONLY <2>1
<1>3. todo'[1].to = "index" /\ todo'[1].value = D(id)
  BY DEF Line
<1>4. D(id).id = id /\ D(id).delete
  BY DEF D
<1>5. DueDelete(todo'[1], id)
  BY <1>3, <1>4 DEF DueDelete, IsDelete
<1>6. \A k \in 1..Len(todo') : todo'[k].to = "sidecar" => k = 2
  BY <1>2, <1>3
<1>7. PICK v : v = todo'[2].value
  OBVIOUS
<1>8. todo'[2].id = id /\ v = DeletedSidecar(id, At(entries, id))
  BY <1>7 DEF Sidecar
<1>9. v \in Seq(LineT)
  <2>1. PICK w \in WriteT : w = todo'[2]
    BY <1>1, <1>2
  <2>2. w.to = "sidecar" => w.value \in Seq(LineT)
    BY DEF WriteT
  <2>3. QED
    BY <2>1, <2>2, <1>1, <1>7
<1>10. PICK l, d : l = line(id, At(entries, id)) /\ d = D(id)
  OBVIOUS
<1>11. l.id = id /\ ~l.delete /\ l.entry = Bare(At(entries, id)) /\ d.id = id /\ d.delete
  BY <1>4, <1>10 DEF line, Bare
<1>12. CASE At(entries, id).pack = None
  <2>1. v = <<l, d>>
    BY <1>8, <1>10, <1>12 DEF DeletedSidecar
  <2>2. Len(v) = 2 /\ v[1] = l /\ v[2] = d
    BY <2>1
  <2>3. 1 \in 1..Len(v) /\ 2 \in 1..Len(v) /\ \A k \in 1..Len(v) : k = 1 \/ k = 2
    <3>1. Len(v) = 2
      BY <2>2
    <3>2. QED
      BY ONLY <3>1
  <2>4. v \in Right(entries, id)
    BY <2>2, <2>3, <1>9, <1>11 DEF Right, Saying, IsPut
  <2>5. v \in Deleting(id)
    BY <2>2, <2>3, <1>9, <1>11 DEF Deleting, Deletes, IsDelete
  <2>6. \A j \in 1..Len(v) : v[j].id = id
    BY <2>2, <2>3, <1>11
  <2>7. QED
    BY <2>4, <2>5, <2>6, <1>1, <1>2, <1>5, <1>6, <1>7, <1>8, <1>12 DEF IsSidecar
<1>13. CASE At(entries, id).pack # None
  <2>1. v = <<d>>
    BY <1>8, <1>10, <1>13 DEF DeletedSidecar
  <2>2. Len(v) = 1 /\ v[1] = d
    BY <2>1
  <2>3. 1 \in 1..Len(v) /\ \A k \in 1..Len(v) : k = 1
    <3>1. Len(v) = 1
      BY <2>2
    <3>2. QED
      BY ONLY <3>1
  <2>4. v \in Deleting(id)
    BY <2>2, <2>3, <1>9, <1>11 DEF Deleting, Deletes, IsDelete
  <2>5. \A j \in 1..Len(v) : v[j].id = id /\ v[j].delete
    BY <2>2, <2>3, <1>11
  <2>6. QED
    BY <2>4, <2>5, <1>1, <1>2, <1>5, <1>6, <1>7, <1>8, <1>13 DEF IsSidecar
<1>14. QED
  BY <1>12, <1>13

LEMMA SidesDelete ==
  ASSUME Typed, Kept, Sides, delete, events' \cap Excluded = {}
  PROVE  Sides'
<1>1. /\ index' = index /\ sidecars' = sidecars /\ kills' = kills
  BY DEF delete, disk
<1>2. todo = <<>> /\ entries \in Seq(EntryT) /\ Len(entries') = Len(entries)
  BY AfterDelete DEF Typed
<1>3. PICK id \in Live(entries) :
        /\ At(entries', id) = [At(entries, id) EXCEPT !.deleted = TRUE]
        /\ \A i \in Ids(entries) : i # id => At(entries', i) = At(entries, i)
        /\ todo'[1] = Line(D(id))
        /\ todo'[2] = Sidecar(id, DeletedSidecar(id, At(entries, id))) /\ busy' = "delete"
  BY AfterDelete
<1>4. Ids(entries') = Ids(entries) /\ id \in Ids(entries) /\ ~At(entries, id).deleted
  BY <1>2 DEF Ids, Live
<1>5. PICK e \in EntryT : e = At(entries, id)
  <2>1. entries \in Seq(EntryT) /\ Len(entries) \in Nat
    BY <1>2
  <2>2. id + 1 \in 1..Len(entries)
    BY <1>4, <2>1 DEF Ids
  <2>3. entries[id + 1] \in EntryT
    BY <2>1, <2>2
  <2>4. QED
    BY <2>3 DEF At
<1>6. PICK f : f = At(entries', id) /\ f = [e EXCEPT !.deleted = TRUE]
  BY <1>3, <1>5
<1>7. f.kind = e.kind /\ f.pack = e.pack /\ f.of = e.of /\ Bare(f) = Bare(e)
  BY <1>6 DEF EntryT, Bare
<1>8. \A i \in Ids(entries) : i \in Ids(entries') /\ Stays(entries, entries', i)
  BY <1>3, <1>4, <1>5, <1>6, <1>7, SameStays DEF Stays
<1>9. /\ 2 \in 1..Len(todo') /\ IsSidecar(todo'[2], id)
      /\ \A k \in 1..Len(todo') : todo'[k].to = "sidecar" => k = 2
      /\ todo'[2].value \in Deleting(id)
      /\ At(entries, id).pack = None => todo'[2].value \in Right(entries, id)
      /\ \A j \in 1..Len(todo'[2].value) :
           /\ todo'[2].value[j].id = id
           /\ ~todo'[2].value[j].delete => At(entries, id).pack = None
      /\ DueDelete(todo'[1], id)
  BY <1>3, SidecarDelete
<1>10. \A i : ~Due(todo, i) /\ ~Due(todo', i)
  BY <1>3, LinesDelete
<1>11. todo'[2].id = id
  BY <1>9 DEF IsSidecar
<1>12. At(entries, id).kind # "pack" /\ events' = events
  <2>1. PICK x \in Live(entries) :
          /\ Own("delete", DeleteWrites(x, At(entries, x)))
          /\ events' = events \cup (IF At(entries, x).kind = "pack" THEN {"pack deleted"} ELSE {})
    BY DEF delete
  <2>2. x = id
    <3>1. todo' = <<Line(D(x)), Sidecar(x, DeletedSidecar(x, At(entries, x)))>>
      BY <2>1 DEF Own, DeleteWrites
    <3>2. todo'[2] = Sidecar(x, DeletedSidecar(x, At(entries, x)))
      BY <3>1
    <3>3. PICK v : v = DeletedSidecar(x, At(entries, x))
      OBVIOUS
    <3>4. Sidecar(x, v).id = x
      BY DEF Sidecar
    <3>5. QED
      BY <3>2, <3>3, <3>4, <1>11
  <2>3. "pack deleted" \notin events'
    BY DEF Excluded
  <2>4. QED
    BY <2>1, <2>2, <2>3
<1>13. StoredLines(entries', index, sidecars)
  BY <1>8, StoredStays DEF Sides
<1>14. DueSidecars(entries', index, todo', "delete")
  <2>1. DeletedBefore(index, todo', 2, id)
    <3>1. 1 \in 1..(2 - 1)
      BY ONLY SMT
    <3>2. QED
      BY <3>1, <1>9 DEF DeletedBefore
  <2>2. \A j \in 1..Len(todo'[2].value) : DueLine(entries', index, todo', "delete", 2, todo'[2].value[j])
    BY <2>1, <1>9, <1>11 DEF DueLine
  <2>3. At(entries', id).kind # "pack"
    BY <1>5, <1>6, <1>7, <1>12
  <2>4. DueSidecar(entries', index, todo', "delete", 2)
    BY <2>1, <2>2, <2>3, <1>4, <1>11 DEF DueSidecar
  <2>5. QED
    BY <2>4, <1>9 DEF DueSidecars
<1>15. SidecarFirst(entries', todo', "delete")
  BY <1>10 DEF SidecarFirst, Due
<1>16. AllAtHome(entries', index, todo', sidecars, "delete", kills)
  <2>1. ASSUME NEW i \in Ids(entries), Wanted(index, todo', kills, i)
        PROVE  AtHome(entries', index, todo', sidecars, "delete", i)
    <3>1. Has(index, i) /\ (Deletes(index, i) => kills = 0)
      BY <2>1, <1>10 DEF Wanted, Known
    <3>2. PICK h : h = Home(entries, i)
      OBVIOUS
    <3>3. /\ h \in Ids(entries)
          /\ At(entries, i).kind = "small" => At(entries, h).kind = "pack"
          /\ Stored(sidecars, h, Right(entries, i))
      BY <3>1, <3>2, <1>2, IdleHome
    <3>4. ASSUME NEW k \in 1..Len(todo'), IsSidecar(todo'[k], h)
          PROVE  todo'[k].value \in Right(entries, i)
      <4>1. k = 2 /\ h = id
        BY <3>4, <1>9, <1>11 DEF IsSidecar
      <4>2. At(entries, i).kind # "small" /\ h = i
        BY <4>1, <3>2, <3>3, <1>12 DEF Home
      <4>3. At(entries, id).pack = None
        BY <4>1, <4>2 DEF Sides, Apart
      <4>4. QED
        BY <4>1, <4>2, <4>3, <1>9
    <3>5. Stays(entries, entries', i) /\ h \in Ids(entries') /\ At(entries', h).kind = At(entries, h).kind
      BY <3>3, <1>8 DEF Stays
    <3>6. QED
      BY <3>2, <3>3, <3>4, <3>5, AtHomeStored
  <2>2. QED
    BY <2>1, <1>4 DEF AllAtHome
<1>17. Apart(entries')
  BY <1>4, <1>8 DEF Sides, Apart, Stays
<1>18. ASSUME kills = 0
       PROVE  "open deletion" \notin events /\ FromStart(entries', index, todo', sidecars)
  <2>1. /\ "open deletion" \notin events
        /\ \A c \in DOMAIN sidecars : \A j \in 1..Len(sidecars[c]) :
             ~sidecars[c][j].delete => Has(index, sidecars[c][j].id)
        /\ \A i \in Ids(entries) : At(entries, i).deleted => Stored(sidecars, i, Deleting(i))
    BY <1>2, <1>18, IdleStart
  <2>2. At(entries, id).pack = None => Has(index, id)
    <3>1. ASSUME At(entries, id).pack = None
          PROVE  Has(index, id)
      <4>1. At(entries, id).kind # "small"
        BY <3>1, <1>4 DEF Sides, Apart
      <4>2. ~IsPending(id)
        BY <4>1 DEF IsPending, Kept, Waiting
      <4>3. At(entries, id).of # None
        BY <1>4 DEF Kept, Deletions
      <4>4. QED
        BY <4>2, <4>3, <1>4, <1>10 DEF Kept, Written
    <3>2. QED
      BY <3>1
  <2>3. \A k \in 1..Len(todo') : todo'[k].to = "sidecar" =>
          \A j \in 1..Len(todo'[k].value) :
            ~todo'[k].value[j].delete => Known(index, todo', todo'[k].value[j].id)
    BY <2>2, <1>9 DEF Known
  <2>4. ASSUME NEW i \in Ids(entries'), At(entries', i).deleted
        PROVE  Beside(todo', sidecars, i, Deleting(i))
    <3>1. CASE i = id
      BY <3>1, <1>9 DEF Beside, IsSidecar
    <3>2. CASE i # id
      <4>1. \A k \in 1..Len(todo') : ~IsSidecar(todo'[k], i)
        BY <3>2, <1>9, <1>11 DEF IsSidecar
      <4>2. Stored(sidecars, i, Deleting(i))
        BY <3>2, <2>1, <2>4, <1>3, <1>4
      <4>3. QED
        BY <4>1, <4>2 DEF Beside
    <3>3. QED
      BY <3>1, <3>2
  <2>5. QED
    BY <2>1, <2>3, <2>4 DEF FromStart, Known
<1>19. QED
  BY <1>1, <1>3, <1>12, <1>13, <1>14, <1>15, <1>16, <1>17, <1>18 DEF Sides

\* The writes of a flush: its sidecar is the last, the pack's, with a line of
\* each object in the pack and of the pack.
InFlush(i) == IsPending(i) \/ i = Len(entries)

LEMMA SidecarFlush ==
  ASSUME Typed, flush
  PROVE  LET n == Len(entries)
             m == Len(pending)
             v == todo'[m + 3].value
         IN  /\ m \in Nat /\ m + 3 = Len(todo') /\ m + 3 \in 1..Len(todo') /\ todo'[m + 3].id = n
             /\ \A k \in 1..Len(todo') : todo'[k].to = "sidecar" => k = m + 3
             /\ IsSidecar(todo'[m + 3], n)
             /\ \A j \in 1..Len(v) :
                  ~v[j].delete /\ InFlush(v[j].id) /\ v[j].entry = Bare(At(entries', v[j].id))
             /\ \A i : InFlush(i) => v \in Right(entries', i)
<1> DEFINE n == Len(entries)
           m == Len(pending)
<1>1. /\ todo' \in Seq(WriteT) /\ Len(todo') = m + 3 /\ m \in Nat
      /\ todo'[1].to = "stream" /\ todo'[m + 3].to = "sidecar"
      /\ \A k \in 1..m : todo'[k + 1] = Line(line(pending[k], At(entries', pending[k])))
      /\ todo'[m + 2] = Line(line(n, At(entries', n))) /\ todo'[m + 3].id = n
  BY AfterFlush DEF Typed
<1>2. PICK v : v = todo'[m + 3].value
  OBVIOUS
<1>3. /\ Len(v) = m + 1
      /\ \A k \in 1..m : v[k] = line(pending[k], At(entries', pending[k]))
      /\ v[m + 1] = line(n, At(entries', n))
  BY <1>2, AfterFlush
<1>4. m + 3 \in 1..Len(todo')
  BY <1>1
<1>5. v \in Seq(LineT)
  BY <1>1, <1>2, <1>4, SidecarValue
<1>6. \A id, e, l : l = line(id, e) => ~l.delete /\ l.id = id /\ l.entry = Bare(e)
  BY DEF line, Bare
<1>7. ASSUME NEW k \in 1..Len(todo'), todo'[k].to = "sidecar"
      PROVE  k = m + 3
  <2>1. k = 1 \/ k - 1 \in 1..m \/ k = m + 2 \/ k = m + 3
    BY <1>1
  <2>2. ASSUME k - 1 \in 1..m
        PROVE  FALSE
    <3>1. PICK j \in 1..m : j = k - 1 /\ k = j + 1
      BY <2>2, <1>1
    <3>2. PICK l : l = line(pending[j], At(entries', pending[j]))
      OBVIOUS
    <3>3. todo'[k] = Line(l)
      BY <3>1, <3>2, <1>1
    <3>4. Line(l).to = "index"
      BY DEF Line
    <3>5. QED
      BY <3>3, <3>4, <1>7
  <2>3. todo'[m + 2].to = "index"
    BY <1>1 DEF Line
  <2>4. QED
    BY <2>1, <2>2, <2>3, <1>1, <1>7
<1>8. ASSUME NEW j \in 1..Len(v)
      PROVE  ~v[j].delete /\ InFlush(v[j].id) /\ v[j].entry = Bare(At(entries', v[j].id))
  <2>1. PICK l : l = v[j]
    OBVIOUS
  <2>2. j \in 1..m \/ j = m + 1
    BY <1>1, <1>3
  <2>3. CASE j \in 1..m
    <3>1. PICK i : i = pending[j] /\ IsPending(i)
      BY <2>3 DEF IsPending
    <3>2. l = line(i, At(entries', i))
      BY <2>1, <2>3, <3>1, <1>3
    <3>3. QED
      BY <2>1, <3>1, <3>2, <1>6 DEF InFlush
  <2>4. CASE j = m + 1
    <3>1. l = line(n, At(entries', n))
      BY <2>1, <2>4, <1>3
    <3>2. QED
      BY <2>1, <3>1, <1>6 DEF InFlush
  <2>5. QED
    BY <2>2, <2>3, <2>4
<1>9. ASSUME NEW i, InFlush(i)
      PROVE  v \in Right(entries', i)
  <2>1. \E k \in 1..Len(v) : IsPut(v[k], i)
    <3>1. CASE IsPending(i)
      <4>1. PICK k \in 1..m : pending[k] = i
        BY <3>1 DEF IsPending
      <4>2. PICK l : l = v[k]
        OBVIOUS
      <4>3. l = line(i, At(entries', i))
        BY <4>1, <4>2, <1>3
      <4>4. k \in 1..Len(v) /\ IsPut(v[k], i)
        BY <4>2, <4>3, <1>1, <1>3, <1>6 DEF IsPut
      <4>5. QED
        BY <4>4
    <3>2. CASE i = n
      <4>1. m + 1 \in 1..Len(v) /\ IsPut(v[m + 1], n)
        BY <1>1, <1>3, <1>6 DEF IsPut
      <4>2. QED
        BY <3>2, <4>1
    <3>3. QED
      BY <3>1, <3>2, <1>9 DEF InFlush
  <2>2. \A k \in 1..Len(v) : IsPut(v[k], i) => v[k].entry = Bare(At(entries', i))
    BY <1>8 DEF IsPut
  <2>3. QED
    BY <2>1, <2>2, <1>5 DEF Right, Saying
<1>10. QED
  BY <1>1, <1>2, <1>4, <1>7, <1>8, <1>9 DEF IsSidecar

LEMMA SidesFlush ==
  ASSUME Typed, Kept, Sides, flush
  PROVE  Sides'
<1> DEFINE n == Len(entries)
           m == Len(pending)
<1>1. /\ index' = index /\ sidecars' = sidecars /\ kills' = kills /\ events' = events
  BY DEF flush, disk
<1>2. todo = <<>> /\ busy' = "flush" /\ n \in Nat
  BY AfterFlush DEF Typed
<1>3. Ids(entries') = Ids(entries) \cup {n} /\ n \notin Ids(entries) /\ Ids(entries) = 0..(n - 1)
  BY LinesFlush DEF Ids
<1>4. ASSUME NEW i \in Ids(entries)
      PROVE  /\ At(entries', i).kind = At(entries, i).kind
             /\ At(entries', i).deleted <=> At(entries, i).deleted
             /\ IsPending(i) => At(entries', i).pack = n /\ At(entries, i).kind = "small"
             /\ ~IsPending(i) => At(entries', i) = At(entries, i)
  <2>1. IsPending(i) => At(entries, i).kind = "small"
    BY DEF IsPending, Kept, Waiting
  <2>2. QED
    BY <2>1, LinesFlush
<1>5. At(entries', n).kind = "pack" /\ At(entries', n).pack = None /\ ~At(entries', n).deleted
  BY AfterFlush DEF Entry
<1>6. PICK s, v : s = m + 3 /\ v = todo'[m + 3].value
  OBVIOUS
<1>7. /\ s = Len(todo') /\ s \in 1..Len(todo') /\ todo'[s].id = n
      /\ \A k \in 1..Len(todo') : todo'[k].to = "sidecar" => k = s
      /\ IsSidecar(todo'[s], n) /\ v = todo'[s].value
      /\ \A j \in 1..Len(v) :
           ~v[j].delete /\ InFlush(v[j].id) /\ v[j].entry = Bare(At(entries', v[j].id))
      /\ \A i : InFlush(i) => v \in Right(entries', i)
  BY <1>6, SidecarFlush
<1>8. ASSUME NEW i, InFlush(i)
      PROVE  /\ i \in Ids(entries') /\ Due(todo', i)
             /\ i = n \/ (i \in Ids(entries) /\ IsPending(i))
  <2>1. i = n \/ (i \in Ids(entries) /\ IsPending(i))
    BY <1>8 DEF InFlush, IsPending, Typed
  <2>2. i \in Ids(entries')
    BY <2>1, <1>3
  <2>3. QED
    BY <2>1, <2>2, <1>8, LinesFlush DEF InFlush
<1>9. \A i \in Ids(entries') : Due(todo', i) => InFlush(i)
  BY LinesFlush DEF InFlush
<1>10. \A i \in Ids(entries) : Has(index, i) => ~IsPending(i)
  BY DEF Kept, Written
<1>11. \A i \in Ids(entries) : ~IsPending(i) => Stays(entries, entries', i)
  BY <1>3, <1>4, SameStays
<1>12. StoredLines(entries', index, sidecars)
  BY <1>10, <1>11, StoredStays DEF Sides
<1>13. DueSidecars(entries', index, todo', "flush")
  <2>1. ASSUME NEW j \in 1..Len(v)
        PROVE  DueLine(entries', index, todo', "flush", s, v[j])
    <3>1. PICK l : l = v[j]
      OBVIOUS
    <3>2. ~l.delete /\ InFlush(l.id) /\ l.entry = Bare(At(entries', l.id))
      BY <3>1, <1>7
    <3>3. ASSUME l.id # n
          PROVE  Packed(entries', n, l) /\ Known(index, todo', l.id)
      <4>1. l.id \in Ids(entries) /\ IsPending(l.id) /\ Due(todo', l.id)
        BY <3>2, <3>3, <1>8
      <4>2. At(entries', l.id).kind = "small" /\ l.id \in 0..(n - 1) /\ l.id \in Ids(entries')
        BY <4>1, <1>3, <1>4
      <4>3. QED
        BY <4>1, <4>2, <3>2 DEF Packed, Known
    <3>4. QED
      BY <3>1, <3>2, <3>3, <1>7 DEF DueLine
  <2>2. DueSidecar(entries', index, todo', "flush", s)
    BY <2>1, <1>3, <1>7 DEF DueSidecar
  <2>3. QED
    BY <2>2, <1>7 DEF DueSidecars
<1>14. SidecarFirst(entries', todo', "flush")
  BY DEF SidecarFirst
<1>15. AllAtHome(entries', index, todo', sidecars, "flush", kills)
  <2>1. ASSUME NEW i, InFlush(i)
        PROVE  AtHome(entries', index, todo', sidecars, "flush", i)
    <3>1. Home(entries', i) = n
      BY <2>1, <1>4, <1>5, <1>8 DEF Home
    <3>2. Beside(todo', sidecars, n, Right(entries', i))
      <4>1. \A k \in 1..Len(todo') : IsSidecar(todo'[k], n) => todo'[k].value \in Right(entries', i)
        BY <2>1, <1>7 DEF IsSidecar
      <4>2. QED
        BY <4>1, <1>7 DEF Beside
    <3>3. n \in Ids(entries')
      BY <1>3
    <3>4. QED
      BY <3>1, <3>2, <3>3, <1>5 DEF AtHome
  <2>2. ASSUME NEW i \in Ids(entries'), Wanted(index, todo', kills, i), ~InFlush(i)
        PROVE  AtHome(entries', index, todo', sidecars, "flush", i)
    <3>1. i \in Ids(entries) /\ ~IsPending(i)
      BY <2>2, <1>3 DEF InFlush
    <3>2. Has(index, i) /\ (Deletes(index, i) => kills = 0)
      BY <2>2, <1>9 DEF Wanted, Known
    <3>3. PICK h : h = Home(entries, i)
      OBVIOUS
    <3>4. /\ h \in Ids(entries)
          /\ At(entries, i).kind = "small" => At(entries, h).kind = "pack"
          /\ Stored(sidecars, h, Right(entries, i))
      BY <3>1, <3>2, <3>3, <1>2, IdleHome
    <3>5. \A k \in 1..Len(todo') : ~IsSidecar(todo'[k], h)
      BY <3>4, <1>3, <1>7 DEF IsSidecar
    <3>6. Stays(entries, entries', i) /\ h \in Ids(entries') /\ At(entries', h).kind = At(entries, h).kind
      BY <3>1, <3>4, <1>3, <1>4, <1>11
    <3>7. QED
      BY <3>3, <3>4, <3>5, <3>6, AtHomeStored
  <2>3. QED
    BY <2>1, <2>2 DEF AllAtHome
<1>16. Apart(entries')
  <2>1. ASSUME NEW i \in Ids(entries')
        PROVE  At(entries', i).kind = "small" <=> At(entries', i).pack # None
    <3>1. CASE i = n
      BY <3>1, <1>5
    <3>2. CASE i \in Ids(entries) /\ IsPending(i)
      BY <3>2, <1>2, <1>4, DurableAssumption
    <3>3. CASE i \in Ids(entries) /\ ~IsPending(i)
      BY <3>3, <1>4 DEF Sides, Apart
    <3>4. QED
      BY <3>1, <3>2, <3>3, <1>3
  <2>2. QED
    BY <2>1 DEF Apart
<1>17. ASSUME kills = 0
       PROVE  "open deletion" \notin events /\ FromStart(entries', index, todo', sidecars)
  <2>1. /\ "open deletion" \notin events
        /\ \A c \in DOMAIN sidecars : \A j \in 1..Len(sidecars[c]) :
             ~sidecars[c][j].delete => Has(index, sidecars[c][j].id)
        /\ \A i \in Ids(entries) : At(entries, i).deleted => Stored(sidecars, i, Deleting(i))
    BY <1>2, <1>17, IdleStart
  <2>2. \A k \in 1..Len(todo') : todo'[k].to = "sidecar" =>
          \A j \in 1..Len(todo'[k].value) : Known(index, todo', todo'[k].value[j].id)
    BY <1>7, <1>8 DEF Known
  <2>3. ASSUME NEW i \in Ids(entries'), At(entries', i).deleted
        PROVE  Beside(todo', sidecars, i, Deleting(i))
    <3>1. i # n /\ i \in Ids(entries) /\ At(entries, i).deleted
      BY <2>3, <1>3, <1>4, <1>5
    <3>2. \A k \in 1..Len(todo') : ~IsSidecar(todo'[k], i)
      BY <3>1, <1>7 DEF IsSidecar
    <3>3. QED
      BY <3>1, <3>2, <2>1 DEF Beside
  <2>4. QED
    BY <2>1, <2>2, <2>3 DEF FromStart, Known
<1>18. QED
  BY <1>1, <1>2, <1>12, <1>13, <1>14, <1>15, <1>16, <1>17 DEF Sides

-----------------------------------------------------------------------------
(* A write, and a kill.                                                    *)

\* The sidecars after a write: the one written, and the others as they were.
LEMMA SidecarsWrite ==
  ASSUME Typed, Write, NEW w, w = Head(todo)
  PROVE  /\ \A c : IsSidecar(w, c) => c \in DOMAIN sidecars' /\ sidecars'[c] = w.value
         /\ \A c \in DOMAIN sidecars' : \/ IsSidecar(w, c)
                                        \/ c \in DOMAIN sidecars /\ sidecars'[c] = sidecars[c]
         /\ \A c \in DOMAIN sidecars : ~IsSidecar(w, c) => c \in DOMAIN sidecars' /\ sidecars'[c] = sidecars[c]
<1>1. sidecars' = IF w.to = "sidecar" THEN With(sidecars, w.id, w.value) ELSE sidecars
  BY DEF Write
<1>2. CASE w.to = "sidecar"
  <2>1. sidecars' = [i \in DOMAIN sidecars \cup {w.id} |-> IF i = w.id THEN w.value ELSE sidecars[i]]
    BY <1>1, <1>2 DEF With
  <2>2. QED
    BY <2>1, <1>2 DEF IsSidecar
<1>3. CASE w.to # "sidecar"
  <2>1. sidecars' = sidecars
    BY <1>1, <1>3
  <2>2. QED
    BY <2>1, <1>3 DEF IsSidecar
<1>4. QED
  BY <1>2, <1>3

LEMMA BesideWrite ==
  ASSUME Typed, Write, NEW c, NEW S, Beside(todo, sidecars, c, S)
  PROVE  Beside(todo', sidecars', c, S)
<1> DEFINE t == Len(todo)
<1>1. PICK w : w = Head(todo)
  OBVIOUS
<1>2. /\ w = todo[1] /\ 1 \in 1..t /\ Len(todo') = t - 1
      /\ \A k \in 1..(t - 1) : k + 1 \in 1..t /\ todo'[k] = todo[k + 1]
      /\ \A k \in 1..t : k = 1 \/ (k - 1 \in 1..(t - 1) /\ todo'[k - 1] = todo[k])
  BY <1>1, LinesWrite
<1>3. IsSidecar(w, c) => w.value \in S
  BY <1>2 DEF Beside
<1>4. \A k \in 1..Len(todo') : IsSidecar(todo'[k], c) => todo'[k].value \in S
  BY <1>2 DEF Beside
<1>5. CASE IsSidecar(w, c)
  <2>1. c \in DOMAIN sidecars' /\ sidecars'[c] = w.value
    BY <1>1, <1>5, SidecarsWrite
  <2>2. QED
    BY <2>1, <1>3, <1>4, <1>5 DEF Beside, Stored
<1>6. CASE ~IsSidecar(w, c)
  <2>1. ASSUME NEW k \in 1..t, IsSidecar(todo[k], c)
        PROVE  \E j \in 1..Len(todo') : IsSidecar(todo'[j], c)
    <3>1. k # 1
      BY <2>1, <1>2, <1>6
    <3>2. k - 1 \in 1..Len(todo') /\ IsSidecar(todo'[k - 1], c)
      BY <2>1, <3>1, <1>2
    <3>3. QED
      BY <3>2
  <2>2. Stored(sidecars, c, S) => Stored(sidecars', c, S)
    BY <1>1, <1>6, SidecarsWrite DEF Stored
  <2>3. QED
    BY <2>1, <2>2, <1>4 DEF Beside
<1>7. QED
  BY <1>5, <1>6

LEMMA StoredWrite ==
  ASSUME Typed, Write, NEW c, NEW S, Beside(todo, sidecars, c, S), Stored(sidecars, c, S)
  PROVE  Stored(sidecars', c, S)
<1>1. PICK w : w = Head(todo)
  OBVIOUS
<1>2. w = todo[1] /\ 1 \in 1..Len(todo)
  BY <1>1, LinesWrite
<1>3. IsSidecar(w, c) => w.value \in S
  BY <1>2 DEF Beside
<1>4. CASE IsSidecar(w, c)
  <2>1. c \in DOMAIN sidecars' /\ sidecars'[c] = w.value
    BY <1>1, <1>4, SidecarsWrite
  <2>2. QED
    BY <2>1, <1>3, <1>4 DEF Stored
<1>5. CASE ~IsSidecar(w, c)
  BY <1>1, <1>5, SidecarsWrite DEF Stored
<1>6. QED
  BY <1>4, <1>5

LEMMA SidesWrite ==
  ASSUME Typed, Kept, Sides, Write
  PROVE  Sides'
<1> DEFINE t == Len(todo)
<1>1. PICK w : w = Head(todo)
  OBVIOUS
<1>2. /\ w = todo[1] /\ 1 \in 1..t /\ Len(todo') = t - 1
      /\ \A k \in 1..(t - 1) : k + 1 \in 1..t /\ todo'[k] = todo[k + 1]
  BY <1>1, LinesWrite
<1>3. \A i : Due(todo, i) <=> DuePut(w, i) \/ Due(todo', i)
  BY <1>1, LinesWrite
<1>4. /\ \A i : Has(index', i) <=> Has(index, i) \/ DuePut(w, i)
      /\ \A i : Deletes(index', i) <=> Deletes(index, i) \/ DueDelete(w, i)
  BY <1>1, LinesWrite
<1>5. todo' # <<>> => busy' = busy
  BY <1>1, LinesWrite
<1>6. t \in Nat /\ \A k \in 1..Len(todo') : todo' # <<>> /\ busy' = busy
  <2>1. t \in Nat
    BY DEF Typed
  <2>2. ASSUME NEW k \in 1..Len(todo')
        PROVE  todo' # <<>>
    <3>1. ASSUME todo' = <<>>
          PROVE  \A j \in 1..Len(todo') : FALSE
      BY ONLY <3>1
    <3>2. QED
      BY <3>1, <2>2
  <2>3. QED
    BY <2>1, <2>2, <1>5
<1>7. entries' = entries /\ kills' = kills /\ events' = events
  BY DEF Write, memory
<1>8. \A i : Known(index', todo', i) <=> Known(index, todo, i)
  BY <1>3, <1>4 DEF Known
<1>9. ASSUME NEW k \in 1..Len(todo'), NEW i, DeletedBefore(index, todo, k + 1, i)
      PROVE  DeletedBefore(index', todo', k, i)
  <2>1. CASE Deletes(index, i)
    BY <2>1, <1>4 DEF DeletedBefore
  <2>2. CASE \E m \in 1..k : DueDelete(todo[m], i)
    <3>1. PICK m \in 1..k : DueDelete(todo[m], i)
      BY <2>2
    <3>2. CASE m = 1
      BY <3>1, <3>2, <1>2, <1>4 DEF DeletedBefore
    <3>3. CASE m # 1
      <4>1. m - 1 \in 1..(k - 1) /\ m - 1 \in 1..(t - 1) /\ (m - 1) + 1 = m
        BY <3>3, <1>2, <1>6
      <4>2. todo'[m - 1] = todo[m]
        BY <4>1, <1>2
      <4>3. QED
        BY <3>1, <4>1, <4>2 DEF DeletedBefore
    <3>4. QED
      BY <3>2, <3>3
  <2>3. (k + 1) - 1 = k
    OBVIOUS
  <2>4. QED
    BY <2>1, <2>2, <2>3, <1>9 DEF DeletedBefore
<1>10. w.to = "sidecar" => DueSidecar(entries, index, todo, busy, 1)
  BY <1>2 DEF Sides, DueSidecars
<1>11. StoredLines(entries, index', sidecars')
  <2>1. StoredLines(entries, index', sidecars)
    <3>1. \A i \in Ids(entries) : Stays(entries, entries, i)
      BY SameStays
    <3>2. QED
      BY <3>1, <1>4, StoredStays DEF Sides
  <2>2. ASSUME NEW c \in DOMAIN sidecars', NEW j \in 1..Len(sidecars'[c]), IsSidecar(w, c)
        PROVE  StoredLine(entries, index', c, sidecars'[c][j])
    <3>1. sidecars'[c] = w.value /\ w.id = c /\ w.to = "sidecar"
      BY <2>2, <1>1, SidecarsWrite DEF IsSidecar
    <3>2. PICK l : l = sidecars'[c][j]
      OBVIOUS
    <3>3. DueLine(entries, index, todo, busy, 1, l)
      BY <3>1, <3>2, <1>2, <1>10 DEF DueSidecar
    <3>4. l.delete => Deletes(index', l.id)
      <4>1. \A m \in 1..(1 - 1) : FALSE
        BY ONLY SMT
      <4>2. QED
        BY <4>1, <3>3, <1>4 DEF DueLine, DeletedBefore
    <3>5. ASSUME ~l.delete, l.id # c
          PROVE  Packed(entries, c, l) /\ Has(index', l.id)
      <4>1. 1 = t /\ Packed(entries, c, l) /\ Known(index, todo, l.id)
        BY <3>1, <3>3, <3>5, <1>2 DEF DueLine
      <4>2. Len(todo') = 0
        BY <4>1, <1>2
      <4>3. ~Due(todo', l.id)
        <5>1. \A k \in 1..Len(todo') : FALSE
          BY ONLY <4>2
        <5>2. QED
          BY <5>1 DEF Due
      <4>4. QED
        BY <4>1, <4>3, <1>8 DEF Known
    <3>6. QED
      BY <3>2, <3>4, <3>5 DEF StoredLine
  <2>3. \A c \in DOMAIN sidecars' : ~IsSidecar(w, c) => c \in DOMAIN sidecars /\ sidecars'[c] = sidecars[c]
    BY <1>1, SidecarsWrite
  <2>4. QED
    BY <2>1, <2>2, <2>3 DEF StoredLines
<1>12. ASSUME NEW k \in 1..Len(todo'), NEW j \in 1..Len(todo'), DuePut(todo[1], todo'[j].id),
              todo'[j].to = "sidecar"
       PROVE  busy \in {"flush", "rebase"}
  <2>1. j + 1 \in 1..t /\ todo'[j] = todo[j + 1] /\ ~(j + 1 < 1)
    BY <1>2, <1>6
  <2>2. QED
    BY <2>1, <1>2, <1>12 DEF Sides, SidecarFirst
<1>13. DueSidecars(entries, index', todo', busy')
  <2>1. ASSUME NEW k \in 1..Len(todo'), todo'[k].to = "sidecar"
        PROVE  DueSidecar(entries, index', todo', busy, k)
    <3>1. k + 1 \in 1..t /\ todo'[k] = todo[k + 1]
      BY <1>2
    <3>2. DueSidecar(entries, index, todo, busy, k + 1)
      BY <2>1, <3>1 DEF Sides, DueSidecars
    <3>3. PICK u : u = todo'[k]
      OBVIOUS
    <3>4. ASSUME NEW j \in 1..Len(u.value)
          PROVE  DueLine(entries, index', todo', busy, k, u.value[j])
      <4>1. DueLine(entries, index, todo, busy, k + 1, u.value[j])
        BY <3>1, <3>2, <3>3 DEF DueSidecar
      <4>2. k + 1 = t => k = Len(todo')
        BY <1>2, <1>6
      <4>3. QED
        BY <4>1, <4>2, <3>1, <3>3, <1>8, <1>9 DEF DueLine
    <3>5. busy \notin {"flush", "rebase"} => Due(todo', u.id) \/ DeletedBefore(index', todo', k, u.id)
      <4>1. ASSUME busy \notin {"flush", "rebase"}
            PROVE  Due(todo', u.id) \/ DeletedBefore(index', todo', k, u.id)
        <5>1. Due(todo, u.id) \/ DeletedBefore(index, todo, k + 1, u.id)
          BY <4>1, <3>1, <3>2, <3>3 DEF DueSidecar
        <5>2. ~DuePut(w, u.id)
          BY <4>1, <2>1, <3>3, <1>2, <1>12
        <5>3. QED
          BY <5>1, <5>2, <1>3, <1>9
      <4>2. QED
        BY <4>1
    <3>6. QED
      BY <3>1, <3>2, <3>3, <3>4, <3>5 DEF DueSidecar
  <2>2. QED
    BY <2>1, <1>6 DEF DueSidecars
<1>14. SidecarFirst(entries, todo', busy')
  <2>1. ASSUME NEW i \in Ids(entries), Due(todo', i), At(entries, i).kind # "large"
        PROVE  busy' = "flush"
    <3>1. Due(todo, i)
      BY <2>1, <1>3
    <3>2. busy = "flush"
      BY <2>1, <3>1 DEF Sides, SidecarFirst
    <3>3. QED
      BY <2>1, <3>2, <1>6 DEF Due
  <2>2. ASSUME busy' \notin {"flush", "rebase"}, NEW j \in 1..Len(todo'), NEW k \in 1..Len(todo'),
               DuePut(todo'[k], todo'[j].id), todo'[j].to = "sidecar"
        PROVE  j < k
    <3>1. busy \notin {"flush", "rebase"}
      BY <2>2, <1>6
    <3>2. /\ j + 1 \in 1..t /\ todo'[j] = todo[j + 1]
          /\ k + 1 \in 1..t /\ todo'[k] = todo[k + 1]
      BY <1>2
    <3>3. j + 1 < k + 1
      BY <2>2, <3>1, <3>2 DEF Sides, SidecarFirst
    <3>4. QED
      BY <3>3
  <2>3. QED
    BY <2>1, <2>2 DEF SidecarFirst
<1>15. AllAtHome(entries, index', todo', sidecars', busy', kills)
  <2>1. ASSUME NEW i \in Ids(entries), Wanted(index', todo', kills, i)
        PROVE  AtHome(entries, index', todo', sidecars', busy', i)
    <3>1. AtHome(entries, index, todo, sidecars, busy, i)
      BY <2>1, <1>4, <1>8 DEF Sides, AllAtHome, Wanted
    <3>2. PICK h, R : h = Home(entries, i) /\ R = Right(entries, i)
      OBVIOUS
    <3>3. /\ Beside(todo, sidecars, h, R)
          /\ Has(index, i) /\ busy \notin {"flush", "rebase"} => Stored(sidecars, h, R)
      BY <3>1, <3>2 DEF AtHome
    <3>4. Beside(todo', sidecars', h, R)
      BY <3>3, BesideWrite
    <3>5. ASSUME Has(index', i), busy' \notin {"flush", "rebase"},
                 NEW k \in 1..Len(todo'), IsSidecar(todo'[k], h)
          PROVE  Stored(sidecars', h, R)
      <4>1. busy \notin {"flush", "rebase"}
        BY <3>5, <1>6
      <4>2. CASE Has(index, i)
        BY <4>1, <4>2, <3>3, StoredWrite
      <4>3. CASE DuePut(w, i)
        <5>1. Due(todo, i)
          BY <4>3, <1>3
        <5>2. At(entries, i).kind = "large"
          BY <4>1, <5>1 DEF Sides, SidecarFirst
        <5>3. h = i
          BY <5>2, <3>2 DEF Home
        <5>4. todo'[k].to = "sidecar" /\ todo'[k].id = i
          BY <5>3, <3>5 DEF IsSidecar
        <5>5. QED
          BY <4>1, <4>3, <5>4, <1>2, <1>12
      <4>4. QED
        BY <4>2, <4>3, <3>5, <1>4
    <3>6. Has(index', i) /\ busy' \notin {"flush", "rebase"} => Stored(sidecars', h, R)
      BY <3>4, <3>5 DEF Beside
    <3>7. QED
      BY <3>1, <3>2, <3>4, <3>6 DEF AtHome
  <2>2. QED
    BY <2>1 DEF AllAtHome
<1>16. Apart(entries)
  BY DEF Sides
<1>17. ASSUME kills = 0
       PROVE  "open deletion" \notin events /\ FromStart(entries, index', todo', sidecars')
  <2>1. "open deletion" \notin events /\ FromStart(entries, index, todo, sidecars)
    BY <1>17 DEF Sides
  <2>2. ASSUME NEW c \in DOMAIN sidecars', NEW j \in 1..Len(sidecars'[c]), ~sidecars'[c][j].delete
        PROVE  Known(index', todo', sidecars'[c][j].id)
    <3>1. CASE IsSidecar(w, c)
      <4>1. sidecars'[c] = w.value /\ w.to = "sidecar"
        BY <3>1, <1>1, SidecarsWrite DEF IsSidecar
      <4>2. QED
        BY <4>1, <2>1, <2>2, <1>2, <1>8 DEF FromStart
    <3>2. CASE ~IsSidecar(w, c)
      <4>1. c \in DOMAIN sidecars /\ sidecars'[c] = sidecars[c]
        BY <3>2, <1>1, SidecarsWrite
      <4>2. QED
        BY <4>1, <2>1, <2>2, <1>8 DEF FromStart
    <3>3. QED
      BY <3>1, <3>2
  <2>3. ASSUME NEW k \in 1..Len(todo'), todo'[k].to = "sidecar", NEW j \in 1..Len(todo'[k].value),
               ~todo'[k].value[j].delete
        PROVE  Known(index', todo', todo'[k].value[j].id)
    <3>1. k + 1 \in 1..t /\ todo'[k] = todo[k + 1]
      BY <1>2
    <3>2. QED
      BY <3>1, <2>1, <2>3, <1>8 DEF FromStart
  <2>4. \A i \in Ids(entries) : At(entries, i).deleted => Beside(todo', sidecars', i, Deleting(i))
    BY <2>1, BesideWrite DEF FromStart
  <2>5. QED
    BY <2>1, <2>2, <2>3, <2>4 DEF FromStart
<1>18. QED
  BY <1>7, <1>11, <1>13, <1>14, <1>15, <1>16, <1>17 DEF Sides

\* A kill leaves what the index has at home: the one sidecar it may leave empty
\* is of an object with no line or with a deletion.
LEMMA SidesKill ==
  ASSUME Typed, Kept, Under(entries, todo), SmallKept, kills \in Nat, Sides, Kill,
         events' \cap Excluded = {}
  PROVE  Sides'
<1>1. /\ entries' = Opened /\ index' = index /\ busy' = None
      /\ Len(todo') = 0 /\ (\A k \in 1..Len(todo') : FALSE) /\ \A i : ~Due(todo', i)
  BY AfterKill
<1>2. kills' # 0
  <2>1. kills' = kills + 1
    BY DEF Kill
  <2>2. QED
    BY <2>1
<1>3. todo = <<>> \/ busy \notin {"flush", "rebase"}
  <2>1. Cut \cap Excluded = {}
    BY DEF Kill
  <2>2. busy = "flush" /\ todo # <<>> => "flush cut" \in Cut
    BY DEF Cut
  <2>3. busy = "rebase" /\ todo # <<>> => "rebase cut" \in Cut
    BY DEF Cut
  <2>4. QED
    BY <2>1, <2>2, <2>3 DEF Excluded
<1>4. ASSUME NEW i, Has(index, i)
      PROVE  /\ ~Due(todo, i) /\ i \in Ids(entries) /\ i \in Ids(Opened)
             /\ Stays(entries, Opened, i)
  <2>1. i \in Ids(entries)
    BY <1>4, LinesInIds
  <2>2. ~Due(todo, i)
    <3>1. Due(todo, i) => busy = "rebase"
      BY <2>1, <1>4 DEF Kept, Once
    <3>2. QED
      BY <3>1, <1>3, IdleWrites
  <2>3. /\ i \in Ids(Opened)
        /\ At(Opened, i).kind = At(entries, i).kind /\ At(Opened, i).pack = At(entries, i).pack
    BY <2>2, <1>4, KillFields
  <2>4. Bare(At(Opened, i)) = Bare(At(entries, i))
    BY <2>2, <1>4, OpenedKeeps DEF Bare
  <2>5. QED
    BY <2>1, <2>2, <2>3, <2>4 DEF Stays
<1>5. \A i \in Ids(Opened) : ~Has(index, i) => At(Opened, i).kind = "small" /\ At(Opened, i).pack = Open
  <2>1. Lost.kind = "small" /\ Lost.pack = Open
    BY DEF Lost
  <2>2. QED
    BY <2>1, OpenedKeeps
<1>6. PICK w : w = Head(todo)
  OBVIOUS
<1>7. \/ sidecars' = sidecars
      \/ todo # <<>> /\ w.to = "sidecar" /\ sidecars' = With(sidecars, w.id, <<>>)
  BY <1>6 DEF Kill
<1>8. ASSUME todo # <<>>, w.to = "sidecar"
      PROVE  At(entries, w.id).kind # "pack" /\ (Has(index, w.id) => Deletes(index, w.id))
  <2>1. todo \in Seq(WriteT)
    BY DEF Typed
  <2>2. 1 \in 1..Len(todo) /\ w = todo[1]
    BY <2>1, <1>6, <1>8
  <2>3. DueSidecar(entries, index, todo, busy, 1)
    BY <2>2, <1>8 DEF Sides, DueSidecars
  <2>4. busy \notin {"flush", "rebase"} /\ busy # "flush"
    BY <1>3, <1>8
  <2>5. At(entries, w.id).kind # "pack" /\ (Due(todo, w.id) \/ DeletedBefore(index, todo, 1, w.id))
    BY <2>2, <2>3, <2>4 DEF DueSidecar
  <2>6. DeletedBefore(index, todo, 1, w.id) => Deletes(index, w.id)
    <3>1. \A m \in 1..(1 - 1) : FALSE
      BY ONLY SMT
    <3>2. QED
      BY <3>1 DEF DeletedBefore
  <2>7. QED
    BY <2>5, <2>6, <1>4
<1>9. StoredLines(Opened, index, sidecars')
  <2>1. StoredLines(Opened, index, sidecars)
    BY <1>4, StoredStays DEF Sides
  <2>2. CASE sidecars' = With(sidecars, w.id, <<>>)
    <3>1. sidecars' = [c \in DOMAIN sidecars \cup {w.id} |-> IF c = w.id THEN <<>> ELSE sidecars[c]]
      BY <2>2 DEF With
    <3>2. PICK e : e = <<>> /\ \A j \in 1..Len(e) : FALSE
      OBVIOUS
    <3>3. ASSUME NEW c \in DOMAIN sidecars', NEW j \in 1..Len(sidecars'[c])
          PROVE  c \in DOMAIN sidecars /\ sidecars'[c] = sidecars[c]
      <4>1. CASE c = w.id
        <5>1. sidecars'[c] = e
          BY <4>1, <3>1, <3>2
        <5>2. QED
          BY <5>1, <3>2, <3>3
      <4>2. CASE c # w.id
        BY <4>2, <3>1, <3>3
      <4>3. QED
        BY <4>1, <4>2
    <3>4. QED
      BY <2>1, <3>3 DEF StoredLines
  <2>3. QED
    BY <2>1, <2>2, <1>7
<1>10. DueSidecars(Opened, index, todo', None) /\ SidecarFirst(Opened, todo', None)
  BY <1>1 DEF DueSidecars, SidecarFirst
<1>11. AllAtHome(Opened, index, todo', sidecars', None, kills')
  <2>1. ASSUME NEW i \in Ids(Opened), Wanted(index, todo', kills', i)
        PROVE  AtHome(Opened, index, todo', sidecars', None, i)
    <3>1. Has(index, i) /\ ~Deletes(index, i)
      BY <2>1, <1>1, <1>2 DEF Wanted, Known
    <3>2. i \in Ids(entries) /\ Stays(entries, Opened, i)
      BY <3>1, <1>4
    <3>3. AtHome(entries, index, todo, sidecars, busy, i)
      BY <3>1, <3>2 DEF Sides, AllAtHome, Wanted, Known
    <3>4. PICK h : h = Home(entries, i)
      OBVIOUS
    <3>5. /\ h \in Ids(entries)
          /\ At(entries, i).kind = "small" => At(entries, h).kind = "pack"
          /\ Stored(sidecars, h, Right(entries, i))
      <4>1. CASE todo = <<>>
        BY <4>1, <3>1, <3>2, <3>4, IdleHome
      <4>2. CASE busy \notin {"flush", "rebase"}
        BY <4>2, <3>1, <3>3, <3>4 DEF AtHome
      <4>3. QED
        BY <4>1, <4>2, <1>3
    <3>6. Has(index, h)
      <4>1. CASE At(entries, i).kind = "small"
        <5>1. h = At(entries, i).pack
          BY <4>1, <3>4 DEF Home
        <5>2. HoldsSmall(entries, index, todo, streams, busy, i)
          BY <4>1, <3>2 DEF SmallKept
        <5>3. Required(entries, index, todo, i)
          BY <3>1 DEF Required
        <5>4. (Has(index, h) \/ Due(todo, h)) /\ (busy # "flush" => Has(index, h))
          BY <5>1, <5>2, <5>3, <3>1 DEF HoldsSmall
        <5>5. QED
          BY <5>4, <1>3, IdleWrites
      <4>2. CASE At(entries, i).kind # "small"
        BY <4>2, <3>1, <3>4 DEF Home
      <4>3. QED
        BY <4>1, <4>2
    <3>7. h \in Ids(Opened) /\ At(Opened, h).kind = At(entries, h).kind
      BY <3>6, <1>4 DEF Stays
    <3>8. ASSUME todo # <<>>, w.to = "sidecar"
          PROVE  h # w.id
      <4>1. At(entries, w.id).kind # "pack" /\ (Has(index, w.id) => Deletes(index, w.id))
        BY <3>8, <1>8
      <4>2. CASE At(entries, i).kind = "small"
        BY <4>1, <4>2, <3>5
      <4>3. CASE At(entries, i).kind # "small"
        BY <4>1, <4>3, <3>1, <3>4 DEF Home
      <4>4. QED
        BY <4>2, <4>3
    <3>9. Stored(sidecars', h, Right(entries, i))
      <4>1. CASE sidecars' = sidecars
        BY <4>1, <3>5
      <4>2. CASE todo # <<>> /\ w.to = "sidecar" /\ sidecars' = With(sidecars, w.id, <<>>)
        BY <4>2, <3>5, <3>8 DEF With, Stored
      <4>3. QED
        BY <4>1, <4>2, <1>7
    <3>10. PICK sc : sc = sidecars'
      OBVIOUS
    <3>11. AtHome(Opened, index, todo', sc, None, i)
      BY <3>2, <3>4, <3>5, <3>7, <3>9, <3>10, <1>1, AtHomeStored
    <3>12. QED
      BY <3>10, <3>11
  <2>2. QED
    BY <2>1 DEF AllAtHome
<1>12. Apart(Opened)
  <2>1. ASSUME NEW i \in Ids(Opened)
        PROVE  At(Opened, i).kind = "small" <=> At(Opened, i).pack # None
    <3>1. CASE Has(index, i)
      BY <3>1, <1>4 DEF Sides, Apart, Stays
    <3>2. CASE ~Has(index, i)
      BY <3>2, <1>5, DurableAssumption
    <3>3. QED
      BY <3>1, <3>2
  <2>2. QED
    BY <2>1 DEF Apart
<1>13. QED
  BY <1>1, <1>2, <1>9, <1>10, <1>11, <1>12 DEF Sides

LEMMA SideTypes ==
  ASSUME Typed, SideTyped, [Next]_vars
  PROVE  SideTyped'
<1>1. kills \in Nat /\ \A c \in DOMAIN sidecars : sidecars[c] \in Seq(LineT)
  BY DEF SideTyped
<1>2. CASE Write
  <2>1. PICK w : w = Head(todo)
    OBVIOUS
  <2>2. w = todo[1] /\ 1 \in 1..Len(todo) /\ todo \in Seq(WriteT)
    BY <2>1, <1>2, LinesWrite DEF Typed
  <2>3. \A c : IsSidecar(w, c) => w.value \in Seq(LineT)
    BY <2>2, SidecarValue DEF IsSidecar
  <2>4. \A c \in DOMAIN sidecars' : sidecars'[c] \in Seq(LineT)
    <3>1. ASSUME NEW c \in DOMAIN sidecars'
          PROVE  sidecars'[c] \in Seq(LineT)
      <4>1. CASE IsSidecar(w, c)
        BY <4>1, <2>1, <2>3, <1>2, SidecarsWrite
      <4>2. CASE ~IsSidecar(w, c)
        BY <4>2, <2>1, <1>1, <1>2, SidecarsWrite
      <4>3. QED
        BY <4>1, <4>2
    <3>2. QED
      BY <3>1
  <2>5. kills' = kills
    BY <1>2 DEF Write
  <2>6. QED
    BY <2>4, <2>5, <1>1 DEF SideTyped
<1>3. CASE Kill
  <2>1. kills' = kills + 1
    BY <1>3 DEF Kill
  <2>2. \/ sidecars' = sidecars
        \/ \E c : sidecars' = With(sidecars, c, <<>>)
    BY <1>3 DEF Kill
  <2>3. PICK e \in Seq(LineT) : e = <<>>
    BY EmptySeq
  <2>4. ASSUME NEW c, sidecars' = With(sidecars, c, <<>>)
        PROVE  \A i \in DOMAIN sidecars' : sidecars'[i] \in Seq(LineT)
    <3>1. sidecars' = [i \in DOMAIN sidecars \cup {c} |-> IF i = c THEN e ELSE sidecars[i]]
      BY <2>3, <2>4 DEF With
    <3>2. QED
      BY <3>1, <1>1
  <2>5. \A i \in DOMAIN sidecars' : sidecars'[i] \in Seq(LineT)
    BY <2>2, <2>4, <1>1
  <2>6. QED
    BY <2>1, <2>5, <1>1 DEF SideTyped
<1>4. CASE PutLarge
  BY <1>1, <1>4 DEF PutLarge, disk, SideTyped
<1>5. CASE PutSmall
  BY <1>1, <1>5 DEF PutSmall, disk, SideTyped
<1>6. CASE flush
  BY <1>1, <1>6 DEF flush, disk, SideTyped
<1>7. CASE delete
  BY <1>1, <1>7 DEF delete, disk, SideTyped
<1>8. CASE compact
  BY <1>1, <1>8 DEF compact, disk, SideTyped
<1>9. CASE rebase
  BY <1>1, <1>9 DEF rebase, disk, SideTyped
<1>10. CASE UNCHANGED vars
  BY <1>1, <1>10 DEF vars, disk, SideTyped
<1>11. QED
  BY <1>2, <1>3, <1>4, <1>5, <1>6, <1>7, <1>8, <1>9, <1>10 DEF Next

LEMMA SideNext ==
  ASSUME DurableInv, SideInv, [Next]_vars
  PROVE  SideInv'
<1>1. Typed /\ Kept /\ Under(entries, todo) /\ SideTyped /\ kills \in Nat
  BY DEF DurableInv, SideInv, SideTyped
<1>2. SideTyped'
  BY <1>1, SideTypes
<1>3. ASSUME events' \cap Excluded = {}
      PROVE  Sides'
  <2>1. events \subseteq events'
    BY EventsStay
  <2>2. Sides
    BY <2>1, <1>3 DEF SideInv
  <2>3. CASE Write
    BY <2>2, <2>3, <1>1, SidesWrite
  <2>4. CASE Kill
    <3>1. "flush cut" \notin events
      BY <2>1, <1>3 DEF Excluded
    <3>2. SmallKept
      BY <3>1 DEF DurableInv
    <3>3. QED
      BY <2>2, <2>4, <3>2, <1>1, <1>3, SidesKill
  <2>5. CASE PutLarge
    BY <2>2, <2>5, <1>1, SidesPutLarge
  <2>6. CASE PutSmall
    BY <2>2, <2>6, <1>1, SidesPutSmall
  <2>7. CASE flush
    BY <2>2, <2>7, <1>1, SidesFlush
  <2>8. CASE delete
    BY <2>2, <2>8, <1>1, <1>3, SidesDelete
  <2>9. CASE compact
    BY <2>2, <2>9, <1>1, SidesCompact
  <2>10. CASE rebase
    BY <2>2, <2>10, <1>1, SidesRebase
  <2>11. CASE UNCHANGED vars
    BY <2>2, <2>11 DEF vars, memory, disk, Sides
  <2>12. QED
    BY <2>3, <2>4, <2>5, <2>6, <2>7, <2>8, <2>9, <2>10, <2>11 DEF Next
<1>4. QED
  BY <1>2, <1>3 DEF SideInv

LEMMA SideStart == Init => SideInv
<1> SUFFICES ASSUME Init
             PROVE  SideInv
  OBVIOUS
<1>1. /\ entries = <<>> /\ todo = <<>> /\ busy = None /\ DOMAIN sidecars = {} /\ kills = 0 /\ events = {}
  BY DEF Init
<1>2. Ids(entries) = {}
  <2>1. PICK e : e = <<>> /\ Len(e) = 0
    OBVIOUS
  <2>2. QED
    BY <2>1, <1>1 DEF Ids
<1>3. (\A k \in 1..Len(todo) : FALSE) /\ \A i : ~Due(todo, i)
  BY <1>1, IdleWrites
<1>4. SideTyped
  BY <1>1 DEF SideTyped
<1>5. StoredLines(entries, index, sidecars) /\ DueSidecars(entries, index, todo, busy)
  BY <1>1, <1>3 DEF StoredLines, DueSidecars
<1>6. SidecarFirst(entries, todo, busy)
  BY <1>2, <1>3 DEF SidecarFirst
<1>7. AllAtHome(entries, index, todo, sidecars, busy, kills) /\ Apart(entries)
  BY <1>2 DEF AllAtHome, Apart
<1>8. "open deletion" \notin events /\ FromStart(entries, index, todo, sidecars)
  BY <1>1, <1>2, <1>3 DEF FromStart
<1>9. QED
  BY <1>4, <1>5, <1>6, <1>7, <1>8 DEF SideInv, Sides

\* In every state the sidecars stored and under way say of each object with a
\* line, beside it or its pack, what its entry is, and nothing the index does
\* not: until a pack is deleted by its id or a kill cuts short one of the two
\* operations that write a sidecar after its line (src/glyd-store/src/lib.rs,
\* `write_index` of flush and of rebase).
THEOREM SidecarInvariant == Spec => []SideInv
<1>1. DurableInv /\ SideInv /\ [Next]_vars => SideInv'
  BY SideNext
<1>2. QED
  BY <1>1, SideStart, DurableInvariant, PTL DEF Spec

\* "A lost metadata directory is rebuilt from the objects": the store rebuilt
\* from the sidecars (rebuild_with) is the one in memory until a kill, and after
\* kills has each live object as the one opened from the index (open_with) has
\* it, for every number of objects, of writes under way and of kills.
THEOREM SidecarsStayIndex == Spec => []SidecarsAreIndex
BY DurableInvariant, SidecarInvariant, IdleSidecars, PTL

=============================================================================
