------------------------------ MODULE Durable ------------------------------
(***************************************************************************)
(* What the store of src/glyd-store/src/lib.rs leaves on disk: the streams *)
(* and sidecars in the backend and the lines of the index, written one     *)
(* after another, by its own thread or the writer's; a process killed      *)
(* between two writes or inside one; the store opened again from the index *)
(* (open_with) or from the sidecars (rebuild_with).                        *)
(*                                                                         *)
(* An object's bytes are the number of its put, so that an id given twice  *)
(* is seen.  Depths and families are in module Store, the channel and      *)
(* failed writes in module Writer.  `lift` writes what `rebase` writes.    *)
(***************************************************************************)
EXTENDS Naturals, Sequences, FiniteSets

CONSTANTS
  MaxLen,       \* bound: entries
  MaxPuts,      \* bound: objects put
  Jobs,         \* writes that may be under way when a put adds its own
  MaxKills,     \* bound: times the process is killed
  None, Open

ASSUME DurableAssumption ==
  /\ MaxLen \in Nat /\ MaxPuts \in Nat /\ Jobs \in Nat /\ MaxKills \in Nat
  /\ None \notin Nat /\ Open \notin Nat /\ None # Open
  /\ None \notin {"flush", "delete", "compact", "rebase"}   \* no operation's name

VARIABLES
  entries,   \* Vec<Entry>: in memory
  pending,   \* the open pack: in memory
  todo,      \* writes under way, in order
  busy,      \* the operation of the store's own thread that makes them: None where the writer does
  streams,   \* the backend's streams, by id
  sidecars,  \* the backend's `<id>.index` lines, by id
  index,     \* the index file's lines
  puts,      \* objects put so far
  kills,     \* times the process was killed so far
  events     \* history: what a property below may have to leave out

memory == <<entries, pending>>
disk == <<streams, sidecars, index>>
vars == <<memory, todo, busy, disk, puts, kills, events>>

\* Operations a kill cut short; a pack deleted by its id; a deletion
\* whose object was lost to a kill before it had a line.
Events == {"flush cut", "rebase cut", "delete cut", "compact cut", "pack deleted", "open deletion"}

-----------------------------------------------------------------------------
(* Entries, lines and streams.                                             *)

Entry(of, kind, base, pack, at) ==
  [of |-> of, kind |-> kind, base |-> base, pack |-> pack, at |-> at, deleted |-> FALSE]
Lost == [of |-> None, kind |-> "small", base |-> None, pack |-> Open, at |-> 0, deleted |-> TRUE]

line(id, e) == [id |-> id, entry |-> [e EXCEPT !.deleted = FALSE], delete |-> FALSE]
D(id) == [id |-> id, entry |-> Lost, delete |-> TRUE]

Ids(es) == 0..(Len(es) - 1)
At(es, id) == es[id + 1]
Live(es) == {i \in Ids(es) : ~At(es, i).deleted}

Torn == [of |-> None, base |-> None, members |-> <<>>]

PutLines(lines) == {k \in 1..Len(lines) : ~lines[k].delete}
LinesOf(lines, id) == {k \in PutLines(lines) : lines[k].id = id}

Count_short(lines) ==
  Cardinality({i \in 1..MaxLen : \E k \in PutLines(lines) : lines[k].id >= i})
Count(lines) ==
  Cardinality({i \in 0..MaxLen : \E k \in PutLines(lines) : lines[k].id >= i})

LastLine_first(lines, id) == CHOOSE k \in LinesOf(lines, id) : \A j \in LinesOf(lines, id) : k <= j
LastLine(lines, id) == CHOOSE k \in LinesOf(lines, id) : \A j \in LinesOf(lines, id) : j <= k

\* The entries of some lines: the last line of an id counts, an id without
\* one is lost, a deletion applies to its id wherever it stands.
Entries(lines) ==
  [j \in 1..Count(lines) |->
     IF LinesOf(lines, j - 1) = {} THEN Lost
     ELSE [lines[LastLine(lines, j - 1)].entry EXCEPT
            !.deleted = \E k \in 1..Len(lines) : lines[k].delete /\ lines[k].id = j - 1]]

Opened == Entries(index)

\* The sidecars one after another, in the order of their ids.
Rebuilt ==
  LET text[n \in 0..MaxLen] ==
        IF n = 0 THEN <<>>
        ELSE text[n - 1] \o IF n - 1 \in DOMAIN sidecars THEN sidecars[n - 1] ELSE <<>>
  IN  Entries(text[MaxLen])

ChainOf(es, id) ==
  LET chain[i \in Ids(es)] ==
        {i} \cup IF At(es, i).base = None THEN {} ELSE chain[At(es, i).base]
  IN  chain[id]

\* The large object can be read: each stream of its chain is the one its
\* entry is about.
Readable(es, id) ==
  \A c \in ChainOf(es, id) :
    c \in DOMAIN streams /\ streams[c].of = At(es, c).of /\ streams[c].base = At(es, c).base

-----------------------------------------------------------------------------
(* Writes.                                                                 *)

Stream(id, s) == [to |-> "stream", id |-> id, value |-> s]
Sidecar(id, ls) == [to |-> "sidecar", id |-> id, value |-> ls]
Line(l) == [to |-> "index", id |-> l.id, value |-> l]
Remove(id) == [to |-> "remove", id |-> id, value |-> None]

With(f, id, v) == [i \in DOMAIN f \cup {id} |-> IF i = id THEN v ELSE f[i]]

Write ==
  /\ todo # <<>>
  /\ LET w == Head(todo)
     IN  /\ streams' = CASE w.to = "stream" -> With(streams, w.id, w.value)
                         [] w.to = "remove" -> [i \in DOMAIN streams \ {w.id} |-> streams[i]]
                         [] OTHER -> streams
         /\ sidecars' = IF w.to = "sidecar" THEN With(sidecars, w.id, w.value) ELSE sidecars
         /\ index' = IF w.to = "index" THEN Append(index, w.value) ELSE index
  /\ todo' = Tail(todo)
  /\ busy' = IF Tail(todo) = <<>> THEN None ELSE busy
  /\ UNCHANGED <<memory, puts, kills, events>>

\* The process is killed, perhaps in fs::write, which truncates the file and
\* then writes it; the store is opened again.
Cut ==
  IF todo = <<>> THEN {}
  ELSE CASE busy = "flush" -> {"flush cut"} [] busy = "rebase" -> {"rebase cut"}
         [] busy = "delete" -> {"delete cut"} [] busy = "compact" -> {"compact cut"} [] OTHER -> {}

Kill ==
  /\ kills < MaxKills /\ kills' = kills + 1
  /\ \/ UNCHANGED <<streams, sidecars>>
     \/ /\ todo # <<>> /\ Head(todo).to = "stream"
        /\ streams' = With(streams, Head(todo).id, Torn)
        /\ UNCHANGED sidecars
     \/ /\ todo # <<>> /\ Head(todo).to = "sidecar"
        /\ sidecars' = With(sidecars, Head(todo).id, <<>>)
        /\ UNCHANGED streams
  /\ entries' = Opened
  /\ pending' = <<>> /\ todo' = <<>> /\ busy' = None
  /\ events' = events \cup Cut
       \cup (IF \E k \in 1..Len(index) : index[k].delete /\ LinesOf(index, index[k].id) = {}
             THEN {"open deletion"} ELSE {})
  /\ UNCHANGED <<index, puts>>

-----------------------------------------------------------------------------
(* Operations.  Those of the store's own thread wait for the writer's      *)
(* (wait_all) and are over when their writes are.                          *)

Own(op, ws) == todo = <<>> /\ ws # <<>> /\ todo' = ws /\ busy' = op

LargeWrites(id, s, l) == <<Stream(id, s), Sidecar(id, <<l>>), Line(l)>>

PutLarge ==
  /\ puts < MaxPuts /\ Len(entries) < MaxLen
  /\ busy = None /\ Len(todo) <= Jobs
  /\ \E b \in {None} \cup {i \in Live(entries) : At(entries, i).kind = "large"} :
       LET id == Len(entries)
           e  == Entry(puts, "large", b, None, 0)
       IN  /\ entries' = Append(entries, e)
           /\ todo' = todo \o LargeWrites(id, [of |-> puts, base |-> b, members |-> <<>>], line(id, e))
  /\ puts' = puts + 1
  /\ UNCHANGED <<pending, busy, disk, kills, events>>

\* `flush` runs by itself too, when the open pack is full.
PutSmall ==
  /\ puts < MaxPuts /\ Len(entries) < MaxLen
  /\ busy = None
  /\ entries' = Append(entries, Entry(puts, "small", None, Open, Len(pending)))
  /\ pending' = Append(pending, Len(entries))
  /\ puts' = puts + 1
  /\ UNCHANGED <<todo, busy, disk, kills, events>>

PackId == Len(entries)

PackSidecar_alone(lines, own) == <<own>>
PackSidecar(lines, own) == Append(lines, own)

flush ==
  /\ pending # <<>> /\ Len(entries) < MaxLen
  /\ LET id == PackId
         e  == Entry(id, "pack", None, None, 0)
         packed == [j \in 1..Len(entries) |->
                      IF \E k \in 1..Len(pending) : pending[k] = j - 1
                      THEN [entries[j] EXCEPT !.pack = id] ELSE entries[j]]
         lines == [k \in 1..Len(pending) |-> line(pending[k], packed[pending[k] + 1])]
     IN  /\ Own("flush", <<Stream(id, [of |-> id, base |-> None,
                             members |-> [k \in 1..Len(pending) |-> At(entries, pending[k]).of]])>>
                \o [k \in 1..Len(lines) |-> Line(lines[k])]
                \o <<Line(line(id, e)), Sidecar(id, PackSidecar(lines, line(id, e)))>>)
         /\ entries' = Append(packed, e)
  /\ pending' = <<>>
  /\ UNCHANGED <<disk, puts, kills, events>>

\* A pack member's line is in its pack's sidecar; its own carries the
\* deletion alone.
DeletedSidecar(id, e) == IF e.pack # None THEN <<D(id)>> ELSE <<line(id, e), D(id)>>

DeleteWrites(id, e) == <<Line(D(id)), Sidecar(id, DeletedSidecar(id, e))>>

delete ==
  /\ \E id \in Live(entries) :
       LET e == At(entries, id)
       IN  /\ Own("delete", DeleteWrites(id, e))
           /\ entries' = [entries EXCEPT ![id + 1].deleted = TRUE]
           /\ events' = events \cup (IF e.kind = "pack" THEN {"pack deleted"} ELSE {})
  /\ UNCHANGED <<pending, disk, puts, kills>>

Needed_chains ==
  UNION {ChainOf(entries, i) : i \in {j \in Live(entries) : At(entries, j).pack # Open}}
Needed ==
  (UNION {ChainOf(entries, i) : i \in {j \in Live(entries) : At(entries, j).pack # Open}})
    \cup {At(entries, i).pack : i \in Live(entries)}

compact ==
  /\ LET gone == {i \in Ids(entries) : i \notin Needed /\ At(entries, i).pack = None
                                       /\ i \in DOMAIN streams}
     IN  \E order \in [1..Cardinality(gone) -> gone] :
           /\ \A j, k \in DOMAIN order : j < k => order[j] < order[k]
           /\ Own("compact", [k \in DOMAIN order |-> Remove(order[k])])
  /\ UNCHANGED <<memory, disk, puts, kills, events>>

RebaseWrites(id, s, l) == <<Stream(id, s), Line(l), Sidecar(id, <<l>>)>>

rebase ==
  /\ \E id \in Live(entries) :
       LET e == [At(entries, id) EXCEPT !.base = None]
       IN  /\ e.kind = "large" /\ At(entries, id).base # None
           /\ Readable(entries, id)
           /\ Own("rebase", RebaseWrites(id, [of |-> e.of, base |-> None, members |-> <<>>], line(id, e)))
           /\ entries' = [entries EXCEPT ![id + 1] = e]
  /\ UNCHANGED <<pending, disk, puts, kills, events>>

Init ==
  /\ entries = <<>> /\ pending = <<>> /\ todo = <<>> /\ busy = None
  /\ streams = [i \in {} |-> Torn] /\ sidecars = [i \in {} |-> <<>>] /\ index = <<>>
  /\ puts = 0 /\ kills = 0 /\ events = {}

Next == Write \/ Kill \/ PutLarge \/ PutSmall \/ flush \/ delete \/ compact \/ rebase

Spec == Init /\ [][Next]_vars

-----------------------------------------------------------------------------
(* Properties.                                                             *)

EntryType ==
  [of : 0..MaxPuts \cup {None}, kind : {"large", "small", "pack"}, base : 0..(MaxLen - 1) \cup {None},
   pack : 0..(MaxLen - 1) \cup {None, Open}, at : 0..MaxPuts, deleted : BOOLEAN]

Idle == todo = <<>>

\* An id that has no line yet: its small object waits in the open pack.
Unwritten(es) == {i \in Ids(entries) : i \notin Ids(es) \/ At(es, i).of = None}
Matches(es) ==
  /\ \A i \in Ids(es) \ Unwritten(es) : i \in Ids(entries) /\ At(es, i) = At(entries, i)
  /\ Unwritten(es) = {i \in Ids(entries) : \E k \in 1..Len(pending) : pending[k] = i}
                     \cup {i \in Ids(entries) : At(entries, i).of = None}

\* "`index` (one line per object ...; a later line for an id replaces an
\* earlier one; `D` lines delete)": with every write done, opening the store
\* again gives the entries it has, unless a deletion's line outlived the open
\* pack its object was in.
IndexIsMemory == Idle /\ "open deletion" \notin events => Matches(Opened)

\* "A lost metadata directory is rebuilt from the objects": the sidecars give
\* the entries in memory while no process was killed, and after that the live
\* ones the index gives, unless a pack was deleted by its id or an operation
\* that writes a sidecar after its line was cut.
SidecarsAreIndex ==
  Idle /\ events \cap {"flush cut", "rebase cut", "pack deleted"} = {} =>
    /\ kills = 0 => Matches(Rebuilt)
    /\ LET os == Opened
           rs == Rebuilt
       IN  \A i \in Live(os) : i \in Ids(rs) /\ At(rs, i) = At(os, i)

AllLargeReadable(es) == \A i \in Live(es) : At(es, i).kind = "large" => Readable(es, i)

\* Opened again at any moment outside a rebase, the store has every large
\* object it lists, unless a rebase was cut.
LargeReadable ==
  "rebase cut" \notin events /\ busy # "rebase" => AllLargeReadable(Opened)

InPack(es, i) ==
  LET p == At(es, i).pack
      k == At(es, i).at + 1
  IN  /\ p \in Ids(es) /\ At(es, p).kind = "pack"
      /\ p \in DOMAIN streams /\ k \in DOMAIN streams[p].members
      /\ streams[p].members[k] = At(es, i).of

AllSmallReadable(es) == \A i \in Live(es) : At(es, i).kind = "small" => InPack(es, i)

\* Opened again at any moment outside a flush, the store has every small
\* object it lists, in a pack it lists too (`compact` takes the pack's id as
\* an entry's), unless a flush was cut.
SmallReadable ==
  "flush cut" \notin events /\ busy # "flush" => AllSmallReadable(Opened)

\* Outside the operation that a kill may leave half done, and until one was, every
\* object the store would open with can be read.
OpensReadable == LargeReadable /\ SmallReadable

Indexed(id, e) == \E k \in 1..Len(index) : ~index[k].delete /\ index[k].id = id /\ index[k].entry.of = e.of

\* A kill loses no object whose line was written, and gives its id to no
\* other, unless a deletion's line outlived the open pack its object was in;
\* a rebase under way may be undone.
KeptByKill ==
  [][kills' # kills /\ "open deletion" \notin events =>
       \A i \in Live(entries) :
         Indexed(i, At(entries, i)) =>
           /\ i \in Live(entries')
           /\ At(entries', i).of = At(entries, i).of
           /\ busy # "rebase" => At(entries', i) = At(entries, i)]_vars

-----------------------------------------------------------------------------
(* What the source promises without the exceptions above.                  *)

\* Of rebase: "Its dependants keep working (their chains still run through
\* it)", also when the process is killed inside it.
LargeAlwaysReadable ==
  busy # "rebase" => AllLargeReadable(Opened)

\* "An id never written (a small object whose store died before its flush) is
\* lost": no object is listed live without the pack that holds it.
SmallAlwaysReadable ==
  busy # "flush" => AllSmallReadable(Opened)

\* Only an id never written is lost: what the index has stays.
AlwaysKeptByKill ==
  [][kills' # kills => \A i \in Live(entries) :
       Indexed(i, At(entries, i)) => i \in Live(entries')]_vars

\* "Every object's index lines ride beside it", a pack's with its members'.
SidecarsHaveMembers ==
  Idle => \A i \in Live(entries) : At(entries, i).kind = "small" /\ At(entries, i).pack # Open =>
    i \in Ids(Rebuilt) /\ At(Rebuilt, i).of = At(entries, i).of

\* What is deleted stays deleted when the metadata directory is lost.
DeletionsRebuilt ==
  Idle => \A i \in Ids(entries) : At(entries, i).deleted /\ i \in Ids(Rebuilt) => At(Rebuilt, i).deleted

=============================================================================
