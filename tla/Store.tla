------------------------------- MODULE Store -------------------------------
(***************************************************************************)
(* The object store of src/glyd-store/src/lib.rs within one session: the   *)
(* entries in memory, the streams in the backend, the jobs on their way to *)
(* it, and the open pack.                                                  *)
(*                                                                         *)
(* The bytes of an object are named by the id its put was given, so a      *)
(* stream is fully described by whose content it holds and the base it was *)
(* encoded against.  Compressed sizes, fingerprints and the trials on a    *)
(* sample only decide which base is taken: every outcome they allow is a   *)
(* choice (\E) here.  Crashes and failed writes are in module Durable.     *)
(***************************************************************************)
EXTENDS Naturals, Sequences, FiniteSets

CONSTANTS
  MAX_DEPTH,      \* chains are at most this deep
  PACK_OBJECTS,   \* small objects that make a pack of PACK_SIZE
  CHANNEL,        \* jobs the writer's channel holds beside the one it writes
  MaxLen,         \* bound: entries a run may create
  MaxSmall,       \* bound: small objects among the entries
  None,           \* no base, not in a pack
  Open            \* pack id u32::MAX: still in the open pack

\* `lift` puts a head at depth 2 or less, which must be under the cap.
ASSUME DepthAssumption == MAX_DEPTH \in Nat /\ MAX_DEPTH > 2
ASSUME PackAssumption == PACK_OBJECTS \in Nat \ {0}
ASSUME ChannelAssumption == CHANNEL \in Nat
ASSUME LenAssumption == MaxLen \in Nat
ASSUME NoneAssumption == None \notin Nat /\ Open \notin Nat /\ None # Open

VARIABLES
  len,      \* entries.len()
  entries,  \* Vec<Entry>, ids from 0
  disk,     \* the backend's streams, by id
  queue,    \* jobs sent to the writer and not yet written: the base each
            \* stream was taken against, by id (ids rise, so lowest is first)
  pending   \* small objects waiting for their pack, in put order

vars == <<len, entries, disk, queue, pending>>

Ids == 0..(len - 1)

Large(b, d, f) ==
  [kind |-> "large", base |-> b, depth |-> d, family |-> f,
   pack |-> None, at |-> 0, deleted |-> FALSE]
Small_guess(id, at) ==
  [kind |-> "small", base |-> None, depth |-> 0, family |-> id,
   pack |-> id + 1, at |-> at, deleted |-> FALSE]
Small(id, at) ==
  [kind |-> "small", base |-> None, depth |-> 0, family |-> id,
   pack |-> Open, at |-> at, deleted |-> FALSE]
Pack(id) ==
  [kind |-> "pack", base |-> None, depth |-> 0, family |-> id,
   pack |-> None, at |-> 0, deleted |-> FALSE]

\* A stream: the object whose bytes it decodes to, the base it was taken
\* against, and for a pack the members in order.
Stream(id, b) == [of |-> id, base |-> b, members |-> <<>>]
PackStream(id, ms) == [of |-> id, base |-> None, members |-> ms]

-----------------------------------------------------------------------------
(* The operators below take the entries (es) and the streams (d) they work *)
(* on: a put lifts, then chooses, then adds.  A definition whose name ends *)
(* in _ and a word is a mistake the code could have made; PROJECT.json     *)
(* lists, for each property, one that breaks it.                           *)

\* Where the bases lead from each entry, itself included.
Chains(es) ==
  LET chain[i \in DOMAIN es] ==
        {i} \cup IF es[i].base = None THEN {} ELSE chain[es[i].base]
  IN  chain

ChainOf(es, id) == Chains(es)[id]
ChainsOf(es, S) == UNION {ChainOf(es, i) : i \in S}

Live(es) == {i \in DOMAIN es : ~es[i].deleted}
LiveLarge(es) == {i \in Live(es) : es[i].kind = "large"}
LiveSmall(es) == {i \in Live(es) : es[i].kind = "small"}

root_of(es, id) == CHOOSE r \in ChainOf(es, id) : es[r].base = None

within_cap_late(es, id) == IF es[id].depth <= MAX_DEPTH THEN id ELSE es[id].family

within_cap(es, id) ==
  IF es[id].depth < MAX_DEPTH THEN id
  ELSE IF es[es[id].family].depth < MAX_DEPTH THEN es[id].family
  ELSE root_of(es, id)

\* `fetch` decodes id: its chain is no longer than the cap, every stream of
\* it is there, and each was encoded against the base its entry names.
fetch_ok(es, d, id) ==
  /\ Cardinality(ChainOf(es, id)) <= MAX_DEPTH + 1
  /\ \A c \in ChainOf(es, id) : c \in DOMAIN d /\ d[c].base = es[c].base

DepthOver_same(es, b) == IF b = None THEN 0 ELSE es[b].depth

DepthOver(es, b) == IF b = None THEN 0 ELSE es[b].depth + 1

\* entries.push(e)
Push(es, n, e) == [i \in 0..n |-> IF i = n THEN e ELSE es[i]]

\* The family heads `put` lifts for its candidates: at the cap themselves,
\* the candidate too, and not deleted.
HeadsToLift(es, scored) ==
  {h \in LiveLarge(es) :
     /\ es[h].depth >= MAX_DEPTH
     /\ \E c \in scored : es[c].depth >= MAX_DEPTH /\ es[c].family = h}

LiftBases_any(es, h) == {None} \cup {a \in Live(es) : a < h /\ es[a].depth <= 1}

\* What `lift` may store h against: nothing, or the first object up its
\* chain at depth 1 or 0, when that one is live.
LiftBases(es, h) ==
  LET above == {a \in ChainOf(es, h) \ {h} : es[a].depth <= 1}
  IN  {None} \cup {a \in above : /\ ~es[a].deleted
                                 /\ \A b \in above : es[b].depth <= es[a].depth}

\* The heads stored again, each against to[h].  A head at the cap is nobody's
\* base (CapHasNoVersions), so lifting two at once is lifting one, then the
\* other.
lift(es, to) ==
  [i \in DOMAIN es |->
     IF i \in DOMAIN to
     THEN [es[i] EXCEPT !.base = to[i], !.depth = DepthOver(es, to[i])]
     ELSE es[i]]

LiftedDisk(d, to) ==
  [i \in DOMAIN d \cup DOMAIN to |-> IF i \in DOMAIN to THEN Stream(i, to[i]) ELSE d[i]]

\* The pack of the objects ms, written as object n: its members' entries get
\* its id and their place.
Packed(es, n, ms) ==
  [i \in 0..n |->
     IF i = n THEN Pack(n)
     ELSE IF \E k \in 1..Len(ms) : ms[k] = i
          THEN [es[i] EXCEPT !.pack = n, !.at = CHOOSE k \in 1..Len(ms) : ms[k] = i]
          ELSE es[i]]

WithPack(d, n, ms) ==
  [i \in DOMAIN d \cup {n} |-> IF i = n THEN PackStream(n, ms) ELSE d[i]]

Needed_alone(es) ==
  LiveLarge(es) \cup {p \in DOMAIN es : \E i \in Live(es) : es[i].pack = p}
Needed_unpacked(es) == ChainsOf(es, {i \in Live(es) : es[i].pack # Open})

\* What some live object needs: its chain, and its pack.
Needed(es) ==
  ChainsOf(es, {i \in Live(es) : es[i].pack # Open})
    \cup {p \in DOMAIN es : \E i \in Live(es) : es[i].pack = p}

-----------------------------------------------------------------------------
(* Operations.                                                             *)

wait_all_skipped == TRUE

\* The operations that rewrite or remove a stream wait for the writer: a job
\* still queued would put the old stream back.
wait_all == DOMAIN queue = {}
Written(S) == S \cap DOMAIN queue = {}     \* wait_for each id of S

\* A large object against one of the bases fetched, or alone.  `version`:
\* the best candidate holds FAMILY_SHARE of it.
PushLarge(es, fetched) ==
  /\ Cardinality(DOMAIN queue) <= CHANNEL
  /\ \E b \in fetched \cup {None}, version \in BOOLEAN :
       /\ entries' = Push(es, len,
                          Large(b, DepthOver(es, b),
                                IF b # None /\ version THEN es[b].family ELSE len))
       /\ queue' = [i \in DOMAIN queue \cup {len} |-> IF i = len THEN b ELSE queue[i]]
  /\ len' = len + 1

\* One or two live candidates (or none), their heads lifted where needed, the
\* bases fetched (the second only when there is a choice to try).  A base that
\* cannot be fetched ends the put with an error, the lift done.
PutWith(scored, to) ==
  LET es == lift(entries, to)
      d  == LiftedDisk(disk, to)
      cands == {within_cap(es, c) : c \in scored}
  IN /\ len < MaxLen
     /\ \A h \in DOMAIN to : to[h] \in LiftBases(entries, h)
     /\ DOMAIN to # {} => wait_all
     /\ disk' = d
     /\ \E fetched \in SUBSET cands :
          /\ cands # {} => fetched # {}
          /\ Written(ChainsOf(es, fetched))
          /\ \/ /\ \A b \in fetched : fetch_ok(es, d, b)
                /\ PushLarge(es, fetched)
             \/ /\ \E b \in fetched : ~fetch_ok(es, d, b)
                /\ entries' = es
                /\ UNCHANGED <<len, queue>>
     /\ UNCHANGED pending

PutLarge ==
  \E scored \in {S \in SUBSET LiveLarge(entries) : Cardinality(S) <= 2} :
    \E to \in [HeadsToLift(entries, scored) -> {None} \cup Ids] : PutWith(scored, to)

\* The writer's thread: the object, its sidecar and its index line.
WriterStep ==
  \E id \in DOMAIN queue :
    /\ \A j \in DOMAIN queue : id <= j
    /\ disk' = [i \in DOMAIN disk \cup {id} |->
                  IF i = id THEN Stream(id, queue[id]) ELSE disk[i]]
    /\ queue' = [i \in DOMAIN queue \ {id} |-> queue[i]]
    /\ UNCHANGED <<len, entries, pending>>

\* A small object into the open pack, which is written when it is full.
PutSmall ==
  LET es == Push(entries, len, Small(len, Len(pending) + 1))
      ms == Append(pending, len)
  IN /\ len + 1 < MaxLen
     /\ \/ /\ Len(ms) < PACK_OBJECTS
           /\ entries' = es
           /\ pending' = ms
           /\ len' = len + 1
           /\ UNCHANGED disk
        \/ /\ Len(ms) >= PACK_OBJECTS
           /\ wait_all
           /\ entries' = Packed(es, len + 1, ms)
           /\ disk' = WithPack(disk, len + 1, ms)
           /\ pending' = <<>>
           /\ len' = len + 2
     /\ UNCHANGED queue

flush ==
  /\ wait_all
  /\ pending # <<>>
  /\ len < MaxLen
  /\ entries' = Packed(entries, len, pending)
  /\ disk' = WithPack(disk, len, pending)
  /\ pending' = <<>>
  /\ len' = len + 1
  /\ UNCHANGED queue

delete ==
  /\ wait_all
  /\ \E id \in Live(entries) : entries' = [entries EXCEPT ![id].deleted = TRUE]
  /\ UNCHANGED <<len, disk, queue, pending>>

compact ==
  /\ wait_all
  /\ disk' = [i \in {j \in DOMAIN disk : j \in Needed(entries) \/ entries[j].pack # None}
                |-> disk[i]]
  /\ UNCHANGED <<len, entries, queue, pending>>

\* Stored again alone; whatever is a delta on it keeps its depth and family.
rebase ==
  /\ wait_all
  /\ \E id \in LiveLarge(entries) :
       /\ entries[id].base # None
       /\ fetch_ok(entries, disk, id)
       /\ entries' = [entries EXCEPT ![id] = [@ EXCEPT !.base = None, !.depth = 0, !.family = id]]
       /\ disk' = [disk EXCEPT ![id] = Stream(id, None)]
  /\ UNCHANGED <<len, queue, pending>>

Init ==
  /\ len = 0
  /\ entries = [i \in Ids |-> Pack(i)]
  /\ disk = [i \in {} |-> Stream(i, None)]
  /\ queue = [i \in {} |-> None]
  /\ pending = <<>>

Next == PutLarge \/ PutSmall \/ flush \/ delete \/ compact \/ rebase \/ WriterStep

Spec == Init /\ [][Next]_vars

\* What the runs constrain states to.
FewSmall == Cardinality({i \in Ids : entries[i].kind = "small"}) <= MaxSmall

-----------------------------------------------------------------------------
(* Properties.                                                             *)

Entry(n) ==
  [kind : {"large", "small", "pack"}, base : 0..(n - 1) \cup {None}, depth : Nat,
   family : 0..(n - 1), pack : 0..(n - 1) \cup {None, Open}, at : Nat, deleted : BOOLEAN]

\* The values the state takes; every id the entries, the backend and the
\* writer name is an entry's.
TypeOK ==
  /\ len \in 0..MaxLen
  /\ entries \in [Ids -> Entry(len)]
  /\ DOMAIN disk \subseteq Ids
  /\ \A i \in DOMAIN disk :
       disk[i] \in [of : Ids, base : Ids \cup {None}, members : Seq(Ids)]
  /\ DOMAIN queue \subseteq Ids
  /\ \A i \in DOMAIN queue : queue[i] \in Ids \cup {None}
  /\ pending \in Seq(Ids)

\* A base is an earlier, strictly shallower large object, through every lift
\* and rebase (which leave the depths above them stale): chains end, and the
\* check in `fetch` that a chain is within the cap never fires.
DepthsDecrease ==
  \A i \in Ids :
    /\ entries[i].depth <= MAX_DEPTH
    /\ entries[i].base # None =>
      /\ entries[i].base < i
      /\ entries[entries[i].base].kind = "large"
      /\ entries[entries[i].base].depth < entries[i].depth

\* The comment on `lift`: an object at the cap has no versions under it, so
\* storing it again changes no other object.
CapHasNoVersions ==
  \A i \in Ids : entries[i].depth >= MAX_DEPTH => \A j \in Ids : entries[j].base # i

\* A stream is there or on its way, and is what its entry says it is.
StreamThere(i) ==
  \/ i \in DOMAIN queue /\ queue[i] = entries[i].base
  \/ /\ i \in DOMAIN disk \ DOMAIN queue
     /\ disk[i].of = i
     /\ disk[i].base = entries[i].base

\* The chain of every live large object can be read: compact keeps what a
\* chain runs through, and lift and rebase leave the streams of the objects
\* on them decodable.
LiveReadable ==
  \A i \in LiveLarge(entries) :
    /\ Cardinality(ChainOf(entries, i)) <= MAX_DEPTH + 1
    /\ \A c \in ChainOf(entries, i) : StreamThere(c)

\* A live small object is in the open pack, or its pack is stored and holds
\* it at its place.
LiveInPack ==
  \A i \in LiveSmall(entries) :
    LET p == entries[i].pack
        k == entries[i].at
    IN \/ /\ p = Open
          /\ \E j \in 1..Len(pending) : pending[j] = i
       \/ /\ p \in DOMAIN disk
          /\ k \in 1..Len(disk[p].members)
          /\ disk[p].members[k] = i

\* A read of a large object never comes to need an object it did not need
\* before: lift and rebase only shorten chains.
ChainsOnlyShrink ==
  [][\A i \in Ids : ChainOf(entries', i) \subseteq ChainOf(entries, i)]_vars

\* The comment on `put`: a large object is stored "as a delta against the
\* stored object it most resembles when that pays, else alone".  So the base
\* a live candidate sends a put to (no head to lift) has its streams.
CandidatesStored ==
  \A c \in LiveLarge(entries) :
    HeadsToLift(entries, {c}) = {} =>
      \A b \in ChainOf(entries, within_cap(entries, c)) : StreamThere(b)

\* The comment on `compact`: it removes "packs whose members are all deleted".
PacksFreed ==
  [][compact => \A p \in DOMAIN disk' :
       entries[p].kind = "pack" => \E i \in Live(entries) : entries[i].pack = p]_vars

\* What a read of live object i returns, once the writer is through: the
\* object, or None when the read fails.
Read(i) ==
  IF entries[i].kind = "large"
  THEN IF \A c \in ChainOf(entries, i) : StreamThere(c) THEN i ELSE None
  ELSE IF entries[i].pack = Open
       THEN IF \E j \in 1..Len(pending) : pending[j] = i THEN i ELSE None
       ELSE IF /\ entries[i].pack \in DOMAIN disk
               /\ entries[i].at \in 1..Len(disk[entries[i].pack].members)
            THEN disk[entries[i].pack].members[entries[i].at] ELSE None

LiveUser == LiveLarge(entries) \cup LiveSmall(entries)

Abstract == INSTANCE ObjectStore WITH
  objects <- [i \in LiveUser |-> Read(i)],
  gone <- {i \in Ids : entries[i].deleted /\ entries[i].kind # "pack"}

\* The store implements what it promises: no step but a put or a delete
\* changes what any read returns.
ImplementsObjectStore == Abstract!Spec

=============================================================================
