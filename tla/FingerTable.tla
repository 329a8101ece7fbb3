---------------------------- MODULE FingerTable ----------------------------
(***************************************************************************)
(* The fingerprint table of src/glyd-store/src/lib.rs (struct Table): open *)
(* addressing with linear probing in a mapped file, HOLDERS holders a      *)
(* fingerprint, twice the slots when it is half full.                      *)
(***************************************************************************)
EXTENDS Naturals, Sequences, FiniteSets

CONSTANTS
  HOLDERS,    \* holders of one fingerprint the table keeps
  FirstCap,   \* slots of a new table
  Hashes,     \* fingerprints
  MaxIds,     \* bound: objects put
  MaxInserts, \* bound: fingerprints inserted
  Empty       \* an unused slot (id u32::MAX)

Holder == [hash : Hashes, id : 0..(MaxIds - 1)]

\* A table's slots are a power of two, and more than one: here an even number.
TableAssumption ==
  /\ HOLDERS \in Nat \ {0}
  /\ FirstCap \in Nat \ {0} /\ FirstCap % 2 = 0
  /\ Hashes \subseteq Nat /\ MaxIds \in Nat \ {0} /\ MaxInserts \in Nat
  /\ Empty \notin Holder

VARIABLES
  slots,     \* the mapped slots
  count,     \* slots in use, as the process counts them
  header,    \* the count in the file's header
  id,        \* the object being put
  indexed,   \* ids the store's index had when it was opened
  inserts,   \* fingerprints inserted so far
  lost       \* history: a kill has made the count low

vars == <<slots, count, header, id, indexed, inserts, lost>>

Capacity(t) == Cardinality(DOMAIN t)
Fresh(n) == [i \in 0..(n - 1) |-> Empty]
Used(t) == {i \in DOMAIN t : t[i] # Empty}

-----------------------------------------------------------------------------
(* Probing: from a fingerprint's home slot, one slot after another, round  *)
(* the end of the table, to the first that is empty; in a full table the   *)
(* code goes round for ever, and here Length is the whole round.           *)

Slot(t, h, d) == (h + d) % Capacity(t)
Length(t, h) ==
  CHOOSE d \in 0..Capacity(t) :
    /\ d = Capacity(t) \/ t[Slot(t, h, d)] = Empty
    /\ \A e \in 0..(d - 1) : t[Slot(t, h, e)] # Empty

\* How far along its probe the holders of h are.
Holding(t, h) == {d \in 0..(Length(t, h) - 1) : t[Slot(t, h, d)].hash = h}

\* Distances of S in the order of their holders' ids, of equal ids the nearest first: the k-th
\* is the one with k - 1 before it.
Before(t, h, d, e) ==
  LET x == t[Slot(t, h, d)].id
      y == t[Slot(t, h, e)].id
  IN  x < y \/ (x = y /\ d < e)
Rank(t, h, S, d) == Cardinality({e \in S : Before(t, h, e, d)})
ById(t, h, S) ==
  [k \in 1..Cardinality(S) |-> CHOOSE d \in S : Rank(t, h, S, d) = k - 1]

\* `lookup`: the holders of h, here in the order of their ids.
Lookup(t, h) ==
  LET byId == ById(t, h, Holding(t, h))
  IN  [k \in DOMAIN byId |-> t[Slot(t, h, byId[k])].id]

\* The holder replaced: the lowest id, the first of it that the probe meets.
Oldest_last(t, h) ==
  LET byId == ById(t, h, Holding(t, h)) IN Slot(t, h, byId[Len(byId)])
Oldest(t, h) == Slot(t, h, ById(t, h, Holding(t, h))[1])

-----------------------------------------------------------------------------
(* Insertion.                                                              *)

\* What an insertion without growth makes of the slots and the count.
Set(t, n, h, x) ==
  IF Cardinality(Holding(t, h)) >= HOLDERS
  THEN [slots |-> [t EXCEPT ![Oldest(t, h)] = [hash |-> h, id |-> x]], count |-> n]
  ELSE [slots |-> [t EXCEPT ![Slot(t, h, Length(t, h))] = [hash |-> h, id |-> x]],
        count |-> n + 1]

\* `grow`: twice the slots, the holders re-inserted in the order of their ids; here the fresh
\* table after each of them.
Reinserted(t) ==
  LET byId == ById(t, 0, Used(t))
      fresh[k \in 0..Cardinality(Used(t))] ==
        IF k = 0 THEN [slots |-> Fresh(2 * Capacity(t)), count |-> 0]
        ELSE LET s == fresh[k - 1]
                 x == t[byId[k]]
             IN  Set(s.slots, s.count, x.hash, x.id)
  IN  fresh
Grow(t) == Reinserted(t)[Cardinality(Used(t))]

Full_late(t, n) == n >= Capacity(t)
Full(t, n) == n * 2 >= Capacity(t)

\* A probe ends where a slot is empty: on a full table that the count does
\* not make grow, `insert` does not return.
insert(h) ==
  /\ inserts < MaxInserts
  /\ Full(slots, count) \/ Used(slots) # DOMAIN slots
  /\ LET grown == IF Full(slots, count) THEN Grow(slots) ELSE [slots |-> slots, count |-> count]
         set   == Set(grown.slots, grown.count, h, id)
     IN  /\ slots' = set.slots
         /\ count' = set.count
         /\ header' = IF Full(slots, count) THEN grown.count ELSE header
  /\ inserts' = inserts + 1
  /\ UNCHANGED <<id, indexed, lost>>

\* The next object's fingerprints.
NextObject ==
  /\ id + 1 < MaxIds
  /\ id' = id + 1
  /\ UNCHANGED <<slots, count, header, indexed, inserts, lost>>

\* `flush` ends with it, and a store is flushed when it is dropped.
sync ==
  /\ header' = count
  /\ UNCHANGED <<slots, count, id, indexed, inserts, lost>>

\* The process is killed and the store opened again: the mapped slots are
\* the file's, the count is the header's, and the next id is the one after
\* the last line that had reached the index, whatever ids the slots have.
\* The lines of an index only get more.
Kill ==
  /\ count' = header
  /\ lost' = (lost \/ header < count)
  /\ indexed' \in indexed..(id + 1) /\ indexed' < MaxIds
  /\ id' = indexed'
  /\ UNCHANGED <<slots, header, inserts>>

Init ==
  /\ slots = Fresh(FirstCap) /\ count = 0 /\ header = 0
  /\ id = 0 /\ indexed = 0 /\ inserts = 0 /\ lost = FALSE

Next == (\E h \in Hashes : insert(h)) \/ NextObject \/ sync \/ Kill

Spec == Init /\ [][Next]_vars

-----------------------------------------------------------------------------
(* Properties.                                                             *)

\* "At most half full, so probe runs stay short": and so that they end.
AlwaysHalfFull == 2 * Cardinality(Used(slots)) <= Capacity(slots)

\* It holds until a kill loses a part of the count, and through kills that
\* follow a sync or a growth.
HalfFull == lost \/ AlwaysHalfFull

\* No slot of a fingerprint is beyond the empty slot its probe stops at,
\* after a kill or without, in a table that is half full or fuller.
NoneStranded ==
  \A i \in Used(slots) : LET h == slots[i].hash IN \E d \in Holding(slots, h) : Slot(slots, h, d) = i

\* A probe ends, and passes every slot of its fingerprint before it does.
ProbesSound == HalfFull /\ NoneStranded

Abstract == INSTANCE Holders WITH held <- [h \in Hashes |-> Lookup(slots, h)]

\* The table implements Holders, through growth, the wrap of its probes and
\* the kills: those lose a part of the count, and not a holder, but let ids
\* that the slots have be given to other objects.
ImplementsHolders == Abstract!Spec

=============================================================================
