---------------------------- MODULE ObjectStore ----------------------------
(***************************************************************************)
(* What the store promises its user: an object put is read back as it was  *)
(* put until it is deleted, and an id never names another object.  Packs,  *)
(* bases, lifting, rebasing, compaction and the writer's thread are not    *)
(* seen.                                                                   *)
(***************************************************************************)
EXTENDS Naturals

CONSTANT MaxLen    \* bound: ids a run may use

VARIABLES
  objects,   \* what a read of each live object returns, by id
  gone       \* ids deleted

Init == objects = [i \in {} |-> i] /\ gone = {}

\* The content put is named by the id it is given.
Put(id) ==
  /\ id \notin DOMAIN objects \cup gone
  /\ objects' = [i \in DOMAIN objects \cup {id} |-> IF i = id THEN id ELSE objects[i]]
  /\ UNCHANGED gone

Delete(id) ==
  /\ id \in DOMAIN objects
  /\ objects' = [i \in DOMAIN objects \ {id} |-> objects[i]]
  /\ gone' = gone \cup {id}

Next == \E id \in 0..(MaxLen - 1) : Put(id) \/ Delete(id)

Spec == Init /\ [][Next]_<<objects, gone>>
=============================================================================
