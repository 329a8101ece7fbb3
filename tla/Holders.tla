------------------------------ MODULE Holders ------------------------------
(***************************************************************************)
(* What the fingerprint table promises: HOLDERS holders of a fingerprint,  *)
(* in the order of their ids, the lowest replaced.  While ids only grow    *)
(* they are the last ones put and the oldest is replaced; a kill gives ids *)
(* again that the table already has, and then the lowest id may be that of *)
(* a newer object than the others.                                         *)
(***************************************************************************)
EXTENDS Naturals, Sequences

CONSTANTS HOLDERS, Hashes, MaxIds
VARIABLE held    \* the holders of each fingerprint, lowest id first

Init == held = [h \in Hashes |-> <<>>]

Kept(q) == IF Len(q) < HOLDERS THEN q ELSE Tail(q)

\* q with x after its first k.
Between(q, k, x) ==
  [i \in 1..(Len(q) + 1) |-> IF i <= k THEN q[i] ELSE IF i = k + 1 THEN x ELSE q[i - 1]]

Hold(h, id) ==
  LET kept == Kept(held[h])
  IN  \E k \in 0..Len(kept) :
        /\ \A i \in 1..k : kept[i] <= id
        /\ \A i \in (k + 1)..Len(kept) : id < kept[i]
        /\ held' = [held EXCEPT ![h] = Between(kept, k, id)]

Next == \E h \in Hashes, id \in 0..(MaxIds - 1) : Hold(h, id)

Spec == Init /\ [][Next]_held
=============================================================================
