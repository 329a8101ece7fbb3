------------------------------- MODULE Names -------------------------------
(***************************************************************************)
(* The names of a store's objects (Store::names and id_of in               *)
(* src/glyd-store/src/lib.rs): set by a put, dropped by a delete, made     *)
(* again from the entries when the store is opened.                        *)
(***************************************************************************)
EXTENDS Naturals, Sequences

CONSTANTS
  Name,      \* the names objects are put under
  PackName,  \* one of the form "pack of N", which flush gives a pack
  WriteFails, \* whether the writer may fail, and large puts with it
  MaxLen,    \* bound: entries
  None

NamesAssumption ==
  PackName \in Name /\ WriteFails \in BOOLEAN /\ MaxLen \in Nat /\ None \notin Nat

VARIABLES
  entries,  \* name, whether it is a pack's, and deletion of each entry
  names,    \* "The latest id under each name": None where there is none
  failed    \* whether the writer has failed

vars == <<entries, names, failed>>

Object(n) == [name |-> n, pack |-> FALSE, deleted |-> FALSE]
Ids == 0..(Len(entries) - 1)
At(es, i) == es[i + 1]

Under(n) == Len(entries)

put ==
  /\ Len(entries) < MaxLen
  /\ \E n \in Name :
       /\ names' = [names EXCEPT ![n] = Under(n)]
       /\ entries' = Append(entries, Object(n))
  /\ UNCHANGED failed

\* The name is set, then the job refused: no entry takes the id.
put_fails ==
  /\ WriteFails
  /\ Len(entries) < MaxLen
  /\ \E n \in Name : names' = [names EXCEPT ![n] = Under(n)]
  /\ failed' = TRUE
  /\ UNCHANGED entries

\* A pack's entry takes an id and no name.
flush ==
  /\ ~failed
  /\ Len(entries) < MaxLen
  /\ \E i \in Ids : ~At(entries, i).pack
  /\ entries' = Append(entries, [name |-> PackName, pack |-> TRUE, deleted |-> FALSE])
  /\ UNCHANGED <<names, failed>>

Forget_not(n, i) == names[n]
Forget(n, i) == IF names[n] = i THEN None ELSE names[n]

delete ==
  /\ ~failed
  /\ \E i \in Ids :
       /\ ~At(entries, i).deleted
       /\ entries' = [entries EXCEPT ![i + 1].deleted = TRUE]
       /\ names' = [names EXCEPT ![At(entries, i).name] = Forget(At(entries, i).name, i)]
  /\ UNCHANGED failed

\* The live entries in the order of their ids, those named as a pack is left
\* out: the last under a name has it.
Opened ==
  [n \in Name |->
     LET live == {i \in Ids : /\ At(entries, i).name = n /\ n # PackName
                              /\ ~At(entries, i).deleted}
     IN  IF live = {} THEN None ELSE CHOOSE i \in live : \A j \in live : j <= i]

\* The store closed and opened again, its entries all written (what a failed
\* writer or a kill loses of them is Durable's question).
open == ~failed /\ names' = Opened /\ UNCHANGED <<entries, failed>>

Init == entries = <<>> /\ names = [n \in Name |-> None] /\ failed = FALSE

Next == put \/ put_fails \/ flush \/ delete \/ open

Spec == Init /\ [][Next]_vars

-----------------------------------------------------------------------------
(* Properties.                                                             *)

LiveUnder(n) ==
  {i \in Ids : At(entries, i).name = n /\ ~At(entries, i).deleted /\ ~At(entries, i).pack}

Latest(n) == names[n] \in LiveUnder(n) /\ \A i \in LiveUnder(n) : i <= names[n]

\* What id_of gives is live, has the name, and no later live object has it,
\* until a put fails.
NameIsLatest == ~failed => \A n \in Name : names[n] # None => Latest(n)

\* "The latest live object put under `name`", whether or not a put failed.
NameIsLive == \A n \in Name : names[n] # None => Latest(n)

\* "The latest live object put under `name`": there is one when there is one.
LatestIsNamed == \A n \in Name \ {PackName} : LiveUnder(n) # {} => names[n] # None

\* The same, of a store opened again, for every name.
OpenedIsNamed == \A n \in Name : LiveUnder(n) # {} => Opened[n] # None

=============================================================================
