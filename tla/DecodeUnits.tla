---------------------------- MODULE DecodeUnits -----------------------------
(***************************************************************************)
(* decode_units_to of src/src/lib.rs with a sink: workers take units from  *)
(* a counter (par_units) and decode them; the worker that is done with one *)
(* calls the sink, under a lock, with every decoded unit that is due.      *)
(***************************************************************************)
EXTENDS Naturals, Sequences

CONSTANTS
  Worker,  \* threads of par_units, the caller's among them
  N,       \* units
  Nobody

\* The caller is one of them.
DecodeUnitsAssumption == N \in Nat \ {0} /\ Worker # {} /\ Nobody \notin Worker

VARIABLES
  next,      \* par_units' counter
  stop,      \* par_units' flag: a unit returned an error
  at,        \* where each worker is
  unit,      \* the unit it is at
  lock,      \* the worker that holds `order`'s lock
  due,       \* the next unit to hand to the sink
  decoded,   \* the units marked decoded
  failed,    \* the flag a failed unit sets
  io_error,  \* whether the sink failed
  handed,    \* the units the sink was called with
  ended      \* how the call returned

vars == <<next, stop, at, unit, lock, due, decoded, failed, io_error, handed, ended>>

Exhausted == next > N

Take(w) ==
  /\ at[w] = "take"
  /\ next' = next + 1
  /\ unit' = [unit EXCEPT ![w] = next]
  /\ at' = [at EXCEPT ![w] = IF Exhausted \/ stop THEN "returned" ELSE "decode"]
  /\ UNCHANGED <<stop, lock, due, decoded, failed, io_error, handed, ended>>

\* A block may be refused, or its checksum differ.
Decode(w) ==
  /\ at[w] = "decode"
  /\ at' \in {[at EXCEPT ![w] = "lock"], [at EXCEPT ![w] = "failing"]}
  /\ UNCHANGED <<next, stop, unit, lock, due, decoded, failed, io_error, handed, ended>>

Lock(w) ==
  /\ at[w] = "lock" /\ lock = Nobody
  /\ lock' = w
  /\ decoded' = decoded \cup {unit[w]}
  /\ at' = [at EXCEPT ![w] = "hand"]
  /\ UNCHANGED <<next, stop, unit, due, failed, io_error, handed, ended>>

Due == due \in decoded /\ ~failed

\* The unit is passed over before the sink's answer is looked at.
Hand(w) ==
  /\ at[w] = "hand" /\ Due
  /\ handed' = Append(handed, due)
  /\ due' = due + 1
  /\ \/ UNCHANGED <<at, lock, io_error>>
     \/ io_error' = TRUE /\ lock' = Nobody /\ at' = [at EXCEPT ![w] = "failing"]
  /\ UNCHANGED <<next, stop, unit, decoded, failed, ended>>

Unlock(w) ==
  /\ at[w] = "hand" /\ ~Due
  /\ lock' = Nobody
  /\ at' = [at EXCEPT ![w] = "take"]
  /\ UNCHANGED <<next, stop, unit, due, decoded, failed, io_error, handed, ended>>

Fail(w) ==
  /\ at[w] = "failing"
  /\ failed' = TRUE
  /\ at' = [at EXCEPT ![w] = "stopping"]
  /\ UNCHANGED <<next, stop, unit, lock, due, decoded, io_error, handed, ended>>

Stop(w) ==
  /\ at[w] = "stopping"
  /\ stop' = TRUE
  /\ at' = [at EXCEPT ![w] = "returned"]
  /\ UNCHANGED <<next, unit, lock, due, decoded, failed, io_error, handed, ended>>

Work(w) == Take(w) \/ Decode(w) \/ Lock(w) \/ Hand(w) \/ Unlock(w) \/ Fail(w) \/ Stop(w)

\* The workers are joined: an error of the sink comes before one of a unit.
End ==
  /\ ended = "no"
  /\ \A w \in Worker : at[w] = "returned"
  /\ ended' = IF io_error \/ stop THEN "err" ELSE "ok"
  /\ UNCHANGED <<next, stop, at, unit, lock, due, decoded, failed, io_error, handed>>

Init ==
  /\ next = 1 /\ stop = FALSE /\ at = [w \in Worker |-> "take"] /\ unit = [w \in Worker |-> 0]
  /\ lock = Nobody /\ due = 1 /\ decoded = {} /\ failed = FALSE /\ io_error = FALSE
  /\ handed = <<>> /\ ended = "no"

Next == (\E w \in Worker : Work(w)) \/ End

Fairness == (\A w \in Worker : WF_vars(Work(w))) /\ WF_vars(End)

Spec == Init /\ [][Next]_vars /\ Fairness

-----------------------------------------------------------------------------
(* Properties.                                                             *)

\* decode_units_to implements what is promised of its sink.
Ordered == INSTANCE OrderedSink
ImplementsOrdered == Ordered!Spec

\* "Without it a flipped byte in one unit hung the decoder": it returns,
\* whichever units and calls of the sink fail.
Ends == <>(ended # "no")

=============================================================================
