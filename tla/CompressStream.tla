--------------------------- MODULE CompressStream ---------------------------
(***************************************************************************)
(* compress_stream and compress_max_stream of src/src/lib.rs: workers take *)
(* tasks from a counter (par_units) and put each unit's output in its      *)
(* slot; a writer thread takes the slots in order and calls the sink,      *)
(* sleeping on a condition variable when its slot is empty.                *)
(*                                                                         *)
(* Far is 0 in compress_stream.  In compress_max_stream the first Far      *)
(* tasks find a large unit's far matches, behind a OnceLock each, which    *)
(* the stripes of the unit (its outputs here) need.  The count that `done` *)
(* guards is read by nobody and is left out.                               *)
(***************************************************************************)
EXTENDS Naturals, Sequences

CONSTANTS
  Worker,   \* threads of par_units, the caller's among them
  N,        \* outputs
  Far,      \* far passes
  Needs,    \* the far pass an output needs: 0 for none
  Nobody

CompressStreamAssumption ==
  /\ N \in Nat \ {0} /\ Far \in Nat /\ Needs \in [1..N -> 0..Far]
  /\ Nobody \notin Worker

VARIABLES
  next,     \* par_units' counter
  at,       \* where each worker is
  task,     \* the task it is at
  once,     \* each far pass: "unset", the worker that makes it, or "set"
  slots,    \* the slots that hold an output
  writer,   \* where the writer is
  slot,     \* the slot it is at
  error,    \* whether the sink failed
  handed,   \* the outputs the sink was called with
  ended     \* how the call returned

vars == <<next, at, task, once, slots, writer, slot, error, handed, ended>>

Tasks == Far + N
Output(t) == t - Far

-----------------------------------------------------------------------------
(* Workers.                                                                *)

Take(w) ==
  /\ at[w] = "take"
  /\ next' = next + 1
  /\ task' = [task EXCEPT ![w] = next]
  /\ at' = [at EXCEPT ![w] = IF next > Tasks THEN "returned" ELSE IF next <= Far THEN "far" ELSE "compress"]
  /\ UNCHANGED <<once, slots, writer, slot, error, handed, ended>>

\* The far pass a worker calls far_of for.
Wanted(w) == IF at[w] = "far" THEN task[w] ELSE Needs[Output(task[w])]

\* get_or_init: the first to call it makes the value, the others wait.
InitOnce(w) ==
  /\ at[w] \in {"far", "compress"} /\ Wanted(w) # 0
  /\ \/ once[Wanted(w)] = "unset" /\ once' = [once EXCEPT ![Wanted(w)] = w]
     \/ once[Wanted(w)] = w /\ once' = [once EXCEPT ![Wanted(w)] = "set"]
  /\ UNCHANGED <<next, at, task, slots, writer, slot, error, handed, ended>>

FarDone(w) ==
  /\ at[w] = "far" /\ once[task[w]] = "set"
  /\ at' = [at EXCEPT ![w] = "take"]
  /\ UNCHANGED <<next, task, once, slots, writer, slot, error, handed, ended>>

Ready(w) == Wanted(w) # 0 => once[Wanted(w)] = "set"

Compress(w) ==
  /\ at[w] = "compress" /\ Ready(w)
  /\ slots' = slots \cup {Output(task[w])}
  /\ at' = [at EXCEPT ![w] = "notify"]
  /\ UNCHANGED <<next, task, once, writer, slot, error, handed, ended>>

Notify(w) ==
  /\ at[w] = "notify"
  /\ writer' = IF writer = "asleep" THEN "look" ELSE writer
  /\ at' = [at EXCEPT ![w] = "take"]
  /\ UNCHANGED <<next, task, once, slots, slot, error, handed, ended>>

Work(w) == Take(w) \/ InitOnce(w) \/ FarDone(w) \/ Compress(w) \/ Notify(w)

-----------------------------------------------------------------------------
(* The writer.                                                             *)

\* The slot's lock is given back before `done` is locked to sleep.
Look ==
  /\ writer = "look"
  /\ \/ slot \in slots /\ writer' = "sink" /\ slots' = slots \ {slot}
     \/ slot \notin slots /\ writer' = "going" /\ UNCHANGED slots
  /\ UNCHANGED <<next, at, task, once, slot, error, handed, ended>>

Sleep ==
  /\ writer = "going"
  /\ writer' = "asleep"
  /\ UNCHANGED <<next, at, task, once, slots, slot, error, handed, ended>>

\* A condition variable may wake for no reason.
Wake ==
  /\ writer = "asleep"
  /\ writer' = "look"
  /\ UNCHANGED <<next, at, task, once, slots, slot, error, handed, ended>>

Sink ==
  /\ writer = "sink"
  /\ handed' = Append(handed, slot)
  /\ \/ writer' = "returned" /\ error' = TRUE /\ UNCHANGED slot
     \/ /\ slot' = slot + 1 /\ UNCHANGED error
        /\ writer' = IF slot = N THEN "returned" ELSE "look"
  /\ UNCHANGED <<next, at, task, once, slots, ended>>

Write == Look \/ Sleep \/ Sink

End ==
  /\ ended = "no"
  /\ writer = "returned" /\ \A w \in Worker : at[w] = "returned"
  /\ ended' = IF error THEN "err" ELSE "ok"
  /\ UNCHANGED <<next, at, task, once, slots, writer, slot, error, handed>>

Init ==
  /\ next = 1 /\ at = [w \in Worker |-> "take"] /\ task = [w \in Worker |-> 0]
  /\ once = [u \in 1..Far |-> "unset"]
  /\ slots = {} /\ writer = "look" /\ slot = 1 /\ error = FALSE
  /\ handed = <<>> /\ ended = "no"

Next == (\E w \in Worker : Work(w)) \/ Write \/ Wake \/ End

\* Every thread runs; nothing makes a condition variable wake for no reason.
Fairness ==
  /\ \A w \in Worker : WF_vars(Work(w))
  /\ WF_vars(Write) /\ WF_vars(End)

Spec == Init /\ [][Next]_vars /\ Fairness

-----------------------------------------------------------------------------
(* Properties.                                                             *)

\* The outputs whose workers have put them in their slots.
Made == {i \in 1..N : /\ i + Far < next
                      /\ \A w \in Worker : task[w] = i + Far => at[w] # "compress"}

\* compress_stream implements what is promised of its sink.
Ordered == INSTANCE OrderedSink
ImplementsOrdered == Ordered!Spec

\* "The writer takes slots in order as they fill, waiting on the condition
\* variable": the call returns.
Ends == <>(ended # "no")

=============================================================================
