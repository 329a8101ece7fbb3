---------------------------- MODULE OrderedSink -----------------------------
(***************************************************************************)
(* What compress_stream, decompress_stream and the like promise of their   *)
(* sink: it is called with the units of the output in order, each once,    *)
(* and the call returns Ok only when it was called with all of them.       *)
(***************************************************************************)
EXTENDS Naturals, Sequences

CONSTANT N  \* units

VARIABLES
  handed,  \* the units the sink was called with
  ended    \* how the call returned: "no" before it does

Init == handed = <<>> /\ ended = "no"

Hand ==
  /\ ended = "no" /\ Len(handed) < N
  /\ handed' = Append(handed, Len(handed) + 1)
  /\ UNCHANGED ended

End ==
  /\ ended = "no"
  /\ \/ ended' = "err"
     \/ Len(handed) = N /\ ended' = "ok"
  /\ UNCHANGED handed

Next == Hand \/ End

Spec == Init /\ [][Next]_<<handed, ended>>

=============================================================================
