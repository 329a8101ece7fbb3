--------------------------- MODULE StreamBatches ----------------------------
(***************************************************************************)
(* stream_batches of src/src/lib.rs: the caller decodes one batch after    *)
(* another into buffers that take turns, a writer thread hands them to the *)
(* sink, and gives each buffer back.  One batch alone needs no thread and  *)
(* is left out.                                                            *)
(***************************************************************************)
EXTENDS Naturals, Sequences

CONSTANT N  \* batches

StreamBatchesAssumption == N \in Nat \ {0, 1}

VARIABLES
  caller,   \* where the caller is
  batch,    \* the batch it is at
  spare,    \* buffers it may still make
  filled,   \* the channel of decoded batches, which holds one
  open,     \* whether the caller has its end of that channel
  emptied,  \* buffers in the channel that gives them back
  writer,   \* where the writer is
  hands,    \* the batch it has
  result,   \* whether no batch was refused
  written,  \* whether the sink did not fail
  handed,   \* the batches the sink was called with
  ended     \* how the call returned

vars == <<caller, batch, spare, filled, open, emptied, writer, hands, result, written, handed, ended>>

Spares == 2
Gone == writer = "returned"

Break_open == caller' = "join" /\ UNCHANGED open
\* The caller's loop is over: its end of the channel is dropped.
Break == caller' = "join" /\ open' = FALSE

AllDecoded ==
  /\ caller = "buffer" /\ batch > N
  /\ Break
  /\ UNCHANGED <<batch, spare, filled, emptied, writer, hands, result, written, handed, ended>>

Buffer ==
  /\ caller = "buffer" /\ batch <= N
  /\ caller' = "decode"
  /\ \/ spare > 0 /\ spare' = spare - 1 /\ UNCHANGED emptied
     \/ spare = 0 /\ emptied > 0 /\ emptied' = emptied - 1 /\ UNCHANGED spare
  /\ UNCHANGED <<batch, filled, open, writer, hands, result, written, handed, ended>>

NoBuffer ==
  /\ caller = "buffer" /\ batch <= N /\ spare = 0 /\ emptied = 0 /\ Gone
  /\ Break
  /\ UNCHANGED <<batch, spare, filled, emptied, writer, hands, result, written, handed, ended>>

Decode ==
  /\ caller = "decode"
  /\ \/ caller' = "send" /\ UNCHANGED <<open, result>>
     \/ Break /\ result' = FALSE
  /\ UNCHANGED <<batch, spare, filled, emptied, writer, hands, written, handed, ended>>

Send ==
  /\ caller = "send" /\ ~Gone /\ filled = <<>>
  /\ filled' = <<batch>>
  /\ batch' = batch + 1 /\ caller' = "buffer"
  /\ UNCHANGED <<spare, open, emptied, writer, hands, result, written, handed, ended>>

SendFails ==
  /\ caller = "send" /\ Gone
  /\ Break
  /\ UNCHANGED <<batch, spare, filled, emptied, writer, hands, result, written, handed, ended>>

Call == AllDecoded \/ Buffer \/ NoBuffer \/ Decode \/ Send \/ SendFails

-----------------------------------------------------------------------------

Recv ==
  /\ writer = "recv"
  /\ \/ /\ filled # <<>>
        /\ writer' = "sink" /\ hands' = Head(filled) /\ filled' = Tail(filled)
     \/ filled = <<>> /\ ~open /\ writer' = "returned" /\ UNCHANGED <<hands, filled>>
  /\ UNCHANGED <<caller, batch, spare, open, emptied, result, written, handed, ended>>

Sink ==
  /\ writer = "sink"
  /\ handed' = Append(handed, hands)
  /\ \/ writer' = "recv" /\ emptied' = emptied + 1 /\ UNCHANGED <<written, filled>>
     \/ writer' = "returned" /\ written' = FALSE /\ filled' = <<>> /\ UNCHANGED emptied
  /\ UNCHANGED <<caller, batch, spare, open, hands, result, ended>>

Write == Recv \/ Sink

Result_decoded == IF result THEN "ok" ELSE "err"
Result == IF result /\ written THEN "ok" ELSE "err"

End ==
  /\ ended = "no" /\ caller = "join" /\ Gone
  /\ ended' = Result
  /\ UNCHANGED <<caller, batch, spare, filled, open, emptied, writer, hands, result, written, handed>>

Init ==
  /\ caller = "buffer" /\ batch = 1 /\ spare = Spares
  /\ filled = <<>> /\ open = TRUE /\ emptied = 0
  /\ writer = "recv" /\ hands = 0 /\ result = TRUE /\ written = TRUE
  /\ handed = <<>> /\ ended = "no"

Next == Call \/ Write \/ End

Fairness == WF_vars(Call) /\ WF_vars(Write) /\ WF_vars(End)

Spec == Init /\ [][Next]_vars /\ Fairness

-----------------------------------------------------------------------------
(* Properties.                                                             *)

\* stream_batches implements what is promised of its sink.
Ordered == INSTANCE OrderedSink
ImplementsOrdered == Ordered!Spec

\* Neither thread waits for the other for ever, whichever of them fails.
Ends == <>(ended # "no")

=============================================================================
