----------------------------- MODULE MCStreams -----------------------------
(***************************************************************************)
(* The four ways src/src/lib.rs hands its output to a sink, each against  *)
(* OrderedSink: an initial state chooses one, and its threads alone take   *)
(* steps.                                                                  *)
(***************************************************************************)
EXTENDS Naturals, Sequences

CONSTANTS Worker, N, Nobody

VARIABLES which, next, at, handed, ended,
  task, once, slots, writer, slot, error,
  stop, unit, lock, due, decoded, failed, io_error,
  caller, batch, spare, filled, open, emptied, hands, result, written

ofCompress == <<task, once, slots, slot, error>>
ofDecode == <<stop, unit, lock, due, decoded, failed, io_error>>
ofBatches == <<caller, batch, spare, filled, open, emptied, hands, result, written>>
vars == <<which, next, at, handed, ended, writer, ofCompress, ofDecode, ofBatches>>

Compress == INSTANCE CompressStream WITH Far <- 0, Needs <- [i \in 1..N |-> 0]
\* Two units, the outputs of each after the far pass of its own.
CompressMax ==
  INSTANCE CompressStream WITH Far <- 2, Needs <- [i \in 1..N |-> IF 2 * i > N THEN 2 ELSE 1]
Decode == INSTANCE DecodeUnits
Batches == INSTANCE StreamBatches
Ordered == INSTANCE OrderedSink

StreamsAssumption ==
  /\ Compress!CompressStreamAssumption /\ CompressMax!CompressStreamAssumption
  /\ Decode!DecodeUnitsAssumption /\ Batches!StreamBatchesAssumption

NoCompress == task = Nobody /\ once = Nobody /\ slots = Nobody /\ slot = Nobody /\ error = Nobody
NoDecode ==
  /\ stop = Nobody /\ unit = Nobody /\ lock = Nobody /\ due = Nobody
  /\ decoded = Nobody /\ failed = Nobody /\ io_error = Nobody
NoBatches ==
  /\ caller = Nobody /\ batch = Nobody /\ spare = Nobody /\ filled = Nobody /\ open = Nobody
  /\ emptied = Nobody /\ hands = Nobody /\ result = Nobody /\ written = Nobody

Init ==
  \/ which = "compress" /\ Compress!Init /\ NoDecode /\ NoBatches
  \/ which = "compress_max" /\ CompressMax!Init /\ NoDecode /\ NoBatches
  \/ which = "decode" /\ Decode!Init /\ NoCompress /\ NoBatches /\ writer = Nobody
  \/ which = "batches" /\ Batches!Init /\ NoCompress /\ NoDecode /\ next = Nobody /\ at = Nobody

InCompress(A) == which = "compress" /\ A /\ UNCHANGED <<which, ofDecode, ofBatches>>
InCompressMax(A) == which = "compress_max" /\ A /\ UNCHANGED <<which, ofDecode, ofBatches>>
InDecode(A) == which = "decode" /\ A /\ UNCHANGED <<which, ofCompress, ofBatches, writer>>
InBatches(A) == which = "batches" /\ A /\ UNCHANGED <<which, ofCompress, ofDecode, next, at>>

Next ==
  \/ InCompress(Compress!Next)
  \/ InCompressMax(CompressMax!Next)
  \/ InDecode(Decode!Next)
  \/ InBatches(Batches!Next)

\* A thread runs on unless it waits. Of the four, `which` takes one.
Works(w) == InCompress(Compress!Work(w)) \/ InCompressMax(CompressMax!Work(w)) \/ InDecode(Decode!Work(w))
Writes == InCompress(Compress!Write) \/ InCompressMax(CompressMax!Write) \/ InBatches(Batches!Write)
Calls == InBatches(Batches!Call)
Ends ==
  InCompress(Compress!End) \/ InCompressMax(CompressMax!End) \/ InDecode(Decode!End) \/ InBatches(Batches!End)

Spec ==
  /\ Init /\ [][Next]_vars
  /\ \A w \in Worker : WF_vars(Works(w))
  /\ WF_vars(Writes) /\ WF_vars(Calls) /\ WF_vars(Ends)

-----------------------------------------------------------------------------

\* Each implements what is promised of its sink: every unit in order, once, and
\* Ok only after the last.
ImplementsOrdered == Ordered!Spec

\* The decoders return, whichever units and calls of the sink fail.
DecodersEnd == which \in {"decode", "batches"} ~> ended # "no"

\* "The writer takes slots in order as they fill, waiting on the condition
\* variable": the compressors return.
CompressorsEnd == which \in {"compress", "compress_max"} ~> ended # "no"

=============================================================================
