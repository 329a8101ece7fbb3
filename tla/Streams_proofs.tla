-------------------------- MODULE Streams_proofs ---------------------------
(***************************************************************************)
(* Theorems about the parallel streams (CompressStream twice, DecodeUnits, *)
(* StreamBatches), as a part of MCParts: each hands its units to the sink  *)
(* in order, once, and returns Ok only after the last, however many units  *)
(* and threads there are and whichever units and calls of the sink fail.   *)
(***************************************************************************)
EXTENDS MCParts, TLAPS

Step == Sinks!Ordered!Next

\* The sink was called with the units in order.
InOrder == handed \in Seq(Nat) /\ \A i \in 1..Len(handed) : handed[i] = i

LEMMA OneMore ==
  ASSUME InOrder, handed' = Append(handed, Len(handed) + 1) PROVE InOrder'
BY DEF InOrder

-----------------------------------------------------------------------------
(* compress_stream and compress_max_stream.  Of either, what follows needs *)
(* the writer thread alone.                                                *)

Turn ==
  \/ /\ UNCHANGED <<slot, error, handed, ended>>
     /\ turn' = turn \/ (turn # "returned" /\ turn' \in {"look", "going", "asleep", "sink"})
  \/ /\ turn = "sink" /\ handed' = Append(handed, slot) /\ UNCHANGED ended
     /\ \/ turn' = "returned" /\ error' = TRUE /\ UNCHANGED slot
        \/ /\ slot' = slot + 1 /\ UNCHANGED error
           /\ turn' = IF slot = Units THEN "returned" ELSE "look"
  \/ /\ ended = "no" /\ turn = "returned" /\ ended' = IF error THEN "err" ELSE "ok"
     /\ UNCHANGED <<turn, slot, error, handed>>

\* The slot is the one after those handed over, but for the one that failed.
CompressInv ==
  /\ InOrder
  /\ turn \in {"look", "going", "asleep", "sink", "returned"}
  /\ slot \in Nat /\ error \in BOOLEAN
  /\ Len(handed) = IF error THEN slot ELSE slot - 1
  /\ error => turn = "returned"
  /\ turn # "returned" => slot <= Units
  /\ turn = "returned" /\ ~error => slot = Units + 1
  /\ ended # "no" => turn = "returned"

LEMMA TurnKeeps ==
  ASSUME Units \in Nat \ {0}, CompressInv, [Turn]_ofSinks
  PROVE  CompressInv' /\ [Step]_<<handed, ended>>
<1>1. CASE turn = "sink" /\ handed' = Append(handed, slot) /\ UNCHANGED ended
           /\ \/ turn' = "returned" /\ error' = TRUE /\ UNCHANGED slot
              \/ /\ slot' = slot + 1 /\ UNCHANGED error
                 /\ turn' = IF slot = Units THEN "returned" ELSE "look"
  <2>1. ~error /\ ended = "no" /\ slot = Len(handed) + 1 /\ slot <= Units /\ Len(handed) \in Nat
    BY <1>1 DEF CompressInv, InOrder
  <2>2. InOrder' /\ Len(handed') = Len(handed) + 1
    BY <1>1, <2>1, OneMore DEF CompressInv, InOrder
  <2>3. Sinks!Ordered!Hand
    BY <1>1, <2>1 DEF Sinks!Ordered!Hand
  <2>4. CompressInv'
    <3>1. CASE turn' = "returned" /\ error' = TRUE /\ UNCHANGED slot
      BY <1>1, <2>1, <2>2, <3>1 DEF CompressInv
    <3>2. CASE slot' = slot + 1 /\ UNCHANGED error /\ turn' = IF slot = Units THEN "returned" ELSE "look"
      BY <1>1, <2>1, <2>2, <3>2 DEF CompressInv
    <3> QED BY <1>1, <3>1, <3>2
  <2> QED BY <2>3, <2>4 DEF Step, Sinks!Ordered!Next
<1>2. CASE /\ ended = "no" /\ turn = "returned" /\ ended' = IF error THEN "err" ELSE "ok"
           /\ UNCHANGED <<turn, slot, error, handed>>
  <2>1. Sinks!Ordered!End
    BY <1>2 DEF Sinks!Ordered!End, CompressInv
  <2>2. CompressInv'
    BY <1>2 DEF CompressInv, InOrder
  <2> QED BY <2>1, <2>2 DEF Step, Sinks!Ordered!Next
<1>3. CASE /\ UNCHANGED <<slot, error, handed, ended>>
           /\ turn' = turn \/ (turn # "returned" /\ turn' \in {"look", "going", "asleep", "sink"})
  BY <1>3 DEF CompressInv, InOrder
<1>4. CASE UNCHANGED ofSinks
  BY <1>4 DEF CompressInv, InOrder, ofSinks
<1> QED BY <1>1, <1>2, <1>3, <1>4 DEF Turn

LEMMA CompressTurns == ASSUME Sinks!Compress!Next PROVE Turn
<1>1. ASSUME NEW w \in Worker, Sinks!Compress!Work(w) PROVE Turn
  BY <1>1 DEF Turn, Sinks!Compress!Work, Sinks!Compress!Take, Sinks!Compress!InitOnce, Sinks!Compress!FarDone,
       Sinks!Compress!Compress, Sinks!Compress!Notify
<1>2. ASSUME Sinks!Compress!Write \/ Sinks!Compress!Wake \/ Sinks!Compress!End PROVE Turn
  BY <1>2 DEF Turn, Sinks!Compress!Write, Sinks!Compress!Look, Sinks!Compress!Sleep, Sinks!Compress!Sink,
       Sinks!Compress!Wake, Sinks!Compress!End
<1> QED BY <1>1, <1>2 DEF Sinks!Compress!Next

LEMMA CompressMaxTurns == ASSUME Sinks!CompressMax!Next PROVE Turn
<1>1. ASSUME NEW w \in Worker, Sinks!CompressMax!Work(w) PROVE Turn
  BY <1>1 DEF Turn, Sinks!CompressMax!Work, Sinks!CompressMax!Take, Sinks!CompressMax!InitOnce,
       Sinks!CompressMax!FarDone, Sinks!CompressMax!Compress, Sinks!CompressMax!Notify
<1>2. ASSUME Sinks!CompressMax!Write \/ Sinks!CompressMax!Wake \/ Sinks!CompressMax!End PROVE Turn
  BY <1>2 DEF Turn, Sinks!CompressMax!Write, Sinks!CompressMax!Look, Sinks!CompressMax!Sleep,
       Sinks!CompressMax!Sink, Sinks!CompressMax!Wake, Sinks!CompressMax!End
<1> QED BY <1>1, <1>2 DEF Sinks!CompressMax!Next

-----------------------------------------------------------------------------
(* decode_units_to.                                                        *)

DecodeTypeOK ==
  /\ sinkNext \in Nat \ {0} /\ due \in Nat \ {0} /\ decoded \subseteq 1..Units
  /\ stop \in BOOLEAN /\ badUnit \in BOOLEAN /\ ioError \in BOOLEAN
  /\ sinkAt \in [Worker -> {"take", "decode", "lock", "hand", "failing", "stopping", "returned"}]
  /\ unit \in [Worker -> Nat]

\* A failure is on its way to the flag that stops the others, or there.
Failing == stop \/ \E w \in Worker : sinkAt[w] \in {"failing", "stopping"}

\* The units handed over are those before `due`.
Passed == InOrder /\ Len(handed) = due - 1 /\ due <= Units + 1

\* The lock's holder is the worker that hands units over.
Locked == \A w \in Worker : sinkAt[w] = "hand" <=> lock = w

\* A unit that was taken is decoded or with a worker, unless one failed.
Taken ==
  /\ \A w \in Worker : sinkAt[w] \in {"decode", "lock"} => unit[w] \in 1..Units
  /\ \A u \in 1..Units : u < sinkNext =>
       u \in decoded \/ Failing \/ \E w \in Worker : sinkAt[w] \in {"decode", "lock"} /\ unit[w] = u

\* A worker returns when the units are all taken or one failed; a unit that is due is not
\* left by the worker that marked the last of them, unless one failed.
Left ==
  /\ \A w \in Worker : sinkAt[w] = "returned" => stop \/ sinkNext > Units
  /\ badUnit \/ ioError => Failing
  /\ due \in decoded => lock \in Worker \/ Failing
  /\ ended # "no" => \A w \in Worker : sinkAt[w] = "returned"

DecodeInv == DecodeTypeOK /\ Passed /\ Locked /\ Taken /\ Left

LEMMA DecodeInitOK == ASSUME PartsAssumption, Sinks!Decode!Init PROVE DecodeInv
<1>1. Units \in Nat \ {0} /\ None \notin Worker
  BY DEF PartsAssumption, Sinks!StreamsAssumption, Sinks!Decode!DecodeUnitsAssumption
<1> USE DEF Sinks!Decode!Init
<1>2. DecodeTypeOK
  <2>1. /\ sinkAt \in [Worker -> {"take", "decode", "lock", "hand", "failing", "stopping", "returned"}]
        /\ unit \in [Worker -> Nat]
    OBVIOUS
  <2>2. sinkNext \in Nat \ {0} /\ due \in Nat \ {0}
    OBVIOUS
  <2>3. decoded \subseteq 1..Units /\ stop \in BOOLEAN /\ badUnit \in BOOLEAN /\ ioError \in BOOLEAN
    OBVIOUS
  <2> HIDE DEF Sinks!Decode!Init
  <2> QED BY <2>1, <2>2, <2>3 DEF DecodeTypeOK
<1>3. InOrder /\ Len(handed) = 0
  BY DEF InOrder
<1>4. Passed
  BY <1>1, <1>3 DEF Passed
<1>5. Locked /\ Taken /\ Left
  BY <1>1 DEF Locked, Taken, Left, Failing
<1> QED BY <1>2, <1>4, <1>5 DEF DecodeInv

\* No worker is at work once the call has returned.
LEMMA NoneAtWork ==
  ASSUME DecodeInv, NEW w \in Worker, sinkAt[w] # "returned" PROVE ended = "no"
BY DEF DecodeInv, Left

LEMMA TakeKeeps ==
  ASSUME DecodeInv, Units \in Nat, NEW w \in Worker, Sinks!Decode!Take(w) PROVE DecodeInv'
<1> USE DEF Sinks!Decode!Take, Sinks!Decode!Exhausted
<1>1. /\ sinkNext \in Nat \ {0} /\ sinkNext' = sinkNext + 1
      /\ sinkAt[w] = "take" /\ sinkAt'[w] \in {"returned", "decode"}
      /\ sinkAt'[w] = "decode" => sinkNext <= Units
      /\ sinkAt'[w] = "returned" => stop \/ sinkNext > Units
      /\ \A v \in Worker : v # w => sinkAt'[v] = sinkAt[v] /\ unit'[v] = unit[v]
      /\ unit'[w] = sinkNext
  BY DEF DecodeInv, DecodeTypeOK
<1>2. DecodeTypeOK'
  BY DEF DecodeInv, DecodeTypeOK
<1>3. Failing <=> Failing'
  BY <1>1 DEF Failing
<1>4. Passed' /\ Locked'
  BY <1>1 DEF DecodeInv, Passed, InOrder, Locked
<1>5. Taken'
  <2>1. \A v \in Worker : sinkAt'[v] \in {"decode", "lock"} => unit'[v] \in 1..Units
    BY <1>1 DEF DecodeInv, Taken
  <2>2. ASSUME NEW u \in 1..Units, u < sinkNext'
        PROVE  u \in decoded \/ Failing \/ \E v \in Worker : sinkAt'[v] \in {"decode", "lock"} /\ unit'[v] = u
    <3>1. CASE u = sinkNext
      BY <1>1, <3>1 DEF Failing
    <3>2. CASE u < sinkNext
      BY <1>1, <3>2 DEF DecodeInv, Taken
    <3> QED BY <1>1, <2>2, <3>1, <3>2
  <2> QED BY <1>3, <2>1, <2>2 DEF Taken
<1>6. Left'
  <2>1. ended = "no"
    BY <1>1, NoneAtWork
  <2> QED BY <1>1, <1>3, <2>1 DEF DecodeInv, Left
<1> QED BY <1>2, <1>4, <1>5, <1>6 DEF DecodeInv

LEMMA DecodeKeeps ==
  ASSUME DecodeInv, Units \in Nat, NEW w \in Worker, Sinks!Decode!Decode(w) PROVE DecodeInv'
<1> USE DEF Sinks!Decode!Decode
<1>1. /\ sinkAt[w] = "decode" /\ sinkAt'[w] \in {"lock", "failing"}
      /\ \A v \in Worker : v # w => sinkAt'[v] = sinkAt[v]
  BY DEF DecodeInv, DecodeTypeOK
<1>2. DecodeTypeOK'
  BY DEF DecodeInv, DecodeTypeOK
<1>3. Failing => Failing'
  BY <1>1 DEF Failing
<1>4. Passed' /\ Locked'
  BY <1>1 DEF DecodeInv, Passed, InOrder, Locked
<1>5. Taken'
  <2>1. \A v \in Worker : sinkAt'[v] \in {"decode", "lock"} => sinkAt[v] \in {"decode", "lock"}
    BY <1>1
  <2>2. Failing' \/ \A v \in Worker : sinkAt[v] \in {"decode", "lock"} => sinkAt'[v] \in {"decode", "lock"}
    BY <1>1 DEF Failing
  <2> QED BY <1>3, <2>1, <2>2 DEF DecodeInv, Taken
<1>6. Left'
  <2>1. ended = "no"
    BY <1>1, NoneAtWork
  <2> QED BY <1>1, <1>3, <2>1 DEF DecodeInv, Left
<1> QED BY <1>2, <1>4, <1>5, <1>6 DEF DecodeInv

LEMMA LockKeeps ==
  ASSUME DecodeInv, Units \in Nat, None \notin Worker, NEW w \in Worker, Sinks!Decode!Lock(w) PROVE DecodeInv'
<1> USE DEF Sinks!Decode!Lock
<1>1. /\ sinkAt[w] = "lock" /\ sinkAt'[w] = "hand" /\ lock = None /\ lock' = w
      /\ unit[w] \in 1..Units /\ decoded' = decoded \cup {unit[w]}
      /\ \A v \in Worker : v # w => sinkAt'[v] = sinkAt[v]
  BY DEF DecodeInv, DecodeTypeOK, Taken
<1>2. DecodeTypeOK'
  BY <1>1 DEF DecodeInv, DecodeTypeOK
<1>3. Failing <=> Failing'
  BY <1>1 DEF Failing
<1>4. Passed' /\ Locked'
  BY <1>1 DEF DecodeInv, Passed, InOrder, Locked
<1>5. Taken'
  <2>1. \A v \in Worker : sinkAt'[v] \in {"decode", "lock"} => unit[v] \in 1..Units
    BY <1>1 DEF DecodeInv, Taken
  <2>2. ASSUME NEW u \in 1..Units, u < sinkNext
        PROVE  u \in decoded' \/ Failing \/ \E v \in Worker : sinkAt'[v] \in {"decode", "lock"} /\ unit[v] = u
    BY <1>1, <2>2 DEF DecodeInv, Taken
  <2> QED BY <1>3, <2>1, <2>2 DEF Taken
<1>6. Left'
  <2>1. ended = "no"
    BY <1>1, NoneAtWork
  <2> QED BY <1>1, <1>3, <2>1 DEF DecodeInv, Left
<1> QED BY <1>2, <1>4, <1>5, <1>6 DEF DecodeInv

LEMMA HandKeeps ==
  ASSUME DecodeInv, Units \in Nat, None \notin Worker, NEW w \in Worker, Sinks!Decode!Hand(w)
  PROVE  DecodeInv' /\ Step
<1> USE DEF Sinks!Decode!Hand, Sinks!Decode!Due
<1>1. /\ sinkAt[w] = "hand" /\ due \in decoded /\ due \in 1..Units /\ due' = due + 1
      /\ handed' = Append(handed, due) /\ Len(handed) = due - 1 /\ Len(handed) \in Nat /\ InOrder
      /\ lock = w
  BY DEF DecodeInv, DecodeTypeOK, Passed, InOrder, Locked
<1>2. ended = "no"
  BY <1>1, NoneAtWork
<1>3. Step
  BY <1>1, <1>2 DEF Step, Sinks!Ordered!Next, Sinks!Ordered!Hand
<1>4. Passed'
  BY <1>1, OneMore DEF Passed, InOrder
<1>5. \/ UNCHANGED <<sinkAt, lock, ioError>>
      \/ /\ ioError' = TRUE /\ lock' = None
         /\ sinkAt'[w] = "failing" /\ \A v \in Worker : v # w => sinkAt'[v] = sinkAt[v]
  BY DEF DecodeInv, DecodeTypeOK
<1>6. DecodeTypeOK'
  <2>1. sinkAt' \in [Worker -> {"take", "decode", "lock", "hand", "failing", "stopping", "returned"}]
    BY DEF DecodeInv, DecodeTypeOK
  <2>2. due' \in Nat \ {0}
    BY <1>1
  <2>3. ioError' \in BOOLEAN
    BY <1>5 DEF DecodeInv, DecodeTypeOK
  <2> QED BY <2>1, <2>2, <2>3 DEF DecodeInv, DecodeTypeOK
<1>7. Failing => Failing'
  BY <1>1, <1>5 DEF Failing
<1>8. Locked'
  BY <1>1, <1>5 DEF DecodeInv, Locked
<1>9. Taken'
  BY <1>1, <1>5, <1>7 DEF DecodeInv, Taken
<1>10. Left'
  BY <1>1, <1>2, <1>5, <1>7 DEF DecodeInv, Left, Failing
<1> QED BY <1>3, <1>4, <1>6, <1>8, <1>9, <1>10 DEF DecodeInv

LEMMA UnlockKeeps ==
  ASSUME DecodeInv, Units \in Nat, None \notin Worker, NEW w \in Worker, Sinks!Decode!Unlock(w) PROVE DecodeInv'
<1> USE DEF Sinks!Decode!Unlock, Sinks!Decode!Due
<1>1. /\ sinkAt[w] = "hand" /\ sinkAt'[w] = "take" /\ lock = w /\ lock' = None
      /\ \A v \in Worker : v # w => sinkAt'[v] = sinkAt[v]
      /\ due \notin decoded \/ badUnit
  BY DEF DecodeInv, DecodeTypeOK, Locked
<1>2. DecodeTypeOK'
  BY DEF DecodeInv, DecodeTypeOK
<1>3. Failing <=> Failing'
  BY <1>1 DEF Failing
<1>4. Passed' /\ Locked'
  BY <1>1 DEF DecodeInv, Passed, InOrder, Locked
<1>5. Taken'
  BY <1>1, <1>3 DEF DecodeInv, Taken
<1>6. Left'
  <2>1. ended = "no"
    BY <1>1, NoneAtWork
  <2> QED BY <1>1, <1>3, <2>1 DEF DecodeInv, Left
<1> QED BY <1>2, <1>4, <1>5, <1>6 DEF DecodeInv

LEMMA FailKeeps ==
  ASSUME DecodeInv, Units \in Nat, NEW w \in Worker, Sinks!Decode!Fail(w) \/ Sinks!Decode!Stop(w) PROVE DecodeInv'
<1> USE DEF Sinks!Decode!Fail, Sinks!Decode!Stop
<1>1. /\ sinkAt[w] \in {"failing", "stopping"} /\ sinkAt'[w] \in {"stopping", "returned"}
      /\ sinkAt'[w] = "returned" => stop'
      /\ stop => stop'
      /\ \A v \in Worker : v # w => sinkAt'[v] = sinkAt[v]
      /\ UNCHANGED <<sinkNext, unit, lock, due, decoded, ioError, handed, ended>>
  BY DEF DecodeInv, DecodeTypeOK
<1>2. DecodeTypeOK'
  BY DEF DecodeInv, DecodeTypeOK
<1>3. Failing'
  BY <1>1 DEF Failing
<1>4. Passed' /\ Locked'
  BY <1>1 DEF DecodeInv, Passed, InOrder, Locked
<1>5. Taken'
  BY <1>1, <1>3 DEF DecodeInv, Taken
<1>6. Left'
  <2>1. ended = "no"
    BY <1>1, NoneAtWork
  <2> QED BY <1>1, <1>3, <2>1 DEF DecodeInv, Left
<1> QED BY <1>2, <1>4, <1>5, <1>6 DEF DecodeInv

\* When every worker has returned and none failed, every unit was handed over.
LEMMA DecodeEnds ==
  ASSUME DecodeInv, Units \in Nat, Worker # {}, None \notin Worker, Sinks!Decode!End PROVE DecodeInv' /\ Step
<1> USE DEF Sinks!Decode!End
<1>1. DecodeInv'
  BY DEF DecodeInv, DecodeTypeOK, Passed, InOrder, Locked, Taken, Left, Failing
<1>2. CASE ioError \/ stop
  <2>1. ended = "no" /\ ended' = "err" /\ UNCHANGED handed
    BY <1>2
  <2> QED BY <1>1, <2>1 DEF Step, Sinks!Ordered!Next, Sinks!Ordered!End
<1>3. CASE ~ioError /\ ~stop
  <2>1. ~Failing /\ sinkNext > Units /\ lock \notin Worker
    BY <1>3 DEF DecodeInv, Left, Locked, Failing
  <2>2. due \notin 1..Units
    <3>1. \A u \in 1..Units : u < sinkNext
      BY <2>1 DEF DecodeInv, DecodeTypeOK
    <3>2. \A u \in 1..Units : u \in decoded
      BY <2>1, <3>1 DEF DecodeInv, Taken
    <3> QED BY <2>1, <3>2 DEF DecodeInv, Left
  <2>3. due > Units
    BY <2>2 DEF DecodeInv, DecodeTypeOK
  <2>4. Len(handed) = Units
    BY <2>3 DEF DecodeInv, DecodeTypeOK, Passed
  <2>5. ended = "no" /\ ended' = "ok" /\ UNCHANGED handed
    BY <1>3
  <2> QED BY <1>1, <2>4, <2>5 DEF Step, Sinks!Ordered!Next, Sinks!Ordered!End
<1> QED BY <1>1, <1>2, <1>3

-----------------------------------------------------------------------------
(* stream_batches.                                                         *)

BatchesTypeOK ==
  /\ filling \in {"buffer", "decode", "send", "join"} /\ turn \in {"recv", "sink", "returned"}
  /\ batch \in Nat \ {0} /\ hands \in Nat /\ filled \in Seq(Nat)
  /\ open \in BOOLEAN /\ result \in BOOLEAN /\ written \in BOOLEAN

\* A batch is with the sink, with the writer, or in the channel, which holds one.
Carried ==
  /\ InOrder
  /\ filled # <<>> => Len(filled) = 1 /\ filled[1] = batch - 1
  /\ turn = "sink" => hands = Len(handed) + 1
  /\ written => batch - 1 = Len(handed) + (IF turn = "sink" THEN 1 ELSE 0) + Len(filled)

\* Each thread ends only when it is done, or something failed, or the other ended.
BothEnd ==
  /\ ~open <=> filling = "join"
  /\ turn = "returned" /\ written => ~open /\ filled = <<>>
  /\ ~written => turn = "returned"
  /\ filling = "join" /\ result /\ written => batch = Units + 1
  /\ filling \in {"decode", "send"} => batch <= Units
  /\ batch <= Units + 1
  /\ ended # "no" => filling = "join" /\ turn = "returned"

BatchesInv == BatchesTypeOK /\ Carried /\ BothEnd

LEMMA BatchesInitOK == ASSUME Units \in Nat \ {0, 1}, Sinks!Batches!Init PROVE BatchesInv
<1> USE DEF Sinks!Batches!Init
<1>1. BatchesTypeOK
  <2>1. filled \in Seq(Nat) /\ batch \in Nat \ {0} /\ hands \in Nat
    OBVIOUS
  <2> QED BY <2>1 DEF BatchesTypeOK
<1>2. /\ handed \in Seq(Nat) /\ Len(handed) = 0 /\ Len(filled) = 0 /\ filled = <<>> /\ turn = "recv"
      /\ batch - 1 = 0
  OBVIOUS
<1>3. Carried
  <2> HIDE DEF Sinks!Batches!Init
  <2> QED BY <1>2 DEF Carried, InOrder
<1>4. BothEnd
  BY DEF BothEnd
<1> QED BY <1>1, <1>3, <1>4 DEF BatchesInv

\* A step of the caller but Send: the batch it is at goes no further.
LEMMA CallKeeps ==
  ASSUME BatchesInv, Units \in Nat,
         \/ Sinks!Batches!AllDecoded \/ Sinks!Batches!Buffer \/ Sinks!Batches!NoBuffer
         \/ Sinks!Batches!Decode \/ Sinks!Batches!SendFails
  PROVE  BatchesInv'
<1> USE DEF Sinks!Batches!AllDecoded, Sinks!Batches!Buffer, Sinks!Batches!NoBuffer, Sinks!Batches!Decode,
            Sinks!Batches!SendFails, Sinks!Batches!Break, Sinks!Batches!Gone
<1>1. UNCHANGED <<batch, filled, turn, hands, written, handed, ended>>
  OBVIOUS
<1>2. Carried'
  BY <1>1 DEF BatchesInv, Carried, InOrder
<1>3. \/ /\ filling = "buffer" /\ filling' = "decode" /\ batch <= Units /\ UNCHANGED <<open, result>>
      \/ filling = "decode" /\ filling' = "send" /\ UNCHANGED <<open, result>>
      \/ filling = "decode" /\ filling' = "join" /\ open' = FALSE /\ result' = FALSE
      \/ filling = "buffer" /\ batch > Units /\ filling' = "join" /\ open' = FALSE /\ UNCHANGED result
      \/ /\ filling \in {"buffer", "send"} /\ turn = "returned" /\ filling' = "join" /\ open' = FALSE
         /\ UNCHANGED result
  OBVIOUS
<1>4. BatchesTypeOK'
  BY <1>1, <1>3 DEF BatchesInv, BatchesTypeOK
<1>5. filling # "join" /\ ended = "no" /\ open
  BY <1>3 DEF BatchesInv, BatchesTypeOK, BothEnd
<1>6. turn = "returned" => ~written
  BY <1>5 DEF BatchesInv, BothEnd
<1>7. BothEnd'
  <2>1. CASE filling' # "join" /\ UNCHANGED <<open, result>> /\ (filling = "buffer" => batch <= Units)
    BY <1>1, <1>3, <1>5, <2>1 DEF BatchesInv, BatchesTypeOK, BothEnd
  <2>2. CASE /\ filling' = "join" /\ open' = FALSE
             /\ result' = FALSE \/ (batch > Units /\ UNCHANGED result) \/ (turn = "returned" /\ UNCHANGED result)
    BY <1>1, <1>5, <1>6, <2>2 DEF BatchesInv, BatchesTypeOK, BothEnd
  <2> QED BY <1>3, <2>1, <2>2
<1> QED BY <1>2, <1>4, <1>7 DEF BatchesInv

LEMMA SendKeeps == ASSUME BatchesInv, Units \in Nat, Sinks!Batches!Send PROVE BatchesInv'
<1> USE DEF Sinks!Batches!Send, Sinks!Batches!Gone
<1>1. /\ filling = "send" /\ turn # "returned" /\ filled = <<>> /\ filled' = <<batch>>
      /\ batch' = batch + 1 /\ filling' = "buffer" /\ batch \in Nat \ {0} /\ batch <= Units
      /\ Len(filled) = 0 /\ Len(filled') = 1 /\ filled'[1] = batch /\ filled' \in Seq(Nat)
      /\ UNCHANGED <<open, turn, hands, result, written, handed, ended>>
  BY DEF BatchesInv, BatchesTypeOK, BothEnd
<1>2. Carried'
  BY <1>1 DEF BatchesInv, Carried, InOrder
<1>3. BatchesTypeOK' /\ BothEnd'
  BY <1>1 DEF BatchesInv, BatchesTypeOK, BothEnd
<1> QED BY <1>2, <1>3 DEF BatchesInv

LEMMA RecvKeeps == ASSUME BatchesInv, Units \in Nat, Sinks!Batches!Recv PROVE BatchesInv'
<1> USE DEF Sinks!Batches!Recv
<1>1. /\ turn = "recv" /\ written /\ ended = "no"
      /\ UNCHANGED <<filling, batch, open, result, written, handed, ended>>
  BY DEF BatchesInv, BothEnd
<1>2. CASE filled # <<>> /\ turn' = "sink" /\ hands' = Head(filled) /\ filled' = Tail(filled)
  <2>1. Len(filled) = 1 /\ filled[1] = batch - 1 /\ filled \in Seq(Nat)
    BY <1>2 DEF BatchesInv, BatchesTypeOK, Carried
  <2>2. hands' = batch - 1 /\ filled' = <<>> /\ Len(filled') = 0 /\ filled' \in Seq(Nat)
    BY <1>2, <2>1
  <2>3. Len(handed) \in Nat /\ batch \in Nat \ {0}
    BY DEF BatchesInv, BatchesTypeOK, Carried, InOrder
  <2>4. Carried'
    <3>1. batch - 1 = Len(handed) + 0 + 1
      BY <1>1, <2>1 DEF BatchesInv, Carried
    <3>2. hands' = Len(handed) + 1
      BY <2>2, <2>3, <3>1
    <3> QED BY <1>1, <1>2, <2>2, <2>3, <3>1, <3>2 DEF BatchesInv, Carried, InOrder
  <2>5. BatchesTypeOK' /\ BothEnd'
    BY <1>1, <1>2, <2>2, <2>3 DEF BatchesInv, BatchesTypeOK, BothEnd
  <2> QED BY <2>4, <2>5 DEF BatchesInv
<1>3. CASE filled = <<>> /\ ~open /\ turn' = "returned" /\ UNCHANGED <<hands, filled>>
  BY <1>1, <1>3 DEF BatchesInv, BatchesTypeOK, BothEnd, Carried, InOrder
<1> QED BY <1>2, <1>3

LEMMA SinkKeeps == ASSUME BatchesInv, Units \in Nat, Sinks!Batches!Sink PROVE BatchesInv' /\ Step
<1> USE DEF Sinks!Batches!Sink
<1>1. /\ turn = "sink" /\ written /\ ended = "no" /\ hands = Len(handed) + 1 /\ InOrder
      /\ Len(handed) \in Nat /\ Len(filled) \in Nat /\ batch \in Nat
      /\ batch - 1 = Len(handed) + 1 + Len(filled) /\ batch <= Units + 1
      /\ handed' = Append(handed, Len(handed) + 1)
      /\ UNCHANGED <<filling, batch, open, hands, result, ended>>
  BY DEF BatchesInv, BatchesTypeOK, BothEnd, Carried, InOrder
<1>2. Step
  BY <1>1 DEF Step, Sinks!Ordered!Next, Sinks!Ordered!Hand
<1>3. InOrder' /\ Len(handed') = Len(handed) + 1
  BY <1>1, OneMore DEF InOrder
<1>4. CASE turn' = "recv" /\ UNCHANGED <<written, filled>>
  BY <1>1, <1>2, <1>3, <1>4 DEF BatchesInv, BatchesTypeOK, BothEnd, Carried
<1>5. CASE turn' = "returned" /\ written' = FALSE /\ filled' = <<>>
  <2>1. filled' \in Seq(Nat)
    BY <1>5
  <2>2. BatchesTypeOK' /\ Carried'
    BY <1>1, <1>3, <1>5, <2>1 DEF BatchesInv, BatchesTypeOK, Carried
  <2>3. BothEnd'
    BY <1>1, <1>5 DEF BatchesInv, BothEnd
  <2> QED BY <1>2, <2>2, <2>3 DEF BatchesInv
<1> QED BY <1>4, <1>5

LEMMA BatchesEnds == ASSUME BatchesInv, Units \in Nat, Sinks!Batches!End PROVE BatchesInv' /\ Step
<1> USE DEF Sinks!Batches!End, Sinks!Batches!Gone, Sinks!Batches!Result
<1>1. BatchesInv'
  BY DEF BatchesInv, BatchesTypeOK, BothEnd, Carried, InOrder
<1>2. CASE result /\ written
  <2>1. Len(handed) = Units
    BY <1>2 DEF BatchesInv, BatchesTypeOK, BothEnd, Carried, InOrder
  <2> QED BY <1>1, <1>2, <2>1 DEF Step, Sinks!Ordered!Next, Sinks!Ordered!End
<1>3. CASE ~(result /\ written)
  BY <1>1, <1>3 DEF Step, Sinks!Ordered!Next, Sinks!Ordered!End
<1> QED BY <1>2, <1>3

-----------------------------------------------------------------------------
(* All four.                                                               *)

SinksInv ==
  which = "sinks" =>
    \/ sink \in {"compress", "compress_max"} /\ CompressInv
    \/ sink = "decode" /\ DecodeInv
    \/ sink = "batches" /\ BatchesInv

\* What the threads and the units are.
LEMMA Constants ==
  ASSUME PartsAssumption PROVE Units \in Nat \ {0, 1} /\ Worker # {} /\ None \notin Worker
BY DEF PartsAssumption, Sinks!StreamsAssumption, Sinks!Decode!DecodeUnitsAssumption,
       Sinks!Batches!StreamBatchesAssumption

LEMMA CompressInitOK ==
  ASSUME PartsAssumption, Sinks!Compress!Init \/ Sinks!CompressMax!Init PROVE CompressInv
<1>1. turn = "look" /\ slot = 1 /\ error = FALSE /\ ended = "no"
  BY DEF Sinks!Compress!Init, Sinks!CompressMax!Init
<1>2. handed \in Seq(Nat) /\ Len(handed) = 0
  <2>1. handed = <<>>
    BY DEF Sinks!Compress!Init, Sinks!CompressMax!Init
  <2> QED BY <2>1
<1>3. Len(handed) = slot - 1
  BY <1>1, <1>2
<1>4. InOrder
  BY <1>2 DEF InOrder
<1>5. slot \in Nat /\ slot <= Units
  BY <1>1, Constants
<1> QED BY <1>1, <1>3, <1>4, <1>5 DEF CompressInv

LEMMA SinksInitOK == ASSUME PartsAssumption, Init PROVE SinksInv /\ Sinks!Ordered!Init
<1>1. CASE which = "sinks" /\ Sinks!Init
  <2>1. CASE sink = "compress" /\ Sinks!Compress!Init
    BY <1>1, <2>1, CompressInitOK DEF SinksInv, Sinks!Ordered!Init, Sinks!Compress!Init
  <2>2. CASE sink = "compress_max" /\ Sinks!CompressMax!Init
    BY <1>1, <2>2, CompressInitOK DEF SinksInv, Sinks!Ordered!Init, Sinks!CompressMax!Init
  <2>3. CASE sink = "decode" /\ Sinks!Decode!Init
    BY <1>1, <2>3, DecodeInitOK DEF SinksInv, Sinks!Ordered!Init, Sinks!Decode!Init
  <2>4. CASE sink = "batches" /\ Sinks!Batches!Init
    BY <1>1, <2>4, BatchesInitOK, Constants DEF SinksInv, Sinks!Ordered!Init, Sinks!Batches!Init
  <2> QED BY <1>1, <2>1, <2>2, <2>3, <2>4 DEF Sinks!Init
<1>2. CASE which # "sinks" /\ NoSinks
  BY <1>2 DEF SinksInv, NoSinks, Sinks!Ordered!Init
<1> QED BY <1>1, <1>2 DEF Init

LEMMA CompressNextKeeps ==
  ASSUME PartsAssumption, CompressInv, Sinks!Compress!Next \/ Sinks!CompressMax!Next
  PROVE  CompressInv' /\ [Step]_<<handed, ended>>
BY CompressTurns, CompressMaxTurns, TurnKeeps, Constants

LEMMA DecodeNextKeeps ==
  ASSUME PartsAssumption, DecodeInv, Sinks!Decode!Next PROVE DecodeInv' /\ [Step]_<<handed, ended>>
<1> Units \in Nat /\ Worker # {} /\ None \notin Worker
  BY Constants
<1>1. ASSUME NEW w \in Worker, Sinks!Decode!Work(w) PROVE DecodeInv' /\ [Step]_<<handed, ended>>
  <2>1. CASE Sinks!Decode!Take(w)
    BY <2>1, TakeKeeps DEF Sinks!Decode!Take
  <2>2. CASE Sinks!Decode!Decode(w)
    BY <2>2, DecodeKeeps DEF Sinks!Decode!Decode
  <2>3. CASE Sinks!Decode!Lock(w)
    BY <2>3, LockKeeps DEF Sinks!Decode!Lock
  <2>4. CASE Sinks!Decode!Hand(w)
    BY <2>4, HandKeeps
  <2>5. CASE Sinks!Decode!Unlock(w)
    BY <2>5, UnlockKeeps DEF Sinks!Decode!Unlock
  <2>6. CASE Sinks!Decode!Fail(w) \/ Sinks!Decode!Stop(w)
    BY <2>6, FailKeeps DEF Sinks!Decode!Fail, Sinks!Decode!Stop
  <2> QED BY <1>1, <2>1, <2>2, <2>3, <2>4, <2>5, <2>6 DEF Sinks!Decode!Work
<1>2. CASE Sinks!Decode!End
  BY <1>2, DecodeEnds
<1> QED BY <1>1, <1>2 DEF Sinks!Decode!Next

LEMMA BatchesNextKeeps ==
  ASSUME PartsAssumption, BatchesInv, Sinks!Batches!Next PROVE BatchesInv' /\ [Step]_<<handed, ended>>
<1> Units \in Nat
  BY Constants
<1>1. CASE Sinks!Batches!Send
  BY <1>1, SendKeeps DEF Sinks!Batches!Send
<1>2. CASE Sinks!Batches!Recv
  BY <1>2, RecvKeeps DEF Sinks!Batches!Recv
<1>3. CASE Sinks!Batches!Sink
  BY <1>3, SinkKeeps
<1>4. CASE Sinks!Batches!End
  BY <1>4, BatchesEnds
<1>5. CASE \/ Sinks!Batches!AllDecoded \/ Sinks!Batches!Buffer \/ Sinks!Batches!NoBuffer
           \/ Sinks!Batches!Decode \/ Sinks!Batches!SendFails
  <2>1. UNCHANGED <<handed, ended>>
    BY <1>5 DEF Sinks!Batches!AllDecoded, Sinks!Batches!Buffer, Sinks!Batches!NoBuffer, Sinks!Batches!Decode,
         Sinks!Batches!SendFails
  <2> QED BY <1>5, <2>1, CallKeeps
<1> QED BY <1>1, <1>2, <1>3, <1>4, <1>5 DEF Sinks!Batches!Next, Sinks!Batches!Call, Sinks!Batches!Write

LEMMA SinksRest == ASSUME SinksInv, UNCHANGED <<which, ofSinks>> PROVE SinksInv'
<1>1. UNCHANGED <<InOrder, CompressInv, DecodeInv, BatchesInv>>
  BY DEF ofSinks, InOrder, CompressInv, DecodeInv, DecodeTypeOK, Passed, Locked, Taken, Left, Failing,
         BatchesInv, BatchesTypeOK, Carried, BothEnd
<1> QED BY <1>1 DEF SinksInv, ofSinks

\* A step of the parts is one of the streams', or leaves them alone.
LEMMA StepsOfSinks ==
  [Next]_vars => \/ which = "sinks" /\ Sinks!Next /\ which' = which
                 \/ UNCHANGED <<which, ofSinks>>
BY DEF Next, vars, InWriter, InSinks, ofSinks

LEMMA SinksStep ==
  ASSUME PartsAssumption, SinksInv, [Next]_vars PROVE SinksInv' /\ [Step]_<<handed, ended>>
<1>1. CASE UNCHANGED <<which, ofSinks>>
  BY <1>1, SinksRest DEF ofSinks
<1>2. CASE which = "sinks" /\ Sinks!Next /\ which' = which
  <2>1. CASE Sinks!InCompress(Sinks!Compress!Next)
    BY <1>2, <2>1, CompressNextKeeps DEF SinksInv, Sinks!InCompress
  <2>2. CASE Sinks!InCompressMax(Sinks!CompressMax!Next)
    BY <1>2, <2>2, CompressNextKeeps DEF SinksInv, Sinks!InCompressMax
  <2>3. CASE Sinks!InDecode(Sinks!Decode!Next)
    BY <1>2, <2>3, DecodeNextKeeps DEF SinksInv, Sinks!InDecode
  <2>4. CASE Sinks!InBatches(Sinks!Batches!Next)
    BY <1>2, <2>4, BatchesNextKeeps DEF SinksInv, Sinks!InBatches
  <2> QED BY <1>2, <2>1, <2>2, <2>3, <2>4 DEF Sinks!Next
<1> QED BY <1>1, <1>2, StepsOfSinks

\* compress_stream, compress_max_stream, decode_units_to and stream_batches implement what is
\* promised of their sink: every unit in order, once, and Ok only after the last.
THEOREM StreamsAreOrdered == Spec => ImplementsOrdered
<1>1. Init => SinksInv /\ Sinks!Ordered!Init
  BY SinksInitOK, PartsAssumption
<1>2. SinksInv /\ [Next]_vars => SinksInv' /\ [Step]_<<handed, ended>>
  BY SinksStep, PartsAssumption
<1>3. ImplementsOrdered <=> Sinks!Ordered!Init /\ [][Step]_<<handed, ended>>
  BY DEF ImplementsOrdered, Sinks!ImplementsOrdered, Sinks!Ordered!Spec, Step
<1> QED BY <1>1, <1>2, <1>3, PTL DEF Spec

=============================================================================
