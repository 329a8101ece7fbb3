----------------------------- MODULE GlydStream -----------------------------
(***************************************************************************)
(* GlydWriter and GlydReader (src/src/streaming.rs) over a file. The bytes *)
(* a caller writes are numbered; a block of lo..hi is HeaderLen bytes of   *)
(* header and a payload, byte k of it <<lo, hi, k>>. The payload's         *)
(* checksum and the header's magic tell a block from anything else.        *)
(***************************************************************************)
EXTENDS Integers, Sequences

CONSTANTS
  MaxBlock,    \* MAX_BLOCK_SIZE
  HeaderLen,   \* HEADER_SIZE
  MaxBytes,    \* bound: bytes written
  MaxCall,     \* bound: bytes of one call of write or read
  MaxFaults    \* bound: calls of the file that fail

GlydStreamAssumption ==
  /\ MaxBlock \in Nat \ {0} /\ HeaderLen \in Nat \ {0, 1}
  /\ MaxBytes \in Nat /\ MaxCall \in Nat \ {0} /\ MaxFaults \in Nat

VARIABLES
  taken,    \* bytes the writer has taken
  stored,   \* of them, those in blocks stored whole: the buffer is the rest
  file,     \* the bytes of the file
  writer,   \* "open", "finished" (with Ok), "dropped" or "killed"
  torn,     \* history: a failing call has stored a part of a block
  faults,
  pos,      \* the reader's place in the file
  held,     \* decompressed and not yet read
  eof,      \* eof_reached
  read,     \* history: the bytes read
  refused   \* "no", "data" or "io": why the last read has failed

ofWriter == <<taken, stored, file, writer, torn>>
ofReader == <<pos, held, eof, read, refused>>
vars == <<ofWriter, faults, ofReader>>

-----------------------------------------------------------------------------
(* Writing.                                                                *)

BlockLen(lo, hi) == HeaderLen + (hi - lo + 1)
Block(lo, hi) == [k \in 1..BlockLen(lo, hi) |-> <<lo, hi, k>>]
Part(lo, hi, k) == SubSeq(Block(lo, hi), 1, k)

\* n full blocks from lo on, one after another.
Blocks(lo, n) ==
  LET len == BlockLen(1, MaxBlock)
      Start(i) == lo + ((i - 1) \div len) * MaxBlock
  IN  [i \in 1..n * len |-> Block(Start(i), Start(i) + MaxBlock - 1)[1 + ((i - 1) % len)]]

Buffered == taken - stored
Fail == faults < MaxFaults /\ faults' = faults + 1
Ends(w) == writer' = w
StaysOpen == UNCHANGED writer

Flush_kept(file0, lo, hi) ==
  /\ file' = IF lo > hi THEN file0 ELSE file0 \o Block(lo, hi)
  /\ stored' = IF lo > hi THEN hi ELSE lo - 1

\* `flush_current_block` of the bytes up to hi: the block and an empty buffer.
Flush(file0, lo, hi) ==
  /\ file' = IF lo > hi THEN file0 ELSE file0 \o Block(lo, hi)
  /\ stored' = hi

\* It fails, k bytes of the block stored: the buffer keeps them all.
FlushFails(file0, lo, hi, k) ==
  /\ lo <= hi /\ k < BlockLen(lo, hi) /\ Fail
  /\ file' = file0 \o Part(lo, hi, k)
  /\ stored' = lo - 1
  /\ torn' = (torn \/ k > 0)

\* Blocks that a write of n bytes fills: one first where a failure has left
\* the buffer full.
Filled(n) == IF n = 0 THEN 0 ELSE (Buffered + n) \div MaxBlock

write(n) ==
  /\ writer = "open" /\ taken + n <= MaxBytes
  /\ taken' = taken + n
  /\ file' = file \o Blocks(stored + 1, Filled(n))
  /\ stored' = stored + Filled(n) * MaxBlock
  /\ UNCHANGED <<torn, faults>> /\ StaysOpen

\* The block after the first f fails: what filled it is taken, the rest not.
WriteFails(n, f, k) ==
  LET lo == stored + f * MaxBlock + 1
      hi == lo + MaxBlock - 1
  IN  /\ writer = "open" /\ taken + n <= MaxBytes /\ f < Filled(n)
      /\ taken' = hi
      /\ FlushFails(file \o Blocks(stored + 1, f), lo, hi, k) /\ StaysOpen

flush ==
  /\ writer = "open"
  /\ Flush(file, stored + 1, taken) /\ StaysOpen
  /\ UNCHANGED <<taken, torn, faults>>

FlushCallFails(k) ==
  /\ writer = "open"
  /\ FlushFails(file, stored + 1, taken, k) /\ StaysOpen
  /\ UNCHANGED taken

\* `finish` returns Ok.
finish ==
  /\ writer = "open"
  /\ Flush(file, stored + 1, taken) /\ Ends("finished")
  /\ UNCHANGED <<taken, torn, faults>>

\* `drop`, and `finish` whose own flush of the file fails: the block is
\* stored, nobody learns whether.
drop ==
  /\ writer = "open"
  /\ Flush(file, stored + 1, taken) /\ Ends("dropped")
  /\ UNCHANGED <<taken, torn, faults>>

DropFails(k) ==
  /\ writer = "open"
  /\ FlushFails(file, stored + 1, taken, k) /\ Ends("dropped")
  /\ UNCHANGED taken

\* `finish` whose block fails drops the writer, which stores the block again,
\* after what is there of it.
FinishFails(k) ==
  /\ writer = "open" /\ Ends("dropped")
  /\ stored < taken /\ k < BlockLen(stored + 1, taken) /\ Fail
  /\ Flush(file \o Part(stored + 1, taken, k), stored + 1, taken)
  /\ torn' = (torn \/ k > 0)
  /\ UNCHANGED taken

\* That fails as well.
FinishFailsTwice(k, j) ==
  /\ writer = "open" /\ Ends("dropped")
  /\ stored < taken /\ k < BlockLen(stored + 1, taken) /\ j < BlockLen(stored + 1, taken)
  /\ faults + 2 <= MaxFaults /\ faults' = faults + 2
  /\ file' = file \o Part(stored + 1, taken, k) \o Part(stored + 1, taken, j)
  /\ torn' = (torn \/ k + j > 0)
  /\ UNCHANGED <<taken, stored>>

\* The process is killed: within a block, after a call that fails in it.
Kill ==
  /\ writer = "open" /\ Ends("killed")
  /\ UNCHANGED <<taken, stored, file, torn, faults>>

Write ==
  /\ \/ \E n \in 0..MaxCall : write(n)
     \/ \E n \in 0..MaxCall, f \in 0..MaxCall, k \in 0..BlockLen(1, MaxBlock) : WriteFails(n, f, k)
     \/ flush
     \/ \E k \in 0..BlockLen(1, MaxBlock) : FlushCallFails(k) \/ DropFails(k) \/ FinishFails(k)
     \/ \E k, j \in 0..BlockLen(1, MaxBlock) : FinishFailsTwice(k, j)
     \/ finish \/ drop \/ Kill
  /\ UNCHANGED ofReader

-----------------------------------------------------------------------------
(* Reading, once the writer is gone. A caller stops at an error.           *)

Left == Len(file) - pos
IsHeader == \E b \in {file[pos + 1]} : \A k \in 1..HeaderLen : file[pos + k] = <<b[1], b[2], k>>
Lo == file[pos + 1][1]
Hi == file[pos + 1][2]
IsPayload == \A k \in HeaderLen + 1..BlockLen(Lo, Hi) : file[pos + k] = <<Lo, Hi, k>>

CanRead == writer # "open" /\ refused = "no"
Refuse(why) == refused' = why /\ UNCHANGED <<held, eof, read, faults>>

\* At most n of the bytes held.
Give(bytes, n) ==
  LET m == IF n < Len(bytes) THEN n ELSE Len(bytes)
  IN  /\ read' = read \o SubSeq(bytes, 1, m)
      /\ held' = SubSeq(bytes, m + 1, Len(bytes))

ReadHeld(n) ==
  /\ held # <<>>
  /\ Give(held, n)
  /\ UNCHANGED <<pos, eof, refused, faults>>

\* Too little for a header is the end, be it nothing or a part of one.
ReadEnd ==
  /\ held = <<>> /\ ~eof /\ Left < HeaderLen
  /\ eof' = TRUE /\ pos' = Len(file)
  /\ UNCHANGED <<held, read, refused, faults>>

\* `read_next_block`, and the first of its bytes.
ReadBlock(n) ==
  /\ held = <<>> /\ ~eof /\ Left >= HeaderLen
  /\ IsHeader /\ Left >= BlockLen(Lo, Hi) /\ IsPayload
  /\ pos' = pos + BlockLen(Lo, Hi)
  /\ Give([i \in 1..(Hi - Lo + 1) |-> Lo + i - 1], n)
  /\ UNCHANGED <<eof, refused, faults>>

\* "Invalid Glyd magic", a payload cut short, or one the checksum refuses.
ReadRefused ==
  /\ held = <<>> /\ ~eof /\ Left >= HeaderLen
  /\ \/ ~IsHeader /\ pos' = pos + HeaderLen
     \/ IsHeader /\ Left < BlockLen(Lo, Hi) /\ pos' = Len(file)
     \/ IsHeader /\ Left >= BlockLen(Lo, Hi) /\ ~IsPayload /\ pos' = pos + BlockLen(Lo, Hi)
  /\ Refuse("data")

\* The file fails under the header or the payload, a part of it read.
ReadFails(k) ==
  /\ held = <<>> /\ ~eof /\ k <= Left /\ faults < MaxFaults
  /\ pos' = pos + k /\ faults' = faults + 1 /\ refused' = "io"
  /\ UNCHANGED <<held, eof, read>>

Read ==
  /\ CanRead
  /\ \/ \E n \in 1..MaxCall : ReadHeld(n) \/ ReadBlock(n)
     \/ ReadEnd \/ ReadRefused
     \/ \E k \in 0..BlockLen(1, MaxBlock) : ReadFails(k)
  /\ UNCHANGED ofWriter

Init ==
  /\ taken = 0 /\ stored = 0 /\ file = <<>> /\ writer = "open" /\ torn = FALSE /\ faults = 0
  /\ pos = 0 /\ held = <<>> /\ eof = FALSE /\ read = <<>> /\ refused = "no"

Next == Write \/ Read

-----------------------------------------------------------------------------

\* Whatever fails and however often it is tried again, what the reader gives is
\* what was written, in order, from the start; and after a `finish` with Ok it
\* is all of it, with no block refused, unless a failing call has stored a part
\* of a block.
ReadIsWritten ==
  /\ Len(read) <= taken /\ \A i \in 1..Len(read) : read[i] = i
  /\ writer = "finished" /\ ~torn => refused # "data" /\ (eof => Len(read) = taken)

=============================================================================
