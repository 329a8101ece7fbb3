---------------------------- MODULE BlockTables ----------------------------
(***************************************************************************)
(* The entropy tables a coded block takes over from the block before it.   *)
(* The encoder (compress_max_from, a stripe of compress_max_stream) keeps  *)
(* them in `prev`; a decoder keeps its own in a thread-local variable that *)
(* outlives the call, or, with a dictionary, in tables made for the call.  *)
(* Blocks are written to one stream; calls then decode the whole stream, a *)
(* unit of it on some thread, or a stream that was cut at a block.         *)
(*                                                                         *)
(* A table is named by the attempt that made it: 2 * n by the parse of     *)
(* block n, 2 * n + 1 by its second coding as literals alone. What a table *)
(* costs, and whether it covers the block, are choices.                    *)
(***************************************************************************)
EXTENDS Integers, Sequences

CONSTANTS
  Thread,     \* threads that decode
  Codes,      \* the code streams of the sequences: ll, ml, off
  MaxBlocks   \* blocks of the stream

BlockTablesAssumption == MaxBlocks \in Nat /\ "lit" \notin Codes

VARIABLES
  dict,       \* whether the stream is made with a dictionary
  blocks,     \* the blocks written
  prev,       \* the encoder's tables
  closed,     \* whether the stream is complete
  tables,     \* V7_TABLES of each thread, or a dictionary call's own
  call        \* what each thread decodes

vars == <<dict, blocks, prev, closed, tables, call>>

NoTable == 0
DictTable == 1
Slot == {"lit"} \cup Codes

NoTables == [lit |-> NoTable, seq |-> NoTable]
DictTables == [lit |-> DictTable, seq |-> DictTable]

-----------------------------------------------------------------------------
(* The encoder.                                                            *)

\* How encode_block_coded may code a block: the literals raw, with a fresh table
\* or the last; the codes with the last tables when all three are coded, else
\* any of them raw and the others each with a fresh table.
Codings(before) ==
  [lit : {"raw", "fresh"} \cup (IF before.lit = NoTable THEN {} ELSE {"reuse"}),
   reuse : {FALSE}, coded : SUBSET Codes]
  \cup
  IF before.seq = NoTable THEN {} ELSE
  [lit : {"raw", "fresh"} \cup (IF before.lit = NoTable THEN {} ELSE {"reuse"}),
   reuse : {TRUE}, coded : {Codes}]

\* The encoder's tables after it: those of the codes go when one was raw.
After(before, c, name) ==
  [lit |-> IF c.lit = "fresh" THEN name ELSE before.lit,
   seq |-> IF c.reuse THEN before.seq ELSE IF c.coded = Codes THEN name ELSE NoTable]

RawCoding == [lit |-> "raw", reuse |-> FALSE, coded |-> {}]

Name(n, alt) == 2 * n + IF alt THEN 1 ELSE 0

\* The tables a block starts from: a unit's first block from the dictionary's or
\* none, a stripe's from none, any other from the last block's. Only a unit's
\* first carries the chain reset, and none of a dictionary's stream.
Start(chain) ==
  CASE chain = "unit" -> IF dict THEN DictTables ELSE NoTables
    [] chain = "stripe" -> NoTables
    [] chain = "next" -> prev

Chains ==
  IF blocks = <<>> THEN {"unit"} ELSE IF dict THEN {"next"} ELSE {"unit", "stripe", "next"}

CodedAgainFrom_after(before, after) == after

\* literals_only_if_smaller codes the block again from a copy of the tables made
\* before the parse was coded.
CodedAgainFrom(before, after) == before

Add(c, raw, reset, name, before) ==
  blocks' = Append(blocks,
    [coding |-> c, raw |-> raw, reset |-> reset, table |-> name, before |-> before])

\* One block: as parsed, or as literals alone when that is smaller; stored raw when
\* neither is smaller than it, which forgets the tables.
WriteBlock ==
  /\ ~closed /\ Len(blocks) < MaxBlocks
  /\ \E chain \in Chains :
       LET before == Start(chain)
           n == Len(blocks) + 1
           reset == chain = "unit" /\ ~dict
           parsed(c) == After(before, c, Name(n, FALSE))
       IN \/ \E c \in Codings(before) :
               Add(c, FALSE, reset, Name(n, FALSE), before) /\ prev' = parsed(c)
          \/ \E after \in {parsed(c) : c \in Codings(before)} :
               LET again == CodedAgainFrom(before, after)
               IN \E alt \in Codings(again) :
                    /\ Add(alt, FALSE, reset, Name(n, TRUE), again)
                    /\ prev' = After(again, alt, Name(n, TRUE))
          \/ Add(RawCoding, TRUE, reset, Name(n, FALSE), before) /\ prev' = NoTables
  /\ UNCHANGED <<dict, closed, tables, call>>

Close ==
  /\ ~closed /\ blocks # <<>>
  /\ closed' = TRUE
  /\ UNCHANGED <<dict, blocks, prev, tables, call>>

-----------------------------------------------------------------------------
(* The decoder.                                                            *)

NoCall == [on |-> FALSE, from |-> 1, at |-> 1, to |-> 0, dict |-> FALSE]

\* A unit starts at a chain reset, and at the first block whatever it says.
StartsUnit(k) == k = 1 \/ blocks[k].reset
UnitEnds(k) == \A b \in {k + 1} \cap DOMAIN blocks : blocks[b].reset

SlotsOf(t) == [s \in Slot |-> t]

Decodes(t, k, e, d) ==
  call' = [call EXCEPT ![t] = [on |-> TRUE, from |-> k, at |-> k, to |-> e, dict |-> d]]

\* decompress_sequential_impl over the stream, or over one that begins at its
\* k-th block; with a dictionary its tables are the call's.
StartSequential(t, k, d) ==
  /\ Decodes(t, k, Len(blocks), d)
  /\ tables' = [tables EXCEPT ![t] = SlotsOf(IF d THEN DictTable ELSE NoTable)]

\* decode_units: a unit on the thread that takes it. scan_units refuses a stream
\* whose coded blocks name a dictionary.
StartUnit(t, k, e) ==
  /\ \A b \in 1..Len(blocks) : blocks[b].raw \/ ~dict
  /\ StartsUnit(k) /\ UnitEnds(e) /\ k <= e /\ \A b \in (k + 1)..e : ~blocks[b].reset
  /\ Decodes(t, k, e, FALSE)
  /\ tables' = [tables EXCEPT ![t] = SlotsOf(NoTable)]

Begin(t) ==
  /\ closed /\ ~call[t].on
  /\ \/ \E k \in 1..Len(blocks), d \in BOOLEAN : StartSequential(t, k, d)
     \/ \E k, e \in 1..Len(blocks) : StartUnit(t, k, e)
  /\ UNCHANGED <<dict, blocks, prev, closed>>

\* decode_block's tables before the block: a chain reset empties a thread's own.
AtBlock(t) ==
  IF blocks[call[t].at].reset /\ ~call[t].dict THEN SlotsOf(NoTable) ELSE tables[t]

\* The sections of a block that carry a table.
Fresh(b) ==
  {s \in Slot : IF s = "lit" THEN b.coding.lit = "fresh" ELSE s \in b.coding.coded /\ ~b.coding.reuse}

\* code_stream_open and literals: a section's own table replaces the slot's.
Built(old, b, slots) == [s \in Slot |-> IF s \in slots THEN b.table ELSE old[s]]

\* `sequences` at its end: the three go when one of the codes was raw.
Dropped(b, new) ==
  IF b.coding.coded = Codes THEN new ELSE [s \in Slot |-> IF s = "lit" THEN new[s] ELSE NoTable]

\* "Table reuse without a table".
Missing(b, old) ==
  \/ b.coding.lit = "reuse" /\ old["lit"] = NoTable
  \/ b.coding.reuse /\ \E s \in Codes : old[s] = NoTable

\* "Dictionary id mismatch": a raw block names none.
Refused(t, b) == ~b.raw /\ dict # call[t].dict

Step(c) == [c EXCEPT !.at = c.at + 1, !.on = c.at < c.to]

DecodeBlock(t) ==
  /\ call[t].on
  /\ LET b == blocks[call[t].at]
         old == AtBlock(t)
     IN /\ ~Refused(t, b)
        /\ \/ b.raw /\ UNCHANGED tables
           \/ /\ ~b.raw /\ ~Missing(b, old)
              /\ tables' = [tables EXCEPT ![t] = Dropped(b, Built(old, b, Fresh(b)))]
  /\ call' = [call EXCEPT ![t] = Step(call[t])]
  /\ UNCHANGED <<dict, blocks, prev, closed>>

\* An error ends the call: of the block's own (refused, a missing table) or of its
\* bytes, with some of its tables built by then, which the thread keeps.
FailBlock(t) ==
  /\ call[t].on
  /\ LET b == blocks[call[t].at]
         built == IF Refused(t, b) \/ b.raw THEN {} ELSE SUBSET Fresh(b)
     IN \/ built = {} /\ UNCHANGED tables
        \/ \E slots \in built : tables' = [tables EXCEPT ![t] = Built(AtBlock(t), b, slots)]
  /\ call' = [call EXCEPT ![t] = [call[t] EXCEPT !.on = FALSE]]
  /\ UNCHANGED <<dict, blocks, prev, closed>>

Init ==
  /\ dict \in BOOLEAN
  /\ blocks = <<>> /\ prev = NoTables /\ closed = FALSE
  /\ tables = [t \in Thread |-> SlotsOf(NoTable)]
  /\ call = [t \in Thread |-> NoCall]

Next == WriteBlock \/ Close \/ \E t \in Thread : Begin(t) \/ DecodeBlock(t) \/ FailBlock(t)

Spec == Init /\ [][Next]_vars

-----------------------------------------------------------------------------
(* Properties.                                                             *)

\* The table a section of block b was coded with.
CodedWith(b, s) ==
  IF s = "lit" THEN (IF b.coding.lit = "reuse" THEN b.before.lit ELSE b.table)
  ELSE IF b.coding.reuse THEN b.before.seq ELSE b.table

Reuses(b, s) == ~b.raw /\ IF s = "lit" THEN b.coding.lit = "reuse" ELSE b.coding.reuse

\* A call for what the encoder wrote: a unit or the whole stream, with the
\* dictionary it was made with.
Whole(c) == c.on /\ StartsUnit(c.from) /\ c.dict = dict

\* "Kept exactly as the encoder keeps its own": a block that asks for the last
\* tables is decoded with those it was coded with, on whichever thread.
InStep ==
  \A t \in Thread : Whole(call[t]) =>
    LET b == blocks[call[t].at]
    IN \A s \in Slot : Reuses(b, s) => AtBlock(t)[s] = CodedWith(b, s)

\* "So a stream whose first block asks for reuse fails the same way on any
\* thread": a call's tables are of blocks it decoded, or of its dictionary, never
\* of a call before it on the thread.
OfThisCall ==
  \A t \in Thread : call[t].on =>
    \A s \in Slot :
      \/ tables[t][s] = NoTable
      \/ tables[t][s] = DictTable /\ call[t].dict
      \/ \E k \in call[t].from..(call[t].at - 1) : tables[t][s] = blocks[k].table

=============================================================================
