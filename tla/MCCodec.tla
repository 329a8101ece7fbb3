------------------------------ MODULE MCCodec ------------------------------
(***************************************************************************)
(* Parts of the codec that code and decode, each with its decoder after    *)
(* it: a sequence's codes, the table ANS coder, the tables blocks take     *)
(* over, and the writer and reader of a file. An initial state chooses one.*)
(***************************************************************************)
EXTENDS Integers, Sequences, FiniteSets, TLC

CONSTANTS
  None,
  LitLens, MatchLens, Offsets,
  TL, MAX_SYMBOLS, HALF, Hists, CountHists, MaxSymbols,
  Thread, CodeStream, MaxBlocks,
  MaxBlock, HeaderLen, MaxBytes, MaxCall, MaxFaults

VARIABLES which,
  coder, parser, decoder,
  hist, tables, syms, stream, at, state, out,
  dict, blocks, prev, closed, kept, call,
  taken, stored, file, writer, torn, faults, pos, held, eof, read, refused

ofSequences == <<coder, parser, decoder>>
ofTans == <<hist, tables, syms, stream, at, state, out>>
ofBlocks == <<dict, blocks, prev, closed, kept, call>>
ofPipe == <<taken, stored, file, writer, torn, faults, pos, held, eof, read, refused>>
vars == <<which, ofSequences, ofTans, ofBlocks, ofPipe>>

\* The code's own sizes.
Sequence == INSTANCE SequenceCodes WITH MaxBlock <- 2^18, WalkBits <- 57

\* Lengths at the bounds of the codes' ranges; of the offsets one is far, one is in the
\* history from the start.
BoundLitLens == {0, 15, 16, 47, 48, 64, 2^17}
BoundMatchLens == {3, 34, 35, 130, 131, 2^17}
SomeOffsets == {1, 4, 5, 2^22 + 1, 2^26 + 1}

Coder == INSTANCE Tans

\* The same with nothing encoded, for more histograms.
Counts == INSTANCE Tans WITH MaxSymbols <- 0, Hists <- CountHists

\* For a table of 16, and 8 symbols at most, which are to it as 64 are to one of 1024.
\* Three histograms: one symbol alone, counts that are no powers of two, rare symbols.
ThreeHists == {[s \in 0..0 |-> 3], [s \in 0..2 |-> <<5, 0, 11>>[s + 1]],
               [s \in 0..3 |-> <<1, 60, 1, 20>>[s + 1]]}

\* Every mix of absent, rare and frequent symbols.
MixedHists == UNION {[0..(n - 1) -> {0, 1, 40}] : n \in {1, 3, 8}}

\* Two of the three code streams: enough for one to be raw and the other not. Which
\* is which makes no difference.
Blocks == INSTANCE BlockTables WITH Codes <- CodeStream, tables <- kept

Pipe == INSTANCE GlydStream

ASSUME CodecAssumption ==
  /\ Sequence!SequenceCodesAssumption /\ Coder!TansAssumption /\ Counts!TansAssumption
  /\ Blocks!BlockTablesAssumption /\ Pipe!GlydStreamAssumption

NoSequences == coder = None /\ parser = None /\ decoder = None
NoTans ==
  /\ hist = None /\ tables = None /\ syms = None /\ stream = None
  /\ at = None /\ state = None /\ out = None
NoBlocks ==
  dict = None /\ blocks = None /\ prev = None /\ closed = None /\ kept = None /\ call = None
NoPipe ==
  /\ taken = None /\ stored = None /\ file = None /\ writer = None /\ torn = None /\ faults = None
  /\ pos = None /\ held = None /\ eof = None /\ read = None /\ refused = None

Symmetry == Permutations(CodeStream)

Init ==
  \/ which = "sequences" /\ Sequence!Init /\ NoTans /\ NoBlocks /\ NoPipe
  \/ which = "tans" /\ Coder!Init /\ NoSequences /\ NoBlocks /\ NoPipe
  \/ which = "counts" /\ Counts!Init /\ NoSequences /\ NoBlocks /\ NoPipe
  \/ which = "blocks" /\ Blocks!Init /\ NoSequences /\ NoTans /\ NoPipe
  \/ which = "pipe" /\ Pipe!Init /\ NoSequences /\ NoTans /\ NoBlocks

Next ==
  \/ which = "sequences" /\ Sequence!Next /\ UNCHANGED <<which, ofTans, ofBlocks, ofPipe>>
  \/ which = "tans" /\ Coder!Next /\ UNCHANGED <<which, ofSequences, ofBlocks, ofPipe>>
  \/ which = "blocks" /\ Blocks!Next /\ UNCHANGED <<which, ofSequences, ofTans, ofPipe>>
  \/ which = "pipe" /\ Pipe!Next /\ UNCHANGED <<which, ofSequences, ofTans, ofBlocks>>

Spec == Init /\ [][Next]_vars

-----------------------------------------------------------------------------

\* "Repeat-offset state, identical on both sides", and every sequence decodes.
SequencesDecode == which = "sequences" => Sequence!SequencesDecode

\* The counts fill the table, as normalize's comment "holds for any histogram" has it, and
\* the table ANS decoder gives back what the encoder was given.
TansDecodes ==
  /\ which \in {"tans", "counts"} => Coder!CountsFillTable
  /\ which = "tans" => Coder!Decodes

\* A block that asks for the last tables gets those it was coded with, and the tables a
\* call decodes with are its own or its dictionary's.
InStep == which = "blocks" => Blocks!InStep /\ Blocks!OfThisCall

\* GlydReader gives what GlydWriter took, through every failure of the file.
ReadIsWritten == which = "pipe" => Pipe!ReadIsWritten

=============================================================================
