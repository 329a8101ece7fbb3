---------------------------- MODULE Codec_proofs ----------------------------
(***************************************************************************)
(* Theorems about parts of MCCodec: the tables that blocks take over       *)
(* (BlockTables), for every number of threads, code streams and blocks; the*)
(* writer and reader of a file (GlydStream), for every size of blocks and  *)
(* headers, every length of a file and number of failures; the codes of a  *)
(* block's sequences (SequenceCodes), for every literal run, match and     *)
(* offset of a block, in any order; and the table ANS coder (Tans), for    *)
(* every size of its table, every histogram and every run of symbols.      *)
(***************************************************************************)
EXTENDS MCCodec, SequenceTheorems, FiniteSetTheorems, WellFoundedInduction, TLAPS

Slot == Blocks!Slot
Pair == [lit : Nat, seq : Nat]
Coding == [lit : {"raw", "fresh", "reuse"}, reuse : BOOLEAN, coded : SUBSET CodeStream]
Block == [coding : Coding, raw : BOOLEAN, reset : BOOLEAN, table : Nat, before : Pair]
Call == [on : BOOLEAN, from : Nat, at : Nat, to : Nat, dict : BOOLEAN]

\* A coding reuses tables only where there are some.
CanReuse(c, before) ==
  /\ c.lit = "reuse" => before.lit # Blocks!NoTable
  /\ c.reuse => before.seq # Blocks!NoTable /\ c.coded = CodeStream

\* The encoder's tables after a block.
AfterBlock(b) == IF b.raw THEN Blocks!NoTables ELSE Blocks!After(b.before, b.coding, b.table)

\* The tables of a stream's first block.
First(d) == IF d THEN Blocks!DictTables ELSE Blocks!NoTables

\* A block starts from the tables after the one before it, or from none; from none where the
\* chain is reset, which is never under a dictionary.
ChainOK(b, before) ==
  /\ b.before = before \/ b.before = Blocks!NoTables
  /\ b.reset => b.before = Blocks!NoTables

BlocksTypeOK ==
  /\ dict \in BOOLEAN /\ blocks \in Seq(Block) /\ prev \in Pair /\ closed \in BOOLEAN
  /\ kept \in [Thread -> [Slot -> Nat]] /\ call \in [Thread -> Call]

Chained ==
  /\ \A k \in 1..Len(blocks) : CanReuse(blocks[k].coding, blocks[k].before)
  /\ \A k \in 1..Len(blocks) : blocks[k].reset => ~dict
  /\ \A k \in 1..Len(blocks) : k = 1 => blocks[k].before = First(dict)
  /\ \A k \in 1..Len(blocks) : k # 1 => ChainOK(blocks[k], AfterBlock(blocks[k - 1]))
  /\ Len(blocks) # 0 => prev = AfterBlock(blocks[Len(blocks)])

\* The decoder has the tables the encoder has, where the encoder has any.
Follows(dec, enc) ==
  /\ enc.lit # Blocks!NoTable => dec["lit"] = enc.lit
  /\ enc.seq # Blocks!NoTable => \A s \in CodeStream : dec[s] = enc.seq

Calls ==
  \A t \in Thread : call[t].on =>
    /\ closed /\ 1 <= call[t].from /\ call[t].from <= call[t].at
    /\ call[t].at <= call[t].to /\ call[t].to <= Len(blocks)

InPace ==
  \A t \in Thread : Blocks!Whole(call[t]) =>
    Follows(Blocks!AtBlock(t), blocks[call[t].at].before)

BlocksInv == which = "blocks" => BlocksTypeOK /\ Chained /\ Calls /\ InPace /\ Blocks!OfThisCall

-----------------------------------------------------------------------------
(* One block.                                                              *)

LEMMA NamesOfTables ==
  /\ Blocks!NoTable \in Nat /\ Blocks!DictTable \in Nat
  /\ Blocks!NoTables \in Pair /\ Blocks!DictTables \in Pair
  /\ Blocks!NoTables.lit = Blocks!NoTable /\ Blocks!NoTables.seq = Blocks!NoTable
  /\ Blocks!DictTables.lit = Blocks!DictTable /\ Blocks!DictTables.seq = Blocks!DictTable
BY DEF Blocks!NoTable, Blocks!DictTable, Blocks!NoTables, Blocks!DictTables, Pair

LEMMA Slots == Slot = {"lit"} \cup CodeStream
BY DEF Slot, Blocks!Slot

LEMMA LitIsNoCode == "lit" \notin CodeStream
BY CodecAssumption DEF Blocks!BlockTablesAssumption

LEMMA AfterType == ASSUME NEW before \in Pair, NEW c \in Coding, NEW n \in Nat
                   PROVE  Blocks!After(before, c, n) \in Pair
BY NamesOfTables DEF Pair, Coding, Blocks!After

LEMMA CodingsType ==
  ASSUME NEW before \in Pair, NEW c \in Blocks!Codings(before)
  PROVE  c \in Coding /\ CanReuse(c, before)
BY DEF Blocks!Codings, Coding, CanReuse

LEMMA BuiltType ==
  ASSUME NEW old \in [Slot -> Nat], NEW b \in Block, NEW slots
  PROVE  Blocks!Built(old, b, slots) \in [Slot -> Nat]
BY DEF Blocks!Built, Slot, Block

LEMMA DroppedType ==
  ASSUME NEW new \in [Slot -> Nat], NEW b \in Block PROVE Blocks!Dropped(b, new) \in [Slot -> Nat]
BY NamesOfTables DEF Blocks!Dropped, Slot

LEMMA SlotsOfType == ASSUME NEW n \in Nat PROVE Blocks!SlotsOf(n) \in [Slot -> Nat]
BY DEF Blocks!SlotsOf, Slot

\* A decoder in step before a block is in step after it.
LEMMA BlockFollows ==
  ASSUME NEW b \in Block, ~b.raw, CanReuse(b.coding, b.before),
         NEW old \in [Slot -> Nat], Follows(old, b.before)
  PROVE  Follows(Blocks!Dropped(b, Blocks!Built(old, b, Blocks!Fresh(b))), AfterBlock(b))
<1> DEFINE new == Blocks!Built(old, b, Blocks!Fresh(b))
           dec == Blocks!Dropped(b, new)
<1>1. "lit" \in Slot /\ \A s \in CodeStream : s \in Slot /\ s # "lit"
  BY Slots, LitIsNoCode
<1>2. dec["lit"] = new["lit"]
  BY <1>1 DEF Blocks!Dropped, Slot
<1>3. new["lit"] = IF b.coding.lit = "fresh" THEN b.table ELSE old["lit"]
  BY <1>1 DEF Blocks!Built, Blocks!Fresh, Slot
<1>4. ASSUME NEW s \in CodeStream
      PROVE  new[s] = IF s \in b.coding.coded /\ ~b.coding.reuse THEN b.table ELSE old[s]
  BY <1>1 DEF Blocks!Built, Blocks!Fresh, Slot
<1>5. b.coding.coded = CodeStream => dec = new
  BY DEF Blocks!Dropped
<1>6. /\ AfterBlock(b).lit = IF b.coding.lit = "fresh" THEN b.table ELSE b.before.lit
      /\ AfterBlock(b).seq = IF b.coding.reuse THEN b.before.seq
                             ELSE IF b.coding.coded = CodeStream THEN b.table ELSE Blocks!NoTable
  BY DEF AfterBlock, Blocks!After
<1> HIDE DEF new, dec
<1>7. AfterBlock(b).lit # Blocks!NoTable => dec["lit"] = AfterBlock(b).lit
  BY <1>2, <1>3, <1>6 DEF Follows
<1>8. ASSUME AfterBlock(b).seq # Blocks!NoTable, NEW s \in CodeStream PROVE dec[s] = AfterBlock(b).seq
  <2>1. CASE b.coding.reuse
    <3>1. b.coding.coded = CodeStream /\ AfterBlock(b).seq = b.before.seq
      BY <2>1, <1>6 DEF CanReuse
    <3>2. dec[s] = old[s]
      BY <2>1, <3>1, <1>4, <1>5
    <3> QED BY <3>1, <3>2, <1>8 DEF Follows
  <2>2. CASE ~b.coding.reuse
    <3>1. b.coding.coded = CodeStream /\ AfterBlock(b).seq = b.table
      BY <2>2, <1>6, <1>8
    <3> QED BY <2>2, <3>1, <1>4, <1>5
  <2> QED BY <2>1, <2>2
<1> QED BY <1>7, <1>8 DEF Follows, dec, new

\* No encoder's table is asked of a decoder after none.
LEMMA NoneFollows == ASSUME NEW dec PROVE Follows(dec, Blocks!NoTables)
BY NamesOfTables DEF Follows

LEMMA FirstFollows ==
  ASSUME NEW d \in BOOLEAN
  PROVE  Follows(Blocks!SlotsOf(IF d THEN Blocks!DictTable ELSE Blocks!NoTable), First(d))
BY NamesOfTables, Slots DEF Follows, First, Blocks!SlotsOf, Slot

-----------------------------------------------------------------------------
(* The encoder's steps.                                                    *)

LEMMA BlocksInitOK == ASSUME Blocks!Init PROVE BlocksInv
<1>1. /\ dict \in BOOLEAN /\ blocks = <<>> /\ prev = Blocks!NoTables /\ closed = FALSE
      /\ kept = [t \in Thread |-> Blocks!SlotsOf(Blocks!NoTable)]
      /\ call = [t \in Thread |-> Blocks!NoCall]
  BY DEF Blocks!Init
<1>2. Blocks!NoCall \in Call /\ ~Blocks!NoCall.on
  BY DEF Blocks!NoCall, Call
<1>3. blocks \in Seq(Block) /\ Len(blocks) = 0
  BY <1>1, EmptySeq
<1>4. BlocksTypeOK
  <2>1. kept \in [Thread -> [Slot -> Nat]]
    BY <1>1, SlotsOfType, NamesOfTables
  <2>2. call \in [Thread -> Call]
    BY <1>1, <1>2
  <2> QED BY <1>1, <1>3, <2>1, <2>2, NamesOfTables DEF BlocksTypeOK
<1>5. \A t \in Thread : ~call[t].on
  BY <1>1, <1>2
<1>6. Chained
  <2>1. \A k \in 1..Len(blocks) : FALSE
    BY <1>3
  <2> QED BY <2>1, <1>3 DEF Chained
<1>7. Calls /\ InPace /\ Blocks!OfThisCall
  BY <1>5 DEF Calls, InPace, Blocks!OfThisCall, Blocks!Whole
<1> QED BY <1>4, <1>6, <1>7 DEF BlocksInv

\* A block is appended whose start is the chain's, and the encoder keeps the tables after it.
LEMMA WriteCases ==
  ASSUME BlocksTypeOK, Chained, Blocks!WriteBlock
  PROVE  \E b \in Block :
           /\ blocks' = Append(blocks, b) /\ prev' = AfterBlock(b) /\ CanReuse(b.coding, b.before)
           /\ b.reset => ~dict
           /\ blocks = <<>> => b.before = First(dict)
           /\ blocks # <<>> => ChainOK(b, prev)
<1>1. PICK chain \in Blocks!Chains :
        LET before == Blocks!Start(chain)
            n == Len(blocks) + 1
            reset == chain = "unit" /\ ~dict
            parsed(c) == Blocks!After(before, c, Blocks!Name(n, FALSE))
        IN \/ \E c \in Blocks!Codings(before) :
                Blocks!Add(c, FALSE, reset, Blocks!Name(n, FALSE), before) /\ prev' = parsed(c)
           \/ \E after \in {parsed(c) : c \in Blocks!Codings(before)} :
                LET again == Blocks!CodedAgainFrom(before, after)
                IN \E alt \in Blocks!Codings(again) :
                     /\ Blocks!Add(alt, FALSE, reset, Blocks!Name(n, TRUE), again)
                     /\ prev' = Blocks!After(again, alt, Blocks!Name(n, TRUE))
           \/ Blocks!Add(Blocks!RawCoding, TRUE, reset, Blocks!Name(n, FALSE), before) /\ prev' = Blocks!NoTables
  BY DEF Blocks!WriteBlock
<1> DEFINE before == Blocks!Start(chain)
           n == Len(blocks) + 1
           reset == chain = "unit" /\ ~dict
<1>2. n \in Nat /\ Blocks!Name(n, FALSE) \in Nat /\ Blocks!Name(n, TRUE) \in Nat
  BY DEF BlocksTypeOK, Blocks!Name
<1>3. before \in Pair
  BY NamesOfTables DEF BlocksTypeOK, Blocks!Start, Blocks!Chains
<1>4. /\ blocks = <<>> => before = First(dict)
      /\ blocks # <<>> => (before = prev \/ before = Blocks!NoTables) /\ (reset => before = Blocks!NoTables)
  BY DEF Blocks!Start, Blocks!Chains, First
<1>5. reset => ~dict
  OBVIOUS
<1>6. ASSUME NEW c \in Coding, CanReuse(c, before), NEW raw \in BOOLEAN, NEW name \in Nat,
             Blocks!Add(c, raw, reset, name, before),
             prev' = IF raw THEN Blocks!NoTables ELSE Blocks!After(before, c, name)
      PROVE  \E b \in Block :
               /\ blocks' = Append(blocks, b) /\ prev' = AfterBlock(b) /\ CanReuse(b.coding, b.before)
               /\ b.reset => ~dict
               /\ blocks = <<>> => b.before = First(dict)
               /\ blocks # <<>> => ChainOK(b, prev)
  <2> HIDE DEF before, n
  <2> DEFINE b == [coding |-> c, raw |-> raw, reset |-> reset, table |-> name, before |-> before]
  <2>1. blocks' = Append(blocks, b)
    BY <1>6 DEF Blocks!Add
  <2>2. reset \in BOOLEAN
    BY DEF BlocksTypeOK
  <2> HIDE DEF reset
  <2>3. b \in Block
    BY <1>3, <2>2 DEF Block
  <2>4. b.coding = c /\ b.raw = raw /\ b.reset = reset /\ b.table = name /\ b.before = before
    OBVIOUS
  <2> HIDE DEF b
  <2>5. prev' = AfterBlock(b)
    BY <1>6, <2>4 DEF AfterBlock
  <2> QED BY <1>4, <1>5, <1>6, <2>1, <2>3, <2>4, <2>5 DEF ChainOK
<1>7. CASE \E c \in Blocks!Codings(before) :
             /\ Blocks!Add(c, FALSE, reset, Blocks!Name(n, FALSE), before)
             /\ prev' = Blocks!After(before, c, Blocks!Name(n, FALSE))
  <2> HIDE DEF before, n, reset
  <2>1. PICK c \in Blocks!Codings(before) :
          /\ Blocks!Add(c, FALSE, reset, Blocks!Name(n, FALSE), before)
          /\ prev' = Blocks!After(before, c, Blocks!Name(n, FALSE))
    BY <1>7
  <2>2. c \in Coding /\ CanReuse(c, before)
    BY <1>3, CodingsType
  <2>3. prev' = IF FALSE THEN Blocks!NoTables ELSE Blocks!After(before, c, Blocks!Name(n, FALSE))
    BY <2>1
  <2> QED BY <2>1, <2>2, <2>3, <1>2, <1>6
<1>8. CASE \E alt \in Blocks!Codings(before) :
             /\ Blocks!Add(alt, FALSE, reset, Blocks!Name(n, TRUE), before)
             /\ prev' = Blocks!After(before, alt, Blocks!Name(n, TRUE))
  <2> HIDE DEF before, n, reset
  <2>1. PICK c \in Blocks!Codings(before) :
          /\ Blocks!Add(c, FALSE, reset, Blocks!Name(n, TRUE), before)
          /\ prev' = Blocks!After(before, c, Blocks!Name(n, TRUE))
    BY <1>8
  <2>2. c \in Coding /\ CanReuse(c, before)
    BY <1>3, CodingsType
  <2>3. prev' = IF FALSE THEN Blocks!NoTables ELSE Blocks!After(before, c, Blocks!Name(n, TRUE))
    BY <2>1
  <2> QED BY <2>1, <2>2, <2>3, <1>2, <1>6
<1>9. CASE Blocks!Add(Blocks!RawCoding, TRUE, reset, Blocks!Name(n, FALSE), before) /\ prev' = Blocks!NoTables
  <2> HIDE DEF before, n, reset
  <2>1. Blocks!RawCoding \in Coding /\ CanReuse(Blocks!RawCoding, before)
    BY DEF Blocks!RawCoding, Coding, CanReuse
  <2>2. prev' = IF TRUE THEN Blocks!NoTables ELSE Blocks!After(before, Blocks!RawCoding, Blocks!Name(n, FALSE))
    BY <1>9
  <2> QED BY <2>1, <2>2, <1>2, <1>6, <1>9
<1> QED BY <1>1, <1>7, <1>8, <1>9 DEF Blocks!CodedAgainFrom

LEMMA WriteKeeps ==
  ASSUME which = "blocks", BlocksInv, Blocks!WriteBlock
  PROVE  BlocksTypeOK' /\ Chained' /\ Calls' /\ InPace' /\ (Blocks!OfThisCall)'
<1> DEFINE L == Len(blocks)
<1>1. BlocksTypeOK /\ Chained /\ Calls
  BY DEF BlocksInv
<1>2. PICK b \in Block :
           /\ blocks' = Append(blocks, b) /\ prev' = AfterBlock(b) /\ CanReuse(b.coding, b.before)
           /\ b.reset => ~dict
           /\ blocks = <<>> => b.before = First(dict)
           /\ blocks # <<>> => ChainOK(b, prev)
  BY <1>1, WriteCases
<1>3. ~closed /\ dict' = dict /\ closed' = closed /\ kept' = kept /\ call' = call
  BY DEF Blocks!WriteBlock
<1>4. L \in Nat /\ (blocks = <<>> <=> L = 0) /\ blocks \in Seq(Block)
  BY <1>1, EmptySeq DEF BlocksTypeOK
<1>5. /\ blocks' \in Seq(Block) /\ Len(blocks') = L + 1 /\ blocks'[L + 1] = b
      /\ \A k \in 1..L : blocks'[k] = blocks[k]
  BY <1>2, <1>4, AppendProperties
<1>6. \A k \in 1..(L + 1) : k \in 1..L \/ k = L + 1
  BY <1>4
<1> HIDE DEF L
<1>7. prev' \in Pair
  BY <1>2, AfterType, NamesOfTables DEF AfterBlock, Block
<1>8. BlocksTypeOK'
  BY <1>1, <1>3, <1>5, <1>7 DEF BlocksTypeOK
<1>9. Chained'
  <2>1. \A k \in 1..(L + 1) : CanReuse(blocks'[k].coding, blocks'[k].before)
    BY <1>1, <1>2, <1>5, <1>6 DEF Chained, L
  <2>2. \A k \in 1..(L + 1) : blocks'[k].reset => ~dict
    BY <1>1, <1>2, <1>5, <1>6 DEF Chained, L
  <2>3. ASSUME NEW k \in 1..(L + 1), k = 1 PROVE blocks'[k].before = First(dict)
    <3>1. CASE L = 0
      BY <3>1, <2>3, <1>2, <1>4, <1>5
    <3>2. CASE L # 0
      <4>1. 1 \in 1..L
        BY <3>2, <1>4
      <4> QED BY <4>1, <2>3, <1>1, <1>5 DEF Chained, L
    <3> QED BY <3>1, <3>2
  <2>4. ASSUME NEW k \in 1..(L + 1), k # 1 PROVE ChainOK(blocks'[k], AfterBlock(blocks'[k - 1]))
    <3>1. CASE k = L + 1
      <4>1. L # 0 /\ L \in 1..L /\ k - 1 = L
        BY <3>1, <2>4, <1>4
      <4>2. blocks'[k - 1] = blocks[L] /\ blocks'[k] = b
        BY <3>1, <4>1, <1>5
      <4>3. ChainOK(b, AfterBlock(blocks[L]))
        BY <4>1, <1>1, <1>2, <1>4 DEF Chained, L
      <4> QED BY <4>2, <4>3
    <3>2. CASE k # L + 1
      <4>1. k \in 1..L /\ k - 1 \in 1..L
        BY <3>2, <2>4, <1>4
      <4>2. ChainOK(blocks[k], AfterBlock(blocks[k - 1]))
        BY <4>1, <2>4, <1>1 DEF Chained, L
      <4> QED BY <4>1, <4>2, <1>5
    <3> QED BY <3>1, <3>2
  <2> QED BY <2>1, <2>2, <2>3, <2>4, <1>2, <1>3, <1>5 DEF Chained
<1>10. \A t \in Thread : ~call'[t].on
  BY <1>1, <1>3 DEF Calls
<1> QED BY <1>8, <1>9, <1>10 DEF Calls, InPace, Blocks!OfThisCall, Blocks!Whole

LEMMA CloseKeeps ==
  ASSUME which = "blocks", BlocksInv, Blocks!Close
  PROVE  BlocksTypeOK' /\ Chained' /\ Calls' /\ InPace' /\ (Blocks!OfThisCall)'
<1>1. closed' = TRUE /\ UNCHANGED <<dict, blocks, prev, kept, call>>
  BY DEF Blocks!Close
<1>2. (BlocksTypeOK /\ Chained)'
  BY <1>1 DEF BlocksInv, BlocksTypeOK, Chained
<1>3. Calls'
  BY <1>1 DEF BlocksInv, Calls
<1>4. InPace'
  BY <1>1 DEF BlocksInv, InPace, Blocks!Whole, Blocks!AtBlock, Blocks!StartsUnit
<1>5. (Blocks!OfThisCall)'
  BY <1>1 DEF BlocksInv, Blocks!OfThisCall
<1> QED BY <1>2, <1>3, <1>4, <1>5

-----------------------------------------------------------------------------
(* The decoder's steps: what one thread's step leaves of the others.       *)

\* A thread's part of the invariant.
Right(t) ==
  call[t].on =>
    /\ closed /\ 1 <= call[t].from /\ call[t].from <= call[t].at
    /\ call[t].at <= call[t].to /\ call[t].to <= Len(blocks)
    /\ call[t].dict = dict /\ Blocks!StartsUnit(call[t].from) =>
         Follows(Blocks!AtBlock(t), blocks[call[t].at].before)
    /\ \A s \in Slot :
         \/ kept[t][s] = Blocks!NoTable
         \/ kept[t][s] = Blocks!DictTable /\ call[t].dict
         \/ \E k \in call[t].from..(call[t].at - 1) : kept[t][s] = blocks[k].table

LEMMA AllRight == Calls /\ InPace /\ Blocks!OfThisCall <=> \A t \in Thread : Right(t)
BY DEF Calls, InPace, Blocks!OfThisCall, Blocks!Whole, Right, Slot

LEMMA AllRightNext == (Calls /\ InPace /\ Blocks!OfThisCall)' <=> \A t \in Thread : Right(t)'
BY DEF Calls, InPace, Blocks!OfThisCall, Blocks!Whole, Right, Slot

LEMMA OthersRight ==
  ASSUME NEW u \in Thread, Right(u), UNCHANGED <<dict, blocks, closed>>,
         call'[u] = call[u], kept'[u] = kept[u]
  PROVE  Right(u)'
BY DEF Right, Blocks!AtBlock, Blocks!StartsUnit

\* A step of thread t that leaves the stream alone.
LEMMA OneThread ==
  ASSUME BlocksTypeOK, Chained, NEW t \in Thread, NEW c \in Call, NEW k \in [Slot -> Nat],
         UNCHANGED <<dict, blocks, prev, closed>>,
         call' = [call EXCEPT ![t] = c], kept' = [kept EXCEPT ![t] = k],
         \A u \in Thread : Right(u), Right(t)'
  PROVE  BlocksTypeOK' /\ Chained' /\ Calls' /\ InPace' /\ (Blocks!OfThisCall)'
<1>1. call' \in [Thread -> Call] /\ kept' \in [Thread -> [Slot -> Nat]]
  BY DEF BlocksTypeOK
<1>2. BlocksTypeOK' /\ Chained'
  BY <1>1 DEF BlocksTypeOK, Chained
<1>3. \A u \in Thread : u # t => call'[u] = call[u] /\ kept'[u] = kept[u]
  BY DEF BlocksTypeOK
<1>4. \A u \in Thread : Right(u)'
  BY <1>3, OthersRight
<1> QED BY <1>2, <1>4, AllRightNext

\* A call begins with the tables of its dictionary or with none, at the start of what it decodes.
LEMMA BeginRight ==
  ASSUME BlocksTypeOK, Chained, NEW t \in Thread, closed, UNCHANGED <<dict, blocks, closed>>,
         NEW k \in 1..Len(blocks), NEW e \in 1..Len(blocks), k <= e, NEW d \in BOOLEAN,
         call'[t] = [on |-> TRUE, from |-> k, at |-> k, to |-> e, dict |-> d],
         kept'[t] = Blocks!SlotsOf(IF d THEN Blocks!DictTable ELSE Blocks!NoTable)
  PROVE  Right(t)'
<1>1. Len(blocks) \in Nat
  BY DEF BlocksTypeOK
<1>2. call'[t].from = k /\ call'[t].at = k /\ call'[t].to = e /\ call'[t].dict = d
  OBVIOUS
<1>3. \A s \in Slot : kept'[t][s] = IF d THEN Blocks!DictTable ELSE Blocks!NoTable
  BY DEF Blocks!SlotsOf, Slot
<1>4. ASSUME d = dict, Blocks!StartsUnit(k)'
      PROVE  Follows((Blocks!AtBlock(t))', blocks[k].before)
  <2>1. Blocks!AtBlock(t)' = IF blocks[k].reset /\ ~d THEN Blocks!SlotsOf(Blocks!NoTable) ELSE kept'[t]
    BY <1>2 DEF Blocks!AtBlock
  <2>2. CASE k = 1
    <3>1. blocks[k].before = First(dict)
      BY <2>2 DEF Chained
    <3>2. Blocks!AtBlock(t)' = Blocks!SlotsOf(IF d THEN Blocks!DictTable ELSE Blocks!NoTable)
      BY <2>1
    <3> QED BY <1>4, <3>1, <3>2, FirstFollows
  <2>3. CASE k # 1
    <3>1. blocks[k].reset
      BY <2>3, <1>4 DEF Blocks!StartsUnit
    <3>2. blocks[k].before = Blocks!NoTables
      BY <2>3, <3>1 DEF Chained, ChainOK
    <3> QED BY <3>2, NoneFollows
  <2> QED BY <2>2, <2>3
<1>5. blocks' = blocks /\ dict' = dict /\ closed'
  OBVIOUS
<1> HIDE DEF Chained
<1>6. k \in Nat /\ e \in Nat /\ 1 <= k /\ e <= Len(blocks)
  BY <1>1
<1> QED BY <1>2, <1>3, <1>4, <1>5, <1>6 DEF Right

LEMMA BeginKeeps ==
  ASSUME which = "blocks", BlocksInv, NEW t \in Thread, Blocks!Begin(t)
  PROVE  BlocksTypeOK' /\ Chained' /\ Calls' /\ InPace' /\ (Blocks!OfThisCall)'
<1>1. BlocksTypeOK /\ Chained /\ \A u \in Thread : Right(u)
  BY AllRight DEF BlocksInv
<1>2. closed /\ UNCHANGED <<dict, blocks, prev, closed>>
  BY DEF Blocks!Begin
<1>3. PICK k \in 1..Len(blocks), e \in 1..Len(blocks), d \in BOOLEAN :
        /\ k <= e
        /\ call' = [call EXCEPT ![t] = [on |-> TRUE, from |-> k, at |-> k, to |-> e, dict |-> d]]
        /\ kept' = [kept EXCEPT ![t] = Blocks!SlotsOf(IF d THEN Blocks!DictTable ELSE Blocks!NoTable)]
  <2>1. CASE \E k \in 1..Len(blocks), d \in BOOLEAN : Blocks!StartSequential(t, k, d)
    <3>1. PICK k \in 1..Len(blocks), d \in BOOLEAN : Blocks!StartSequential(t, k, d)
      BY <2>1
    <3>2. Len(blocks) \in 1..Len(blocks) /\ k <= Len(blocks)
      BY <1>1 DEF BlocksTypeOK
    <3> QED BY <3>1, <3>2 DEF Blocks!StartSequential, Blocks!Decodes
  <2>2. CASE \E k, e \in 1..Len(blocks) : Blocks!StartUnit(t, k, e)
    <3>1. PICK k \in 1..Len(blocks), e \in 1..Len(blocks) : Blocks!StartUnit(t, k, e)
      BY <2>2
    <3>2. kept' = [kept EXCEPT ![t] = Blocks!SlotsOf(IF FALSE THEN Blocks!DictTable ELSE Blocks!NoTable)]
      BY <3>1 DEF Blocks!StartUnit
    <3>3. /\ k <= e
          /\ call' = [call EXCEPT ![t] = [on |-> TRUE, from |-> k, at |-> k, to |-> e, dict |-> FALSE]]
      BY <3>1 DEF Blocks!StartUnit, Blocks!Decodes
    <3> QED BY <3>2, <3>3
  <2> QED BY <2>1, <2>2 DEF Blocks!Begin
<1> DEFINE c == [on |-> TRUE, from |-> k, at |-> k, to |-> e, dict |-> d]
           ts == Blocks!SlotsOf(IF d THEN Blocks!DictTable ELSE Blocks!NoTable)
<1>4. c \in Call /\ ts \in [Slot -> Nat]
  <2>1. k \in Nat /\ e \in Nat
    BY <1>1 DEF BlocksTypeOK
  <2>2. c \in Call
    BY <2>1 DEF Call
  <2>3. ts \in [Slot -> Nat]
    BY NamesOfTables, SlotsOfType
  <2> QED BY <2>2, <2>3
<1>5. call'[t] = c /\ kept'[t] = ts
  BY <1>1, <1>3 DEF BlocksTypeOK
<1>6. Right(t)'
  BY <1>1, <1>2, <1>3, <1>5, BeginRight
<1> HIDE DEF c, ts
<1>7. call' = [call EXCEPT ![t] = c] /\ kept' = [kept EXCEPT ![t] = ts]
  BY <1>3 DEF c, ts
<1> QED BY <1>1, <1>2, <1>4, <1>6, <1>7, OneThread

\* The tables before a block are the thread's, or none.
LEMMA AtBlockIs ==
  ASSUME BlocksTypeOK, NEW t \in Thread
  PROVE  /\ Blocks!AtBlock(t) \in [Slot -> Nat]
         /\ \A s \in Slot : Blocks!AtBlock(t)[s] \in {kept[t][s], Blocks!NoTable}
<1>1. Blocks!AtBlock(t) \in {kept[t], Blocks!SlotsOf(Blocks!NoTable)}
  BY DEF Blocks!AtBlock
<1>2. kept[t] \in [Slot -> Nat]
  BY DEF BlocksTypeOK
<1>3. \A s \in Slot : Blocks!SlotsOf(Blocks!NoTable)[s] = Blocks!NoTable
  BY DEF Blocks!SlotsOf, Slot
<1> QED BY <1>1, <1>2, <1>3, SlotsOfType, NamesOfTables

LEMMA FailKeeps ==
  ASSUME which = "blocks", BlocksInv, NEW t \in Thread, Blocks!FailBlock(t)
  PROVE  BlocksTypeOK' /\ Chained' /\ Calls' /\ InPace' /\ (Blocks!OfThisCall)'
<1>1. BlocksTypeOK /\ Chained /\ \A u \in Thread : Right(u)
  BY AllRight DEF BlocksInv
<1> DEFINE c == [call[t] EXCEPT !.on = FALSE]
<1>2. call[t].on /\ call' = [call EXCEPT ![t] = c] /\ UNCHANGED <<dict, blocks, prev, closed>>
  BY DEF Blocks!FailBlock
<1>3. c \in Call /\ ~c.on
  <2>1. call[t] \in Call
    BY <1>1 DEF BlocksTypeOK
  <2> QED BY <2>1 DEF Call
<1>4. blocks[call[t].at] \in Block
  <2>1. call[t].at \in 1..Len(blocks)
    <3>1. call[t] \in Call /\ Len(blocks) \in Nat
      BY <1>1 DEF BlocksTypeOK
    <3>2. call[t].at \in Nat /\ call[t].to \in Nat /\ call[t].from \in Nat
      BY <3>1 DEF Call
    <3> QED BY <1>1, <1>2, <3>1, <3>2 DEF Right
  <2> QED BY <2>1, <1>1 DEF BlocksTypeOK
<1>5. \E k \in [Slot -> Nat] : kept' = [kept EXCEPT ![t] = k]
  <2>1. CASE kept' = kept
    <3>1. kept[t] \in [Slot -> Nat] /\ kept' = [kept EXCEPT ![t] = kept[t]]
      BY <2>1, <1>1 DEF BlocksTypeOK
    <3> QED BY <3>1
  <2>2. CASE \E slots : kept' = [kept EXCEPT ![t] = Blocks!Built(Blocks!AtBlock(t), blocks[call[t].at], slots)]
    <3>1. PICK slots : kept' = [kept EXCEPT ![t] = Blocks!Built(Blocks!AtBlock(t), blocks[call[t].at], slots)]
      BY <2>2
    <3>2. Blocks!Built(Blocks!AtBlock(t), blocks[call[t].at], slots) \in [Slot -> Nat]
      BY <1>1, <1>4, AtBlockIs, BuiltType
    <3> QED BY <3>1, <3>2
  <2> QED BY <2>1, <2>2 DEF Blocks!FailBlock
<1> HIDE DEF c
<1>6. call'[t] = c
  BY <1>1, <1>2 DEF BlocksTypeOK
<1>7. Right(t)'
  BY <1>3, <1>6 DEF Right
<1> QED BY <1>1, <1>2, <1>3, <1>5, <1>7, OneThread

LEMMA DecodeKeeps ==
  ASSUME which = "blocks", BlocksInv, NEW t \in Thread, Blocks!DecodeBlock(t)
  PROVE  BlocksTypeOK' /\ Chained' /\ Calls' /\ InPace' /\ (Blocks!OfThisCall)'
<1>1. BlocksTypeOK /\ Chained /\ \A u \in Thread : Right(u)
  BY AllRight DEF BlocksInv
<1> DEFINE c == Blocks!Step(call[t])
           n == call[t].at
           b == blocks[n]
           old == Blocks!AtBlock(t)
           ts == IF b.raw THEN kept[t] ELSE Blocks!Dropped(b, Blocks!Built(old, b, Blocks!Fresh(b)))
<1>2. call[t].on /\ call' = [call EXCEPT ![t] = c] /\ UNCHANGED <<dict, blocks, prev, closed>>
  BY DEF Blocks!DecodeBlock
<1>3. call[t] \in Call /\ kept[t] \in [Slot -> Nat] /\ Len(blocks) \in Nat
  BY <1>1 DEF BlocksTypeOK
<1>4. n \in Nat /\ call[t].from \in Nat /\ call[t].to \in Nat
  BY <1>3 DEF Call
<1>5. closed /\ 1 <= call[t].from /\ call[t].from <= n /\ n <= call[t].to /\ call[t].to <= Len(blocks)
  BY <1>1, <1>2 DEF Right
<1>6. n \in 1..Len(blocks) /\ b \in Block
  BY <1>1, <1>3, <1>4, <1>5 DEF BlocksTypeOK
<1>7. old \in [Slot -> Nat] /\ \A s \in Slot : old[s] \in {kept[t][s], Blocks!NoTable}
  BY <1>1, AtBlockIs
<1>8. ts \in [Slot -> Nat] /\ kept' = [kept EXCEPT ![t] = ts]
  <2>1. CASE b.raw
    <3>1. kept' = kept /\ ts = kept[t]
      BY <2>1 DEF Blocks!DecodeBlock
    <3> QED BY <3>1, <1>3, <1>1 DEF BlocksTypeOK
  <2>2. CASE ~b.raw
    <3>1. kept' = [kept EXCEPT ![t] = ts]
      BY <2>2 DEF Blocks!DecodeBlock
    <3> QED BY <2>2, <3>1, <1>6, <1>7, BuiltType, DroppedType
  <2> QED BY <2>1, <2>2
<1>9. c \in Call /\ c.from = call[t].from /\ c.at = n + 1 /\ c.to = call[t].to /\ c.dict = call[t].dict
      /\ (c.on => n < call[t].to)
  <2>1. c = [call[t] EXCEPT !.at = n + 1, !.on = n < call[t].to]
    BY DEF Blocks!Step
  <2>2. n + 1 \in Nat /\ (n < call[t].to) \in BOOLEAN
    BY <1>4
  <2> HIDE DEF n, c
  <2> QED BY <2>1, <2>2, <1>3 DEF Call
<1>10. call'[t] = c /\ kept'[t] = ts
  BY <1>1, <1>2, <1>8 DEF BlocksTypeOK
<1>11. ASSUME NEW s \in Slot PROVE ts[s] \in {kept[t][s], Blocks!NoTable, b.table}
  <2>1. \A slots : Blocks!Built(old, b, slots)[s] \in {old[s], b.table}
    BY DEF Blocks!Built, Slot
  <2>2. \A new : Blocks!Dropped(b, new)[s] \in {new[s], Blocks!NoTable}
    BY DEF Blocks!Dropped, Slot
  <2> HIDE DEF old
  <2> QED BY <1>7, <2>1, <2>2
<1>12. ASSUME call[t].dict = dict, Blocks!StartsUnit(call[t].from), ~b.raw PROVE Follows(ts, AfterBlock(b))
  <2>1. Follows(old, b.before)
    BY <1>1, <1>2, <1>12 DEF Right
  <2>2. CanReuse(b.coding, b.before)
    BY <1>1, <1>6 DEF Chained
  <2> HIDE DEF b, old
  <2> QED BY <1>6, <1>7, <1>12, <2>1, <2>2, BlockFollows
<1>13. ASSUME call[t].dict = dict, Blocks!StartsUnit(call[t].from) PROVE Follows(ts, AfterBlock(b))
  <2>1. CASE b.raw
    <3>1. AfterBlock(b) = Blocks!NoTables
      BY <2>1 DEF AfterBlock
    <3> QED BY <3>1, NoneFollows
  <2> QED BY <2>1, <1>12, <1>13
<1>14. c.on => n + 1 \in 1..Len(blocks) /\ ChainOK(blocks[n + 1], AfterBlock(b))
  <2>1. c.on => n + 1 \in 1..Len(blocks) /\ n + 1 # 1 /\ (n + 1) - 1 = n
    BY <1>3, <1>4, <1>5, <1>9
  <2> QED BY <2>1, <1>1 DEF Chained
<1> HIDE DEF ts, c
<1>15. ASSUME c.on, c.dict = dict, c.from = 1 \/ blocks[c.from].reset
       PROVE  Follows(Blocks!AtBlock(t)', blocks[n + 1].before)
  <2>1. Blocks!StartsUnit(call[t].from)
    BY <1>2, <1>9, <1>15 DEF Blocks!StartsUnit
  <2>2. Follows(ts, AfterBlock(b))
    BY <2>1, <1>9, <1>13, <1>15
  <2>3. CASE blocks[n + 1].before = Blocks!NoTables
    BY <2>3, NoneFollows
  <2>4. CASE blocks[n + 1].before # Blocks!NoTables
    <3>1. blocks[n + 1].before = AfterBlock(b) /\ ~blocks[n + 1].reset
      BY <2>4, <1>14, <1>15 DEF ChainOK
    <3>2. Blocks!AtBlock(t)' = ts
      BY <3>1, <1>2, <1>9, <1>10 DEF Blocks!AtBlock
    <3> QED BY <3>1, <3>2, <2>2
  <2> QED BY <2>3, <2>4
<1>16. ASSUME c.on, NEW s \in Slot
       PROVE  \/ ts[s] = Blocks!NoTable
              \/ ts[s] = Blocks!DictTable /\ c.dict
              \/ \E k \in c.from..(c.at - 1) : ts[s] = blocks[k].table
  <2>1. c.at - 1 = n /\ \A k \in c.from..(n - 1) : k \in c.from..n
    BY <1>4, <1>9
  <2>2. n \in c.from..n
    BY <1>4, <1>5, <1>9
  <2>3. CASE ts[s] = b.table
    BY <2>1, <2>2, <2>3
  <2>4. CASE ts[s] = kept[t][s]
    <3>1. \/ kept[t][s] = Blocks!NoTable
          \/ kept[t][s] = Blocks!DictTable /\ call[t].dict
          \/ \E k \in call[t].from..(n - 1) : kept[t][s] = blocks[k].table
      BY <1>1, <1>2 DEF Right
    <3> QED BY <3>1, <2>1, <2>4, <1>9
  <2> QED BY <2>3, <2>4, <1>11
<1>17. Right(t)'
  <2>1. c.on => closed' /\ 1 <= c.from /\ c.from <= c.at /\ c.at <= c.to /\ c.to <= Len(blocks')
    BY <1>2, <1>4, <1>5, <1>9
  <2> QED BY <2>1, <1>2, <1>9, <1>10, <1>15, <1>16 DEF Right, Blocks!StartsUnit
<1> QED BY <1>1, <1>2, <1>8, <1>9, <1>17, OneThread

-----------------------------------------------------------------------------
(* The theorem.                                                            *)

LEMMA BlocksStep == ASSUME BlocksInv, [Next]_vars PROVE BlocksInv'
<1>1. CASE which = "blocks" /\ Blocks!Next /\ which' = which
  <2>1. BlocksTypeOK' /\ Chained' /\ Calls' /\ InPace' /\ (Blocks!OfThisCall)'
    BY <1>1, WriteKeeps, CloseKeeps, BeginKeeps, DecodeKeeps, FailKeeps DEF Blocks!Next
  <2> QED BY <2>1 DEF BlocksInv
<1>2. CASE which' = which /\ UNCHANGED ofBlocks
  BY <1>2 DEF BlocksInv, ofBlocks, BlocksTypeOK, Chained, Calls, InPace, Blocks!OfThisCall, Blocks!Whole,
    Blocks!AtBlock, Blocks!StartsUnit
<1>3. CASE which # "blocks" /\ which' = which
  BY <1>3 DEF BlocksInv
<1>4. CASE Next
  BY <1>1, <1>3, <1>4 DEF Next
<1>5. CASE UNCHANGED vars
  BY <1>2, <1>5 DEF vars
<1> QED BY <1>4, <1>5

\* A block that asks for the tables of the block before it is decoded with those it was coded
\* with, and a call's tables are of the blocks it decoded or its dictionary's: on every thread,
\* after every call that failed on it, for whichever unit or stream it decodes.
THEOREM TablesInStep == Spec => []InStep
<1>1. Init => BlocksInv
  BY BlocksInitOK DEF Init, BlocksInv
<1>2. BlocksInv /\ [Next]_vars => BlocksInv'
  BY BlocksStep
<1>3. BlocksInv => InStep
  <2> SUFFICES ASSUME which = "blocks", BlocksInv PROVE Blocks!InStep
    BY DEF InStep, BlocksInv
  <2>1. BlocksTypeOK /\ Chained /\ Calls /\ InPace
    BY DEF BlocksInv
  <2> SUFFICES ASSUME NEW t \in Thread, Blocks!Whole(call[t]), NEW s \in Slot,
                      Blocks!Reuses(blocks[call[t].at], s)
               PROVE  Blocks!AtBlock(t)[s] = Blocks!CodedWith(blocks[call[t].at], s)
    BY DEF Blocks!InStep, Slot
  <2> DEFINE b == blocks[call[t].at]
  <2>2. call[t].at \in 1..Len(blocks)
    <3>1. call[t] \in Call /\ Len(blocks) \in Nat
      BY <2>1 DEF BlocksTypeOK
    <3>2. call[t].at \in Nat /\ call[t].from \in Nat /\ call[t].to \in Nat
      BY <3>1 DEF Call
    <3> QED BY <2>1, <3>1, <3>2 DEF Calls, Blocks!Whole
  <2>3. CanReuse(b.coding, b.before)
    BY <2>1, <2>2 DEF Chained
  <2>4. Follows(Blocks!AtBlock(t), b.before)
    BY <2>1 DEF InPace
  <2>5. s = "lit" \/ (s \in CodeStream /\ s # "lit")
    BY Slots, LitIsNoCode
  <2> QED BY <2>3, <2>4, <2>5 DEF CanReuse, Follows, Blocks!Reuses, Blocks!CodedWith
<1> QED BY <1>1, <1>2, <1>3, PTL DEF Spec

-----------------------------------------------------------------------------
(* Whole numbers of blocks: quotients and remainders by a block's length.  *)

LEMMA TimesMonotone ==
  ASSUME NEW n \in Nat, NEW p \in Int, NEW q \in Int, p <= q PROVE n * p <= n * q
<1> DEFINE d == q - p
<1>1. d \in Nat /\ q = p + d
  OBVIOUS
<1>2. n * d \in Nat
  BY <1>1
<1>3. n * q = n * p + n * d
  BY <1>1
<1> QED BY <1>1, <1>2, <1>3

LEMMA Divides ==
  ASSUME NEW n \in Nat \ {0}, NEW x \in Nat
  PROVE  x \div n \in Nat /\ x % n \in 0..(n - 1) /\ x = n * (x \div n) + (x % n)
<1>1. x \div n \in Int /\ x % n \in 0..(n - 1)
  OBVIOUS
<1>2. x = n * (x \div n) + (x % n)
  OBVIOUS
<1>3. ~(x \div n <= -1)
  <2> SUFFICES ASSUME x \div n <= -1 PROVE FALSE OBVIOUS
  <2>1. n * (x \div n) <= n * (-1) BY <1>1, TimesMonotone
  <2>2. n * (-1) = -n OBVIOUS
  <2> QED BY <2>1, <2>2, <1>1, <1>2
<1> QED BY <1>1, <1>2, <1>3

LEMMA OneQuotient ==
  ASSUME NEW n \in Nat \ {0}, NEW q \in Int, NEW r \in 0..(n - 1), NEW p \in Int, NEW s \in 0..(n - 1),
         n * q + r = n * p + s
  PROVE  q = p /\ r = s
<1>1. ~(q < p)
  <2> SUFFICES ASSUME q < p PROVE FALSE OBVIOUS
  <2>1. n * (q + 1) <= n * p BY TimesMonotone
  <2>2. n * (q + 1) = n * q + n OBVIOUS
  <2> QED BY <2>1, <2>2
<1>2. ~(p < q)
  <2> SUFFICES ASSUME p < q PROVE FALSE OBVIOUS
  <2>1. n * (p + 1) <= n * q BY TimesMonotone
  <2>2. n * (p + 1) = n * p + n OBVIOUS
  <2> QED BY <2>1, <2>2
<1> QED BY <1>1, <1>2

LEMMA NextDivides ==
  ASSUME NEW n \in Nat \ {0}, NEW x \in Nat
  PROVE  /\ x % n # n - 1 => (x + 1) \div n = x \div n /\ (x + 1) % n = (x % n) + 1
         /\ x % n = n - 1 => (x + 1) \div n = x \div n + 1 /\ (x + 1) % n = 0
<1> DEFINE q == x \div n
           r == x % n
           p == (x + 1) \div n
           s == (x + 1) % n
<1>1. q \in Nat /\ r \in 0..(n - 1) /\ x = n * q + r
  BY Divides
<1>2. p \in Nat /\ s \in 0..(n - 1) /\ x + 1 = n * p + s
  <2>1. PICK y \in Nat : y = x + 1
    OBVIOUS
  <2>2. y \div n \in Nat /\ y % n \in 0..(n - 1) /\ y = n * (y \div n) + (y % n)
    BY Divides
  <2> QED BY <2>1, <2>2
<1> HIDE DEF q, r, p, s
<1>3. CASE r # n - 1
  <2>1. r + 1 \in 0..(n - 1) /\ n * q + (r + 1) = n * p + s
    BY <1>1, <1>2, <1>3
  <2>2. q = p /\ r + 1 = s
    BY <2>1, <1>1, <1>2, OneQuotient
  <2> QED BY <2>2, <1>3 DEF q, r, p, s
<1>4. CASE r = n - 1
  <2>1. n * (q + 1) = n * q + n
    BY <1>1
  <2>2. n * (q + 1) + 0 = n * p + s /\ q + 1 \in Nat /\ 0 \in 0..(n - 1)
    BY <2>1, <1>1, <1>2, <1>4
  <2>3. q + 1 = p /\ 0 = s
    BY SMTT(40), <2>2, <1>2, OneQuotient
  <2> QED BY <2>3, <1>4 DEF q, r, p, s
<1> QED BY <1>3, <1>4 DEF r

LEMMA QuotientBelow ==
  ASSUME NEW n \in Nat \ {0}, NEW x \in Nat, NEW m \in Nat, x < m * n
  PROVE  x \div n < m
<1> DEFINE q == x \div n
           r == x % n
<1>1. q \in Nat /\ r \in 0..(n - 1) /\ x = n * q + r
  BY Divides
<1> HIDE DEF q, r
<1>2. ASSUME m <= q PROVE FALSE
  <2>1. n * m <= n * q
    BY <1>1, <1>2, TimesMonotone
  <2>2. n * m = m * n /\ n * q \in Int
    BY <1>1
  <2> QED BY <2>1, <2>2, <1>1
<1> QED BY <1>1, <1>2 DEF q

Byte == Nat \X Nat \X Nat
Last(b) == b[3] = Pipe!BlockLen(b[1], b[2])

ByteOf(b, tk) ==
  1 <= b[1] /\ b[1] <= b[2] /\ b[2] <= tk /\ 1 <= b[3] /\ b[3] <= Pipe!BlockLen(b[1], b[2])

\* c comes after b: the next byte of its block, or the first of a new one, which goes on where
\* a whole one ended; none is cut where nothing is torn.
Joins(b, c, tn) ==
  \/ c = <<b[1], b[2], b[3] + 1>>
  \/ c[3] = 1 /\ (Last(b) => c[1] = b[2] + 1) /\ (tn \/ Last(b))

Stretch(f, lo, st, tk, tn) ==
  /\ f = <<>> => st = lo - 1
  /\ f # <<>> => f[1][1] = lo /\ f[1][3] = 1
  /\ \A i \in 1..Len(f) : ByteOf(f[i], tk)
  /\ \A i \in 1..(Len(f) - 1) : Joins(f[i], f[i + 1], tn)
  /\ f # <<>> => (Last(f[Len(f)]) => f[Len(f)][2] = st) /\ (tn \/ Last(f[Len(f)]))

LEMMA PipeSizes == MaxBlock \in Nat \ {0} /\ HeaderLen \in Nat \ {0, 1}
BY CodecAssumption DEF Pipe!GlydStreamAssumption

LEMMA Concatenated ==
  ASSUME NEW f \in Seq(Byte), NEW g \in Seq(Byte), NEW lo \in Nat, NEW st \in Nat, NEW st2 \in Nat,
         NEW tk \in Nat, NEW tn \in BOOLEAN,
         Stretch(f, lo, st, tk, tn), Stretch(g, st + 1, st2, tk, tn)
  PROVE  Stretch(f \o g, lo, st2, tk, tn)
<1> DEFINE h == f \o g
           m == Len(f)
           n == Len(g)
<1>1. /\ h \in Seq(Byte) /\ Len(h) = m + n /\ m \in Nat /\ n \in Nat
      /\ \A i \in 1..m : h[i] = f[i]
      /\ \A i \in 1..n : h[m + i] = g[i]
  BY ConcatProperties
<1>2. /\ f = <<>> <=> m = 0
      /\ g = <<>> <=> n = 0
      /\ h = <<>> <=> m + n = 0
  BY <1>1, EmptySeq
<1>3. \A i \in 1..m : f[i] \in Byte
  OBVIOUS
<1>4. \A i \in 1..n : g[i] \in Byte
  OBVIOUS
<1>5. \A j \in 1..(m + n) : j \in 1..m \/ (j - m \in 1..n /\ j = m + (j - m))
  BY <1>1
<1> HIDE DEF h, m, n
<1>6. h = <<>> => st2 = lo - 1
  BY <1>1, <1>2 DEF Stretch
<1>7. h # <<>> => h[1][1] = lo /\ h[1][3] = 1
  <2>1. CASE m = 0
    <3>1. n # 0 => h[1] = g[1]
      <4> SUFFICES ASSUME n # 0 PROVE h[1] = g[1]
        OBVIOUS
      <4>1. 1 \in 1..n /\ m + 1 = 1
        BY <1>1, <2>1
      <4> QED BY <4>1, <1>1
    <3>2. st + 1 = lo
      BY <2>1, <1>2 DEF Stretch
    <3> QED BY <3>1, <3>2, <1>1, <1>2, <2>1 DEF Stretch
  <2>2. CASE m # 0
    <3>1. 1 \in 1..m
      BY <1>1, <2>2
    <3> QED BY <3>1, <1>1, <1>2, <2>2 DEF Stretch
  <2> QED BY <2>1, <2>2
<1>8. ASSUME NEW j \in 1..Len(h) PROVE ByteOf(h[j], tk)
  <2>1. CASE j \in 1..m
    <3>1. ByteOf(f[j], tk) /\ f[j] \in Byte
      BY <2>1, <1>3 DEF Stretch, m
    <3> QED BY <3>1, <2>1, <1>1
  <2>2. CASE j - m \in 1..n /\ j = m + (j - m)
    <3>1. ByteOf(g[j - m], tk)
      BY <2>2 DEF Stretch, n
    <3> QED BY <3>1, <2>2, <1>1
  <2> QED BY <2>1, <2>2, <1>1, <1>5
<1>9. ASSUME NEW j \in 1..(Len(h) - 1) PROVE Joins(h[j], h[j + 1], tn)
  <2>1. CASE j \in 1..(m - 1)
    <3>1. Joins(f[j], f[j + 1], tn)
      BY <2>1 DEF Stretch, m
    <3>2. h[j] = f[j] /\ h[j + 1] = f[j + 1]
      <4>1. j \in 1..m /\ j + 1 \in 1..m
        BY <2>1, <1>1
      <4> QED BY <4>1, <1>1
    <3> QED BY <3>1, <3>2 DEF Joins
  <2>2. CASE j = m /\ n # 0
    <3>1. h[j] = f[m] /\ h[j + 1] = g[1] /\ f # <<>> /\ g # <<>>
      <4>1. j \in 1..m /\ 1 \in 1..n
        BY <2>2, <1>1
      <4>2. m # 0
        BY <2>2
      <4> QED BY <4>1, <4>2, <2>2, <1>1, <1>2
    <3>2. (Last(f[m]) => f[m][2] = st) /\ (tn \/ Last(f[m])) /\ g[1][1] = st + 1 /\ g[1][3] = 1
      BY <3>1 DEF Stretch, m
    <3> QED BY <3>1, <3>2 DEF Joins
  <2>3. CASE j - m \in 1..(n - 1)
    <3>1. Joins(g[j - m], g[j - m + 1], tn)
      BY <2>3 DEF Stretch, n
    <3>2. h[j] = g[j - m] /\ h[j + 1] = g[j - m + 1]
      <4>1. PICK i \in 1..(n - 1) : i = j - m
        BY <2>3
      <4>2. i \in 1..n /\ i + 1 \in 1..n /\ j = m + i /\ j + 1 = m + (i + 1)
        BY <4>1, <1>1
      <4>3. h[j] = g[i] /\ h[j + 1] = g[i + 1]
        BY <4>2, <1>1
      <4> QED BY <4>1, <4>3
    <3> QED BY <3>1, <3>2 DEF Joins
  <2> QED BY SMTT(40), <2>1, <2>2, <2>3, <1>1
<1>10. ASSUME h # <<>>
       PROVE  (Last(h[Len(h)]) => h[Len(h)][2] = st2) /\ (tn \/ Last(h[Len(h)]))
  <2>1. CASE n # 0
    <3>1. h[Len(h)] = g[n]
      <4>1. n \in 1..n /\ Len(h) = m + n
        BY <2>1, <1>1
      <4> QED BY <4>1, <1>1
    <3> QED BY <3>1, <2>1, <1>2 DEF Stretch, n
  <2>2. CASE n = 0
    <3>1. h[Len(h)] = f[m] /\ f # <<>>
      <4>1. m # 0
        BY <2>2, <1>1, <1>2, <1>10
      <4>2. m \in 1..m /\ Len(h) = m
        BY <2>2, <1>1, <4>1
      <4> QED BY <4>1, <4>2, <1>1, <1>2
    <3>2. st2 = st
      BY <2>2, <1>2 DEF Stretch
    <3> QED BY <3>1, <3>2 DEF Stretch, m
  <2> QED BY <2>1, <2>2
<1> QED BY <1>6, <1>7, <1>8, <1>9, <1>10 DEF Stretch, h

LEMMA WiderStretch ==
  ASSUME NEW f \in Seq(Byte), NEW lo, NEW st, NEW tk \in Nat, NEW tk2 \in Nat, tk <= tk2,
         NEW tn \in BOOLEAN, NEW tn2 \in BOOLEAN, tn => tn2, Stretch(f, lo, st, tk, tn)
  PROVE  Stretch(f, lo, st, tk2, tn2)
<1>1. ASSUME NEW i \in 1..Len(f) PROVE ByteOf(f[i], tk2)
  <2>1. f[i] \in Byte /\ ByteOf(f[i], tk)
    BY DEF Stretch
  <2>2. f[i][2] \in Nat
    BY <2>1 DEF Byte
  <2> QED BY <2>1, <2>2 DEF ByteOf
<1> QED BY <1>1 DEF Stretch, Joins

LEMMA BlockLengths ==
  ASSUME NEW lo \in Nat, NEW hi \in Nat, lo <= hi
  PROVE  Pipe!BlockLen(lo, hi) \in Nat /\ Pipe!BlockLen(lo, hi) > 2
BY PipeSizes DEF Pipe!BlockLen

LEMMA BlockBytes ==
  ASSUME NEW lo \in Nat, NEW hi \in Nat, lo <= hi
  PROVE  LET b == Pipe!Block(lo, hi)
         IN  /\ b \in Seq(Byte) /\ Len(b) = Pipe!BlockLen(lo, hi)
             /\ \A i \in 1..Pipe!BlockLen(lo, hi) : b[i] = <<lo, hi, i>>
<1> DEFINE n == Pipe!BlockLen(lo, hi)
           b == [k \in 1..n |-> <<lo, hi, k>>]
<1>1. n \in Nat
  BY BlockLengths
<1> HIDE DEF n
<1>2. b \in [1..n -> Byte]
  BY <1>1 DEF Byte
<1>3. b \in Seq(Byte) /\ Len(b) = n
  BY <1>1, <1>2
<1>4. \A i \in 1..n : b[i] = <<lo, hi, i>>
  OBVIOUS
<1> QED BY <1>3, <1>4 DEF Pipe!Block, n

LEMMA PartStretch ==
  ASSUME NEW lo \in Nat, NEW hi \in Nat, 1 <= lo, lo <= hi, NEW tk \in Nat, hi <= tk,
         NEW k \in Nat, k < Pipe!BlockLen(lo, hi),
         NEW tn \in BOOLEAN, k > 0 => tn
  PROVE  Pipe!Part(lo, hi, k) \in Seq(Byte) /\ Stretch(Pipe!Part(lo, hi, k), lo, lo - 1, tk, tn)
<1> DEFINE n == Pipe!BlockLen(lo, hi)
           b == Pipe!Block(lo, hi)
           p == Pipe!Part(lo, hi, k)
<1>1. n \in Nat /\ n > 2
  BY BlockLengths
<1>2. b \in Seq(Byte) /\ Len(b) = n /\ \A i \in 1..n : b[i] = <<lo, hi, i>>
  BY BlockBytes
<1>3. p = SubSeq(b, 1, k)
  BY DEF Pipe!Part
<1>4. k \in 0..n
  BY <1>1
<1> HIDE DEF p, b
<1>5. p \in Seq(Byte) /\ Len(p) = k /\ \A i \in 1..k : p[i] = <<lo, hi, i>>
  <2>1. \A i \in 1..k : b[i] \in Byte /\ b[i] = <<lo, hi, i>>
    BY <1>1, <1>2, <1>4
  <2>2. p = [i \in 1..k |-> b[i]]
    BY <1>1, <1>2, <1>3, <1>4 
  <2> QED BY <2>1, <2>2
<1>6. p = <<>> <=> k = 0
  BY <1>5, EmptySeq
<1>7. \A i \in 1..k : ByteOf(p[i], tk)
  BY <1>1, <1>5 DEF ByteOf
<1>8. \A i \in 1..(k - 1) : p[i + 1] = <<p[i][1], p[i][2], p[i][3] + 1>>
  BY <1>5
<1>9. k > 0 => p[1] = <<lo, hi, 1>> /\ p[k] = <<lo, hi, k>>
  BY <1>5
<1>10. k > 0 => ~Last(p[k])
  BY <1>9, <1>1 DEF Last
<1> QED BY <1>5, <1>6, <1>7, <1>8, <1>9, <1>10 DEF Stretch, Joins, p

LEMMA BlockStretch ==
  ASSUME NEW lo \in Nat, NEW hi \in Nat, 1 <= lo, lo <= hi, NEW tk \in Nat, hi <= tk,
         NEW tn \in BOOLEAN
  PROVE  Pipe!Block(lo, hi) \in Seq(Byte) /\ Stretch(Pipe!Block(lo, hi), lo, hi, tk, tn)
<1> DEFINE n == Pipe!BlockLen(lo, hi)
           b == Pipe!Block(lo, hi)
<1>1. n \in Nat /\ n > 2
  BY BlockLengths
<1>2. b \in Seq(Byte) /\ Len(b) = n /\ \A i \in 1..n : b[i] = <<lo, hi, i>>
  BY BlockBytes
<1> HIDE DEF b
<1>3. b # <<>>
  BY <1>1, <1>2
<1>4. \A i \in 1..n : ByteOf(b[i], tk)
  BY <1>1, <1>2 DEF ByteOf
<1>5. \A i \in 1..(n - 1) : b[i + 1] = <<b[i][1], b[i][2], b[i][3] + 1>>
  BY <1>1, <1>2
<1>6. b[1] = <<lo, hi, 1>> /\ b[n] = <<lo, hi, n>>
  BY <1>1, <1>2
<1>7. Last(b[n])
  BY <1>6 DEF Last
<1> QED BY <1>2, <1>3, <1>4, <1>5, <1>6, <1>7 DEF Stretch, Joins, b

\* The byte at i of n full blocks: of block q, r bytes into it.
LEMMA BlocksBytes ==
  ASSUME NEW lo \in Nat, 1 <= lo, NEW n \in Nat
  PROVE  LET len == HeaderLen + MaxBlock
             s == Pipe!Blocks(lo, n)
             Start(q) == lo + q * MaxBlock
         IN  /\ s \in Seq(Byte) /\ Len(s) = n * len
             /\ \A i \in 1..(n * len) :
                  s[i] = <<Start((i - 1) \div len), Start((i - 1) \div len) + MaxBlock - 1,
                           1 + ((i - 1) % len)>>
<1> DEFINE len == HeaderLen + MaxBlock
           s == Pipe!Blocks(lo, n)
           Start(q) == lo + q * MaxBlock
           B(i) == <<Start((i - 1) \div len), Start((i - 1) \div len) + MaxBlock - 1,
                     1 + ((i - 1) % len)>>
<1>1. MaxBlock \in Nat /\ MaxBlock > 0 /\ HeaderLen \in Nat /\ len \in Nat \ {0} /\ n * len \in Nat
  BY PipeSizes
<1>2. Pipe!BlockLen(1, MaxBlock) = len
  BY <1>1 DEF Pipe!BlockLen
<1> HIDE DEF len
<1>3. ASSUME NEW i \in 1..(n * len)
      PROVE  /\ (i - 1) \div len \in Nat /\ (i - 1) % len \in 0..(len - 1)
             /\ Start((i - 1) \div len) \in Nat
  <2>1. PICK x \in Nat : x = i - 1
    BY <1>1
  <2>2. x \div len \in Nat /\ x % len \in 0..(len - 1)
    BY <1>1, Divides
  <2>3. ASSUME NEW q \in Nat PROVE Start(q) \in Nat
    BY <1>1
  <2> QED BY <2>1, <2>2, <2>3
<1>4. ASSUME NEW i \in 1..(n * len)
      PROVE  Pipe!Block(Start((i - 1) \div len), Start((i - 1) \div len) + MaxBlock - 1)[1 + ((i - 1) % len)]
               = B(i)
  <2>1. PICK q \in Nat, r \in 0..(len - 1) : q = (i - 1) \div len /\ r = (i - 1) % len /\ Start(q) \in Nat
    BY <1>3
  <2>2. PICK a \in Nat : a = Start(q)
    BY <2>1
  <2>3. PICK b \in Nat : b = a + MaxBlock - 1 /\ a <= b
    BY <1>1
  <2>4. Pipe!BlockLen(a, b) = len
    BY <2>3, <1>1 DEF Pipe!BlockLen, len
  <2>5. 1 + r \in 1..Pipe!BlockLen(a, b)
    BY <2>1, <2>4, <1>1
  <2>6. Pipe!Block(a, b)[1 + r] = <<a, b, 1 + r>>
    BY <2>3, <2>5, BlockBytes
  <2> QED BY <2>1, <2>2, <2>3, <2>6
<1>5. s = [i \in 1..(n * len) |-> B(i)]
  BY <1>2, <1>4 DEF Pipe!Blocks
<1>6. ASSUME NEW i \in 1..(n * len) PROVE B(i) \in Byte
  <2>1. PICK q \in Nat, r \in Nat : q = (i - 1) \div len /\ r = (i - 1) % len /\ Start(q) \in Nat
    BY <1>1, <1>3
  <2>2. PICK a \in Nat : a = Start(q)
    BY <2>1
  <2>3. a + MaxBlock - 1 \in Nat /\ 1 + r \in Nat
    BY <1>1
  <2> QED BY <2>1, <2>2, <2>3 DEF Byte
<1>7. s \in [1..(n * len) -> Byte]
  BY <1>5, <1>6
<1> HIDE DEF s
<1>8. s \in Seq(Byte) /\ Len(s) = n * len
  <2>1. PICK m \in Nat : m = n * len
    BY <1>1
  <2>2. s \in [1..m -> Byte]
    BY <2>1, <1>7
  <2>3. s \in Seq(Byte) /\ Len(s) = m
    BY <2>1, <2>2
  <2> QED BY <2>1, <2>3
<1> QED BY <1>5, <1>8 DEF s, len

LEMMA BlocksStretch ==
  ASSUME NEW lo \in Nat, 1 <= lo, NEW n \in Nat, NEW st \in Nat, st = lo + n * MaxBlock - 1,
         NEW tk \in Nat, st <= tk, NEW tn \in BOOLEAN
  PROVE  Pipe!Blocks(lo, n) \in Seq(Byte) /\ Stretch(Pipe!Blocks(lo, n), lo, st, tk, tn)
<1> DEFINE len == HeaderLen + MaxBlock
           s == Pipe!Blocks(lo, n)
           Start(q) == lo + q * MaxBlock
<1>1. /\ s \in Seq(Byte) /\ Len(s) = n * len
      /\ \A i \in 1..(n * len) :
           s[i] = <<Start((i - 1) \div len), Start((i - 1) \div len) + MaxBlock - 1,
                    1 + ((i - 1) % len)>>
  BY BlocksBytes
<1>2. MaxBlock \in Nat /\ MaxBlock > 0 /\ len \in Nat \ {0} /\ len > MaxBlock
  BY PipeSizes
<1>3. ASSUME NEW a \in Nat PROVE Pipe!BlockLen(a, a + MaxBlock - 1) = len
  BY <1>2, PipeSizes DEF Pipe!BlockLen
<1> HIDE DEF s, len
<1>4. n * len \in Nat
  BY <1>2
<1>5. ASSUME NEW q \in Nat PROVE Start(q) \in Nat /\ Start(q) >= lo /\ Start(q + 1) = Start(q) + MaxBlock
  <2>1. PICK y \in Nat : y = q * MaxBlock
    BY <1>2
  <2>2. (q + 1) * MaxBlock = y + MaxBlock
    BY <2>1, <1>2
  <2>3. Start(q) = lo + y /\ Start(q + 1) = lo + (y + MaxBlock)
    BY <2>1, <2>2
  <2> HIDE DEF Start
  <2> QED BY <2>3, <1>2
<1>6. ASSUME NEW q \in Nat, q < n PROVE Start(q) + MaxBlock - 1 <= st
  <2>1. MaxBlock * (q + 1) <= MaxBlock * n
    BY <1>2, <1>6, TimesMonotone
  <2>2. MaxBlock * (q + 1) = (q + 1) * MaxBlock /\ MaxBlock * n = n * MaxBlock
    BY <1>2
  <2>3. Start(q + 1) <= lo + n * MaxBlock
    BY <2>1, <2>2, <1>2
  <2> QED BY <2>3, <1>5, <1>2
<1>7. ASSUME NEW i \in 1..(n * len)
      PROVE  \E q \in Nat, r \in 0..(len - 1) :
               /\ q = (i - 1) \div len /\ r = (i - 1) % len /\ q < n
               /\ s[i] = <<Start(q), Start(q) + MaxBlock - 1, 1 + r>>
  <2>1. PICK x \in Nat : x = i - 1 /\ x < n * len
    BY <1>4
  <2>2. x \div len \in Nat /\ x % len \in 0..(len - 1) /\ x \div len < n
    BY <1>2, <2>1, Divides, QuotientBelow
  <2> QED BY <1>1, <2>1, <2>2
<1> HIDE DEF Start
<1>8. ASSUME NEW i \in 1..(n * len) PROVE ByteOf(s[i], tk)
  <2>1. PICK q \in Nat, r \in 0..(len - 1) : q < n /\ s[i] = <<Start(q), Start(q) + MaxBlock - 1, 1 + r>>
    BY <1>7
  <2>2. PICK a \in Nat : a = Start(q)
    BY <1>5
  <2>3. 1 <= a /\ a + MaxBlock - 1 <= tk
    BY <2>2, <1>5, <1>6, <2>1, <1>2
  <2>4. Pipe!BlockLen(a, a + MaxBlock - 1) = len
    BY <1>3
  <2>5. s[i] = <<a, a + MaxBlock - 1, 1 + r>>
    BY <2>1, <2>2
  <2>6. 1 <= 1 + r /\ 1 + r <= len /\ a <= a + MaxBlock - 1
    BY <1>2
  <2> QED BY <2>3, <2>4, <2>5, <2>6 DEF ByteOf
<1>9. ASSUME NEW i \in 1..(n * len - 1) PROVE Joins(s[i], s[i + 1], tn)
  <2>0. i \in 1..(n * len) /\ i + 1 \in 1..(n * len)
    BY <1>4
  <2>1. PICK q \in Nat, r \in 0..(len - 1) :
          q = (i - 1) \div len /\ r = (i - 1) % len /\ s[i] = <<Start(q), Start(q) + MaxBlock - 1, 1 + r>>
    BY <2>0, <1>7
  <2>2. PICK p \in Nat, t \in 0..(len - 1) :
          p = (i + 1 - 1) \div len /\ t = (i + 1 - 1) % len /\ s[i + 1] = <<Start(p), Start(p) + MaxBlock - 1, 1 + t>>
    BY <2>0, <1>7
  <2>3. PICK x \in Nat : x = i - 1 /\ x + 1 = i + 1 - 1
    BY <2>0
  <2>16. /\ x % len # len - 1 => (x + 1) \div len = x \div len /\ (x + 1) % len = (x % len) + 1
         /\ x % len = len - 1 => (x + 1) \div len = x \div len + 1 /\ (x + 1) % len = 0
    BY <1>2, NextDivides
  <2>17. q = x \div len /\ r = x % len
    BY <2>1, <2>3
  <2>18. p = (x + 1) \div len /\ t = (x + 1) % len
    BY <2>2, <2>3
  <2>4. /\ r # len - 1 => p = q /\ t = r + 1
        /\ r = len - 1 => p = q + 1 /\ t = 0
    BY <2>16, <2>17, <2>18
  <2>5. PICK a \in Nat, b \in Nat : a = Start(q) /\ b = Start(p)
    BY <1>5
  <2>6. s[i] = <<a, a + MaxBlock - 1, 1 + r>> /\ s[i + 1] = <<b, b + MaxBlock - 1, 1 + t>>
    BY <2>1, <2>2, <2>5
  <2>7. CASE r # len - 1
    <3>1. a = b /\ 1 + t = 1 + r + 1
      BY <2>4, <2>5, <2>7
    <3>2. s[i + 1] = <<s[i][1], s[i][2], s[i][3] + 1>>
      BY <3>1, <2>6
    <3> QED BY <3>2 DEF Joins
  <2>8. CASE r = len - 1
    <3>1. b = a + MaxBlock /\ 1 + t = 1 /\ 1 + r = len
      BY <2>4, <2>5, <2>8, <1>2, <1>5
    <3>2. s[i + 1][3] = 1 /\ s[i + 1][1] = s[i][2] + 1
      BY <3>1, <2>6, <1>2
    <3>3. Last(s[i])
      BY <2>6, <3>1, <1>3 DEF Last
    <3> QED BY <3>2, <3>3 DEF Joins
  <2> QED BY <2>7, <2>8
<1>10. CASE n = 0
  <2>1. n * len = 0 /\ n * MaxBlock = 0
    BY <1>2, <1>10
  <2>2. s = <<>>
    BY <2>1, <1>1, EmptySeq
  <2>3. st = lo - 1
    BY <2>1
  <2>4. Len(s) = 0
    BY <2>1, <1>1
  <2>5. Stretch(s, lo, st, tk, tn)
    BY <2>2, <2>3, <2>4 DEF Stretch
  <2> QED BY <1>1, <2>5 DEF s
<1>11. CASE n # 0
  <2>1. n * len >= 1 /\ s # <<>>
    <3>1. len * 1 <= len * n
      BY <1>2, <1>11, TimesMonotone
    <3>2. len * n = n * len /\ len * 1 = len
      BY <1>2
    <3>3. n * len >= 1
      BY <3>1, <3>2, <1>2
    <3> QED BY <3>3, <1>1, EmptySeq
  <2>2. s[1][1] = lo /\ s[1][3] = 1
    <3>1. PICK q \in Nat, r \in 0..(len - 1) :
            q = (1 - 1) \div len /\ r = (1 - 1) % len /\ s[1] = <<Start(q), Start(q) + MaxBlock - 1, 1 + r>>
      BY <1>7, <2>1, <1>4
    <3>2. q = 0 /\ r = 0
      <4>1. 0 = len * q + r
        BY <3>1, <1>2, Divides
      <4>2. len * 0 + 0 = len * q + r /\ 0 \in 0..(len - 1)
        BY <4>1, <1>2
      <4> QED BY <4>2, <1>2, OneQuotient
    <3>3. Start(0) = lo
      BY <1>2 DEF Start
    <3> QED BY <3>1, <3>2, <3>3
  <2>3. s[n * len][2] = st /\ Last(s[n * len])
    <3>1. PICK q \in Nat, r \in 0..(len - 1) :
            /\ q = (n * len - 1) \div len /\ r = (n * len - 1) % len
            /\ s[n * len] = <<Start(q), Start(q) + MaxBlock - 1, 1 + r>>
      <4>1. PICK m \in Nat : m = n * len
        BY <1>4
      <4>2. m \in 1..(n * len)
        BY <4>1, <2>1
      <4>3. \E q \in Nat, r \in 0..(len - 1) :
               /\ q = (m - 1) \div len /\ r = (m - 1) % len
               /\ s[m] = <<Start(q), Start(q) + MaxBlock - 1, 1 + r>>
        BY <4>2, <1>7
      <4> QED BY <4>1, <4>3
    <3>2. q = n - 1 /\ r = len - 1
      <4>1. PICK x \in Nat : x = n * len - 1
        BY <2>1, <1>4
      <4>2. x = len * q + r
        BY <4>1, <3>1, <1>2, Divides
      <4>3. len * (n - 1) = n * len - len
        BY <1>2
      <4>4. len * (n - 1) + (len - 1) = len * q + r /\ len - 1 \in 0..(len - 1)
        BY <4>1, <4>2, <4>3, <1>2, <1>4
      <4> QED BY <4>4, <1>2, OneQuotient
    <3>3. PICK a \in Nat : a = Start(q)
      BY <1>5
    <3>4. a + MaxBlock - 1 = st
      <4>1. q * MaxBlock = n * MaxBlock - MaxBlock
        BY <3>2, <1>2
      <4>2. q * MaxBlock \in Nat /\ n * MaxBlock \in Nat
        BY <1>2
      <4> QED BY <4>1, <4>2, <3>3, <1>2 DEF Start
    <3>5. s[n * len] = <<a, a + MaxBlock - 1, len>>
      BY <3>1, <3>2, <3>3, <1>2
    <3> QED BY <3>4, <3>5, <1>3 DEF Last
  <2> QED BY <1>1, <1>8, <1>9, <2>1, <2>2, <2>3 DEF Stretch, s
<1> QED BY <1>10, <1>11

Got == Len(read) + Len(held)

PipeTypeOK ==
  /\ taken \in Nat /\ stored \in Nat /\ faults \in Nat /\ pos \in Nat
  /\ file \in Seq(Byte) /\ read \in Seq(Nat) /\ held \in Seq(Nat)
  /\ torn \in BOOLEAN /\ eof \in BOOLEAN
  /\ writer \in {"open", "finished", "dropped", "killed"} /\ refused \in {"no", "data", "io"}

Stores ==
  /\ Stretch(file, 1, stored, taken, torn)
  /\ stored <= taken /\ taken - stored <= MaxBlock
  /\ writer = "finished" => stored = taken

Unread == pos = 0 /\ read = <<>> /\ held = <<>> /\ ~eof /\ refused = "no"

\* Where the reader may go on, it is at the end of the block that ends with the last byte it got.
AtEnd == (pos = 0 /\ Got = 0) \/ (pos # 0 /\ Last(file[pos]) /\ file[pos][2] = Got)

Reads ==
  /\ writer = "open" => Unread
  /\ \A i \in 1..Len(read) : read[i] = i
  /\ \A i \in 1..Len(held) : held[i] = Len(read) + i
  /\ Got <= taken /\ pos <= Len(file)
  /\ refused = "no" /\ ~eof => AtEnd
  /\ eof => held = <<>>
  /\ ~torn => refused # "data" /\ (eof => Got = stored)

PipeInv == which = "pipe" => PipeTypeOK /\ Stores /\ Reads

LEMMA PartAppended ==
  ASSUME NEW f \in Seq(Byte), NEW st \in Nat, NEW hi \in Nat, st < hi, NEW tn \in BOOLEAN,
         Stretch(f, 1, st, hi, tn), NEW k \in Nat, k < Pipe!BlockLen(st + 1, hi),
         NEW tn2 \in BOOLEAN, tn => tn2, k > 0 => tn2
  PROVE  LET g == f \o Pipe!Part(st + 1, hi, k)
         IN  g \in Seq(Byte) /\ Stretch(g, 1, st, hi, tn2)
<1>1. PICK lo \in Nat : lo = st + 1 /\ st = lo - 1 /\ 1 <= lo /\ lo <= hi
  OBVIOUS
<1>2. Pipe!Part(lo, hi, k) \in Seq(Byte) /\ Stretch(Pipe!Part(lo, hi, k), lo, st, hi, tn2)
  BY <1>1, PartStretch
<1>3. PICK g \in Seq(Byte) : g = Pipe!Part(st + 1, hi, k) /\ Stretch(g, st + 1, st, hi, tn2)
  BY <1>1, <1>2
<1>4. Stretch(f, 1, st, hi, tn2)
  BY WiderStretch
<1>5. Stretch(f \o g, 1, st, hi, tn2)
  BY <1>3, <1>4, Concatenated
<1>6. f \o g \in Seq(Byte)
  BY ConcatProperties
<1> QED BY <1>3, <1>5, <1>6

LEMMA BlockAppended ==
  ASSUME NEW f \in Seq(Byte), NEW st \in Nat, NEW hi \in Nat, st < hi, NEW tn \in BOOLEAN,
         Stretch(f, 1, st, hi, tn)
  PROVE  LET g == f \o Pipe!Block(st + 1, hi)
         IN  g \in Seq(Byte) /\ Stretch(g, 1, hi, hi, tn)
<1>1. PICK lo \in Nat : lo = st + 1 /\ 1 <= lo /\ lo <= hi
  OBVIOUS
<1>2. Pipe!Block(lo, hi) \in Seq(Byte) /\ Stretch(Pipe!Block(lo, hi), lo, hi, hi, tn)
  BY <1>1, BlockStretch
<1>3. PICK g \in Seq(Byte) : g = Pipe!Block(st + 1, hi) /\ Stretch(g, st + 1, hi, hi, tn)
  BY <1>1, <1>2
<1>4. Stretch(f \o g, 1, hi, hi, tn)
  BY <1>3, Concatenated
<1>5. f \o g \in Seq(Byte)
  BY ConcatProperties
<1> QED BY <1>3, <1>4, <1>5

LEMMA BlocksAppended ==
  ASSUME NEW f \in Seq(Byte), NEW st \in Nat, NEW tn \in BOOLEAN, NEW tk \in Nat,
         Stretch(f, 1, st, tk, tn), NEW n \in Nat, NEW hi \in Nat, hi = st + n * MaxBlock,
         NEW tk2 \in Nat, tk <= tk2, hi <= tk2
  PROVE  LET g == f \o Pipe!Blocks(st + 1, n)
         IN  g \in Seq(Byte) /\ Stretch(g, 1, hi, tk2, tn)
<1>1. PICK lo \in Nat : lo = st + 1 /\ 1 <= lo
  OBVIOUS
<1>2. hi = lo + n * MaxBlock - 1
  BY <1>1, PipeSizes
<1>3. Pipe!Blocks(lo, n) \in Seq(Byte) /\ Stretch(Pipe!Blocks(lo, n), lo, hi, tk2, tn)
  BY <1>1, <1>2, BlocksStretch
<1>4. PICK g \in Seq(Byte) : g = Pipe!Blocks(st + 1, n) /\ Stretch(g, st + 1, hi, tk2, tn)
  BY <1>1, <1>3
<1>5. Stretch(f, 1, st, tk2, tn)
  BY WiderStretch
<1>6. Stretch(f \o g, 1, hi, tk2, tn)
  BY SMTT(40), <1>4, <1>5, Concatenated
<1>7. f \o g \in Seq(Byte)
  BY ConcatProperties
<1> QED BY <1>4, <1>6, <1>7

-----------------------------------------------------------------------------
(* The writer's steps. What each leaves the file, what is stored and what  *)
(* is taken; that the reader has not begun is then enough.                 *)

StillUnread == UNCHANGED <<pos, held, eof, read, refused>>

LEMMA WriterSteps ==
  ASSUME PipeTypeOK, Reads, writer = "open", StillUnread, taken' \in Nat, stored' \in Nat, faults' \in Nat,
         file' \in Seq(Byte), torn' \in BOOLEAN, writer' \in {"open", "finished", "dropped", "killed"}, Stores'
  PROVE  PipeTypeOK' /\ Stores' /\ Reads'
<1>1. Unread /\ Unread'
  BY DEF Reads, Unread, StillUnread
<1>2. PipeTypeOK'
  BY DEF PipeTypeOK, StillUnread
<1>3. Len(read') = 0 /\ Len(held') = 0
  BY <1>1, EmptySeq DEF Unread
<1>4. Got' = 0
  BY <1>3 DEF Got
<1>5. Len(file') \in Nat
  BY <1>2 DEF PipeTypeOK
<1>6. AtEnd'
  BY <1>1, <1>4 DEF AtEnd, Unread
<1>7. (\A i \in 1..Len(read') : read'[i] = i) /\ \A i \in 1..Len(held') : held'[i] = Len(read') + i
  BY <1>3
<1>8. Got' <= taken' /\ pos' <= Len(file')
  BY <1>1, <1>4, <1>5 DEF Unread
<1> QED BY <1>1, <1>2, <1>6, <1>7, <1>8 DEF Reads, Unread

LEMMA FlushStores ==
  ASSUME NEW f \in Seq(Byte), NEW tn \in BOOLEAN, NEW st \in Nat, NEW hi \in Nat, st <= hi,
         Stretch(f, 1, st, hi, tn), Pipe!Flush(f, st + 1, hi)
  PROVE  file' \in Seq(Byte) /\ stored' = hi /\ Stretch(file', 1, hi, hi, tn)
<1>1. CASE st < hi
  <2>1. file' = f \o Pipe!Block(st + 1, hi) /\ stored' = hi
    BY <1>1 DEF Pipe!Flush
  <2> QED BY <1>1, <2>1, BlockAppended
<1>2. CASE st = hi
  BY <1>2 DEF Pipe!Flush
<1> QED BY <1>1, <1>2

LEMMA FlushFailsStores ==
  ASSUME NEW f \in Seq(Byte), torn \in BOOLEAN, faults \in Nat, NEW st \in Nat, NEW hi \in Nat,
         Stretch(f, 1, st, hi, torn), NEW k \in Nat, Pipe!FlushFails(f, st + 1, hi, k)
  PROVE  /\ file' \in Seq(Byte) /\ stored' = st /\ torn' \in BOOLEAN /\ faults' \in Nat /\ st < hi
         /\ Stretch(file', 1, st, hi, torn')
<1>1. /\ st + 1 <= hi /\ k < Pipe!BlockLen(st + 1, hi) /\ faults' = faults + 1
      /\ file' = f \o Pipe!Part(st + 1, hi, k) /\ stored' = st + 1 - 1 /\ torn' = (torn \/ k > 0)
  BY DEF Pipe!FlushFails, Pipe!Fail
<1>2. st < hi /\ stored' = st /\ faults' \in Nat
  BY <1>1
<1>3. torn' \in BOOLEAN /\ (torn => torn') /\ (k > 0 => torn')
  BY <1>1
<1>4. PICK tn \in BOOLEAN : tn = torn'
  BY <1>3
<1>5. (torn => tn) /\ (k > 0 => tn)
  BY <1>3, <1>4
<1>6. Stretch(f \o Pipe!Part(st + 1, hi, k), 1, st, hi, tn) /\ f \o Pipe!Part(st + 1, hi, k) \in Seq(Byte)
  BY <1>1, <1>2, <1>5, PartAppended
<1> QED BY <1>1, <1>2, <1>3, <1>4, <1>6

LEMMA CallKeeps ==
  ASSUME PipeTypeOK, Stores, Reads, StillUnread, NEW n \in Nat, Pipe!write(n)
  PROVE  PipeTypeOK' /\ Stores' /\ Reads'
<1> DEFINE k == Pipe!Filled(n)
<1>1. /\ taken \in Nat /\ stored \in Nat /\ file \in Seq(Byte) /\ torn \in BOOLEAN /\ faults \in Nat
      /\ stored <= taken /\ taken - stored <= MaxBlock /\ Stretch(file, 1, stored, taken, torn)
  BY DEF PipeTypeOK, Stores
<1>2. MaxBlock \in Nat \ {0}
  BY PipeSizes
<1>3. /\ k \in Nat /\ stored + k * MaxBlock \in Nat
      /\ stored + k * MaxBlock <= taken + n /\ taken + n - (stored + k * MaxBlock) <= MaxBlock
  <2>1. CASE n = 0
    <3>1. k = 0 /\ k * MaxBlock = 0
      BY <2>1, <1>2 DEF Pipe!Filled
    <3> QED BY <2>1, <3>1, <1>1
  <2>2. CASE n # 0
    <3>1. PICK x \in Nat : x = taken - stored + n
      BY <1>1
    <3>2. k = x \div MaxBlock
      BY <2>2, <3>1 DEF Pipe!Filled, Pipe!Buffered
    <3>3. k \in Nat /\ x % MaxBlock \in 0..(MaxBlock - 1) /\ x = MaxBlock * k + (x % MaxBlock)
      BY <1>2, <3>2, Divides
    <3> HIDE DEF k
    <3>4. PICK y \in Nat : y = MaxBlock * k /\ y = k * MaxBlock
      BY <1>2, <3>3
    <3> QED BY <1>1, <1>2, <3>1, <3>3, <3>4
  <2> QED BY <2>1, <2>2
<1> HIDE DEF k
<1>4. /\ writer = "open" /\ writer' = writer /\ taken' = taken + n /\ torn' = torn /\ faults' = faults
      /\ file' = file \o Pipe!Blocks(stored + 1, k) /\ stored' = stored + k * MaxBlock
  BY DEF Pipe!write, Pipe!StaysOpen, k
<1>5. PICK hi \in Nat : hi = stored + k * MaxBlock
  BY <1>3
<1>6. PICK tk \in Nat : tk = taken + n /\ taken <= tk /\ hi <= tk
  BY <1>1, <1>3, <1>5
<1>7. file' \in Seq(Byte) /\ Stretch(file', 1, hi, tk, torn)
  BY <1>1, <1>3, <1>4, <1>5, <1>6, BlocksAppended
<1>8. Stores'
  <2>1. stored' = hi /\ taken' = tk
    BY <1>4, <1>5, <1>6
  <2>2. Stretch(file', 1, stored', taken', torn')
    BY <2>1, <1>4, <1>7
  <2>3. hi <= tk /\ tk - hi <= MaxBlock
    BY <1>1, <1>2, <1>3, <1>5, <1>6
  <2> QED BY <2>1, <2>2, <2>3, <1>4 DEF Stores
<1> QED BY <1>1, <1>4, <1>5, <1>6, <1>7, <1>8, WriterSteps

LEMMA CallFailsKeeps ==
  ASSUME PipeTypeOK, Stores, Reads, StillUnread, NEW n \in Nat, NEW f \in Nat, NEW k \in Nat,
         Pipe!WriteFails(n, f, k)
  PROVE  PipeTypeOK' /\ Stores' /\ Reads'
<1>1. /\ taken \in Nat /\ stored \in Nat /\ file \in Seq(Byte) /\ torn \in BOOLEAN /\ faults \in Nat
      /\ stored <= taken /\ taken - stored <= MaxBlock /\ Stretch(file, 1, stored, taken, torn)
  BY DEF PipeTypeOK, Stores
<1>2. MaxBlock \in Nat \ {0}
  BY PipeSizes
<1>3. PICK y \in Nat : y = f * MaxBlock
  BY <1>2
<1>4. PICK st \in Nat, hi \in Nat :
        st = stored + f * MaxBlock /\ hi = st + MaxBlock /\ st + 1 + MaxBlock - 1 = hi
  BY <1>1, <1>2, <1>3
<1>5. /\ writer = "open" /\ writer' = writer /\ taken' = hi
      /\ Pipe!FlushFails(file \o Pipe!Blocks(stored + 1, f), st + 1, hi, k)
  BY <1>4 DEF Pipe!WriteFails, Pipe!StaysOpen
<1>6. taken <= hi /\ st <= hi
  BY <1>1, <1>2, <1>3, <1>4
<1>7. /\ file \o Pipe!Blocks(stored + 1, f) \in Seq(Byte)
      /\ Stretch(file \o Pipe!Blocks(stored + 1, f), 1, st, hi, torn)
  BY <1>1, <1>4, <1>6, BlocksAppended
<1>8. /\ file' \in Seq(Byte) /\ stored' = st /\ torn' \in BOOLEAN /\ faults' \in Nat
      /\ Stretch(file', 1, st, hi, torn')
  BY <1>1, <1>5, <1>7, FlushFailsStores
<1>9. Stores'
  <2>1. Stretch(file', 1, stored', taken', torn')
    BY <1>5, <1>8
  <2>2. st <= hi /\ hi - st <= MaxBlock
    BY <1>2, <1>4
  <2> QED BY <2>1, <2>2, <1>5, <1>8 DEF Stores
<1> QED BY <1>1, <1>4, <1>5, <1>8, <1>9, WriterSteps

\* A block of all that is buffered, by `flush`, `finish` or `drop`.
LEMMA FlushedKeeps ==
  ASSUME PipeTypeOK, Stores, Reads, StillUnread, writer = "open",
         Pipe!Flush(file, stored + 1, taken), UNCHANGED <<taken, torn, faults>>,
         writer' \in {"open", "finished", "dropped"}
  PROVE  PipeTypeOK' /\ Stores' /\ Reads'
<1>1. /\ taken \in Nat /\ stored \in Nat /\ file \in Seq(Byte) /\ torn \in BOOLEAN /\ faults \in Nat
      /\ stored <= taken /\ Stretch(file, 1, stored, taken, torn)
  BY DEF PipeTypeOK, Stores
<1>2. file' \in Seq(Byte) /\ stored' = taken /\ Stretch(file', 1, taken, taken, torn)
  BY <1>1, FlushStores
<1>3. Stores'
  BY <1>1, <1>2, PipeSizes DEF Stores
<1> QED BY <1>1, <1>2, <1>3, WriterSteps

\* Such a block that fails.
LEMMA FlushedFailsKeeps ==
  ASSUME PipeTypeOK, Stores, Reads, StillUnread, writer = "open", NEW k \in Nat,
         Pipe!FlushFails(file, stored + 1, taken, k), UNCHANGED taken, writer' \in {"open", "dropped"}
  PROVE  PipeTypeOK' /\ Stores' /\ Reads'
<1>1. /\ taken \in Nat /\ stored \in Nat /\ file \in Seq(Byte) /\ torn \in BOOLEAN /\ faults \in Nat
      /\ stored <= taken /\ taken - stored <= MaxBlock /\ Stretch(file, 1, stored, taken, torn)
  BY DEF PipeTypeOK, Stores
<1>2. /\ file' \in Seq(Byte) /\ stored' = stored /\ torn' \in BOOLEAN /\ faults' \in Nat
      /\ Stretch(file', 1, stored, taken, torn')
  BY <1>1, FlushFailsStores
<1>3. Stores'
  BY <1>1, <1>2 DEF Stores
<1> QED BY <1>1, <1>2, <1>3, WriterSteps

LEMMA FinishFailsKeeps ==
  ASSUME PipeTypeOK, Stores, Reads, StillUnread, NEW k \in Nat, Pipe!FinishFails(k)
  PROVE  PipeTypeOK' /\ Stores' /\ Reads'
<1>1. /\ taken \in Nat /\ stored \in Nat /\ file \in Seq(Byte) /\ torn \in BOOLEAN /\ faults \in Nat
      /\ stored <= taken /\ Stretch(file, 1, stored, taken, torn)
  BY DEF PipeTypeOK, Stores
<1> DEFINE g == file \o Pipe!Part(stored + 1, taken, k)
<1>2. /\ writer = "open" /\ writer' = "dropped" /\ stored < taken /\ k < Pipe!BlockLen(stored + 1, taken)
      /\ faults' = faults + 1 /\ taken' = taken /\ torn' = (torn \/ k > 0)
      /\ Pipe!Flush(g, stored + 1, taken)
  BY DEF Pipe!FinishFails, Pipe!Ends, Pipe!Fail
<1>3. torn' \in BOOLEAN /\ (torn => torn') /\ (k > 0 => torn')
  BY <1>2
<1>4. PICK tn \in BOOLEAN : tn = torn'
  BY <1>3
<1>5. (torn => tn) /\ (k > 0 => tn)
  BY <1>3, <1>4
<1>6. g \in Seq(Byte) /\ Stretch(g, 1, stored, taken, tn)
  BY <1>1, <1>2, <1>5, PartAppended
<1> HIDE DEF g
<1>7. file' \in Seq(Byte) /\ stored' = taken /\ Stretch(file', 1, taken, taken, tn)
  BY <1>1, <1>2, <1>6, FlushStores
<1>8. faults' \in Nat
  BY <1>1, <1>2
<1>9. Stores'
  BY <1>1, <1>2, <1>4, <1>7, PipeSizes DEF Stores
<1> QED BY <1>1, <1>2, <1>3, <1>7, <1>8, <1>9, WriterSteps

LEMMA FinishFailsTwiceKeeps ==
  ASSUME PipeTypeOK, Stores, Reads, StillUnread, NEW k \in Nat, NEW j \in Nat, Pipe!FinishFailsTwice(k, j)
  PROVE  PipeTypeOK' /\ Stores' /\ Reads'
<1>1. /\ taken \in Nat /\ stored \in Nat /\ file \in Seq(Byte) /\ torn \in BOOLEAN /\ faults \in Nat
      /\ stored <= taken /\ taken - stored <= MaxBlock /\ Stretch(file, 1, stored, taken, torn)
  BY DEF PipeTypeOK, Stores
<1> DEFINE g == file \o Pipe!Part(stored + 1, taken, k)
           h == g \o Pipe!Part(stored + 1, taken, j)
<1>2. /\ writer = "open" /\ writer' = "dropped" /\ stored < taken
      /\ k < Pipe!BlockLen(stored + 1, taken) /\ j < Pipe!BlockLen(stored + 1, taken)
      /\ faults' = faults + 2 /\ taken' = taken /\ stored' = stored /\ torn' = (torn \/ k + j > 0)
      /\ file' = h
  BY DEF Pipe!FinishFailsTwice, Pipe!Ends
<1>3. torn' \in BOOLEAN /\ (torn => torn') /\ (k > 0 => torn') /\ (j > 0 => torn')
  <2>1. torn' \in BOOLEAN /\ (torn => torn') /\ (k + j > 0 => torn')
    BY <1>2
  <2>2. (k > 0 => k + j > 0) /\ (j > 0 => k + j > 0)
    OBVIOUS
  <2> QED BY <2>1, <2>2
<1>4. PICK tn \in BOOLEAN : tn = torn'
  BY <1>3
<1>5. (torn => tn) /\ (tn => tn) /\ (k > 0 => tn) /\ (j > 0 => tn)
  BY <1>3, <1>4
<1>6. g \in Seq(Byte) /\ Stretch(g, 1, stored, taken, tn)
  BY <1>1, <1>2, <1>5, PartAppended
<1> HIDE DEF g
<1>7. h \in Seq(Byte) /\ Stretch(h, 1, stored, taken, tn)
  BY <1>1, <1>2, <1>5, <1>6, PartAppended
<1>8. faults' \in Nat
  BY <1>1, <1>2
<1>9. Stores'
  BY <1>1, <1>2, <1>4, <1>7 DEF Stores
<1> QED BY <1>1, <1>2, <1>3, <1>7, <1>8, <1>9, WriterSteps

LEMMA KilledKeeps ==
  ASSUME PipeTypeOK, Stores, Reads, StillUnread, Pipe!Kill PROVE PipeTypeOK' /\ Stores' /\ Reads'
<1>1. /\ writer = "open" /\ writer' = "killed" /\ UNCHANGED <<taken, stored, file, torn, faults>>
  BY DEF Pipe!Kill, Pipe!Ends
<1>2. Stores'
  BY <1>1 DEF Stores
<1>3. taken \in Nat /\ stored \in Nat /\ faults \in Nat /\ file \in Seq(Byte) /\ torn \in BOOLEAN
  BY DEF PipeTypeOK
<1> QED BY <1>1, <1>2, <1>3, WriterSteps

LEMMA WritingKeeps ==
  ASSUME PipeTypeOK, Stores, Reads, Pipe!Write PROVE PipeTypeOK' /\ Stores' /\ Reads'
<1>1. StillUnread
  BY DEF Pipe!Write, Pipe!ofReader, StillUnread
<1>2. MaxCall \in Nat /\ Pipe!BlockLen(1, MaxBlock) \in Nat
  BY PipeSizes, CodecAssumption DEF Pipe!GlydStreamAssumption, Pipe!BlockLen
<1>3. CASE \E n \in 0..MaxCall : Pipe!write(n)
  BY <1>1, <1>2, <1>3, CallKeeps
<1>4. CASE \E n \in 0..MaxCall, f \in 0..MaxCall, k \in 0..Pipe!BlockLen(1, MaxBlock) : Pipe!WriteFails(n, f, k)
  BY <1>1, <1>2, <1>4, CallFailsKeeps
<1>5. CASE Pipe!flush \/ Pipe!finish \/ Pipe!drop
  BY <1>1, <1>5, FlushedKeeps DEF Pipe!flush, Pipe!finish, Pipe!drop, Pipe!Ends, Pipe!StaysOpen
<1>6. CASE \E k \in 0..Pipe!BlockLen(1, MaxBlock) :
             Pipe!FlushCallFails(k) \/ Pipe!DropFails(k) \/ Pipe!FinishFails(k)
  <2>1. PICK k \in Nat : Pipe!FlushCallFails(k) \/ Pipe!DropFails(k) \/ Pipe!FinishFails(k)
    BY <1>2, <1>6
  <2>2. CASE Pipe!FlushCallFails(k) \/ Pipe!DropFails(k)
    BY <1>1, <2>2, FlushedFailsKeeps DEF Pipe!FlushCallFails, Pipe!DropFails, Pipe!Ends, Pipe!StaysOpen
  <2>3. CASE Pipe!FinishFails(k)
    BY <1>1, <2>3, FinishFailsKeeps
  <2> QED BY <2>1, <2>2, <2>3
<1>7. CASE \E k, j \in 0..Pipe!BlockLen(1, MaxBlock) : Pipe!FinishFailsTwice(k, j)
  BY <1>1, <1>2, <1>7, FinishFailsTwiceKeeps
<1>8. CASE Pipe!Kill
  BY <1>1, <1>8, KilledKeeps
<1> QED BY <1>3, <1>4, <1>5, <1>6, <1>7, <1>8 DEF Pipe!Write

NatLess == {ss \in Nat \X Nat : ss[1] < ss[2]}

LEMMA LeastNatural ==
  ASSUME NEW T, T \subseteq Nat, T # {}
  PROVE  \E m \in T : \A k \in T : m <= k
<1>1. IsWellFoundedOn(NatLess, Nat)
  BY ONLY NatLessThanWellFounded, Zenon DEF OpToRel, NatLess
<1>2. PICK m \in T : \A k \in T : ~(<<k, m>> \in NatLess)
  BY <1>1, WFMin
<1>3. \A k \in T : ~(k < m)
  BY <1>2 DEF NatLess
<1> QED BY <1>3

StillWritten == UNCHANGED <<taken, stored, file, writer, torn>>

MayRead == writer # "open" /\ refused = "no" /\ held = <<>> /\ ~eof

\* Where the reader is, a block begins, with the byte after the last one it got.
LEMMA BlockBegins ==
  ASSUME PipeTypeOK, Stores, Reads, MayRead, pos < Len(file)
  PROVE  /\ file[pos + 1] \in Byte /\ file[pos + 1] = <<Got + 1, file[pos + 1][2], 1>>
         /\ Got + 1 <= file[pos + 1][2] /\ file[pos + 1][2] <= taken
<1>1. /\ pos \in Nat /\ file \in Seq(Byte) /\ Len(file) \in Nat /\ AtEnd
      /\ Len(read) \in Nat /\ Len(held) \in Nat
  BY DEF PipeTypeOK, Reads, MayRead
<1>2. Got \in Nat
  BY <1>1 DEF Got
<1>3. pos + 1 \in 1..Len(file)
  BY <1>1
<1> DEFINE b == file[pos + 1]
<1>4. b \in Byte /\ ByteOf(b, taken)
  BY <1>1, <1>3 DEF Stores, Stretch
<1>5. b[1] = Got + 1 /\ b[3] = 1
  <2>1. CASE pos = 0
    <3>1. b = file[1] /\ file # <<>>
      BY <2>1, <1>3, EmptySeq
    <3> QED BY <2>1, <3>1, <1>1 DEF Stores, Stretch, AtEnd
  <2>2. CASE pos # 0
    <3>1. pos \in 1..(Len(file) - 1) /\ pos \in 1..Len(file)
      BY <2>2, <1>1, <1>3
    <3>2. Joins(file[pos], b, torn) /\ file[pos] \in Byte
      BY <3>1, <1>1 DEF Stores, Stretch
    <3>3. Last(file[pos]) /\ file[pos][2] = Got
      BY <2>2, <1>1 DEF AtEnd
    <3>4. CASE b = <<file[pos][1], file[pos][2], file[pos][3] + 1>>
      <4>1. b[3] = file[pos][3] + 1 /\ b[1] = file[pos][1] /\ b[2] = file[pos][2]
        BY <3>4
      <4>2. file[pos][3] = Pipe!BlockLen(b[1], b[2]) /\ file[pos][3] \in Nat
        BY <4>1, <3>2, <3>3 DEF Last, Byte
      <4> HIDE DEF b
      <4> QED BY <4>1, <4>2, <1>4 DEF ByteOf
    <3>5. CASE b[3] = 1 /\ b[1] = file[pos][2] + 1
      BY <3>3, <3>5
    <3> QED BY <3>2, <3>3, <3>4, <3>5 DEF Joins
  <2> QED BY <2>1, <2>2
<1>6. b[2] \in Nat /\ b = <<b[1], b[2], b[3]>>
  BY <1>4 DEF Byte
<1> HIDE DEF b
<1>7. b[1] <= b[2] /\ b[2] <= taken
  BY <1>4 DEF ByteOf
<1> QED BY <1>2, <1>4, <1>5, <1>6, <1>7 DEF b

\* Where nothing is torn, the block is whole.
LEMMA BlockIsWhole ==
  ASSUME PipeTypeOK, Stores, Reads, MayRead, pos < Len(file), ~torn,
         NEW k \in 1..Pipe!BlockLen(file[pos + 1][1], file[pos + 1][2])
  PROVE  /\ pos + k <= Len(file)
         /\ file[pos + k] = <<file[pos + 1][1], file[pos + 1][2], k>>
<1> DEFINE lo == file[pos + 1][1]
           hi == file[pos + 1][2]
           n == Pipe!BlockLen(lo, hi)
           Fits(j) == pos + j <= Len(file) /\ file[pos + j] = <<lo, hi, j>>
           T == {j \in 1..n : ~Fits(j)}
<1>1. pos \in Nat /\ file \in Seq(Byte) /\ Len(file) \in Nat
  BY DEF PipeTypeOK
<1>2. /\ file[pos + 1] = <<lo, hi, 1>> /\ lo \in Nat /\ hi \in Nat /\ lo <= hi
  <2>1. file[pos + 1] \in Byte /\ file[pos + 1] = <<Got + 1, file[pos + 1][2], 1>> /\ Got + 1 <= file[pos + 1][2]
    BY BlockBegins
  <2>2. file[pos + 1][1] = Got + 1
    BY <2>1
  <2> QED BY <2>1, <2>2 DEF Byte
<1>3. n \in Nat /\ n > 2
  BY <1>2, BlockLengths
<1> HIDE DEF lo, hi, n
<1>4. ASSUME T # {} PROVE FALSE
  <2>1. PICK m \in T : \A j \in T : m <= j
    <3>1. T \subseteq Nat
      BY <1>3
    <3> HIDE DEF T
    <3> QED BY <3>1, <1>4, LeastNatural
  <2>2. m \in 1..n /\ ~Fits(m)
    BY <2>1
  <2>3. m # 1
    <3>1. Fits(1)
      BY <1>1, <1>2
    <3> QED BY <3>1, <2>2
  <2>4. PICK j \in 1..n : m = j + 1 /\ j < n
    BY <2>2, <2>3, <1>3
  <2>5. Fits(j)
    <3>1. ~(m <= j)
      BY <2>4
    <3> QED BY <3>1, <2>1
  <2>6. file[pos + j][1] = lo /\ file[pos + j][2] = hi /\ file[pos + j][3] = j
    BY <2>5
  <2>7. ~Last(file[pos + j])
    <3>1. j # n
      BY <2>4, <1>3
    <3> QED BY <3>1, <2>6 DEF Last, n
  <2>8. PICK i \in 1..Len(file) : i = pos + j
    BY <2>5, <1>1, <1>3
  <2>9. i # Len(file)
    <3>1. file # <<>>
      BY <2>8, EmptySeq
    <3> QED BY <3>1, <2>7, <2>8 DEF Stores, Stretch
  <2>10. i \in 1..(Len(file) - 1)
    BY <2>8, <2>9, <1>1
  <2>11. Joins(file[i], file[i + 1], torn)
    BY <2>10 DEF Stores, Stretch
  <2>12. file[i + 1] = <<file[i][1], file[i][2], file[i][3] + 1>>
    BY <2>7, <2>8, <2>11 DEF Joins
  <2>13. i + 1 = pos + m /\ pos + m <= Len(file)
    BY <2>4, <2>8, <2>10, <1>1
  <2>14. Fits(m)
    BY <2>4, <2>6, <2>8, <2>12, <2>13
  <2> QED BY <2>2, <2>14
<1>5. Fits(k)
  BY <1>4 DEF n, lo, hi
<1> QED BY <1>5 DEF lo, hi

LEMMA GiveKeeps ==
  ASSUME PipeTypeOK, \A i \in 1..Len(read) : read[i] = i, NEW n \in Nat,
         NEW bytes \in Seq(Nat), \A i \in 1..Len(bytes) : bytes[i] = Len(read) + i, Pipe!Give(bytes, n)
  PROVE  /\ read' \in Seq(Nat) /\ held' \in Seq(Nat) /\ Got' = Len(read) + Len(bytes)
         /\ \A i \in 1..Len(read') : read'[i] = i
         /\ \A i \in 1..Len(held') : held'[i] = Len(read') + i
<1> DEFINE b == Len(bytes)
           r == Len(read)
<1>1. b \in Nat /\ r \in Nat /\ read \in Seq(Nat)
  BY DEF PipeTypeOK
<1>2. PICK m \in 0..b : read' = read \o SubSeq(bytes, 1, m) /\ held' = SubSeq(bytes, m + 1, b)
  <2>1. (IF n < b THEN n ELSE b) \in 0..b
    BY <1>1
  <2> QED BY <2>1 DEF Pipe!Give
<1>3. PICK g \in Seq(Nat) : g = SubSeq(bytes, 1, m) /\ Len(g) = m /\ \A i \in 1..m : g[i] = r + i
  <2>1. SubSeq(bytes, 1, m) \in Seq(Nat) /\ Len(SubSeq(bytes, 1, m)) = m
    BY <1>1, <1>2, SubSeqProperties
  <2>2. \A i \in 1..m : SubSeq(bytes, 1, m)[i] = bytes[i] /\ i \in 1..b
    BY <1>1, <1>2
  <2> QED BY <2>1, <2>2
<1>4. /\ read' \in Seq(Nat) /\ Len(read') = r + m
      /\ \A i \in 1..r : read'[i] = read[i]
      /\ \A i \in 1..m : read'[r + i] = g[i]
  BY <1>1, <1>2, <1>3, ConcatProperties
<1>5. \A i \in 1..Len(read') : read'[i] = i
  <2> SUFFICES ASSUME NEW i \in 1..Len(read') PROVE read'[i] = i
    OBVIOUS
  <2>1. CASE i \in 1..r
    BY <2>1, <1>4
  <2>2. CASE i \notin 1..r
    <3>1. PICK j \in 1..m : i = r + j
      <4>1. i - r \in 1..m /\ i = r + (i - r)
        BY <2>2, <1>1, <1>4
      <4> QED BY <4>1
    <3> QED BY <3>1, <1>3, <1>4
  <2> QED BY <2>1, <2>2
<1>6. held' \in Seq(Nat) /\ Len(held') = b - m /\ \A i \in 1..(b - m) : held'[i] = bytes[m + i]
  <2>1. SubSeq(bytes, m + 1, b) \in Seq(Nat)
    BY SMTT(40), <1>1, <1>2
  <2>2. Len(SubSeq(bytes, m + 1, b)) = b - m
    BY <1>1, <1>2
  <2>3. \A i \in 1..(b - m) : SubSeq(bytes, m + 1, b)[i] = bytes[m + i]
    BY <1>1, <1>2
  <2> QED BY <2>1, <2>2, <2>3, <1>2
<1>7. \A i \in 1..Len(held') : held'[i] = Len(read') + i
  <2> SUFFICES ASSUME NEW i \in 1..(b - m) PROVE held'[i] = r + m + i
    BY <1>4, <1>6
  <2>1. m + i \in 1..b
    BY <1>1
  <2>2. bytes[m + i] = r + (m + i)
    BY <2>1
  <2> QED BY <2>2, <1>1, <1>6
<1>8. Got' = r + b
  BY <1>1, <1>4, <1>6 DEF Got
<1> QED BY <1>4, <1>5, <1>6, <1>7, <1>8

ReaderTypes == pos \in Nat /\ Len(file) \in Nat /\ file \in Seq(Byte) /\ Got \in Nat /\ taken \in Nat /\ stored \in Nat

LEMMA TypesOfReader == ASSUME PipeTypeOK PROVE ReaderTypes
BY DEF PipeTypeOK, ReaderTypes, Got

\* A step that gives the caller nothing.
LEMMA NothingGiven ==
  ASSUME PipeTypeOK, Stores, Reads, writer # "open", StillWritten, UNCHANGED <<held, read>>,
         faults' \in Nat, pos' \in Nat, pos' <= Len(file), eof' \in BOOLEAN, refused' \in {"no", "data", "io"},
         refused' # "no" \/ eof', eof' => held = <<>>,
         ~torn => refused' # "data" /\ (eof' => Got = stored)
  PROVE  PipeTypeOK' /\ Stores' /\ Reads'
<1>1. PipeTypeOK' /\ Stores'
  BY DEF PipeTypeOK, Stores, StillWritten
<1>2. Got' = Got
  BY DEF Got
<1> QED BY <1>1, <1>2 DEF Reads, StillWritten

LEMMA ReadHeldKeeps ==
  ASSUME PipeTypeOK, Stores, Reads, writer # "open", StillWritten, refused = "no", NEW n \in Nat,
         Pipe!ReadHeld(n)
  PROVE  PipeTypeOK' /\ Stores' /\ Reads'
<1>1. held \in Seq(Nat) /\ held # <<>> /\ Pipe!Give(held, n) /\ UNCHANGED <<pos, eof, refused, faults>>
  BY DEF Pipe!ReadHeld, PipeTypeOK
<1>2. (\A i \in 1..Len(read) : read[i] = i) /\ \A i \in 1..Len(held) : held[i] = Len(read) + i
  BY DEF Reads
<1>3. /\ read' \in Seq(Nat) /\ held' \in Seq(Nat) /\ Got' = Got
      /\ \A i \in 1..Len(read') : read'[i] = i
      /\ \A i \in 1..Len(held') : held'[i] = Len(read') + i
  BY <1>1, <1>2, GiveKeeps DEF Got
<1>4. PipeTypeOK' /\ Stores'
  BY <1>1, <1>3 DEF PipeTypeOK, Stores, StillWritten
<1>5. ~eof /\ (AtEnd' <=> AtEnd)
  BY <1>1, <1>3 DEF Reads, AtEnd, StillWritten
<1> QED BY <1>1, <1>3, <1>4, <1>5 DEF Reads, StillWritten

LEMMA ReadEndKeeps ==
  ASSUME PipeTypeOK, Stores, Reads, writer # "open", StillWritten, refused = "no", Pipe!ReadEnd
  PROVE  PipeTypeOK' /\ Stores' /\ Reads'
<1>1. /\ held = <<>> /\ ~eof /\ eof' = TRUE /\ pos' = Len(file) /\ UNCHANGED <<held, read, refused, faults>>
      /\ Len(file) - pos < HeaderLen
  BY DEF Pipe!ReadEnd, Pipe!Left
<1>2. ReaderTypes /\ MayRead /\ pos <= Len(file) /\ AtEnd
  BY <1>1, TypesOfReader DEF MayRead, Reads
<1>3. ASSUME ~torn PROVE Got = stored
  <2>1. pos = Len(file)
    <3> SUFFICES ASSUME pos < Len(file) PROVE FALSE
      BY <1>2 DEF ReaderTypes
    <3> DEFINE n == Pipe!BlockLen(file[pos + 1][1], file[pos + 1][2])
    <3>1. n \in Nat /\ n > HeaderLen
      <4>1. file[pos + 1] \in Byte /\ file[pos + 1] = <<Got + 1, file[pos + 1][2], 1>> /\ Got + 1 <= file[pos + 1][2]
        BY <1>2, BlockBegins
      <4>2. PICK lo \in Nat, hi \in Nat : lo = file[pos + 1][1] /\ hi = file[pos + 1][2] /\ lo <= hi
        <5>1. file[pos + 1][1] = Got + 1
          BY <4>1
        <5> QED BY <4>1, <5>1, <1>2 DEF Byte, ReaderTypes
      <4> QED BY SMTT(40), <4>2, PipeSizes DEF Pipe!BlockLen
    <3> HIDE DEF n
    <3>2. n \in 1..n
      BY <3>1, PipeSizes
    <3>3. pos + n <= Len(file)
      BY <1>2, <1>3, <3>2, BlockIsWhole DEF n
    <3> QED BY <1>1, <1>2, <3>1, <3>3, PipeSizes DEF ReaderTypes
  <2>2. CASE pos = 0
    <3>1. file = <<>>
      BY <2>1, <2>2, <1>2, EmptySeq DEF ReaderTypes
    <3>2. Len(file) = 0
      BY <2>1, <2>2
    <3> QED BY <2>1, <2>2, <3>1, <1>2 DEF Stores, Stretch, AtEnd
  <2>3. CASE pos # 0
    <3>1. file # <<>>
      BY <2>1, <2>3, EmptySeq
    <3> QED BY <2>1, <2>3, <3>1, <1>2 DEF Stores, Stretch, AtEnd
  <2> QED BY <2>2, <2>3
<1>4. pos' \in Nat /\ pos' <= Len(file) /\ faults' \in Nat /\ refused' \in {"no", "data", "io"}
  BY <1>1, <1>2 DEF ReaderTypes, PipeTypeOK
<1> QED BY <1>1, <1>3, <1>4, NothingGiven

LEMMA ReadFailsKeeps ==
  ASSUME PipeTypeOK, Stores, Reads, writer # "open", StillWritten, NEW k \in Nat, Pipe!ReadFails(k)
  PROVE  PipeTypeOK' /\ Stores' /\ Reads'
<1>1. /\ ~eof /\ k <= Len(file) - pos /\ pos' = pos + k /\ faults' = faults + 1 /\ refused' = "io"
      /\ UNCHANGED <<held, eof, read>>
  BY DEF Pipe!ReadFails, Pipe!Left
<1>2. ReaderTypes /\ faults \in Nat /\ eof \in BOOLEAN
  BY TypesOfReader DEF PipeTypeOK
<1>3. pos' \in Nat /\ pos' <= Len(file) /\ faults' \in Nat /\ eof' \in BOOLEAN /\ ~eof'
  BY <1>1, <1>2 DEF ReaderTypes
<1>4. refused' \in {"no", "data", "io"} /\ refused' # "no" /\ refused' # "data" /\ UNCHANGED <<held, read>>
  BY <1>1
<1> QED BY <1>3, <1>4, NothingGiven

LEMMA ReadRefusedKeeps ==
  ASSUME PipeTypeOK, Stores, Reads, writer # "open", StillWritten, refused = "no", Pipe!ReadRefused
  PROVE  PipeTypeOK' /\ Stores' /\ Reads'
<1> DEFINE lo == file[pos + 1][1]
           hi == file[pos + 1][2]
           n == Pipe!BlockLen(lo, hi)
<1>1. /\ held = <<>> /\ ~eof /\ Len(file) - pos >= HeaderLen
      /\ refused' = "data" /\ UNCHANGED <<held, eof, read, faults>>
      /\ \/ ~Pipe!IsHeader /\ pos' = pos + HeaderLen
         \/ Pipe!IsHeader /\ Len(file) - pos < n /\ pos' = Len(file)
         \/ Pipe!IsHeader /\ Len(file) - pos >= n /\ ~Pipe!IsPayload /\ pos' = pos + n
  BY DEF Pipe!ReadRefused, Pipe!Refuse, Pipe!Left, Pipe!Lo, Pipe!Hi
<1>2. ReaderTypes /\ MayRead /\ pos < Len(file)
  <2>1. ReaderTypes /\ MayRead
    BY <1>1, TypesOfReader DEF MayRead
  <2> QED BY <1>1, <2>1, PipeSizes DEF ReaderTypes
<1>3. /\ file[pos + 1] = <<lo, hi, 1>> /\ lo \in Nat /\ hi \in Nat /\ lo <= hi
  <2>1. file[pos + 1] \in Byte /\ file[pos + 1] = <<Got + 1, file[pos + 1][2], 1>> /\ Got + 1 <= file[pos + 1][2]
    BY <1>2, BlockBegins
  <2>2. file[pos + 1][1] = Got + 1
    BY <2>1
  <2> QED BY <2>1, <2>2 DEF Byte
<1>4. n \in Nat /\ n > HeaderLen /\ HeaderLen \in Nat
  BY <1>3, PipeSizes DEF Pipe!BlockLen
<1>5. ASSUME ~torn PROVE FALSE
  <2>1. \A k \in 1..n : pos + k <= Len(file) /\ file[pos + k] = <<lo, hi, k>>
    BY <1>2, <1>5, BlockIsWhole
  <2> HIDE DEF lo, hi, n
  <2>2. pos + n <= Len(file)
    BY <2>1, <1>4
  <2>3. \A k \in 1..HeaderLen : file[pos + k] = <<lo, hi, k>>
    BY <2>1, <1>4
  <2>4. \A k \in (HeaderLen + 1)..n : file[pos + k] = <<lo, hi, k>>
    BY <2>1, <1>4
  <2>5. Pipe!IsHeader /\ Pipe!IsPayload
    BY <2>3, <2>4 DEF Pipe!IsHeader, Pipe!IsPayload, Pipe!Lo, Pipe!Hi, lo, hi, n
  <2> QED BY <1>1, <1>2, <1>4, <2>2, <2>5 DEF ReaderTypes
<1>6. pos' \in Nat /\ pos' <= Len(file)
  <2> HIDE DEF n
  <2> QED BY <1>1, <1>2, <1>4 DEF ReaderTypes
<1>7. faults' \in Nat /\ eof' \in BOOLEAN /\ ~eof' /\ refused' \in {"no", "data", "io"} /\ refused' # "no"
  BY <1>1 DEF PipeTypeOK
<1> QED BY <1>1, <1>5, <1>6, <1>7, NothingGiven

LEMMA ReadBlockKeeps ==
  ASSUME PipeTypeOK, Stores, Reads, writer # "open", StillWritten, refused = "no", NEW n \in Nat,
         Pipe!ReadBlock(n)
  PROVE  PipeTypeOK' /\ Stores' /\ Reads'
<1> DEFINE lo == file[pos + 1][1]
           hi == file[pos + 1][2]
           len == Pipe!BlockLen(lo, hi)
           bytes == [i \in 1..(hi - lo + 1) |-> lo + i - 1]
<1>1. /\ held = <<>> /\ ~eof /\ Len(file) - pos >= HeaderLen /\ Len(file) - pos >= len
      /\ Pipe!IsHeader /\ Pipe!IsPayload
      /\ pos' = pos + len /\ Pipe!Give(bytes, n) /\ UNCHANGED <<eof, refused, faults>>
  BY DEF Pipe!ReadBlock, Pipe!Left, Pipe!Lo, Pipe!Hi
<1>2. ReaderTypes /\ MayRead /\ pos < Len(file)
  <2>1. ReaderTypes /\ MayRead
    BY <1>1, TypesOfReader DEF MayRead
  <2> QED BY <1>1, <2>1, PipeSizes DEF ReaderTypes
<1>3. /\ lo = Got + 1 /\ lo \in Nat /\ hi \in Nat /\ lo <= hi /\ hi <= taken
  <2>1. /\ file[pos + 1] \in Byte /\ file[pos + 1] = <<Got + 1, file[pos + 1][2], 1>>
        /\ Got + 1 <= file[pos + 1][2] /\ file[pos + 1][2] <= taken
    BY <1>2, BlockBegins
  <2>2. file[pos + 1][1] = Got + 1
    BY <2>1
  <2> QED BY <2>1, <2>2 DEF Byte
<1>4. len \in Nat /\ len > HeaderLen /\ HeaderLen \in Nat
  BY <1>3, PipeSizes DEF Pipe!BlockLen
<1>5. file[pos + len] = <<lo, hi, len>>
  <2>1. \A k \in (HeaderLen + 1)..len : file[pos + k] = <<lo, hi, k>>
    BY <1>1 DEF Pipe!IsPayload, Pipe!Lo, Pipe!Hi
  <2> HIDE DEF len
  <2>2. len \in (HeaderLen + 1)..len
    BY <1>4
  <2> QED BY <2>1, <2>2
<1>6. Got = Len(read) /\ Len(read) \in Nat
  BY <1>1 DEF Got, PipeTypeOK
<1> HIDE DEF lo, hi, len
<1>7. bytes \in Seq(Nat) /\ Len(bytes) = hi - lo + 1 /\ \A i \in 1..Len(bytes) : bytes[i] = Len(read) + i
  <2>1. PICK m \in Nat : m = hi - lo + 1
    BY <1>3
  <2>2. bytes \in [1..m -> Nat]
    BY <2>1, <1>3
  <2>4. \A i \in 1..m : bytes[i] = lo + i - 1
    BY <2>1
  <2> HIDE DEF bytes
  <2>3. bytes \in Seq(Nat) /\ Len(bytes) = m
    BY <2>2
  <2>5. \A i \in 1..m : bytes[i] = Len(read) + i
    BY <2>4, <1>3, <1>6
  <2> QED BY <2>1, <2>3, <2>5
<1> HIDE DEF bytes
<1>8. /\ read' \in Seq(Nat) /\ held' \in Seq(Nat) /\ Got' = Len(read) + Len(bytes)
      /\ \A i \in 1..Len(read') : read'[i] = i
      /\ \A i \in 1..Len(held') : held'[i] = Len(read') + i
  <2>1. \A i \in 1..Len(read) : read[i] = i
    BY DEF Reads
  <2> QED BY <2>1, <1>1, <1>7, GiveKeeps
<1>9. Got' = hi
  BY SMTT(40), <1>3, <1>6, <1>7, <1>8
<1>10. pos' \in Nat /\ pos' # 0 /\ pos' <= Len(file)
  BY <1>1, <1>2, <1>4 DEF ReaderTypes
<1>11. AtEnd'
  <2>1. file'[pos'] = <<lo, hi, len>>
    BY <1>1, <1>5 DEF StillWritten
  <2>2. Last(file'[pos']) /\ file'[pos'][2] = hi
    BY <2>1 DEF Last, len
  <2> QED BY <2>2, <1>9, <1>10 DEF AtEnd, Last
<1>12. PipeTypeOK' /\ Stores'
  BY <1>1, <1>8, <1>10 DEF PipeTypeOK, Stores, StillWritten
<1>13. Got' <= taken' /\ pos' <= Len(file')
  BY <1>3, <1>9, <1>10 DEF StillWritten
<1> QED BY <1>1, <1>8, <1>11, <1>12, <1>13 DEF Reads, StillWritten

LEMMA ReadingKeeps ==
  ASSUME PipeTypeOK, Stores, Reads, Pipe!Read PROVE PipeTypeOK' /\ Stores' /\ Reads'
<1>1. writer # "open" /\ refused = "no" /\ StillWritten
  BY DEF Pipe!Read, Pipe!CanRead, Pipe!ofWriter, StillWritten
<1>2. MaxCall \in Nat /\ Pipe!BlockLen(1, MaxBlock) \in Nat
  BY PipeSizes, CodecAssumption DEF Pipe!GlydStreamAssumption, Pipe!BlockLen
<1>3. \/ \E n \in Nat : Pipe!ReadHeld(n) \/ Pipe!ReadBlock(n)
      \/ Pipe!ReadEnd \/ Pipe!ReadRefused
      \/ \E k \in Nat : Pipe!ReadFails(k)
  BY <1>2 DEF Pipe!Read
<1> QED BY <1>1, <1>3, ReadHeldKeeps, ReadBlockKeeps, ReadEndKeeps, ReadRefusedKeeps, ReadFailsKeeps

LEMMA PipeInitOK == ASSUME Pipe!Init PROVE PipeTypeOK /\ Stores /\ Reads
<1>1. /\ taken = 0 /\ stored = 0 /\ file = <<>> /\ writer = "open" /\ torn = FALSE /\ faults = 0
      /\ pos = 0 /\ held = <<>> /\ eof = FALSE /\ read = <<>> /\ refused = "no"
  BY DEF Pipe!Init
<1>2. Len(file) = 0 /\ Len(read) = 0 /\ Len(held) = 0
  BY <1>1
<1>3. Got = 0
  BY <1>2 DEF Got
<1>4. PipeTypeOK
  <2>1. file \in Seq(Byte) /\ read \in Seq(Nat) /\ held \in Seq(Nat)
    BY <1>1, EmptySeq
  <2>2. taken \in Nat /\ stored \in Nat /\ faults \in Nat /\ pos \in Nat
    BY <1>1
  <2>3. torn \in BOOLEAN /\ eof \in BOOLEAN
    BY <1>1, Zenon
  <2>4. writer \in {"open", "finished", "dropped", "killed"} /\ refused \in {"no", "data", "io"}
    BY <1>1, Zenon
  <2> QED BY <2>1, <2>2, <2>3, <2>4 DEF PipeTypeOK
<1>5. Stores
  <2>1. Stretch(file, 1, stored, taken, torn)
    BY <1>1, <1>2 DEF Stretch
  <2> QED BY <1>1, <2>1, PipeSizes DEF Stores
<1>6. Reads
  BY <1>1, <1>2, <1>3 DEF Reads, Unread, AtEnd
<1> QED BY <1>4, <1>5, <1>6

LEMMA PipeStep == ASSUME PipeInv, [Next]_vars PROVE PipeInv'
<1>1. CASE which = "pipe" /\ Pipe!Next /\ which' = which
  <2>1. PipeTypeOK' /\ Stores' /\ Reads'
    BY <1>1, WritingKeeps, ReadingKeeps DEF Pipe!Next, PipeInv
  <2> QED BY <2>1 DEF PipeInv
<1>2. CASE which' = which /\ UNCHANGED ofPipe
  <2>1. UNCHANGED <<taken, stored, file, writer, torn, faults, pos, held, eof, read, refused>>
    BY <1>2 DEF ofPipe
  <2>2. PipeTypeOK' = PipeTypeOK /\ Stores' = Stores /\ Reads' = Reads
    BY <2>1 DEF PipeTypeOK, Stores, Reads, Unread, AtEnd, Got
  <2> QED BY <1>2, <2>2 DEF PipeInv
<1>3. CASE which # "pipe" /\ which' = which
  BY <1>3 DEF PipeInv
<1>4. CASE Next
  BY <1>1, <1>3, <1>4 DEF Next
<1>5. CASE UNCHANGED vars
  BY <1>2, <1>5 DEF vars
<1> QED BY <1>4, <1>5

\* What GlydReader gives is what GlydWriter was given, from the start and in order, however calls
\* fail; and after `finish` returned Ok on a file with no torn block, the end is all of it.
THEOREM ReadsAreWritten == Spec => []ReadIsWritten
<1>1. Init => PipeInv
  BY PipeInitOK DEF Init, PipeInv
<1>2. PipeInv /\ [Next]_vars => PipeInv'
  BY PipeStep
<1>3. PipeInv => ReadIsWritten
  <2> SUFFICES ASSUME which = "pipe", PipeInv PROVE Pipe!ReadIsWritten
    BY DEF ReadIsWritten
  <2>1. PipeTypeOK /\ Stores /\ Reads
    BY DEF PipeInv
  <2>2. Len(read) \in Nat /\ Len(held) \in Nat /\ taken \in Nat
    BY <2>1 DEF PipeTypeOK
  <2>3. Len(read) <= taken
    BY <2>1, <2>2 DEF Reads, Got
  <2>4. ASSUME eof, ~torn, writer = "finished" PROVE Len(read) = taken
    <3>1. held = <<>> /\ Got = stored /\ stored = taken
      BY <2>1, <2>4 DEF Reads, Stores
    <3>2. Len(held) = 0
      BY <3>1
    <3> QED BY <3>1, <3>2, <2>2 DEF Got
  <2> QED BY <2>1, <2>3, <2>4 DEF Pipe!ReadIsWritten, Reads
<1> QED BY <1>1, <1>2, <1>3, PTL DEF Spec

-----------------------------------------------------------------------------
(* A sequence's codes: powers of two, of a table, for what the prover      *)
(* knows of 2^k is its value for each k.                                   *)

P2 == [k \in 0..32 |-> 2^k]

LEMMA Powers ==
  /\ 2^0 = 1 /\ 2^1 = 2 /\ 2^2 = 4 /\ 2^3 = 8
  /\ 2^4 = 16 /\ 2^5 = 32 /\ 2^6 = 64 /\ 2^7 = 128
  /\ 2^8 = 256 /\ 2^9 = 512 /\ 2^10 = 1024 /\ 2^11 = 2048
  /\ 2^12 = 4096 /\ 2^13 = 8192 /\ 2^14 = 16384 /\ 2^15 = 32768
  /\ 2^16 = 65536 /\ 2^17 = 131072 /\ 2^18 = 262144 /\ 2^19 = 524288
  /\ 2^20 = 1048576 /\ 2^21 = 2097152 /\ 2^22 = 4194304 /\ 2^23 = 8388608
  /\ 2^24 = 16777216 /\ 2^25 = 33554432 /\ 2^26 = 67108864 /\ 2^27 = 134217728
  /\ 2^28 = 268435456 /\ 2^29 = 536870912 /\ 2^30 = 1073741824 /\ 2^31 = 2147483648
  /\ 2^32 = 4294967296
BY SMT

LEMMA P2Values ==
  /\ P2[0] = 1 /\ P2[1] = 2 /\ P2[2] = 4 /\ P2[3] = 8
  /\ P2[4] = 16 /\ P2[5] = 32 /\ P2[6] = 64 /\ P2[7] = 128
  /\ P2[8] = 256 /\ P2[9] = 512 /\ P2[10] = 1024 /\ P2[11] = 2048
  /\ P2[12] = 4096 /\ P2[13] = 8192 /\ P2[14] = 16384 /\ P2[15] = 32768
  /\ P2[16] = 65536 /\ P2[17] = 131072 /\ P2[18] = 262144 /\ P2[19] = 524288
  /\ P2[20] = 1048576 /\ P2[21] = 2097152 /\ P2[22] = 4194304 /\ P2[23] = 8388608
  /\ P2[24] = 16777216 /\ P2[25] = 33554432 /\ P2[26] = 67108864 /\ P2[27] = 134217728
  /\ P2[28] = 268435456 /\ P2[29] = 536870912 /\ P2[30] = 1073741824 /\ P2[31] = 2147483648
  /\ P2[32] = 4294967296
BY Powers, SMT DEF P2

LEMMA P2Step == ASSUME NEW k \in 0..31 PROVE P2[k + 1] = 2 * P2[k]
BY P2Values, SMTT(60)

LEMMA P2Type == ASSUME NEW k \in 0..32 PROVE P2[k] \in Nat \ {0}
BY P2Values, SMTT(60)

LEMMA PowersGrow == ASSUME NEW j \in 0..32, NEW k \in 0..32, j <= k PROVE P2[j] <= P2[k]
<1> DEFINE Less == {i \in 0..32 : j <= i /\ P2[i] < P2[j]}
<1>1. CASE Less = {}
  BY <1>1, P2Type
<1>2. CASE Less # {}
  <2>1. Less \subseteq Nat OBVIOUS
  <2>2. PICK m \in Less : \A i \in Less : m <= i
    <3> HIDE DEF Less
    <3> QED BY <1>2, <2>1, LeastNatural
  <2>3. m # j /\ m \in 1..32
    BY <2>2, P2Type
  <2>4. PICK i \in 0..31 : i = m - 1 /\ i + 1 = m
    BY <2>3
  <2>5. i \in 0..32 /\ j <= i
    BY <2>2, <2>3, <2>4
  <2>6. i \notin Less
    BY <2>2, <2>4, <2>5
  <2>7. P2[m] = 2 * P2[i] /\ P2[i] \in Nat /\ P2[j] \in Nat
    BY <2>4, <2>5, P2Step, P2Type
  <2> QED BY <2>2, <2>5, <2>6, <2>7
<1> QED BY <1>1, <1>2

LEMMA P2Is == ASSUME NEW k \in 0..32 PROVE 2^k = P2[k]
BY DEF P2

\* Every number below 2^30 lies between two powers.
LEMMA BetweenPowers ==
  ASSUME NEW v \in Nat, 1 <= v, v < P2[30]
  PROVE  \E k \in 0..29 : P2[k] <= v /\ v < 2 * P2[k]
<1> DEFINE Above == {k \in 0..30 : v < P2[k]}
<1>1. 30 \in Above
  BY SMT
<1>2. PICK m \in Above : \A k \in Above : m <= k
  <2>1. Above \subseteq Nat OBVIOUS
  <2> HIDE DEF Above
  <2> QED BY <1>1, <2>1, LeastNatural
<1>3. m \in 1..30
  BY <1>2, P2Values, SMT
<1>4. PICK k \in 0..29 : k = m - 1
  BY <1>3
<1>5. k \notin Above
  BY <1>2, <1>4
<1>6. P2[k + 1] = 2 * P2[k] /\ P2[k] \in Nat /\ k \in 0..30
  BY P2Step, P2Type
<1>7. P2[k] <= v /\ v < P2[k + 1]
  BY <1>4, <1>5, <1>6
<1> QED BY <1>6, <1>7

LEMMA Log2 ==
  ASSUME NEW v \in Nat, 1 <= v, v < P2[30]
  PROVE  /\ Sequence!log2(v) \in 0..30
         /\ P2[Sequence!log2(v)] <= v /\ v < 2 * P2[Sequence!log2(v)]
<1> DEFINE k == Sequence!log2(v)
           Is(j) == 2^j <= v /\ v \div 2 < 2^j
<1>1. k = CHOOSE j \in 0..30 : Is(j)
  BY DEF Sequence!log2
<1>2. \E j \in 0..30 : Is(j)
  <2>1. PICK j \in 0..29 : P2[j] <= v /\ v < 2 * P2[j]
    BY BetweenPowers
  <2>2. j \in 0..30 /\ j \in 0..32
    OBVIOUS
  <2>5. 2^j = P2[j] /\ P2[j] \in Nat
    BY <2>2, P2Is, P2Type
  <2>3. v \div 2 < P2[j]
    BY <2>1, <2>5
  <2>4. Is(j)
    BY <2>1, <2>2, <2>3, <2>5
  <2> HIDE DEF Is
  <2> QED BY <2>4
<1>3. k \in 0..30 /\ Is(k)
  <2> HIDE DEF Is
  <2> QED BY <1>1, <1>2
<1> HIDE DEF k
<1>4. 2^k = P2[k] /\ P2[k] \in Nat
  <2>1. k \in 0..32 BY <1>3
  <2> QED BY <2>1, P2Is, P2Type
<1>5. P2[k] <= v /\ v \div 2 < P2[k]
  BY <1>3, <1>4
<1>6. v < 2 * P2[k]
  BY <1>4, <1>5
<1> QED BY <1>3, <1>5, <1>6 DEF k

\* A number's remainder by the next power has one bit more of it.
LEMMA NextBit ==
  ASSUME NEW x \in Nat, NEW p \in Nat \ {0}
  PROVE  x % (2 * p) = (x % p) + ((x \div p) % 2) * p
<1>1. PICK q \in Nat, r \in 0..(p - 1) : q = x \div p /\ r = x % p /\ x = p * q + r
  BY Divides
<1>2. PICK h \in Nat, b \in 0..1 : h = q \div 2 /\ b = q % 2 /\ q = 2 * h + b
  OBVIOUS
<1>3. 2 * p \in Nat \ {0}
  OBVIOUS
<1>4. PICK s \in 0..(2 * p - 1) : s = p * b + r
  <2>1. b = 0 \/ b = 1 OBVIOUS
  <2> QED BY <2>1
<1>5. x = (2 * p) * h + s
  <2>1. p * q = p * (2 * h) + p * b
    BY <1>2
  <2>2. p * (2 * h) = (2 * p) * h
    OBVIOUS
  <2> QED BY <1>1, <1>4, <2>1, <2>2
<1>6. PICK g \in Nat, t \in 0..(2 * p - 1) : t = x % (2 * p) /\ x = (2 * p) * g + t
  <2>1. PICK n \in Nat \ {0} : n = 2 * p
    BY <1>3
  <2> QED BY <2>1, Divides
<1>7. t = s
  <2>1. PICK n \in Nat \ {0} : n = 2 * p
    BY <1>3
  <2>2. n * g + t = n * h + s /\ t \in 0..(n - 1) /\ s \in 0..(n - 1)
    BY <1>5, <1>6, <2>1
  <2> QED BY <2>2, OneQuotient
<1>8. p * b = b * p
  OBVIOUS
<1>9. (x \div p) % 2 = b /\ x % p = r
  BY <1>1, <1>2
<1> QED BY <1>4, <1>6, <1>7, <1>8, <1>9

InSteps(n, f, g) == \A k \in 1..n : f[k - 1] = g[k - 1] => f[k] = g[k]

\* Functions of numbers that agree from 0 and step by step agree.
LEMMA StepByStep ==
  ASSUME NEW n \in Nat, NEW f, NEW g, f[0] = g[0], InSteps(n, f, g)
  PROVE  \A k \in 0..n : f[k] = g[k]
<1> DEFINE Differ == {k \in 0..n : f[k] # g[k]}
<1>1. CASE Differ = {}
  BY <1>1
<1>2. CASE Differ # {}
  <2>1. Differ \subseteq Nat OBVIOUS
  <2>2. PICK m \in Differ : \A k \in Differ : m <= k
    <3> HIDE DEF Differ
    <3> QED BY <1>2, <2>1, LeastNatural
  <2>3. m \in 1..n
    BY <2>2
  <2>4. PICK k \in 0..n : k = m - 1
    BY <2>3
  <2>5. k \notin Differ
    BY <2>2, <2>3, <2>4
  <2> QED BY <2>2, <2>3, <2>4, <2>5 DEF InSteps
<1> QED BY <1>1, <1>2

HasBits(w, from, n, x) ==
  /\ Len(w) \in Nat /\ from + n <= Len(w)
  /\ \A j \in 1..n : w[from + j] = (x \div P2[j - 1]) % 2

\* n bits of a word, those of a number below 2^n, are the number.
LEMMA FieldIs ==
  ASSUME NEW n \in 0..32, NEW from \in Nat, NEW w, NEW x \in Nat, x < P2[n],
         HasBits(w, from, n, x)
  PROVE  Sequence!field(w, from, n) = x
<1> DEFINE Body(v, k) == IF k = 0 THEN 0
                         ELSE v[k - 1] + (IF from + k <= Len(w) THEN w[from + k] ELSE 0) * 2^(k - 1)
           Step(v) == [k \in 0..n |-> Body(v, k)]
           value == CHOOSE v : v = Step(v)
           low == [k \in 0..n |-> x % P2[k]]
<1>1. Sequence!field(w, from, n) = value[n]
  BY DEF Sequence!field
<1>2. ASSUME NEW k \in 1..n, NEW v, v[k - 1] = x % P2[k - 1] PROVE Body(v, k) = x % P2[k]
  <2>7. n \in Int /\ n <= 32
    OBVIOUS
  <2>6. k \in Int /\ 1 <= k /\ k <= 32
    BY ONLY <2>7, k \in 1..n
  <2>1. PICK m \in 0..31 : m = k - 1 /\ k = m + 1
    BY ONLY <2>6
  <2>2. m \in 0..32
    OBVIOUS
  <2>3. PICK p \in Nat \ {0} : p = P2[m] /\ 2^m = p /\ P2[k] = 2 * p
    BY <2>1, <2>2, P2Step, P2Type, P2Is
  <2>4. from + k <= Len(w) /\ w[from + k] = (x \div p) % 2
    <3>1. from + k <= Len(w)
      BY <2>7 DEF HasBits
    <3>2. w[from + k] = (x \div P2[k - 1]) % 2
      BY DEF HasBits
    <3> QED BY <2>1, <2>3, <3>1, <3>2
  <2>5. Body(v, k) = v[m] + ((x \div p) % 2) * p
    BY <2>1, <2>3, <2>4
  <2> QED BY <1>2, <2>1, <2>3, <2>5, NextBit
<1>3. x % P2[0] = 0
  <2>1. P2[0] = 1 BY P2Values, SMT
  <2> QED BY <2>1
<1>4. low = Step(low)
  <2>1. ASSUME NEW k \in 0..n PROVE low[k] = Body(low, k)
    <3>1. CASE k = 0
      BY <1>3, <3>1
    <3>2. CASE k # 0
      <4>1. k \in 1..n BY <3>2
      <4>2. low[k - 1] = x % P2[k - 1] BY <4>1
      <4> HIDE DEF Body
      <4> QED BY <1>2, <4>1, <4>2
    <3> QED BY <3>1, <3>2
  <2> HIDE DEF Body
  <2> QED BY <2>1
<1>5. value = Step(value)
  <2> HIDE DEF Step, low
  <2> QED BY <1>4
<1> HIDE DEF value
<1>6. \A k \in 0..n : value[k] = Body(value, k)
  <2> HIDE DEF Body
  <2> QED BY <1>5
<1>7. \A k \in 0..n : value[k] = low[k]
  <2>1. value[0] = low[0]
    BY <1>3, <1>6
  <2>2. ASSUME NEW k \in 1..n, value[k - 1] = low[k - 1] PROVE value[k] = low[k]
    <3>1. low[k - 1] = x % P2[k - 1] /\ low[k] = x % P2[k] /\ k \in 0..n
      OBVIOUS
    <3> HIDE DEF Body, low
    <3> QED BY <1>2, <1>6, <2>2, <3>1
  <2> HIDE DEF low
  <2>3. n \in Nat OBVIOUS
  <2>4. InSteps(n, value, low)
    BY <2>2 DEF InSteps
  <2> QED BY ONLY <2>1, <2>3, <2>4, StepByStep
<1>8. value[n] = x % P2[n]
  BY <1>7
<1>9. x % P2[n] = x
  <2>1. PICK p \in Nat \ {0} : p = P2[n]
    BY P2Type
  <2> QED BY <2>1
<1> QED BY <1>1, <1>8, <1>9

BasesFrom(n, first, bits, f) ==
  [c \in 0..n |-> IF c = 0 THEN first ELSE f[c - 1] + 2^bits[c - 1]]

Grows(n, bits, g) == \A c \in 1..n : g[c] = g[c - 1] + 2^bits[c - 1]
OnlyTo(n, g) == g = [c \in 0..n |-> g[c]]

\* The table of bases that its recursion gives.
LEMMA BasesFixed ==
  ASSUME NEW n \in Nat, NEW first, NEW bits, NEW g,
         OnlyTo(n, g), g[0] = first, Grows(n, bits, g)
  PROVE  g = BasesFrom(n, first, bits, g)
<1>1. \A c \in 0..n : g[c] = IF c = 0 THEN first ELSE g[c - 1] + 2^bits[c - 1]
  <2>1. ASSUME NEW c \in 0..n, c # 0 PROVE c \in 1..n
    BY <2>1
  <2> QED BY <2>1 DEF Grows
<1> QED BY <1>1 DEF BasesFrom, OnlyTo

LEMMA BasesAre ==
  ASSUME NEW n \in Nat, NEW first, NEW bits, NEW g, g[0] = first, Grows(n, bits, g),
         NEW base, base = BasesFrom(n, first, bits, base)
  PROVE  DOMAIN base = 0..n /\ \A c \in 0..n : base[c] = g[c]
<1>1. base[0] = g[0] /\ DOMAIN base = 0..n
  <2>1. 0 \in 0..n OBVIOUS
  <2>2. DOMAIN base = 0..n
    BY DEF BasesFrom
  <2>3. base[0] = first
    BY <2>1 DEF BasesFrom
  <2> QED BY <2>2, <2>3
<1>2. InSteps(n, base, g)
  <2>1. ASSUME NEW c \in 1..n PROVE c \in 0..n /\ c # 0
    OBVIOUS
  <2>2. ASSUME NEW c \in 1..n PROVE base[c] = base[c - 1] + 2^bits[c - 1]
    BY <2>1 DEF BasesFrom
  <2> QED BY <2>2 DEF Grows, InSteps
<1>3. \A c \in 0..n : base[c] = g[c]
  BY ONLY n \in Nat, <1>1, <1>2, StepByStep
<1> QED BY <1>1, <1>3

LLBase == [c \in 0..37 |->
  IF c < 17 THEN c ELSE IF c < 25 THEN <<18, 20, 22, 24, 28, 32, 40, 48>>[c - 16] ELSE P2[c - 19]]

MLBase == [c \in 0..53 |->
  IF c < 33 THEN c + 3 ELSE IF c < 43 THEN <<37, 39, 41, 43, 47, 51, 59, 67, 83, 99>>[c - 32]
  ELSE 3 + P2[c - 36]]

\* The extra bits of the codes.
LEMMA LLBits ==
  ASSUME NEW c \in 0..37
  PROVE  /\ Sequence!LL_BITS[c] \in 0..18 /\ (c < 25 => Sequence!LL_BITS[c] <= 4)
         /\ (c >= 25 => Sequence!LL_BITS[c] = c - 19)
<1>1. c < 16 \/ c \in 16..24 \/ c >= 25
  OBVIOUS
<1>2. CASE c < 16
  BY <1>2 DEF Sequence!LL_BITS
<1>3. CASE c >= 25
  BY <1>3 DEF Sequence!LL_BITS
<1>4. CASE c \in 16..24
  <2>1. PICK i \in 1..9 : i = c - 15
    BY <1>4
  <2>2. Sequence!LL_BITS[c] = <<1, 1, 1, 1, 2, 2, 3, 3, 4>>[i]
    BY <1>4, <2>1 DEF Sequence!LL_BITS
  <2>3. <<1, 1, 1, 1, 2, 2, 3, 3, 4>>[i] \in 1..4
    BY SMT
  <2> QED BY <1>4, <2>2, <2>3
<1> QED BY <1>1, <1>2, <1>3, <1>4

LEMMA MLBits ==
  ASSUME NEW c \in 0..53
  PROVE  /\ Sequence!ML_BITS[c] \in 0..18 /\ (c < 43 => Sequence!ML_BITS[c] <= 5)
         /\ (c >= 43 => Sequence!ML_BITS[c] = c - 36)
<1>1. c < 32 \/ c \in 32..42 \/ c >= 43
  OBVIOUS
<1>2. CASE c < 32
  BY <1>2 DEF Sequence!ML_BITS
<1>3. CASE c >= 43
  BY <1>3 DEF Sequence!ML_BITS
<1>4. CASE c \in 32..42
  <2>1. PICK i \in 1..11 : i = c - 31
    BY <1>4
  <2>2. Sequence!ML_BITS[c] = <<1, 1, 1, 1, 2, 2, 3, 3, 4, 4, 5>>[i]
    BY <1>4, <2>1 DEF Sequence!ML_BITS
  <2>3. <<1, 1, 1, 1, 2, 2, 3, 3, 4, 4, 5>>[i] \in 1..5
    BY SMT
  <2> QED BY <1>4, <2>2, <2>3
<1> QED BY <1>1, <1>2, <1>3, <1>4

LEMMA LLMiddle ==
  /\ LLBase[16] = 16 /\ LLBase[17] = 18 /\ Sequence!LL_BITS[16] = 1
  /\ LLBase[17] = 18 /\ LLBase[18] = 20 /\ Sequence!LL_BITS[17] = 1
  /\ LLBase[18] = 20 /\ LLBase[19] = 22 /\ Sequence!LL_BITS[18] = 1
  /\ LLBase[19] = 22 /\ LLBase[20] = 24 /\ Sequence!LL_BITS[19] = 1
  /\ LLBase[20] = 24 /\ LLBase[21] = 28 /\ Sequence!LL_BITS[20] = 2
  /\ LLBase[21] = 28 /\ LLBase[22] = 32 /\ Sequence!LL_BITS[21] = 2
  /\ LLBase[22] = 32 /\ LLBase[23] = 40 /\ Sequence!LL_BITS[22] = 3
  /\ LLBase[23] = 40 /\ LLBase[24] = 48 /\ Sequence!LL_BITS[23] = 3
  /\ LLBase[24] = 48 /\ LLBase[25] = 64 /\ Sequence!LL_BITS[24] = 4
<1>1. LLBase[25] = 64
  <2>1. LLBase[25] = P2[6] BY DEF LLBase
  <2>2. P2[6] = 64 BY P2Values, SMT
  <2> QED BY <2>1, <2>2
<1> QED BY <1>1, SMT DEF LLBase, Sequence!LL_BITS

LEMMA LLNext ==
  ASSUME NEW c \in 0..36
  PROVE  LLBase[c + 1] = LLBase[c] + P2[Sequence!LL_BITS[c]]
<1>1. c < 16 \/ c \in 16..24 \/ c >= 25
  OBVIOUS
<1>2. CASE c < 16
  <2>1. LLBase[c] = c /\ LLBase[c + 1] = c + 1
    BY <1>2 DEF LLBase
  <2>2. Sequence!LL_BITS[c] = 0
    BY <1>2 DEF Sequence!LL_BITS
  <2>3. P2[0] = 1 BY P2Values, SMT
  <2> QED BY <2>1, <2>2, <2>3
<1>3. CASE c >= 25
  <2>1. PICK k \in 0..29 : k = c - 19
    BY <1>3
  <2>2. Sequence!LL_BITS[c] = k
    BY <1>3, <2>1, LLBits
  <2>3. LLBase[c] = P2[k] /\ LLBase[c + 1] = P2[k + 1]
    BY <1>3, <2>1 DEF LLBase
  <2>4. P2[k + 1] = 2 * P2[k] /\ k \in 0..32
    BY P2Step
  <2>5. P2[k] \in Nat
    BY <2>4, P2Type
  <2> QED BY <2>2, <2>3, <2>4, <2>5
<1>4. CASE c \in 16..24
  <2>1. c = 16 \/ c = 17 \/ c = 18 \/ c = 19 \/ c = 20 \/ c = 21 \/ c = 22 \/ c = 23 \/ c = 24
    BY <1>4
  <2>2. P2[1] = 2 /\ P2[2] = 4 /\ P2[3] = 8 /\ P2[4] = 16 /\ P2[5] = 32
    BY P2Values, SMT
  <2> QED BY ONLY <2>1, <2>2, LLMiddle, SMT
<1> QED BY <1>1, <1>2, <1>3, <1>4

LEMMA LLBaseIs ==
  /\ DOMAIN Sequence!LL_BASE = 0..37
  /\ \A c \in 0..37 : Sequence!LL_BASE[c] = LLBase[c]
<1> DEFINE bits == Sequence!LL_BITS
<1>1. LLBase = [c \in 0..37 |-> LLBase[c]] /\ LLBase[0] = 0
  BY DEF LLBase, Sequence!MIN_MATCH
<1>2. ASSUME NEW c \in 1..37 PROVE LLBase[c] = LLBase[c - 1] + 2^bits[c - 1]
  <2>1. PICK m \in 0..36 : m = c - 1 /\ c = m + 1
    OBVIOUS
  <2>2. m \in 0..37
    OBVIOUS
  <2>3. PICK k \in 0..32 : k = bits[m]
    BY <2>2, LLBits
  <2>4. 2^k = P2[k]
    BY P2Is
  <2>5. LLBase[m + 1] = LLBase[m] + P2[bits[m]]
    BY LLNext
  <2> QED BY <2>1, <2>3, <2>4, <2>5
<1>3. PICK base : base = Sequence!LL_BASE
  OBVIOUS
<1>4. PICK b : b = bits
  OBVIOUS
<1>5. PICK first : first = 0
  OBVIOUS
<1>6. PICK n \in Nat : n = 37
  OBVIOUS
<1>7. PICK g : g = LLBase
  OBVIOUS
<1>8. base = CHOOSE f : f = BasesFrom(n, first, b, f)
  BY <1>3, <1>4, <1>5, <1>6 DEF Sequence!LL_BASE, BasesFrom
<1> HIDE DEF bits
<1>9. Grows(n, b, g)
  BY <1>2, <1>4, <1>6, <1>7 DEF Grows
<1>10. OnlyTo(n, g) /\ g[0] = first
  BY <1>1, <1>5, <1>6, <1>7 DEF OnlyTo
<1>11. g = BasesFrom(n, first, b, g)
  BY ONLY <1>9, <1>10, n \in Nat, BasesFixed
<1>12. base = BasesFrom(n, first, b, base)
  BY ONLY <1>8, <1>11
<1>13. DOMAIN base = 0..n /\ \A c \in 0..n : base[c] = g[c]
  BY ONLY <1>9, <1>10, <1>12, n \in Nat, BasesAre
<1> QED BY <1>3, <1>6, <1>7, <1>13

LEMMA LLBaseType == ASSUME NEW c \in 0..37 PROVE LLBase[c] \in Nat
<1>1. c <= 16 \/ c \in 17..24 \/ c >= 25
  OBVIOUS
<1>2. CASE c <= 16
  BY <1>2 DEF LLBase
<1>3. CASE c >= 25
  <2>1. PICK k \in 0..32 : k = c - 19
    BY <1>3
  <2> QED BY <1>3, <2>1, P2Type DEF LLBase
<1>4. CASE c \in 17..24
  <2>1. c = 17 \/ c = 18 \/ c = 19 \/ c = 20 \/ c = 21 \/ c = 22 \/ c = 23 \/ c = 24
    BY <1>4
  <2> QED BY ONLY <2>1, LLMiddle, SMT
<1> QED BY <1>1, <1>2, <1>3, <1>4

LEMMA MLMiddle ==
  /\ MLBase[32] = 35 /\ MLBase[33] = 37 /\ Sequence!ML_BITS[32] = 1
  /\ MLBase[33] = 37 /\ MLBase[34] = 39 /\ Sequence!ML_BITS[33] = 1
  /\ MLBase[34] = 39 /\ MLBase[35] = 41 /\ Sequence!ML_BITS[34] = 1
  /\ MLBase[35] = 41 /\ MLBase[36] = 43 /\ Sequence!ML_BITS[35] = 1
  /\ MLBase[36] = 43 /\ MLBase[37] = 47 /\ Sequence!ML_BITS[36] = 2
  /\ MLBase[37] = 47 /\ MLBase[38] = 51 /\ Sequence!ML_BITS[37] = 2
  /\ MLBase[38] = 51 /\ MLBase[39] = 59 /\ Sequence!ML_BITS[38] = 3
  /\ MLBase[39] = 59 /\ MLBase[40] = 67 /\ Sequence!ML_BITS[39] = 3
  /\ MLBase[40] = 67 /\ MLBase[41] = 83 /\ Sequence!ML_BITS[40] = 4
  /\ MLBase[41] = 83 /\ MLBase[42] = 99 /\ Sequence!ML_BITS[41] = 4
  /\ MLBase[42] = 99 /\ MLBase[43] = 131 /\ Sequence!ML_BITS[42] = 5
<1>1. MLBase[43] = 131
  <2>1. MLBase[43] = 3 + P2[7] BY DEF MLBase
  <2>2. P2[7] = 128 BY P2Values, SMT
  <2> QED BY <2>1, <2>2
<1> QED BY <1>1, SMT DEF MLBase, Sequence!ML_BITS

LEMMA MLNext ==
  ASSUME NEW c \in 0..52
  PROVE  MLBase[c + 1] = MLBase[c] + P2[Sequence!ML_BITS[c]]
<1>1. c < 32 \/ c \in 32..42 \/ c >= 43
  OBVIOUS
<1>2. CASE c < 32
  <2>1. MLBase[c] = c + 3 /\ MLBase[c + 1] = c + 4
    BY <1>2 DEF MLBase
  <2>2. Sequence!ML_BITS[c] = 0
    BY <1>2 DEF Sequence!ML_BITS
  <2>3. P2[0] = 1 BY P2Values, SMT
  <2> QED BY <2>1, <2>2, <2>3
<1>3. CASE c >= 43
  <2>1. PICK k \in 0..29 : k = c - 36
    BY <1>3
  <2>2. Sequence!ML_BITS[c] = k
    BY <1>3, <2>1, MLBits
  <2>3. MLBase[c] = 3 + P2[k] /\ MLBase[c + 1] = 3 + P2[k + 1]
    BY <1>3, <2>1 DEF MLBase
  <2>4. P2[k + 1] = 2 * P2[k] /\ k \in 0..32
    BY P2Step
  <2>5. P2[k] \in Nat
    BY <2>4, P2Type
  <2> QED BY <2>2, <2>3, <2>4, <2>5
<1>4. CASE c \in 32..42
  <2>1. c = 32 \/ c = 33 \/ c = 34 \/ c = 35 \/ c = 36 \/ c = 37 \/ c = 38 \/ c = 39 \/ c = 40 \/ c = 41 \/ c = 42
    BY <1>4
  <2>2. P2[1] = 2 /\ P2[2] = 4 /\ P2[3] = 8 /\ P2[4] = 16 /\ P2[5] = 32
    BY P2Values, SMT
  <2> QED BY ONLY <2>1, <2>2, MLMiddle, SMT
<1> QED BY <1>1, <1>2, <1>3, <1>4

LEMMA MLBaseIs ==
  /\ DOMAIN Sequence!ML_BASE = 0..53
  /\ \A c \in 0..53 : Sequence!ML_BASE[c] = MLBase[c]
<1> DEFINE bits == Sequence!ML_BITS
<1>1. MLBase = [c \in 0..53 |-> MLBase[c]] /\ MLBase[0] = Sequence!MIN_MATCH
  BY DEF MLBase, Sequence!MIN_MATCH
<1>2. ASSUME NEW c \in 1..53 PROVE MLBase[c] = MLBase[c - 1] + 2^bits[c - 1]
  <2>1. PICK m \in 0..52 : m = c - 1 /\ c = m + 1
    OBVIOUS
  <2>2. m \in 0..53
    OBVIOUS
  <2>3. PICK k \in 0..32 : k = bits[m]
    BY <2>2, MLBits
  <2>4. 2^k = P2[k]
    BY P2Is
  <2>5. MLBase[m + 1] = MLBase[m] + P2[bits[m]]
    BY MLNext
  <2> QED BY <2>1, <2>3, <2>4, <2>5
<1>3. PICK base : base = Sequence!ML_BASE
  OBVIOUS
<1>4. PICK b : b = bits
  OBVIOUS
<1>5. PICK first : first = Sequence!MIN_MATCH
  OBVIOUS
<1>6. PICK n \in Nat : n = 53
  OBVIOUS
<1>7. PICK g : g = MLBase
  OBVIOUS
<1>8. base = CHOOSE f : f = BasesFrom(n, first, b, f)
  BY <1>3, <1>4, <1>5, <1>6 DEF Sequence!ML_BASE, BasesFrom
<1> HIDE DEF bits
<1>9. Grows(n, b, g)
  BY <1>2, <1>4, <1>6, <1>7 DEF Grows
<1>10. OnlyTo(n, g) /\ g[0] = first
  BY <1>1, <1>5, <1>6, <1>7 DEF OnlyTo
<1>11. g = BasesFrom(n, first, b, g)
  BY ONLY <1>9, <1>10, n \in Nat, BasesFixed
<1>12. base = BasesFrom(n, first, b, base)
  BY ONLY <1>8, <1>11
<1>13. DOMAIN base = 0..n /\ \A c \in 0..n : base[c] = g[c]
  BY ONLY <1>9, <1>10, <1>12, n \in Nat, BasesAre
<1> QED BY <1>3, <1>6, <1>7, <1>13

LEMMA MLBaseType == ASSUME NEW c \in 0..53 PROVE MLBase[c] \in Nat
<1>1. c <= 32 \/ c \in 33..42 \/ c >= 43
  OBVIOUS
<1>2. CASE c <= 32
  BY <1>2 DEF MLBase
<1>3. CASE c >= 43
  <2>1. PICK k \in 0..32 : k = c - 36
    BY <1>3
  <2> QED BY <1>3, <2>1, P2Type DEF MLBase
<1>4. CASE c \in 33..42
  <2>1. c = 33 \/ c = 34 \/ c = 35 \/ c = 36 \/ c = 37 \/ c = 38 \/ c = 39 \/ c = 40 \/ c = 41 \/ c = 42
    BY <1>4
  <2> QED BY ONLY <2>1, MLMiddle, SMT
<1> QED BY <1>1, <1>2, <1>3, <1>4

\* A table of codes: where each code's numbers end the next one's begin, and from the code
\* `last` on are the numbers the table is not looked up for.
Table(n, last, base, bits) ==
  /\ DOMAIN base = 0..n /\ last \in 1..n
  /\ \A c \in 0..n : base[c] \in Nat /\ bits[c] \in 0..18
  /\ \A c \in 0..(n - 1) : base[c + 1] = base[c] + P2[bits[c]]
  /\ \A c \in last..n : base[last] <= base[c]

\* A number's code: its base and extra bits are the number.
CodeOf(c, base, bits, v) ==
  /\ c.bits = bits[c.code] /\ c.bits \in 0..32
  /\ c.extra \in Nat /\ c.extra < P2[c.bits] /\ base[c.code] + c.extra = v

LEMMA LLTable == Table(37, 25, Sequence!LL_BASE, Sequence!LL_BITS)
<1>1. DOMAIN Sequence!LL_BASE = 0..37 /\ 25 \in 1..37
  BY LLBaseIs
<1>2. ASSUME NEW c \in 0..37 PROVE Sequence!LL_BASE[c] \in Nat /\ Sequence!LL_BITS[c] \in 0..18
  BY LLBaseIs, LLBaseType, LLBits
<1>3. ASSUME NEW c \in 0..36
      PROVE  Sequence!LL_BASE[c + 1] = Sequence!LL_BASE[c] + P2[Sequence!LL_BITS[c]]
  <2>1. c \in 0..37 /\ c + 1 \in 0..37
    OBVIOUS
  <2> QED BY <2>1, LLBaseIs, LLNext
<1>4. ASSUME NEW c \in 25..37 PROVE Sequence!LL_BASE[25] <= Sequence!LL_BASE[c]
  <2>1. c \in 0..37 /\ 25 \in 0..37
    OBVIOUS
  <2>2. Sequence!LL_BASE[25] = P2[6] /\ Sequence!LL_BASE[c] = P2[c - 19]
    BY <2>1, LLBaseIs DEF LLBase
  <2>3. P2[6] <= P2[c - 19]
    BY PowersGrow
  <2> QED BY <2>2, <2>3
<1>5. 37 - 1 = 36 OBVIOUS
<1> QED BY <1>1, <1>2, <1>3, <1>4, <1>5 DEF Table

LEMMA MLTable == Table(53, 43, Sequence!ML_BASE, Sequence!ML_BITS)
<1>1. DOMAIN Sequence!ML_BASE = 0..53 /\ 43 \in 1..53
  BY MLBaseIs
<1>2. ASSUME NEW c \in 0..53 PROVE Sequence!ML_BASE[c] \in Nat /\ Sequence!ML_BITS[c] \in 0..18
  BY MLBaseIs, MLBaseType, MLBits
<1>3. ASSUME NEW c \in 0..52
      PROVE  Sequence!ML_BASE[c + 1] = Sequence!ML_BASE[c] + P2[Sequence!ML_BITS[c]]
  <2>1. c \in 0..53 /\ c + 1 \in 0..53
    OBVIOUS
  <2> QED BY <2>1, MLBaseIs, MLNext
<1>4. ASSUME NEW c \in 43..53 PROVE Sequence!ML_BASE[43] <= Sequence!ML_BASE[c]
  <2>1. c \in 0..53 /\ 43 \in 0..53
    OBVIOUS
  <2>2. Sequence!ML_BASE[43] = 3 + P2[7] /\ Sequence!ML_BASE[c] = 3 + P2[c - 36]
    BY <2>1, MLBaseIs DEF MLBase
  <2>3. PICK m \in 7..17 : m = c - 36
    OBVIOUS
  <2>4. P2[7] <= P2[m] /\ P2[7] \in Nat /\ P2[m] \in Nat
    BY PowersGrow, P2Type
  <2> QED BY <2>2, <2>3, <2>4
<1>5. 53 - 1 = 52 OBVIOUS
<1> QED BY <1>1, <1>2, <1>3, <1>4, <1>5 DEF Table

\* Looked up in the table.
LEMMA SmallCode ==
  ASSUME NEW n \in Nat, NEW last, NEW base, NEW bits, Table(n, last, base, bits),
         NEW v \in Nat, base[0] <= v, v < base[last]
  PROVE  /\ Sequence!small_code(base, bits, v).code \in 0..(last - 1)
         /\ CodeOf(Sequence!small_code(base, bits, v), base, bits, v)
<1> DEFINE Is(c) == base[c] <= v /\ (c + 1 \in DOMAIN base => v < base[c + 1])
           code == CHOOSE c \in DOMAIN base : Is(c)
           Above == {c \in 0..n : v < base[c]}
<1>1. last \in 0..n /\ last \in Nat /\ DOMAIN base = 0..n
  BY DEF Table
<1>2. PICK m \in Above : \A c \in Above : m <= c
  <2>1. Above \subseteq Nat /\ last \in Above
    BY <1>1
  <2> HIDE DEF Above
  <2> QED BY <2>1, LeastNatural
<1>3. \A c \in 0..n : base[c] \in Nat
  BY DEF Table
<1>4. m \in 1..n
  <2>1. base[0] \in Nat BY <1>1, <1>3
  <2> QED BY <1>2, <2>1
<1>5. PICK c \in 0..n : c = m - 1 /\ c + 1 = m
  BY <1>4
<1>6. Is(c)
  <2>1. c \notin Above
    BY <1>2, <1>4, <1>5
  <2>2. base[c] <= v
    BY <2>1, <1>3
  <2> QED BY <1>2, <1>5, <2>2
<1>7. code \in 0..n /\ Is(code)
  <2> HIDE DEF Is
  <2> QED BY <1>1, <1>6
<1>8. Sequence!small_code(base, bits, v) = Sequence!Code(code, bits[code], v - base[code])
  BY DEF Sequence!small_code
<1> HIDE DEF code
<1>9. code < last
  <2> SUFFICES ASSUME code >= last PROVE FALSE
    BY <1>1, <1>7
  <2>1. base[last] <= base[code]
    BY <1>1, <1>7 DEF Table
  <2> QED BY <1>1, <1>3, <1>7, <2>1
<1>10. code \in 0..(n - 1) /\ code + 1 \in 0..n /\ code \in 0..(last - 1)
  BY <1>1, <1>7, <1>9
<1>11. base[code + 1] = base[code] + P2[bits[code]] /\ bits[code] \in 0..18
  BY <1>7, <1>10 DEF Table
<1>12. bits[code] \in 0..32 /\ P2[bits[code]] \in Nat
  BY <1>11, P2Type
<1>13. base[code] <= v /\ v < base[code] + P2[bits[code]] /\ base[code] \in Nat
  BY <1>1, <1>3, <1>7, <1>10, <1>11
<1>14. v - base[code] \in Nat /\ v - base[code] < P2[bits[code]] /\ base[code] + (v - base[code]) = v
  BY <1>12, <1>13
<1> QED BY <1>8, <1>10, <1>12, <1>14 DEF CodeOf, Sequence!Code

Between(lo, v, hi) == lo < hi /\ P2[lo] <= v /\ v < P2[hi]
PowerCode(c, first, lo, hi, v) ==
  /\ c.bits \in lo..(hi - 1) /\ c.code = first + c.bits
  /\ c.extra \in Nat /\ c.extra < P2[c.bits] /\ P2[c.bits] + c.extra = v

\* Past the table, by the power below.
LEMMA Pow2Code ==
  ASSUME NEW first \in Nat, NEW v \in Nat, NEW lo \in 0..29, NEW hi \in 1..30, 
         Between(lo, v, hi), NEW c, c = Sequence!Pow2_code(first, v)
  PROVE  PowerCode(c, first, lo, hi, v)
<1>1. P2[lo] \in Nat \ {0} /\ P2[hi] <= P2[30] /\ P2[hi] \in Nat /\ P2[30] \in Nat
  BY P2Type, PowersGrow
<1>2. 1 <= v /\ v < P2[30]
  BY <1>1 DEF Between
<1>3. PICK k \in 0..32 : k = Sequence!log2(v) /\ P2[k] <= v /\ v < 2 * P2[k]
  BY <1>2, Log2
<1>4. P2[k] \in Nat /\ 2^k = P2[k]
  BY P2Type, P2Is
<1>0. lo < hi /\ P2[lo] <= v /\ v < P2[hi]
  BY DEF Between
<1>5. k < hi
  <2> SUFFICES ASSUME k >= hi PROVE FALSE OBVIOUS
  <2>1. P2[hi] <= P2[k] BY PowersGrow
  <2> QED BY <1>0, <1>1, <1>3, <1>4, <2>1
<1>6. lo <= k
  <2> SUFFICES ASSUME k < lo PROVE FALSE OBVIOUS
  <2>1. k \in 0..29 /\ k + 1 \in 0..30 /\ lo \in 0..30 /\ k + 1 <= lo
    OBVIOUS
  <2>2. P2[k + 1] <= P2[lo] /\ P2[k + 1] = 2 * P2[k]
    BY <2>1, PowersGrow, P2Step
  <2> QED BY <1>0, <1>1, <1>3, <1>4, <2>2
<1>7. c = [code |-> first + k, bits |-> k, extra |-> v - P2[k]]
  BY <1>3, <1>4 DEF Sequence!Pow2_code, Sequence!Code
<1>8. v - P2[k] \in Nat /\ v - P2[k] < P2[k] /\ P2[k] + (v - P2[k]) = v
  BY <1>3, <1>4
<1> QED BY <1>0, <1>5, <1>6, <1>7, <1>8 DEF PowerCode

\* A literal run's code.
LEMMA LLCode ==
  ASSUME NEW v \in Nat, v < P2[18]
  PROVE  /\ Sequence!ll_code(v).code \in 0..37 /\ Sequence!ll_code(v).bits \in 0..17
         /\ CodeOf(Sequence!ll_code(v), Sequence!LL_BASE, Sequence!LL_BITS, v)
<1>1. P2[6] = 64
  BY P2Values, SMT
<1>2. 0 \in 0..37 /\ 25 \in 0..37
  OBVIOUS
<1>3. Sequence!LL_BASE[0] = 0 /\ Sequence!LL_BASE[25] = P2[6]
  BY <1>2, LLBaseIs DEF LLBase
<1>4. CASE v < 64
  <2>1. Sequence!ll_code(v) = Sequence!small_code(Sequence!LL_BASE, Sequence!LL_BITS, v)
    BY <1>4 DEF Sequence!ll_code
  <2>8. PICK base, bits, last : base = Sequence!LL_BASE /\ bits = Sequence!LL_BITS /\ last = 25
    OBVIOUS
  <2>9. PICK n \in Nat : n = 37
    OBVIOUS
  <2>3. Table(n, last, base, bits) /\ base[0] <= v /\ v < base[last]
    BY <1>1, <1>3, <1>4, <2>8, <2>9, LLTable
  <2>4. PICK c : c = Sequence!small_code(base, bits, v)
    OBVIOUS
  <2>5. c.code \in 0..(last - 1) /\ CodeOf(c, base, bits, v)
    BY <2>3, <2>4, SmallCode
  <2>6. c.code \in 0..24 /\ c.code \in 0..37
    BY <2>5, <2>8
  <2>7. c.bits = bits[c.code] /\ bits[c.code] \in 0..18 /\ bits[c.code] <= 4
    BY <2>5, <2>6, <2>8, LLBits DEF CodeOf
  <2> QED BY <2>1, <2>4, <2>5, <2>6, <2>7, <2>8
<1>5. CASE v >= 64
  <2>1. Sequence!ll_code(v) = Sequence!Pow2_code(19, v)
    BY <1>5 DEF Sequence!ll_code
  <2>2. PICK c : c = Sequence!Pow2_code(19, v)
    OBVIOUS
  <2>3. /\ c.bits \in 6..(18 - 1) /\ c.code = 19 + c.bits
        /\ c.extra \in Nat /\ c.extra < P2[c.bits] /\ P2[c.bits] + c.extra = v
    <3>1. PICK first \in Nat, lo \in 0..29, hi \in 1..30 : first = 19 /\ lo = 6 /\ hi = 18
      OBVIOUS
    <3>2. Between(lo, v, hi) /\ c = Sequence!Pow2_code(first, v)
      BY <1>1, <1>5, <2>2, <3>1 DEF Between
    <3>3. PowerCode(c, first, lo, hi, v)
      BY <3>2, Pow2Code
    <3> QED BY <3>1, <3>3 DEF PowerCode
  <2>4. PICK k \in 6..17 : c.bits = k /\ c.code = 19 + k
    BY <2>3
  <2>5. 19 + k \in 0..37 /\ 19 + k >= 25 /\ (19 + k) - 19 = k /\ k \in 0..32
    OBVIOUS
  <2>6. Sequence!LL_BITS[19 + k] = k
    BY <2>5, LLBits
  <2>7. Sequence!LL_BASE[19 + k] = P2[k]
    BY <2>5, LLBaseIs DEF LLBase
  <2> QED BY <2>1, <2>2, <2>3, <2>4, <2>5, <2>6, <2>7 DEF CodeOf
<1> QED BY <1>4, <1>5

\* A match's.
LEMMA MLCode ==
  ASSUME NEW v \in Nat, 3 <= v, v - 3 < P2[18]
  PROVE  /\ Sequence!ml_code(v).code \in 0..53 /\ Sequence!ml_code(v).bits \in 0..17
         /\ v < 131 => Sequence!ml_code(v).bits <= 5
         /\ CodeOf(Sequence!ml_code(v), Sequence!ML_BASE, Sequence!ML_BITS, v)
<1>1. P2[7] = 128
  BY P2Values, SMT
<1>2. 0 \in 0..53 /\ 43 \in 0..53
  OBVIOUS
<1>3. Sequence!ML_BASE[0] = 3 /\ Sequence!ML_BASE[43] = 3 + P2[7]
  BY <1>2, MLBaseIs DEF MLBase
<1>4. CASE v < 131
  <2>1. Sequence!ml_code(v) = Sequence!small_code(Sequence!ML_BASE, Sequence!ML_BITS, v)
    BY <1>4 DEF Sequence!ml_code
  <2>8. PICK base, bits, last : base = Sequence!ML_BASE /\ bits = Sequence!ML_BITS /\ last = 43
    OBVIOUS
  <2>9. PICK n \in Nat : n = 53
    OBVIOUS
  <2>3. Table(n, last, base, bits) /\ base[0] <= v /\ v < base[last]
    BY <1>1, <1>3, <1>4, <2>8, <2>9, MLTable
  <2>4. PICK c : c = Sequence!small_code(base, bits, v)
    OBVIOUS
  <2>5. c.code \in 0..(last - 1) /\ CodeOf(c, base, bits, v)
    BY <2>3, <2>4, SmallCode
  <2>6. c.code \in 0..42 /\ c.code \in 0..53
    BY <2>5, <2>8
  <2>7. c.bits = bits[c.code] /\ bits[c.code] \in 0..18 /\ bits[c.code] <= 5
    BY <2>5, <2>6, <2>8, MLBits DEF CodeOf
  <2> QED BY <2>1, <2>4, <2>5, <2>6, <2>7, <2>8
<1>5. CASE v >= 131
  <2>1. PICK u \in Nat : u = v - Sequence!MIN_MATCH /\ u = v - 3
    BY DEF Sequence!MIN_MATCH
  <2>2. Sequence!ml_code(v) = Sequence!Pow2_code(36, u)
    BY <1>5, <2>1 DEF Sequence!ml_code
  <2>3. PICK c : c = Sequence!Pow2_code(36, u)
    OBVIOUS
  <2>4. /\ c.bits \in 7..(18 - 1) /\ c.code = 36 + c.bits
        /\ c.extra \in Nat /\ c.extra < P2[c.bits] /\ P2[c.bits] + c.extra = u
    <3>1. PICK first \in Nat, lo \in 0..29, hi \in 1..30 : first = 36 /\ lo = 7 /\ hi = 18
      OBVIOUS
    <3>2. Between(lo, u, hi) /\ c = Sequence!Pow2_code(first, u)
      BY <1>1, <1>5, <2>1, <2>3, <3>1 DEF Between
    <3>3. PowerCode(c, first, lo, hi, u)
      BY <3>2, Pow2Code
    <3> QED BY <3>1, <3>3 DEF PowerCode
  <2>5. PICK k \in 7..17 : c.bits = k /\ c.code = 36 + k
    BY <2>4
  <2>6. 36 + k \in 0..53 /\ 36 + k >= 43 /\ (36 + k) - 36 = k /\ k \in 0..32
    OBVIOUS
  <2>7. Sequence!ML_BITS[36 + k] = k
    BY <2>6, MLBits
  <2>8. Sequence!ML_BASE[36 + k] = 3 + P2[k] /\ P2[k] \in Nat
    BY <2>6, MLBaseIs, P2Type DEF MLBase
  <2>9. (3 + P2[k]) + c.extra = v
    BY <2>1, <2>4, <2>5, <2>8
  <2> QED BY <1>5, <2>2, <2>3, <2>4, <2>5, <2>6, <2>7, <2>8, <2>9 DEF CodeOf
<1> QED BY <1>4, <1>5

\* An offset's, and how many extra bits one has that is not far.
LEMMA OffCode ==
  ASSUME NEW v \in Nat, 1 <= v, v < P2[27]
  PROVE  LET c == Sequence!off_code(v)
         IN  /\ c.bits \in 0..26 /\ c.code = 3 + c.bits /\ (v < P2[23] => c.bits <= 22)
             /\ c.extra \in Nat /\ c.extra < P2[c.bits]
             /\ Sequence!off_value(c.code, c.extra) = v
<1>1. P2[0] = 1
  BY P2Values, SMT
<1>2. PICK c : c = Sequence!off_code(v)
  OBVIOUS
<1>3. c = Sequence!Pow2_code(3, v)
  BY <1>2 DEF Sequence!off_code
<1>4. /\ c.bits \in 0..(27 - 1) /\ c.code = 3 + c.bits
      /\ c.extra \in Nat /\ c.extra < P2[c.bits] /\ P2[c.bits] + c.extra = v
  <2>1. PICK first \in Nat, lo \in 0..29, hi \in 1..30 : first = 3 /\ lo = 0 /\ hi = 27
    OBVIOUS
  <2>2. Between(lo, v, hi) /\ c = Sequence!Pow2_code(first, v)
    BY <1>1, <1>3, <2>1 DEF Between
  <2>3. PowerCode(c, first, lo, hi, v)
    BY <2>2, Pow2Code
  <2> QED BY <2>1, <2>3 DEF PowerCode
<1>5. ASSUME v < P2[23] PROVE c.bits \in 0..(23 - 1)
  <2>1. PICK first \in Nat, lo \in 0..29, hi \in 1..30 : first = 3 /\ lo = 0 /\ hi = 23
    OBVIOUS
  <2>2. Between(lo, v, hi) /\ c = Sequence!Pow2_code(first, v)
    BY <1>1, <1>3, <1>5, <2>1 DEF Between
  <2>3. PowerCode(c, first, lo, hi, v)
    BY <2>2, Pow2Code
  <2> QED BY <2>1, <2>3 DEF PowerCode
<1>6. PICK k \in 0..32 : k = c.bits /\ c.code - 3 = k
  BY <1>4
<1>7. Sequence!off_value(c.code, c.extra) = P2[k] + c.extra
  BY <1>6, P2Is DEF Sequence!off_value
<1> QED BY <1>2, <1>4, <1>5, <1>6, <1>7

\* A code that fits its bits.
Fits(c) == c.bits \in 0..32 /\ c.extra \in Nat /\ c.extra < P2[c.bits]

LEMMA BitsAre ==
  ASSUME NEW c, Fits(c)
  PROVE  /\ Sequence!Bits(c) \in Seq(0..1) /\ Len(Sequence!Bits(c)) = c.bits
         /\ \A j \in 1..c.bits : Sequence!Bits(c)[j] = (c.extra \div P2[j - 1]) % 2
<1>1. PICK n \in 0..32, x \in Nat : n = c.bits /\ x = c.extra
  BY DEF Fits
<1>2. ASSUME NEW j \in 1..n PROVE 2^(j - 1) = P2[j - 1] /\ (x \div P2[j - 1]) % 2 \in 0..1
  <2>1. PICK m \in 0..32 : m = j - 1
    <3>1. n \in Int /\ n <= 32 OBVIOUS
    <3>2. j - 1 \in 0..32 BY ONLY <3>1, j \in 1..n
    <3> QED BY <3>2
  <2>2. PICK p \in Nat \ {0} : p = P2[m] /\ 2^m = p
    BY P2Is, P2Type
  <2>3. x \div p \in Nat
    BY Divides
  <2>4. (x \div p) % 2 \in 0..1
    BY <2>3
  <2> QED BY <2>1, <2>2, <2>4
<1>3. Sequence!Bits(c) = [j \in 1..n |-> (x \div P2[j - 1]) % 2]
  BY <1>1, <1>2 DEF Sequence!Bits
<1>4. \A j \in 1..n : (x \div P2[j - 1]) % 2 \in 0..1
  BY <1>2
<1>5. n \in Nat
  OBVIOUS
<1>6. Sequence!Bits(c) \in Seq(0..1)
  <2> DEFINE e(j) == (x \div P2[j - 1]) % 2
  <2>1. \A j \in 1..n : e(j) \in 0..1 BY <1>4
  <2> HIDE DEF e
  <2>2. [j \in 1..n |-> e(j)] \in Seq(0..1)
    BY <1>5, <2>1, IsASeq
  <2> QED BY <1>3, <2>2 DEF e
<1>7. Len(Sequence!Bits(c)) = n
  BY <1>3, <1>5, <1>6, LenProperties
<1> QED BY <1>1, <1>3, <1>6, <1>7

\* One load of the walk holds a sequence's extra bits, and each field is a code's.
LEMMA ChunkFields ==
  ASSUME NEW a, NEW b, NEW d, Fits(a), Fits(b), Fits(d), a.bits + b.bits + d.bits <= 57,
         NEW c, c = Sequence!Chunk(a, b, d)
  PROVE  /\ c.ll = a.code /\ c.ml = b.code /\ c.off = d.code
         /\ Sequence!field(c.extra, 0, a.bits) = a.extra
         /\ Sequence!field(c.extra, a.bits, b.bits) = b.extra
         /\ Sequence!field(c.extra, a.bits + b.bits, d.bits) = d.extra
<1>1. PICK f, g, h : f = Sequence!Bits(a) /\ g = Sequence!Bits(b) /\ h = Sequence!Bits(d)
  OBVIOUS
<1>2. PICK k \in 0..32, m \in 0..32, n \in 0..32 : k = a.bits /\ m = b.bits /\ n = d.bits
  BY DEF Fits
<1>3. PICK x \in Nat, y \in Nat, z \in Nat :
        /\ x = a.extra /\ y = b.extra /\ z = d.extra
        /\ x < P2[k] /\ y < P2[m] /\ z < P2[n]
  BY <1>2 DEF Fits
<1>4. f \in Seq(0..1) /\ Len(f) = k /\ \A j \in 1..k : f[j] = (x \div P2[j - 1]) % 2
  BY <1>1, <1>2, <1>3, BitsAre
<1>5. g \in Seq(0..1) /\ Len(g) = m /\ \A j \in 1..m : g[j] = (y \div P2[j - 1]) % 2
  BY <1>1, <1>2, <1>3, BitsAre
<1>6. h \in Seq(0..1) /\ Len(h) = n /\ \A j \in 1..n : h[j] = (z \div P2[j - 1]) % 2
  BY <1>1, <1>2, <1>3, BitsAre
<1>7. PICK fg : fg = f \o g
  OBVIOUS
<1>8. /\ fg \in Seq(0..1) /\ Len(fg) = k + m
      /\ \A i \in 1..(k + m) : fg[i] = IF i <= k THEN f[i] ELSE g[i - k]
  <2>1. /\ fg \in Seq(0..1) /\ Len(fg) = Len(f) + Len(g)
        /\ \A i \in 1..(Len(f) + Len(g)) : fg[i] = IF i <= Len(f) THEN f[i] ELSE g[i - Len(f)]
    BY <1>4, <1>5, <1>7, ConcatProperties
  <2>2. Len(f) = k /\ Len(g) = m
    BY <1>4, <1>5
  <2> QED BY <2>1, <2>2
<1>9. PICK w : w = fg \o h
  OBVIOUS
<1>10. PICK e \in Nat : e = k + m
  OBVIOUS
<1>11. /\ w \in Seq(0..1) /\ Len(w) = e + n
       /\ \A i \in 1..(e + n) : w[i] = IF i <= e THEN fg[i] ELSE h[i - e]
  <2>1. /\ w \in Seq(0..1) /\ Len(w) = Len(fg) + Len(h)
        /\ \A i \in 1..(Len(fg) + Len(h)) : w[i] = IF i <= Len(fg) THEN fg[i] ELSE h[i - Len(fg)]
    BY <1>6, <1>8, <1>9, ConcatProperties
  <2>2. Len(fg) = e /\ Len(h) = n
    BY <1>6, <1>8, <1>10
  <2> QED BY <2>1, <2>2
<1>12. /\ w \in Seq(0..1) /\ Len(w) = k + m + n
       /\ \A i \in 1..(k + m + n) : w[i] = IF i <= k + m THEN fg[i] ELSE h[i - (k + m)]
  BY <1>10, <1>11
<1>13. k + m + n <= 57
  BY <1>2
<1>14. c = [ll |-> a.code, ml |-> b.code, off |-> d.code, extra |-> w]
  <2>1. SubSeq(w, 1, Len(w)) = w
    BY <1>12, SubSeqFull
  <2>2. Len(w) < 57 \/ Len(w) = 57
    BY <1>12, <1>13
  <2>3. w = (f \o g) \o h
    BY <1>7, <1>9
  <2> QED BY <1>1, <2>1, <2>2, <2>3 DEF Sequence!Chunk
<1>15. \A j \in 1..k : w[0 + j] = (x \div P2[j - 1]) % 2
  <2>1. ASSUME NEW j \in 1..k
        PROVE  0 + j = j /\ j \in 1..(k + m) /\ j \in 1..(k + m + n) /\ j <= k /\ j <= k + m
    OBVIOUS
  <2> QED BY <1>4, <1>8, <1>12, <2>1
<1>16. \A j \in 1..m : w[k + j] = (y \div P2[j - 1]) % 2
  <2>1. ASSUME NEW j \in 1..m
        PROVE  /\ k + j \in 1..(k + m) /\ k + j \in 1..(k + m + n)
               /\ ~(k + j <= k) /\ k + j <= k + m /\ (k + j) - k = j
    OBVIOUS
  <2> QED BY <1>5, <1>8, <1>12, <2>1
<1>17. \A j \in 1..n : w[(k + m) + j] = (z \div P2[j - 1]) % 2
  <2>1. ASSUME NEW j \in 1..n
        PROVE  /\ (k + m) + j \in 1..(k + m + n)
               /\ ~((k + m) + j <= k + m) /\ ((k + m) + j) - (k + m) = j
    OBVIOUS
  <2> QED BY <1>6, <1>12, <2>1
<1>18. Sequence!field(w, 0, k) = x
  <2>1. HasBits(w, 0, k, x)
    BY <1>12, <1>15 DEF HasBits
  <2>2. PICK from \in Nat : from = 0
    OBVIOUS
  <2> QED BY <1>3, <2>1, <2>2, FieldIs
<1>19. Sequence!field(w, k, m) = y
  <2>1. HasBits(w, k, m, y)
    BY <1>12, <1>16 DEF HasBits
  <2>2. k \in Nat
    OBVIOUS
  <2> QED BY <1>3, <2>1, <2>2, FieldIs
<1>20. Sequence!field(w, k + m, n) = z
  <2>1. HasBits(w, k + m, n, z)
    BY <1>12, <1>17 DEF HasBits
  <2>2. HasBits(w, e, n, z)
    BY <1>10, <2>1
  <2>3. Sequence!field(w, e, n) = z
    BY <1>3, <2>2, FieldIs
  <2> QED BY <1>10, <2>3
<1> QED BY <1>2, <1>3, <1>14, <1>18, <1>19, <1>20

-----------------------------------------------------------------------------
(* Repeat offsets, and a sequence.                                         *)

Offset == {v \in Nat : 1 <= v /\ v < P2[27]}
Reps(r) == \E p, q, s \in Offset : r = <<p, q, s>>

\* Both encoders code an offset alike and go on with the same history.
LEMMA CodersAlike ==
  ASSUME NEW r, Reps(r), NEW offset \in Offset, NEW ll0 \in BOOLEAN
  PROVE  Sequence!code_for(r, offset, ll0) = Sequence!put_code(r, offset, ll0)
<1>1. PICK p \in Offset, q \in Offset, s \in Offset : r = <<p, q, s>>
  BY DEF Reps
<1>2. p \in Nat /\ q \in Nat /\ s \in Nat /\ r[1] = p /\ r[2] = q /\ r[3] = s
  BY <1>1 DEF Offset
<1>3. /\ Sequence!rep_symbol(0, ll0) \in {0, 2} /\ Sequence!rep_symbol(1, ll0) \in {0, 1}
      /\ Sequence!rep_symbol(2, ll0) \in {1, 2} /\ Sequence!rep_symbol(3, ll0) = 3
  BY DEF Sequence!rep_symbol
<1>4. CASE offset = p
  BY <1>1, <1>2, <1>3, <1>4 DEF Sequence!code_for, Sequence!put_code
<1>5. CASE offset = q /\ offset # p
  BY <1>1, <1>2, <1>3, <1>5 DEF Sequence!code_for, Sequence!put_code
<1>6. CASE offset = s /\ offset # p /\ offset # q
  BY <1>1, <1>2, <1>3, <1>6 DEF Sequence!code_for, Sequence!put_code, Sequence!Rotated
<1>7. CASE offset # p /\ offset # q /\ offset # s
  BY <1>1, <1>2, <1>3, <1>7 DEF Sequence!code_for, Sequence!put_code
<1> QED BY <1>4, <1>5, <1>6, <1>7

\* An offset of the history is coded without extra bits, and the decoder's history goes on
\* as the encoders'.
LEMMA RepeatCoded ==
  ASSUME NEW r, Reps(r), NEW offset \in Offset, NEW ll0 \in BOOLEAN, offset \in {r[1], r[2], r[3]},
         NEW o, o = Sequence!put_code(r, offset, ll0), NEW value
  PROVE  /\ o.off.code \in 0..2 /\ o.off.bits = 0 /\ o.off.extra = 0
         /\ Sequence!update(r, Sequence!rep_of_symbol(o.off.code, ll0), value) = o.reps
         /\ Reps(o.reps) /\ o.reps[1] = offset
<1>1. PICK p \in Offset, q \in Offset, s \in Offset : r = <<p, q, s>>
  BY DEF Reps
<1>2. p \in Nat /\ q \in Nat /\ s \in Nat /\ r[1] = p /\ r[2] = q /\ r[3] = s
  BY <1>1 DEF Offset
<1>3. PICK k \in 0..2 :
        /\ k = IF offset = p THEN 0 ELSE IF offset = q THEN 1 ELSE 2
        /\ k = 2 => offset = s
  BY <1>2
<1>4. PICK symbol : symbol = Sequence!rep_symbol(k, ll0)
  OBVIOUS
<1>5. symbol \in 0..2 /\ Sequence!rep_of_symbol(symbol, ll0) = k
  <2>1. k = 0 \/ k = 1 \/ k = 2
    OBVIOUS
  <2>2. CASE ll0
    BY <1>4, <2>1, <2>2 DEF Sequence!rep_symbol, Sequence!rep_of_symbol
  <2>3. CASE ~ll0
    BY <1>4, <2>1, <2>3 DEF Sequence!rep_symbol, Sequence!rep_of_symbol
  <2> QED BY <2>2, <2>3
<1>6. k = IF offset = p THEN 0 ELSE IF offset = q THEN 1 ELSE IF offset = s THEN 2 ELSE 3
  BY <1>2, <1>3
<1>7. /\ o.off = Sequence!Code(symbol, 0, 0)
      /\ o.reps = <<offset, IF offset = p THEN q ELSE p, IF offset \in {p, q} THEN s ELSE q>>
  BY <1>1, <1>2, <1>4, <1>5, <1>6 DEF Sequence!put_code
<1>8. Sequence!update(r, k, value) = o.reps
  <2>1. CASE offset = p
    BY <1>1, <1>2, <1>3, <1>7, <2>1 DEF Sequence!update
  <2>2. CASE offset # p /\ offset = q
    BY <1>1, <1>2, <1>3, <1>7, <2>2 DEF Sequence!update
  <2>3. CASE offset # p /\ offset # q
    BY <1>1, <1>2, <1>3, <1>7, <2>3 DEF Sequence!update
  <2> QED BY <2>1, <2>2, <2>3
<1>9. Reps(o.reps)
  BY <1>7 DEF Reps
<1> QED BY <1>5, <1>7, <1>8, <1>9 DEF Sequence!Code

\* A new offset is coded with its own bits.
LEMMA NewCoded ==
  ASSUME NEW r, Reps(r), NEW offset \in Offset, NEW ll0 \in BOOLEAN, offset \notin {r[1], r[2], r[3]},
         NEW o, o = Sequence!put_code(r, offset, ll0), NEW code, code \in Nat, 3 <= code
  PROVE  /\ o.off = Sequence!off_code(offset)
         /\ Sequence!update(r, Sequence!rep_of_symbol(code, ll0), offset) = o.reps
         /\ Reps(o.reps) /\ o.reps[1] = offset
<1>1. PICK p \in Offset, q \in Offset, s \in Offset : r = <<p, q, s>>
  BY DEF Reps
<1>2. p \in Nat /\ q \in Nat /\ s \in Nat /\ r[1] = p /\ r[2] = q /\ r[3] = s
  BY <1>1 DEF Offset
<1>3. offset # p /\ offset # q /\ offset # s
  BY <1>2
<1>4. Sequence!rep_symbol(3, ll0) = 3 /\ Sequence!rep_of_symbol(code, ll0) = code
  BY DEF Sequence!rep_symbol, Sequence!rep_of_symbol
<1>5. o.off = Sequence!off_code(offset) /\ o.reps = <<offset, p, q>>
  BY <1>1, <1>2, <1>3, <1>4 DEF Sequence!put_code
<1>6. Sequence!update(r, code, offset) = <<offset, p, q>>
  BY <1>2 DEF Sequence!update
<1>7. Reps(o.reps)
  BY <1>5 DEF Reps
<1> QED BY <1>4, <1>5, <1>6, <1>7

\* A sequence of a block.
Fitting(ll, ml, offset) ==
  ll \in Nat /\ ml \in Nat /\ 3 <= ml /\ ll + ml <= P2[18] /\ offset \in Offset

LEMMA CapIs ==
  ASSUME NEW r, NEW ml \in Nat, 3 <= ml, NEW offset \in Offset, NEW m, m = Sequence!Capped(r, ml, offset)
  PROVE  /\ m \in Nat /\ 3 <= m /\ m <= ml
         /\ offset \notin {r[1], r[2], r[3]} /\ P2[23] <= offset => m < 131
<1>1. 2^(Sequence!FAR_OFFSET_BITS + 1) = P2[23] /\ Sequence!FAR_MATCH_CAP = 130
  <2>1. 22 + 1 = 23 /\ 2^23 = P2[23]
    BY P2Is
  <2> QED BY <2>1 DEF Sequence!FAR_OFFSET_BITS, Sequence!FAR_MATCH_CAP
<1>2. m = IF offset >= P2[23] /\ offset \notin {r[1], r[2], r[3]} /\ ml > 130 THEN 130 ELSE ml
  BY <1>1 DEF Sequence!Capped
<1>3. P2[23] \in Nat /\ offset \in Nat
  BY P2Type DEF Offset
<1> QED BY <1>2, <1>3

\* The decoder gives back what was coded.
Gives(d, r, ll, ml, offset) ==
  /\ d.ll = ll /\ d.ml = Sequence!Capped(r, ml, offset) /\ d.offset = offset
  /\ d.reps = Sequence!put_code(r, offset, ll = 0).reps

LEMMA SequenceDecodes ==
  ASSUME NEW r, Reps(r), NEW ll, NEW ml, NEW offset, Fitting(ll, ml, offset),
         NEW c, c = Sequence!Coded(r, Sequence!put_code, ll, ml, offset)
  PROVE  /\ c = Sequence!Coded(r, Sequence!code_for, ll, ml, offset)
         /\ Gives(Sequence!Decoded(r, c), r, ll, ml, offset)
<1>1. /\ ll \in Nat /\ ml \in Nat /\ 3 <= ml /\ ll < P2[18] /\ offset \in Offset
      /\ ml <= P2[18] /\ P2[18] \in Nat
  BY P2Type DEF Fitting
<1>2. PICK ll0 \in BOOLEAN : ll0 = (ll = 0)
  OBVIOUS
<1>3. PICK m : m = Sequence!Capped(r, ml, offset)
  OBVIOUS
<1>4. /\ m \in Nat /\ 3 <= m /\ m - 3 < P2[18]
      /\ offset \notin {r[1], r[2], r[3]} /\ P2[23] <= offset => m < 131
  BY <1>1, <1>3, CapIs
<1>5. PICK a, b, o : /\ a = Sequence!ll_code(ll) /\ b = Sequence!ml_code(m)
                     /\ o = Sequence!put_code(r, offset, ll0)
  OBVIOUS
<1>6. PICK d : d = o.off
  OBVIOUS
<1>7. c = Sequence!Chunk(a, b, d)
  BY <1>2, <1>3, <1>5, <1>6 DEF Sequence!Coded
<1>8. c = Sequence!Coded(r, Sequence!code_for, ll, ml, offset)
  <2>1. Sequence!code_for(r, offset, ll0) = o
    BY <1>1, <1>5, CodersAlike
  <2> QED BY <1>2, <1>3, <1>5, <1>6, <1>7, <2>1 DEF Sequence!Coded
<1>9. a.code \in 0..37 /\ a.bits \in 0..17 /\ CodeOf(a, Sequence!LL_BASE, Sequence!LL_BITS, ll)
  BY <1>1, <1>5, LLCode
<1>10. /\ b.code \in 0..53 /\ b.bits \in 0..17 /\ (m < 131 => b.bits <= 5)
       /\ CodeOf(b, Sequence!ML_BASE, Sequence!ML_BITS, m)
  BY <1>4, <1>5, MLCode
<1>11. Fits(a) /\ Fits(b)
  BY <1>9, <1>10 DEF Fits, CodeOf
\* What is written of the offset, and that the decoder's history follows.
<1>12. /\ Fits(d) /\ d.bits \in 0..26
       /\ offset \in {r[1], r[2], r[3]} \/ P2[23] > offset => d.bits <= 22
       /\ \A x : d.code < 3 \/ x = d.extra =>
            Sequence!update(r, Sequence!rep_of_symbol(d.code, ll0),
              IF d.code < 3 THEN 0 ELSE Sequence!off_value(d.code, x)) = o.reps
       /\ d.code \in Nat /\ (d.code < 3 \/ d.code - 3 = d.bits) /\ o.reps[1] = offset
  <2>1. CASE offset \in {r[1], r[2], r[3]}
    <3>1. /\ d.code \in 0..2 /\ d.bits = 0 /\ d.extra = 0 /\ o.reps[1] = offset
          /\ Sequence!update(r, Sequence!rep_of_symbol(d.code, ll0), 0) = o.reps
      BY <1>1, <1>5, <1>6, <2>1, RepeatCoded
    <3>2. P2[0] = 1
      BY P2Values, SMT
    <3>3. Fits(d)
      BY <3>1, <3>2 DEF Fits
    <3> QED BY <3>1, <3>3
  <2>2. CASE offset \notin {r[1], r[2], r[3]}
    <3>1. PICK code \in Nat : code = 3
      OBVIOUS
    <3>2. d = Sequence!off_code(offset) /\ o.reps[1] = offset
      BY <1>1, <1>5, <1>6, <2>2, <3>1, NewCoded
    <3>3. offset \in Nat /\ 1 <= offset /\ offset < P2[27]
      BY <1>1 DEF Offset
    <3>4. /\ d.bits \in 0..26 /\ d.code = 3 + d.bits /\ (offset < P2[23] => d.bits <= 22)
          /\ d.extra \in Nat /\ d.extra < P2[d.bits]
          /\ Sequence!off_value(d.code, d.extra) = offset
      BY <3>2, <3>3, OffCode
    <3>5. Fits(d)
      BY <3>4 DEF Fits
    <3>6. PICK k \in 0..26 : k = d.bits /\ d.code = 3 + k
      BY <3>4
    <3>7. d.code \in Nat /\ 3 <= d.code /\ ~(d.code < 3) /\ d.code - 3 = d.bits
      BY <3>6
    <3>8. Sequence!update(r, Sequence!rep_of_symbol(d.code, ll0), offset) = o.reps
      BY <1>1, <1>5, <2>2, <3>7, NewCoded
    <3>9. P2[23] > offset => d.bits <= 22
      BY <3>3, <3>4, P2Type
    <3> QED BY <2>2, <3>2, <3>4, <3>5, <3>7, <3>8, <3>9
  <2> QED BY <2>1, <2>2
<1>13. a.bits + b.bits + d.bits <= 57
  <2>1. P2[23] \in Nat /\ offset \in Nat
    BY <1>1, P2Type DEF Offset
  <2>2. PICK i \in 0..17, j \in 0..17, k \in 0..26 : i = a.bits /\ j = b.bits /\ k = d.bits
    BY <1>9, <1>10, <1>12
  <2>3. k <= 22 \/ j <= 5
    BY <1>4, <1>10, <1>12, <2>1, <2>2
  <2> QED BY <2>2, <2>3
<1>14. /\ c.ll = a.code /\ c.ml = b.code /\ c.off = d.code
       /\ Sequence!field(c.extra, 0, a.bits) = a.extra
       /\ Sequence!field(c.extra, a.bits, b.bits) = b.extra
       /\ Sequence!field(c.extra, a.bits + b.bits, d.bits) = d.extra
  BY <1>7, <1>11, <1>12, <1>13, ChunkFields
<1>15. Sequence!LL_BITS[c.ll] = a.bits /\ Sequence!ML_BITS[c.ml] = b.bits
  BY <1>9, <1>10, <1>14 DEF CodeOf
<1>16. /\ Sequence!LL_BASE[c.ll] + Sequence!field(c.extra, 0, a.bits) = ll
       /\ Sequence!ML_BASE[c.ml] + Sequence!field(c.extra, a.bits, b.bits) = m
  BY <1>9, <1>10, <1>14 DEF CodeOf
<1>17. PICK x : x = Sequence!field(c.extra, a.bits + b.bits, c.off - 3)
  OBVIOUS
<1>18. d.code < 3 \/ x = d.extra
  BY <1>12, <1>14, <1>17
<1>19. Sequence!update(r, Sequence!rep_of_symbol(c.off, ll0),
         IF c.off < 3 THEN 0 ELSE Sequence!off_value(c.off, x)) = o.reps
  BY <1>12, <1>14, <1>18
<1>20. Sequence!Decoded(r, c) = [ll |-> ll, ml |-> m, offset |-> o.reps[1], reps |-> o.reps]
  BY <1>2, <1>15, <1>16, <1>17, <1>19 DEF Sequence!Decoded
<1>21. Gives(Sequence!Decoded(r, c), r, ll, ml, offset)
  BY <1>2, <1>3, <1>5, <1>12, <1>20 DEF Gives
<1> QED BY <1>8, <1>21

InStepSequences == Reps(parser) /\ coder = parser /\ decoder = parser

LEMMA NewReps == Reps(Sequence!new)
<1>1. P2[27] \in Nat /\ 8 < P2[27]
  <2>1. P2[4] = 16
    BY P2Values, SMT
  <2>2. P2[4] <= P2[27] /\ P2[27] \in Nat
    BY PowersGrow, P2Type
  <2> QED BY <2>1, <2>2
<1>2. 1 \in Offset /\ 4 \in Offset /\ 8 \in Offset
  BY <1>1 DEF Offset
<1> QED BY <1>2 DEF Reps, Sequence!new

LEMMA RepsGoOn ==
  ASSUME NEW r, Reps(r), NEW offset \in Offset, NEW ll0 \in BOOLEAN
  PROVE  Reps(Sequence!put_code(r, offset, ll0).reps)
<1>1. PICK o : o = Sequence!put_code(r, offset, ll0)
  OBVIOUS
<1>2. CASE offset \in {r[1], r[2], r[3]}
  BY <1>1, <1>2, RepeatCoded
<1>3. CASE offset \notin {r[1], r[2], r[3]}
  <2>1. PICK code \in Nat : code = 3
    OBVIOUS
  <2> QED BY <1>1, <1>3, <2>1, NewCoded
<1> QED BY <1>1, <1>2, <1>3

\* A sequence leaves coder, parser and decoder in step.
LEMMA SequenceInStep ==
  ASSUME InStepSequences, NEW ll, NEW ml, NEW offset, Fitting(ll, ml, offset),
         Sequence!Sequence(ll, ml, offset)
  PROVE  InStepSequences'
<1>1. PICK r : r = parser /\ coder = r /\ decoder = r /\ Reps(r)
  BY DEF InStepSequences
<1>2. PICK ll0 \in BOOLEAN : ll0 = (ll = 0)
  OBVIOUS
<1>3. PICK o : o = Sequence!put_code(r, offset, ll0)
  OBVIOUS
<1>4. offset \in Offset
  BY DEF Fitting
<1>5. Sequence!code_for(r, offset, ll0) = o /\ Reps(o.reps)
  BY <1>1, <1>3, <1>4, CodersAlike, RepsGoOn
<1>6. PICK c : c = Sequence!Coded(r, Sequence!put_code, ll, ml, offset)
  OBVIOUS
<1>7. PICK d : d = Sequence!Decoded(r, c)
  OBVIOUS
<1>8. Gives(d, r, ll, ml, offset)
  BY <1>1, <1>6, <1>7, SequenceDecodes
<1>9. d.reps = o.reps
  BY <1>2, <1>3, <1>8 DEF Gives
<1>10. coder' = o.reps /\ parser' = o.reps /\ decoder' = o.reps
  BY <1>1, <1>2, <1>3, <1>5, <1>6, <1>7, <1>9 DEF Sequence!Sequence
<1> QED BY <1>5, <1>10 DEF InStepSequences

LEMMA InStepDecodes ==
  ASSUME InStepSequences, NEW ll, NEW ml, NEW offset, Fitting(ll, ml, offset)
  PROVE  LET c == Sequence!Coded(parser, Sequence!put_code, ll, ml, offset)
             d == Sequence!Decoded(decoder, c)
         IN  /\ c = Sequence!Coded(coder, Sequence!code_for, ll, ml, offset)
             /\ d.ll = ll /\ d.ml = Sequence!Capped(parser, ml, offset) /\ d.offset = offset
<1>1. PICK r : r = parser /\ coder = r /\ decoder = r /\ Reps(r)
  BY DEF InStepSequences
<1>2. PICK c : c = Sequence!Coded(r, Sequence!put_code, ll, ml, offset)
  OBVIOUS
<1>3. /\ c = Sequence!Coded(r, Sequence!code_for, ll, ml, offset) 
      /\ Gives(Sequence!Decoded(r, c), r, ll, ml, offset)
  BY <1>1, <1>2, SequenceDecodes
<1> QED BY <1>1, <1>2, <1>3 DEF Gives

LEMMA SequencesFit ==
  ASSUME NEW ll \in LitLens, NEW ml \in MatchLens, NEW offset \in Offsets, ll + ml <= 2^18
  PROVE  Fitting(ll, ml, offset)
<1>1. 2^18 = P2[18] /\ 2^27 = P2[27] /\ P2[27] \in Nat
  BY P2Is, P2Type
<1>2. /\ ll \in 0..(2^18) /\ ml \in 3..(2^18)
      /\ offset \in 1..(2^27 - 1)
  BY CodecAssumption DEF Sequence!SequenceCodesAssumption, Sequence!MIN_MATCH, Sequence!MAX_OFFSET_BITS
<1>3. offset \in Offset
  BY <1>1, <1>2 DEF Offset
<1> QED BY <1>1, <1>2, <1>3 DEF Fitting

SequencesInv == which = "sequences" => InStepSequences

LEMMA SequencesStep == ASSUME SequencesInv, [Next]_vars PROVE SequencesInv'
<1> SUFFICES ASSUME which' = "sequences" PROVE InStepSequences'
  BY DEF SequencesInv
<1>1. CASE UNCHANGED <<which, ofSequences>>
  BY <1>1 DEF SequencesInv, InStepSequences, ofSequences
<1>2. CASE which = "sequences" /\ Sequence!Next
  <2>1. InStepSequences
    BY <1>2 DEF SequencesInv
  <2>2. CASE Sequence!Block
    BY <2>2, NewReps DEF Sequence!Block, InStepSequences
  <2>3. CASE \E ll \in LitLens, ml \in MatchLens, offset \in Offsets : Sequence!Sequence(ll, ml, offset)
    <3>1. PICK ll \in LitLens, ml \in MatchLens, offset \in Offsets : Sequence!Sequence(ll, ml, offset)
      BY <2>3
    <3>2. ll + ml <= 2^18
      BY <3>1 DEF Sequence!Sequence
    <3>3. Fitting(ll, ml, offset)
      BY <3>2, SequencesFit
    <3> QED BY <2>1, <3>1, <3>3, SequenceInStep
  <2> QED BY <1>2, <2>2, <2>3 DEF Sequence!Next
<1>3. CASE which # "sequences"
  BY <1>3 DEF Next, vars
<1> QED BY <1>1, <1>2, <1>3 DEF Next, vars

\* Whichever sequences of whatever lengths and offsets (LitLens, MatchLens and Offsets are any)
\* a block of up to 2^18 bytes codes one after the other, from the start of each block on,
\* both encoders (`code_for`, and the selects of the fast parser) code the next one alike and
\* the decoder's walk gives back its lengths and its offset from one load of 57 bits, as
\* v7_format.rs has it: "repeat-offset state, identical on both sides".
THEOREM SequencesAlwaysDecode == Spec => []SequencesDecode
<1>1. Init => SequencesInv
  <2>1. Sequence!Init => InStepSequences
    BY NewReps DEF Sequence!Init, InStepSequences
  <2> QED BY <2>1 DEF Init, SequencesInv
<1>2. SequencesInv /\ [Next]_vars => SequencesInv'
  BY SequencesStep
<1>3. SequencesInv => SequencesDecode
  <2> SUFFICES ASSUME InStepSequences PROVE Sequence!SequencesDecode
    BY DEF SequencesInv, SequencesDecode
  <2> SUFFICES ASSUME NEW ll \in LitLens, NEW ml \in MatchLens,
                      NEW offset \in Offsets, ll + ml <= 2^18
               PROVE  LET c == Sequence!Coded(parser, Sequence!put_code, ll, ml, offset)
                          d == Sequence!Decoded(decoder, c)
                      IN  /\ c = Sequence!Coded(coder, Sequence!code_for, ll, ml, offset)
                          /\ d.ll = ll /\ d.ml = Sequence!Capped(parser, ml, offset)
                          /\ d.offset = offset
    BY DEF Sequence!SequencesDecode, InStepSequences
  <2> QED BY SequencesFit, InStepDecodes
<1> QED BY <1>1, <1>2, <1>3, PTL DEF Spec

-----------------------------------------------------------------------------
(* The table ANS coder: its sizes, and what is true of a number of each.   *)

LEMMA Induct ==
  ASSUME NEW n \in Nat, NEW T, 0 \in T, \A k \in 0..n : k # 0 /\ k - 1 \in T => k \in T
  PROVE  \A k \in 0..n : k \in T
<1> DEFINE Out == (0..n) \ T
<1>1. CASE Out = {}
  BY <1>1
<1>2. CASE Out # {}
  <2>1. Out \subseteq Nat OBVIOUS
  <2>2. PICK m \in Out : \A k \in Out : m <= k
    <3> HIDE DEF Out
    <3> QED BY <1>2, <2>1, LeastNatural
  <2>3. m # 0 /\ m \in 0..n /\ m - 1 \in 0..n /\ m - 1 \notin Out
    BY <2>2
  <2> QED BY <2>2, <2>3
<1> QED BY <1>1, <1>2

Size == Coder!L

LEMMA TansSizes ==
  /\ TL \in 4..15 /\ HALF \in 1..16 /\ TL < HALF
  /\ Size = P2[TL] /\ Size \in Nat /\ 16 <= Size /\ Size <= P2[15]
  /\ MAX_SYMBOLS \in Nat /\ MAX_SYMBOLS * MAX_SYMBOLS <= 4 * Size
  /\ MaxSymbols \in Nat
<1>1. /\ TL \in 4..15 /\ HALF \in 1..16 /\ TL < HALF
      /\ MAX_SYMBOLS \in Nat /\ MAX_SYMBOLS * MAX_SYMBOLS <= 4 * Size
      /\ MaxSymbols \in Nat
  BY CodecAssumption DEF Coder!TansAssumption, Size
<1>2. Size = P2[TL]
  <2>1. TL \in 0..32 BY <1>1
  <2> QED BY <2>1, P2Is DEF Size, Coder!L
<1>3. P2[4] <= P2[TL] /\ P2[TL] <= P2[15] /\ P2[TL] \in Nat
  BY <1>1, PowersGrow, P2Type
<1>4. P2[4] = 16
  BY P2Values, SMT
<1> QED BY <1>1, <1>2, <1>3, <1>4

LEMMA P2Sum ==
  ASSUME NEW j \in 0..32, NEW k \in 0..32, j + k <= 32
  PROVE  P2[j + k] = P2[j] * P2[k]
<1> DEFINE T == {i \in 0..k : P2[j + i] = P2[j] * P2[i]}
<1>1. 0 \in T
  <2>1. P2[0] = 1 BY P2Values, SMT
  <2>2. P2[j] \in Nat BY P2Type
  <2> QED BY <2>1, <2>2
<1>2. ASSUME NEW i \in 0..k, i # 0, i - 1 \in T PROVE i \in T
  <2>0. k <= 32 /\ j + k <= 32 /\ j \in Nat /\ k \in Nat /\ i \in Nat /\ i <= k /\ i # 0
    BY <1>2
  <2>1. PICK m \in 0..31 : m = i - 1 /\ i = m + 1
    BY ONLY <2>0
  <2>2. PICK l \in 0..31 : l = j + m /\ j + i = l + 1
    BY ONLY <2>0, <2>1
  <2>3. m \in 0..32 /\ l \in 0..32
    OBVIOUS
  <2>4. PICK x \in Nat, y \in Nat, z \in Nat : x = P2[j] /\ y = P2[m] /\ z = P2[l]
    BY <2>3, P2Type
  <2>5. P2[i] = 2 * y /\ P2[j + i] = 2 * z /\ z = x * y
    BY <1>2, <2>1, <2>2, <2>4, P2Step
  <2>6. 2 * (x * y) = x * (2 * y)
    OBVIOUS
  <2> QED BY <2>4, <2>5, <2>6
<1>3. k \in Nat /\ k \in 0..k
  OBVIOUS
<1>4. \A i \in 0..k : i \in T
  <2> HIDE DEF T
  <2> QED BY <1>1, <1>2, <1>3, Induct
<1> QED BY <1>3, <1>4

LEMMA CardIs == \A S : Coder!Cardinality(S) = Cardinality(S)
BY Zenon DEF Coder!Cardinality, Cardinality

Sums(n, f, c) == c \in [0..n -> Nat] /\ c[0] = 0 /\ \A s \in 1..n : c[s] = c[s - 1] + f[s - 1]

LEMMA SumsExist ==
  ASSUME NEW n \in Nat, NEW f \in [0..(n - 1) -> Nat]
  PROVE  \E c : Sums(n, f, c)
<1> DEFINE T == {k \in 0..n : \E c : Sums(k, f, c)}
<1>1. 0 \in T
  <2>1. Sums(0, f, [s \in 0..0 |-> 0])
    BY DEF Sums
  <2> QED BY <2>1
<1>2. ASSUME NEW k \in 0..n, k # 0, k - 1 \in T PROVE k \in T
  <2>1. PICK c : Sums(k - 1, f, c)
    BY <1>2
  <2> DEFINE d == [s \in 0..k |-> IF s = k THEN c[k - 1] + f[k - 1] ELSE c[s]]
  <2>2. k - 1 \in 0..(k - 1) /\ k - 1 \in 0..(n - 1) /\ c \in [0..(k - 1) -> Nat] /\ f[k - 1] \in Nat
    BY <1>2, <2>1 DEF Sums
  <2>3. \A s \in 0..k : d[s] \in Nat
    <3>1. ASSUME NEW s \in 0..k, s # k PROVE s \in 0..(k - 1)
      BY <3>1
    <3> QED BY <2>2, <3>1
  <2>4. d[0] = 0
    BY <1>2, <2>1 DEF Sums
  <2>5. ASSUME NEW s \in 1..k PROVE d[s] = d[s - 1] + f[s - 1]
    <3>1. CASE s = k
      BY <2>2, <3>1
    <3>2. CASE s # k
      <4>1. s \in 1..(k - 1) /\ s - 1 # k /\ s \in 0..k /\ s - 1 \in 0..k
        BY <3>2
      <4>2. c[s] = c[s - 1] + f[s - 1]
        BY <2>1, <4>1 DEF Sums
      <4> QED BY <3>2, <4>1, <4>2
    <3> QED BY <3>1, <3>2
  <2>6. d \in [0..k -> Nat]
    BY <2>3
  <2>7. Sums(k, f, d)
    <3> HIDE DEF d
    <3> QED BY <2>4, <2>5, <2>6 DEF Sums
  <2> QED BY <2>7
<1>3. n \in 0..n
  OBVIOUS
<1>4. \A k \in 0..n : k \in T
  <2> HIDE DEF T
  <2> QED BY <1>1, <1>2, Induct
<1> QED BY <1>3, <1>4

\* Cumul gives the sums before each place.
LEMMA CumulIs ==
  ASSUME NEW n \in Nat, NEW f \in [0..(n - 1) -> Nat]
  PROVE  Cardinality(DOMAIN f) = n /\ Sums(n, f, Coder!Cumul(f)) /\ Coder!Sum(f) = Coder!Cumul(f)[n]
<1>1. Cardinality(DOMAIN f) = n
  <2>1. DOMAIN f = 0..(n - 1)
    OBVIOUS
  <2>2. Cardinality(0..(n - 1)) = IF 0 > n - 1 THEN 0 ELSE (n - 1) - 0 + 1
    <3>1. PICK a \in Int, b \in Int : a = 0 /\ b = n - 1
      OBVIOUS
    <3>2. Cardinality(a..b) = IF a > b THEN 0 ELSE b - a + 1
      BY FS_Interval
    <3> QED BY <3>1, <3>2
  <2>3. (IF 0 > n - 1 THEN 0 ELSE (n - 1) - 0 + 1) = n
    OBVIOUS
  <2> QED BY <2>1, <2>2, <2>3
<1> DEFINE Step(v) == [s \in 0..n |-> IF s = 0 THEN 0 ELSE v[s - 1] + f[s - 1]]
           Counted(v) == [s \in 0..Coder!Cardinality(DOMAIN f) |-> IF s = 0 THEN 0 ELSE v[s - 1] + f[s - 1]]
           sums == CHOOSE v : v = Counted(v)
<1>2. Coder!Cumul(f) = sums
  BY DEF Coder!Cumul
<1>3. PICK c : Sums(n, f, c)
  BY SumsExist
<1>4. c = Step(c)
  <2>1. ASSUME NEW s \in 0..n PROVE c[s] = IF s = 0 THEN 0 ELSE c[s - 1] + f[s - 1]
    <3>1. CASE s = 0
      BY <1>3, <3>1 DEF Sums
    <3>2. CASE s # 0
      <4>1. s \in 1..n BY <3>2
      <4> QED BY <1>3, <3>2, <4>1 DEF Sums
    <3> QED BY <3>1, <3>2
  <2>2. c = [s \in 0..n |-> c[s]]
    BY <1>3 DEF Sums
  <2> QED BY <2>1, <2>2
<1>5. sums = Step(sums)
  <2>1. \A v : Step(v) = Counted(v)
    BY <1>1, CardIs
  <2>2. c = Counted(c)
    BY <1>4, <2>1
  <2>3. sums = Counted(sums)
    <3> HIDE DEF Counted
    <3> QED BY <2>2
  <2> HIDE DEF sums, Step, Counted
  <2> QED BY <2>1, <2>3
<1> HIDE DEF sums
<1>6. \A s \in 0..n : sums[s] = IF s = 0 THEN 0 ELSE sums[s - 1] + f[s - 1]
  BY <1>5
<1>7. \A s \in 0..n : sums[s] = c[s]
  <2> DEFINE T == {s \in 0..n : sums[s] = c[s]}
  <2>1. 0 \in T
    BY <1>3, <1>6 DEF Sums
  <2>2. ASSUME NEW k \in 0..n, k # 0, k - 1 \in T PROVE k \in T
    <3>1. k \in 1..n BY <2>2
    <3>2. c[k] = c[k - 1] + f[k - 1] BY <1>3, <3>1 DEF Sums
    <3>3. sums[k] = sums[k - 1] + f[k - 1] BY <1>6, <2>2
    <3> QED BY <2>2, <3>2, <3>3
  <2>3. \A s \in 0..n : s \in T
    <3> HIDE DEF T
    <3> QED BY <2>1, <2>2, Induct
  <2> QED BY <2>3
<1>8. sums = c
  <2>1. sums = [s \in 0..n |-> sums[s]]
    BY <1>5
  <2>2. c = [s \in 0..n |-> c[s]]
    BY <1>3 DEF Sums
  <2> QED BY <1>7, <2>1, <2>2
<1>9. Coder!Sum(f) = Coder!Cumul(f)[n]
  BY <1>1, CardIs DEF Coder!Sum
<1> QED BY <1>1, <1>2, <1>3, <1>8, <1>9

\* What each place keeps within a multiple keeps the sums within it.
Within(n, x, f, y, g, u, w) == \A s \in 0..(n - 1) : x * f[s] + y * g[s] <= u * w[s]

LEMMA SumsWithin ==
  ASSUME NEW n \in Nat, NEW f \in [0..(n - 1) -> Nat], NEW g \in [0..(n - 1) -> Nat],
         NEW w \in [0..(n - 1) -> Nat], NEW x \in Int, NEW y \in Int, NEW u \in Int,
         Within(n, x, f, y, g, u, w),
         NEW c, Sums(n, f, c), NEW d, Sums(n, g, d), NEW e, Sums(n, w, e)
  PROVE  x * c[n] + y * d[n] <= u * e[n]
<1> DEFINE T == {s \in 0..n : x * c[s] + y * d[s] <= u * e[s]}
<1>1. 0 \in T
  BY DEF Sums
<1>2. ASSUME NEW k \in 0..n, k # 0, k - 1 \in T PROVE k \in T
  <2>1. k \in 1..n /\ k - 1 \in 0..(n - 1) /\ k - 1 \in 0..n
    BY <1>2
  <2>2. PICK c0 \in Nat, d0 \in Nat, e0 \in Nat : c0 = c[k - 1] /\ d0 = d[k - 1] /\ e0 = e[k - 1]
    BY <2>1 DEF Sums
  <2>3. PICK fk \in Nat, gk \in Nat, wk \in Nat : fk = f[k - 1] /\ gk = g[k - 1] /\ wk = w[k - 1]
    BY <2>1
  <2>4. c[k] = c0 + fk /\ d[k] = d0 + gk /\ e[k] = e0 + wk
    BY <2>1, <2>2, <2>3 DEF Sums
  <2>5. x * c0 + y * d0 <= u * e0
    BY <1>2, <2>2
  <2>6. x * fk + y * gk <= u * wk
    BY <2>1, <2>3 DEF Within
  <2>7. x * (c0 + fk) = x * c0 + x * fk /\ y * (d0 + gk) = y * d0 + y * gk /\ u * (e0 + wk) = u * e0 + u * wk
    OBVIOUS
  <2>8. x * (c0 + fk) + y * (d0 + gk) <= u * (e0 + wk)
    <3>1. PICK a \in Int, b \in Int, r \in Int : a = x * c0 /\ b = y * d0 /\ r = u * e0
      OBVIOUS
    <3>2. PICK a1 \in Int, b1 \in Int, r1 \in Int : a1 = x * fk /\ b1 = y * gk /\ r1 = u * wk
      OBVIOUS
    <3>3. a + b <= r /\ a1 + b1 <= r1
      BY <2>5, <2>6, <3>1, <3>2
    <3> QED BY ONLY <2>7, <3>1, <3>2, <3>3
  <2> QED BY <2>4, <2>8
<1>3. n \in 0..n
  OBVIOUS
<1>4. \A k \in 0..n : k \in T
  <2> HIDE DEF T
  <2> QED BY <1>1, <1>2, Induct
<1> QED BY <1>3, <1>4

LEMMA SumsGrow ==
  ASSUME NEW n \in Nat, NEW f \in [0..(n - 1) -> Nat], NEW c, Sums(n, f, c),
         NEW s \in 0..n, NEW t \in 0..n, s <= t
  PROVE  c[s] <= c[t]
<1> DEFINE T == {k \in 0..n : s <= k => c[s] <= c[k]}
<1>1. 0 \in T
  BY DEF Sums
<1>2. ASSUME NEW k \in 0..n, k # 0, k - 1 \in T PROVE k \in T
  <2>1. k \in 1..n /\ k - 1 \in 0..(n - 1) /\ k - 1 \in 0..n
    BY <1>2
  <2>2. c[k] = c[k - 1] + f[k - 1] /\ f[k - 1] \in Nat /\ c[k - 1] \in Nat /\ c[s] \in Nat /\ c[k] \in Nat
    BY <2>1 DEF Sums
  <2> QED BY <1>2, <2>1, <2>2
<1>3. \A k \in 0..n : k \in T
  <2> HIDE DEF T
  <2> QED BY <1>1, <1>2, Induct
<1> QED BY <1>3

-----------------------------------------------------------------------------
(* normalize leaves room for every symbol.                                 *)

LEMMA LargestIs ==
  ASSUME NEW n \in Nat \ {0}, NEW h \in [0..(n - 1) -> Nat]
  PROVE  Coder!Largest(h) \in 0..(n - 1) /\ \A t \in 0..(n - 1) : h[t] <= h[Coder!Largest(h)]
<1> DEFINE T == {k \in 0..(n - 1) : \E s \in 0..k : \A t \in 0..k : h[t] <= h[s]}
<1>1. 0 \in T
  <2>1. 0 \in 0..0 /\ \A t \in 0..0 : h[t] <= h[0]
    OBVIOUS
  <2> QED BY <2>1
<1>2. ASSUME NEW k \in 0..(n - 1), k # 0, k - 1 \in T PROVE k \in T
  <2>1. PICK s \in 0..(k - 1) : \A t \in 0..(k - 1) : h[t] <= h[s]
    BY <1>2
  <2>2. h[s] \in Nat /\ h[k] \in Nat /\ \A t \in 0..k : h[t] \in Nat
    OBVIOUS
  <2>3. \A t \in 0..k : t = k \/ t \in 0..(k - 1)
    OBVIOUS
  <2>4. CASE h[k] <= h[s]
    <3>1. \A t \in 0..k : h[t] <= h[s]
      BY <2>1, <2>3, <2>4
    <3> QED BY <3>1
  <2>5. CASE h[s] <= h[k]
    <3>1. \A t \in 0..k : h[t] <= h[k]
      BY <2>1, <2>2, <2>3, <2>5
    <3>2. k \in 0..k OBVIOUS
    <3> QED BY <3>1, <3>2
  <2> QED BY <2>2, <2>4, <2>5
<1>3. n - 1 \in Nat /\ n - 1 \in 0..(n - 1)
  OBVIOUS
<1>4. \A k \in 0..(n - 1) : k \in T
  <2> HIDE DEF T
  <2> QED BY <1>1, <1>2, <1>3, Induct
<1>5. PICK s \in 0..(n - 1) : \A t \in 0..(n - 1) : h[t] <= h[s]
  BY <1>3, <1>4
<1> DEFINE Most == {k \in 0..(n - 1) : h[k] = h[s]}
<1>6. PICK m \in Most : \A k \in Most : m <= k
  <2>1. Most \subseteq Nat /\ s \in Most
    OBVIOUS
  <2> HIDE DEF Most
  <2> QED BY <2>1, LeastNatural
<1>7. \A t \in 0..(n - 1) : h[t] <= h[m] /\ (t < m => h[t] < h[m])
  <2>1. ASSUME NEW t \in 0..(n - 1) PROVE h[t] <= h[m] /\ (t < m => h[t] < h[m])
    <3>1. h[t] <= h[s] /\ h[s] = h[m] /\ h[t] \in Nat /\ h[m] \in Nat
      BY <1>5, <1>6
    <3>2. h[t] = h[m] => m <= t
      BY <1>6, <3>1
    <3> QED BY <3>1, <3>2
  <2> QED BY <2>1
<1>8. DOMAIN h = 0..(n - 1) /\ m \in 0..(n - 1)
  BY <1>6
<1> HIDE DEF Most
<1>9. \E k \in DOMAIN h : \A t \in DOMAIN h : h[t] <= h[k] /\ (t < k => h[t] < h[k])
  BY <1>7, <1>8
<1> QED BY <1>8, <1>9 DEF Coder!Largest

\* A product is at most what its factors' sum allows.
LEMMA Products ==
  ASSUME NEW u \in Nat, NEW v \in Nat, NEW k \in Nat, u + v <= k
  PROVE  4 * (u * v) <= k * k
<1>1. (u - v) * (u - v) >= 0
  <2>1. PICK d \in Int : d = u - v OBVIOUS
  <2>2. d * d >= 0 OBVIOUS
  <2> QED BY <2>1, <2>2
<1>2. (u + v) * (u + v) = (u - v) * (u - v) + 4 * (u * v)
  OBVIOUS
<1>3. (u + v) * (u + v) <= k * k
  <2>1. PICK s \in Nat : s = u + v OBVIOUS
  <2>2. s * s <= s * k BY <2>1, TimesMonotone
  <2>3. k * s <= k * k BY <2>1, TimesMonotone
  <2>4. s * k = k * s OBVIOUS
  <2> QED BY <2>1, <2>2, <2>3, <2>4
<1>4. (u + v) * (u + v) \in Int /\ (u - v) * (u - v) \in Int /\ u * v \in Int /\ k * k \in Int
  OBVIOUS
<1> QED BY <1>1, <1>2, <1>3, <1>4

LEMMA FewSymbols ==
  ASSUME NEW n \in Nat, NEW l \in Nat, 16 <= l, n * n <= 4 * l
  PROVE  n <= l
<1> SUFFICES ASSUME l < n PROVE FALSE
  OBVIOUS
<1>1. l * l <= l * n BY TimesMonotone
<1>2. n * l <= n * n BY TimesMonotone
<1>3. 16 * l <= l * l
  <2>1. l * 16 <= l * l BY TimesMonotone
  <2> QED BY <2>1
<1>4. l * n = n * l OBVIOUS
<1>5. l * l \in Int /\ n * n \in Int /\ l * n \in Int OBVIOUS
<1> QED BY <1>1, <1>2, <1>3, <1>4, <1>5

\* The most frequent symbol, of count a, can give up what is counted above size: N
\* symbols have the count of their share, a at most, of sum Q, and Z more have one.
LEMMA Room ==
  ASSUME NEW n \in Nat \ {0}, NEW l \in Nat, 16 <= l, n * n <= 4 * l,
         NEW a \in Nat \ {0}, NEW N \in Nat, NEW Z \in Nat, NEW Q \in Nat, NEW B \in Nat,
         Q <= l, Z > 0 => Q < l, Q <= a * N, N + Z <= n, B <= Q + Z
  PROVE  a + (l - B) >= 1
<1>1. CASE Z = 0
  BY <1>1
<1>2. CASE Z > 0 /\ Z <= a
  BY <1>2
<1>3. CASE Z > a /\ N = 0
  <2>1. n <= l BY FewSymbols
  <2>2. Q = 0 BY <1>3
  <2> QED BY <1>3, <2>1, <2>2
<1>4. CASE Z > a /\ N > 0
  <2>1. PICK v \in Nat, M \in Nat : v = Z - 1 /\ M = N - 1
    BY <1>4
  <2>2. M * a <= M * v
    BY <1>4, <2>1, TimesMonotone
  <2>3. a * N = M * a + a /\ M * v = N * v - v
    BY <2>1
  <2>4. PICK p \in Nat : p = N * v
    BY <2>1
  <2>5. p <= l - 2
    <3>1. PICK k \in Nat : k = n - 1
      OBVIOUS
    <3>2. 4 * p <= k * k
      <4>1. N + v <= k BY <2>1, <3>1
      <4> QED BY <2>4, <4>1, Products
    <3>3. k * k = n * n - 2 * n + 1
      BY <3>1
    <3>4. CASE n >= 5
      BY <3>2, <3>3, <3>4
    <3>5. CASE n < 5
      <4>1. k <= 3 BY <3>1, <3>5
      <4>2. k * k <= k * 3 BY <4>1, TimesMonotone
      <4> QED BY <3>2, <4>1, <4>2
    <3> QED BY <3>4, <3>5
  <2>6. M * a \in Int /\ M * v \in Int /\ a * N \in Int
    OBVIOUS
  <2>7. Q <= M * a + a
    BY <2>3
  <2>8. M * a <= p - v
    BY <2>2, <2>3, <2>4, <2>6
  <2> QED BY <1>4, <2>1, <2>5, <2>6, <2>7, <2>8
<1> QED BY <1>1, <1>2, <1>3, <1>4

Changed(f, m, d, g) == g = [s \in DOMAIN f |-> IF s = m THEN f[m] + d ELSE f[s]]

Differ(n, e, c, d) == e[n] = c[n] + d

\* The sum of counts of which one changes by d.
LEMMA SumChanged ==
  ASSUME NEW n \in Nat, NEW f \in [0..(n - 1) -> Nat], NEW c, Sums(n, f, c),
         NEW m \in 0..(n - 1), NEW d \in Int,
         NEW g \in [0..(n - 1) -> Nat], Changed(f, m, d, g), NEW e, Sums(n, g, e)
  PROVE  Differ(n, e, c, d)
<1> DEFINE T == {k \in 0..n : e[k] = c[k] + (IF m < k THEN d ELSE 0)}
<1>1. 0 \in T
  BY DEF Sums
<1>2. ASSUME NEW k \in 0..n, k # 0, k - 1 \in T PROVE k \in T
  <2>1. k \in 1..n /\ k - 1 \in 0..(n - 1) /\ k - 1 \in 0..n
    BY <1>2
  <2>2. /\ c[k] = c[k - 1] + f[k - 1] /\ f[k - 1] \in Nat /\ c[k - 1] \in Nat
        /\ e[k] = e[k - 1] + g[k - 1] /\ g[k - 1] \in Nat /\ e[k - 1] \in Nat
    BY <2>1 DEF Sums
  <2>3. g[k - 1] = IF k - 1 = m THEN f[k - 1] + d ELSE f[k - 1]
    BY <2>1 DEF Changed
  <2>4. e[k - 1] = c[k - 1] + (IF m < k - 1 THEN d ELSE 0)
    BY <1>2
  <2>5. PICK a \in Nat, b \in Nat, fk \in Nat, gk \in Nat : /\ a = c[k - 1] /\ b = e[k - 1]
                                                          /\ fk = f[k - 1] /\ gk = g[k - 1]
    BY <2>2
  <2>6. gk = (IF k - 1 = m THEN fk + d ELSE fk) /\ b = a + (IF m < k - 1 THEN d ELSE 0)
    BY <2>3, <2>4, <2>5
  <2>7. b + gk = (a + fk) + (IF m < k THEN d ELSE 0)
    BY ONLY <2>6, a \in Nat, b \in Nat, fk \in Nat, gk \in Nat, k \in Int, m \in Int, d \in Int
  <2>8. e[k] = b + gk /\ c[k] = a + fk
    BY <2>2, <2>5
  <2> QED BY <1>2, <2>7, <2>8
<1>3. n \in 0..n /\ m < n
  OBVIOUS
<1>4. \A k \in 0..n : k \in T
  <2> HIDE DEF T
  <2> QED BY <1>1, <1>2, Induct
<1>5. e[n] = c[n] + d
  BY <1>3, <1>4
<1> QED BY <1>5 DEF Differ

\* What normalize makes of each count, and what it puts on the most frequent.
Scaled(n, h, t) ==
  [s \in 0..(n - 1) |->
     IF h[s] = 0 THEN 0 ELSE IF (h[s] * Size) \div t = 0 THEN 1 ELSE (h[s] * Size) \div t]

\* k is the share of x in l of t, and w what it is raised by.
Share(t, k, w, l, x) ==
  /\ k \in Nat /\ w \in 0..1 /\ x \in Nat
  /\ t * k + w <= l * x /\ l * x < t * k + t

LEMMA ScaledRoom ==
  ASSUME NEW n \in Nat \ {0}, n * n <= 4 * Size, NEW h \in [0..(n - 1) -> Nat],
         NEW t \in Nat \ {0}, t = Coder!Sum(h),
         NEW m \in 0..(n - 1), \A s \in 0..(n - 1) : h[s] <= h[m],
         NEW b, b = Scaled(n, h, t)
  PROVE  /\ b \in [0..(n - 1) -> Nat]
         /\ \A s \in 0..(n - 1) : h[s] > 0 => b[s] >= 1
         /\ b[m] + (Size - Coder!Sum(b)) >= 1
<1>1. PICK l \in Nat : l = Size /\ 16 <= l /\ n * n <= 4 * l
  BY TansSizes
<1> DEFINE q == [s \in 0..(n - 1) |-> (h[s] * l) \div t]
           z == [s \in 0..(n - 1) |-> IF h[s] # 0 /\ q[s] = 0 THEN 1 ELSE 0]
           p == [s \in 0..(n - 1) |-> IF q[s] > 0 THEN 1 ELSE 0]
           one == [s \in 0..(n - 1) |-> 1]
<1>2. ASSUME NEW s \in 0..(n - 1)
      PROVE  /\ q[s] \in Nat /\ z[s] \in 0..1 /\ p[s] \in 0..1 /\ b[s] \in Nat
             /\ b[s] = q[s] + z[s] /\ Share(t, q[s], z[s], l, h[s])
             /\ p[s] + z[s] <= 1 /\ (q[s] > 0 => p[s] = 1) /\ (h[s] > 0 => b[s] >= 1)
  <2>1. PICK x \in Nat, y \in Nat : x = h[s] /\ y = x * l
    <3>1. h[s] \in Nat /\ \A x \in Nat : x * l \in Nat OBVIOUS
    <3> QED BY <3>1
  <2>2. PICK r \in 0..(t - 1), k \in Nat : y = t * k + r /\ k = y \div t
    BY Divides
  <2>3. q[s] = k /\ z[s] = (IF x # 0 /\ k = 0 THEN 1 ELSE 0) /\ p[s] = (IF k > 0 THEN 1 ELSE 0)
    BY <2>1, <2>2
  <2>4. b[s] = IF x = 0 THEN 0 ELSE IF k = 0 THEN 1 ELSE k
    <3> HIDE DEF q, z, p
    <3> QED BY <1>1, <2>1, <2>2 DEF Scaled
  <2>5. x = 0 => k = 0
    <3> SUFFICES ASSUME x = 0, k # 0 PROVE FALSE OBVIOUS
    <3>1. t * 1 <= t * k BY TimesMonotone
    <3>2. y = 0 BY <2>1
    <3>3. y = t * k + r BY <2>2
    <3>4. PICK w \in Int : w = t * k OBVIOUS
    <3>5. t * 1 = t OBVIOUS
    <3> QED BY ONLY t \in Nat \ {0}, r \in 0..(t - 1), <3>1, <3>2, <3>3, <3>4, <3>5
  <2>6. x # 0 => y >= 1
    <3> SUFFICES ASSUME x # 0 PROVE y >= 1 OBVIOUS
    <3>1. l * 1 <= l * x BY TimesMonotone
    <3> QED BY <1>1, <2>1, <3>1
  <2>7. l * x = y BY <2>1
  <2>8. t * k \in Nat /\ (k = 0 => t * k = 0) OBVIOUS
  <2> HIDE DEF q, z, p
  <2>9. q[s] \in Nat /\ z[s] \in 0..1 /\ p[s] \in 0..1 /\ b[s] \in Nat /\ b[s] = q[s] + z[s]
    BY <2>3, <2>4, <2>5
  <2>10. Share(t, q[s], z[s], l, h[s])
    <3>1. PICK w \in 0..1 : w = IF x # 0 /\ k = 0 THEN 1 ELSE 0
      OBVIOUS
    <3>2. y = t * k + r
      BY <2>2
    <3>3. t * k + w <= l * x /\ l * x < t * k + t
      <4>1. PICK e \in Nat : e = t * k BY <2>8
      <4>2. k = 0 => e = 0 BY <2>8, <4>1
      <4>3. y = e + r BY <3>2, <4>1
      <4>4. e + w <= y /\ y < e + t
        <5>1. x # 0 /\ k = 0 => y >= 1 BY <2>6
        <5> QED BY ONLY <3>1, <4>2, <4>3, <5>1, t \in Nat \ {0}, r \in 0..(t - 1), e \in Nat, k \in Nat, y \in Nat
      <4> QED BY <2>7, <4>1, <4>4
    <3>4. Share(t, k, w, l, x)
      BY <3>3 DEF Share
    <3> QED BY <2>1, <2>3, <3>1, <3>4, Zenon
  <2>11. p[s] + z[s] <= 1 /\ (q[s] > 0 => p[s] = 1) /\ (h[s] > 0 => b[s] >= 1)
    <3>1. PICK w \in 0..1, v \in 0..1 : w = z[s] /\ v = p[s] BY <2>9
    <3>2. w = (IF x # 0 /\ k = 0 THEN 1 ELSE 0) /\ v = (IF k > 0 THEN 1 ELSE 0)
      BY <2>3, <3>1
    <3>3. w + v <= 1 /\ (k > 0 => v = 1)
      BY ONLY <3>2, w \in 0..1, v \in 0..1, k \in Nat
    <3>4. x > 0 => b[s] >= 1
      BY <2>4
    <3> QED BY <2>1, <2>3, <3>1, <3>3, <3>4
  <2> QED BY <2>9, <2>10, <2>11
<1>3. /\ q \in [0..(n - 1) -> Nat] /\ z \in [0..(n - 1) -> Nat] /\ p \in [0..(n - 1) -> Nat]
      /\ b \in [0..(n - 1) -> Nat] /\ one \in [0..(n - 1) -> Nat]
  <2>1. b = [s \in 0..(n - 1) |-> b[s]] BY DEF Scaled
  <2>2. \A s \in 0..(n - 1) : z[s] \in Nat /\ p[s] \in Nat BY <1>2
  <2> QED BY <1>2, <2>1, <2>2
<1>4. \A s \in 0..(n - 1) : one[s] = 1
  OBVIOUS
<1> DEFINE count == [s \in 0..n |-> s]
<1>5. Sums(n, one, count) /\ count[n] = n
  BY DEF Sums
<1> HIDE DEF q, z, p, one, count
<1>6. n \in Nat OBVIOUS
<1>7. PICK sh : Sums(n, h, sh) /\ sh[n] = t
  BY <1>6, CumulIs
<1>8. PICK sq : Sums(n, q, sq) BY <1>3, <1>6, SumsExist
<1>9. PICK sz : Sums(n, z, sz) BY <1>3, <1>6, SumsExist
<1>10. PICK sp : Sums(n, p, sp) BY <1>3, <1>6, SumsExist
<1>11. PICK sb : Sums(n, b, sb) /\ sb[n] = Coder!Sum(b) BY <1>3, <1>6, CumulIs
<1>12. PICK Q \in Nat, Z \in Nat, N \in Nat, B \in Nat : Q = sq[n] /\ Z = sz[n] /\ N = sp[n] /\ B = sb[n]
  <2>1. n \in 0..n OBVIOUS
  <2> QED BY <2>1, <1>8, <1>9, <1>10, <1>11 DEF Sums
<1>13. t * Q + Z <= l * t
  <2>1. PICK y \in Int, ti \in Int, li \in Int : y = 1 /\ ti = t /\ li = l OBVIOUS
  <2>2. Within(n, ti, q, y, z, li, h)
    <3>1. \A s \in 0..(n - 1) : t * q[s] + 1 * z[s] <= l * h[s]
      <4>1. ASSUME NEW s \in 0..(n - 1) PROVE t * q[s] + 1 * z[s] <= l * h[s]
        <5>1. Share(t, q[s], z[s], l, h[s]) BY <1>2
        <5>2. PICK k \in Nat, w \in 0..1 : k = q[s] /\ w = z[s] BY <5>1 DEF Share
        <5>3. PICK x \in Nat : x = h[s] BY <5>1 DEF Share
        <5>4. t * k + w <= l * x BY <5>1, <5>2, <5>3 DEF Share
        <5>5. 1 * w = w OBVIOUS
        <5> QED BY <5>2, <5>3, <5>4, <5>5
      <4> QED BY <4>1
    <3> QED BY <2>1, <3>1 DEF Within
  <2>3. ti * sq[n] + y * sz[n] <= li * sh[n]
    BY <1>3, <1>6, <1>7, <1>8, <1>9, <2>2, SumsWithin
  <2> QED BY <1>7, <1>12, <2>1, <2>3
<1>14. Q <= l /\ (Z > 0 => Q < l)
  <2>1. ASSUME Q >= l PROVE Q = l /\ Z = 0
    <3>1. t * l <= t * Q BY <2>1, TimesMonotone
    <3>2. t * l = l * t /\ t * Q \in Int /\ t * l \in Int OBVIOUS
    <3>3. Z = 0 /\ t * Q = t * l
      <4>1. PICK d \in Int, e \in Int : d = t * Q /\ e = t * l OBVIOUS
      <4>2. d + Z <= e /\ e <= d BY <1>13, <3>1, <3>2, <4>1
      <4>3. Z = 0 /\ d = e BY ONLY <4>2, d \in Int, e \in Int, Z \in Nat
      <4> QED BY <4>1, <4>3
    <3>4. ~(Q > l)
      <4> SUFFICES ASSUME Q > l PROVE FALSE OBVIOUS
      <4>1. t * (l + 1) <= t * Q BY TimesMonotone
      <4>2. t * (l + 1) = t * l + t OBVIOUS
      <4> QED BY <3>2, <3>3, <4>1, <4>2
    <3> QED BY <2>1, <3>3, <3>4
  <2> QED BY <2>1
<1>15. PICK a \in Nat : a = q[m] /\ b[m] >= a
  <2>1. q[m] \in Nat /\ z[m] \in 0..1 /\ b[m] = q[m] + z[m]
    BY <1>2
  <2> QED BY <2>1
<1>16. \A s \in 0..(n - 1) : q[s] <= a
  <2> SUFFICES ASSUME NEW s \in 0..(n - 1), ~(q[s] <= a) PROVE FALSE
    OBVIOUS
  <2>9. Share(t, q[s], z[s], l, h[s]) /\ Share(t, q[m], z[m], l, h[m])
    BY <1>2
  <2>1. PICK x \in Nat, y \in Nat, k \in Nat, w \in 0..1 : x = h[s] /\ y = h[m] /\ k = q[s] /\ w = z[s]
    BY <2>9 DEF Share
  <2>2. t * k + w <= l * x /\ l * y < t * a + t /\ a < k
    <3>1. Share(t, k, w, l, x) /\ Share(t, a, z[m], l, y)
      BY <1>15, <2>1, <2>9
    <3>2. ~(k <= a)
      BY <2>1
    <3> QED BY <3>1, <3>2 DEF Share
  <2>3. l * x <= l * y
    <3>1. x <= y BY <2>1
    <3> QED BY <3>1, TimesMonotone
  <2>4. t * (a + 1) <= t * k
    <3>1. a + 1 <= k BY <2>2
    <3> QED BY ONLY t \in Nat \ {0}, a \in Nat, k \in Nat, <3>1, TimesMonotone
  <2>5. t * (a + 1) = t * a + t /\ t * k \in Int /\ t * a \in Int /\ l * x \in Int /\ l * y \in Int
    BY ONLY t \in Nat \ {0}, a \in Nat, k \in Nat, l \in Nat, x \in Nat, y \in Nat
  <2>6. PICK u \in Int, v \in Int, d \in Int, e \in Int : u = t * k /\ v = t * a /\ d = l * x /\ e = l * y
    BY <2>5
  <2>7. u + w <= d /\ e < v + t /\ d <= e /\ v + t <= u
    BY <2>2, <2>3, <2>4, <2>5, <2>6
  <2> QED BY ONLY <2>7, u \in Int, v \in Int, d \in Int, e \in Int, t \in Nat \ {0}, w \in 0..1
<1>17. Q <= a * N
  <2>1. PICK x \in Int, y \in Int, ai \in Int : x = 1 /\ y = 0 /\ ai = a OBVIOUS
  <2>2. Within(n, x, q, y, z, ai, p)
    <3>1. ASSUME NEW s \in 0..(n - 1) PROVE 1 * q[s] + 0 * z[s] <= a * p[s]
      <4>1. q[s] \in Nat /\ p[s] \in 0..1 /\ z[s] \in Int /\ (q[s] > 0 => p[s] = 1) /\ q[s] <= a
        BY <1>2, <1>16
      <4>2. p[s] = 1 => a * p[s] = a OBVIOUS
      <4>3. p[s] = 0 => a * p[s] = 0 OBVIOUS
      <4>4. 1 * q[s] + 0 * z[s] = q[s] BY <4>1
      <4> QED BY <4>1, <4>2, <4>3, <4>4
    <3> QED BY <2>1, <3>1 DEF Within
  <2>3. x * sq[n] + y * sz[n] <= ai * sp[n]
    BY <1>3, <1>6, <1>8, <1>9, <1>10, <2>2, SumsWithin
  <2> QED BY <1>12, <2>1, <2>3
<1>18. N + Z <= n
  <2>1. PICK x \in Int : x = 1 OBVIOUS
  <2>2. Within(n, x, p, x, z, x, one)
    <3>1. ASSUME NEW s \in 0..(n - 1) PROVE 1 * p[s] + 1 * z[s] <= 1 * one[s]
      <4>1. p[s] + z[s] <= 1 /\ p[s] \in Int /\ z[s] \in Int
        BY <1>2
      <4>2. PICK u \in Int, v \in Int : u = p[s] /\ v = z[s] BY <4>1
      <4>3. 1 * u + 1 * v <= 1 * 1 BY ONLY <4>1, <4>2, u \in Int, v \in Int
      <4>4. one[s] = 1 BY <1>4
      <4> QED BY ONLY <4>2, <4>3, <4>4
    <3> QED BY <2>1, <3>1 DEF Within
  <2>3. x * sp[n] + x * sz[n] <= x * count[n]
    BY <1>3, <1>5, <1>6, <1>9, <1>10, <2>2, SumsWithin
  <2> QED BY <1>5, <1>12, <2>1, <2>3
<1>19. B <= Q + Z
  <2>1. PICK x \in Int, y \in Int : x = 1 /\ y = -1 OBVIOUS
  <2>2. Within(n, x, b, y, q, x, z)
    <3>1. ASSUME NEW s \in 0..(n - 1) PROVE 1 * b[s] + (-1) * q[s] <= 1 * z[s]
      <4>1. q[s] \in Nat /\ z[s] \in 0..1 /\ b[s] = q[s] + z[s]
        BY <1>2
      <4>2. PICK u \in Nat, v \in 0..1 : u = q[s] /\ v = z[s] BY <4>1
      <4>3. 1 * (u + v) + (-1) * u <= 1 * v BY ONLY u \in Nat, v \in 0..1
      <4> QED BY ONLY <4>1, <4>2, <4>3
    <3> QED BY <2>1, <3>1 DEF Within
  <2>3. x * sb[n] + y * sq[n] <= x * sz[n]
    BY <1>3, <1>6, <1>8, <1>9, <1>11, <2>2, SumsWithin
  <2>4. x * B + y * Q <= x * Z
    BY <1>12, <2>3
  <2>5. x * B = B /\ y * Q = -Q /\ x * Z = Z
    BY ONLY <2>1, B \in Nat, Q \in Nat, Z \in Nat
  <2> QED BY ONLY <2>4, <2>5, B \in Nat, Q \in Nat, Z \in Nat
<1>20. a # 0
  <2> SUFFICES ASSUME a = 0 PROVE FALSE OBVIOUS
  <2>1. PICK x \in Nat, y \in Int, w \in Int : x = h[m] /\ y = 1 /\ w = 0 OBVIOUS
  <2>9. PICK xi \in Int : xi = x OBVIOUS
  <2>2. Within(n, y, h, w, z, xi, one)
    <3>1. ASSUME NEW s \in 0..(n - 1) PROVE 1 * h[s] + 0 * z[s] <= x * one[s]
      <4>1. h[s] \in Nat /\ h[s] <= x /\ one[s] = 1 /\ z[s] \in Int BY <1>2, <1>4, <2>1
      <4>2. 1 * h[s] + 0 * z[s] = h[s] /\ x * 1 = x BY <4>1
      <4> QED BY <4>1, <4>2
    <3> QED BY <2>1, <2>9, <3>1 DEF Within
  <2>3. y * sh[n] + w * sz[n] <= xi * count[n]
    BY <1>3, <1>5, <1>6, <1>7, <1>9, <2>2, SumsWithin
  <2>4. t <= x * n
    BY <1>5, <1>7, <1>12, <2>1, <2>3, <2>9
  <2>5. n <= l
    BY <1>1, <1>6, FewSymbols
  <2>6. x * n <= x * l
    BY <2>5, TimesMonotone
  <2>7. l * x < t * a + t /\ t * a = 0 /\ l * x = x * l
    <3>1. Share(t, q[m], z[m], l, h[m])
      BY <1>2
    <3>2. Share(t, a, z[m], l, x)
      BY <1>15, <2>1, <3>1
    <3> QED BY <3>2 DEF Share
  <2>8. x * n \in Int /\ x * l \in Int OBVIOUS
  <2>10. PICK d \in Int, e \in Int : d = x * n /\ e = x * l
    BY <2>8
  <2>11. t <= d /\ d <= e /\ e < 0 + t
    BY <2>4, <2>6, <2>7, <2>10
  <2> QED BY ONLY <2>11, t \in Nat \ {0}, d \in Int, e \in Int
<1>21. a + (l - B) >= 1
  <2>1. a \in Nat \ {0} BY <1>20
  <2> QED BY <1>1, <1>14, <1>17, <1>18, <1>19, <2>1, Room
<1>22. b[m] + (Size - Coder!Sum(b)) >= 1
  <2>1. b[m] \in Nat BY <1>2
  <2>2. b[m] >= a BY <1>15
  <2>3. b[m] + (l - B) >= 1 BY ONLY <1>21, <2>1, <2>2, a \in Nat, l \in Nat, B \in Nat
  <2>4. B = Coder!Sum(b) BY <1>11, <1>12
  <2> QED BY <1>1, <2>3, <2>4
<1> QED BY <1>2, <1>3, <1>22

Filled(n, h, c) ==
  /\ c \in [0..(n - 1) -> Nat] /\ Coder!Sum(c) = Size
  /\ \A s \in 0..(n - 1) : h[s] > 0 => c[s] >= 1

LEMMA NoneCounted ==
  ASSUME NEW n \in Nat \ {0}, NEW h \in [0..(n - 1) -> Nat], Coder!Sum(h) = 0
  PROVE  Filled(n, h, [s \in 0..(n - 1) |-> IF s = 0 THEN Size ELSE 0])
<1> DEFINE none == [s \in 0..(n - 1) |-> 0]
           zeros == [k \in 0..n |-> 0]
           c == [s \in 0..(n - 1) |-> IF s = 0 THEN Size ELSE 0]
<1>1. PICK l \in Nat, d \in Int, m \in 0..(n - 1) : l = Size /\ d = l /\ m = 0
  <2>1. Size \in Nat /\ 0 \in 0..(n - 1) BY TansSizes
  <2> QED BY <2>1
<1>2. none \in [0..(n - 1) -> Nat] /\ c \in [0..(n - 1) -> Nat] /\ n \in Nat
  BY <1>1
<1>3. Sums(n, none, zeros) /\ zeros[n] = 0
  BY DEF Sums
<1>4. Changed(none, m, d, c)
  <2>1. \A s \in 0..(n - 1) : c[s] = IF s = m THEN none[m] + d ELSE none[s]
    BY <1>1
  <2>2. c = [s \in 0..(n - 1) |-> IF s = m THEN none[m] + d ELSE none[s]]
    BY <2>1
  <2> QED BY <2>2 DEF Changed
<1> HIDE DEF none, zeros, c
<1>5. PICK e : Sums(n, c, e) /\ e[n] = Coder!Sum(c)
  BY <1>2, CumulIs
<1>6. e[n] = zeros[n] + d
  <2>1. PICK k \in Nat : k = n BY <1>2
  <2>2. none \in [0..(k - 1) -> Nat] /\ c \in [0..(k - 1) -> Nat] /\ m \in 0..(k - 1)
    BY <1>2, <2>1
  <2>3. Sums(k, none, zeros) /\ Sums(k, c, e) /\ Changed(none, m, d, c)
    BY <1>3, <1>4, <1>5, <2>1
  <2>4. Differ(k, e, zeros, d)
    BY ONLY <2>2, <2>3, k \in Nat, d \in Int, SumChanged
  <2> QED BY <2>1, <2>4 DEF Differ
<1>7. Coder!Sum(c) = Size
  BY <1>1, <1>3, <1>5, <1>6
<1>8. ASSUME NEW s \in 0..(n - 1) PROVE ~(h[s] > 0)
  <2>1. PICK u : Sums(n, h, u) /\ u[n] = 0
    BY <1>2, CumulIs
  <2>2. PICK t \in 0..n : t = s + 1 /\ t \in 1..n
    OBVIOUS
  <2>3. u[t] = u[s] + h[s] /\ u[s] \in Nat /\ h[s] \in Nat /\ u[t] \in Nat
    BY <2>1, <2>2 DEF Sums
  <2>4. u[t] <= u[n]
    <3>1. n \in 0..n /\ t <= n BY <1>2
    <3> QED BY <1>2, <2>1, <3>1, SumsGrow
  <2> QED BY <2>1, <2>3, <2>4
<1> QED BY <1>2, <1>7, <1>8 DEF Filled, c

\* The counts are a table's, and every symbol of the histogram has one.
LEMMA CountsFilled ==
  ASSUME NEW n \in 1..MAX_SYMBOLS, NEW h \in [0..(n - 1) -> Nat]
  PROVE  Filled(n, h, Coder!normalize(h))
<1>1. n \in Nat \ {0} /\ n * n <= 4 * Size
  <2>1. MAX_SYMBOLS \in Nat /\ MAX_SYMBOLS * MAX_SYMBOLS <= 4 * Size /\ Size \in Nat
    BY TansSizes
  <2>2. n \in Nat \ {0} /\ n <= MAX_SYMBOLS
    BY <2>1
  <2>3. n * n <= n * MAX_SYMBOLS /\ MAX_SYMBOLS * n <= MAX_SYMBOLS * MAX_SYMBOLS
    BY <2>1, <2>2, TimesMonotone
  <2>4. PICK b \in Nat, l \in Nat, a \in Nat : b = MAX_SYMBOLS /\ l = Size /\ a = n
    BY <2>1, <2>2
  <2>5. a * a <= a * b /\ b * a <= b * b /\ b * b <= 4 * l
    BY <2>1, <2>3, <2>4
  <2>6. a * a <= 4 * l
    <3>1. a * b = b * a BY ONLY a \in Nat, b \in Nat
    <3>2. PICK u \in Int, v \in Int, w \in Int : u = a * a /\ v = a * b /\ w = b * b
      BY ONLY a \in Nat, b \in Nat
    <3> QED BY ONLY <2>5, <3>1, <3>2, l \in Nat
  <2> QED BY <2>2, <2>4, <2>6
<1>2. PICK t \in Nat : t = Coder!Sum(h)
  <2>1. n \in 0..n BY <1>1
  <2>2. Sums(n, h, Coder!Cumul(h)) /\ Coder!Sum(h) = Coder!Cumul(h)[n]
    BY <1>1, CumulIs
  <2> QED BY <2>1, <2>2 DEF Sums
<1>3. DOMAIN h = 0..(n - 1)
  OBVIOUS
<1>4. CASE t = 0
  <2>1. Coder!normalize(h) = [s \in 0..(n - 1) |-> IF s = 0 THEN Size ELSE 0]
    BY <1>2, <1>3, <1>4 DEF Coder!normalize, Size
  <2> QED BY <1>1, <1>2, <1>4, <2>1, NoneCounted
<1>5. CASE t # 0
  <2>1. PICK m \in 0..(n - 1) : m = Coder!Largest(h) /\ \A s \in 0..(n - 1) : h[s] <= h[m]
    BY <1>1, LargestIs
  <2>2. PICK b : b = Scaled(n, h, t)
    OBVIOUS
  <2>3. /\ b \in [0..(n - 1) -> Nat]
        /\ \A s \in 0..(n - 1) : h[s] > 0 => b[s] >= 1
        /\ b[m] + (Size - Coder!Sum(b)) >= 1
    BY <1>1, <1>2, <1>5, <2>1, <2>2, ScaledRoom
  <2>10. PICK l \in Nat, e \in Nat : l = Size /\ e = Coder!Sum(b) /\ Coder!Cumul(b)[n] = e /\ Sums(n, b, Coder!Cumul(b))
    <3>1. Coder!Sum(b) = Coder!Cumul(b)[n] /\ Sums(n, b, Coder!Cumul(b))
      BY <1>1, <2>3, CumulIs
    <3>2. Coder!Sum(b) \in Nat
      <4>1. n \in 0..n BY <1>1
      <4> QED BY <3>1, <4>1 DEF Sums
    <3>3. PICK l \in Nat, e \in Nat : l = Size /\ e = Coder!Sum(b)
      BY <3>2, TansSizes
    <3> QED BY <3>1, <3>3
  <2>11. PICK d \in Int : d = l - e
    OBVIOUS
  <2>4. PICK sb : Sums(n, b, sb) /\ sb[n] = e
    BY <2>10
  <2>5. Coder!normalize(h) = [b EXCEPT ![m] = b[m] + d]
    <3>1. Coder!normalize(h) = [Scaled(n, h, t) EXCEPT ![m] = @ + (Size - Coder!Sum(Scaled(n, h, t)))]
      BY <1>2, <1>3, <1>5, <2>1 DEF Coder!normalize, Size, Scaled
    <3> QED BY <2>2, <2>10, <2>11, <3>1
  <2>6. PICK c : c = [b EXCEPT ![m] = b[m] + d]
    OBVIOUS
  <2>7. c \in [0..(n - 1) -> Nat] /\ c[m] >= 1 /\ \A s \in 0..(n - 1) : s # m => c[s] = b[s]
    <3>1. b[m] + d >= 1 /\ b[m] + d \in Nat
      <4>1. PICK k \in Nat : k = b[m] BY <2>3
      <4>2. k + (l - e) >= 1 BY <2>3, <2>10, <4>1
      <4>3. k + d >= 1 /\ k + d \in Nat BY ONLY <2>11, <4>2, k \in Nat, l \in Nat, e \in Nat, d \in Int
      <4> QED BY ONLY <4>1, <4>3
    <3> QED BY <2>3, <2>6, <3>1
  <2>8. Coder!Sum(c) = Size
    <3>1. PICK sc : Sums(n, c, sc) /\ sc[n] = Coder!Sum(c)
      BY <1>1, <2>7, CumulIs
    <3>2. n \in Nat
      BY <1>1
    <3>3. Changed(b, m, d, c)
      <4>1. c = [s \in 0..(n - 1) |-> IF s = m THEN b[m] + d ELSE b[s]]
        BY <2>3, <2>6
      <4>2. DOMAIN b = 0..(n - 1) BY <2>3
      <4> QED BY <4>1, <4>2 DEF Changed
    <3>4. Differ(n, sc, sb, d)
      BY <2>3, <2>4, <2>7, <3>1, <3>2, <3>3, SumChanged
    <3> QED BY <2>4, <2>10, <2>11, <3>1, <3>4 DEF Differ
  <2>9. ASSUME NEW s \in 0..(n - 1), h[s] > 0 PROVE c[s] >= 1
    BY <2>3, <2>7, <2>9
  <2> QED BY <2>5, <2>6, <2>7, <2>8, <2>9 DEF Filled
<1> QED BY <1>4, <1>5

-----------------------------------------------------------------------------
(* The tables: the places of a symbol's occurrences.                       *)

Stride == Size \div 2 + Size \div 8 + 3

LEMMA StrideIsOdd == \E k \in Nat : Stride = 2 * k + 1
<1>1. PICK j \in 0..32, k \in 0..32 : j = 4 /\ k = TL - 4 /\ j + k = TL
  BY TansSizes
<1>2. PICK u \in Nat : u = P2[k]
  BY P2Type
<1>3. Size = 16 * u
  <2>1. P2[j + k] = P2[j] * P2[k]
    <3>1. j + k <= 32 BY <1>1, TansSizes
    <3> QED BY <3>1, P2Sum
  <2>2. P2[j] = 16
    <3>1. P2[4] = 16 BY P2Values, SMT
    <3> QED BY <1>1, <3>1
  <2>3. Size = P2[j + k]
    BY <1>1, TansSizes
  <2> QED BY <1>2, <2>1, <2>2, <2>3
<1>4. Stride = 2 * (5 * u + 1) + 1
  BY <1>2, <1>3 DEF Stride
<1>5. PICK k1 \in Nat : k1 = 5 * u + 1
  BY <1>2
<1> QED BY <1>4, <1>5

\* v is an inverse of the odd s in steps of p.
Inverts(v, s, p) == \E w \in Nat : v * s = 1 + p * w

LEMMA OddInverse ==
  ASSUME NEW k \in Nat, NEW s \in Nat, s = 2 * k + 1, NEW n \in 0..32
  PROVE  \E v \in Nat : Inverts(v, s, P2[n])
<1> DEFINE T == {i \in 0..n : \E v \in Nat : Inverts(v, s, P2[i])}
<1>1. 0 \in T
  <2>1. PICK p \in Nat : p = P2[0] /\ p = 1
    <3>1. P2[0] = 1 BY P2Values, SMT
    <3> QED BY <3>1
  <2>2. 2 * k \in Nat /\ 1 * s = 1 + p * (2 * k)
    BY <2>1
  <2>3. Inverts(1, s, p)
    BY <2>2 DEF Inverts
  <2>4. 1 \in Nat /\ Inverts(1, s, P2[0])
    BY <2>1, <2>3
  <2>5. \E v \in Nat : Inverts(v, s, P2[0])
    BY <2>4, Zenon
  <2> QED BY <2>5
<1>2. ASSUME NEW i \in 0..n, i # 0, i - 1 \in T PROVE i \in T
  <2>1. PICK m \in 0..31 : m = i - 1 /\ i = m + 1
    <3>1. n \in Int /\ n <= 32 OBVIOUS
    <3> QED BY ONLY <3>1, i \in 0..n, <1>2
  <2>2. m \in 0..32 OBVIOUS
  <2>3. PICK p \in Nat : p = P2[m] /\ P2[i] = 2 * p
    BY <2>1, <2>2, P2Step, P2Type
  <2>4. PICK v \in Nat : Inverts(v, s, p)
    BY <1>2, <2>1, <2>3
  <2>5. PICK w \in Nat : v * s = 1 + p * w
    BY <2>4 DEF Inverts
  <2>6. PICK j \in Nat, o \in 0..1 : w = 2 * j + o
    <3>1. w \div 2 \in Nat /\ w % 2 \in 0..1 /\ w = 2 * (w \div 2) + (w % 2)
      OBVIOUS
    <3> QED BY <3>1
  <2>7. CASE o = 0
    <3>1. p * w = (2 * p) * j
      BY <2>6, <2>7
    <3>2. Inverts(v, s, 2 * p)
      BY <2>5, <3>1 DEF Inverts
    <3> QED BY <2>3, <3>2
  <2>8. CASE o = 1
    <3>1. w = 2 * j + 1
      BY <2>6, <2>8
    <3>2. (v + p) * s = v * s + p * s
      OBVIOUS
    <3>3. p * w + p * s = (2 * p) * (j + k + 1)
      BY <3>1
    <3>4. v * s \in Int /\ p * s \in Int /\ p * w \in Int /\ v + p \in Nat /\ j + k + 1 \in Nat
      OBVIOUS
    <3>5. (v + p) * s = 1 + (2 * p) * (j + k + 1)
      BY <2>5, <3>2, <3>3, <3>4
    <3>6. Inverts(v + p, s, 2 * p)
      BY <3>4, <3>5 DEF Inverts
    <3> QED BY <2>3, <3>4, <3>6
  <2> QED BY <2>7, <2>8
<1>3. n \in Nat /\ n \in 0..n
  OBVIOUS
<1>4. \A i \in 0..n : i \in T
  <2> HIDE DEF T
  <2> QED BY <1>1, <1>2, <1>3, Induct
<1> QED BY <1>3, <1>4

\* A remainder is what is left of multiples.
LEMMA RemainderIs ==
  ASSUME NEW n \in Nat \ {0}, NEW x \in Nat, NEW q \in Int, NEW r \in 0..(n - 1), x = n * q + r
  PROVE  x % n = r /\ x \div n = q
<1>1. x \div n \in Nat /\ x % n \in 0..(n - 1) /\ x = n * (x \div n) + (x % n)
  BY Divides
<1>2. PICK d \in Int, e \in 0..(n - 1) : d = x \div n /\ e = x % n
  BY <1>1
<1>3. n * d + e = n * q + r
  BY <1>1, <1>2
<1> QED BY ONLY n \in Nat \ {0}, q \in Int, r \in 0..(n - 1), d \in Int, e \in 0..(n - 1), <1>2, <1>3, OneQuotient

Places == 0..(Size - 1)
Occurrence(i) == CHOOSE j \in Places : (j * Stride) % Size = i

LEMMA OccurrenceIs ==
  ASSUME NEW i \in Places
  PROVE  Occurrence(i) \in Places /\ (Occurrence(i) * Stride) % Size = i
<1>1. PICK l \in Nat \ {0}, n \in 0..32 : l = Size /\ l = P2[n]
  BY TansSizes
<1>2. PICK s \in Nat, k \in Nat : s = Stride /\ s = 2 * k + 1
  BY StrideIsOdd
<1>3. PICK v \in Nat : Inverts(v, s, l)
  BY <1>1, <1>2, OddInverse
<1>4. PICK w \in Nat : v * s = 1 + l * w
  BY <1>3 DEF Inverts
<1>5. i \in 0..(l - 1) /\ i \in Nat
  BY <1>1 DEF Places
<1>6. PICK x \in Nat : x = i * v
  BY <1>5
<1>7. PICK q \in Nat, j \in 0..(l - 1) : x = l * q + j
  BY Divides
<1>8. j * s = l * (i * w - q * s) + i
  <2>1. x * s = (l * q + j) * s
    BY <1>7
  <2>2. x * s = i * (v * s)
    BY <1>5, <1>6
  <2>3. i * (v * s) = i * (1 + l * w)
    BY <1>4
  <2>4. (l * q + j) * s = l * (q * s) + j * s
    OBVIOUS
  <2>5. i * (1 + l * w) = i + l * (i * w)
    BY <1>5
  <2>6. l * (i * w - q * s) = l * (i * w) - l * (q * s)
    BY <1>5
  <2>7. PICK a \in Int, b \in Int, c \in Int : a = l * (q * s) /\ b = j * s /\ c = l * (i * w)
    BY <1>5
  <2>8. a + b = i + c
    BY <2>1, <2>2, <2>3, <2>4, <2>5, <2>7
  <2>9. b = (c - a) + i
    BY ONLY <1>5, <2>8, a \in Int, b \in Int, c \in Int
  <2> QED BY <2>6, <2>7, <2>9
<1>9. (j * s) % l = i
  <2>1. PICK y \in Nat, d \in Int : y = j * s /\ d = i * w - q * s
    BY <1>5
  <2>2. y = l * d + i
    BY <1>8, <2>1
  <2>3. y % l = i
    BY ONLY l \in Nat \ {0}, y \in Nat, d \in Int, <1>5, <2>2, RemainderIs
  <2> QED BY <2>1, <2>3
<1>10. j \in Places /\ (j * Stride) % Size = i
  BY <1>1, <1>2, <1>9 DEF Places
<1> QED BY <1>10 DEF Occurrence

\* Counts that fill the table, and their sums.
Fills(n, c, K) == n \in Nat \ {0} /\ c \in [0..(n - 1) -> Nat] /\ Sums(n, c, K) /\ K[n] = Size

Inside(K, s, p) == K[s] <= p /\ p < K[s + 1]

LEMMA FillsTypes ==
  ASSUME NEW n, NEW c, NEW K, Fills(n, c, K), NEW s \in 0..(n - 1)
  PROVE  /\ n \in Nat /\ s \in 0..n /\ s + 1 \in 0..n
         /\ K[s] \in Nat /\ K[s + 1] \in Nat /\ c[s] \in Nat /\ K[s + 1] = K[s] + c[s]
         /\ K[s + 1] <= Size
<1>1. n \in Nat \ {0} BY DEF Fills
<1>2. s \in 0..n /\ s + 1 \in 1..n /\ s + 1 \in 0..n /\ (s + 1) - 1 = s BY <1>1
<1>3. K \in [0..n -> Nat] /\ c[s] \in Nat BY DEF Fills, Sums
<1>4. K[s + 1] = K[s] + c[s] BY <1>2 DEF Fills, Sums
<1>5. K[s + 1] <= K[n]
  <2>1. PICK t \in 0..n, m \in 0..n : t = s + 1 /\ m = n /\ t <= m BY <1>1, <1>2
  <2>2. K[t] <= K[m]
    <3>1. n \in Nat /\ c \in [0..(n - 1) -> Nat] /\ Sums(n, c, K) BY DEF Fills
    <3> QED BY ONLY <2>1, <3>1, t \in 0..n, m \in 0..n, SumsGrow
  <2> QED BY <2>1, <2>2
<1>6. K[n] = Size BY DEF Fills
<1> QED BY <1>1, <1>2, <1>3, <1>4, <1>5, <1>6

\* The stretches of the symbols' occurrences do not overlap.
LEMMA InsideOne ==
  ASSUME NEW n, NEW c, NEW K, Fills(n, c, K), NEW s \in 0..(n - 1), NEW t \in 0..(n - 1), NEW p \in Nat,
         Inside(K, s, p), Inside(K, t, p)
  PROVE  s = t
<1>1. ASSUME NEW i \in 0..(n - 1), NEW j \in 0..(n - 1), Inside(K, i, p), Inside(K, j, p) PROVE ~(i < j)
  <2> SUFFICES ASSUME i < j PROVE FALSE OBVIOUS
  <2>1. n \in Nat /\ i + 1 \in 0..n /\ j \in 0..n /\ K[i + 1] \in Nat /\ K[j] \in Nat
    BY FillsTypes
  <2>2. PICK m \in 0..n : m = i + 1 /\ m <= j
    BY <2>1
  <2>3. K[m] <= K[j]
    <3>1. n \in Nat /\ c \in [0..(n - 1) -> Nat] /\ Sums(n, c, K) BY DEF Fills
    <3> QED BY ONLY <2>1, <2>2, <3>1, m \in 0..n, SumsGrow
  <2>4. p < K[i + 1] /\ K[j] <= p
    BY <1>1 DEF Inside
  <2> QED BY <2>1, <2>2, <2>3, <2>4
<1>2. ~(s < t) /\ ~(t < s)
  BY <1>1
<1>3. s \in Int /\ t \in Int
  <2>1. n \in Nat BY FillsTypes
  <2> QED BY <2>1
<1> QED BY <1>2, <1>3

LEMMA SymbolAtIs ==
  ASSUME NEW n, NEW c, NEW K, Fills(n, c, K), NEW j \in Places
  PROVE  Coder!SymbolAt(K, j) \in 0..(n - 1) /\ Inside(K, Coder!SymbolAt(K, j), j)
<1>1. n \in Nat \ {0} /\ K \in [0..n -> Nat] /\ K[n] = Size /\ K[0] = 0
  BY DEF Fills, Sums
<1>2. PICK l \in Nat : l = Size /\ j \in 0..(l - 1)
  BY TansSizes DEF Places
<1> DEFINE Above == {s \in 0..n : j < K[s]}
<1>3. n \in Above
  BY <1>1, <1>2
<1>4. PICK m \in Above : \A s \in Above : m <= s
  <2>1. Above \subseteq Nat BY <1>1
  <2> HIDE DEF Above
  <2> QED BY <1>3, <2>1, LeastNatural
<1>5. m # 0 /\ m \in 0..n /\ j < K[m]
  BY <1>1, <1>2, <1>4
<1>6. PICK s \in 0..(n - 1) : s + 1 = m /\ s \in 0..n
  <2>1. PICK s \in Int : s = m - 1 BY <1>1, <1>5
  <2>2. s \in 0..(n - 1) /\ s + 1 = m /\ s \in 0..n BY <1>1, <1>5, <2>1
  <2> QED BY <2>2
<1>7. s \notin Above
  BY <1>1, <1>4, <1>6
<1>8. Inside(K, s, j)
  <2>1. K[s] \in Nat BY <1>1, <1>6
  <2>2. K[s] <= j BY <1>2, <1>6, <1>7, <2>1
  <2> QED BY <1>5, <1>6, <2>2 DEF Inside
<1>9. DOMAIN K = 0..n
  BY <1>1
<1> DEFINE Symbol(t) == t \in DOMAIN K /\ Inside(K, t, j)
<1>10. Symbol(s)
  BY <1>6, <1>8, <1>9
<1>11. Symbol(Coder!SymbolAt(K, j))
  <2>1. Coder!SymbolAt(K, j) = CHOOSE t \in DOMAIN K : K[t] <= j /\ j < K[t + 1]
    BY DEF Coder!SymbolAt
  <2>2. Symbol(CHOOSE t \in DOMAIN K : K[t] <= j /\ j < K[t + 1])
    BY <1>10 DEF Inside
  <2> QED BY <2>1, <2>2
<1>12. PICK t \in 0..n : t = Coder!SymbolAt(K, j) /\ K[t] <= j
  BY <1>9, <1>11 DEF Inside
<1>13. t # n
  BY <1>1, <1>2, <1>12
<1>14. t \in 0..(n - 1)
  BY <1>1, <1>13
<1> QED BY <1>11, <1>12, <1>14

\* What spread promises: a place's symbol is that of its occurrence.
Spreads(n, K, sp) ==
  sp \in [Places -> 0..(n - 1)] /\ \A i \in Places : Inside(K, sp[i], Occurrence(i))

LEMMA SpreadIs ==
  ASSUME NEW n, NEW c, Fills(n, c, Coder!Cumul(c))
  PROVE  Spreads(n, Coder!Cumul(c), Coder!spread(c))
<1>1. PICK K : K = Coder!Cumul(c) /\ Fills(n, c, K)
  OBVIOUS
<1>2. Coder!spread(c) = [i \in Places |-> Coder!SymbolAt(K, [k \in Places |-> Occurrence(k)][i])]
  BY <1>1 DEF Coder!spread, Occurrence, Places, Size, Stride
<1>3. ASSUME NEW i \in Places
      PROVE  /\ Coder!spread(c)[i] \in 0..(n - 1)
             /\ Inside(K, Coder!spread(c)[i], Occurrence(i))
  <2>1. PICK j \in Places : j = Occurrence(i)
    BY OccurrenceIs
  <2>2. Coder!spread(c)[i] = Coder!SymbolAt(K, j)
    BY <1>2, <2>1
  <2>3. Coder!SymbolAt(K, j) \in 0..(n - 1) /\ Inside(K, Coder!SymbolAt(K, j), j)
    BY <1>1, SymbolAtIs
  <2> QED BY <2>1, <2>2, <2>3
<1>4. Coder!spread(c) \in [Places -> 0..(n - 1)]
  <2>1. PICK f : f = Coder!spread(c) OBVIOUS
  <2>2. f = [i \in Places |-> f[i]] BY <1>2, <2>1
  <2>3. \A i \in Places : f[i] \in 0..(n - 1) BY <1>3, <2>1
  <2> QED BY <2>1, <2>2, <2>3
<1> QED BY <1>1, <1>3, <1>4 DEF Spreads

-----------------------------------------------------------------------------
(* The numbers of a symbol's places are those of its stretch.              *)

Of(sp, s, i) == {k \in 0..(i - 1) : sp[k] = s}

LEMMA RankIs == ASSUME NEW sp, NEW i PROVE Coder!Rank(sp, i) = Cardinality(Of(sp, sp[i], i))
BY CardIs DEF Coder!Rank, Of

LEMMA OfFits ==
  ASSUME NEW n, NEW c, NEW K, Fills(n, c, K), NEW sp, Spreads(n, K, sp),
         NEW s \in 0..(n - 1), NEW i \in 0..Size
  PROVE  IsFiniteSet(Of(sp, s, i)) /\ Cardinality(Of(sp, s, i)) \in Nat /\ Cardinality(Of(sp, s, i)) <= c[s]
<1>1. PICK lo \in Nat, hi \in Nat, m \in Nat : lo = K[s] /\ hi = K[s + 1] /\ m = c[s] /\ hi = lo + m
  BY FillsTypes
<1> DEFINE S == Of(sp, s, i)
           T == lo..(hi - 1)
           f == [k \in S |-> Occurrence(k)]
<1>2. \A k \in S : k \in Places /\ sp[k] = s
  BY TansSizes DEF Places, Of
<1>3. ASSUME NEW k \in S PROVE f[k] = Occurrence(k) /\ f[k] \in T /\ (f[k] * Stride) % Size = k
  <2>1. k \in Places /\ sp[k] = s
    BY <1>2
  <2>2. Inside(K, s, Occurrence(k))
    BY <2>1 DEF Spreads
  <2>3. Occurrence(k) \in Places /\ (Occurrence(k) * Stride) % Size = k
    BY <2>1, OccurrenceIs
  <2>4. Occurrence(k) \in Int
    <3>1. Size \in Nat BY TansSizes
    <3> QED BY <2>3, <3>1 DEF Places
  <2>5. Occurrence(k) \in T
    BY <1>1, <2>2, <2>4 DEF Inside
  <2> QED BY <2>3, <2>5
<1>4. f \in Injection(S, T)
  <2>1. f \in [S -> T] BY <1>3
  <2>2. ASSUME NEW k \in S, NEW j \in S, f[k] = f[j] PROVE k = j
    BY <1>3, <2>2
  <2> HIDE DEF f
  <2>3. DOMAIN f = S BY <2>1
  <2> QED BY <2>1, <2>2, <2>3 DEF Injection, IsInjective
<1>5. IsFiniteSet(T) /\ Cardinality(T) = m
  <2>1. PICK a \in Int, b \in Int : a = lo /\ b = hi - 1
    BY <1>1
  <2>2. IsFiniteSet(a..b) /\ Cardinality(a..b) = IF a > b THEN 0 ELSE b - a + 1
    BY FS_Interval
  <2>3. (IF a > b THEN 0 ELSE b - a + 1) = m
    BY <1>1, <2>1
  <2> QED BY <2>1, <2>2, <2>3
<1> HIDE DEF f, S, T
<1>6. IsFiniteSet(S) /\ Cardinality(S) <= Cardinality(T)
  BY <1>4, <1>5, FS_Injection
<1>7. Cardinality(S) \in Nat
  BY <1>6, FS_CardinalityType
<1> QED BY <1>1, <1>5, <1>6, <1>7 DEF S

\* A place of a symbol adds one to those before it.
LEMMA OfNext ==
  ASSUME NEW n, NEW c, NEW K, Fills(n, c, K), NEW sp, Spreads(n, K, sp), NEW i \in Places
  PROVE  Cardinality(Of(sp, sp[i], i + 1)) = Cardinality(Of(sp, sp[i], i)) + 1
<1>1. Size \in Nat /\ i \in 0..Size /\ i \in Nat
  BY TansSizes DEF Places
<1>2. sp[i] \in 0..(n - 1)
  BY DEF Spreads
<1>3. PICK s \in 0..(n - 1) : s = sp[i]
  BY <1>2
<1>4. IsFiniteSet(Of(sp, s, i))
  BY <1>1, OfFits
<1>5. Of(sp, s, i + 1) = Of(sp, s, i) \cup {i} /\ i \notin Of(sp, s, i)
  <2>1. 0..((i + 1) - 1) = (0..(i - 1)) \cup {i} /\ i \notin 0..(i - 1)
    BY <1>1
  <2> QED BY <1>3, <2>1 DEF Of
<1>6. Cardinality(Of(sp, s, i) \cup {i}) = Cardinality(Of(sp, s, i)) + 1
  BY <1>4, <1>5, FS_AddElement
<1> QED BY <1>3, <1>5, <1>6

LEMMA RankBelow ==
  ASSUME NEW n, NEW c, NEW K, Fills(n, c, K), NEW sp, Spreads(n, K, sp), NEW i \in Places
  PROVE  /\ sp[i] \in 0..(n - 1) /\ Coder!Rank(sp, i) \in Nat /\ c[sp[i]] \in Nat
         /\ Coder!Rank(sp, i) < c[sp[i]]
<1>1. sp[i] \in 0..(n - 1)
  BY DEF Spreads
<1>2. PICK s \in 0..(n - 1) : s = sp[i]
  BY <1>1
<1>3. PICK i0 \in 0..Size, i1 \in 0..Size : i0 = i /\ i1 = i + 1
  BY TansSizes DEF Places
<1>4. Cardinality(Of(sp, s, i0)) \in Nat /\ Cardinality(Of(sp, s, i1)) <= c[s]
  BY OfFits
<1>5. Cardinality(Of(sp, s, i1)) = Cardinality(Of(sp, s, i0)) + 1
  BY <1>2, <1>3, OfNext
<1>6. c[s] \in Nat
  BY FillsTypes
<1> QED BY <1>2, <1>3, <1>4, <1>5, <1>6, RankIs

LEMMA RankGrows ==
  ASSUME NEW n, NEW c, NEW K, Fills(n, c, K), NEW sp, Spreads(n, K, sp),
         NEW i \in Places, NEW j \in Places, sp[i] = sp[j], i < j
  PROVE  Coder!Rank(sp, i) < Coder!Rank(sp, j)
<1>1. PICK s \in 0..(n - 1) : s = sp[i] /\ s = sp[j]
  BY DEF Spreads
<1>2. PICK i1 \in 0..Size, j0 \in 0..Size, i0 \in 0..Size : i0 = i /\ i1 = i + 1 /\ j0 = j /\ i1 <= j0
  <2>1. Size \in Nat BY TansSizes
  <2> QED BY <2>1 DEF Places
<1>3. Of(sp, s, i1) \subseteq Of(sp, s, j0)
  <2>1. Size \in Nat BY TansSizes
  <2>2. 0..(i1 - 1) \subseteq 0..(j0 - 1)
    BY <1>2, <2>1
  <2> QED BY <2>2 DEF Of
<1>4. IsFiniteSet(Of(sp, s, j0)) /\ Cardinality(Of(sp, s, j0)) \in Nat
  BY OfFits
<1>5. Cardinality(Of(sp, s, i0)) \in Nat
  BY OfFits
<1>6. Cardinality(Of(sp, s, i1)) <= Cardinality(Of(sp, s, j0))
  BY <1>3, <1>4, FS_Subset
<1>7. Cardinality(Of(sp, s, i1)) = Cardinality(Of(sp, s, i0)) + 1
  BY <1>1, <1>2, OfNext
<1> QED BY <1>1, <1>2, <1>4, <1>5, <1>6, <1>7, RankIs

PlaceOf(K, sp) == [i \in Places |-> K[sp[i]] + Coder!Rank(sp, i)]

LEMMA PlaceInside ==
  ASSUME NEW n, NEW c, NEW K, Fills(n, c, K), NEW sp, Spreads(n, K, sp), NEW i \in Places
  PROVE  PlaceOf(K, sp)[i] \in Places /\ Inside(K, sp[i], PlaceOf(K, sp)[i])
<1>1. PICK s \in 0..(n - 1), r \in Nat, m \in Nat : s = sp[i] /\ r = Coder!Rank(sp, i) /\ m = c[s] /\ r < m
  <2>1. /\ sp[i] \in 0..(n - 1) /\ Coder!Rank(sp, i) \in Nat /\ c[sp[i]] \in Nat
        /\ Coder!Rank(sp, i) < c[sp[i]]
    BY RankBelow
  <2>2. PICK s \in 0..(n - 1) : s = sp[i] BY <2>1
  <2>3. PICK r \in Nat, m \in Nat : r = Coder!Rank(sp, i) /\ m = c[s] /\ r < m BY <2>1, <2>2
  <2> QED BY <2>2, <2>3
<1>2. PICK lo \in Nat, hi \in Nat : lo = K[s] /\ hi = K[s + 1] /\ hi = lo + m /\ hi <= Size
  BY <1>1, FillsTypes
<1>3. PlaceOf(K, sp)[i] = lo + r
  BY <1>1, <1>2 DEF PlaceOf
<1>4. lo + r \in Places
  <2>1. Size \in Nat BY TansSizes
  <2> QED BY <1>1, <1>2, <2>1 DEF Places
<1> QED BY <1>1, <1>2, <1>3, <1>4 DEF Inside

PlacedAt(f, p) == CHOOSE k \in Places : f[k] = p

\* Every place of the state table is one occurrence's, of the symbol whose stretch it is in.
LEMMA PlaceFound ==
  ASSUME NEW n, NEW c, NEW K, Fills(n, c, K), NEW sp, Spreads(n, K, sp),
         NEW p \in Places, NEW s \in 0..(n - 1), Inside(K, s, p),
         NEW i, i = PlacedAt(PlaceOf(K, sp), p)
  PROVE  i \in Places /\ sp[i] = s /\ p = K[s] + Coder!Rank(sp, i)
<1> DEFINE f == PlaceOf(K, sp)
<1>1. f \in [Places -> Places]
  <2>1. \A k \in Places : f[k] \in Places BY PlaceInside
  <2>2. f = [k \in Places |-> f[k]] BY DEF PlaceOf
  <2> HIDE DEF f
  <2> QED BY <2>1, <2>2
<1>2. \A k \in Places : k \in Nat
  BY TansSizes DEF Places
<1>3. ASSUME NEW k \in Places, NEW j \in Places, f[k] = f[j] PROVE k = j
  <2>1. PICK x \in Nat, a \in 0..(n - 1), b \in 0..(n - 1) :
          x = f[k] /\ a = sp[k] /\ b = sp[j]
    <3>1. PICK x \in Nat : x = f[k] BY <1>1, <1>2
    <3>2. PICK a \in 0..(n - 1), b \in 0..(n - 1) : a = sp[k] /\ b = sp[j] BY DEF Spreads
    <3> QED BY <3>1, <3>2
  <2>2. Inside(K, a, x) /\ Inside(K, b, x)
    BY <1>3, <2>1, PlaceInside
  <2>3. a = b
    BY <2>2, InsideOne
  <2>4. PICK y \in Nat, z \in Nat : y = Coder!Rank(sp, k) /\ z = Coder!Rank(sp, j)
    <3>1. Coder!Rank(sp, k) \in Nat /\ Coder!Rank(sp, j) \in Nat BY RankBelow
    <3> QED BY <3>1
  <2>5. PICK lo \in Nat : lo = K[a]
    BY FillsTypes
  <2>6. x = lo + y /\ x = lo + z
    BY <1>3, <2>1, <2>3, <2>4, <2>5 DEF PlaceOf
  <2>7. y = z
    BY ONLY <2>6, lo \in Nat, y \in Nat, z \in Nat
  <2>8. ~(k < j) /\ ~(j < k)
    <3>1. k < j => y < z BY <2>1, <2>3, <2>4, RankGrows
    <3>2. j < k => z < y BY <2>1, <2>3, <2>4, RankGrows
    <3> QED BY <2>7, <3>1, <3>2
  <2> QED BY <1>2, <2>8
<1> HIDE DEF f
<1>4. f \in Injection(Places, Places)
  <2>1. DOMAIN f = Places BY <1>1
  <2> QED BY <1>1, <1>3, <2>1 DEF Injection, IsInjective
<1>5. IsFiniteSet(Places)
  <2>1. PICK a \in Int, b \in Int : a = 0 /\ b = Size - 1 BY TansSizes
  <2>2. IsFiniteSet(a..b) BY FS_Interval
  <2> QED BY <2>1, <2>2 DEF Places
<1>6. f \in Surjection(Places, Places)
  BY <1>4, <1>5, FS_Injection
<1>7. \E k \in Places : f[k] = p
  BY <1>6 DEF Surjection
<1>8. i \in Places /\ f[i] = p
  BY <1>7 DEF f, PlacedAt
<1>9. PICK t \in 0..(n - 1) : t = sp[i]
  BY <1>8 DEF Spreads
<1>10. Inside(K, t, p)
  BY <1>8, <1>9, PlaceInside DEF f
<1>11. t = s
  <2>1. p \in Nat BY <1>2
  <2> QED BY <1>10, <2>1, InsideOne
<1> QED BY <1>8, <1>9, <1>11 DEF f, PlaceOf

-----------------------------------------------------------------------------
(* A step's bits.                                                          *)

IsLog(k, x) == k \in 0..TL /\ P2[k] <= x /\ x < 2 * P2[k]

LEMMA OneLog ==
  ASSUME NEW x \in Nat, NEW j \in 0..TL, NEW k \in 0..TL, IsLog(j, x), IsLog(k, x)
  PROVE  j = k
<1>1. ASSUME NEW a \in 0..TL, NEW b \in 0..TL, IsLog(a, x), IsLog(b, x) PROVE ~(a < b)
  <2> SUFFICES ASSUME a < b PROVE FALSE OBVIOUS
  <2>1. PICK m \in 0..31, m1 \in 0..32, b1 \in 0..32 : m = a /\ m1 = a + 1 /\ b1 = b /\ m1 <= b1 /\ m \in 0..32
    <3>1. TL \in Int /\ TL <= 15 BY TansSizes
    <3>2. PICK m \in 0..31 : m = a BY <3>1
    <3>3. PICK m1 \in 0..32, b1 \in 0..32 : m1 = a + 1 /\ b1 = b BY <3>1
    <3>4. m1 <= b1 /\ m \in 0..32 BY <3>1, <3>2, <3>3
    <3> QED BY <3>2, <3>3, <3>4
  <2>2. P2[m1] = 2 * P2[m] /\ P2[m1] <= P2[b1] /\ P2[m] \in Nat /\ P2[m1] \in Nat /\ P2[b1] \in Nat
    <3>1. P2[m + 1] = 2 * P2[m] BY P2Step
    <3>2. P2[m1] <= P2[b1] BY <2>1, PowersGrow
    <3>3. P2[m] \in Nat /\ P2[m1] \in Nat /\ P2[b1] \in Nat BY <2>1, P2Type
    <3> QED BY <2>1, <3>1, <3>2, <3>3
  <2>3. x < 2 * P2[m] /\ P2[b1] <= x
    BY <1>1, <2>1 DEF IsLog
  <2> QED BY <2>2, <2>3
<1>2. ~(j < k) /\ ~(k < j)
  BY <1>1
<1>3. j \in Int /\ k \in Int
  BY TansSizes
<1> QED BY <1>2, <1>3

LEMMA HighbitIs ==
  ASSUME NEW x \in Nat, 1 <= x, x < 2 * Size
  PROVE  Coder!highbit(x) \in 0..TL /\ IsLog(Coder!highbit(x), x)
<1>1. PICK m \in 0..31, n \in 0..32, l \in Nat : m = TL /\ n = m + 1 /\ l = Size /\ l = P2[m] /\ m <= 15
  BY TansSizes
<1>2. P2[n] = 2 * l
  <2>1. P2[m + 1] = 2 * P2[m] BY P2Step
  <2> QED BY <1>1, <2>1
<1>3. x < P2[30]
  <2>1. PICK t \in 0..32 : t = 30 OBVIOUS
  <2>2. P2[n] <= P2[t] /\ P2[t] \in Nat BY <1>1, <2>1, PowersGrow, P2Type
  <2> QED BY <1>1, <1>2, <2>1, <2>2
<1>4. PICK k \in 0..29 : P2[k] <= x /\ x < 2 * P2[k]
  BY <1>3, BetweenPowers
<1>5. k \in 0..32 /\ P2[k] \in Nat
  <2>1. k \in 0..32 OBVIOUS
  <2> QED BY <2>1, P2Type
<1>6. k <= m
  <2> SUFFICES ASSUME n <= k PROVE FALSE BY <1>1
  <2>1. P2[n] <= P2[k] BY <1>5, PowersGrow
  <2> QED BY <1>1, <1>2, <1>4, <1>5, <2>1
<1>7. k \in 0..TL /\ IsLog(k, x)
  BY <1>1, <1>4, <1>6 DEF IsLog
<1> DEFINE Is(j) == 2^j <= x /\ x < 2^(j + 1)
<1>8. ASSUME NEW j \in 0..TL PROVE Is(j) <=> IsLog(j, x)
  <2>1. PICK i \in 0..31, i1 \in 0..32 : i = j /\ i1 = j + 1 /\ i \in 0..32
    BY <1>1
  <2>2. 2^i = P2[i] /\ 2^i1 = P2[i1] /\ P2[i + 1] = 2 * P2[i]
    BY <2>1, P2Is, P2Step
  <2>3. 2^j = P2[j] /\ 2^(j + 1) = 2 * P2[j]
    BY <2>1, <2>2
  <2> QED BY <2>3 DEF IsLog
<1>9. \E j \in 0..TL : Is(j)
  BY <1>7, <1>8
<1>10. Coder!highbit(x) = CHOOSE j \in 0..TL : Is(j)
  BY DEF Coder!highbit
<1> HIDE DEF Is
<1>11. Coder!highbit(x) \in 0..TL /\ Is(Coder!highbit(x))
  BY <1>9, <1>10
<1> QED BY <1>8, <1>11

LEMMA HighbitOnly ==
  ASSUME NEW x \in Nat, 1 <= x, x < 2 * Size, NEW k \in 0..TL, IsLog(k, x)
  PROVE  Coder!highbit(x) = k
<1>1. PICK j \in 0..TL : j = Coder!highbit(x) /\ IsLog(j, x)
  BY HighbitIs
<1> QED BY <1>1, OneLog

\* A word that wrapped is itself again once what it lacked is added.
LEMMA Wrapped ==
  ASSUME NEW w \in Nat \ {0}, NEW x \in Int, NEW y \in Nat, 0 <= y + x, y + x < w
  PROVE  (y + (x % w)) % w = y + x
<1>1. x \div w \in Int /\ x % w \in 0..(w - 1) /\ x = w * (x \div w) + (x % w)
  OBVIOUS
<1>2. PICK q \in Int, r \in 0..(w - 1) : q = x \div w /\ r = x % w
  BY <1>1
<1>3. x = w * q + r
  BY <1>1, <1>2
<1>4. PICK z \in Nat, v \in 0..(w - 1), p \in Int : z = y + r /\ v = y + x /\ p = -q
  OBVIOUS
<1>5. z = w * p + v
  <2>1. w * p = -(w * q) BY <1>4
  <2>2. PICK d \in Int : d = w * q OBVIOUS
  <2> QED BY <1>3, <1>4, <2>1, <2>2
<1>6. z % w = v
  BY ONLY w \in Nat \ {0}, z \in Nat, v \in 0..(w - 1), p \in Int, <1>5, RemainderIs
<1> QED BY <1>2, <1>4, <1>6

\* The number of bits: b, or one less of a state below e.
BitsNumber(H, w, b, e, st) ==
  ((st + ((b * H - e) % w)) % w) \div H = IF e <= st THEN b ELSE b - 1

LEMMA NumberOfBits ==
  ASSUME NEW H \in Nat \ {0}, NEW w \in Nat \ {0}, w = H * H, NEW b \in Nat, b + 1 <= H,
         NEW e \in Nat, NEW st \in Nat, e - st < H, st - e < H, b = 0 => e <= st
  PROVE  BitsNumber(H, w, b, e, st)
<1>1. PICK u \in Nat, x \in Int : u = b * H /\ x = u - e
  OBVIOUS
<1>2. u + H <= w
  <2>1. H * (b + 1) <= H * H BY TimesMonotone
  <2>2. H * (b + 1) = b * H + H OBVIOUS
  <2> QED BY <1>1, <2>1, <2>2
<1>3. b # 0 => H <= u
  <2> SUFFICES ASSUME b # 0 PROVE H <= u OBVIOUS
  <2>1. H * 1 <= H * b BY TimesMonotone
  <2>2. H * 1 = H /\ H * b = b * H OBVIOUS
  <2> QED BY <1>1, <2>1, <2>2
<1>4. 0 <= st + x /\ st + x < w
  BY <1>1, <1>2, <1>3
<1>5. (st + (x % w)) % w = st + x
  BY <1>4, Wrapped
<1>6. PICK v \in Nat : v = st + x
  BY <1>4
<1>7. CASE e <= st
  <2>1. PICK r \in 0..(H - 1) : r = st - e
    BY <1>7
  <2>2. v = H * b + r
    <3>1. H * b = u BY <1>1
    <3> QED BY <1>1, <1>6, <2>1, <3>1
  <2>3. v \div H = b
    BY <2>2, RemainderIs
  <2> QED BY <1>1, <1>5, <1>6, <1>7, <2>3 DEF BitsNumber
<1>8. CASE ~(e <= st)
  <2>1. PICK r \in 0..(H - 1), q \in Int : r = H + st - e /\ q = b - 1
    BY <1>8
  <2>2. v = H * q + r
    <3>1. H * q = u - H BY <1>1, <2>1
    <3> QED BY <1>1, <1>6, <2>1, <3>1
  <2>3. v \div H = q
    BY <2>2, RemainderIs
  <2> QED BY <1>1, <1>5, <1>6, <1>8, <2>1, <2>3 DEF BitsNumber
<1> QED BY <1>7, <1>8

\* What a step takes of a state, and leaves between c and twice c.
Taken(c, st, n) ==
  /\ n \in 0..TL
  /\ c <= st \div P2[n] /\ st \div P2[n] < 2 * c
  /\ Coder!highbit(st \div P2[n]) = TL - n

LEMMA BitsTaken ==
  ASSUME NEW c \in Nat, 1 <= c, c <= Size, NEW st \in Nat, Size <= st, st < 2 * Size,
         NEW b \in 0..TL, b = TL - Coder!highbit(c), NEW p \in Nat \ {0}, p = P2[b],
         NEW n, n = IF c * p <= st THEN b ELSE b - 1
  PROVE  /\ Taken(c, st, n)
         /\ Size <= c * p /\ c * p < 2 * Size /\ (b = 0 => c * p <= st)
<1>1. PICK l \in Nat, k \in 0..TL : l = Size /\ l > 0 /\ l = P2[TL] /\ k = Coder!highbit(c) /\ IsLog(k, c)
  <2>1. c < 2 * Size /\ Size \in Nat /\ Size > 0 /\ Size = P2[TL] BY TansSizes
  <2> QED BY <2>1, HighbitIs
<1>2. TL \in Int /\ 4 <= TL /\ TL <= 15
  BY TansSizes
<1>3. k + b = TL /\ k \in 0..32 /\ b \in 0..32 /\ k <= 15
  BY <1>1, <1>2
<1>4. PICK q \in Nat \ {0} : q = P2[k]
  BY <1>3, P2Type
<1>5. l = q * p
  <2>1. P2[k + b] = P2[k] * P2[b]
    <3>1. k + b <= 32 BY <1>2, <1>3
    <3> QED BY <1>3, <3>1, P2Sum
  <2> QED BY <1>1, <1>3, <1>4, <2>1
<1>6. q <= c /\ c < 2 * q
  BY <1>1, <1>4 DEF IsLog
<1>7. l <= c * p /\ c * p < 2 * l
  <2>1. p * q <= p * c BY <1>6, TimesMonotone
  <2>2. p * (c + 1) <= p * (2 * q) BY <1>6, TimesMonotone
  <2>3. PICK u \in Nat, v \in Nat : u = p * q /\ v = p * c OBVIOUS
  <2>4. p * (c + 1) = v + p /\ p * (2 * q) = 2 * u /\ q * p = u /\ c * p = v
    BY <2>3
  <2> QED BY <1>5, <2>1, <2>2, <2>3, <2>4
<1>8. b = 0 => c * p <= st
  <2> SUFFICES ASSUME b = 0 PROVE c * p <= st OBVIOUS
  <2>1. p = 1
    <3>1. P2[0] = 1 BY P2Values, SMT
    <3> QED BY <3>1
  <2>2. c * p = c
    BY <2>1
  <2>3. c <= l /\ l <= st
    BY <1>1
  <2> QED BY <2>2, <2>3
<1>9. CASE c * p <= st
  <2>1. PICK y \in Nat, r \in 0..(p - 1) : st = p * y + r /\ y = st \div p
    BY Divides
  <2>2. c <= y
    <3> SUFFICES ASSUME y + 1 <= c PROVE FALSE OBVIOUS
    <3>1. p * (y + 1) <= p * c BY TimesMonotone
    <3>2. p * (y + 1) = p * y + p /\ p * c = c * p OBVIOUS
    <3>3. PICK u \in Nat, v \in Nat : u = p * y /\ v = c * p OBVIOUS
    <3>4. v <= u + r /\ u + p <= v BY <1>9, <2>1, <3>1, <3>2, <3>3
    <3> QED BY ONLY <3>4, u \in Nat, v \in Nat, p \in Nat \ {0}, r \in 0..(p - 1)
  <2>3. y < 2 * q
    <3> SUFFICES ASSUME 2 * q <= y PROVE FALSE OBVIOUS
    <3>1. p * (2 * q) <= p * y BY TimesMonotone
    <3>2. p * (2 * q) = 2 * (q * p) OBVIOUS
    <3>3. PICK u \in Nat : u = p * y OBVIOUS
    <3>4. 2 * l <= u /\ u <= st BY <1>5, <2>1, <3>1, <3>2, <3>3
    <3> QED BY <1>1, <3>4
  <2>4. y < 2 * c
    BY <1>6, <2>3
  <2>5. IsLog(k, y)
    BY <1>4, <1>6, <2>2, <2>3 DEF IsLog
  <2>6. Coder!highbit(y) = k
    <3>1. 1 <= y /\ y < 2 * Size BY <1>1, <2>2, <2>4
    <3> QED BY <2>5, <3>1, HighbitOnly
  <2>7. n = b /\ TL - n = k
    BY <1>3, <1>9
  <2> QED BY <1>1, <1>7, <1>8, <2>1, <2>2, <2>4, <2>6, <2>7 DEF Taken
<1>10. CASE ~(c * p <= st)
  <2>1. b # 0 /\ n = b - 1
    BY <1>8, <1>10
  <2>2. PICK m \in 0..31, k1 \in 0..TL : m = b - 1 /\ m + 1 = b /\ m \in 0..TL /\ m \in 0..32 /\ k1 = k + 1 /\ TL - m = k1
    <3>1. b \in Int /\ 1 <= b /\ b <= TL BY <1>2, <2>1
    <3>2. PICK m \in Int : m = b - 1 BY <3>1
    <3>3. m \in 0..31 /\ m + 1 = b /\ m \in 0..TL /\ m \in 0..32 BY <1>2, <3>1, <3>2
    <3>4. PICK k1 \in 0..TL : k1 = k + 1 BY <1>2, <1>3, <3>1
    <3>5. TL - m = k1 BY <1>2, <1>3, <3>1, <3>2, <3>4
    <3> QED BY <3>2, <3>3, <3>4, <3>5
  <2>3. PICK d \in Nat \ {0} : d = P2[m] /\ p = 2 * d
    <3>1. P2[m + 1] = 2 * P2[m] /\ P2[m] \in Nat \ {0} BY <2>2, P2Step, P2Type
    <3> QED BY <2>2, <3>1
  <2>4. PICK y \in Nat, r \in 0..(d - 1) : st = d * y + r /\ y = st \div d
    BY Divides
  <2>5. y < 2 * c
    <3> SUFFICES ASSUME 2 * c <= y PROVE FALSE OBVIOUS
    <3>1. d * (2 * c) <= d * y BY TimesMonotone
    <3>2. d * (2 * c) = c * p BY <2>3
    <3>3. PICK u \in Nat, v \in Nat : u = d * y /\ v = c * p
      BY ONLY d \in Nat \ {0}, y \in Nat, c \in Nat, p \in Nat \ {0}
    <3>4. v <= u /\ u + r = st BY <2>4, <3>1, <3>2, <3>3
    <3> QED BY <1>10, <3>3, <3>4
  <2>6. 2 * q <= y
    <3> SUFFICES ASSUME y + 1 <= 2 * q PROVE FALSE OBVIOUS
    <3>1. d * (y + 1) <= d * (2 * q) BY TimesMonotone
    <3>2. d * (2 * q) = q * p /\ d * (y + 1) = d * y + d BY <2>3
    <3>3. PICK u \in Nat : u = d * y OBVIOUS
    <3>4. u + d <= l /\ l <= u + r BY <1>1, <1>5, <2>4, <3>1, <3>2, <3>3
    <3> QED BY ONLY <3>4, u \in Nat, l \in Nat, d \in Nat \ {0}, r \in 0..(d - 1)
  <2>7. P2[k1] = 2 * q
    <3>1. PICK k0 \in 0..31 : k0 = k /\ k1 = k0 + 1 BY <1>3, <2>2
    <3>2. P2[k0 + 1] = 2 * P2[k0] BY P2Step
    <3> QED BY <1>4, <3>1, <3>2
  <2>8. IsLog(k1, y)
    BY <1>6, <2>5, <2>6, <2>7 DEF IsLog
  <2>9. Coder!highbit(y) = k1
    <3>1. 1 <= y /\ y < 2 * Size BY <1>1, <1>6, <2>5, <2>6
    <3> QED BY <2>8, <3>1, HighbitOnly
  <2>10. c <= y
    BY <1>6, <2>6
  <2> QED BY <1>1, <1>7, <1>8, <2>1, <2>2, <2>3, <2>4, <2>5, <2>9, <2>10 DEF Taken
<1> QED BY <1>9, <1>10

-----------------------------------------------------------------------------
(* A step of the encoder and the decoder's entry for its state.            *)

LEMMA WordIs ==
  /\ 2^HALF = P2[HALF] /\ P2[HALF] \in Nat \ {0} /\ Coder!Word = P2[HALF] * P2[HALF]
  /\ 2 * Size <= P2[HALF] /\ TL + 1 <= P2[HALF]
<1>1. PICK h \in 0..32, d \in 0..32, t \in 0..31, t1 \in 0..32 :
        h = HALF /\ d = h + h /\ t = TL /\ t1 = t + 1 /\ t1 <= h /\ t <= 15
  <2>1. HALF \in 1..16 /\ TL \in 4..15 /\ TL < HALF BY TansSizes
  <2>2. PICK h \in 0..32, d \in 0..32 : h = HALF /\ d = h + h BY <2>1
  <2>3. PICK t \in 0..31, t1 \in 0..32 : t = TL /\ t1 = t + 1 BY <2>1
  <2>4. t1 <= h /\ t <= 15 BY <2>1, <2>2, <2>3
  <2> QED BY <2>2, <2>3, <2>4
<1>2. 2^h = P2[h] /\ 2^d = P2[d] /\ P2[h] \in Nat \ {0}
  BY P2Is, P2Type
<1>3. P2[d] = P2[h] * P2[h]
  <2>1. h + h <= 32 BY <1>1
  <2>2. P2[h + h] = P2[h] * P2[h] BY <2>1, P2Sum
  <2> QED BY <1>1, <2>2
<1>4. Coder!Word = P2[d]
  <2>1. 2 * HALF = d BY <1>1
  <2> QED BY <1>2, <2>1 DEF Coder!Word
<1>5. P2[t1] = 2 * Size /\ P2[t1] <= P2[h] /\ Size \in Nat /\ 16 <= Size
  <2>1. P2[t + 1] = 2 * P2[t] BY P2Step
  <2>2. P2[t1] <= P2[h] BY <1>1, PowersGrow
  <2>3. Size = P2[TL] /\ Size \in Nat /\ 16 <= Size BY TansSizes
  <2> QED BY <1>1, <2>1, <2>2, <2>3
<1> QED BY <1>1, <1>2, <1>3, <1>4, <1>5

\* The entry of a symbol, of count m and first occurrence first.
Entry(e, m, first) ==
  LET b == TL - Coder!highbit(m)
  IN  /\ e.nbits = (b * P2[HALF] - m * P2[b]) % Coder!Word
      /\ e.find = (first - m) % Coder!Word

LEMMA EntryIs ==
  ASSUME NEW n, NEW c, Fills(n, c, Coder!Cumul(c)), NEW s \in 0..(n - 1), c[s] > 0, c[s] <= Size,
         NEW sp
  PROVE  Entry(Coder!build(c, sp).sym[s], c[s], Coder!Cumul(c)[s])
<1>1. DOMAIN c = 0..(n - 1) /\ c[s] \in Nat
  BY DEF Fills
<1>2. PICK m \in Nat : m = c[s] /\ 1 <= m /\ m <= Size
  BY <1>1
<1>3. Coder!highbit(m) \in 0..TL
  <2>1. m < 2 * Size BY <1>2, TansSizes
  <2> QED BY <1>2, <2>1, HighbitIs
<1>4. PICK b \in 0..32 : b = TL - Coder!highbit(c[s])
  <2>1. TL \in Int /\ TL <= 15 BY TansSizes
  <2> QED BY <1>2, <1>3, <2>1
<1>5. 2^b = P2[b] /\ 2^HALF = P2[HALF]
  BY P2Is, WordIs
<1>6. s \in {t \in DOMAIN c : c[t] > 0}
  BY <1>1
<1>7. Coder!build(c, sp).sym[s] =
        [nbits |-> ((TL - Coder!highbit(c[s])) * 2^HALF - c[s] * 2^(TL - Coder!highbit(c[s]))) % Coder!Word,
         find |-> (Coder!Cumul(c)[s] - c[s]) % Coder!Word]
  BY <1>6 DEF Coder!build
<1> QED BY <1>4, <1>5, <1>7 DEF Entry

LEMMA StateTableIs ==
  ASSUME NEW c, NEW sp, NEW p \in Places
  PROVE  Coder!build(c, sp).state_table[p] =
           Size + PlacedAt(PlaceOf(Coder!Cumul(c), sp), p)
<1>1. Coder!build(c, sp).state_table =
        [q \in Places |-> Size + PlacedAt(PlaceOf(Coder!Cumul(c), sp), q)]
  BY DEF Coder!build, Places, PlaceOf, PlacedAt, Size
<1> QED BY <1>1

LEMMA DecodedIs ==
  ASSUME NEW c, NEW sp, NEW i \in Places, NEW x \in Nat, x = c[sp[i]] + Coder!Rank(sp, i),
         NEW b \in 0..32, b = TL - Coder!highbit(x), NEW d, d = Coder!rebuild(c, sp)[i]
  PROVE  d.sym = sp[i] /\ d.nbits = b /\ d.base = x * P2[b] - Size
<1>1. Coder!rebuild(c, sp) =
        [k \in Places |->
           [sym |-> sp[k], nbits |-> TL - Coder!highbit(c[sp[k]] + Coder!Rank(sp, k)),
            base |-> (c[sp[k]] + Coder!Rank(sp, k)) * 2^(TL - Coder!highbit(c[sp[k]] + Coder!Rank(sp, k))) - Size]]
  BY DEF Coder!rebuild, Places, Size
<1>2. d = [sym |-> sp[i], nbits |-> b, base |-> x * 2^b - Size]
  BY <1>1
<1>3. 2^b = P2[b]
  BY P2Is
<1> QED BY <1>2, <1>3

\* The step's chunk, and the entry that gives the state it was made of.
Steps(sp, dec, s, st, e) ==
  /\ e.nbits \in 0..TL /\ e.bits \in Nat /\ e.bits < P2[e.nbits]
  /\ e.state \in Nat /\ Size <= e.state /\ e.state < 2 * Size
  /\ dec[e.state - Size].sym = s /\ dec[e.state - Size].nbits = e.nbits
  /\ dec[e.state - Size].base \in Int /\ dec[e.state - Size].base + e.bits = st - Size

LEMMA StepDecodes ==
  ASSUME NEW n, NEW c, Fills(n, c, Coder!Cumul(c)), NEW s \in 0..(n - 1), c[s] > 0,
         NEW sp, sp = Coder!spread(c), NEW st \in Nat, Size <= st, st < 2 * Size,
         NEW e, e = Coder!step(Coder!build(c, sp), st, s)
  PROVE  Steps(sp, Coder!rebuild(c, sp), s, st, e)
<1> DEFINE enc == Coder!build(c, sp)
           dec == Coder!rebuild(c, sp)
<1>1. PICK K : K = Coder!Cumul(c) /\ Fills(n, c, K) /\ Spreads(n, K, sp)
  BY SpreadIs
<1>2. PICK l \in Nat, H \in Nat \ {0}, w \in Nat \ {0} :
        /\ l = Size /\ H = P2[HALF] /\ w = Coder!Word /\ w = H * H /\ 2 * l <= H /\ TL + 1 <= H /\ H <= w
  <2>1. PICK l \in Nat, H \in Nat \ {0} : l = Size /\ H = P2[HALF] BY TansSizes, WordIs
  <2>2. PICK w \in Nat \ {0} : w = H * H OBVIOUS
  <2>3. H <= w
    <3>1. H * 1 <= H * H BY TimesMonotone
    <3> QED BY <2>2, <3>1
  <2>4. w = Coder!Word /\ 2 * l <= H /\ TL + 1 <= H BY <2>1, <2>2, WordIs
  <2> QED BY <2>1, <2>2, <2>3, <2>4
<1>3. PICK m \in Nat, first \in Nat : m = c[s] /\ first = K[s] /\ 1 <= m /\ first + m <= l /\ K[s + 1] = first + m
  <2>1. K[s] \in Nat /\ c[s] \in Nat /\ K[s + 1] = K[s] + c[s] /\ K[s + 1] <= Size BY <1>1, FillsTypes
  <2>2. PICK m \in Nat, first \in Nat : m = c[s] /\ first = K[s] BY <2>1
  <2> QED BY <1>2, <2>1, <2>2
<1>4. TL \in Int /\ 4 <= TL /\ TL <= 15
  BY TansSizes
<1>5. PICK b \in 0..TL : b = TL - Coder!highbit(m)
  <2>1. m < 2 * Size BY <1>2, <1>3
  <2>2. Coder!highbit(m) \in 0..TL BY <1>3, <2>1, HighbitIs
  <2> QED BY <1>4, <2>2
<1>6. PICK p \in Nat \ {0} : p = P2[b]
  <2>1. b \in 0..32 BY <1>4
  <2> QED BY <2>1, P2Type
<1>7. PICK nb : nb = IF m * p <= st THEN b ELSE b - 1
  OBVIOUS
<1>8. Taken(m, st, nb) /\ l <= m * p /\ m * p < 2 * l /\ (b = 0 => m * p <= st)
  <2>1. m <= Size BY <1>2, <1>3
  <2> QED BY <1>2, <1>3, <1>5, <1>6, <1>7, <2>1, BitsTaken
<1>9. Entry(enc.sym[s], m, first)
  <2>1. c[s] <= Size BY <1>2, <1>3
  <2> QED BY <1>1, <1>3, <2>1, EntryIs
<1>10. enc.sym[s].nbits = (b * H - m * p) % w /\ enc.sym[s].find = (first - m) % w
  BY <1>2, <1>5, <1>6, <1>9 DEF Entry
<1>11. ((st + enc.sym[s].nbits) % w) \div H = nb
  <2>1. PICK g \in Nat : g = m * p OBVIOUS
  <2>2. b \in Nat /\ b + 1 <= H BY <1>2, <1>4
  <2>3. g - st < H /\ st - g < H /\ (b = 0 => g <= st) BY <1>2, <1>8, <2>1
  <2>4. BitsNumber(H, w, b, g, st)
    BY ONLY <1>2, <2>2, <2>3, st \in Nat, g \in Nat, H \in Nat \ {0}, w \in Nat \ {0}, NumberOfBits
  <2> QED BY <1>7, <1>10, <2>1, <2>4 DEF BitsNumber
<1>12. PICK k \in 0..32, q \in Nat \ {0} : k = nb /\ k \in 0..TL /\ q = P2[k] /\ 2^nb = q
  <2>1. nb \in 0..TL BY <1>8 DEF Taken
  <2>2. PICK k \in 0..32 : k = nb BY <1>4, <2>1
  <2> QED BY <2>1, <2>2, P2Is, P2Type
<1>13. PICK y \in Nat, r \in 0..(q - 1) : y = st \div q /\ r = st % q /\ st = q * y + r
  <2>1. st \div q \in Nat /\ st % q \in 0..(q - 1) /\ st = q * (st \div q) + (st % q)
    BY Divides
  <2>2. PICK y \in Nat, r \in 0..(q - 1) : y = st \div q /\ r = st % q
    BY <2>1
  <2> QED BY <2>1, <2>2
<1>14. m <= y /\ y < 2 * m /\ Coder!highbit(y) = TL - k
  BY <1>8, <1>12, <1>13 DEF Taken
<1>15. PICK j \in Nat : j = first + (y - m) /\ j \in Places /\ Inside(K, s, j)
  <2>1. PICK j \in Nat : j = first + (y - m) BY <1>14
  <2>2. first <= j /\ j < first + m /\ j < l BY <1>3, <1>14, <2>1
  <2>3. j \in Places BY <1>2, <2>2 DEF Places
  <2> QED BY <1>3, <2>1, <2>2, <2>3 DEF Inside
<1>16. (y + enc.sym[s].find) % w = j
  <2>1. PICK x \in Int : x = first - m OBVIOUS
  <2>2. 0 <= y + x /\ y + x < w BY <1>2, <1>3, <1>14, <2>1
  <2>3. (y + (x % w)) % w = y + x BY <2>2, Wrapped
  <2> QED BY <1>10, <1>15, <2>1, <2>3
<1>17. e = [bits |-> r, nbits |-> k, state |-> enc.state_table[j]]
  <2>1. e = [bits |-> st % 2^nb, nbits |-> nb,
             state |-> enc.state_table[((st \div 2^nb) + enc.sym[s].find) % w]]
    BY <1>2, <1>11, WordIs DEF Coder!step
  <2> QED BY <1>12, <1>13, <1>16, <2>1
<1>18. PICK i : i = PlacedAt(PlaceOf(K, sp), j)
  OBVIOUS
<1>19. i \in Places /\ sp[i] = s /\ j = K[s] + Coder!Rank(sp, i)
  BY <1>1, <1>15, <1>18, PlaceFound
<1>20. PICK g \in Nat : g = i /\ g < l
  BY <1>2, <1>19 DEF Places
<1>21. enc.state_table[j] = l + g
  <2>1. enc.state_table[j] = Size + PlacedAt(PlaceOf(K, sp), j)
    BY <1>1, <1>15, StateTableIs
  <2> QED BY <1>2, <1>18, <1>20, <2>1
<1>22. y = c[sp[i]] + Coder!Rank(sp, i)
  <2>1. Coder!Rank(sp, i) \in Nat BY <1>1, <1>19, RankBelow
  <2>2. PICK x \in Nat : x = Coder!Rank(sp, i) BY <2>1
  <2>3. j = first + x /\ j = first + (y - m) BY <1>3, <1>15, <1>19, <2>2
  <2>4. y = m + x BY ONLY <2>3, first \in Nat, x \in Nat, y \in Nat, m \in Nat, j \in Nat
  <2> QED BY <1>3, <1>19, <2>2, <2>4
<1>23. k = TL - Coder!highbit(y)
  BY <1>4, <1>14
<1>24. dec[i].sym = s /\ dec[i].nbits = k /\ dec[i].base = y * q - l
  BY <1>2, <1>12, <1>19, <1>22, <1>23, DecodedIs
<1>25. y * q - l + r = st - l
  <2>1. PICK u \in Nat : u = q * y OBVIOUS
  <2>2. y * q = u BY <2>1
  <2> QED BY <1>13, <2>1, <2>2
<1>26. (l + g) - l = i
  BY <1>20
<1>27. y * q - l \in Int
  OBVIOUS
<1> HIDE DEF enc, dec
<1>28. e.nbits = k /\ e.bits = r /\ e.state = l + g /\ e.state - Size = i
  BY <1>2, <1>17, <1>21, <1>26
<1>29. Steps(sp, dec, s, st, e)
  <2>1. e.nbits \in 0..TL /\ e.bits \in Nat /\ e.bits < P2[e.nbits]
    BY <1>12, <1>28
  <2>2. e.state \in Nat /\ Size <= e.state /\ e.state < 2 * Size
    BY <1>2, <1>20, <1>28
  <2>3. dec[e.state - Size].base \in Int /\ dec[e.state - Size].base + e.bits = st - Size
    BY <1>2, <1>24, <1>25, <1>27, <1>28
  <2> QED BY <1>24, <1>28, <2>1, <2>2, <2>3 DEF Steps
<1> QED BY <1>29 DEF dec

-----------------------------------------------------------------------------
(* The encoder's pass, from the last symbol to the first.                  *)

Pass0 == [state |-> Size, chunks |-> <<>>]
OneMore(t, x, s) ==
  LET c == Coder!step(t, x.state, s)
  IN  [state |-> c.state, chunks |-> Coder!Bits(c.bits, c.nbits) \o x.chunks]
PassBody(t, ss, d, k) == IF k = Len(ss) + 1 THEN Pass0 ELSE OneMore(t, d[k + 1], ss[k])
PassStep(t, ss, d) == [k \in 1..(Len(ss) + 1) |-> PassBody(t, ss, d, k)]
Pass(t, ss) == CHOOSE d : d = PassStep(t, ss, d)

LEMMA EncodeIs ==
  ASSUME NEW t, NEW ss
  PROVE  Coder!Encode(t, ss) = Coder!Bits(Pass(t, ss)[1].state - Size, TL) \o Pass(t, ss)[1].chunks
BY DEF Coder!Encode, Pass, PassStep, PassBody, Pass0, OneMore, Size

LEMMA PassIs ==
  ASSUME NEW t, NEW ss, Len(ss) \in Nat
  PROVE  /\ Pass(t, ss)[Len(ss) + 1] = Pass0
         /\ \A k \in 1..Len(ss) : Pass(t, ss)[k] = OneMore(t, Pass(t, ss)[k + 1], ss[k])
<1>1. PICK n \in Nat : n = Len(ss)
  OBVIOUS
<1> DEFINE Good(d, i) == \A k \in (n + 1 - i)..(n + 1) : d[k] = PassBody(t, ss, d, k)
           T == {i \in 0..n : \E d : Good(d, i)}
<1>2. 0 \in T
  <2>1. PICK d : d = [k \in (n + 1)..(n + 1) |-> Pass0]
    OBVIOUS
  <2>2. ASSUME NEW k \in (n + 1 - 0)..(n + 1) PROVE d[k] = PassBody(t, ss, d, k)
    <3>1. k = n + 1 OBVIOUS
    <3> QED BY <1>1, <2>1, <3>1 DEF PassBody
  <2> QED BY <2>2
<1>3. ASSUME NEW i \in 0..n, i # 0, i - 1 \in T PROVE i \in T
  <2>1. PICK d : Good(d, i - 1)
    BY <1>3
  <2>2. PICK m \in 1..n : m = n + 1 - i /\ n + 1 - (i - 1) = m + 1
    BY <1>3
  <2> DEFINE e == [k \in m..(n + 1) |-> IF k = m THEN PassBody(t, ss, d, m) ELSE d[k]]
  <2>3. ASSUME NEW k \in m..(n + 1) PROVE e[k] = PassBody(t, ss, e, k)
    <3>1. CASE k = n + 1
      <4>1. k # m /\ k \in (m + 1)..(n + 1) BY <3>1
      <4>2. e[k] = d[k] BY <4>1
      <4>3. d[k] = PassBody(t, ss, d, k) BY <2>1, <2>2, <4>1
      <4> QED BY <1>1, <3>1, <4>2, <4>3 DEF PassBody
    <3>2. CASE k # n + 1 /\ k # m
      <4>1. k \in (m + 1)..(n + 1) /\ k + 1 \in m..(n + 1) /\ k + 1 # m BY <3>2
      <4>2. e[k] = d[k] /\ e[k + 1] = d[k + 1] BY <3>2, <4>1
      <4>3. d[k] = PassBody(t, ss, d, k) BY <2>1, <2>2, <4>1
      <4> HIDE DEF e
      <4> QED BY <1>1, <3>2, <4>2, <4>3 DEF PassBody
    <3>3. CASE k # n + 1 /\ k = m
      <4>1. k + 1 \in m..(n + 1) /\ k + 1 # m BY <3>3
      <4>2. e[k] = PassBody(t, ss, d, m) /\ e[k + 1] = d[k + 1] BY <3>3, <4>1
      <4> HIDE DEF e
      <4> QED BY <1>1, <3>3, <4>2 DEF PassBody
    <3> QED BY <3>1, <3>2, <3>3
  <2>4. Good(e, i)
    <3> HIDE DEF e
    <3> QED BY <2>2, <2>3
  <2> HIDE DEF Good, e
  <2> QED BY <2>4
<1>4. n \in 0..n
  OBVIOUS
<1>5. \A i \in 0..n : i \in T
  <2> HIDE DEF T
  <2> QED BY <1>2, <1>3, Induct
<1>6. PICK d : Good(d, n)
  BY <1>4, <1>5
<1>7. \A k \in 1..(n + 1) : d[k] = PassBody(t, ss, d, k)
  <2>1. (n + 1 - n)..(n + 1) = 1..(n + 1) OBVIOUS
  <2> QED BY <1>6, <2>1
<1> DEFINE e == [k \in 1..(n + 1) |-> d[k]]
<1>8. e = PassStep(t, ss, e)
  <2>1. ASSUME NEW k \in 1..(n + 1) PROVE e[k] = PassBody(t, ss, e, k)
    <3>1. CASE k = n + 1
      BY <1>1, <1>7, <3>1 DEF PassBody
    <3>2. CASE k # n + 1
      <4>1. k + 1 \in 1..(n + 1) BY <3>2
      <4>2. e[k] = d[k] /\ e[k + 1] = d[k + 1] BY <4>1
      <4>3. d[k] = PassBody(t, ss, d, k) BY <1>7
      <4> HIDE DEF e
      <4> QED BY <1>1, <3>2, <4>2, <4>3 DEF PassBody
    <3> QED BY <3>1, <3>2
  <2>2. e = [k \in 1..(n + 1) |-> e[k]] OBVIOUS
  <2> HIDE DEF e
  <2> QED BY <1>1, <2>1, <2>2 DEF PassStep
<1>9. Pass(t, ss) = PassStep(t, ss, Pass(t, ss))
  <2> HIDE DEF e
  <2> QED BY <1>8 DEF Pass
<1>10. PICK f : f = Pass(t, ss) /\ f = PassStep(t, ss, f)
  BY <1>9
<1>11. \A k \in 1..(n + 1) : f[k] = PassBody(t, ss, f, k)
  BY <1>1, <1>10 DEF PassStep
<1>12. f[n + 1] = Pass0
  <2>1. n + 1 \in 1..(n + 1) OBVIOUS
  <2> QED BY <1>1, <1>11, <2>1 DEF PassBody
<1>13. ASSUME NEW k \in 1..n PROVE f[k] = OneMore(t, f[k + 1], ss[k])
  <2>1. k \in 1..(n + 1) /\ k # n + 1 OBVIOUS
  <2> QED BY <1>1, <1>11, <2>1 DEF PassBody
<1> QED BY <1>1, <1>10, <1>12, <1>13

\* A number's bits are a field of it, wherever they stand.
LEMMA BitsOf ==
  ASSUME NEW n \in 0..32, NEW x \in Nat, x < P2[n]
  PROVE  /\ Coder!Bits(x, n) \in Seq(0..1) /\ Len(Coder!Bits(x, n)) = n
         /\ \A j \in 1..n : Coder!Bits(x, n)[j] = (x \div P2[j - 1]) % 2
<1>1. PICK c : c = [bits |-> n, extra |-> x]
  OBVIOUS
<1>2. Fits(c) /\ c.bits = n /\ c.extra = x
  BY <1>1 DEF Fits
<1>3. Coder!Bits(x, n) = Sequence!Bits(c)
  BY <1>2 DEF Coder!Bits, Sequence!Bits
<1> QED BY <1>2, <1>3, BitsAre

LEMMA GetIs ==
  ASSUME NEW n \in 0..32, NEW from \in Nat, NEW w, NEW x \in Nat, x < P2[n], HasBits(w, from, n, x)
  PROVE  Coder!get(w, from, n) = x
<1>1. Coder!get(w, from, n) = Sequence!field(w, from, n)
  BY DEF Coder!get, Sequence!field
<1> QED BY <1>1, FieldIs

\* What is left of a stream.
Rest(w, from, g) ==
  /\ from \in Nat /\ g \in Seq(0..1) /\ Len(w) = from + Len(g)
  /\ \A i \in 1..Len(g) : w[from + i] = g[i]

LEMMA RestGoesOn ==
  ASSUME NEW n \in 0..32, NEW x \in Nat, x < P2[n], NEW g \in Seq(0..1), NEW w, NEW from \in Nat,
         Rest(w, from, Coder!Bits(x, n) \o g)
  PROVE  Coder!get(w, from, n) = x /\ Rest(w, from + n, g)
<1>1. PICK b \in Seq(0..1) : b = Coder!Bits(x, n) /\ Len(b) = n /\ \A j \in 1..n : b[j] = (x \div P2[j - 1]) % 2
  BY BitsOf
<1>2. PICK m \in Nat : m = Len(g)
  BY LenProperties
<1>3. PICK h : h = b \o g
  OBVIOUS
<1>4. /\ h \in Seq(0..1) /\ Len(h) = Len(b) + Len(g)
      /\ \A j \in 1..Len(b) : h[j] = b[j]
      /\ \A j \in 1..Len(g) : h[Len(b) + j] = g[j]
  <2>1. h \in Seq(0..1) /\ Len(h) = Len(b) + Len(g)
    BY <1>3, ConcatProperties
  <2>2. \A j \in 1..(Len(b) + Len(g)) : h[j] = IF j <= Len(b) THEN b[j] ELSE g[j - Len(b)]
    BY <1>3, ConcatProperties
  <2>3. ASSUME NEW j \in 1..Len(b) PROVE h[j] = b[j]
    <3>1. j \in 1..(Len(b) + Len(g)) BY <1>1, <1>2
    <3> QED BY <2>2, <3>1
  <2>4. ASSUME NEW j \in 1..Len(g) PROVE h[Len(b) + j] = g[j]
    <3>1. PICK i \in 1..(Len(b) + Len(g)) : i = Len(b) + j /\ ~(i <= Len(b)) /\ i - Len(b) = j
      BY <1>1, <1>2
    <3> QED BY <2>2, <3>1
  <2> QED BY <2>1, <2>3, <2>4
<1>5. Len(w) = from + (n + m) /\ \A i \in 1..(n + m) : w[from + i] = h[i]
  <2>1. Rest(w, from, h) BY <1>1, <1>3
  <2>2. Len(h) = n + m BY <1>1, <1>2, <1>4
  <2> QED BY <2>1, <2>2 DEF Rest
<1>6. HasBits(w, from, n, x)
  <2>1. ASSUME NEW j \in 1..n PROVE w[from + j] = (x \div P2[j - 1]) % 2
    <3>1. j \in 1..(n + m) BY <1>2
    <3>2. w[from + j] = h[j] BY <1>5, <3>1
    <3>3. h[j] = b[j] BY <1>1, <1>4
    <3> QED BY <1>1, <3>2, <3>3
  <2>2. Len(w) \in Nat /\ from + n <= Len(w)
    BY <1>5
  <2> QED BY <2>1, <2>2 DEF HasBits
<1>7. Rest(w, from + n, g)
  <2>1. ASSUME NEW i \in 1..m PROVE w[(from + n) + i] = g[i]
    <3>1. PICK j \in 1..(n + m) : j = n + i /\ from + j = (from + n) + i OBVIOUS
    <3>2. w[from + j] = h[j] BY <1>5
    <3>3. h[j] = g[i] BY <1>1, <1>2, <1>4, <3>1
    <3> QED BY <3>1, <3>2, <3>3
  <2>2. from + n \in Nat /\ Len(w) = (from + n) + m
    BY <1>5
  <2> QED BY <1>2, <2>1, <2>2 DEF Rest
<1> QED BY <1>6, <1>7, GetIs

\* The stream holds next the bits of a number, and then goes on.
Holds(w, from, n, x, g) == Rest(w, from, Coder!Bits(x, n) \o g)
Yields(w, from, n, x, g) == Coder!get(w, from, n) = x /\ Rest(w, from + n, g)

LEMMA HoldsYields ==
  ASSUME NEW n \in 0..32, NEW x \in Nat, NEW p, p = P2[n], x < p, NEW g \in Seq(0..1), NEW w,
         NEW from \in Nat, Holds(w, from, n, x, g)
  PROVE  Yields(w, from, n, x, g)
<1>1. x < P2[n]
  OBVIOUS
<1>2. Rest(w, from, Coder!Bits(x, n) \o g)
  BY DEF Holds
<1>3. Coder!get(w, from, n) = x /\ Rest(w, from + n, g)
  BY <1>1, <1>2, RestGoesOn
<1> QED BY <1>3 DEF Yields

InRange(x) == x.state \in Nat /\ Size <= x.state /\ x.state < 2 * Size /\ x.chunks \in Seq(0..1)

\* A symbol of the histogram h, and its table of counts.
Dealt(n, h, c) ==
  /\ n \in 1..MAX_SYMBOLS /\ h \in [0..(n - 1) -> Nat] /\ c = Coder!normalize(h)
  /\ Fills(n, c, Coder!Cumul(c)) /\ \A s \in 0..(n - 1) : h[s] > 0 => c[s] > 0

LEMMA CountsDealt ==
  ASSUME NEW n \in 1..MAX_SYMBOLS, NEW h \in [0..(n - 1) -> Nat]
  PROVE  Dealt(n, h, Coder!normalize(h))
<1>1. PICK c : c = Coder!normalize(h) /\ Filled(n, h, c)
  BY CountsFilled
<1>2. n \in Nat \ {0}
  BY TansSizes
<1>3. c \in [0..(n - 1) -> Nat] /\ n \in Nat
  BY <1>1, <1>2 DEF Filled
<1>4. Sums(n, c, Coder!Cumul(c)) /\ Coder!Cumul(c)[n] = Size
  BY <1>1, <1>3, CumulIs DEF Filled
<1>5. \A s \in 0..(n - 1) : h[s] > 0 => c[s] > 0
  <2>1. ASSUME NEW s \in 0..(n - 1), h[s] > 0 PROVE c[s] > 0
    <3>1. c[s] >= 1 /\ c[s] \in Nat BY <1>1, <1>3, <2>1 DEF Filled
    <3> QED BY <3>1
  <2> QED BY <2>1
<1> QED BY <1>1, <1>2, <1>3, <1>4, <1>5 DEF Dealt, Fills

LEMMA TablesAre ==
  ASSUME NEW c
  PROVE  /\ Coder!Tables(c).encode = Coder!build(c, Coder!spread(c))
         /\ Coder!Tables(c).decode = Coder!rebuild(c, Coder!spread(c))
BY DEF Coder!Tables

\* One more symbol: the decoder's entry for the state gives it, and takes its chunk.
Undone(t, x, s, y) ==
  \E n \in 0..32, v \in Nat :
    /\ v < P2[n] /\ y.chunks = Coder!Bits(v, n) \o x.chunks
    /\ t.decode[y.state - Size].sym = s /\ t.decode[y.state - Size].nbits = n
    /\ t.decode[y.state - Size].base + v = x.state - Size

LEMMA OneMoreIs ==
  ASSUME NEW n, NEW h, NEW c, Dealt(n, h, c), NEW t, t = Coder!Tables(c),
         NEW x, InRange(x), NEW s \in 0..(n - 1), h[s] > 0, NEW y, y = OneMore(t.encode, x, s)
  PROVE  InRange(y) /\ Undone(t, x, s, y)
<1>1. PICK sp : sp = Coder!spread(c)
  OBVIOUS
<1>2. PICK st \in Nat : st = x.state /\ Size <= st /\ st < 2 * Size
  BY DEF InRange
<1>3. PICK e : e = Coder!step(Coder!build(c, sp), st, s)
  OBVIOUS
<1>4. Fills(n, c, Coder!Cumul(c)) /\ c[s] > 0
  BY DEF Dealt
<1>5. PICK dec : dec = Coder!rebuild(c, sp) /\ Steps(sp, dec, s, st, e)
  BY <1>1, <1>2, <1>3, <1>4, StepDecodes
<1>6. t.encode = Coder!build(c, sp) /\ t.decode = dec
  BY <1>1, <1>5, TablesAre
<1>7. y = [state |-> e.state, chunks |-> Coder!Bits(e.bits, e.nbits) \o x.chunks]
  BY <1>2, <1>3, <1>6 DEF OneMore
<1>8. y.state = e.state /\ y.chunks = Coder!Bits(e.bits, e.nbits) \o x.chunks
  <2>1. PICK g : g = Coder!Bits(e.bits, e.nbits) \o x.chunks
    OBVIOUS
  <2>2. y = [state |-> e.state, chunks |-> g]
    BY <1>7, <2>1
  <2>3. y.state = e.state /\ y.chunks = g
    BY <2>2
  <2> QED BY <2>1, <2>3, Zenon
<1>9. PICK m \in 0..32, v \in Nat : m = e.nbits /\ v = e.bits /\ v < P2[m]
  <2>1. TL \in Int /\ TL <= 15 BY TansSizes
  <2>2. e.nbits \in 0..TL /\ e.bits \in Nat /\ e.bits < P2[e.nbits] BY <1>5 DEF Steps
  <2>3. PICK m \in 0..32 : m = e.nbits BY <2>1, <2>2
  <2>4. PICK v \in Nat : v = e.bits BY <2>2
  <2> QED BY <2>2, <2>3, <2>4
<1>10. InRange(y)
  <2>1. Coder!Bits(v, m) \in Seq(0..1) /\ x.chunks \in Seq(0..1)
    BY <1>9, BitsOf DEF InRange
  <2>2. Coder!Bits(v, m) \o x.chunks \in Seq(0..1)
    BY <2>1, ConcatProperties
  <2>3. e.state \in Nat /\ Size <= e.state /\ e.state < 2 * Size
    BY <1>5 DEF Steps
  <2> QED BY <1>8, <1>9, <2>2, <2>3 DEF InRange
<1>11. /\ t.decode[y.state - Size].sym = s /\ t.decode[y.state - Size].nbits = m
       /\ t.decode[y.state - Size].base + v = x.state - Size
  BY <1>2, <1>5, <1>6, <1>8, <1>9 DEF Steps
<1>12. Undone(t, x, s, y)
  BY <1>8, <1>9, <1>11 DEF Undone
<1> QED BY <1>10, <1>12

Given(n, h, ss) == Len(ss) \in Nat /\ \A k \in 1..Len(ss) : ss[k] \in 0..(n - 1) /\ h[ss[k]] > 0

LEMMA PassStates ==
  ASSUME NEW n, NEW h, NEW c, Dealt(n, h, c), NEW t, t = Coder!Tables(c), NEW ss, Given(n, h, ss)
  PROVE  \A k \in 1..(Len(ss) + 1) : InRange(Pass(t.encode, ss)[k])
<1>1. PICK m \in Nat : m = Len(ss)
  BY DEF Given
<1>7. PICK d : d = Pass(t.encode, ss)
  OBVIOUS
<1>2. d[m + 1] = Pass0 /\ \A k \in 1..m : d[k] = OneMore(t.encode, d[k + 1], ss[k])
  <2>1. Len(ss) \in Nat BY <1>1
  <2> QED BY <1>1, <1>7, <2>1, PassIs
<1> DEFINE T == {i \in 0..m : InRange(d[m + 1 - i])}
<1>3. 0 \in T
  <2>1. Pass0.state = Size /\ Pass0.chunks = <<>> BY DEF Pass0
  <2>2. Size \in Nat /\ 16 <= Size BY TansSizes
  <2>3. <<>> \in Seq(0..1) BY EmptySeq
  <2>4. InRange(Pass0) BY <2>1, <2>2, <2>3 DEF InRange
  <2>5. m + 1 - 0 = m + 1 OBVIOUS
  <2> QED BY <1>2, <2>4, <2>5
<1>4. ASSUME NEW i \in 0..m, i # 0, i - 1 \in T PROVE i \in T
  <2>1. PICK k \in 1..m : k = m + 1 - i /\ k + 1 = m + 1 - (i - 1)
    BY <1>4
  <2>2. PICK x : x = d[k + 1] /\ InRange(x)
    BY <1>4, <2>1
  <2>3. PICK s \in 0..(n - 1) : s = ss[k] /\ h[s] > 0
    BY <1>1 DEF Given
  <2>4. d[k] = OneMore(t.encode, x, s)
    BY <1>2, <2>2, <2>3
  <2>5. InRange(d[k])
    BY <2>2, <2>3, <2>4, OneMoreIs
  <2> QED BY <2>1, <2>5
<1>5. \A i \in 0..m : i \in T
  <2> HIDE DEF T
  <2> QED BY <1>3, <1>4, Induct
<1>6. ASSUME NEW k \in 1..(m + 1) PROVE InRange(d[k])
  <2>1. PICK i \in 0..m : i = m + 1 - k /\ m + 1 - i = k OBVIOUS
  <2>2. i \in T BY <1>5
  <2> QED BY <2>1, <2>2
<1> QED BY <1>1, <1>6, <1>7

-----------------------------------------------------------------------------
(* The decoder takes back the encoder's pass.                              *)

\* Of the symbols ss, with the tables t, those in o are out: the decoder stands in the
\* encoder's state before them, and the stream w holds from here what was written then.
Undoing(t, ss, w, from, st, o) ==
  /\ o \in Seq(Int) /\ Len(o) <= Len(ss) /\ \A i \in 1..Len(o) : o[i] = ss[i]
  /\ st = Pass(t.encode, ss)[Len(o) + 1].state - Size
  /\ Rest(w, from, Pass(t.encode, ss)[Len(o) + 1].chunks)

LEMMA UndoingStarts ==
  ASSUME NEW n, NEW h, NEW c, Dealt(n, h, c), NEW t, t = Coder!Tables(c), NEW ss, Given(n, h, ss),
         NEW w, w = Coder!Encode(t.encode, ss)
  PROVE  Undoing(t, ss, w, TL, Coder!get(w, 0, TL), <<>>)
<1>1. PICK d : d = Pass(t.encode, ss)
  OBVIOUS
<1>2. Len(ss) \in Nat
  BY DEF Given
<1>3. InRange(d[1])
  <2>1. 1 \in 1..(Len(ss) + 1) BY <1>2
  <2> QED BY <1>1, <2>1, PassStates
<1>4. PICK x \in Nat, tl \in 0..32 : x = d[1].state - Size /\ tl = TL /\ x < P2[tl]
  <2>1. TL \in 0..32 /\ Size = P2[TL] /\ Size \in Nat BY TansSizes
  <2>2. d[1].state \in Nat /\ Size <= d[1].state /\ d[1].state < 2 * Size BY <1>3 DEF InRange
  <2>3. PICK x \in Nat : x = d[1].state - Size /\ x < Size BY <2>1, <2>2
  <2> QED BY <2>1, <2>3
<1>5. PICK g \in Seq(0..1) : g = d[1].chunks
  BY <1>3 DEF InRange
<1>6. w = Coder!Bits(x, tl) \o g
  BY <1>1, <1>4, <1>5, EncodeIs
<1>7. w \in Seq(0..1)
  <2>1. Coder!Bits(x, tl) \in Seq(0..1) BY <1>4, BitsOf
  <2> QED BY <1>6, <2>1, ConcatProperties
<1>8. Rest(w, 0, w)
  <2>1. Len(w) \in Nat BY <1>7, LenProperties
  <2> QED BY <1>7, <2>1 DEF Rest
<1>9. PICK zero \in Nat : zero = 0
  OBVIOUS
<1>10. Rest(w, zero, Coder!Bits(x, tl) \o g)
  BY <1>6, <1>8, <1>9
<1>11. Coder!get(w, zero, tl) = x /\ Rest(w, zero + tl, g)
  <2>1. PICK q : q = P2[tl] /\ x < q BY <1>4
  <2>2. Holds(w, zero, tl, x, g) BY <1>10 DEF Holds
  <2>3. Yields(w, zero, tl, x, g) BY <2>1, <2>2, HoldsYields
  <2> QED BY <2>3 DEF Yields
<1>12. zero + tl = TL
  BY <1>4, <1>9
<1>13. <<>> \in Seq(Int) /\ Len(<<>>) = 0
  BY EmptySeq
<1>14. PICK o : o = <<>> /\ o \in Seq(Int) /\ Len(o) = 0 /\ Len(o) + 1 = 1
  <2>1. PICK o : o = <<>> OBVIOUS
  <2>2. o \in Seq(Int) /\ Len(o) = 0 BY <1>13, <2>1, Zenon
  <2>3. Len(o) + 1 = 1 BY <2>2
  <2> QED BY <2>1, <2>2, <2>3, Zenon
<1>15. \A i \in 1..Len(o) : o[i] = ss[i]
  BY <1>14
<1>16. Coder!get(w, 0, TL) = x /\ Rest(w, TL, g)
  BY <1>4, <1>9, <1>11, <1>12
<1>17. Len(o) <= Len(ss)
  BY <1>2, <1>14
<1>18. Pass(t.encode, ss)[Len(o) + 1] = d[1]
  BY <1>1, <1>14
<1>19. Undoing(t, ss, w, TL, x, o)
  BY <1>4, <1>5, <1>14, <1>15, <1>16, <1>17, <1>18 DEF Undoing
<1> QED BY <1>14, <1>16, <1>19

LEMMA UndoingGoesOn ==
  ASSUME NEW n, NEW h, NEW c, Dealt(n, h, c), NEW t, t = Coder!Tables(c), NEW ss, Given(n, h, ss),
         NEW w, NEW from, NEW st, NEW o, Undoing(t, ss, w, from, st, o), Len(o) < Len(ss),
         NEW e, e = t.decode[st]
  PROVE  Undoing(t, ss, w, from + e.nbits, e.base + Coder!get(w, from, e.nbits), Append(o, e.sym))
<1>1. PICK d : d = Pass(t.encode, ss)
  OBVIOUS
<1>2. PICK m \in Nat : m = Len(ss) /\ \A k \in 1..m : ss[k] \in 0..(n - 1) /\ h[ss[k]] > 0
  BY DEF Given
<1>3. PICK k \in 1..m : k = Len(o) + 1 /\ k + 1 \in 1..(m + 1)
  <2>1. Len(o) \in Nat
    BY LenProperties DEF Undoing
  <2> QED BY <1>2, <2>1
<1>4. PICK x, y : x = d[k + 1] /\ y = d[k] /\ InRange(x)
  BY <1>1, <1>2, <1>3, PassStates
<1>5. PICK s \in 0..(n - 1) : s = ss[k] /\ h[s] > 0
  BY <1>2
<1>6. y = OneMore(t.encode, x, s)
  BY <1>1, <1>2, <1>4, <1>5, PassIs
<1>7. Undone(t, x, s, y)
  BY <1>4, <1>5, <1>6, OneMoreIs
<1>8. PICK b \in 0..32, v \in Nat :
        /\ v < P2[b] /\ y.chunks = Coder!Bits(v, b) \o x.chunks
        /\ t.decode[y.state - Size].sym = s /\ t.decode[y.state - Size].nbits = b
        /\ t.decode[y.state - Size].base + v = x.state - Size
  BY <1>7 DEF Undone
<1>9. st = y.state - Size /\ Rest(w, from, y.chunks) /\ from \in Nat
  BY <1>1, <1>3, <1>4 DEF Undoing, Rest
<1>10. e.sym = s /\ e.nbits = b /\ e.base + v = x.state - Size
  BY <1>8, <1>9
<1>11. PICK g \in Seq(0..1) : g = x.chunks
  BY <1>4 DEF InRange
<1>12. Coder!get(w, from, b) = v /\ Rest(w, from + b, g)
  <2>1. Rest(w, from, Coder!Bits(v, b) \o g)
    BY <1>8, <1>9, <1>11
  <2>2. PICK q : q = P2[b] /\ v < q BY <1>8
  <2>3. Holds(w, from, b, v, g) BY <2>1 DEF Holds
  <2>4. from \in Nat BY <1>9
  <2>5. Yields(w, from, b, v, g) BY <2>2, <2>3, <2>4, HoldsYields
  <2> QED BY <2>5 DEF Yields
<1>13. PICK p : p = Append(o, s)
  OBVIOUS
<1>14. p \in Seq(Int) /\ Len(p) = k /\ \A i \in 1..k : p[i] = ss[i]
  <2>1. o \in Seq(Int) /\ s \in Int /\ \A i \in 1..Len(o) : o[i] = ss[i]
    <3>1. n \in Int BY DEF Dealt, Fills
    <3>2. s \in Int BY <3>1
    <3> QED BY <3>2 DEF Undoing
  <2>2. /\ p \in Seq(Int) /\ Len(p) = Len(o) + 1 /\ p[Len(o) + 1] = s
        /\ \A i \in 1..Len(o) : p[i] = o[i]
    BY <1>13, <2>1, AppendProperties
  <2>3. ASSUME NEW i \in 1..k PROVE p[i] = ss[i]
    <3>1. CASE i = k
      BY <1>3, <1>5, <2>2, <3>1
    <3>2. CASE i # k
      <4>1. Len(o) \in Nat BY <2>1, LenProperties
      <4>2. i \in 1..Len(o) BY <1>3, <3>2, <4>1
      <4> QED BY <2>1, <2>2, <4>2
    <3> QED BY <3>1, <3>2
  <2> QED BY <1>3, <2>2, <2>3
<1>15. Len(p) + 1 = k + 1 /\ Len(p) <= Len(ss)
  BY <1>2, <1>14
<1>16. Pass(t.encode, ss)[Len(p) + 1] = x
  BY <1>1, <1>4, <1>15
<1>17. Undoing(t, ss, w, from + b, x.state - Size, p)
  BY <1>11, <1>12, <1>14, <1>15, <1>16 DEF Undoing
<1>18. e.base + Coder!get(w, from, e.nbits) = x.state - Size /\ from + e.nbits = from + b /\ Append(o, e.sym) = p
  BY <1>10, <1>12, <1>13
<1> QED BY <1>17, <1>18

LEMMA UndoingEnds ==
  ASSUME NEW t, NEW ss, Len(ss) \in Nat, NEW w, NEW from, NEW st, NEW o, Undoing(t, ss, w, from, st, o),
         Len(o) = Len(ss)
  PROVE  from = Len(w) /\ st = 0
<1>1. Pass(t.encode, ss)[Len(o) + 1] = Pass0
  BY PassIs
<1>2. Pass0.state = Size /\ Pass0.chunks = <<>> /\ Size \in Nat
  BY TansSizes DEF Pass0
<1>3. Rest(w, from, <<>>)
  BY <1>1, <1>2 DEF Undoing
<1>4. Len(w) = from
  BY <1>3 DEF Rest
<1>5. st = Size - Size
  BY <1>1, <1>2 DEF Undoing
<1> QED BY <1>2, <1>4, <1>5

\* The tables are the histogram's, the symbols have a place in it, and the decoder undoes
\* what was written.
TansInv ==
  /\ which \in {"tans", "counts"} => \E n \in 1..MAX_SYMBOLS : hist \in [0..(n - 1) -> Nat]
  /\ which = "tans" =>
       /\ tables = IF MaxSymbols > 0 THEN Coder!Tables(Coder!normalize(hist)) ELSE None
       /\ syms \in Seq({s \in DOMAIN hist : hist[s] > 0}) /\ Len(syms) <= MaxSymbols
       /\ stream = None => out = <<>>
       /\ stream # None => Undoing(tables, syms, stream, at, state, out)

LEMMA TansDealt ==
  ASSUME TansInv, which = "tans", syms # <<>>
  PROVE  \E n : /\ Dealt(n, hist, Coder!normalize(hist)) /\ tables = Coder!Tables(Coder!normalize(hist))
                /\ Given(n, hist, syms)
<1>1. PICK n \in 1..MAX_SYMBOLS : hist \in [0..(n - 1) -> Nat]
  BY DEF TansInv
<1>2. Dealt(n, hist, Coder!normalize(hist))
  BY <1>1, CountsDealt
<1>3. syms \in Seq({s \in DOMAIN hist : hist[s] > 0})
  BY DEF TansInv
<1>4. Len(syms) \in Nat \ {0}
  BY <1>3, EmptySeq
<1>5. MaxSymbols > 0
  <2>1. Len(syms) <= MaxSymbols BY DEF TansInv
  <2> QED BY <1>4, <2>1, TansSizes
<1>6. \A k \in 1..Len(syms) : syms[k] \in {s \in DOMAIN hist : hist[s] > 0}
  BY <1>3, ElementOfSeq
<1>7. DOMAIN hist = 0..(n - 1)
  BY <1>1
<1>8. Given(n, hist, syms)
  BY <1>4, <1>6, <1>7 DEF Given
<1>9. tables = Coder!Tables(Coder!normalize(hist))
  BY <1>5 DEF TansInv
<1> QED BY <1>2, <1>8, <1>9

LEMMA PushKeeps ==
  ASSUME TansInv, which = "tans", which' = which, NEW s \in DOMAIN hist, Coder!push(s)
  PROVE  TansInv'
<1>1. /\ stream = None /\ Len(syms) < MaxSymbols /\ hist[s] > 0 /\ syms' = Append(syms, s)
      /\ UNCHANGED <<hist, tables, stream, at, state, out>>
  BY DEF Coder!push
<1>2. PICK S : S = {r \in DOMAIN hist : hist[r] > 0} /\ s \in S /\ syms \in Seq(S)
  BY <1>1 DEF TansInv
<1>3. syms' \in Seq(S) /\ Len(syms') = Len(syms) + 1 /\ Len(syms) \in Nat
  BY <1>1, <1>2, AppendProperties, LenProperties
<1>4. Len(syms') <= MaxSymbols
  BY <1>1, <1>3, TansSizes
<1>5. syms' \in Seq({r \in DOMAIN hist : hist[r] > 0})'
  BY <1>1, <1>2, <1>3
<1> QED BY <1>1, <1>4, <1>5 DEF TansInv

LEMMA FinishKeeps ==
  ASSUME TansInv, which = "tans", which' = which, Coder!finish
  PROVE  TansInv'
<1>1. /\ stream = None /\ syms # <<>> /\ stream' = Coder!Encode(tables.encode, syms)
      /\ at' = TL /\ state' = Coder!get(stream', 0, TL)
      /\ UNCHANGED <<hist, tables, syms, out>>
  BY DEF Coder!finish
<1>2. PICK n : /\ Dealt(n, hist, Coder!normalize(hist)) /\ tables = Coder!Tables(Coder!normalize(hist))
               /\ Given(n, hist, syms)
  BY <1>1, TansDealt
<1>3. PICK w : w = Coder!Encode(tables.encode, syms) /\ w = stream'
  BY <1>1
<1>4. Undoing(tables, syms, w, TL, Coder!get(w, 0, TL), <<>>)
  BY <1>2, <1>3, UndoingStarts
<1>5. out = <<>>
  BY <1>1 DEF TansInv
<1>6. Undoing(tables, syms, stream, at, state, out)'
  BY <1>1, <1>3, <1>4, <1>5
<1> QED BY <1>1, <1>5, <1>6 DEF TansInv

LEMMA NextKeeps ==
  ASSUME TansInv, which = "tans", which' = which, Coder!next
  PROVE  TansInv'
<1>1. PICK e : e = tables.decode[state]
  OBVIOUS
<1>2. /\ stream # None /\ Len(out) < Len(syms) /\ out' = Append(out, e.sym)
      /\ state' = e.base + Coder!get(stream, at, e.nbits) /\ at' = at + e.nbits
      /\ UNCHANGED <<hist, tables, syms, stream>>
  BY <1>1 DEF Coder!next
<1>3. Undoing(tables, syms, stream, at, state, out)
  BY <1>2 DEF TansInv
<1>4. syms # <<>>
  <2>1. Len(out) \in Nat BY <1>3, LenProperties DEF Undoing
  <2>2. Len(<<>>) = 0 BY EmptySeq
  <2> QED BY <1>2, <2>1, <2>2
<1>5. PICK n : /\ Dealt(n, hist, Coder!normalize(hist)) /\ tables = Coder!Tables(Coder!normalize(hist))
               /\ Given(n, hist, syms)
  BY <1>4, TansDealt
<1>6. Undoing(tables, syms, stream, at + e.nbits, e.base + Coder!get(stream, at, e.nbits), Append(out, e.sym))
  BY <1>1, <1>2, <1>3, <1>5, UndoingGoesOn
<1>7. Undoing(tables, syms, stream, at, state, out)'
  BY <1>2, <1>6
<1> QED BY <1>2, <1>7 DEF TansInv

LEMMA TansStep == ASSUME TansInv, [Next]_vars PROVE TansInv'
<1>1. CASE UNCHANGED <<which, ofTans>>
  BY <1>1 DEF TansInv, ofTans, Undoing
<1>2. CASE which = "tans" /\ Coder!Next /\ which' = which
  <2>1. CASE \E s \in DOMAIN hist : Coder!push(s)
    BY <1>2, <2>1, PushKeeps
  <2>2. CASE Coder!finish
    BY <1>2, <2>2, FinishKeeps
  <2>3. CASE Coder!next
    BY <1>2, <2>3, NextKeeps
  <2> QED BY <1>2, <2>1, <2>2, <2>3 DEF Coder!Next
<1> QED BY <1>1, <1>2 DEF Next, vars

\* The assertions of normalize and rebuild, "Holds for any histogram" of up to 64 symbols: the
\* counts fill the table, and every symbol of the histogram has one. And the decoder of
\* tans.rs gives back what its encoder was given: from the first symbol on, through every
\* state, it takes the chunks that were written, from the last on, and stands in the
\* encoder's first state with the stream read to its last bit.
THEOREM TansAlwaysDecodes == Spec => []TansDecodes
<1>1. Init => TansInv
  <2>1. ASSUME Coder!Init, which = "tans" PROVE TansInv
    <3>1. /\ hist \in Hists /\ syms = <<>> /\ stream = None /\ out = <<>>
          /\ tables = IF MaxSymbols > 0 THEN Coder!Tables(Coder!normalize(hist)) ELSE None
      BY <2>1 DEF Coder!Init
    <3>2. \E n \in 1..MAX_SYMBOLS : hist \in [0..(n - 1) -> Nat]
      BY <3>1, CodecAssumption DEF Coder!TansAssumption
    <3>3. syms \in Seq({s \in DOMAIN hist : hist[s] > 0}) /\ Len(syms) = 0
      BY <3>1, EmptySeq
    <3>4. Len(syms) <= MaxSymbols
      BY <3>3, TansSizes
    <3> QED BY <3>1, <3>2, <3>3, <3>4 DEF TansInv
  <2>2. ASSUME Counts!Init, which = "counts" PROVE TansInv
    <3>1. hist \in CountHists
      BY <2>2 DEF Counts!Init
    <3>2. \E n \in 1..MAX_SYMBOLS : hist \in [0..(n - 1) -> Nat]
      BY <3>1, CodecAssumption DEF Counts!TansAssumption
    <3> QED BY <2>2, <3>2 DEF TansInv
  <2> QED BY <2>1, <2>2 DEF Init, TansInv
<1>2. TansInv /\ [Next]_vars => TansInv'
  BY TansStep
<1>3. TansInv => TansDecodes
  <2>1. ASSUME TansInv, which \in {"tans", "counts"} PROVE Coder!CountsFillTable
    <3>1. PICK n \in 1..MAX_SYMBOLS : hist \in [0..(n - 1) -> Nat]
      BY <2>1 DEF TansInv
    <3>2. PICK c : c = Coder!normalize(hist) /\ Filled(n, hist, c)
      BY <3>1, CountsFilled
    <3>3. n \in Nat
      BY TansSizes
    <3>4. Cardinality(DOMAIN c) = n /\ Coder!Sum(c) = Size
      BY <3>2, <3>3, CumulIs DEF Filled
    <3>5. Coder!check(c)
      BY <3>4, CardIs DEF Coder!check, Size
    <3>6. \A s \in DOMAIN hist : IF hist[s] > 0 THEN c[s] >= 1 ELSE c[s] >= 0
      <4>1. DOMAIN hist = 0..(n - 1) BY <3>1
      <4>2. ASSUME NEW s \in 0..(n - 1) PROVE IF hist[s] > 0 THEN c[s] >= 1 ELSE c[s] >= 0
        BY <3>2 DEF Filled
      <4> QED BY <4>1, <4>2
    <3> QED BY <3>2, <3>5, <3>6 DEF Coder!CountsFillTable
  <2>2. ASSUME TansInv, which = "tans" PROVE Coder!Decodes
    <3>1. CASE stream = None
      <4>1. out = <<>> /\ Len(out) = 0 BY <2>2, <3>1, EmptySeq DEF TansInv
      <4>2. \A i \in 1..Len(out) : out[i] = syms[i] BY <4>1
      <4> QED BY <3>1, <4>2 DEF Coder!Decodes
    <3>2. CASE stream # None
      <4>1. Undoing(tables, syms, stream, at, state, out) BY <2>2, <3>2 DEF TansInv
      <4>2. Len(syms) \in Nat BY <2>2, LenProperties DEF TansInv
      <4>3. \A i \in 1..Len(out) : out[i] = syms[i] BY <4>1 DEF Undoing
      <4>4. Len(out) = Len(syms) => at = Len(stream) /\ state = 0
        BY <4>1, <4>2, UndoingEnds
      <4> QED BY <4>3, <4>4 DEF Coder!Decodes
    <3> QED BY <3>1, <3>2
  <2> QED BY <2>1, <2>2 DEF TansDecodes
<1> QED BY <1>1, <1>2, <1>3, PTL DEF Spec

=============================================================================
