-------------------------------- MODULE Tans --------------------------------
(***************************************************************************)
(* The table ANS coder of src/src/tans.rs: a histogram's counts, the       *)
(* tables of both sides, an encoder that takes the symbols last to first   *)
(* and a decoder that reads its stream from the first on.                  *)
(***************************************************************************)
EXTENDS Integers, Sequences, FiniteSets

CONSTANTS
  TL,          \* log of the table's size
  MAX_SYMBOLS,
  HALF,        \* bits of half a word: 16 of u32
  Hists,       \* histograms, functions from 0..n-1
  MaxSymbols,  \* bound: symbols encoded
  None

L == 2^TL

\* As many symbols as normalize's comment counts with: m * b <= L for m + b of them. The
\* code has TL = 10, MAX_SYMBOLS = 64 and HALF = 16.
TansAssumption ==
  /\ TL \in 4..15 /\ HALF \in 1..16 /\ TL < HALF
  /\ MAX_SYMBOLS \in Nat /\ MAX_SYMBOLS * MAX_SYMBOLS <= 4 * L
  /\ \A h \in Hists : \E n \in 1..MAX_SYMBOLS : h \in [0..(n - 1) -> Nat]
  /\ MaxSymbols \in Nat

VARIABLES
  hist,
  tables,  \* built of its counts
  syms,    \* what the encoder is given
  stream,  \* what it writes, bits
  at,      \* bits the decoder has consumed
  state,
  out      \* symbols decoded

vars == <<hist, tables, syms, stream, at, state, out>>

Word == 2^(2 * HALF)
highbit(x) == CHOOSE k \in 0..TL : 2^k <= x /\ x < 2^(k + 1)

\* Sums of f before each of its places, and of all of it.
Cumul(f) ==
  LET n == Cardinality(DOMAIN f)
      c[s \in 0..n] == IF s = 0 THEN 0 ELSE c[s - 1] + f[s - 1]
  IN  c
Sum(f) == Cumul(f)[Cardinality(DOMAIN f)]

-----------------------------------------------------------------------------
(* `normalize`: counts of sum L, one at least of each symbol present, the  *)
(* rounding put on the first of the most frequent.                         *)

Largest_first(h) == CHOOSE s \in DOMAIN h : h[s] > 0 /\ \A t \in DOMAIN h : h[t] > 0 => s <= t
Largest(h) == CHOOSE s \in DOMAIN h : \A t \in DOMAIN h : h[t] <= h[s] /\ (t < s => h[t] < h[s])

normalize(h) ==
  LET total == Sum(h)
      scaled == [s \in DOMAIN h |->
        IF h[s] = 0 THEN 0 ELSE LET c == (h[s] * L) \div total IN IF c = 0 THEN 1 ELSE c]
      sum == Sum(scaled)
  IN  IF total = 0 THEN [s \in DOMAIN h |-> IF s = 0 THEN L ELSE 0]
      ELSE [scaled EXCEPT ![Largest(h)] = @ + (L - sum)]

check(counts) == Cardinality(DOMAIN counts) \in 1..MAX_SYMBOLS /\ Sum(counts) = L

-----------------------------------------------------------------------------
(* The tables.                                                             *)

\* The symbol of the j-th occurrence.
SymbolAt(cumul, j) == CHOOSE s \in DOMAIN cumul : cumul[s] <= j /\ j < cumul[s + 1]

\* Occurrence j at j strides, round the table.
spread(counts) ==
  LET cumul == Cumul(counts)
      stride == L \div 2 + L \div 8 + 3
      occurrence == [i \in 0..(L - 1) |-> CHOOSE j \in 0..(L - 1) : (j * stride) % L = i]
  IN  [i \in 0..(L - 1) |-> SymbolAt(cumul, occurrence[i])]

\* Occurrences of a place's symbol before it.
Rank(sp, i) == Cardinality({k \in 0..(i - 1) : sp[k] = sp[i]})

\* `DecodeTable::rebuild`.
rebuild(counts, sp) ==
  [i \in 0..(L - 1) |->
     LET x == counts[sp[i]] + Rank(sp, i)
         nbits == TL - highbit(x)
     IN  [sym |-> sp[i], nbits |-> nbits, base |-> x * 2^nbits - L]]

\* `EncodeTable::build`; the two deltas wrap.
build(counts, sp) ==
  LET cumul == Cumul(counts)
      place == [i \in 0..(L - 1) |-> cumul[sp[i]] + Rank(sp, i)]
      delta(s) ==
        LET c == counts[s]
            max_bits_out == TL - highbit(c)
        IN  [nbits |-> (max_bits_out * 2^HALF - c * 2^max_bits_out) % Word,
             find  |-> (cumul[s] - c) % Word]
  IN  [state_table |-> [p \in 0..(L - 1) |-> L + (CHOOSE i \in 0..(L - 1) : place[i] = p)],
       sym |-> [s \in {t \in DOMAIN counts : counts[t] > 0} |-> delta(s)]]

Tables(counts) ==
  LET sp == spread(counts) IN [decode |-> rebuild(counts, sp), encode |-> build(counts, sp)]

-----------------------------------------------------------------------------
(* Coding.                                                                 *)

\* `step`: the chunk is the state's low nbits.
step(t, st, s) ==
  LET nbits == ((st + t.sym[s].nbits) % Word) \div 2^HALF
      idx   == ((st \div 2^nbits) + t.sym[s].find) % Word
  IN  [bits |-> st % 2^nbits, nbits |-> nbits, state |-> t.state_table[idx]]

Bits(v, n) == [i \in 1..n |-> (v \div 2^(i - 1)) % 2]

\* `finish`: the final state, then the chunks in the symbols' order.
Encode(t, ss) ==
  LET done[k \in 1..(Len(ss) + 1)] ==
        IF k = Len(ss) + 1 THEN [state |-> L, chunks |-> <<>>]
        ELSE LET c == step(t, done[k + 1].state, ss[k])
             IN  [state |-> c.state, chunks |-> Bits(c.bits, c.nbits) \o done[k + 1].chunks]
  IN  Bits(done[1].state - L, TL) \o done[1].chunks

\* The reader's next n bits, zeros past the end.
get(bits, from, n) ==
  LET v[k \in 0..n] ==
        IF k = 0 THEN 0
        ELSE v[k - 1] + (IF from + k <= Len(bits) THEN bits[from + k] ELSE 0) * 2^(k - 1)
  IN  v[n]

push(s) ==
  /\ stream = None /\ Len(syms) < MaxSymbols
  /\ hist[s] > 0
  /\ syms' = Append(syms, s)
  /\ UNCHANGED <<hist, tables, stream, at, state, out>>

\* `Encoder::finish`, and `Decoder::new` of what it writes.
finish ==
  /\ stream = None /\ syms # <<>>
  /\ stream' = Encode(tables.encode, syms)
  /\ at' = TL /\ state' = get(stream', 0, TL)
  /\ UNCHANGED <<hist, tables, syms, out>>

\* `Decoder::next`.
next ==
  /\ stream # None /\ Len(out) < Len(syms)
  /\ LET e == tables.decode[state]
     IN  /\ out' = Append(out, e.sym)
         /\ state' = e.base + get(stream, at, e.nbits)
         /\ at' = at + e.nbits
  /\ UNCHANGED <<hist, tables, syms, stream>>

Init ==
  /\ hist \in Hists
  /\ tables = IF MaxSymbols > 0 THEN Tables(normalize(hist)) ELSE None
  /\ syms = <<>> /\ stream = None /\ at = 0 /\ state = 0 /\ out = <<>>

Next == (\E s \in DOMAIN hist : push(s)) \/ finish \/ next

-----------------------------------------------------------------------------

\* The assertion "normalization underflow", which "Holds for any histogram", and
\* what both tables are built on: counts of sum L, one at least where a symbol is.
CountsFillTable ==
  LET counts == normalize(hist)
  IN  check(counts) /\ \A s \in DOMAIN hist : IF hist[s] > 0 THEN counts[s] >= 1 ELSE counts[s] >= 0

\* The decoder gives back the symbols, in their order, and consumes the stream
\* to its last bit, where it is in the encoder's first state.
Decodes ==
  /\ \A i \in 1..Len(out) : out[i] = syms[i]
  /\ stream # None /\ Len(out) = Len(syms) => at = Len(stream) /\ state = 0

=============================================================================
