----------------------------- MODULE Store_proofs -----------------------------
(***************************************************************************)
(* The inductive invariant of Store and the properties it gives, for every *)
(* cap, pack size, channel and number of objects. First, facts about its   *)
(* chains, for entries whose bases are earlier entries: a chain is closed  *)
(* under base, is the least such set, ends at a root, and is no longer than*)
(* the depths along it allow.                                              *)
(***************************************************************************)
EXTENDS Store, TLAPS, FiniteSetTheorems, WellFoundedInduction, SequenceTheorems

\* Every set of naturals has a least element: what the proofs by induction on
\* ids below use.
NatLess == {ss \in Nat \X Nat : ss[1] < ss[2]}

LEMMA LeastNatural ==
  ASSUME NEW T, T \subseteq Nat, T # {}
  PROVE  \E m \in T : \A k \in T : m <= k
<1>1. IsWellFoundedOn(NatLess, Nat)
  BY ONLY NatLessThanWellFounded, Zenon DEF OpToRel, NatLess
<1>2. PICK m \in T : \A k \in T : ~(<<k, m>> \in NatLess)
  BY <1>1, WFMin
<1>3. \A k \in T : ~(k < m)
  BY <1>2 DEF NatLess
<1>4. QED
  BY <1>3

\* Entries 0..n-1, each base an earlier one.
BasesEarlier(es, n) ==
  /\ n \in Nat
  /\ DOMAIN es = 0..(n - 1)
  /\ \A i \in 0..(n - 1) : es[i].base # None => es[i].base \in 0..(i - 1)

ClosedUnderBase(es, T) == \A i \in T : es[i].base # None => es[i].base \in T

\* The recursion that defines Chains has a solution (the intersection of the
\* closed sets around each id), so Chains satisfies it.
LEMMA ChainsUnfold ==
  ASSUME NEW es, \A i \in DOMAIN es : es[i].base # None => es[i].base \in DOMAIN es
  PROVE  Chains(es) = [i \in DOMAIN es |->
            {i} \cup IF es[i].base = None THEN {} ELSE Chains(es)[es[i].base]]
<1> DEFINE D == DOMAIN es
           Closed(T) == T \subseteq D /\ ClosedUnderBase(es, T)
           g == [i \in D |-> {a \in D : \A T \in SUBSET D : i \in T /\ Closed(T) => a \in T}]
           Solves(f) == f = [i \in D |->
              {i} \cup IF es[i].base = None THEN {} ELSE f[es[i].base]]
<1>1. ASSUME NEW i \in D
      PROVE  g[i] = {i} \cup IF es[i].base = None THEN {} ELSE g[es[i].base]
  <2> DEFINE R == {i} \cup IF es[i].base = None THEN {} ELSE g[es[i].base]
  <2>1. R \subseteq g[i]
    <3>1. i \in g[i]
      OBVIOUS
    <3>2. ASSUME es[i].base # None, NEW a \in g[es[i].base]
          PROVE  a \in g[i]
      <4>1. es[i].base \in D
        BY <3>2
      <4>2. ASSUME NEW T \in SUBSET D, i \in T, Closed(T)
            PROVE  a \in T
        BY <4>1, <4>2, <3>2 DEF ClosedUnderBase
      <4>3. QED
        BY <4>1, <4>2, <3>2
    <3>3. QED
      BY <3>1, <3>2
  <2>2. R \in SUBSET D /\ i \in R
    OBVIOUS
  <2>3. Closed(R)
    <3>1. ASSUME NEW c \in R, es[c].base # None
          PROVE  es[c].base \in R
      <4>1. CASE c = i
        <5>1. es[i].base \in D /\ es[i].base \in g[es[i].base]
          BY <4>1, <3>1
        <5>2. QED
          BY <4>1, <3>1, <5>1
      <4>2. CASE c # i
        <5>1. es[i].base # None /\ c \in g[es[i].base] /\ es[i].base \in D
          BY <4>2
        <5>2. c \in D /\ es[c].base \in D
          BY <5>1, <3>1
        <5>3. es[c].base \in g[es[i].base]
          BY <5>1, <5>2, <3>1 DEF ClosedUnderBase
        <5>4. QED
          BY <5>1, <5>3
      <4>3. QED
        BY <4>1, <4>2
    <3>2. QED
      BY <2>2, <3>1 DEF ClosedUnderBase
  <2>4. g[i] \subseteq R
    BY <2>2, <2>3
  <2>5. QED
    BY <2>1, <2>4
<1>2. Solves(g)
  BY <1>1
<1>3. Solves(CHOOSE f : Solves(f))
  BY <1>2, Zenon
<1>4. Chains(es) = CHOOSE f : Solves(f)
  BY Zenon DEF Chains
<1>5. QED
  BY <1>3, <1>4

LEMMA ChainStep ==
  ASSUME NEW es, NEW n, BasesEarlier(es, n), NEW i \in 0..(n - 1)
  PROVE  /\ i \in ChainOf(es, i)
         /\ es[i].base = None => ChainOf(es, i) = {i}
         /\ es[i].base # None => ChainOf(es, i) = {i} \cup ChainOf(es, es[i].base)
<1>1. \A j \in DOMAIN es : es[j].base # None => es[j].base \in DOMAIN es
  BY DEF BasesEarlier
<1>2. Chains(es)[i] = {i} \cup IF es[i].base = None THEN {} ELSE Chains(es)[es[i].base]
  BY <1>1, ChainsUnfold DEF BasesEarlier
<1>3. QED
  BY <1>2 DEF ChainOf

\* The chain of i holds i, only ids up to i, and each member's base.
LEMMA ChainFacts ==
  ASSUME NEW es, NEW n, BasesEarlier(es, n), NEW i \in 0..(n - 1)
  PROVE  /\ i \in ChainOf(es, i)
         /\ ChainOf(es, i) \subseteq 0..i
         /\ ClosedUnderBase(es, ChainOf(es, i))
         /\ \E r \in ChainOf(es, i) : es[r].base = None
<1> DEFINE Ok(j) == /\ ChainOf(es, j) \subseteq 0..j
                    /\ ClosedUnderBase(es, ChainOf(es, j))
                    /\ \E r \in ChainOf(es, j) : es[r].base = None
           Bad == {j \in 0..(n - 1) : ~Ok(j)}
<1>1. ASSUME Bad # {}
      PROVE  FALSE
  <2>1. n \in Nat /\ Bad \subseteq Nat
    BY DEF BasesEarlier
  <2>2. PICK j \in Bad : \A k \in Bad : j <= k
    BY <1>1, <2>1, LeastNatural
  <2>3. j \in 0..(n - 1) /\ ~Ok(j)
    OBVIOUS
  <2>4. CASE es[j].base = None
    <3>1. ChainOf(es, j) = {j}
      BY <2>3, <2>4, ChainStep
    <3>2. QED
      BY <2>1, <2>3, <2>4, <3>1 DEF ClosedUnderBase
  <2>5. CASE es[j].base # None
    <3> DEFINE b == es[j].base
    <3>1. b \in 0..(j - 1) /\ b \in 0..(n - 1)
      BY <2>1, <2>3, <2>5 DEF BasesEarlier
    <3>2. Ok(b)
      BY <2>1, <2>2, <2>3, <3>1
    <3>3. ChainOf(es, j) = {j} \cup ChainOf(es, b) /\ b \in ChainOf(es, b)
      BY <2>3, <2>5, <3>1, ChainStep
    <3>4. QED
      <4>1. ChainOf(es, j) \subseteq 0..j
        BY <2>1, <2>3, <3>1, <3>2, <3>3
      <4>2. ClosedUnderBase(es, ChainOf(es, j))
        BY <3>2, <3>3 DEF ClosedUnderBase
      <4>3. \E r \in ChainOf(es, j) : es[r].base = None
        BY <3>2, <3>3
      <4>4. QED
        BY <2>3, <4>1, <4>2, <4>3
  <2>6. QED
    BY <2>4, <2>5
<1>2. QED
  BY <1>1, ChainStep

\* What holds of i and is handed down from an object to its base holds along
\* the chain of i.
LEMMA ChainLeast ==
  ASSUME NEW es, NEW n, BasesEarlier(es, n), NEW i \in 0..(n - 1),
         NEW T, ClosedUnderBase(es, T), i \in T
  PROVE  ChainOf(es, i) \subseteq T
<1> DEFINE Bad == {j \in 0..(n - 1) : j \in T /\ ~(ChainOf(es, j) \subseteq T)}
<1>1. ASSUME Bad # {}
      PROVE  FALSE
  <2>1. n \in Nat /\ Bad \subseteq Nat
    BY DEF BasesEarlier
  <2>2. PICK j \in Bad : \A k \in Bad : j <= k
    BY <1>1, <2>1, LeastNatural
  <2>3. j \in 0..(n - 1) /\ j \in T /\ ~(ChainOf(es, j) \subseteq T)
    OBVIOUS
  <2>4. CASE es[j].base = None
    BY <2>3, <2>4, ChainStep
  <2>5. CASE es[j].base # None
    <3> DEFINE b == es[j].base
    <3>1. b \in 0..(j - 1) /\ b \in 0..(n - 1) /\ b \in T
      BY <2>1, <2>3, <2>5 DEF BasesEarlier, ClosedUnderBase
    <3>2. ChainOf(es, b) \subseteq T
      BY <2>1, <2>2, <2>3, <3>1
    <3>3. QED
      BY <2>3, <2>5, <3>1, <3>2, ChainStep
  <2>6. QED
    BY <2>4, <2>5
<1>2. QED
  BY <1>1

\* Depths that fall along the bases bound a chain: each depth is met once.
LEMMA ChainLength ==
  ASSUME NEW es, NEW n, BasesEarlier(es, n), NEW i \in 0..(n - 1), NEW cap \in Nat,
         \A j \in 0..(n - 1) : /\ es[j].depth \in 0..cap
                               /\ es[j].base # None => es[es[j].base].depth < es[j].depth
  PROVE  Cardinality(ChainOf(es, i)) <= cap + 1
<1> DEFINE Ok(j) == \A c, e \in ChainOf(es, j) :
                       /\ es[c].depth <= es[j].depth
                       /\ es[c].depth = es[e].depth => c = e
           Bad == {j \in 0..(n - 1) : ~Ok(j)}
<1>1. ASSUME Bad # {}
      PROVE  FALSE
  <2>1. n \in Nat /\ Bad \subseteq Nat
    BY DEF BasesEarlier
  <2>2. PICK j \in Bad : \A k \in Bad : j <= k
    BY <1>1, <2>1, LeastNatural
  <2>3. j \in 0..(n - 1) /\ ~Ok(j) /\ es[j].depth \in 0..cap
    OBVIOUS
  <2>4. CASE es[j].base = None
    BY <2>3, <2>4, ChainStep
  <2>5. CASE es[j].base # None
    <3> DEFINE b == es[j].base
    <3>1. b \in 0..(j - 1) /\ b \in 0..(n - 1)
      BY <2>1, <2>3, <2>5 DEF BasesEarlier
    <3>2. Ok(b) /\ es[b].depth < es[j].depth /\ es[b].depth \in 0..cap
      BY <2>1, <2>2, <2>3, <2>5, <3>1
    <3>3. ChainOf(es, j) = {j} \cup ChainOf(es, b)
      BY <2>3, <2>5, <3>1, ChainStep
    <3>4. ChainOf(es, b) \subseteq 0..(n - 1)
      BY <2>1, <3>1, ChainFacts
    <3>5. \A c \in ChainOf(es, b) : es[c].depth < es[j].depth
      BY <2>3, <3>2, <3>4
    <3>6. QED
      BY <2>3, <3>2, <3>3, <3>4, <3>5
  <2>6. QED
    BY <2>4, <2>5
<1> DEFINE f == [c \in ChainOf(es, i) |-> es[c].depth]
<1>2. Ok(i) /\ ChainOf(es, i) \subseteq 0..(n - 1)
  <2>1. Ok(i)
    <3>1. i \notin Bad
      BY <1>1
    <3>2. QED
      BY <3>1
  <2>2. ChainOf(es, i) \subseteq 0..i
    BY ChainFacts
  <2>3. 0..i \subseteq 0..(n - 1)
    BY DEF BasesEarlier
  <2>4. QED
    BY <2>1, <2>2, <2>3
<1>3. f \in Injection(ChainOf(es, i), 0..cap)
  BY <1>2 DEF Injection, IsInjective
<1>4. IsFiniteSet(0..cap) /\ Cardinality(0..cap) = cap + 1
  BY FS_Interval
<1>5. QED
  BY <1>3, <1>4, FS_Injection

-----------------------------------------------------------------------------
(* The invariant, of the entries es (n of them), the streams d, the jobs q *)
(* and the open pack p, so that the steps of a put can be taken in turn.   *)

Typed(n, es, d, q, p) ==
  /\ n \in Nat
  /\ es \in [0..(n - 1) -> Entry(n)]
  /\ DOMAIN d \subseteq 0..(n - 1)
  /\ \A i \in DOMAIN d :
       d[i] \in [of : 0..(n - 1), base : 0..(n - 1) \cup {None}, members : Seq(0..(n - 1))]
  /\ DOMAIN q \subseteq 0..(n - 1)
  /\ \A i \in DOMAIN q : q[i] \in 0..(n - 1) \cup {None}
  /\ p \in Seq(0..(n - 1))

\* The three kinds of entry, and where bases, families and packs may point.
Shape(n, es) ==
  \A i \in 0..(n - 1) :
    /\ es[i].kind = "large" => es[i].pack = None /\ es[es[i].family].kind = "large"
    /\ es[i].kind = "small" => es[i].base = None /\ es[i].pack # None
    /\ es[i].kind = "pack" => es[i].base = None /\ es[i].pack = None
    /\ es[i].pack \in 0..(n - 1) => es[es[i].pack].kind = "pack"

\* A root is at depth 0 (what within_cap falls back to); anything else is
\* below its base, an earlier large object.
Depths(n, es) ==
  \A i \in 0..(n - 1) :
    /\ es[i].depth <= MAX_DEPTH
    /\ es[i].base = None => es[i].depth = 0
    /\ es[i].base # None =>
         /\ es[i].base \in 0..(i - 1)
         /\ es[es[i].base].kind = "large"
         /\ es[es[i].base].depth < es[i].depth

\* The stream of i is in the backend or on its way there.
Kept(d, q, i) == i \in DOMAIN d \cup DOMAIN q

\* What is live is kept, what is kept has its base kept, and every stream is
\* the one its entry describes.
Streams(n, es, d, q) ==
  /\ \A i \in DOMAIN q : es[i].kind = "large" /\ q[i] = es[i].base
  /\ \A i \in 0..(n - 1) :
       es[i].kind = "large" =>
         /\ i \in DOMAIN d => d[i].of = i /\ d[i].base = es[i].base
         /\ ~es[i].deleted => Kept(d, q, i)
         /\ Kept(d, q, i) /\ es[i].base # None => Kept(d, q, es[i].base)

\* A small object is in the open pack or, while live, at its place in one
\* that is stored.
Packs(n, es, d, p) ==
  /\ \A k \in 1..Len(p) : es[p[k]].kind = "small" /\ es[p[k]].pack = Open
  /\ \A i \in 0..(n - 1) :
       es[i].kind = "small" =>
         /\ es[i].pack = Open => \E k \in 1..Len(p) : p[k] = i
         /\ es[i].pack # Open /\ ~es[i].deleted =>
              /\ es[i].pack \in DOMAIN d
              /\ es[i].at \in 1..Len(d[es[i].pack].members)
              /\ d[es[i].pack].members[es[i].at] = i

Good(n, es, d, q, p) ==
  /\ Typed(n, es, d, q, p)
  /\ Shape(n, es)
  /\ Depths(n, es)
  /\ Streams(n, es, d, q)
  /\ Packs(n, es, d, p)

IInv == len <= MaxLen /\ Good(len, entries, disk, queue, pending)

-----------------------------------------------------------------------------
(* Each step of an operation keeps Good.                                   *)

LEMMA GoodBasesEarlier ==
  ASSUME NEW n, NEW es, n \in Nat, DOMAIN es = 0..(n - 1), Depths(n, es)
  PROVE  BasesEarlier(es, n)
BY DEF Depths, BasesEarlier

LEMMA GoodInit == Init => IInv
<1> SUFFICES ASSUME Init PROVE IInv
  OBVIOUS
<1>1. len = 0 /\ Ids = {} /\ 0..(0 - 1) = {}
  BY DEF Init, Ids
<1>2. DOMAIN disk = {} /\ DOMAIN queue = {} /\ pending = <<>> /\ DOMAIN entries = {}
  BY <1>1 DEF Init
<1>3. entries \in [0..(0 - 1) -> Entry(0)]
  BY <1>1 DEF Init
<1>4. QED
  BY <1>1, <1>2, <1>3, LenAssumption
     DEF IInv, Good, Typed, Shape, Depths, Streams, Packs

\* A stream reaches the backend.
LEMMA GoodWrite ==
  ASSUME NEW n, NEW es, NEW d, NEW q, NEW p, Good(n, es, d, q, p), NEW id \in DOMAIN q
  PROVE  Good(n, es,
              [i \in DOMAIN d \cup {id} |-> IF i = id THEN Stream(id, q[id]) ELSE d[i]],
              [i \in DOMAIN q \ {id} |-> q[i]], p)
<1> DEFINE dd == [i \in DOMAIN d \cup {id} |-> IF i = id THEN Stream(id, q[id]) ELSE d[i]]
           qq == [i \in DOMAIN q \ {id} |-> q[i]]
<1>1. n \in Nat /\ id \in 0..(n - 1) /\ q[id] \in 0..(n - 1) \cup {None}
  BY DEF Good, Typed
<1>2. Stream(id, q[id]) \in [of : 0..(n - 1), base : 0..(n - 1) \cup {None}, members : Seq(0..(n - 1))]
  BY <1>1 DEF Stream
<1>3. Typed(n, es, dd, qq, p)
  BY <1>1, <1>2 DEF Good, Typed
<1>4. \A i : Kept(d, q, i) <=> Kept(dd, qq, i)
  BY DEF Kept
<1>5. es[id].kind = "large" /\ q[id] = es[id].base
  BY DEF Good, Streams
<1>6. Streams(n, es, dd, qq)
  BY <1>4, <1>5 DEF Good, Streams, Stream
<1>7. Packs(n, es, dd, p)
  <2>1. \A i \in 0..(n - 1) : es[i].kind = "small" /\ es[i].pack # Open => es[i].pack # id
    <3> SUFFICES ASSUME NEW i \in 0..(n - 1), es[i].kind = "small", es[i].pack = id
                 PROVE  FALSE
      BY <1>1, NoneAssumption
    <3>1. es[id].kind = "pack"
      BY <1>1 DEF Good, Shape
    <3>2. QED
      BY <3>1, <1>5
  <2>2. QED
    BY <2>1 DEF Good, Packs
<1>8. QED
  BY <1>3, <1>6, <1>7 DEF Good

\* An entry is marked deleted.
LEMMA GoodDelete ==
  ASSUME NEW n, NEW es, NEW d, NEW q, NEW p, Good(n, es, d, q, p), NEW id \in 0..(n - 1)
  PROVE  Good(n, [es EXCEPT ![id].deleted = TRUE], d, q, p)
<1> DEFINE ee == [es EXCEPT ![id].deleted = TRUE]
<1>1. n \in Nat /\ es \in [0..(n - 1) -> Entry(n)]
  BY DEF Good, Typed
<1>2. ee \in [0..(n - 1) -> Entry(n)]
  BY <1>1 DEF Entry
<1>3. \A i \in 0..(n - 1) :
        /\ ee[i].kind = es[i].kind /\ ee[i].base = es[i].base
        /\ ee[i].depth = es[i].depth /\ ee[i].family = es[i].family
        /\ ee[i].pack = es[i].pack /\ ee[i].at = es[i].at
        /\ es[i].deleted => ee[i].deleted
        /\ es[i].family \in 0..(n - 1)
  BY <1>1 DEF Entry
<1>4. Typed(n, ee, d, q, p)
  BY <1>2 DEF Good, Typed
<1>5. Shape(n, ee)
  BY <1>3 DEF Good, Shape
<1>6. Depths(n, ee)
  <2> SUFFICES ASSUME NEW i \in 0..(n - 1), ee[i].base # None
               PROVE  ee[i].base \in 0..(i - 1) /\ ee[i].base \in 0..(n - 1)
    BY <1>3 DEF Good, Depths
  <2>1. QED
    BY <1>1, <1>3 DEF Good, Depths
<1>7. Streams(n, ee, d, q)
  BY <1>3 DEF Good, Streams, Typed
<1>8. Packs(n, ee, d, p)
  <2>1. \A k \in 1..Len(p) : p[k] \in 0..(n - 1)
    BY DEF Good, Typed
  <2>2. QED
    BY <1>3, <2>1 DEF Good, Packs
<1>9. QED
  BY <1>4, <1>5, <1>6, <1>7, <1>8 DEF Good

\* A large object whose stream is in the backend, stored again alone.
LEMMA GoodRebase ==
  ASSUME NEW n, NEW es, NEW d, NEW q, NEW p, Good(n, es, d, q, p), DOMAIN q = {},
         NEW id \in 0..(n - 1), es[id].kind = "large", id \in DOMAIN d
  PROVE  Good(n, [es EXCEPT ![id] = [@ EXCEPT !.base = None, !.depth = 0, !.family = id]],
              [d EXCEPT ![id] = Stream(id, None)], q, p)
<1> DEFINE ee == [es EXCEPT ![id] = [@ EXCEPT !.base = None, !.depth = 0, !.family = id]]
           dd == [d EXCEPT ![id] = Stream(id, None)]
<1>1. n \in Nat /\ es \in [0..(n - 1) -> Entry(n)]
  BY DEF Good, Typed
<1>2. ee \in [0..(n - 1) -> Entry(n)]
  <2>1. PICK x \in Entry(n) : x = es[id]
    BY <1>1
  <2>2. [x EXCEPT !.base = None, !.depth = 0, !.family = id] \in Entry(n)
    BY DEF Entry
  <2>3. QED
    BY <1>1, <2>1, <2>2
<1>3. \A i \in 0..(n - 1) :
        /\ ee[i].kind = es[i].kind /\ ee[i].deleted = es[i].deleted
        /\ ee[i].pack = es[i].pack /\ ee[i].at = es[i].at
        /\ i # id => ee[i] = es[i]
  BY <1>1 DEF Entry
<1>4. ee[id].base = None /\ ee[id].depth = 0 /\ ee[id].family = id
  BY <1>1 DEF Entry
<1>5. \A i \in 0..(n - 1) : es[i].family \in 0..(n - 1) /\ es[i].depth \in Nat
  BY <1>1 DEF Entry
<1>6. Typed(n, ee, dd, q, p)
  <2>1. Stream(id, None) \in [of : 0..(n - 1), base : 0..(n - 1) \cup {None}, members : Seq(0..(n - 1))]
    BY DEF Stream
  <2>2. QED
    BY <1>2, <2>1 DEF Good, Typed
<1>7. Shape(n, ee)
  BY <1>3, <1>4, <1>5 DEF Good, Shape
<1>8. Depths(n, ee)
  <2> SUFFICES ASSUME NEW i \in 0..(n - 1)
               PROVE  /\ ee[i].depth <= MAX_DEPTH
                      /\ ee[i].base = None => ee[i].depth = 0
                      /\ ee[i].base # None =>
                           /\ ee[i].base \in 0..(i - 1)
                           /\ ee[ee[i].base].kind = "large"
                           /\ ee[ee[i].base].depth < ee[i].depth
    BY DEF Depths
  <2>1. CASE i = id
    BY <1>4, <2>1, DepthAssumption
  <2>2. CASE i # id
    <3>1. ee[i] = es[i]
      BY <1>3, <2>2
    <3>2. CASE es[i].base = None
      BY <3>1, <3>2 DEF Good, Depths
    <3>3. CASE es[i].base # None
      <4>1. /\ es[i].depth <= MAX_DEPTH
            /\ es[i].base \in 0..(i - 1)
            /\ es[es[i].base].kind = "large"
            /\ es[es[i].base].depth < es[i].depth
        BY <3>3 DEF Good, Depths
      <4>2. es[i].base \in 0..(n - 1)
        BY <1>1, <4>1
      <4>3. ee[es[i].base].kind = "large" /\ ee[es[i].base].depth <= es[es[i].base].depth
        BY <1>3, <1>4, <1>5, <4>1, <4>2
      <4>4. ee[es[i].base].depth < es[i].depth
        BY <1>4, <1>3, <1>5, <4>1, <4>2
      <4>5. QED
        BY <3>1, <3>3, <4>1, <4>3, <4>4
    <3>4. QED
      BY <3>2, <3>3
  <2>3. QED
    BY <2>1, <2>2
<1>9. Streams(n, ee, dd, q)
  <2>1. DOMAIN dd = DOMAIN d
    OBVIOUS
  <2>2. dd[id].of = id /\ dd[id].base = None
    BY DEF Stream
  <2>3. \A i \in DOMAIN d : i # id => dd[i] = d[i]
    OBVIOUS
  <2>4. QED
    BY <1>3, <1>4, <2>1, <2>2, <2>3 DEF Good, Streams, Kept
<1>10. Packs(n, ee, dd, p)
  <2>1. \A k \in 1..Len(p) : p[k] \in 0..(n - 1)
    BY DEF Good, Typed
  <2>2. \A i \in 0..(n - 1) : es[i].pack \in DOMAIN d => es[i].pack # id
    BY DEF Good, Typed, Shape
  <2>3. QED
    BY <1>3, <2>1, <2>2 DEF Good, Packs
<1>11. QED
  BY <1>6, <1>7, <1>8, <1>9, <1>10 DEF Good

\* A large object is added, on its way to the backend, over nothing or over a
\* large object under the cap that is kept.
LEMMA GoodPushLarge ==
  ASSUME NEW n, NEW es, NEW d, NEW q, NEW p, Good(n, es, d, q, p),
         NEW b, b = None \/ b \in 0..(n - 1),
         b # None => es[b].kind = "large" /\ es[b].depth < MAX_DEPTH /\ Kept(d, q, b),
         NEW f \in 0..n, f # n => es[f].kind = "large"
  PROVE  Good(n + 1, Push(es, n, Large(b, DepthOver(es, b), f)), d,
              [i \in DOMAIN q \cup {n} |-> IF i = n THEN b ELSE q[i]], p)
<1> DEFINE e == Large(b, DepthOver(es, b), f)
           ee == Push(es, n, e)
           qq == [i \in DOMAIN q \cup {n} |-> IF i = n THEN b ELSE q[i]]
<1>1. n \in Nat /\ es \in [0..(n - 1) -> Entry(n)] /\ None \notin Nat /\ 0..n = 0..((n + 1) - 1)
  BY NoneAssumption DEF Good, Typed
<1>2. /\ DOMAIN ee = 0..n
      /\ ee[n] = e
      /\ \A i \in 0..(n - 1) : i # n /\ i \in 0..n /\ ee[i] = es[i]
  BY <1>1 DEF Push
<1>3. /\ e.kind = "large" /\ e.base = b /\ e.family = f /\ e.pack = None
      /\ e.deleted = FALSE /\ e.at = 0 /\ e.depth = DepthOver(es, b)
  BY DEF Large
<1>4. /\ b = None => e.depth = 0
      /\ b # None => e.depth = es[b].depth + 1 /\ es[b].depth \in Nat
  BY <1>1, <1>3 DEF DepthOver, Entry
<1>5. e.depth \in Nat /\ e.depth <= MAX_DEPTH
  BY <1>4, DepthAssumption
<1>6. Typed(n + 1, ee, d, qq, p)
  <2>1. e \in Entry(n + 1)
    BY <1>1, <1>5 DEF Entry, Large
  <2>2. \A x \in Entry(n) : x \in Entry(n + 1)
    BY SMTT(40), <1>1 DEF Entry
  <2>3. ee \in [0..n -> Entry(n + 1)]
    BY <1>1, <2>1, <2>2 DEF Push
  <2>4. 0..(n - 1) \subseteq 0..n
    BY <1>1
  <2>5. Seq(0..(n - 1)) \subseteq Seq(0..n)
    BY <2>4, SeqMonotonic
  <2>6. QED
    BY <1>1, <2>3, <2>4, <2>5 DEF Good, Typed
<1>7. Shape(n + 1, ee)
  <2>1. \A i \in 0..(n - 1) :
          /\ es[i].family \in 0..(n - 1)
          /\ es[i].pack \in 0..n => es[i].pack \in 0..(n - 1)
    <3> SUFFICES ASSUME NEW i \in 0..(n - 1)
                 PROVE  /\ es[i].family \in 0..(n - 1)
                        /\ es[i].pack \in 0..n => es[i].pack \in 0..(n - 1)
      OBVIOUS
    <3>1. es[i] \in Entry(n)
      BY <1>1
    <3>2. None \notin 0..n /\ Open \notin 0..n
      BY <1>1, NoneAssumption
    <3>3. QED
      BY <3>1, <3>2 DEF Entry
  <2>2. n \in Nat /\ \A i \in 0..n : i = n \/ i \in 0..(n - 1)
    BY <1>1
  <2>3. ee[f].kind = "large"
    BY <1>1, <1>2, <1>3
  <2>4. ASSUME NEW i \in 0..n
        PROVE  /\ ee[i].kind = "large" => ee[i].pack = None /\ ee[ee[i].family].kind = "large"
               /\ ee[i].kind = "small" => ee[i].base = None /\ ee[i].pack # None
               /\ ee[i].kind = "pack" => ee[i].base = None /\ ee[i].pack = None
               /\ ee[i].pack \in 0..n => ee[ee[i].pack].kind = "pack"
    <3>1. CASE i = n
      <4>1. None \notin 0..n
        BY <1>1
      <4>2. ee[i] = e
        BY <1>2, <3>1
      <4>3. ee[i].kind = "large" /\ ee[i].pack = None /\ ee[ee[i].family].kind = "large"
        BY <1>3, <2>3, <4>2
      <4>4. QED
        BY <4>1, <4>3
    <3>2. CASE i \in 0..(n - 1)
      BY <1>2, <2>1, <3>2 DEF Good, Shape
    <3>3. QED
      BY <2>2, <3>1, <3>2
  <2>5. QED
    BY <1>1, <2>4 DEF Shape
<1>8. Depths(n + 1, ee)
  <2> SUFFICES ASSUME NEW i \in 0..n
               PROVE  /\ ee[i].depth <= MAX_DEPTH
                      /\ ee[i].base = None => ee[i].depth = 0
                      /\ ee[i].base # None =>
                           /\ ee[i].base \in 0..(i - 1)
                           /\ ee[ee[i].base].kind = "large"
                           /\ ee[ee[i].base].depth < ee[i].depth
    BY <1>1 DEF Depths
  <2>1. CASE i = n
    BY <1>1, <1>2, <1>3, <1>4, <1>5, <2>1
  <2>2. CASE i \in 0..(n - 1)
    BY <1>1, <1>2, <2>2 DEF Good, Depths
  <2>3. QED
    BY <1>1, <2>1, <2>2
<1>9. Streams(n + 1, ee, d, qq)
  <2>1. \A i : Kept(d, qq, i) <=> Kept(d, q, i) \/ i = n
    BY DEF Kept
  <2>2. DOMAIN d \subseteq 0..(n - 1) /\ DOMAIN q \subseteq 0..(n - 1)
    BY DEF Good, Typed
  <2>3. \A i \in DOMAIN qq : ee[i].kind = "large" /\ qq[i] = ee[i].base
    BY <1>2, <1>3, <2>2 DEF Good, Streams
  <2>4. ASSUME NEW i \in 0..n, ee[i].kind = "large"
        PROVE  /\ i \in DOMAIN d => d[i].of = i /\ d[i].base = ee[i].base
               /\ ~ee[i].deleted => Kept(d, qq, i)
               /\ Kept(d, qq, i) /\ ee[i].base # None => Kept(d, qq, ee[i].base)
    <3>1. CASE i = n
      BY <1>1, <1>2, <1>3, <2>1, <2>2, <3>1
    <3>2. CASE i \in 0..(n - 1)
      <4>1. i # n /\ ee[i] = es[i]
        BY <1>2, <3>2
      <4>2. QED
        BY <2>1, <2>4, <3>2, <4>1 DEF Good, Streams
    <3>3. QED
      BY <1>1, <3>1, <3>2
  <2>5. QED
    BY <1>1, <2>3, <2>4 DEF Streams
<1>10. Packs(n + 1, ee, d, p)
  <2>1. \A k \in 1..Len(p) : p[k] \in 0..(n - 1)
    BY DEF Good, Typed
  <2>2. \A i \in 0..n : ee[i].kind = "small" => i \in 0..(n - 1)
    BY <1>1, <1>2, <1>3
  <2>3. QED
    BY <1>1, <1>2, <2>1, <2>2 DEF Good, Packs
<1>11. QED
  BY <1>6, <1>7, <1>8, <1>9, <1>10 DEF Good

\* A small object joins the open pack.
LEMMA GoodPushSmall ==
  ASSUME NEW n, NEW es, NEW d, NEW q, NEW p, Good(n, es, d, q, p), NEW at \in Nat
  PROVE  Good(n + 1, Push(es, n, Small(n, at)), d, q, Append(p, n))
<1> DEFINE e == Small(n, at)
           ee == Push(es, n, e)
           pp == Append(p, n)
<1>1. /\ n \in Nat /\ es \in [0..(n - 1) -> Entry(n)] /\ None \notin 0..n /\ Open \notin 0..n
      /\ None # Open /\ 0..n = 0..((n + 1) - 1)
      /\ \A i \in 0..n : i = n \/ i \in 0..(n - 1)
  BY NoneAssumption DEF Good, Typed
<1>2. /\ DOMAIN ee = 0..n
      /\ ee[n] = e
      /\ \A i \in 0..(n - 1) : i # n /\ i \in 0..n /\ ee[i] = es[i]
  BY <1>1 DEF Push
<1>3. /\ e.kind = "small" /\ e.base = None /\ e.family = n /\ e.pack = Open
      /\ e.deleted = FALSE /\ e.at = at /\ e.depth = 0
  BY DEF Small
<1>4. p \in Seq(0..n) /\ Len(p) \in Nat /\ \A k \in 1..Len(p) : p[k] \in 0..(n - 1)
  <2>1. p \in Seq(0..(n - 1)) /\ 0..(n - 1) \subseteq 0..n
    BY <1>1 DEF Good, Typed
  <2>2. p \in Seq(0..n)
    BY <2>1, SeqMonotonic
  <2>3. QED
    BY <2>1, <2>2, LenProperties, ElementOfSeq
<1>5. /\ pp \in Seq(0..n) /\ Len(pp) = Len(p) + 1 /\ pp[Len(p) + 1] = n
      /\ \A k \in 1..Len(p) : pp[k] = p[k]
  BY <1>1, <1>4
<1>6. \A i \in 0..(n - 1) :
        /\ es[i].family \in 0..(n - 1)
        /\ es[i].pack \in 0..n => es[i].pack \in 0..(n - 1)
  <2> SUFFICES ASSUME NEW i \in 0..(n - 1)
               PROVE  /\ es[i].family \in 0..(n - 1)
                      /\ es[i].pack \in 0..n => es[i].pack \in 0..(n - 1)
    OBVIOUS
  <2>1. es[i] \in Entry(n)
    BY <1>1
  <2>2. QED
    BY <2>1, <1>1 DEF Entry
<1>7. Typed(n + 1, ee, d, q, pp)
  <2>1. e \in Entry(n + 1)
    BY <1>1 DEF Entry, Small
  <2>2. \A x \in Entry(n) : x \in Entry(n + 1)
    BY SMTT(40), <1>1 DEF Entry
  <2>3. ee \in [0..n -> Entry(n + 1)]
    BY <1>1, <2>1, <2>2 DEF Push
  <2>4. 0..(n - 1) \subseteq 0..n
    BY <1>1
  <2>5. Seq(0..(n - 1)) \subseteq Seq(0..n)
    BY <2>4, SeqMonotonic
  <2>6. QED
    BY <1>1, <1>5, <2>3, <2>4, <2>5 DEF Good, Typed
<1>8. Shape(n + 1, ee)
  <2>1. ASSUME NEW i \in 0..n
        PROVE  /\ ee[i].kind = "large" => ee[i].pack = None /\ ee[ee[i].family].kind = "large"
               /\ ee[i].kind = "small" => ee[i].base = None /\ ee[i].pack # None
               /\ ee[i].kind = "pack" => ee[i].base = None /\ ee[i].pack = None
               /\ ee[i].pack \in 0..n => ee[ee[i].pack].kind = "pack"
    <3>1. CASE i = n
      BY <1>1, <1>2, <1>3, <3>1
    <3>2. CASE i \in 0..(n - 1)
      BY <1>2, <1>6, <3>2 DEF Good, Shape
    <3>3. QED
      BY <1>1, <3>1, <3>2
  <2>2. QED
    BY <1>1, <2>1 DEF Shape
<1>9. Depths(n + 1, ee)
  <2> SUFFICES ASSUME NEW i \in 0..n
               PROVE  /\ ee[i].depth <= MAX_DEPTH
                      /\ ee[i].base = None => ee[i].depth = 0
                      /\ ee[i].base # None =>
                           /\ ee[i].base \in 0..(i - 1)
                           /\ ee[ee[i].base].kind = "large"
                           /\ ee[ee[i].base].depth < ee[i].depth
    BY <1>1 DEF Depths
  <2>1. CASE i = n
    BY <1>2, <1>3, <2>1, DepthAssumption
  <2>2. CASE i \in 0..(n - 1)
    BY <1>1, <1>2, <2>2 DEF Good, Depths
  <2>3. QED
    BY <1>1, <2>1, <2>2
<1>10. Streams(n + 1, ee, d, q)
  <2>1. \A i \in DOMAIN q : i \in 0..(n - 1)
    BY DEF Good, Typed
  <2>2. \A i \in 0..n : ee[i].kind = "large" => i \in 0..(n - 1)
    BY <1>1, <1>2, <1>3
  <2>3. QED
    BY <1>1, <1>2, <2>1, <2>2 DEF Good, Streams
<1>11. Packs(n + 1, ee, d, pp)
  <2>1. ASSUME NEW k \in 1..Len(pp)
        PROVE  ee[pp[k]].kind = "small" /\ ee[pp[k]].pack = Open
    <3>1. CASE k = Len(p) + 1
      BY <1>2, <1>3, <1>5, <3>1
    <3>2. CASE k \in 1..Len(p)
      BY <1>2, <1>4, <1>5, <3>2 DEF Good, Packs
    <3>3. QED
      BY <1>4, <1>5, <3>1, <3>2
  <2>2. ASSUME NEW i \in 0..n, ee[i].kind = "small"
        PROVE  /\ ee[i].pack = Open => \E k \in 1..Len(pp) : pp[k] = i
               /\ ee[i].pack # Open /\ ~ee[i].deleted =>
                    /\ ee[i].pack \in DOMAIN d
                    /\ ee[i].at \in 1..Len(d[ee[i].pack].members)
                    /\ d[ee[i].pack].members[ee[i].at] = i
    <3>1. CASE i = n
      BY <1>2, <1>3, <1>4, <1>5, <3>1
    <3>2. CASE i \in 0..(n - 1)
      <4>1. ee[i] = es[i]
        BY <1>2, <3>2
      <4>2. es[i].pack = Open => \E k \in 1..Len(pp) : pp[k] = i
        <5>1. es[i].pack = Open => \E k \in 1..Len(p) : p[k] = i
          BY <2>2, <3>2, <4>1 DEF Good, Packs
        <5>2. \A k \in 1..Len(p) : k \in 1..Len(pp)
          BY <1>4, <1>5
        <5>3. QED
          BY <1>5, <5>1, <5>2
      <4>3. QED
        BY <2>2, <3>2, <4>1, <4>2 DEF Good, Packs
    <3>3. QED
      BY <1>1, <3>1, <3>2
  <2>3. QED
    BY <1>1, <2>1, <2>2 DEF Packs
<1>12. QED
  BY <1>7, <1>8, <1>9, <1>10, <1>11 DEF Good

\* The open pack is written as object n, and its members find their place.
LEMMA GoodPack ==
  ASSUME NEW n, NEW es, NEW d, NEW q, NEW p, Good(n, es, d, q, p)
  PROVE  Good(n + 1, Packed(es, n, p), WithPack(d, n, p), q, <<>>)
<1> DEFINE ee == Packed(es, n, p)
           dd == WithPack(d, n, p)
           In(i) == \E k \in 1..Len(p) : p[k] = i
           Place(i) == CHOOSE k \in 1..Len(p) : p[k] = i
<1>1. /\ n \in Nat /\ es \in [0..(n - 1) -> Entry(n)] /\ None \notin 0..n /\ Open \notin 0..n
      /\ None # Open /\ 0..n = 0..((n + 1) - 1) /\ n \notin 0..(n - 1)
      /\ \A i \in 0..n : i = n \/ i \in 0..(n - 1)
      /\ \A i \in 0..(n - 1) : i \in 0..n /\ i # n
  BY NoneAssumption DEF Good, Typed
<1>2. p \in Seq(0..(n - 1)) /\ Len(p) \in Nat /\ \A k \in 1..Len(p) : p[k] \in 0..(n - 1)
  <2>1. p \in Seq(0..(n - 1))
    BY DEF Good, Typed
  <2>2. QED
    BY <2>1, LenProperties, ElementOfSeq
<1>3. \A i : In(i) => Place(i) \in 1..Len(p) /\ p[Place(i)] = i
  OBVIOUS
<1>4. DOMAIN ee = 0..n /\ ee[n] = Pack(n)
  <2>1. n \in 0..n
    BY <1>1
  <2>2. QED
    BY <2>1 DEF Packed
<1>5. \A i \in 0..(n - 1) : ee[i] = IF In(i) THEN [es[i] EXCEPT !.pack = n, !.at = Place(i)] ELSE es[i]
  BY <1>1 DEF Packed
<1>6. \A i \in 0..(n - 1) :
        /\ es[i] \in Entry(n)
        /\ ee[i].kind = es[i].kind /\ ee[i].base = es[i].base /\ ee[i].depth = es[i].depth
        /\ ee[i].family = es[i].family /\ ee[i].deleted = es[i].deleted
        /\ In(i) => ee[i].pack = n /\ ee[i].at = Place(i)
        /\ ~In(i) => ee[i] = es[i]
        /\ In(i) => es[i].kind = "small"
  <2> SUFFICES ASSUME NEW i \in 0..(n - 1)
               PROVE  /\ es[i] \in Entry(n)
                      /\ ee[i].kind = es[i].kind /\ ee[i].base = es[i].base /\ ee[i].depth = es[i].depth
                      /\ ee[i].family = es[i].family /\ ee[i].deleted = es[i].deleted
                      /\ In(i) => ee[i].pack = n /\ ee[i].at = Place(i)
                      /\ ~In(i) => ee[i] = es[i]
                      /\ In(i) => es[i].kind = "small"
    OBVIOUS
  <2>1. es[i] \in Entry(n)
    BY <1>1
  <2>2. In(i) => es[i].kind = "small"
    BY DEF Good, Packs
  <2> HIDE DEF In, Place, ee
  <2>3. QED
    BY <1>5, <2>1, <2>2 DEF Entry
<1>7. /\ Pack(n).kind = "pack" /\ Pack(n).base = None /\ Pack(n).depth = 0
      /\ Pack(n).family = n /\ Pack(n).pack = None /\ Pack(n).deleted = FALSE
  BY DEF Pack
<1>8. /\ DOMAIN dd = DOMAIN d \cup {n} /\ dd[n] = PackStream(n, p)
      /\ \A i \in DOMAIN d : i \in 0..(n - 1) /\ dd[i] = d[i]
  BY <1>1 DEF WithPack, Good, Typed
<1> HIDE DEF ee, dd, In, Place
<1>9. Typed(n + 1, ee, dd, q, <<>>)
  <2>1. Pack(n) \in Entry(n + 1)
    BY <1>1 DEF Entry, Pack
  <2>2. ASSUME NEW i \in 0..(n - 1)
        PROVE  ee[i] \in Entry(n + 1)
    <3>1. es[i] \in Entry(n + 1)
      BY <1>1, <1>6 DEF Entry
    <3>2. CASE In(i)
      <4>1. Place(i) \in Nat
        BY <1>2, <1>3, <3>2
      <4>2. n \in 0..((n + 1) - 1)
        BY <1>1
      <4>3. ee[i] = [es[i] EXCEPT !.pack = n, !.at = Place(i)]
        BY <1>5, <3>2
      <4>4. QED
        BY <3>1, <4>1, <4>2, <4>3 DEF Entry
    <3>3. CASE ~In(i)
      BY <1>6, <3>1, <3>3
    <3>4. QED
      BY <3>2, <3>3
  <2>3. ee \in [0..n -> Entry(n + 1)]
    <3>1. \A i \in 0..n : ee[i] \in Entry(n + 1)
      BY <1>1, <1>4, <2>1, <2>2
    <3>2. ee = [i \in 0..n |-> ee[i]]
      BY DEF ee, Packed
    <3>3. QED
      BY <3>1, <3>2
  <2>4. 0..(n - 1) \subseteq 0..n
    BY <1>1
  <2>5. Seq(0..(n - 1)) \subseteq Seq(0..n)
    BY <2>4, SeqMonotonic
  <2>6. PackStream(n, p) \in [of : 0..n, base : 0..n \cup {None}, members : Seq(0..n)]
    BY <1>1, <1>2, <2>5 DEF PackStream
  <2>7. \A i \in DOMAIN d :
          d[i] \in [of : 0..n, base : 0..n \cup {None}, members : Seq(0..n)]
    BY <2>4, <2>5 DEF Good, Typed
  <2>8. \A i \in DOMAIN dd :
          dd[i] \in [of : 0..n, base : 0..n \cup {None}, members : Seq(0..n)]
    BY <1>8, <2>6, <2>7
  <2>9. DOMAIN q \subseteq 0..n /\ \A i \in DOMAIN q : q[i] \in 0..n \cup {None}
    BY <2>4 DEF Good, Typed
  <2>10. QED
    BY <1>1, <1>8, <2>3, <2>4, <2>8, <2>9 DEF Typed
<1>10. Shape(n + 1, ee)
  <2>1. ASSUME NEW i \in 0..n
        PROVE  /\ ee[i].kind = "large" => ee[i].pack = None /\ ee[ee[i].family].kind = "large"
               /\ ee[i].kind = "small" => ee[i].base = None /\ ee[i].pack # None
               /\ ee[i].kind = "pack" => ee[i].base = None /\ ee[i].pack = None
               /\ ee[i].pack \in 0..n => ee[ee[i].pack].kind = "pack"
    <3>1. CASE i = n
      BY <1>1, <1>4, <1>7, <3>1
    <3>2. CASE i \in 0..(n - 1)
      <4>1. /\ es[i].kind = "large" => es[i].pack = None /\ es[es[i].family].kind = "large"
            /\ es[i].kind = "small" => es[i].base = None /\ es[i].pack # None
            /\ es[i].kind = "pack" => es[i].base = None /\ es[i].pack = None
            /\ es[i].pack \in 0..(n - 1) => es[es[i].pack].kind = "pack"
        BY <3>2 DEF Good, Shape
      <4>2. es[i].family \in 0..(n - 1) /\ es[i].pack \in 0..(n - 1) \cup {None, Open}
        BY <1>6, <3>2 DEF Entry
      <4>3. CASE In(i)
        BY <1>1, <1>4, <1>6, <1>7, <3>2, <4>1, <4>3
      <4>4. CASE ~In(i)
        <5>1. es[i].pack \in 0..n => es[i].pack \in 0..(n - 1)
          BY <1>1, <4>2
        <5>2. QED
          BY <1>6, <3>2, <4>1, <4>2, <4>4, <5>1
      <4>5. QED
        BY <4>3, <4>4
    <3>3. QED
      BY <1>1, <3>1, <3>2
  <2>2. QED
    BY <1>1, <2>1 DEF Shape
<1>11. Depths(n + 1, ee)
  <2> SUFFICES ASSUME NEW i \in 0..n
               PROVE  /\ ee[i].depth <= MAX_DEPTH
                      /\ ee[i].base = None => ee[i].depth = 0
                      /\ ee[i].base # None =>
                           /\ ee[i].base \in 0..(i - 1)
                           /\ ee[ee[i].base].kind = "large"
                           /\ ee[ee[i].base].depth < ee[i].depth
    BY <1>1 DEF Depths
  <2>1. CASE i = n
    BY <1>4, <1>7, <2>1, DepthAssumption
  <2>2. CASE i \in 0..(n - 1)
    <3>1. /\ es[i].depth <= MAX_DEPTH
          /\ es[i].base = None => es[i].depth = 0
          /\ es[i].base # None =>
               /\ es[i].base \in 0..(i - 1)
               /\ es[es[i].base].kind = "large"
               /\ es[es[i].base].depth < es[i].depth
      BY <2>2 DEF Good, Depths
    <3>2. es[i].base # None => es[i].base \in 0..(n - 1)
      BY <1>1, <2>2, <3>1
    <3>3. QED
      BY <1>6, <2>2, <3>1, <3>2
  <2>3. QED
    BY <1>1, <2>1, <2>2
<1>12. Streams(n + 1, ee, dd, q)
  <2>1. \A i : Kept(d, q, i) => Kept(dd, q, i)
    BY <1>8 DEF Kept
  <2>2. \A i \in 0..(n - 1) : Kept(dd, q, i) => Kept(d, q, i)
    BY <1>1, <1>8 DEF Kept
  <2>3. \A i \in DOMAIN q : i \in 0..(n - 1)
    BY DEF Good, Typed
  <2>4. \A i \in 0..n : ee[i].kind = "large" => i \in 0..(n - 1) /\ es[i].kind = "large"
    BY <1>1, <1>4, <1>6, <1>7
  <2>5. \A i \in DOMAIN q : ee[i].kind = "large" /\ q[i] = ee[i].base
    BY <1>6, <2>3 DEF Good, Streams
  <2>6. ASSUME NEW i \in 0..n, ee[i].kind = "large"
        PROVE  /\ i \in DOMAIN dd => dd[i].of = i /\ dd[i].base = ee[i].base
               /\ ~ee[i].deleted => Kept(dd, q, i)
               /\ Kept(dd, q, i) /\ ee[i].base # None => Kept(dd, q, ee[i].base)
    <3>1. i \in 0..(n - 1) /\ es[i].kind = "large"
      BY <2>4, <2>6
    <3>2. i \in DOMAIN dd => i \in DOMAIN d /\ dd[i] = d[i]
      BY <1>1, <1>8, <3>1
    <3>3. QED
      BY <1>6, <2>1, <2>2, <3>1, <3>2 DEF Good, Streams
  <2>7. QED
    BY <1>1, <2>5, <2>6 DEF Streams
<1>13. Packs(n + 1, ee, dd, <<>>)
  <2>1. ASSUME NEW i \in 0..n, ee[i].kind = "small"
        PROVE  /\ ee[i].pack # Open
               /\ ~ee[i].deleted =>
                    /\ ee[i].pack \in DOMAIN dd
                    /\ ee[i].at \in 1..Len(dd[ee[i].pack].members)
                    /\ dd[ee[i].pack].members[ee[i].at] = i
    <3>1. i \in 0..(n - 1) /\ es[i].kind = "small"
      BY <1>1, <1>4, <1>6, <1>7, <2>1
    <3>2. CASE In(i)
      <4>1. dd[n].members = p
        BY <1>8 DEF PackStream
      <4>2. QED
        BY <1>1, <1>3, <1>6, <1>8, <3>1, <3>2, <4>1
    <3>3. CASE ~In(i)
      <4>1. es[i].pack # Open
        BY <3>1, <3>3 DEF Good, Packs, In
      <4>2. QED
        BY <1>6, <1>8, <3>1, <3>3, <4>1 DEF Good, Packs
    <3>4. QED
      BY <3>2, <3>3
  <2>2. 1..Len(<<>>) = {}
    OBVIOUS
  <2>3. QED
    BY <1>1, <2>1, <2>2 DEF Packs
<1>14. QED
  BY <1>9, <1>10, <1>11, <1>12, <1>13 DEF Good, ee, dd

\* The chain of a large object runs through large objects at no greater
\* depth, and what keeps the object keeps them.
LEMMA ChainOfLarge ==
  ASSUME NEW n, NEW es, NEW d, NEW q, NEW p, Good(n, es, d, q, p),
         NEW i \in 0..(n - 1), es[i].kind = "large", NEW c \in ChainOf(es, i)
  PROVE  /\ c \in 0..i /\ c \in 0..(n - 1)
         /\ es[c].kind = "large"
         /\ Kept(d, q, i) => Kept(d, q, c)
<1>1. n \in Nat /\ BasesEarlier(es, n)
  BY GoodBasesEarlier DEF Good, Typed
<1>2. c \in 0..i /\ c \in 0..(n - 1)
  <2>1. c \in 0..i
    BY <1>1, ChainFacts
  <2>2. QED
    BY <1>1, <2>1
<1> DEFINE T == {j \in 0..(n - 1) : es[j].kind = "large"}
           K == {j \in T : Kept(d, q, j)}
<1>3. ClosedUnderBase(es, T) /\ ClosedUnderBase(es, K)
  <2>1. ASSUME NEW j \in T, es[j].base # None
        PROVE  es[j].base \in T /\ (Kept(d, q, j) => Kept(d, q, es[j].base))
    <3>1. es[j].base \in 0..(j - 1) /\ es[es[j].base].kind = "large"
      BY <2>1 DEF Good, Depths
    <3>2. es[j].base \in 0..(n - 1)
      BY <1>1, <3>1
    <3>3. QED
      BY <2>1, <3>1, <3>2 DEF Good, Streams
  <2>2. QED
    BY <2>1 DEF ClosedUnderBase
<1>4. c \in T
  <2>1. ChainOf(es, i) \subseteq T
    BY <1>1, <1>3, ChainLeast
  <2>2. QED
    BY <2>1
<1>5. ASSUME Kept(d, q, i) PROVE c \in K
  <2>1. i \in K
    BY <1>5
  <2>2. ChainOf(es, i) \subseteq K
    BY <1>1, <1>3, <2>1, ChainLeast
  <2>3. QED
    BY <2>2
<1>6. QED
  BY <1>2, <1>4, <1>5

\* What within_cap makes of a large candidate is large and under the cap.
LEMMA WithinCap ==
  ASSUME NEW n, NEW es, NEW d, NEW q, NEW p, Good(n, es, d, q, p),
         NEW c \in 0..(n - 1), es[c].kind = "large"
  PROVE  LET b == within_cap(es, c)
         IN  b \in 0..(n - 1) /\ es[b].kind = "large" /\ es[b].depth < MAX_DEPTH
<1>1. n \in Nat /\ BasesEarlier(es, n) /\ es \in [0..(n - 1) -> Entry(n)]
  BY GoodBasesEarlier DEF Good, Typed
<1>2. es[c].family \in 0..(n - 1) /\ es[es[c].family].kind = "large"
  BY <1>1 DEF Good, Shape, Entry
<1>3. root_of(es, c) \in ChainOf(es, c) /\ es[root_of(es, c)].base = None
  BY <1>1, ChainFacts DEF root_of
<1>4. root_of(es, c) \in 0..(n - 1) /\ es[root_of(es, c)].kind = "large"
  BY <1>3, ChainOfLarge
<1>5. es[root_of(es, c)].depth < MAX_DEPTH
  BY <1>3, <1>4, DepthAssumption DEF Good, Depths
<1>6. QED
  BY <1>2, <1>4, <1>5 DEF within_cap

\* The backend keeps what is needed and the streams under a small object's id.
LEMMA GoodCompact ==
  ASSUME NEW n, NEW es, NEW d, NEW q, NEW p, Good(n, es, d, q, p), DOMAIN q = {}
  PROVE  Good(n, es, [i \in {j \in DOMAIN d : j \in Needed(es) \/ es[j].pack # None} |-> d[i]], q, p)
<1> DEFINE dd == [i \in {j \in DOMAIN d : j \in Needed(es) \/ es[j].pack # None} |-> d[i]]
<1>1. /\ n \in Nat /\ BasesEarlier(es, n) /\ es \in [0..(n - 1) -> Entry(n)]
      /\ DOMAIN es = 0..(n - 1) /\ None # Open
  BY GoodBasesEarlier, NoneAssumption DEF Good, Typed
<1>2. Typed(n, es, dd, q, p)
  BY DEF Good, Typed
<1>3. ASSUME NEW i \in 0..(n - 1), es[i].kind = "large", ~es[i].deleted
      PROVE  i \in Needed(es)
  <2>1. i \in ChainOf(es, i)
    BY <1>1, ChainFacts
  <2>2. i \in {j \in Live(es) : es[j].pack # Open}
    BY <1>1, <1>3 DEF Live, Good, Shape
  <2>3. QED
    BY <2>1, <2>2 DEF Needed, ChainsOf
<1>4. ASSUME NEW i \in 0..(n - 1), es[i].kind = "large", i \in Needed(es), es[i].base # None
      PROVE  es[i].base \in Needed(es)
  <2>1. ~\E j \in Live(es) : es[j].pack = i
    <3> SUFFICES ASSUME NEW j \in 0..(n - 1), es[j].pack = i PROVE FALSE
      BY <1>1 DEF Live
    <3>1. es[i].kind = "pack"
      BY DEF Good, Shape
    <3>2. QED
      BY <3>1, <1>4
  <2>2. PICK j \in Live(es) : es[j].pack # Open /\ i \in ChainOf(es, j)
    BY <1>4, <2>1 DEF Needed, ChainsOf
  <2>3. es[i].base \in ChainOf(es, j)
    <3>1. j \in 0..(n - 1)
      BY <1>1, <2>2 DEF Live
    <3>2. ClosedUnderBase(es, ChainOf(es, j))
      BY <1>1, <3>1, ChainFacts
    <3>3. QED
      BY <1>4, <2>2, <3>2 DEF ClosedUnderBase
  <2>4. QED
    BY <2>2, <2>3 DEF Needed, ChainsOf
<1>5. Streams(n, es, dd, q)
  <2>1. ASSUME NEW i \in 0..(n - 1), es[i].kind = "large"
        PROVE  /\ i \in DOMAIN dd => dd[i].of = i /\ dd[i].base = es[i].base
               /\ ~es[i].deleted => Kept(dd, q, i)
               /\ Kept(dd, q, i) /\ es[i].base # None => Kept(dd, q, es[i].base)
    <3>1. /\ i \in DOMAIN d => d[i].of = i /\ d[i].base = es[i].base
          /\ ~es[i].deleted => i \in DOMAIN d
          /\ i \in DOMAIN d /\ es[i].base # None => es[i].base \in DOMAIN d
          /\ es[i].pack = None
      BY <2>1 DEF Good, Streams, Shape, Kept
    <3>2. i \in DOMAIN dd <=> i \in DOMAIN d /\ i \in Needed(es)
      BY <3>1
    <3>3. i \in DOMAIN dd /\ es[i].base # None => es[i].base \in DOMAIN dd
      BY <1>4, <2>1, <3>1, <3>2
    <3>4. QED
      BY <1>3, <2>1, <3>1, <3>2, <3>3 DEF Kept
  <2>2. QED
    BY <2>1 DEF Streams
<1>6. Packs(n, es, dd, p)
  <2>1. ASSUME NEW i \in 0..(n - 1), es[i].kind = "small", es[i].pack # Open, ~es[i].deleted
        PROVE  es[i].pack \in DOMAIN dd
    <3>1. es[i].pack \in DOMAIN d /\ es[i].pack \in 0..(n - 1)
      BY <2>1 DEF Good, Packs, Typed
    <3>2. es[i].pack \in Needed(es)
      BY <1>1, <2>1, <3>1 DEF Needed, Live
    <3>3. QED
      BY <3>1, <3>2
  <2>2. QED
    BY <2>1 DEF Good, Packs
<1>7. QED
  BY <1>2, <1>5, <1>6 DEF Good

\* Live heads at the cap are stored again against what lift allows.
LEMMA GoodLift ==
  ASSUME NEW n, NEW es, NEW d, NEW q, NEW p, Good(n, es, d, q, p), NEW to,
         DOMAIN to # {} => DOMAIN q = {},
         \A h \in DOMAIN to : /\ h \in LiveLarge(es)
                              /\ es[h].depth >= MAX_DEPTH
                              /\ to[h] \in LiftBases(es, h)
  PROVE  Good(n, lift(es, to), LiftedDisk(d, to), q, p)
<1> DEFINE ee == lift(es, to)
           dd == LiftedDisk(d, to)
<1>1. /\ n \in Nat /\ BasesEarlier(es, n) /\ es \in [0..(n - 1) -> Entry(n)]
      /\ DOMAIN es = 0..(n - 1) /\ MAX_DEPTH \in Nat /\ MAX_DEPTH > 2 /\ None \notin Nat
  BY GoodBasesEarlier, DepthAssumption, NoneAssumption DEF Good, Typed
<1>2. \A h \in DOMAIN to :
        h \in 0..(n - 1) /\ es[h].kind = "large" /\ ~es[h].deleted /\ es[h].depth >= MAX_DEPTH
  BY <1>1 DEF LiveLarge, Live
<1>3. ASSUME NEW h \in DOMAIN to, to[h] # None
      PROVE  /\ to[h] \in 0..(h - 1) /\ to[h] \in 0..(n - 1)
             /\ es[to[h]].kind = "large" /\ es[to[h]].depth <= 1
             /\ to[h] \notin DOMAIN to
             /\ Kept(d, q, to[h])
  <2>1. to[h] \in ChainOf(es, h) /\ to[h] # h /\ es[to[h]].depth <= 1
    BY <1>3 DEF LiftBases
  <2>2. Kept(d, q, h)
    BY <1>2 DEF Good, Streams
  <2>3. to[h] \in 0..h /\ to[h] \in 0..(n - 1) /\ es[to[h]].kind = "large" /\ Kept(d, q, to[h])
    BY <1>2, <2>1, <2>2, ChainOfLarge
  <2>4. es[to[h]].depth \in Nat
    BY <1>1, <2>3 DEF Entry
  <2>5. to[h] \in 0..(h - 1)
    BY <1>1, <1>2, <2>1, <2>3
  <2>6. QED
    BY <1>1, <1>2, <2>1, <2>3, <2>4, <2>5
<1>4. \A i \in 0..(n - 1) :
        /\ i \notin DOMAIN to => ee[i] = es[i]
        /\ i \in DOMAIN to => ee[i] = [es[i] EXCEPT !.base = to[i], !.depth = DepthOver(es, to[i])]
        /\ es[i] \in Entry(n)
  BY <1>1 DEF lift
<1>5. \A i \in DOMAIN to :
        /\ DepthOver(es, to[i]) \in 0..2
        /\ to[i] = None => DepthOver(es, to[i]) = 0
        /\ to[i] # None => es[to[i]].depth < DepthOver(es, to[i])
        /\ to[i] \in 0..(n - 1) \cup {None}
  <2> SUFFICES ASSUME NEW i \in DOMAIN to
               PROVE  /\ DepthOver(es, to[i]) \in 0..2
                      /\ to[i] = None => DepthOver(es, to[i]) = 0
                      /\ to[i] # None => es[to[i]].depth < DepthOver(es, to[i])
                      /\ to[i] \in 0..(n - 1) \cup {None}
    OBVIOUS
  <2>1. CASE to[i] = None
    BY <2>1 DEF DepthOver
  <2>2. CASE to[i] # None
    <3>1. to[i] \in 0..(n - 1) /\ es[to[i]].depth <= 1
      BY <1>3, <2>2
    <3>2. es[to[i]].depth \in Nat
      BY <1>1, <3>1 DEF Entry
    <3>3. QED
      BY <2>2, <3>1, <3>2 DEF DepthOver
  <2>3. QED
    BY <2>1, <2>2
<1>6. \A i \in 0..(n - 1) :
        /\ ee[i].kind = es[i].kind /\ ee[i].family = es[i].family /\ ee[i].pack = es[i].pack
        /\ ee[i].at = es[i].at /\ ee[i].deleted = es[i].deleted
        /\ ee[i].base = IF i \in DOMAIN to THEN to[i] ELSE es[i].base
        /\ ee[i].depth = IF i \in DOMAIN to THEN DepthOver(es, to[i]) ELSE es[i].depth
        /\ es[i].depth \in Nat /\ es[i].family \in 0..(n - 1)
  <2> SUFFICES ASSUME NEW i \in 0..(n - 1)
               PROVE  /\ ee[i].kind = es[i].kind /\ ee[i].family = es[i].family
                      /\ ee[i].pack = es[i].pack
                      /\ ee[i].at = es[i].at /\ ee[i].deleted = es[i].deleted
                      /\ ee[i].base = IF i \in DOMAIN to THEN to[i] ELSE es[i].base
                      /\ ee[i].depth = IF i \in DOMAIN to THEN DepthOver(es, to[i]) ELSE es[i].depth
                      /\ es[i].depth \in Nat /\ es[i].family \in 0..(n - 1)
    OBVIOUS
  <2> HIDE DEF ee
  <2>1. es[i] \in Entry(n)
    BY <1>4
  <2>2. CASE i \in DOMAIN to
    <3>1. ee[i] = [es[i] EXCEPT !.base = to[i], !.depth = DepthOver(es, to[i])]
      BY <1>4, <2>2
    <3>2. QED
      BY <2>1, <2>2, <3>1 DEF Entry
  <2>3. CASE i \notin DOMAIN to
    <3>1. ee[i] = es[i]
      BY <1>4, <2>3
    <3>2. QED
      BY <2>1, <2>3, <3>1 DEF Entry
  <2>4. QED
    BY <2>2, <2>3
<1>7. /\ DOMAIN dd = DOMAIN d \cup DOMAIN to
      /\ \A i \in DOMAIN to : dd[i] = Stream(i, to[i])
      /\ \A i \in DOMAIN d : i \notin DOMAIN to => dd[i] = d[i]
  BY DEF LiftedDisk
<1>8. ee = [i \in 0..(n - 1) |-> ee[i]]
  BY <1>1 DEF lift
<1> HIDE DEF ee, dd
<1>9. Typed(n, ee, dd, q, p)
  <2>1. ASSUME NEW i \in 0..(n - 1)
        PROVE  ee[i] \in Entry(n)
    <3>1. CASE i \in DOMAIN to
      <4>1. DepthOver(es, to[i]) \in Nat
        BY <1>5, <3>1
      <4>2. ee[i] = [es[i] EXCEPT !.base = to[i], !.depth = DepthOver(es, to[i])] /\ es[i] \in Entry(n)
        BY <1>4, <3>1
      <4>3. to[i] \in 0..(n - 1) \cup {None}
        BY <1>5, <3>1
      <4>4. QED
        BY <4>1, <4>2, <4>3 DEF Entry
    <3>2. CASE i \notin DOMAIN to
      BY <1>4, <3>2
    <3>3. QED
      BY <3>1, <3>2
  <2>2. ee \in [0..(n - 1) -> Entry(n)]
    BY <1>8, <2>1
  <2>3. ASSUME NEW i \in DOMAIN to
        PROVE  Stream(i, to[i]) \in [of : 0..(n - 1), base : 0..(n - 1) \cup {None}, members : Seq(0..(n - 1))]
    BY <1>2, <1>5 DEF Stream
  <2>4. \A i \in DOMAIN dd :
          dd[i] \in [of : 0..(n - 1), base : 0..(n - 1) \cup {None}, members : Seq(0..(n - 1))]
    BY <1>7, <2>3 DEF Good, Typed
  <2>5. QED
    BY <1>2, <1>7, <2>2, <2>4 DEF Good, Typed
<1>10. Shape(n, ee)
  BY <1>2, <1>6 DEF Good, Shape
<1>11. Depths(n, ee)
  <2> SUFFICES ASSUME NEW i \in 0..(n - 1)
               PROVE  /\ ee[i].depth <= MAX_DEPTH
                      /\ ee[i].base = None => ee[i].depth = 0
                      /\ ee[i].base # None =>
                           /\ ee[i].base \in 0..(i - 1)
                           /\ ee[ee[i].base].kind = "large"
                           /\ ee[ee[i].base].depth < ee[i].depth
    BY DEF Depths
  <2>1. CASE i \in DOMAIN to
    BY SMTT(40), <1>1, <1>3, <1>5, <1>6, <2>1
  <2>2. CASE i \notin DOMAIN to
    <3>1. /\ es[i].depth <= MAX_DEPTH
          /\ es[i].base = None => es[i].depth = 0
          /\ es[i].base # None =>
               /\ es[i].base \in 0..(i - 1)
               /\ es[es[i].base].kind = "large"
               /\ es[es[i].base].depth < es[i].depth
      BY DEF Good, Depths
    <3>2. es[i].base # None => es[i].base \in 0..(n - 1)
      BY <1>1, <3>1
    <3>3. es[i].base # None => es[i].base \notin DOMAIN to
      BY <1>1, <1>2, <1>6, <3>1, <3>2
    <3>4. QED
      BY SMTT(40), <1>6, <2>2, <3>1, <3>2, <3>3
  <2>3. QED
    BY <2>1, <2>2
<1>12. Streams(n, ee, dd, q)
  <2>1. \A i : Kept(d, q, i) => Kept(dd, q, i)
    BY <1>7 DEF Kept
  <2>2. \A i : Kept(dd, q, i) => Kept(d, q, i)
    <3>1. \A i \in DOMAIN to : Kept(d, q, i)
      BY <1>2 DEF Good, Streams
    <3>2. QED
      BY <1>7, <3>1 DEF Kept
  <2>3. \A i \in DOMAIN q : i \in 0..(n - 1) /\ i \notin DOMAIN to
    BY DEF Good, Typed
  <2>4. \A i \in DOMAIN q : ee[i].kind = "large" /\ q[i] = ee[i].base
    BY <1>6, <2>3 DEF Good, Streams
  <2>5. ASSUME NEW i \in 0..(n - 1), ee[i].kind = "large"
        PROVE  /\ i \in DOMAIN dd => dd[i].of = i /\ dd[i].base = ee[i].base
               /\ ~ee[i].deleted => Kept(dd, q, i)
               /\ Kept(dd, q, i) /\ ee[i].base # None => Kept(dd, q, ee[i].base)
    <3>1. /\ i \in DOMAIN d => d[i].of = i /\ d[i].base = es[i].base
          /\ ~es[i].deleted => Kept(d, q, i)
          /\ Kept(d, q, i) /\ es[i].base # None => Kept(d, q, es[i].base)
      BY <1>6, <2>5 DEF Good, Streams
    <3>2. CASE i \in DOMAIN to
      BY <1>3, <1>6, <1>7, <2>1, <2>2, <3>1, <3>2 DEF Stream
    <3>3. CASE i \notin DOMAIN to
      BY <1>6, <1>7, <2>1, <2>2, <3>1, <3>3
    <3>4. QED
      BY <3>2, <3>3
  <2>6. QED
    BY <2>4, <2>5 DEF Streams
<1>13. Packs(n, ee, dd, p)
  <2>1. \A k \in 1..Len(p) : p[k] \in 0..(n - 1)
    BY DEF Good, Typed
  <2>2. \A i \in 0..(n - 1) : es[i].pack \in DOMAIN d => es[i].pack \notin DOMAIN to
    <3> SUFFICES ASSUME NEW i \in 0..(n - 1), es[i].pack \in DOMAIN d
                 PROVE  es[i].pack \notin DOMAIN to
      OBVIOUS
    <3>1. es[es[i].pack].kind = "pack"
      BY DEF Good, Typed, Shape
    <3>2. QED
      BY <1>2, <3>1
  <2>3. ASSUME NEW i \in 0..(n - 1), ee[i].kind = "small"
        PROVE  /\ ee[i].pack = Open => \E k \in 1..Len(p) : p[k] = i
               /\ ee[i].pack # Open /\ ~ee[i].deleted =>
                    /\ ee[i].pack \in DOMAIN dd
                    /\ ee[i].at \in 1..Len(dd[ee[i].pack].members)
                    /\ dd[ee[i].pack].members[ee[i].at] = i
    <3>1. /\ es[i].pack = Open => \E k \in 1..Len(p) : p[k] = i
          /\ es[i].pack # Open /\ ~es[i].deleted =>
               /\ es[i].pack \in DOMAIN d
               /\ es[i].at \in 1..Len(d[es[i].pack].members)
               /\ d[es[i].pack].members[es[i].at] = i
      BY <1>6, <2>3 DEF Good, Packs
    <3>2. es[i].pack \in DOMAIN d => es[i].pack \in DOMAIN dd /\ dd[es[i].pack] = d[es[i].pack]
      BY <1>7, <2>2
    <3>3. ee[i].pack = es[i].pack /\ ee[i].at = es[i].at /\ ee[i].deleted = es[i].deleted
      BY <1>6
    <3>4. QED
      BY <3>1, <3>2, <3>3
  <2>4. \A k \in 1..Len(p) : ee[p[k]].kind = "small" /\ ee[p[k]].pack = Open
    BY <1>6, <2>1 DEF Good, Packs
  <2>5. QED
    BY <2>3, <2>4 DEF Packs
<1>14. QED
  BY <1>9, <1>10, <1>11, <1>12, <1>13 DEF Good, ee, dd

-----------------------------------------------------------------------------
(* Every step of Store keeps the invariant.                                *)

LEMMA PutLargeInv == IInv /\ PutLarge => IInv'
<1> SUFFICES ASSUME IInv, PutLarge PROVE IInv'
  OBVIOUS
<1>1. PICK scored \in {S \in SUBSET LiveLarge(entries) : Cardinality(S) <= 2} :
        \E to \in [HeadsToLift(entries, scored) -> {None} \cup Ids] : PutWith(scored, to)
  BY DEF PutLarge
<1>2. PICK to \in [HeadsToLift(entries, scored) -> {None} \cup Ids] : PutWith(scored, to)
  BY <1>1
<1> DEFINE es == lift(entries, to)
           d  == LiftedDisk(disk, to)
           cands == {within_cap(es, c) : c \in scored}
<1>3. Good(len, es, d, queue, pending)
  <2>1. \A h \in DOMAIN to : /\ h \in LiveLarge(entries)
                             /\ entries[h].depth >= MAX_DEPTH
                             /\ to[h] \in LiftBases(entries, h)
    BY <1>2 DEF PutWith, HeadsToLift
  <2>2. DOMAIN to # {} => DOMAIN queue = {}
    BY <1>2 DEF PutWith, wait_all
  <2>3. QED
    BY <2>1, <2>2, GoodLift DEF IInv
<1>4. /\ len < MaxLen /\ disk' = d /\ pending' = pending
      /\ scored \subseteq LiveLarge(entries)
  BY <1>2 DEF PutWith
<1>5. PICK fetched \in SUBSET cands :
        \/ /\ \A b \in fetched : fetch_ok(es, d, b)
           /\ PushLarge(es, fetched)
        \/ entries' = es /\ UNCHANGED <<len, queue>>
  BY <1>2 DEF PutWith
<1> HIDE DEF es, d
<1>6. len \in Nat /\ es \in [0..(len - 1) -> Entry(len)] /\ MaxLen \in Nat
  BY <1>3, LenAssumption DEF Good, Typed
<1>7. CASE entries' = es /\ UNCHANGED <<len, queue>>
  BY <1>3, <1>4, <1>7 DEF IInv
<1>8. CASE (\A b \in fetched : fetch_ok(es, d, b)) /\ PushLarge(es, fetched)
  <2>1. PICK b \in fetched \cup {None}, version \in BOOLEAN :
          /\ entries' = Push(es, len,
                             Large(b, DepthOver(es, b),
                                   IF b # None /\ version THEN es[b].family ELSE len))
          /\ queue' = [i \in DOMAIN queue \cup {len} |-> IF i = len THEN b ELSE queue[i]]
    BY <1>8 DEF PushLarge
  <2>2. len' = len + 1
    BY <1>8 DEF PushLarge
  <2>3. ASSUME b # None
        PROVE  /\ b \in 0..(len - 1) /\ es[b].kind = "large" /\ es[b].depth < MAX_DEPTH
               /\ Kept(d, queue, b)
    <3>1. b \in fetched /\ b \in cands
      BY <2>1, <2>3
    <3>2. PICK c \in scored : b = within_cap(es, c)
      BY <3>1
    <3>3. c \in 0..(len - 1) /\ entries[c].kind = "large"
      BY <1>4 DEF LiveLarge, Live, IInv, Good, Typed
    <3>4. es[c].kind = "large"
      <4>1. c \in DOMAIN entries /\ entries[c] \in Entry(len)
        BY <3>3 DEF IInv, Good, Typed
      <4>2. QED
        BY <3>3, <4>1 DEF es, lift, Entry
    <3>5. b \in 0..(len - 1) /\ es[b].kind = "large" /\ es[b].depth < MAX_DEPTH
      BY <1>3, <3>2, <3>3, <3>4, WithinCap
    <3>6. b \in ChainOf(es, b)
      <4>1. BasesEarlier(es, len)
        BY <1>3, <1>6, GoodBasesEarlier DEF Good
      <4>2. QED
        BY <3>5, <4>1, ChainFacts
    <3>7. b \in DOMAIN d
      BY <1>8, <3>1, <3>6 DEF fetch_ok
    <3>8. QED
      BY <3>5, <3>7 DEF Kept
  <2> DEFINE f == IF b # None /\ version THEN es[b].family ELSE len
  <2>4. f \in 0..len /\ (f # len => es[f].kind = "large")
    <3>1. CASE b # None /\ version
      <4>1. es[b].family \in 0..(len - 1) /\ es[es[b].family].kind = "large"
        BY <1>3, <1>6, <2>3, <3>1 DEF Good, Shape, Entry
      <4>2. QED
        BY <1>6, <3>1, <4>1
    <3>2. CASE ~(b # None /\ version)
      BY <1>6, <3>2
    <3>3. QED
      BY <3>1, <3>2
  <2> HIDE DEF f
  <2>5. Good(len + 1, Push(es, len, Large(b, DepthOver(es, b), f)), d,
             [i \in DOMAIN queue \cup {len} |-> IF i = len THEN b ELSE queue[i]], pending)
    <3>1. b = None \/ b \in 0..(len - 1)
      BY <2>3
    <3>2. b # None => es[b].kind = "large" /\ es[b].depth < MAX_DEPTH /\ Kept(d, queue, b)
      BY <2>3
    <3>4. Good(len, es, d, queue, pending) /\ f \in 0..len /\ (f # len => es[f].kind = "large")
      BY <1>3, <2>4
    <3>5. \A x : (x = None \/ x \in 0..(len - 1))
                 /\ (x # None => es[x].kind = "large" /\ es[x].depth < MAX_DEPTH /\ Kept(d, queue, x))
                 => Good(len + 1, Push(es, len, Large(x, DepthOver(es, x), f)), d,
                         [i \in DOMAIN queue \cup {len} |-> IF i = len THEN x ELSE queue[i]], pending)
      <4> SUFFICES ASSUME NEW x, x = None \/ x \in 0..(len - 1),
                          x # None => es[x].kind = "large" /\ es[x].depth < MAX_DEPTH /\ Kept(d, queue, x)
                   PROVE  Good(len + 1, Push(es, len, Large(x, DepthOver(es, x), f)), d,
                               [i \in DOMAIN queue \cup {len} |-> IF i = len THEN x ELSE queue[i]], pending)
        OBVIOUS
      <4>1. QED
        BY ZenonT(60), <3>4, GoodPushLarge
    <3>3. QED
      BY <3>4, <3>5, <3>1, <3>2
  <2>6. Good(len', entries', disk', queue', pending')
    BY <1>4, <2>1, <2>2, <2>5 DEF f
  <2>7. QED
    BY <1>4, <1>6, <2>2, <2>6 DEF IInv
<1>9. QED
  BY <1>5, <1>7, <1>8

LEMMA StepInv == IInv /\ [Next]_vars => IInv'
<1> SUFFICES ASSUME IInv, [Next]_vars PROVE IInv'
  OBVIOUS
<1> USE DEF IInv
<1>0. len \in Nat /\ MaxLen \in Nat /\ DOMAIN entries = 0..(len - 1)
  BY LenAssumption DEF Good, Typed
<1>1. CASE PutLarge
  BY <1>1, PutLargeInv
<1>2. CASE PutSmall
  <2> DEFINE es == Push(entries, len, Small(len, Len(pending) + 1))
             ms == Append(pending, len)
  <2>1. Good(len + 1, es, disk, queue, ms)
    <3>1. Len(pending) + 1 \in Nat
      BY LenProperties DEF Good, Typed
    <3>2. QED
      BY <3>1, GoodPushSmall
  <2>2. CASE /\ entries' = es /\ pending' = ms /\ len' = len + 1 /\ UNCHANGED <<disk, queue>>
    BY <1>0, <1>2, <2>1, <2>2 DEF PutSmall
  <2>3. CASE /\ entries' = Packed(es, len + 1, ms) /\ disk' = WithPack(disk, len + 1, ms)
             /\ pending' = <<>> /\ len' = len + 2 /\ UNCHANGED queue
    <3>1. Good(len + 1 + 1, Packed(es, len + 1, ms), WithPack(disk, len + 1, ms), queue, <<>>)
      BY <2>1, GoodPack
    <3>2. len + 1 + 1 = len + 2 /\ len + 2 <= MaxLen
      BY <1>0, <1>2 DEF PutSmall
    <3>3. QED
      BY <2>3, <3>1, <3>2
  <2>4. QED
    BY <1>2, <2>2, <2>3 DEF PutSmall
<1>3. CASE flush
  <2>1. Good(len + 1, Packed(entries, len, pending), WithPack(disk, len, pending), queue, <<>>)
    BY GoodPack
  <2>2. QED
    BY <1>0, <1>3, <2>1 DEF flush
<1>4. CASE delete
  <2>1. PICK id \in 0..(len - 1) : entries' = [entries EXCEPT ![id].deleted = TRUE]
    BY <1>0, <1>4 DEF delete, Live
  <2>2. Good(len, entries', disk, queue, pending)
    BY <2>1, GoodDelete
  <2>3. QED
    BY <1>4, <2>2 DEF delete
<1>5. CASE compact
  <2>1. DOMAIN queue = {}
    BY <1>5 DEF compact, wait_all
  <2>2. Good(len, entries,
             [i \in {j \in DOMAIN disk : j \in Needed(entries) \/ entries[j].pack # None} |-> disk[i]],
             queue, pending)
    BY <2>1, GoodCompact
  <2>3. QED
    BY <1>5, <2>2 DEF compact
<1>6. CASE rebase
  <2>1. DOMAIN queue = {}
    BY <1>6 DEF rebase, wait_all
  <2>2. PICK id \in LiveLarge(entries) :
          /\ fetch_ok(entries, disk, id)
          /\ entries' = [entries EXCEPT ![id] = [@ EXCEPT !.base = None, !.depth = 0, !.family = id]]
          /\ disk' = [disk EXCEPT ![id] = Stream(id, None)]
    BY <1>6 DEF rebase
  <2>3. id \in 0..(len - 1) /\ entries[id].kind = "large"
    BY <1>0, <2>2 DEF LiveLarge, Live
  <2>4. id \in DOMAIN disk
    <3>1. id \in ChainOf(entries, id)
      BY <1>0, <2>3, GoodBasesEarlier, ChainFacts DEF Good
    <3>2. QED
      BY <2>2, <3>1 DEF fetch_ok
  <2>5. Good(len, entries', disk', queue, pending)
    BY <2>1, <2>2, <2>3, <2>4, GoodRebase
  <2>6. QED
    BY <1>6, <2>5 DEF rebase
<1>7. CASE WriterStep
  <2>1. PICK id \in DOMAIN queue :
          /\ disk' = [i \in DOMAIN disk \cup {id} |->
                        IF i = id THEN Stream(id, queue[id]) ELSE disk[i]]
          /\ queue' = [i \in DOMAIN queue \ {id} |-> queue[i]]
          /\ UNCHANGED <<len, entries, pending>>
    BY <1>7 DEF WriterStep
  <2>2. Good(len, entries, disk', queue', pending)
    BY <2>1, GoodWrite
  <2>3. QED
    BY <2>1, <2>2
<1>8. CASE UNCHANGED vars
  BY <1>8 DEF vars
<1>9. QED
  BY <1>1, <1>2, <1>3, <1>4, <1>5, <1>6, <1>7, <1>8 DEF Next

\* The invariant holds throughout.
THEOREM Invariance == Spec => []IInv
<1>1. Init => IInv
  BY GoodInit
<1>2. IInv /\ [Next]_vars => IInv'
  BY StepInv
<1>3. QED
  BY <1>1, <1>2, PTL DEF Spec

-----------------------------------------------------------------------------
(* What the invariant gives.                                               *)

\* Type correctness.
THEOREM TypeCorrect == Spec => []TypeOK
<1>1. IInv => TypeOK
  BY LenAssumption DEF IInv, Good, Typed, TypeOK, Ids
<1>2. QED
  BY <1>1, Invariance, PTL

\* Chains end, and never pass the cap: a base is an earlier, shallower large
\* object, whatever is lifted or rebased under it.
THEOREM DepthsAlwaysDecrease == Spec => []DepthsDecrease
<1>1. IInv => DepthsDecrease
  <2> SUFFICES ASSUME IInv, NEW i \in Ids
               PROVE  /\ entries[i].depth <= MAX_DEPTH
                      /\ entries[i].base # None =>
                           /\ entries[i].base < i
                           /\ entries[entries[i].base].kind = "large"
                           /\ entries[entries[i].base].depth < entries[i].depth
    BY DEF DepthsDecrease
  <2>1. i \in 0..(len - 1) /\ i \in Int
    BY DEF Ids
  <2>2. QED
    BY <2>1 DEF IInv, Good, Depths
<1>2. QED
  BY <1>1, Invariance, PTL

\* The claim `lift` rests on: nothing is stored against an object at the cap.
THEOREM CapAlwaysHasNoVersions == Spec => []CapHasNoVersions
<1>1. IInv => CapHasNoVersions
  <2> SUFFICES ASSUME IInv, NEW i \in Ids, entries[i].depth >= MAX_DEPTH,
                      NEW j \in Ids, entries[j].base = i
               PROVE  FALSE
    BY DEF CapHasNoVersions
  <2>1. i \in 0..(len - 1) /\ j \in 0..(len - 1) /\ i # None
    BY NoneAssumption DEF Ids, IInv, Good, Typed
  <2>2. entries[i].depth < entries[j].depth /\ entries[j].depth <= MAX_DEPTH
    BY <2>1 DEF IInv, Good, Depths
  <2>3. entries[i].depth \in Nat /\ entries[j].depth \in Nat
    BY <2>1 DEF IInv, Good, Typed, Entry
  <2>4. QED
    BY <2>2, <2>3, DepthAssumption
<1>2. QED
  BY <1>1, Invariance, PTL

\* The streams of what is kept are the ones the entries describe.
LEMMA KeptThere ==
  ASSUME IInv, NEW i \in 0..(len - 1), entries[i].kind = "large", Kept(disk, queue, i)
  PROVE  StreamThere(i)
BY DEF IInv, Good, Streams, Kept, StreamThere

LEMMA LiveChainThere ==
  ASSUME IInv, NEW i \in LiveLarge(entries)
  PROVE  /\ Cardinality(ChainOf(entries, i)) <= MAX_DEPTH + 1
         /\ \A c \in ChainOf(entries, i) : StreamThere(c)
<1>1. len \in Nat /\ BasesEarlier(entries, len) /\ entries \in [0..(len - 1) -> Entry(len)]
  BY GoodBasesEarlier DEF IInv, Good, Typed
<1>2. i \in 0..(len - 1) /\ entries[i].kind = "large" /\ Kept(disk, queue, i)
  BY <1>1 DEF LiveLarge, Live, IInv, Good, Streams
<1>3. \A c \in ChainOf(entries, i) : StreamThere(c)
  BY <1>2, ChainOfLarge, KeptThere DEF IInv
<1>4. \A j \in 0..(len - 1) :
        /\ entries[j].depth \in 0..MAX_DEPTH
        /\ entries[j].base # None => entries[entries[j].base].depth < entries[j].depth
  <2>1. \A j \in 0..(len - 1) : entries[j].depth \in Nat
    BY <1>1 DEF Entry
  <2>2. QED
    BY <2>1, DepthAssumption DEF IInv, Good, Depths
<1>5. Cardinality(ChainOf(entries, i)) <= MAX_DEPTH + 1
  BY <1>1, <1>2, <1>4, ChainLength, DepthAssumption
<1>6. QED
  BY <1>3, <1>5

\* Every live large object can be read, with at most MAX_DEPTH + 1 decodes:
\* put, lift, rebase, delete and compact never take a stream its chain needs,
\* nor leave one that was encoded against another base.
THEOREM LiveAlwaysReadable == Spec => []LiveReadable
<1>1. IInv => LiveReadable
  BY LiveChainThere DEF LiveReadable
<1>2. QED
  BY <1>1, Invariance, PTL

\* Every live small object is found in its pack.
THEOREM LiveAlwaysInPack == Spec => []LiveInPack
<1>1. IInv => LiveInPack
  <2> SUFFICES ASSUME IInv, NEW i \in LiveSmall(entries)
               PROVE  \/ /\ entries[i].pack = Open
                         /\ \E j \in 1..Len(pending) : pending[j] = i
                      \/ /\ entries[i].pack \in DOMAIN disk
                         /\ entries[i].at \in 1..Len(disk[entries[i].pack].members)
                         /\ disk[entries[i].pack].members[entries[i].at] = i
    BY DEF LiveInPack
  <2>1. i \in 0..(len - 1) /\ entries[i].kind = "small" /\ ~entries[i].deleted
    BY DEF LiveSmall, Live, IInv, Good, Typed
  <2>2. QED
    BY <2>1 DEF IInv, Good, Packs
<1>2. QED
  BY <1>1, Invariance, PTL

\* The base of an entry only ever moves up its own chain.
LEMMA BasesMoveUp ==
  ASSUME IInv, [Next]_vars, NEW i \in 0..(len - 1)
  PROVE  /\ i \in 0..(len' - 1)
         /\ entries'[i].base \in {None, entries[i].base} \cup ChainOf(entries, i)
<1>1. /\ len \in Nat /\ entries \in [0..(len - 1) -> Entry(len)]
      /\ i \in 0..len /\ i \in 0..(len + 1) /\ i # len
      /\ (len + 1) - 1 = len /\ (len + 2) - 1 = len + 1
  BY DEF IInv, Good, Typed
<1>2. CASE PutLarge
  <2>1. PICK scored \in {S \in SUBSET LiveLarge(entries) : Cardinality(S) <= 2} :
          \E to \in [HeadsToLift(entries, scored) -> {None} \cup Ids] : PutWith(scored, to)
    BY <1>2 DEF PutLarge
  <2>2. PICK to \in [HeadsToLift(entries, scored) -> {None} \cup Ids] : PutWith(scored, to)
    BY <2>1
  <2> DEFINE es == lift(entries, to)
  <2>3. es[i].base \in {None, entries[i].base} \cup ChainOf(entries, i)
    <3>1. CASE i \in DOMAIN to
      <4>1. es[i] = [entries[i] EXCEPT !.base = to[i], !.depth = DepthOver(entries, to[i])]
        BY <1>1, <3>1 DEF lift
      <4>2. to[i] \in {None} \cup ChainOf(entries, i)
        BY <2>2, <3>1 DEF PutWith, LiftBases
      <4>3. entries[i] \in Entry(len)
        BY <1>1
      <4>4. QED
        BY <4>1, <4>2, <4>3 DEF Entry
    <3>2. CASE i \notin DOMAIN to
      BY <1>1, <3>2 DEF lift
    <3>3. QED
      BY <3>1, <3>2
  <2>4. CASE entries' = es /\ len' = len
    BY <2>3, <2>4
  <2>5. CASE \E fetched : PushLarge(es, fetched)
    <3>1. len' = len + 1 /\ \E e : entries' = Push(es, len, e)
      BY <2>5 DEF PushLarge
    <3>2. entries'[i] = es[i]
      BY <1>1, <3>1 DEF Push
    <3>3. QED
      BY <1>1, <2>3, <3>1, <3>2
  <2>6. QED
    BY <2>2, <2>4, <2>5 DEF PutWith
<1>3. CASE PutSmall
  <2> DEFINE es == Push(entries, len, Small(len, Len(pending) + 1))
             ms == Append(pending, len)
  <2>1. es[i] = entries[i]
    BY <1>1 DEF Push
  <2>2. CASE entries' = es /\ len' = len + 1
    BY <1>1, <2>1, <2>2
  <2>3. CASE entries' = Packed(es, len + 1, ms) /\ len' = len + 2
    <3>1. i # len + 1
      BY <1>1
    <3>2. entries'[i].base = es[i].base
      <4>1. es[i] \in Entry(len)
        BY <1>1, <2>1
      <4>2. entries'[i] = IF \E k \in 1..Len(ms) : ms[k] = i
                          THEN [es[i] EXCEPT !.pack = len + 1, !.at = CHOOSE k \in 1..Len(ms) : ms[k] = i]
                          ELSE es[i]
        BY <1>1, <2>3, <3>1 DEF Packed
      <4>3. QED
        BY <4>1, <4>2 DEF Entry
    <3>3. QED
      BY <1>1, <2>1, <2>3, <3>2
  <2>4. QED
    BY <1>3, <2>2, <2>3 DEF PutSmall
<1>4. CASE flush
  <2>1. entries[i] \in Entry(len)
    BY <1>1
  <2>2. entries'[i] = IF \E k \in 1..Len(pending) : pending[k] = i
                      THEN [entries[i] EXCEPT !.pack = len, !.at = CHOOSE k \in 1..Len(pending) : pending[k] = i]
                      ELSE entries[i]
    BY <1>1, <1>4 DEF flush, Packed
  <2>3. entries'[i].base = entries[i].base
    BY <2>1, <2>2 DEF Entry
  <2>4. QED
    BY <1>1, <1>4, <2>3 DEF flush
<1>5. CASE delete
  <2>1. entries'[i].base = entries[i].base /\ len' = len
    BY <1>1, <1>5 DEF delete, Entry
  <2>2. QED
    BY <2>1
<1>6. CASE rebase
  <2>1. PICK id \in LiveLarge(entries) :
          entries' = [entries EXCEPT ![id] = [@ EXCEPT !.base = None, !.depth = 0, !.family = id]]
    BY <1>6 DEF rebase
  <2>2. entries'[i].base \in {None, entries[i].base}
    BY <1>1, <2>1 DEF Entry
  <2>3. QED
    BY <1>6, <2>2 DEF rebase
<1>7. CASE UNCHANGED <<len, entries>>
  BY <1>7
<1>8. QED
  BY <1>2, <1>3, <1>4, <1>5, <1>6, <1>7 DEF Next, compact, WriterStep, vars

\* A read never comes to need an object it did not need before.
THEOREM ChainsAlwaysShrink == Spec => ChainsOnlyShrink
<1>1. IInv /\ IInv' /\ [Next]_vars
        => [\A i \in Ids : ChainOf(entries', i) \subseteq ChainOf(entries, i)]_vars
  <2> SUFFICES ASSUME IInv, IInv', [Next]_vars, NEW i \in 0..(len - 1)
               PROVE  ChainOf(entries', i) \subseteq ChainOf(entries, i)
    BY DEF Ids
  <2>1. BasesEarlier(entries, len) /\ len \in Nat
    BY GoodBasesEarlier DEF IInv, Good, Typed
  <2>2. BasesEarlier(entries', len')
    BY GoodBasesEarlier DEF IInv, Good, Typed
  <2> DEFINE T == ChainOf(entries, i)
  <2>3. /\ i \in T /\ T \subseteq 0..i /\ T \subseteq 0..(len - 1)
        /\ ClosedUnderBase(entries, T)
    <3>1. i \in T /\ T \subseteq 0..i /\ ClosedUnderBase(entries, T)
      BY <2>1, ChainFacts
    <3>2. 0..i \subseteq 0..(len - 1)
      BY <2>1
    <3>3. QED
      BY <3>1, <3>2
  <2>4. ASSUME NEW c \in T, entries'[c].base # None
        PROVE  entries'[c].base \in T
    <3>1. c \in 0..(len - 1)
      BY <2>3
    <3>2. entries'[c].base = entries[c].base \/ entries'[c].base \in ChainOf(entries, c)
      BY <2>4, <3>1, BasesMoveUp
    <3>3. ChainOf(entries, c) \subseteq T
      BY <2>1, <2>3, <3>1, ChainLeast
    <3>4. QED
      BY <2>3, <2>4, <3>2, <3>3 DEF ClosedUnderBase
  <2>5. ClosedUnderBase(entries', T)
    BY <2>4 DEF ClosedUnderBase
  <2>6. i \in 0..(len' - 1)
    BY BasesMoveUp
  <2>7. QED
    BY <2>2, <2>3, <2>5, <2>6, ChainLeast
<1>2. QED
  BY <1>1, Invariance, PTL DEF Spec, ChainsOnlyShrink

-----------------------------------------------------------------------------
(* The store implements ObjectStore.                                       *)

LEMMA ReadsBack ==
  ASSUME IInv
  PROVE  /\ LiveUser = {i \in 0..(len - 1) : ~entries[i].deleted /\ entries[i].kind # "pack"}
         /\ \A i \in LiveUser : Read(i) = i
<1>1. len \in Nat /\ entries \in [0..(len - 1) -> Entry(len)] /\ DOMAIN entries = 0..(len - 1)
  BY DEF IInv, Good, Typed
<1>2. \A i \in 0..(len - 1) : entries[i].kind \in {"large", "small", "pack"}
  BY <1>1 DEF Entry
<1>3. LiveUser = {i \in 0..(len - 1) : ~entries[i].deleted /\ entries[i].kind # "pack"}
  BY <1>1, <1>2 DEF LiveUser, LiveLarge, LiveSmall, Live
<1>4. ASSUME NEW i \in LiveUser, entries[i].kind = "large"
      PROVE  Read(i) = i
  <2>1. i \in LiveLarge(entries)
    BY <1>1, <1>3, <1>4 DEF LiveLarge, Live
  <2>2. \A c \in ChainOf(entries, i) : StreamThere(c)
    BY <2>1, LiveChainThere
  <2>3. QED
    BY <1>4, <2>2 DEF Read
<1>5. ASSUME NEW i \in LiveUser, entries[i].kind # "large"
      PROVE  Read(i) = i
  <2>1. i \in 0..(len - 1) /\ entries[i].kind = "small" /\ ~entries[i].deleted
    BY <1>2, <1>3, <1>5
  <2>2. CASE entries[i].pack = Open
    <3>1. \E k \in 1..Len(pending) : pending[k] = i
      BY <2>1, <2>2 DEF IInv, Good, Packs
    <3>2. QED
      BY <1>5, <2>2, <3>1 DEF Read
  <2>3. CASE entries[i].pack # Open
    <3>1. /\ entries[i].pack \in DOMAIN disk
          /\ entries[i].at \in 1..Len(disk[entries[i].pack].members)
          /\ disk[entries[i].pack].members[entries[i].at] = i
      BY <2>1, <2>3 DEF IInv, Good, Packs
    <3>2. QED
      BY <1>5, <2>3, <3>1 DEF Read
  <2>4. QED
    BY <2>2, <2>3
<1>6. QED
  BY <1>3, <1>4, <1>5

\* The user's objects and the ids deleted, as the entries have them.
User(n, es) == {i \in 0..(n - 1) : ~es[i].deleted /\ es[i].kind # "pack"}
Gone(n, es) == {i \in 0..(n - 1) : es[i].deleted /\ es[i].kind # "pack"}

Shaped(es, n) == \A i \in 0..(n - 1) : \E m : es[i] \in Entry(m)
Unchanged(es, fs, n) ==
  \A i \in 0..(n - 1) : fs[i].deleted = es[i].deleted /\ fs[i].kind = es[i].kind

\* A pack gets an entry of its own and leaves the kinds and the deletions.
LEMMA PackedKeeps ==
  ASSUME NEW n, n \in Nat, NEW es, NEW ms, Shaped(es, n)
  PROVE  /\ Packed(es, n, ms)[n].kind = "pack"
         /\ Unchanged(es, Packed(es, n, ms), n)
<1>1. Packed(es, n, ms)[n] = Pack(n)
  <2>1. n \in 0..n
    OBVIOUS
  <2>2. QED
    BY <2>1 DEF Packed
<1>2. ASSUME NEW i \in 0..(n - 1)
      PROVE  /\ Packed(es, n, ms)[i].deleted = es[i].deleted
             /\ Packed(es, n, ms)[i].kind = es[i].kind
  <2> DEFINE k == CHOOSE k \in 1..Len(ms) : ms[k] = i
  <2>1. i \in 0..n /\ i # n
    OBVIOUS
  <2>2. \/ Packed(es, n, ms)[i] = es[i]
        \/ Packed(es, n, ms)[i] = [es[i] EXCEPT !.pack = n, !.at = k]
    BY <2>1 DEF Packed
  <2> HIDE DEF k
  <2>3. PICK m : es[i] \in Entry(m)
    BY DEF Shaped
  <2>4. QED
    BY <2>2, <2>3 DEF Entry
<1>3. QED
  BY <1>1, <1>2 DEF Pack, Unchanged

\* Seen by its user, a step puts one object, deletes one, or does nothing.
LEMMA UserStep ==
  ASSUME IInv, [Next]_vars
  PROVE  \/ UNCHANGED <<User(len, entries), Gone(len, entries)>>
         \/ \E id \in 0..(MaxLen - 1) :
              /\ id \notin User(len, entries) \cup Gone(len, entries)
              /\ User(len, entries)' = User(len, entries) \cup {id}
              /\ UNCHANGED Gone(len, entries)
         \/ \E id \in 0..(MaxLen - 1) :
              /\ id \in User(len, entries)
              /\ User(len, entries)' = User(len, entries) \ {id}
              /\ Gone(len, entries)' = Gone(len, entries) \cup {id}
<1>1. /\ len \in Nat /\ MaxLen \in Nat /\ len <= MaxLen
      /\ entries \in [0..(len - 1) -> Entry(len)]
      /\ DOMAIN entries = 0..(len - 1)
  BY LenAssumption DEF IInv, Good, Typed
<1>2. \A i \in 0..(len - 1) : entries[i].deleted \in BOOLEAN /\ entries[i] \in Entry(len)
  BY <1>1 DEF Entry
<1> DEFINE Same(es) == \A i \in 0..(len - 1) : /\ es[i].deleted = entries[i].deleted
                                               /\ es[i].kind = entries[i].kind
           Added(e) == \E id \in 0..(MaxLen - 1) :
              /\ id \notin User(len, entries) \cup Gone(len, entries)
              /\ User(len, entries)' = User(len, entries) \cup {id}
              /\ UNCHANGED Gone(len, entries)
<1>3. ASSUME Same(entries'), len' = len
      PROVE  UNCHANGED <<User(len, entries), Gone(len, entries)>>
  BY <1>3 DEF User, Gone
<1>4. ASSUME len < MaxLen, Same(entries'), len' = len + 1 \/ len' = len + 2,
             ~entries'[len].deleted, entries'[len].kind # "pack",
             len' = len + 2 => entries'[len + 1].kind = "pack"
      PROVE  \E id \in 0..(MaxLen - 1) :
               /\ id \notin User(len, entries) \cup Gone(len, entries)
               /\ User(len, entries)' = User(len, entries) \cup {id}
               /\ UNCHANGED Gone(len, entries)
  <2>1. len \in 0..(MaxLen - 1) /\ len \notin User(len, entries) \cup Gone(len, entries)
    BY <1>1, <1>4 DEF User, Gone
  <2>2. \A i \in 0..(len' - 1) : i \in 0..(len - 1) \/ i = len \/ (i = len + 1 /\ len' = len + 2)
    BY <1>1, <1>4
  <2>3. len \in 0..(len' - 1) /\ 0..(len - 1) \subseteq 0..(len' - 1)
    BY <1>1, <1>4
  <2>4. User(len, entries)' = User(len, entries) \cup {len}
    BY <1>4, <2>2, <2>3 DEF User
  <2>5. Gone(len, entries)' = Gone(len, entries)
    BY <1>4, <2>2, <2>3 DEF Gone
  <2>6. QED
    BY <2>1, <2>4, <2>5
<1>5. ASSUME NEW scored, NEW to
      PROVE  Same(lift(entries, to))
  BY <1>1, <1>2 DEF lift, Entry
<1>6. CASE PutLarge
  <2>1. PICK scored \in {S \in SUBSET LiveLarge(entries) : Cardinality(S) <= 2} :
          \E to \in [HeadsToLift(entries, scored) -> {None} \cup Ids] : PutWith(scored, to)
    BY <1>6 DEF PutLarge
  <2>2. PICK to \in [HeadsToLift(entries, scored) -> {None} \cup Ids] : PutWith(scored, to)
    BY <2>1
  <2> DEFINE es == lift(entries, to)
  <2>3. Same(es)
    BY <1>5
  <2> HIDE DEF es
  <2>4. CASE entries' = es /\ len' = len
    BY <1>3, <2>3, <2>4
  <2>5. CASE \E fetched : PushLarge(es, fetched)
    <3>1. len' = len + 1 /\ \E b, dp, f : entries' = Push(es, len, Large(b, dp, f))
      BY <2>5 DEF PushLarge
    <3>2. PICK b, dp, f : entries' = Push(es, len, Large(b, dp, f))
      BY <3>1
    <3>3. entries'[len] = Large(b, dp, f) /\ \A i \in 0..(len - 1) : entries'[i] = es[i]
      BY <1>1, <3>2 DEF Push
    <3>4. ~entries'[len].deleted /\ entries'[len].kind # "pack"
      BY <3>3 DEF Large
    <3>5. Same(entries') /\ len < MaxLen
      BY <2>2, <2>3, <3>3 DEF PutWith
    <3>6. len' # len + 2
      BY <1>1, <3>1
    <3>7. QED
      BY <1>4, <3>1, <3>4, <3>5, <3>6
  <2>6. QED
    BY <2>2, <2>4, <2>5 DEF PutWith, es
<1>8. CASE PutSmall
  <2> DEFINE es == Push(entries, len, Small(len, Len(pending) + 1))
             ms == Append(pending, len)
  <2>1. es[len] = Small(len, Len(pending) + 1) /\ \A i \in 0..(len - 1) : es[i] = entries[i]
    BY <1>1 DEF Push
  <2>2. es[len].deleted = FALSE /\ es[len].kind = "small"
    BY <2>1 DEF Small
  <2>3. len < MaxLen
    BY <1>1, <1>8 DEF PutSmall
  <2>4. CASE entries' = es /\ len' = len + 1
    <3>1. len' # len + 2
      BY <1>1, <2>4
    <3>2. QED
      BY <1>4, <2>1, <2>2, <2>3, <2>4, <3>1
  <2>5. CASE entries' = Packed(es, len + 1, ms) /\ len' = len + 2
    <3>1. ASSUME NEW i \in 0..((len + 1) - 1)
          PROVE  \E m : es[i] \in Entry(m)
      <4>1. CASE i \in 0..(len - 1)
        BY <1>2, <2>1, <4>1
      <4>2. CASE i = len
        <5>1. Len(pending) + 1 \in Nat
          BY LenProperties DEF IInv, Good, Typed
        <5>2. Small(len, Len(pending) + 1) \in Entry(len + 1)
          BY <1>1, <5>1 DEF Entry, Small
        <5>3. QED
          BY <2>1, <4>2, <5>2
      <4>3. QED
        BY <1>1, <4>1, <4>2
    <3> HIDE DEF es, ms
    <3>2. /\ entries'[len + 1].kind = "pack"
          /\ \A i \in 0..((len + 1) - 1) : /\ entries'[i].deleted = es[i].deleted
                                           /\ entries'[i].kind = es[i].kind
      <4>1. len + 1 \in Nat
        BY <1>1
      <4>2. Shaped(es, len + 1)
        BY <3>1 DEF Shaped
      <4>3. entries'[len + 1].kind = "pack" /\ Unchanged(es, entries', len + 1)
        BY <2>5, <4>1, <4>2, PackedKeeps, Zenon
      <4>4. QED
        BY <4>3 DEF Unchanged
    <3>3. len \in 0..((len + 1) - 1) /\ 0..(len - 1) \subseteq 0..((len + 1) - 1)
      BY <1>1
    <3>4. QED
      BY <1>4, <2>1, <2>2, <2>3, <2>5, <3>2, <3>3
  <2>6. QED
    BY <1>8, <2>4, <2>5 DEF PutSmall
<1>9. CASE flush
  <2>1. entries' = Packed(entries, len, pending) /\ len' = len + 1
    BY <1>9 DEF flush
  <2>2. Shaped(entries, len)
    BY <1>2 DEF Shaped
  <2>3. Same(entries') /\ entries'[len].kind = "pack"
    <3>1. Unchanged(entries, entries', len) /\ entries'[len].kind = "pack"
      BY <1>1, <2>1, <2>2, PackedKeeps, Zenon
    <3>2. QED
      BY <3>1 DEF Unchanged
  <2>4. \A i \in 0..(len' - 1) : i \in 0..(len - 1) \/ i = len
    BY <1>1, <2>1
  <2>5. 0..(len - 1) \subseteq 0..(len' - 1)
    BY <1>1, <2>1
  <2>6. QED
    BY <2>3, <2>4, <2>5 DEF User, Gone
<1>10. CASE delete
  <2>1. PICK id \in 0..(len - 1) : /\ ~entries[id].deleted
                                   /\ entries' = [entries EXCEPT ![id].deleted = TRUE]
    BY <1>1, <1>10 DEF delete, Live
  <2>2. len' = len
    BY <1>10 DEF delete
  <2>3. /\ entries'[id].deleted = TRUE /\ entries'[id].kind = entries[id].kind
        /\ \A i \in 0..(len - 1) : i # id => entries'[i] = entries[i]
    BY <1>1, <1>2, <2>1 DEF Entry
  <2>4. CASE entries[id].kind = "pack"
    BY <2>2, <2>3, <2>4 DEF User, Gone
  <2>5. CASE entries[id].kind # "pack"
    <3>1. id \in User(len, entries) /\ id \in 0..(MaxLen - 1)
      BY <1>1, <2>1, <2>5 DEF User
    <3>2. User(len, entries)' = User(len, entries) \ {id}
      BY <2>2, <2>3 DEF User
    <3>3. Gone(len, entries)' = Gone(len, entries) \cup {id}
      BY <2>2, <2>3, <2>5 DEF Gone
    <3>4. QED
      BY <3>1, <3>2, <3>3
  <2>6. QED
    BY <2>4, <2>5
<1>11. CASE rebase
  <2>1. PICK id \in LiveLarge(entries) :
          entries' = [entries EXCEPT ![id] = [@ EXCEPT !.base = None, !.depth = 0, !.family = id]]
    BY <1>11 DEF rebase
  <2>2. Same(entries')
    BY <1>1, <1>2, <2>1 DEF Entry
  <2>3. QED
    BY <1>3, <1>11, <2>2 DEF rebase
<1>12. CASE UNCHANGED <<len, entries>>
  BY <1>3, <1>12
<1>13. QED
  BY <1>6, <1>8, <1>9, <1>10, <1>11, <1>12 DEF Next, compact, WriterStep, vars

\* The abstract variables, and what IInv makes them.
Objects == [i \in LiveUser |-> Read(i)]
Deleted == {i \in Ids : entries[i].deleted /\ entries[i].kind # "pack"}
Mapped == Objects = [i \in User(len, entries) |-> i] /\ Deleted = Gone(len, entries)

LEMMA InvMapped == IInv => Mapped
  BY ReadsBack DEF User, Gone, Ids, Objects, Deleted, Mapped

\* The detailed store refines the abstract one: what a read of a live object
\* returns changes only by the put or the delete of that object.
THEOREM Refines == Spec => ImplementsObjectStore
<1>1. IInv' => Mapped'
  BY InvMapped, PTL
<1>2. Init => Abstract!Init
  <2> SUFFICES ASSUME Init PROVE Abstract!Init
    OBVIOUS
  <2>1. 0..(len - 1) = {}
    BY DEF Init
  <2>2. Objects = [i \in {} |-> i] /\ Deleted = {}
    BY <2>1, GoodInit, InvMapped DEF User, Gone, Mapped
  <2>3. QED
    BY <2>2 DEF Abstract!Init, Objects, Deleted
<1>3. ASSUME IInv, IInv', [Next]_vars
      PROVE  [Abstract!Next]_<<Objects, Deleted>>
  <2>1. /\ Objects = [i \in User(len, entries) |-> i] /\ Deleted = Gone(len, entries)
        /\ Objects' = [i \in User(len, entries)' |-> i] /\ Deleted' = Gone(len, entries)'
    BY <1>1, <1>3, InvMapped DEF Mapped
  <2>2. CASE UNCHANGED <<User(len, entries), Gone(len, entries)>>
    BY <2>1, <2>2
  <2>3. CASE \E id \in 0..(MaxLen - 1) :
               /\ id \notin User(len, entries) \cup Gone(len, entries)
               /\ User(len, entries)' = User(len, entries) \cup {id}
               /\ UNCHANGED Gone(len, entries)
    <3>1. PICK id \in 0..(MaxLen - 1) :
               /\ id \notin User(len, entries) \cup Gone(len, entries)
               /\ User(len, entries)' = User(len, entries) \cup {id}
               /\ UNCHANGED Gone(len, entries)
      BY <2>3
    <3>2. Abstract!Put(id)
      BY <2>1, <3>1 DEF Abstract!Put, Objects, Deleted
    <3>3. QED
      BY <3>2 DEF Abstract!Next
  <2>4. CASE \E id \in 0..(MaxLen - 1) :
               /\ id \in User(len, entries)
               /\ User(len, entries)' = User(len, entries) \ {id}
               /\ Gone(len, entries)' = Gone(len, entries) \cup {id}
    <3>1. PICK id \in 0..(MaxLen - 1) :
               /\ id \in User(len, entries)
               /\ User(len, entries)' = User(len, entries) \ {id}
               /\ Gone(len, entries)' = Gone(len, entries) \cup {id}
      BY <2>4
    <3>2. Abstract!Delete(id)
      BY <2>1, <3>1 DEF Abstract!Delete, Objects, Deleted
    <3>3. QED
      BY <3>2 DEF Abstract!Next
  <2>5. QED
    BY <1>3, <2>2, <2>3, <2>4, UserStep
<1>4. QED
  BY <1>2, <1>3, Invariance, PTL DEF Spec, ImplementsObjectStore, Abstract!Spec, Objects, Deleted

=============================================================================
