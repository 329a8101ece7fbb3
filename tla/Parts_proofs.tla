---------------------------- MODULE Parts_proofs ----------------------------
(***************************************************************************)
(* Theorems about two parts of MCParts: the names of a store's objects     *)
(* (Names), for every set of names and any number of entries; and the      *)
(* fingerprint table (FingerTable), for every size of a new table, every   *)
(* number of holders it keeps and any number of insertions.                *)
(***************************************************************************)
EXTENDS MCParts, SequenceTheorems, FiniteSetTheorems, WellFoundedInduction, TLAPS

\* Every set of naturals with a bound has a greatest element: what opening a store gives a
\* name is the greatest id under it.
NatLess == {ss \in Nat \X Nat : ss[1] < ss[2]}

LEMMA GreatestNatural ==
  ASSUME NEW n \in Nat, NEW T, T \subseteq 0..n, T # {}
  PROVE  \E m \in T : \A k \in T : k <= m
<1> DEFINE S == {n - k : k \in T}
<1>1. S \subseteq Nat /\ S # {}
  <2>1. \A k \in T : n - k \in Nat
    OBVIOUS
  <2>2. PICK k \in T : TRUE
    OBVIOUS
  <2> QED BY <2>1, <2>2
<1>2. IsWellFoundedOn(NatLess, Nat)
  BY ONLY NatLessThanWellFounded, Zenon DEF OpToRel, NatLess
<1>3. PICK s \in S : \A r \in S : ~(<<r, s>> \in NatLess)
  <2> HIDE DEF S
  <2> QED BY <1>1, <1>2, WFMin
<1>4. PICK m \in T : s = n - m
  BY <1>3
<1>5. ASSUME NEW k \in T PROVE k <= m
  <2>1. n - k \in S /\ n - k \in Nat /\ s \in Nat
    BY <1>1, <1>3
  <2>2. ~(n - k < s)
    BY <2>1, <1>3 DEF NatLess
  <2>3. k \in Int /\ m \in Int
    OBVIOUS
  <2> QED BY <2>1, <2>2, <2>3, <1>4
<1> QED BY <1>5

\* And every set of naturals a least one: how a recursive function is shown to have a solution.
LEMMA LeastNatural ==
  ASSUME NEW T, T \subseteq Nat, T # {}
  PROVE  \E m \in T : \A k \in T : m <= k
<1>1. IsWellFoundedOn(NatLess, Nat)
  BY ONLY NatLessThanWellFounded, Zenon DEF OpToRel, NatLess
<1>2. PICK m \in T : \A k \in T : ~(<<k, m>> \in NatLess)
  BY <1>1, WFMin
<1>3. \A k \in T : ~(k < m)
  BY <1>2 DEF NatLess
<1>4. QED
  BY <1>3

-----------------------------------------------------------------------------
(* Names: the invariant.                                                   *)

Entry == [name : Name, pack : BOOLEAN, deleted : BOOLEAN]

NamesTypeOK ==
  /\ named \in Seq(Entry) /\ names \in [Name -> Nat \cup {None}] /\ refused \in BOOLEAN

\* Only a pack's own name is given to a pack, which no object is looked up by after the store is
\* opened.
PacksNamed == \A k \in 1..Len(named) : named[k].pack => named[k].name = PackName

NamesInv == NamesTypeOK /\ PacksNamed /\ NameIsLatest

LEMMA NamesInitOK == Init => NamesInv
<1> SUFFICES ASSUME Named!Init PROVE NamesInv
  BY DEF Init
<1>1. named = <<>> /\ names = [n \in Name |-> None] /\ refused = FALSE
  BY DEF Named!Init
<1>2. named \in Seq(Entry) /\ Len(named) = 0
  BY <1>1, EmptySeq
<1>3. \A n \in Name : names[n] = None
  BY <1>1
<1>4. NamesTypeOK
  <2>1. names \in [Name -> Nat \cup {None}] /\ refused \in BOOLEAN
    BY <1>1
  <2> QED BY <1>2, <2>1 DEF NamesTypeOK
<1>5. PacksNamed
  <2>1. \A k \in 1..Len(named) : FALSE
    BY <1>2
  <2> QED BY <2>1 DEF PacksNamed
<1>6. NameIsLatest
  BY <1>3 DEF NameIsLatest, Named!NameIsLatest
<1> QED BY <1>4, <1>5, <1>6 DEF NamesInv

\* What the names are of, read through the entries' numbers.
LEMMA Under ==
  ASSUME NamesTypeOK
  PROVE  /\ Len(named) \in Nat
         /\ \A k \in 1..Len(named) : named[k] \in Entry
         /\ \A n, i : i \in Named!LiveUnder(n) <=>
              /\ i \in 0..(Len(named) - 1) /\ named[i + 1].name = n
              /\ ~named[i + 1].deleted /\ ~named[i + 1].pack
<1>1. Len(named) \in Nat /\ \A k \in 1..Len(named) : named[k] \in Entry
  BY DEF NamesTypeOK
<1> QED BY <1>1 DEF Named!LiveUnder, Named!Ids, Named!At

LEMMA UnderNext ==
  ASSUME NamesTypeOK'
  PROVE  \A n, i : i \in Named!LiveUnder(n)' <=>
           /\ i \in 0..(Len(named') - 1) /\ named'[i + 1].name = n
           /\ ~named'[i + 1].deleted /\ ~named'[i + 1].pack
BY DEF Named!LiveUnder, Named!Ids, Named!At

\* An entry appended changes none of the others.
LEMMA Appended ==
  ASSUME NamesTypeOK, NEW e \in Entry, named' = Append(named, e)
  PROVE  /\ named' \in Seq(Entry) /\ Len(named') = Len(named) + 1
         /\ \A k \in 1..Len(named) : named'[k] = named[k]
         /\ named'[Len(named) + 1] = e
BY AppendProperties DEF NamesTypeOK

LEMMA PutKeeps == ASSUME PartsAssumption, NamesInv, Named!put PROVE NamesInv'
<1> DEFINE L == Len(named)
<1>1. L \in Nat
  BY Under DEF NamesInv
<1>2. PICK n \in Name : names' = [names EXCEPT ![n] = L] /\ named' = Append(named, Named!Object(n))
  BY DEF Named!put, Named!Under
<1>3. Named!Object(n) \in Entry
  BY DEF Named!Object, Entry
<1>4. /\ named' \in Seq(Entry) /\ Len(named') = L + 1
      /\ \A k \in 1..L : named'[k] = named[k]
      /\ named'[L + 1] = Named!Object(n)
  BY <1>2, <1>3, Appended DEF NamesInv
<1>5. refused' = refused
  BY DEF Named!put
<1>6. NamesTypeOK'
  <2>1. names' \in [Name -> Nat \cup {None}]
    BY <1>1, <1>2 DEF NamesInv, NamesTypeOK
  <2> QED BY <1>4, <1>5, <2>1 DEF NamesInv, NamesTypeOK
<1>7. \A k \in 1..(L + 1) : k = L + 1 \/ k \in 1..L
  BY <1>1
<1>8. PacksNamed'
  BY <1>4, <1>7 DEF NamesInv, PacksNamed, Named!Object
<1>9. ASSUME NEW m \in Name, NEW i
      PROVE  i \in Named!LiveUnder(m)' <=> i \in Named!LiveUnder(m) \/ (i = L /\ m = n)
  <2>1. i \in Named!LiveUnder(m)' <=>
          /\ i \in 0..L /\ named'[i + 1].name = m /\ ~named'[i + 1].deleted /\ ~named'[i + 1].pack
    BY <1>1, <1>4, <1>6, UnderNext
  <2>2. i \in Named!LiveUnder(m) <=>
          /\ i \in 0..(L - 1) /\ named[i + 1].name = m /\ ~named[i + 1].deleted /\ ~named[i + 1].pack
    BY Under DEF NamesInv
  <2>3. CASE i = L
    <3>1. named'[i + 1] = Named!Object(n) /\ i \in 0..L /\ i \notin 0..(L - 1)
      BY <2>3, <1>1, <1>4
    <3> QED BY <3>1, <2>1, <2>2, <2>3 DEF Named!Object
  <2>4. CASE i # L
    <3>1. i \in 0..L <=> i \in 0..(L - 1)
      BY <2>4, <1>1
    <3>2. i \in 0..(L - 1) => named'[i + 1] = named[i + 1]
      BY <1>1, <1>4
    <3> QED BY <2>1, <2>2, <2>4, <3>1, <3>2
  <2> QED BY <2>3, <2>4
<1>10. NameIsLatest'
  <2> SUFFICES ASSUME ~refused', NEW m \in Name, names'[m] # None PROVE Named!Latest(m)'
    BY DEF NameIsLatest, Named!NameIsLatest
  <2>1. \A i \in Named!LiveUnder(m) : i \in Nat /\ i <= L - 1
    BY <1>1, Under DEF NamesInv
  <2>2. CASE m = n
    <3>1. names'[m] = L
      BY <2>2, <1>2 DEF NamesInv, NamesTypeOK
    <3> QED BY <1>1, <1>9, <2>1, <2>2, <3>1 DEF Named!Latest
  <2>3. CASE m # n
    <3>1. names'[m] = names[m]
      BY <2>3, <1>2 DEF NamesInv, NamesTypeOK
    <3>2. Named!Latest(m)
      BY <1>5, <3>1 DEF NamesInv, NameIsLatest, Named!NameIsLatest
    <3> QED BY <1>9, <2>3, <3>1, <3>2 DEF Named!Latest
  <2> QED BY <2>2, <2>3
<1> QED BY <1>6, <1>8, <1>10 DEF NamesInv

LEMMA PutFailsKeeps == ASSUME PartsAssumption, NamesInv, Named!put_fails PROVE NamesInv'
<1>1. Len(named) \in Nat
  BY Under DEF NamesInv
<1>2. /\ \E n \in Name : names' = [names EXCEPT ![n] = Len(named)]
      /\ refused' = TRUE /\ named' = named
  BY DEF Named!put_fails, Named!Under
<1>3. NamesTypeOK'
  BY <1>1, <1>2 DEF NamesInv, NamesTypeOK
<1> QED BY <1>2, <1>3 DEF NamesInv, PacksNamed, NameIsLatest, Named!NameIsLatest

\* A pack's entry is live under no name.
LEMMA FlushKeeps == ASSUME PartsAssumption, NamesInv, Named!flush PROVE NamesInv'
<1> DEFINE L == Len(named)
           P == [name |-> PackName, pack |-> TRUE, deleted |-> FALSE]
<1>1. L \in Nat
  BY Under DEF NamesInv
<1>2. named' = Append(named, P) /\ names' = names /\ refused' = refused
  BY DEF Named!flush
<1>3. P \in Entry
  BY DEF Entry, PartsAssumption, Named!NamesAssumption
<1>4. /\ named' \in Seq(Entry) /\ Len(named') = L + 1
      /\ \A k \in 1..L : named'[k] = named[k]
      /\ named'[L + 1].name = PackName /\ named'[L + 1].pack = TRUE
  <2> HIDE DEF P
  <2>1. /\ named' \in Seq(Entry) /\ Len(named') = L + 1
        /\ \A k \in 1..L : named'[k] = named[k]
        /\ named'[L + 1] = P
    BY <1>2, <1>3, Appended DEF NamesInv
  <2>2. P.name = PackName /\ P.pack = TRUE
    BY DEF P
  <2> QED BY <2>1, <2>2
<1>5. NamesTypeOK'
  BY <1>2, <1>4 DEF NamesInv, NamesTypeOK
<1>6. \A k \in 1..(L + 1) : k = L + 1 \/ k \in 1..L
  BY <1>1
<1>7. PacksNamed'
  BY <1>4, <1>6 DEF NamesInv, PacksNamed
<1>8. ASSUME NEW m \in Name, NEW i PROVE i \in Named!LiveUnder(m)' <=> i \in Named!LiveUnder(m)
  <2>1. i \in Named!LiveUnder(m)' <=>
          /\ i \in 0..L /\ named'[i + 1].name = m /\ ~named'[i + 1].deleted /\ ~named'[i + 1].pack
    BY <1>1, <1>4, <1>5, UnderNext
  <2>2. i \in Named!LiveUnder(m) <=>
          /\ i \in 0..(L - 1) /\ named[i + 1].name = m /\ ~named[i + 1].deleted /\ ~named[i + 1].pack
    BY Under DEF NamesInv
  <2>3. i = L => named'[i + 1].pack /\ i \notin 0..(L - 1)
    BY <1>1, <1>4
  <2>4. i # L => (i \in 0..L <=> i \in 0..(L - 1))
    BY <1>1
  <2>5. i \in 0..(L - 1) => named'[i + 1] = named[i + 1]
    BY <1>1, <1>4
  <2> QED BY <2>1, <2>2, <2>3, <2>4, <2>5
<1>9. NameIsLatest'
  BY <1>2, <1>8 DEF NamesInv, NameIsLatest, Named!NameIsLatest, Named!Latest
<1> QED BY <1>5, <1>7, <1>9 DEF NamesInv

LEMMA DeleteKeeps == ASSUME PartsAssumption, NamesInv, Named!delete PROVE NamesInv'
<1> DEFINE L == Len(named)
<1>1. L \in Nat /\ \A k \in 1..L : named[k] \in Entry
  BY Under DEF NamesInv
<1>2. PICK i \in 0..(L - 1) :
        /\ named' = [named EXCEPT ![i + 1].deleted = TRUE]
        /\ names' = [names EXCEPT ![named[i + 1].name] = Named!Forget(named[i + 1].name, i)]
  BY DEF Named!delete, Named!Ids, Named!At
<1>3. refused' = refused
  BY DEF Named!delete
<1> DEFINE e == [named[i + 1] EXCEPT !.deleted = TRUE]
           n == named[i + 1].name
<1>4. i + 1 \in 1..L /\ i \in Nat
  BY <1>1
<1>5. e \in Entry /\ e.name = n /\ e.pack = named[i + 1].pack /\ e.deleted = TRUE /\ n \in Name
  <2>1. named[i + 1] \in Entry
    BY <1>1, <1>4
  <2> QED BY <2>1 DEF Entry
<1>6. /\ named' \in Seq(Entry) /\ Len(named') = L
      /\ \A k \in 1..L : named'[k] = IF k = i + 1 THEN e ELSE named[k]
  <2>1. named' = [named EXCEPT ![i + 1] = e]
    BY <1>2
  <2>2. named \in Seq(Entry)
    BY DEF NamesInv, NamesTypeOK
  <2> HIDE DEF e
  <2> QED BY <1>4, <1>5, <2>1, <2>2, ExceptSeq
<1> HIDE DEF e, n
<1>7. /\ names' \in [Name -> Nat \cup {None}]
      /\ names'[n] = Named!Forget(n, i) /\ \A m \in Name : m # n => names'[m] = names[m]
  <2>1. names' = [names EXCEPT ![n] = Named!Forget(n, i)]
    BY <1>2 DEF n
  <2>2. names \in [Name -> Nat \cup {None}]
    BY DEF NamesInv, NamesTypeOK
  <2>3. Named!Forget(n, i) \in Nat \cup {None}
    BY <1>5, <2>2 DEF Named!Forget
  <2> QED BY <1>5, <2>1, <2>2, <2>3
<1>8. NamesTypeOK'
  BY <1>3, <1>6, <1>7 DEF NamesInv, NamesTypeOK
<1>9. PacksNamed'
  BY <1>5, <1>6 DEF NamesInv, PacksNamed, n
<1>10. ASSUME NEW m \in Name, NEW j
       PROVE  j \in Named!LiveUnder(m)' <=> j \in Named!LiveUnder(m) /\ j # i
  <2>1. j \in Named!LiveUnder(m)' <=>
          /\ j \in 0..(L - 1) /\ named'[j + 1].name = m /\ ~named'[j + 1].deleted /\ ~named'[j + 1].pack
    BY <1>6, <1>8, UnderNext
  <2>2. j \in Named!LiveUnder(m) <=>
          /\ j \in 0..(L - 1) /\ named[j + 1].name = m /\ ~named[j + 1].deleted /\ ~named[j + 1].pack
    BY Under DEF NamesInv
  <2>3. CASE j = i
    <3>1. named'[j + 1] = e
      BY <2>3, <1>4, <1>6
    <3> QED BY <3>1, <2>1, <2>3, <1>5
  <2>4. CASE j # i
    <3>1. j \in 0..(L - 1) => named'[j + 1] = named[j + 1]
      BY <2>4, <1>1, <1>4, <1>6
    <3> QED BY <3>1, <2>1, <2>2, <2>4
  <2> QED BY <2>3, <2>4
<1>11. \A m \in Name : \A j : m # n /\ j \in Named!LiveUnder(m) => j # i
  BY Under DEF NamesInv, n
<1>12. NameIsLatest'
  <2> SUFFICES ASSUME ~refused', NEW m \in Name, names'[m] # None PROVE Named!Latest(m)'
    BY DEF NameIsLatest, Named!NameIsLatest
  <2>1. names'[m] = names[m] /\ names[m] # i
    <3>1. CASE m = n
      BY <3>1, <1>7 DEF Named!Forget
    <3>2. CASE m # n
      <4>1. names'[m] = names[m]
        BY <3>2, <1>7
      <4>2. Named!Latest(m)
        BY <1>3, <4>1 DEF NamesInv, NameIsLatest, Named!NameIsLatest
      <4> QED BY <3>2, <4>1, <4>2, <1>11 DEF Named!Latest
    <3> QED BY <3>1, <3>2
  <2>2. Named!Latest(m)
    BY <1>3, <2>1 DEF NamesInv, NameIsLatest, Named!NameIsLatest
  <2> QED BY <1>10, <2>1, <2>2 DEF Named!Latest
<1> QED BY <1>8, <1>9, <1>12 DEF NamesInv

LEMMA OpenKeeps == ASSUME PartsAssumption, NamesInv, Named!open PROVE NamesInv'
<1> DEFINE L == Len(named)
           Live(n) == {i \in Named!Ids : /\ Named!At(named, i).name = n /\ n # PackName
                                        /\ ~Named!At(named, i).deleted}
<1>1. named' = named /\ refused' = refused /\ names' = Named!Opened
  BY DEF Named!open
<1>2. L \in Nat
  BY Under DEF NamesInv
<1>3. ASSUME NEW n \in Name, NEW i PROVE i \in Live(n) <=> i \in Named!LiveUnder(n) /\ n # PackName
  <2>1. \A j \in 0..(L - 1) : j + 1 \in 1..L
    BY <1>2
  <2> QED BY <2>1 DEF Named!LiveUnder, Named!Ids, Named!At, NamesInv, PacksNamed
<1>4. ASSUME NEW n \in Name
      PROVE  \/ names'[n] = None
             \/ names'[n] \in Live(n) /\ \A j \in Live(n) : j <= names'[n]
  <2>1. names'[n] = IF Live(n) = {} THEN None ELSE CHOOSE i \in Live(n) : \A j \in Live(n) : j <= i
    BY <1>1 DEF Named!Opened
  <2>2. Live(n) \subseteq 0..L
    BY <1>2 DEF Named!Ids
  <2> HIDE DEF Live
  <2>3. Live(n) # {} => \E i \in Live(n) : \A j \in Live(n) : j <= i
    BY <1>2, <2>2, GreatestNatural
  <2> QED BY <2>1, <2>3
<1>5. \A n \in Name : Live(n) \subseteq Nat
  BY <1>2 DEF Named!Ids
<1> HIDE DEF Live
<1>6. NamesTypeOK'
  <2>1. names' \in [Name -> Nat \cup {None}]
    <3>1. DOMAIN names' = Name /\ names' = [n \in Name |-> names'[n]]
      BY <1>1 DEF Named!Opened
    <3>2. \A n \in Name : names'[n] \in Nat \cup {None}
      BY <1>4, <1>5
    <3> QED BY <3>1, <3>2
  <2> QED BY <1>1, <2>1 DEF NamesInv, NamesTypeOK
<1>7. PacksNamed'
  BY <1>1 DEF NamesInv, PacksNamed
<1>8. NameIsLatest'
  <2> SUFFICES ASSUME ~refused', NEW n \in Name, names'[n] # None PROVE Named!Latest(n)'
    BY DEF NameIsLatest, Named!NameIsLatest
  <2>1. \A i : i \in Named!LiveUnder(n)' <=> i \in Named!LiveUnder(n)
    BY <1>1, <1>6, Under, UnderNext DEF NamesInv
  <2>2. names'[n] \in Live(n) /\ \A j \in Live(n) : j <= names'[n]
    BY <1>4
  <2>3. \A i : i \in Live(n) <=> i \in Named!LiveUnder(n)
    BY <1>3, <2>2
  <2> QED BY <2>1, <2>2, <2>3 DEF Named!Latest
<1> QED BY <1>6, <1>7, <1>8 DEF NamesInv

-----------------------------------------------------------------------------
(* Names: the theorem.                                                     *)

LEMMA StepsOfNames == ASSUME [Next]_vars PROVE [Named!Next]_ofNames
<1>1. CASE Next
  BY <1>1 DEF Next, InWriter, InSinks, ofNames
<1>2. CASE UNCHANGED vars
  BY <1>2 DEF vars
<1> QED BY <1>1, <1>2

LEMMA NamesStepOK == ASSUME NamesInv, [Next]_vars PROVE NamesInv'
<1>1. CASE Named!Next
  BY <1>1, PutKeeps, PutFailsKeeps, FlushKeeps, DeleteKeeps, OpenKeeps, PartsAssumption DEF Named!Next
<1>2. CASE UNCHANGED ofNames
  BY <1>2 DEF ofNames, NamesInv, NamesTypeOK, PacksNamed, NameIsLatest, Named!NameIsLatest, Named!Latest,
    Named!LiveUnder, Named!Ids, Named!At
<1> QED BY <1>1, <1>2, StepsOfNames

\* `id_of`: whatever puts, flushes, deletes and openings came before, the id a name has is of a
\* live object put under it, and no later live object was.
THEOREM NamesAreLatest == Spec => []NameIsLatest
<1>1. Init => NamesInv
  BY NamesInitOK
<1>2. NamesInv /\ [Next]_vars => NamesInv'
  BY NamesStepOK
<1>3. NamesInv => NameIsLatest
  BY DEF NamesInv
<1> QED BY <1>1, <1>2, <1>3, PTL DEF Spec

-----------------------------------------------------------------------------
(* The table: the slots that the probe of h meets, one after another.      *)

Probe(C, h, d) == (h + d) % C

LEMMA DivMod ==
  ASSUME NEW C \in Int, C > 0, NEW a \in Int
  PROVE  a = C * (a \div C) + (a % C) /\ (a \div C) \in Int /\ (a % C) \in 0..(C - 1)
<1>1. a = C * (a \div C) + (a % C)
  BY SMT
<1> QED BY <1>1, SMT

LEMMA Multiples ==
  ASSUME NEW C \in Nat \ {0}, NEW q \in Int, NEW p \in Int, p < q
  PROVE  C * q - C * p >= C
OBVIOUS

\* Numbers less than C apart have different remainders.
LEMMA Remainders ==
  ASSUME NEW C \in Nat \ {0}, NEW a \in Nat, NEW b \in Nat,
         a % C = b % C, a - b < C, b - a < C
  PROVE  a = b
<1>1. PICK q \in Int, r \in 0..(C - 1) : a = C * q + r /\ a % C = r
  <2>1. a = C * (a \div C) + (a % C) /\ (a \div C) \in Int /\ (a % C) \in 0..(C - 1)
    BY DivMod
  <2> QED BY ONLY <2>1, Zenon
<1>2. PICK p \in Int, s \in 0..(C - 1) : b = C * p + s /\ b % C = s
  <2>1. b = C * (b \div C) + (b % C) /\ (b \div C) \in Int /\ (b % C) \in 0..(C - 1)
    BY DivMod
  <2> QED BY ONLY <2>1, Zenon
<1>3. r = s
  BY <1>1, <1>2
<1>4. ~(p < q)
  BY <1>1, <1>2, <1>3, Multiples
<1>5. ~(q < p)
  BY <1>1, <1>2, <1>3, Multiples
<1> QED BY <1>1, <1>2, <1>3, <1>4, <1>5

LEMMA ProbeIn ==
  ASSUME NEW C \in Nat \ {0}, NEW h \in Nat, NEW d \in Nat
  PROVE  Probe(C, h, d) \in 0..(C - 1)
BY DEF Probe

\* A probe meets no slot twice in one round of the table.
LEMMA ProbeOnce ==
  ASSUME NEW C \in Nat \ {0}, NEW h \in Nat, NEW d \in 0..(C - 1), NEW e \in 0..(C - 1),
         Probe(C, h, d) = Probe(C, h, e)
  PROVE  d = e
<1>1. PICK a \in Nat, b \in Nat : a = h + d /\ b = h + e
  OBVIOUS
<1>2. a % C = b % C
  BY <1>1 DEF Probe
<1>3. a - b < C /\ b - a < C
  BY <1>1
<1>4. a = b
  BY <1>2, <1>3, Remainders
<1> QED BY <1>1, <1>4

\* A round of a probe meets every slot.
LEMMA ProbeAll ==
  ASSUME NEW C \in Nat \ {0}, NEW h \in Nat, NEW i \in 0..(C - 1)
  PROVE  \E d \in 0..(C - 1) : Probe(C, h, d) = i
<1> DEFINE I == 0..(C - 1)
           f == [d \in I |-> Probe(C, h, d)]
<1>1. f \in [I -> I]
  BY ProbeIn
<1>2. ASSUME NEW d \in I, NEW e \in I, f[d] = f[e] PROVE d = e
  BY <1>2, ProbeOnce
<1>3. f \in Injection(I, I)
  BY <1>1, <1>2 DEF Injection, IsInjective
<1>4. IsFiniteSet(I)
  BY FS_Interval
<1>5. f \in Surjection(I, I)
  <2> HIDE DEF f, I
  <2> QED BY <1>3, <1>4, FS_Injection
<1>6. PICK d \in I : f[d] = i
  BY <1>5 DEF Surjection
<1> QED BY <1>6

-----------------------------------------------------------------------------
(* A table of C slots.                                                     *)

\* FiniteSets is defined again in the instance of the table's module.
LEMMA SameCardinality == \A S : Fingers!Cardinality(S) = Cardinality(S)
BY Zenon DEF Fingers!Cardinality, Cardinality

SlotT == {Empty} \cup Fingers!Holder
TableT(t, C) == C \in Nat \ {0} /\ t \in [0..(C - 1) -> SlotT]

LEMMA CapacityIs ==
  ASSUME NEW t, NEW C, TableT(t, C)
  PROVE  /\ Fingers!Capacity(t) = C /\ C \in Nat \ {0}
         /\ \A h, d : Fingers!Slot(t, h, d) = Probe(C, h, d)
<1>1. C \in Nat \ {0} /\ DOMAIN t = 0..(C - 1)
  BY DEF TableT
<1>2. Cardinality(0..(C - 1)) = C
  BY <1>1, FS_Interval
<1>3. Fingers!Capacity(t) = C
  BY <1>1, <1>2, SameCardinality, Zenon DEF Fingers!Capacity
<1> QED BY <1>1, <1>3 DEF Fingers!Slot, Probe

\* What a used slot holds, and an unused one.
LEMMA SlotFacts ==
  ASSUME PartsAssumption, NEW t, NEW C, TableT(t, C)
  PROVE  /\ Empty \notin Fingers!Holder /\ Hashes \subseteq Nat
         /\ \A i \in 0..(C - 1) : t[i] # Empty =>
              t[i] \in Fingers!Holder /\ t[i].hash \in Hashes /\ t[i].id \in 0..(MaxIds - 1)
         /\ Fingers!Used(t) = {i \in 0..(C - 1) : t[i] # Empty}
         /\ IsFiniteSet(0..(C - 1)) /\ IsFiniteSet(Fingers!Used(t))
         /\ Cardinality(Fingers!Used(t)) \in Nat /\ Cardinality(Fingers!Used(t)) <= C
<1>1. DOMAIN t = 0..(C - 1) /\ C \in Nat \ {0}
  BY DEF TableT
<1>2. Empty \notin Fingers!Holder /\ Hashes \subseteq Nat
  BY DEF PartsAssumption, Fingers!TableAssumption
<1>3. ASSUME NEW i \in 0..(C - 1), t[i] # Empty
      PROVE  t[i] \in Fingers!Holder /\ t[i].hash \in Hashes /\ t[i].id \in 0..(MaxIds - 1)
  <2>1. t[i] \in Fingers!Holder
    BY <1>3 DEF TableT, SlotT
  <2> QED BY <2>1 DEF Fingers!Holder
<1>4. Fingers!Used(t) = {i \in 0..(C - 1) : t[i] # Empty}
  BY <1>1 DEF Fingers!Used
<1>5. IsFiniteSet(0..(C - 1)) /\ Cardinality(0..(C - 1)) = C
  BY <1>1, FS_Interval
<1>6. Fingers!Used(t) \subseteq 0..(C - 1)
  BY <1>4
<1>7. /\ IsFiniteSet(Fingers!Used(t)) /\ Cardinality(Fingers!Used(t)) \in Nat
      /\ Cardinality(Fingers!Used(t)) <= C
  BY <1>5, <1>6, FS_Subset, FS_CardinalityType
<1> QED BY <1>2, <1>3, <1>4, <1>5, <1>7

\* A probe's length: what the CHOOSE of it looks for is there.
LEMMA LengthIs ==
  ASSUME NEW t, NEW C, TableT(t, C), NEW h
  PROVE  /\ Fingers!Length(t, h) \in 0..C
         /\ Fingers!Length(t, h) = C \/ t[Probe(C, h, Fingers!Length(t, h))] = Empty
         /\ \A e \in 0..(Fingers!Length(t, h) - 1) : t[Probe(C, h, e)] # Empty
<1> DEFINE Ends(d) == d = C \/ t[Probe(C, h, d)] = Empty
           Is(d) == Ends(d) /\ \A e \in 0..(d - 1) : t[Probe(C, h, e)] # Empty
           T == {d \in 0..C : Ends(d)}
<1>1. C \in Nat \ {0}
  BY DEF TableT
<1>2. T \subseteq Nat /\ T # {}
  <2>1. C \in T
    BY <1>1
  <2> QED BY <2>1
<1>3. PICK d \in T : \A e \in T : d <= e
  <2> HIDE DEF T
  <2> QED BY <1>2, LeastNatural
<1>4. \A e \in 0..(d - 1) : t[Probe(C, h, e)] # Empty
  BY <1>1, <1>3
<1>5. d \in 0..C /\ Is(d)
  BY <1>3, <1>4
<1>6. Fingers!Length(t, h) = CHOOSE x \in 0..C : Is(x)
  BY CapacityIs DEF Fingers!Length
<1>7. Fingers!Length(t, h) \in 0..C /\ Is(Fingers!Length(t, h))
  <2> HIDE DEF Is
  <2> QED BY <1>5, <1>6
<1> QED BY <1>7
-----------------------------------------------------------------------------
(* The holders of a fingerprint, in the order of their ids.                *)

Of(t, h) == {i \in Fingers!Used(t) : t[i].hash = h}

\* Every used slot is met by the probe of its fingerprint, before an empty one.
OnPath(t, C) ==
  \A i \in Fingers!Used(t) : \E d \in 0..(C - 1) :
    Probe(C, t[i].hash, d) = i /\ \A e \in 0..d : t[Probe(C, t[i].hash, e)] # Empty

Good(t, C) ==
  /\ TableT(t, C) /\ OnPath(t, C)
  /\ \A h \in Hashes : Cardinality(Of(t, h)) <= HOLDERS

LEMMA OfFacts ==
  ASSUME PartsAssumption, NEW t, NEW C, TableT(t, C), NEW h
  PROVE  /\ Of(t, h) = {i \in 0..(C - 1) : t[i] # Empty /\ t[i].hash = h}
         /\ IsFiniteSet(Of(t, h)) /\ Cardinality(Of(t, h)) \in Nat
         /\ \A i \in Of(t, h) : t[i] \in Fingers!Holder /\ t[i].id \in 0..(MaxIds - 1) /\ t[i].id \in Nat
<1>1. Of(t, h) \subseteq Fingers!Used(t)
  BY DEF Of
<1>2. IsFiniteSet(Of(t, h)) /\ Cardinality(Of(t, h)) \in Nat
  BY <1>1, SlotFacts, FS_Subset, FS_CardinalityType
<1>3. Of(t, h) = {i \in 0..(C - 1) : t[i] # Empty /\ t[i].hash = h}
  BY SlotFacts DEF Of
<1>4. \A i \in Of(t, h) : t[i] \in Fingers!Holder /\ t[i].id \in 0..(MaxIds - 1)
  BY <1>3, SlotFacts
<1> QED BY <1>2, <1>3, <1>4

\* A bijection keeps the number of elements.
LEMMA SameNumber ==
  ASSUME NEW S, IsFiniteSet(S), NEW T, NEW f \in [S -> T],
         \A x, y \in S : f[x] = f[y] => x = y,
         \A z \in T : \E x \in S : f[x] = z
  PROVE  IsFiniteSet(T) /\ Cardinality(T) = Cardinality(S)
<1>1. f \in Injection(S, T) /\ f \in Surjection(S, T)
  BY DEF Injection, IsInjective, Surjection
<1>2. ExistsBijection(S, T)
  BY <1>1 DEF ExistsBijection, Bijection
<1> QED BY <1>2, FS_Bijection

\* The probe of h passes all the holders of h, and no others.
LEMMA HoldingIs ==
  ASSUME PartsAssumption, NEW t, NEW C, TableT(t, C), OnPath(t, C), NEW h \in Hashes
  PROVE  /\ Fingers!Holding(t, h) \subseteq 0..(C - 1)
         /\ \A d \in Fingers!Holding(t, h) :
              Fingers!Slot(t, h, d) = Probe(C, h, d) /\ Probe(C, h, d) \in Of(t, h)
         /\ \A i \in Of(t, h) : \E d \in Fingers!Holding(t, h) : Probe(C, h, d) = i
         /\ IsFiniteSet(Fingers!Holding(t, h))
         /\ Cardinality(Fingers!Holding(t, h)) = Cardinality(Of(t, h))
<1> DEFINE L == Fingers!Length(t, h)
           H == Fingers!Holding(t, h)
<1>1. C \in Nat \ {0} /\ h \in Nat /\ \A d : Fingers!Slot(t, h, d) = Probe(C, h, d)
  BY CapacityIs, SlotFacts
<1>2. L \in 0..C /\ (L = C \/ t[Probe(C, h, L)] = Empty) /\ \A e \in 0..(L - 1) : t[Probe(C, h, e)] # Empty
  BY LengthIs
<1>3. H = {d \in 0..(L - 1) : t[Probe(C, h, d)].hash = h}
  BY <1>1 DEF Fingers!Holding
<1> HIDE DEF L, H
<1>4. H \subseteq 0..(C - 1)
  BY <1>1, <1>2, <1>3
<1>5. ASSUME NEW d \in H PROVE Probe(C, h, d) \in Of(t, h)
  <2>1. Probe(C, h, d) \in 0..(C - 1)
    BY <1>1, <1>4, ProbeIn
  <2>2. t[Probe(C, h, d)] # Empty /\ t[Probe(C, h, d)].hash = h
    BY <1>2, <1>3
  <2> QED BY <2>1, <2>2, OfFacts
<1>6. ASSUME NEW i \in Of(t, h) PROVE \E d \in H : Probe(C, h, d) = i
  <2>1. i \in Fingers!Used(t) /\ t[i].hash = h
    BY DEF Of
  <2>2. PICK d \in 0..(C - 1) : Probe(C, h, d) = i /\ \A e \in 0..d : t[Probe(C, h, e)] # Empty
    BY <2>1 DEF OnPath
  <2>3. ~(L <= d)
    BY <1>1, <1>2, <2>2
  <2>4. d \in 0..(L - 1)
    BY <1>1, <1>2, <2>3
  <2> QED BY <1>3, <2>1, <2>2, <2>4
<1>7. IsFiniteSet(H)
  <2>1. IsFiniteSet(0..(C - 1))
    BY SlotFacts
  <2> QED BY <1>4, <2>1, FS_Subset
<1>8. Cardinality(Of(t, h)) = Cardinality(H)
  <2> DEFINE f == [d \in H |-> Probe(C, h, d)]
  <2>1. f \in [H -> Of(t, h)]
    BY <1>5
  <2>2. ASSUME NEW d \in H, NEW e \in H, f[d] = f[e] PROVE d = e
    BY <2>2, <1>1, <1>4, ProbeOnce
  <2>3. \A i \in Of(t, h) : \E d \in H : f[d] = i
    BY <1>6
  <2> HIDE DEF f
  <2> QED BY <2>1, <2>2, <2>3, <1>7, SameNumber
<1> QED BY <1>1, <1>4, <1>5, <1>6, <1>7, <1>8 DEF H

\* The rank among S of a distance is the number of those before it; with the ids of
\* numbers no two have one rank, and every rank below the number of them is somebody's.
LEMMA ByIdIs ==
  ASSUME NEW t, NEW h, NEW S \in SUBSET Nat, IsFiniteSet(S),
         \A d \in S : t[Fingers!Slot(t, h, d)].id \in Nat
  PROVE  LET n == Cardinality(S)
             b == Fingers!ById(t, h, S)
         IN  /\ n \in Nat /\ b \in [1..n -> S]
             /\ \A j, k \in 1..n : j < k => Fingers!Before(t, h, b[j], b[k])
             /\ \A j, k \in 1..n : b[j] = b[k] => j = k
             /\ \A d \in S : \E k \in 1..n : b[k] = d
<1> DEFINE n == Cardinality(S)
           b == Fingers!ById(t, h, S)
           Lt(d, e) == Fingers!Before(t, h, d, e)
           Below(d) == {e \in S : Lt(e, d)}
           rank == [d \in S |-> Cardinality(Below(d))]
           I == 0..(n - 1)
<1>1. n \in Nat
  BY FS_CardinalityType
<1>2. /\ \A d, e \in S : Lt(d, e) \/ Lt(e, d) \/ d = e
      /\ \A d \in S : ~Lt(d, d)
      /\ \A d, e, f \in S : Lt(d, e) /\ Lt(e, f) => Lt(d, f)
  BY DEF Fingers!Before
<1>3. \A d \in S : Fingers!Rank(t, h, S, d) = rank[d]
  BY SameCardinality DEF Fingers!Rank
<1>4. b = [k \in 1..n |-> CHOOSE d \in S : Fingers!Rank(t, h, S, d) = k - 1]
  BY SameCardinality, Zenon DEF Fingers!ById
<1> HIDE DEF Lt, b
<1>5. ASSUME NEW d \in S
      PROVE  IsFiniteSet(Below(d)) /\ rank[d] \in Nat /\ rank[d] <= n - 1
  <2> DEFINE B == Below(d)
  <2>1. B \subseteq S \ {d}
    BY <1>2
  <2>2. IsFiniteSet(S \ {d}) /\ Cardinality(S \ {d}) = n - 1
    BY FS_RemoveElement
  <2>3. rank[d] = Cardinality(B)
    OBVIOUS
  <2> HIDE DEF B
  <2>4. IsFiniteSet(B) /\ Cardinality(B) <= Cardinality(S \ {d})
    BY <2>1, <2>2, FS_Subset
  <2>5. IsFiniteSet(B) /\ Cardinality(B) \in Nat /\ Cardinality(B) <= n - 1
    BY <2>2, <2>4, FS_CardinalityType
  <2> QED BY <2>3, <2>5 DEF B
<1>6. ASSUME NEW d \in S, NEW e \in S, Lt(d, e) PROVE rank[d] < rank[e]
  <2> DEFINE A == Below(d)
             B == Below(e)
  <2>1. A \cup {d} \subseteq B /\ d \notin A
    BY <1>2, <1>6
  <2>2. IsFiniteSet(A) /\ IsFiniteSet(B)
    BY <1>5
  <2>3. rank[d] = Cardinality(A) /\ rank[e] = Cardinality(B)
    OBVIOUS
  <2> HIDE DEF A, B
  <2>4. Cardinality(A \cup {d}) = Cardinality(A) + 1
    BY <2>1, <2>2, FS_AddElement
  <2>5. Cardinality(A \cup {d}) <= Cardinality(B)
    BY <2>1, <2>2, FS_Subset
  <2>6. rank[d] \in Nat /\ rank[e] \in Nat
    BY <1>5
  <2> HIDE DEF rank
  <2> QED BY <2>3, <2>4, <2>5, <2>6
<1>7. rank \in [S -> I]
  <2>1. \A d \in S : rank[d] \in I
    BY <1>1, <1>5
  <2> QED BY <2>1
<1>8. DOMAIN rank = S
  OBVIOUS
<1> HIDE DEF rank
<1>16. \A d \in S : rank[d] \in Nat
  BY <1>5
<1>17. \A d, e \in S : Lt(d, e) => rank[d] < rank[e]
  BY <1>6
<1> HIDE DEF n, I
<1>9. ASSUME NEW d \in S, NEW e \in S, rank[d] = rank[e] PROVE d = e
  BY <1>2, <1>9, <1>16, <1>17
<1>10. ASSUME NEW k \in I PROVE \E d \in S : rank[d] = k
  <2>1. rank \in Injection(S, I)
    BY <1>7, <1>9 DEF Injection, IsInjective
  <2>2. IsFiniteSet(I) /\ Cardinality(I) = n
    <3> USE DEF I
    <3>1. 0 \in Int /\ n - 1 \in Int
      BY <1>1
    <3>2. IsFiniteSet(I) /\ Cardinality(I) = IF 0 > n - 1 THEN 0 ELSE n - 1 - 0 + 1
      BY <3>1, FS_Interval
    <3> QED BY <1>1, <3>2
  <2>3. rank \in Surjection(S, I)
    BY <2>1, <2>2, FS_Injection DEF n
  <2> QED BY <2>3 DEF Surjection
<1>11. ASSUME NEW k \in 1..n PROVE b[k] \in S /\ rank[b[k]] = k - 1
  <2>1. k - 1 \in I
    BY <1>1 DEF I
  <2>2. \E d \in S : rank[d] = k - 1
    BY <1>10, <2>1
  <2>3. \E d \in S : Fingers!Rank(t, h, S, d) = k - 1
    BY <1>3, <2>2
  <2>4. b[k] = CHOOSE d \in S : Fingers!Rank(t, h, S, d) = k - 1
    BY <1>4
  <2>5. b[k] \in S /\ Fingers!Rank(t, h, S, b[k]) = k - 1
    BY <2>3, <2>4
  <2> QED BY <1>3, <2>5
<1>12. b \in [1..n -> S]
  <2>1. \A k \in 1..n : b[k] \in S
    BY <1>11
  <2> QED BY <1>4, <2>1
<1>13. ASSUME NEW j \in 1..n, NEW k \in 1..n, b[j] = b[k] PROVE j = k
  BY <1>11, <1>13
<1>14. ASSUME NEW j \in 1..n, NEW k \in 1..n, j < k PROVE Lt(b[j], b[k])
  <2>1. b[j] \in S /\ b[k] \in S /\ rank[b[j]] = j - 1 /\ rank[b[k]] = k - 1
    BY <1>11
  <2>2. ASSUME Lt(b[k], b[j]) PROVE FALSE
    <3>1. rank[b[k]] < rank[b[j]]
      BY <1>17, <2>1, <2>2
    <3>2. k - 1 < j - 1
      BY ONLY <3>1, <2>1
    <3> QED BY ONLY <3>2, <1>1, <1>14, j \in 1..n, k \in 1..n
  <2>3. b[j] # b[k]
    BY <1>14, <2>1
  <2> QED BY <2>1, <2>2, <2>3, <1>2
<1>15. ASSUME NEW d \in S PROVE \E k \in 1..n : b[k] = d
  <2>1. PICK k \in 1..n : k = rank[d] + 1
    BY <1>1, <1>7, <1>16 DEF I
  <2>2. b[k] \in S /\ rank[b[k]] = k - 1
    BY <1>11
  <2>3. k - 1 = rank[d]
    BY <1>16, <2>1
  <2>4. b[k] = d
    BY <1>9, <2>2, <2>3
  <2> QED BY <2>4
<1> QED BY <1>1, <1>12, <1>13, <1>14, <1>15 DEF Lt, b, n
-----------------------------------------------------------------------------
(* What a lookup gives: the ids of h's slots in order, whichever slots     *)
(* they are.                                                               *)

\* b numbers the slots of h so that their ids are those of s, in order.
Arranges(t, h, s, b) ==
  LET n == Cardinality(Of(t, h))
  IN  /\ b \in [1..n -> Of(t, h)] /\ s \in [1..n -> Nat]
      /\ \A j, k \in 1..n : b[j] = b[k] => j = k
      /\ \A i \in Of(t, h) : \E k \in 1..n : b[k] = i
      /\ \A k \in 1..n : s[k] = t[b[k]].id
      /\ \A j, k \in 1..n : j < k => s[j] <= s[k]

LEMMA LookupArranges ==
  ASSUME PartsAssumption, NEW t, NEW C, TableT(t, C), OnPath(t, C), NEW h \in Hashes
  PROVE  \E b : /\ Arranges(t, h, Fingers!Lookup(t, h), b)
                /\ Cardinality(Of(t, h)) # 0 => Fingers!Oldest(t, h) = b[1]
<1> DEFINE H == Fingers!Holding(t, h)
           n == Cardinality(Of(t, h))
           c == Fingers!ById(t, h, H)
           b == [k \in 1..n |-> Probe(C, h, c[k])]
           s == Fingers!Lookup(t, h)
<1>1. /\ H \subseteq 0..(C - 1) /\ IsFiniteSet(H) /\ Cardinality(H) = n
      /\ \A d \in H : Fingers!Slot(t, h, d) = Probe(C, h, d) /\ Probe(C, h, d) \in Of(t, h)
      /\ \A i \in Of(t, h) : \E d \in H : Probe(C, h, d) = i
  BY HoldingIs
<1>2. C \in Nat \ {0} /\ h \in Nat
  BY CapacityIs, SlotFacts
<1>3. /\ n \in Nat
      /\ \A i \in Of(t, h) : t[i].id \in Nat
  BY OfFacts
<1>4. H \in SUBSET Nat /\ \A d \in H : t[Fingers!Slot(t, h, d)].id \in Nat
  BY <1>1, <1>2, <1>3
<1> HIDE DEF H, n, c
<1>5. /\ c \in [1..n -> H]
      /\ \A j, k \in 1..n : j < k => Fingers!Before(t, h, c[j], c[k])
      /\ \A j, k \in 1..n : c[j] = c[k] => j = k
      /\ \A d \in H : \E k \in 1..n : c[k] = d
  BY <1>1, <1>4, ByIdIs DEF c
<1>6. b \in [1..n -> Of(t, h)]
  BY <1>1, <1>5
<1>7. ASSUME NEW j \in 1..n, NEW k \in 1..n, b[j] = b[k] PROVE j = k
  <2>1. c[j] \in 0..(C - 1) /\ c[k] \in 0..(C - 1)
    BY <1>1, <1>5
  <2>2. c[j] = c[k]
    BY <2>1, <1>2, <1>7, ProbeOnce
  <2> QED BY <2>2, <1>5
<1>8. ASSUME NEW i \in Of(t, h) PROVE \E k \in 1..n : b[k] = i
  BY <1>1, <1>5
<1>9. s = [k \in 1..n |-> t[Fingers!Slot(t, h, c[k])].id]
  <2>1. DOMAIN c = 1..n
    BY <1>5
  <2> QED BY <2>1 DEF Fingers!Lookup, c, H
<1>10. ASSUME NEW k \in 1..n PROVE Fingers!Slot(t, h, c[k]) = b[k] /\ s[k] = t[b[k]].id /\ s[k] \in Nat
  <2>1. c[k] \in H
    BY <1>5
  <2>2. Fingers!Slot(t, h, c[k]) = Probe(C, h, c[k]) /\ Probe(C, h, c[k]) \in Of(t, h)
    BY <1>1, <2>1
  <2>3. b[k] = Probe(C, h, c[k]) /\ s[k] = t[Fingers!Slot(t, h, c[k])].id
    BY <1>9
  <2> QED BY <1>3, <2>2, <2>3
<1>11. s \in [1..n -> Nat]
  BY <1>9, <1>10
<1>12. ASSUME NEW j \in 1..n, NEW k \in 1..n, j < k PROVE s[j] <= s[k]
  <2>1. Fingers!Before(t, h, c[j], c[k])
    BY <1>5, <1>12
  <2>2. s[j] < s[k] \/ s[j] = s[k]
    BY <2>1, <1>10 DEF Fingers!Before
  <2> QED BY <2>2, <1>10
<1>13. ASSUME n # 0 PROVE Fingers!Oldest(t, h) = b[1]
  <2>1. 1 \in 1..n
    BY <1>3, <1>13
  <2>2. Fingers!Oldest(t, h) = Fingers!Slot(t, h, c[1])
    BY DEF Fingers!Oldest, c, H
  <2> QED BY <2>1, <2>2, <1>10
<1> HIDE DEF b, s
<1>14. Arranges(t, h, s, b)
  BY <1>6, <1>7, <1>8, <1>10, <1>11, <1>12 DEF Arranges, n
<1> QED BY <1>13, <1>14 DEF n, s

\* A subset of 1..n that holds what is below its members is 1..m.
LEMMA Initial ==
  ASSUME NEW n \in Nat, NEW D \in SUBSET (1..n),
         \A j \in 1..n, k \in D : j < k => j \in D
  PROVE  /\ Cardinality(D) \in Nat
         /\ \A k \in 1..n : k \in D <=> k <= Cardinality(D)
<1>1. IsFiniteSet(1..n)
  BY FS_Interval
<1>2. IsFiniteSet(D) /\ Cardinality(D) \in Nat
  BY <1>1, FS_Subset, FS_CardinalityType
<1>3. ASSUME NEW k \in D PROVE k <= Cardinality(D)
  <2>1. 1..k \subseteq D /\ k \in Nat /\ 1 <= k
    OBVIOUS
  <2>2. Cardinality(1..k) = k
    BY <2>1, FS_Interval
  <2> QED BY <1>2, <2>1, <2>2, FS_Subset
<1>4. ASSUME NEW k \in 1..n, k \notin D PROVE Cardinality(D) < k
  <2>1. D \subseteq 1..(k - 1)
    BY <1>4
  <2>2. IsFiniteSet(1..(k - 1)) /\ Cardinality(1..(k - 1)) = k - 1
    <3>1. 1 \in Int /\ k - 1 \in Int /\ 1 <= k
      OBVIOUS
    <3>2. IsFiniteSet(1..(k - 1)) /\ Cardinality(1..(k - 1)) = IF 1 > k - 1 THEN 0 ELSE k - 1 - 1 + 1
      BY <3>1, FS_Interval
    <3> QED BY <3>1, <3>2
  <2>3. Cardinality(D) <= Cardinality(1..(k - 1))
    BY <2>1, <2>2, FS_Subset
  <2> QED BY <1>2, <2>2, <2>3
<1>5. ASSUME NEW k \in 1..n PROVE k \in D <=> k <= Cardinality(D)
  <2>1. CASE k \in D
    BY <1>3, <2>1
  <2>2. CASE k \notin D
    BY <1>2, <1>4, <2>2
  <2> QED BY <2>1, <2>2
<1> QED BY <1>2, <1>5

\* How many of the ids are at most x decides the arranged ones.
LEMMA Counted ==
  ASSUME PartsAssumption, NEW t, NEW C, TableT(t, C), NEW h, NEW s, NEW b,
         Arranges(t, h, s, b), NEW x \in Nat, NEW k \in 1..Cardinality(Of(t, h))
  PROVE  s[k] <= x <=> k <= Cardinality({i \in Of(t, h) : t[i].id <= x})
<1> DEFINE n == Cardinality(Of(t, h))
           D == {j \in 1..n : s[j] <= x}
           E == {i \in Of(t, h) : t[i].id <= x}
           f == [j \in D |-> b[j]]
<1>1. n \in Nat /\ \A i \in Of(t, h) : t[i].id \in Nat
  BY OfFacts
<1>2. /\ b \in [1..n -> Of(t, h)] /\ s \in [1..n -> Nat]
      /\ \A j, m \in 1..n : b[j] = b[m] => j = m
      /\ \A i \in Of(t, h) : \E m \in 1..n : b[m] = i
      /\ \A m \in 1..n : s[m] = t[b[m]].id
      /\ \A j, m \in 1..n : j < m => s[j] <= s[m]
  BY DEF Arranges
<1> HIDE DEF n
<1>3. f \in [D -> E]
  <2>1. \A j \in D : b[j] \in E
    BY <1>2
  <2> QED BY <2>1
<1>4. \A j, m \in D : f[j] = f[m] => j = m
  BY <1>2
<1>5. \A i \in E : \E j \in D : f[j] = i
  BY <1>2
<1>6. \A j \in 1..n, m \in D : j < m => j \in D
  <2> SUFFICES ASSUME NEW j \in 1..n, NEW m \in D, j < m PROVE s[j] <= x
    OBVIOUS
  <2>1. s[j] <= s[m] /\ s[m] <= x /\ s[j] \in Nat /\ s[m] \in Nat
    BY <1>2
  <2> QED BY <2>1
<1>7. D \subseteq 1..n /\ IsFiniteSet(1..n)
  BY <1>1, FS_Interval
<1>8. k \in 1..n /\ (s[k] <= x <=> k \in D)
  BY DEF n
<1> HIDE DEF D, E, f
<1>9. IsFiniteSet(D)
  BY <1>7, FS_Subset
<1>10. Cardinality(E) = Cardinality(D)
  BY <1>3, <1>4, <1>5, <1>9, SameNumber
<1>11. k \in D <=> k <= Cardinality(D)
  BY <1>1, <1>6, <1>7, <1>8, Initial
<1> QED BY <1>8, <1>10, <1>11 DEF E

LEMMA ArrangedOnce ==
  ASSUME PartsAssumption, NEW t, NEW C, TableT(t, C), NEW h, NEW s, NEW b, NEW r, NEW c,
         Arranges(t, h, s, b), Arranges(t, h, r, c)
  PROVE  s = r
<1> DEFINE n == Cardinality(Of(t, h))
<1>1. s \in [1..n -> Nat] /\ r \in [1..n -> Nat]
  BY DEF Arranges
<1>2. ASSUME NEW k \in 1..n PROVE s[k] = r[k]
  <2>1. PICK x \in Nat, y \in Nat : x = s[k] /\ y = r[k]
    BY <1>1
  <2>2. s[k] <= x <=> r[k] <= x
    BY Counted
  <2>3. s[k] <= y <=> r[k] <= y
    BY Counted
  <2> QED BY <2>1, <2>2, <2>3
<1> HIDE DEF n
<1>3. s = [k \in 1..n |-> s[k]] /\ r = [k \in 1..n |-> r[k]]
  BY ONLY <1>1
<1>4. [k \in 1..n |-> s[k]] = [k \in 1..n |-> r[k]]
  BY ONLY <1>2, Zenon
<1> QED BY ONLY <1>3, <1>4
-----------------------------------------------------------------------------
(* Insertion without growth.                                               *)

\* The probe of h finds its first empty slot after d others.
Stops(t, C, h, d) ==
  /\ d \in 0..(C - 1) /\ t[Probe(C, h, d)] = Empty
  /\ \A e \in 0..(d - 1) : t[Probe(C, h, e)] # Empty

\* A new holder in slot j.
With(t, j, h, x) == [t EXCEPT ![j] = [hash |-> h, id |-> x]]

LEMMA Filled ==
  ASSUME PartsAssumption, NEW t, NEW C, TableT(t, C), OnPath(t, C),
         NEW h \in Hashes, NEW x \in 0..(MaxIds - 1), NEW d, Stops(t, C, h, d),
         NEW j, j = Probe(C, h, d),
         NEW u, u = With(t, j, h, x)
  PROVE  /\ j \in 0..(C - 1) /\ t[j] = Empty
         /\ TableT(u, C) /\ OnPath(u, C)
         /\ u[j] = [hash |-> h, id |-> x] /\ \A i \in Fingers!Used(t) : u[i] = t[i]
         /\ Fingers!Used(u) = Fingers!Used(t) \cup {j} /\ j \notin Fingers!Used(t)
         /\ Of(u, h) = Of(t, h) \cup {j} /\ j \notin Of(t, h)
         /\ \A g \in Hashes : g # h => Of(u, g) = Of(t, g)
<1> DEFINE rec == [hash |-> h, id |-> x]
<1>1. C \in Nat \ {0} /\ h \in Nat /\ t \in [0..(C - 1) -> SlotT]
  BY CapacityIs, SlotFacts DEF TableT
<1>0. d \in 0..(C - 1) /\ t[Probe(C, h, d)] = Empty /\ \A e \in 0..(d - 1) : t[Probe(C, h, e)] # Empty
  BY DEF Stops
<1>2. j \in 0..(C - 1) /\ t[j] = Empty
  BY <1>0, <1>1, ProbeIn
<1>3. rec \in Fingers!Holder /\ rec # Empty /\ rec.hash = h
  <2>1. rec \in Fingers!Holder
    BY DEF Fingers!Holder
  <2> QED BY <2>1, SlotFacts
<1> HIDE DEF rec
<1>4. u = [t EXCEPT ![j] = rec]
  BY DEF rec, With
<1>5. /\ u \in [0..(C - 1) -> SlotT] /\ u[j] = rec
      /\ \A i \in 0..(C - 1) : i # j => u[i] = t[i]
  BY <1>1, <1>2, <1>3, <1>4 DEF SlotT
<1>6. TableT(u, C)
  BY <1>1, <1>5 DEF TableT
<1>7. /\ Fingers!Used(t) = {i \in 0..(C - 1) : t[i] # Empty}
      /\ Fingers!Used(u) = {i \in 0..(C - 1) : u[i] # Empty}
  BY <1>6, SlotFacts
<1>8. Fingers!Used(u) = Fingers!Used(t) \cup {j} /\ j \notin Fingers!Used(t)
  <2>1. \A i \in 0..(C - 1) : u[i] # Empty <=> t[i] # Empty \/ i = j
    BY <1>2, <1>3, <1>5
  <2>2. j \notin Fingers!Used(t)
    BY <1>2, <1>7
  <2> QED BY <2>1, <2>2, <1>2, <1>7
<1>9. Of(u, h) = Of(t, h) \cup {j} /\ j \notin Of(t, h)
  BY <1>3, <1>5, <1>7, <1>8 DEF Of
<1>10. ASSUME NEW g \in Hashes, g # h PROVE Of(u, g) = Of(t, g)
  BY <1>3, <1>5, <1>7, <1>8, <1>10 DEF Of
<1>11. \A y \in 0..(C - 1) : t[y] # Empty => u[y] # Empty
  BY <1>2, <1>5
<1>12. \A g \in Nat, e \in Nat : Probe(C, g, e) \in 0..(C - 1)
  BY <1>1, ProbeIn
<1>13. ASSUME NEW i \in Fingers!Used(u)
       PROVE  \E f \in 0..(C - 1) : /\ Probe(C, u[i].hash, f) = i
                                    /\ \A e \in 0..f : u[Probe(C, u[i].hash, e)] # Empty
  <2>1. CASE i = j
    <3>1. u[i].hash = h
      BY <2>1, <1>3, <1>5
    <3>2. ASSUME NEW e \in 0..d PROVE u[Probe(C, h, e)] # Empty
      <4>1. CASE e = d
        BY <4>1, <1>0, <1>3, <1>5
      <4>2. CASE e # d
        <5>1. e \in 0..(d - 1) /\ e \in Nat
          BY <4>2, <1>0
        <5> QED BY <5>1, <1>0, <1>1, <1>11, <1>12
      <4> QED BY <4>1, <4>2
    <3> QED BY <1>0, <2>1, <3>1, <3>2
  <2>2. CASE i # j
    <3>1. i \in Fingers!Used(t) /\ u[i] = t[i] /\ i \in 0..(C - 1)
      BY <2>2, <1>5, <1>7, <1>8
    <3>2. PICK f \in 0..(C - 1) : /\ Probe(C, t[i].hash, f) = i
                                  /\ \A e \in 0..f : t[Probe(C, t[i].hash, e)] # Empty
      BY <3>1 DEF OnPath
    <3>3. t[i].hash \in Nat
      BY <3>1, <1>7, SlotFacts
    <3>4. ASSUME NEW e \in 0..f PROVE u[Probe(C, t[i].hash, e)] # Empty
      <4>1. e \in Nat
        OBVIOUS
      <4>2. Probe(C, t[i].hash, e) \in 0..(C - 1)
        BY ONLY <4>1, <3>3, <1>12
      <4> QED BY <3>2, <4>2, <1>11
    <3> QED BY <3>1, <3>2, <3>4
  <2> QED BY <2>1, <2>2
<1>14. OnPath(u, C)
  BY <1>13 DEF OnPath
<1> QED BY <1>2, <1>5, <1>6, <1>7, <1>8, <1>9, <1>10, <1>14 DEF rec

LEMMA Replaced ==
  ASSUME PartsAssumption, NEW t, NEW C, TableT(t, C), OnPath(t, C),
         NEW h \in Hashes, NEW x \in 0..(MaxIds - 1), NEW j \in Of(t, h),
         NEW u, u = With(t, j, h, x)
  PROVE  /\ TableT(u, C) /\ OnPath(u, C)
         /\ u[j] = [hash |-> h, id |-> x] /\ \A i \in Fingers!Used(t) : i # j => u[i] = t[i]
         /\ Fingers!Used(u) = Fingers!Used(t)
         /\ \A g : Of(u, g) = Of(t, g)
<1> DEFINE rec == [hash |-> h, id |-> x]
<1>1. C \in Nat \ {0} /\ h \in Nat /\ t \in [0..(C - 1) -> SlotT]
  BY CapacityIs, SlotFacts DEF TableT
<1>2. j \in 0..(C - 1) /\ t[j] # Empty /\ t[j].hash = h
  BY OfFacts
<1>3. rec \in Fingers!Holder /\ rec # Empty /\ rec.hash = h
  <2>1. rec \in Fingers!Holder
    BY DEF Fingers!Holder
  <2> QED BY <2>1, SlotFacts
<1> HIDE DEF rec
<1>4. u = [t EXCEPT ![j] = rec]
  BY DEF rec, With
<1>5. /\ u \in [0..(C - 1) -> SlotT] /\ u[j] = rec
      /\ \A i \in 0..(C - 1) : i # j => u[i] = t[i]
  BY <1>1, <1>2, <1>3, <1>4 DEF SlotT
<1>6. TableT(u, C)
  BY <1>1, <1>5 DEF TableT
<1>7. /\ Fingers!Used(t) = {i \in 0..(C - 1) : t[i] # Empty}
      /\ Fingers!Used(u) = {i \in 0..(C - 1) : u[i] # Empty}
  BY <1>6, SlotFacts
<1>8. Fingers!Used(u) = Fingers!Used(t)
  BY <1>2, <1>3, <1>5, <1>7
<1>9. \A i \in 0..(C - 1) : u[i].hash = t[i].hash
  BY <1>2, <1>3, <1>5
<1>10. \A g : Of(u, g) = Of(t, g)
  BY <1>7, <1>8, <1>9 DEF Of
<1>11. \A y \in 0..(C - 1) : t[y] # Empty => u[y] # Empty
  BY <1>3, <1>5
<1>12. \A g \in Nat, e \in Nat : Probe(C, g, e) \in 0..(C - 1)
  BY <1>1, ProbeIn
<1>13. ASSUME NEW i \in Fingers!Used(u)
       PROVE  \E f \in 0..(C - 1) : /\ Probe(C, u[i].hash, f) = i
                                    /\ \A e \in 0..f : u[Probe(C, u[i].hash, e)] # Empty
  <2>1. i \in Fingers!Used(t) /\ u[i].hash = t[i].hash /\ i \in 0..(C - 1)
    BY <1>7, <1>8, <1>9
  <2>2. PICK f \in 0..(C - 1) : /\ Probe(C, t[i].hash, f) = i
                                /\ \A e \in 0..f : t[Probe(C, t[i].hash, e)] # Empty
    BY <2>1 DEF OnPath
  <2>3. t[i].hash \in Nat
    BY <2>1, <1>7, SlotFacts
  <2>4. ASSUME NEW e \in 0..f PROVE u[Probe(C, t[i].hash, e)] # Empty
    <3>1. e \in Nat /\ Probe(C, t[i].hash, e) \in 0..(C - 1)
      <4>1. e \in Nat
        OBVIOUS
      <4> QED BY ONLY <4>1, <2>3, <1>12
    <3> QED BY <2>2, <3>1, <1>11
  <2> QED BY <2>1, <2>2, <2>4
<1>14. OnPath(u, C)
  BY <1>13 DEF OnPath
<1> QED BY <1>5, <1>6, <1>7, <1>8, <1>10, <1>14 DEF rec

\* What an insertion does in a table with an empty slot: it fills one that h's probe meets
\* after its holders, or puts the new holder where the lowest was.
LEMMA SetIs ==
  ASSUME PartsAssumption, NEW t, NEW C, Good(t, C),
         NEW h \in Hashes, NEW x \in 0..(MaxIds - 1), NEW n \in Nat,
         NEW a \in 0..(C - 1), t[a] = Empty,
         NEW u, NEW m, u = Fingers!Set(t, n, h, x).slots, m = Fingers!Set(t, n, h, x).count
  PROVE  \/ /\ Cardinality(Of(t, h)) < HOLDERS /\ m = n + 1
            /\ \E d :
                 /\ Stops(t, C, h, d)
                 /\ u = With(t, Probe(C, h, d), h, x)
         \/ /\ Cardinality(Of(t, h)) = HOLDERS /\ m = n /\ Fingers!Oldest(t, h) \in Of(t, h)
            /\ u = With(t, Fingers!Oldest(t, h), h, x)
<1> DEFINE N == Cardinality(Of(t, h))
           L == Fingers!Length(t, h)
<1>1. TableT(t, C) /\ OnPath(t, C) /\ N <= HOLDERS /\ HOLDERS \in Nat \ {0}
  BY DEF Good, PartsAssumption, Fingers!TableAssumption
<1>2. C \in Nat \ {0} /\ h \in Nat /\ N \in Nat
  BY <1>1, CapacityIs, SlotFacts, OfFacts
<1>3. Fingers!Cardinality(Fingers!Holding(t, h)) = N
  BY <1>1, HoldingIs, SameCardinality
<1>4. L \in 0..C /\ (L = C \/ t[Probe(C, h, L)] = Empty) /\ \A e \in 0..(L - 1) : t[Probe(C, h, e)] # Empty
  BY <1>1, LengthIs
<1>5. Fingers!Slot(t, h, L) = Probe(C, h, L)
  BY <1>1, CapacityIs
<1> HIDE DEF N, L
<1>6. L # C
  <2>1. PICK d \in 0..(C - 1) : Probe(C, h, d) = a
    BY <1>2, ProbeAll
  <2> QED BY <1>2, <1>4, <2>1
<1>7. L \in 0..(C - 1) /\ t[Probe(C, h, L)] = Empty
  BY <1>2, <1>4, <1>6
<1>8. CASE N < HOLDERS
  <2>1. ~(N >= HOLDERS)
    BY <1>1, <1>2, <1>8
  <2>2. Fingers!Set(t, n, h, x) =
          [slots |-> [t EXCEPT ![Probe(C, h, L)] = [hash |-> h, id |-> x]], count |-> n + 1]
    BY <2>1, <1>3, <1>5 DEF Fingers!Set, L
  <2>3. u = [t EXCEPT ![Probe(C, h, L)] = [hash |-> h, id |-> x]] /\ m = n + 1
    BY <2>2
  <2>4. Stops(t, C, h, L)
    BY <1>4, <1>7 DEF Stops
  <2> QED BY <2>3, <2>4, <1>8 DEF N, With
<1>9. CASE ~(N < HOLDERS)
  <2>1. N = HOLDERS /\ N >= HOLDERS /\ N # 0
    BY <1>1, <1>2, <1>9 DEF N
  <2>2. Fingers!Set(t, n, h, x) =
          [slots |-> [t EXCEPT ![Fingers!Oldest(t, h)] = [hash |-> h, id |-> x]], count |-> n]
    BY <2>1, <1>3 DEF Fingers!Set
  <2>3. u = [t EXCEPT ![Fingers!Oldest(t, h)] = [hash |-> h, id |-> x]] /\ m = n
    BY <2>2
  <2>4. PICK b : Arranges(t, h, Fingers!Lookup(t, h), b) /\ Fingers!Oldest(t, h) = b[1]
    BY <1>1, <2>1, LookupArranges DEF N
  <2>5. b \in [1..N -> Of(t, h)]
    BY <2>4 DEF Arranges, N
  <2>6. 1 \in 1..N
    BY <1>2, <2>1
  <2>7. Fingers!Oldest(t, h) \in Of(t, h)
    BY <2>4, <2>5, <2>6
  <2> QED BY <2>1, <2>3, <2>7 DEF N, With
<1> QED BY <1>8, <1>9
-----------------------------------------------------------------------------
(* Growth.                                                                 *)

\* The recursion that re-inserts the holders has a solution (over 0..m for every m, or there
\* would be a least m without one), so the tables after each of them satisfy it.
LEMMA ReinsertedIs ==
  ASSUME NEW t, NEW N \in Nat, N = Cardinality(Fingers!Used(t)), NEW c, c = Fingers!ById(t, 0, Fingers!Used(t)),
         NEW f, f = Fingers!Reinserted(t)
  PROVE  /\ f[0] = [slots |-> Fingers!Fresh(2 * Fingers!Capacity(t)), count |-> 0]
         /\ \A k \in 1..N : f[k] = Fingers!Set(f[k - 1].slots, f[k - 1].count, t[c[k]].hash, t[c[k]].id)
<1> DEFINE Step(k, s) == Fingers!Set(s.slots, s.count, t[c[k]].hash, t[c[k]].id)
           zero == [slots |-> Fingers!Fresh(2 * Fingers!Capacity(t)), count |-> 0]
           Solves(m, g) == g = [k \in 0..m |-> IF k = 0 THEN zero ELSE Step(k, g[k - 1])]
           Bad == {m \in Nat : ~\E g : Solves(m, g)}
<1>1. f = CHOOSE g : Solves(N, g)
  BY SameCardinality, ZenonT(60) DEF Fingers!Reinserted
<1> HIDE DEF Step, zero
<1>2. ASSUME Bad # {} PROVE FALSE
  <2>1. Bad \subseteq Nat
    OBVIOUS
  <2>2. PICK m \in Bad : \A k \in Bad : m <= k
    <3> HIDE DEF Bad
    <3> QED BY <1>2, <2>1, LeastNatural
  <2>3. m \in Nat /\ ~\E g : Solves(m, g)
    OBVIOUS
  <2>4. CASE m = 0
    <3> DEFINE g == [k \in 0..0 |-> zero]
    <3>1. \A k \in 0..0 : k = 0
      OBVIOUS
    <3>2. g = [k \in 0..0 |-> IF k = 0 THEN zero ELSE Step(k, g[k - 1])]
      BY <3>1
    <3>3. Solves(0, g)
      BY <3>2
    <3> QED BY <2>3, <2>4, <3>3
  <2>5. CASE m # 0
    <3>1. m - 1 \in Nat /\ ~(m <= m - 1)
      BY <2>3, <2>5
    <3>2. m - 1 \notin Bad
      BY <2>2, <3>1
    <3>3. PICK g : Solves(m - 1, g)
      BY <3>1, <3>2
    <3> DEFINE h == [k \in 0..m |-> IF k = m THEN Step(m, g[m - 1]) ELSE g[k]]
    <3>4. ASSUME NEW k \in 0..m PROVE h[k] = IF k = 0 THEN zero ELSE Step(k, h[k - 1])
      <4>1. CASE k = m
        <5>1. m # 0 /\ m - 1 \in 0..m /\ m - 1 # m
          BY <2>3, <2>5
        <5>2. h[k] = Step(m, g[m - 1]) /\ h[m - 1] = g[m - 1]
          BY <4>1, <5>1
        <5> QED BY <4>1, <5>1, <5>2
      <4>2. CASE k # m
        <5>1. k \in 0..(m - 1) /\ h[k] = g[k]
          BY <2>3, <4>2
        <5>2. g[k] = IF k = 0 THEN zero ELSE Step(k, g[k - 1])
          BY <3>3, <5>1
        <5>3. k # 0 => k - 1 \in 0..m /\ k - 1 # m
          BY <2>3, <5>1
        <5>4. k # 0 => h[k - 1] = g[k - 1]
          BY <5>3
        <5> QED BY <5>1, <5>2, <5>4
      <4> QED BY <4>1, <4>2
    <3>5. h = [k \in 0..m |-> h[k]]
      OBVIOUS
    <3> HIDE DEF h
    <3>6. Solves(m, h)
      BY <3>4, <3>5
    <3> QED BY <2>3, <3>6
  <2> QED BY <2>4, <2>5
<1>3. \E g : Solves(N, g)
  BY <1>2
<1>4. Solves(N, f)
  <2> HIDE DEF Solves
  <2> QED BY <1>1, <1>3
<1>5. f[0] = zero
  BY <1>4
<1>6. \A k \in 1..N : f[k] = Step(k, f[k - 1])
  BY <1>4
<1> QED BY <1>5, <1>6 DEF Step, zero

\* g carries the slots of S in t to the used slots of u.
Carries(g, t, S, u) ==
  /\ g \in [S -> Fingers!Used(u)]
  /\ \A x, y \in S : g[x] = g[y] => x = y
  /\ \A z \in Fingers!Used(u) : \E x \in S : g[x] = z
  /\ \A x \in S : u[g[x]] = t[x]

Among(t, S, h) == {x \in S : t[x].hash = h}

\* The slots of h among those carried.
LEMMA CarriedFrom ==
  ASSUME PartsAssumption, NEW t, NEW C, TableT(t, C), NEW S \in SUBSET Fingers!Used(t),
         NEW u, NEW D, TableT(u, D), NEW g, Carries(g, t, S, u), NEW h
  PROVE  \A z \in Of(u, h) : \E x \in S : t[x].hash = h /\ g[x] = z
BY DEF Of, Carries

LEMMA CarriedOf ==
  ASSUME PartsAssumption, NEW t, NEW C, TableT(t, C), NEW S \in SUBSET Fingers!Used(t),
         NEW u, NEW D, TableT(u, D), NEW g, Carries(g, t, S, u), NEW h
  PROVE  /\ \A x \in S : t[x].hash = h => g[x] \in Of(u, h)
         /\ Cardinality(Of(u, h)) = Cardinality(Among(t, S, h))
<1> DEFINE E == Among(t, S, h)
           f == [x \in E |-> g[x]]
<1>1. /\ g \in [S -> Fingers!Used(u)]
      /\ \A x, y \in S : g[x] = g[y] => x = y
      /\ \A z \in Fingers!Used(u) : \E x \in S : g[x] = z
      /\ \A x \in S : u[g[x]] = t[x]
  BY DEF Carries
<1>2. \A x \in S : t[x].hash = h => g[x] \in Of(u, h)
  BY <1>1 DEF Of
<1>3. \A z \in Of(u, h) : \E x \in S : t[x].hash = h /\ g[x] = z
  BY <1>1 DEF Of
<1>4. IsFiniteSet(E)
  <2>1. E \subseteq Fingers!Used(t) /\ IsFiniteSet(Fingers!Used(t))
    BY SlotFacts DEF Among
  <2> HIDE DEF E
  <2> QED BY <2>1, FS_Subset
<1>5. f \in [E -> Of(u, h)]
  BY <1>2 DEF Among
<1>6. \A x, y \in E : f[x] = f[y] => x = y
  BY <1>1 DEF Among
<1>7. \A z \in Of(u, h) : \E x \in E : f[x] = z
  BY <1>3 DEF Among
<1> HIDE DEF E, f
<1>8. Cardinality(Of(u, h)) = Cardinality(E)
  BY <1>4, <1>5, <1>6, <1>7, SameNumber
<1> QED BY <1>2, <1>8 DEF E

\* One holder re-inserted: it fills a slot, for its fingerprint has fewer than HOLDERS yet.
LEMMA GrowStep ==
  ASSUME PartsAssumption, NEW t, NEW C, Good(t, C), NEW S \in SUBSET Fingers!Used(t),
         NEW i \in Fingers!Used(t), i \notin S,
         NEW v, NEW D, Good(v, D), NEW g, Carries(g, t, S, v),
         NEW n \in Nat, Cardinality(Fingers!Used(v)) = n, n < D,
         NEW r, r = Fingers!Set(v, n, t[i].hash, t[i].id)
  PROVE  /\ Good(r.slots, D) /\ r.count = n + 1 /\ Cardinality(Fingers!Used(r.slots)) = n + 1
         /\ \E f : Carries(f, t, S \cup {i}, r.slots)
<1>0. PICK u, m : u = r.slots /\ m = r.count
  OBVIOUS
<1> DEFINE h == t[i].hash
           x == t[i].id
<1>1. /\ TableT(t, C) /\ TableT(v, D) /\ OnPath(v, D) /\ HOLDERS \in Nat \ {0}
      /\ \A e \in Hashes : Cardinality(Of(t, e)) <= HOLDERS /\ Cardinality(Of(v, e)) <= HOLDERS
  BY DEF Good, PartsAssumption, Fingers!TableAssumption
<1>2. t[i] \in Fingers!Holder /\ h \in Hashes /\ x \in 0..(MaxIds - 1) /\ t[i] = [hash |-> h, id |-> x]
  <2>1. i \in 0..(C - 1) /\ t[i] # Empty
    BY <1>1, SlotFacts
  <2>2. t[i] \in Fingers!Holder
    BY <1>1, <2>1, SlotFacts
  <2> QED BY <2>2 DEF Fingers!Holder
<1> HIDE DEF h, x
<1>3. Cardinality(Of(v, h)) < HOLDERS
  <2> DEFINE E == Among(t, S, h)
             O == Of(t, h)
  <2>1. Cardinality(Of(v, h)) = Cardinality(E)
    BY <1>1, CarriedOf
  <2>2. E \subseteq O \ {i} /\ i \in O
    BY DEF Of, Among, h
  <2>3. IsFiniteSet(O) /\ Cardinality(O) \in Nat /\ Cardinality(O) <= HOLDERS
    BY <1>1, <1>2, OfFacts
  <2> HIDE DEF E, O
  <2>4. IsFiniteSet(O \ {i}) /\ Cardinality(O \ {i}) = Cardinality(O) - 1
    BY <2>2, <2>3, FS_RemoveElement
  <2>5. IsFiniteSet(E) /\ Cardinality(E) <= Cardinality(O \ {i})
    BY <2>2, <2>4, FS_Subset
  <2>6. Cardinality(E) \in Nat
    BY <2>5, FS_CardinalityType
  <2> QED BY <1>1, <2>1, <2>3, <2>4, <2>5, <2>6
<1>4. PICK a \in 0..(D - 1) : v[a] = Empty
  <2>1. ASSUME \A a \in 0..(D - 1) : v[a] # Empty PROVE FALSE
    <3>1. D \in Nat \ {0} /\ Fingers!Used(v) = 0..(D - 1)
      <4>1. D \in Nat \ {0}
        BY <1>1, CapacityIs
      <4>2. Fingers!Used(v) = {a \in 0..(D - 1) : v[a] # Empty}
        BY <1>1, SlotFacts
      <4> QED BY <2>1, <4>1, <4>2
    <3>2. Cardinality(Fingers!Used(v)) = D
      BY <3>1, FS_Interval
    <3> QED BY <3>1, <3>2
  <2> QED BY <2>1
<1>5. /\ m = n + 1
      /\ \E d :
           /\ Stops(v, D, h, d)
           /\ u = With(v, Probe(D, h, d), h, x)
  <2>1. Cardinality(Of(v, h)) # HOLDERS
    <3>1. Cardinality(Of(v, h)) \in Nat
      BY <1>1, OfFacts
    <3> QED BY <1>1, <1>3, <3>1
  <2>2. u = Fingers!Set(v, n, h, x).slots /\ m = Fingers!Set(v, n, h, x).count
    BY <1>0 DEF h, x
  <2> QED BY <1>2, <1>4, <2>1, <2>2, SetIs
<1>6. PICK d :
           /\ Stops(v, D, h, d)
           /\ u = With(v, Probe(D, h, d), h, x)
  BY <1>5
<1>7. PICK j : j = Probe(D, h, d)
  OBVIOUS
<1>8. /\ TableT(u, D) /\ OnPath(u, D)
      /\ u[j] = [hash |-> h, id |-> x] /\ \A z \in Fingers!Used(v) : u[z] = v[z]
      /\ Fingers!Used(u) = Fingers!Used(v) \cup {j} /\ j \notin Fingers!Used(v)
      /\ Of(u, h) = Of(v, h) \cup {j} /\ j \notin Of(v, h)
      /\ \A e \in Hashes : e # h => Of(u, e) = Of(v, e)
  <2>1. /\ Stops(v, D, h, d)
        /\ u = With(v, j, h, x)
    BY <1>6, <1>7
  <2>2. TableT(v, D) /\ OnPath(v, D) /\ h \in Hashes /\ x \in 0..(MaxIds - 1)
    BY <1>1, <1>2
  <2> QED BY ONLY <1>7, <2>1, <2>2, PartsAssumption, Filled
<1>9. Cardinality(Fingers!Used(u)) = n + 1
  <2>1. IsFiniteSet(Fingers!Used(v))
    BY <1>1, SlotFacts
  <2> QED BY <1>8, <2>1, FS_AddElement
<1>10. Good(u, D)
  <2>1. ASSUME NEW e \in Hashes PROVE Cardinality(Of(u, e)) <= HOLDERS
    <3>1. CASE e = h
      <4>1. IsFiniteSet(Of(v, h)) /\ Cardinality(Of(v, h)) \in Nat
        BY <1>1, OfFacts
      <4>2. Cardinality(Of(u, h)) = Cardinality(Of(v, h)) + 1
        BY <1>8, <4>1, FS_AddElement
      <4> QED BY <3>1, <4>1, <4>2, <1>1, <1>3
    <3>2. CASE e # h
      BY <3>2, <1>1, <1>8
    <3> QED BY <3>1, <3>2
  <2> QED BY <1>8, <2>1 DEF Good
<1>11. Carries([y \in S \cup {i} |-> IF y = i THEN j ELSE g[y]], t, S \cup {i}, u)
  <2> DEFINE f == [y \in S \cup {i} |-> IF y = i THEN j ELSE g[y]]
  <2>1. /\ g \in [S -> Fingers!Used(v)]
        /\ \A y, z \in S : g[y] = g[z] => y = z
        /\ \A z \in Fingers!Used(v) : \E y \in S : g[y] = z
        /\ \A y \in S : v[g[y]] = t[y]
    BY DEF Carries
  <2>2. f[i] = j /\ \A y \in S : f[y] = g[y] /\ g[y] \in Fingers!Used(v)
    BY <2>1
  <2>3. f \in [S \cup {i} -> Fingers!Used(u)]
    BY <1>8, <2>1
  <2> HIDE DEF f
  <2>4. \A y, z \in S \cup {i} : f[y] = f[z] => y = z
    BY <1>8, <2>1, <2>2
  <2>5. \A z \in Fingers!Used(u) : \E y \in S \cup {i} : f[y] = z
    BY <1>8, <2>1, <2>2
  <2>6. \A y \in S \cup {i} : u[f[y]] = t[y]
    BY <1>2, <1>8, <2>1, <2>2
  <2>7. Carries(f, t, S \cup {i}, u)
    BY <2>3, <2>4, <2>5, <2>6 DEF Carries
  <2> QED BY <2>7 DEF f
<1> QED BY <1>0, <1>5, <1>9, <1>10, <1>11
\* The table before any holder is re-inserted.
LEMMA FreshIs ==
  ASSUME PartsAssumption, NEW D \in Nat \ {0}
  PROVE  /\ Good(Fingers!Fresh(D), D)
         /\ Fingers!Used(Fingers!Fresh(D)) = {} /\ \A h : Of(Fingers!Fresh(D), h) = {}
<1> DEFINE t == Fingers!Fresh(D)
<1>1. t \in [0..(D - 1) -> SlotT] /\ \A i \in 0..(D - 1) : t[i] = Empty
  BY DEF Fingers!Fresh, SlotT
<1> HIDE DEF t
<1>2. TableT(t, D)
  BY <1>1 DEF TableT
<1>3. Fingers!Used(t) = {}
  BY <1>1, <1>2, SlotFacts
<1>4. OnPath(t, D)
  BY <1>3 DEF OnPath
<1>5. \A h : Of(t, h) = {}
  BY <1>3 DEF Of
<1>6. HOLDERS \in Nat /\ Cardinality({}) = 0
  BY FS_EmptySet DEF PartsAssumption, Fingers!TableAssumption
<1>7. \A h : Cardinality(Of(t, h)) <= HOLDERS
  BY <1>5, <1>6
<1>8. Good(t, D)
  BY <1>2, <1>4, <1>7 DEF Good
<1> QED BY <1>3, <1>5, <1>8 DEF t

\* Growth carries every used slot into a table of twice the slots, and counts them.
LEMMA Grown ==
  ASSUME PartsAssumption, NEW t, NEW C, Good(t, C),
         NEW u, NEW m, u = Fingers!Grow(t).slots, m = Fingers!Grow(t).count
  PROVE  /\ Good(u, 2 * C) /\ m = Cardinality(Fingers!Used(t)) /\ m \in Nat /\ m <= C
         /\ Cardinality(Fingers!Used(u)) = m
         /\ \E g : Carries(g, t, Fingers!Used(t), u)
<1> DEFINE U == Fingers!Used(t)
           N == Cardinality(U)
           c == Fingers!ById(t, 0, U)
           f == Fingers!Reinserted(t)
           Done(k) == {c[j] : j \in 1..k}
           Right(k) == /\ Good(f[k].slots, 2 * C) /\ f[k].count = k
                       /\ Cardinality(Fingers!Used(f[k].slots)) = k
                       /\ \E g : Carries(g, t, Done(k), f[k].slots)
           Bad == {k \in 0..N : ~Right(k)}
<1>1. TableT(t, C)
  BY DEF Good
<1>2. /\ C \in Nat \ {0} /\ Fingers!Capacity(t) = C /\ IsFiniteSet(U) /\ N \in Nat /\ N <= C
      /\ U = {i \in 0..(C - 1) : t[i] # Empty}
  BY <1>1, CapacityIs, SlotFacts
<1>3. /\ c \in [1..N -> U]
      /\ \A j, k \in 1..N : c[j] = c[k] => j = k
      /\ \A d \in U : \E k \in 1..N : c[k] = d
  <2>1. U \in SUBSET Nat
    BY <1>2
  <2>2. ASSUME NEW d \in U PROVE t[Fingers!Slot(t, 0, d)].id \in Nat
    <3>1. d \in 0..(C - 1) /\ d % C = d
      BY <1>2
    <3>2. Fingers!Slot(t, 0, d) = d
      BY <1>1, <3>1, CapacityIs DEF Probe
    <3>3. t[d].id \in 0..(MaxIds - 1)
      BY <1>1, <1>2, SlotFacts
    <3> QED BY <3>2, <3>3
  <2> HIDE DEF U
  <2>3. /\ Fingers!ById(t, 0, U) \in [1..Cardinality(U) -> U]
        /\ \A j, k \in 1..Cardinality(U) : Fingers!ById(t, 0, U)[j] = Fingers!ById(t, 0, U)[k] => j = k
        /\ \A d \in U : \E k \in 1..Cardinality(U) : Fingers!ById(t, 0, U)[k] = d
    <3>1. PICK h : h = 0
      OBVIOUS
    <3>2. /\ Fingers!ById(t, h, U) \in [1..Cardinality(U) -> U]
          /\ \A j, k \in 1..Cardinality(U) : Fingers!ById(t, h, U)[j] = Fingers!ById(t, h, U)[k] => j = k
          /\ \A d \in U : \E k \in 1..Cardinality(U) : Fingers!ById(t, h, U)[k] = d
      <4>1. IsFiniteSet(U) /\ \A d \in U : t[Fingers!Slot(t, h, d)].id \in Nat
        BY <1>2, <2>2, <3>1
      <4> QED BY ONLY <4>1, <2>1, ByIdIs
    <3> QED BY <3>1, <3>2
  <2> QED BY <2>3
<1>4. /\ f[0] = [slots |-> Fingers!Fresh(2 * C), count |-> 0]
      /\ \A k \in 1..N : f[k] = Fingers!Set(f[k - 1].slots, f[k - 1].count, t[c[k]].hash, t[c[k]].id)
  <2>1. /\ f[0] = [slots |-> Fingers!Fresh(2 * Fingers!Capacity(t)), count |-> 0]
        /\ \A k \in 1..N : f[k] = Fingers!Set(f[k - 1].slots, f[k - 1].count, t[c[k]].hash, t[c[k]].id)
    <3>1. PICK n1, c1, f1 : n1 \in Nat /\ n1 = N /\ c1 = c /\ f1 = f
      BY <1>2
    <3>2. n1 \in Nat /\ n1 = Cardinality(Fingers!Used(t)) /\ c1 = Fingers!ById(t, 0, Fingers!Used(t)) /\ f1 = Fingers!Reinserted(t)
      BY <3>1
    <3>3. /\ f1[0] = [slots |-> Fingers!Fresh(2 * Fingers!Capacity(t)), count |-> 0]
          /\ \A k \in 1..n1 : f1[k] = Fingers!Set(f1[k - 1].slots, f1[k - 1].count, t[c1[k]].hash, t[c1[k]].id)
      BY ONLY <3>2, ReinsertedIs
    <3> HIDE DEF N, c, f
    <3> QED BY <3>1, <3>3
  <2> QED BY <1>2, <2>1
<1>5. Fingers!Grow(t) = f[N]
  BY SameCardinality, Zenon DEF Fingers!Grow
<1> HIDE DEF U, N, c, f
<1>6. Right(0)
  <2>1. f[0].slots = Fingers!Fresh(2 * C) /\ f[0].count = 0
    BY <1>4
  <2>2. 2 * C \in Nat \ {0}
    BY <1>2
  <2>3. Good(f[0].slots, 2 * C) /\ Fingers!Used(f[0].slots) = {}
    BY <2>1, <2>2, FreshIs
  <2>4. Cardinality(Fingers!Used(f[0].slots)) = 0
    BY <2>3, FS_EmptySet
  <2>5. Done(0) = {}
    OBVIOUS
  <2>6. Carries([x \in {} |-> x], t, Done(0), f[0].slots)
    BY <2>3, <2>5 DEF Carries
  <2> QED BY <2>1, <2>3, <2>4, <2>6
<1>7. ASSUME NEW k \in 1..N, Right(k - 1) PROVE Right(k)
  <2>1. PICK j \in Nat : j = k - 1 /\ j < N
    BY <1>2
  <2>2. /\ Good(f[j].slots, 2 * C) /\ f[j].count = j
        /\ Cardinality(Fingers!Used(f[j].slots)) = j
    BY <1>7, <2>1
  <2>3. PICK g : Carries(g, t, Done(j), f[j].slots)
    BY <1>7, <2>1
  <2>4. c[k] \in U /\ c[k] \notin Done(j) /\ Done(j) \in SUBSET U
    BY <1>2, <1>3, <2>1
  <2>5. Done(k) = Done(j) \cup {c[k]}
    <3>1. \A l : l \in 1..k <=> l \in 1..j \/ l = k
      BY <1>2, <2>1
    <3> QED BY <3>1
  <2>6. j < 2 * C
    BY <1>2, <2>1
  <2>7. f[k] = Fingers!Set(f[j].slots, j, t[c[k]].hash, t[c[k]].id)
    BY <1>4, <2>1, <2>2
  <2> HIDE DEF Done
  <2>8. /\ Good(f[k].slots, 2 * C) /\ f[k].count = j + 1
        /\ Cardinality(Fingers!Used(f[k].slots)) = j + 1
        /\ \E h : Carries(h, t, Done(j) \cup {c[k]}, f[k].slots)
    <3>1. PICK v, r, i : v = f[j].slots /\ r = f[k] /\ i = c[k]
      OBVIOUS
    <3>2. PICK D, S : D = 2 * C /\ S = Done(j)
      OBVIOUS
    <3>3. r = Fingers!Set(v, j, t[i].hash, t[i].id)
      BY <2>7, <3>1
    <3>4. Good(v, D) /\ Carries(g, t, S, v) /\ Cardinality(Fingers!Used(v)) = j /\ j < D
      BY <2>2, <2>3, <2>6, <3>1, <3>2
    <3>5. i \in Fingers!Used(t) /\ i \notin S /\ S \in SUBSET Fingers!Used(t)
      BY <2>4, <3>1, <3>2 DEF U
    <3>6. j \in Nat
      BY <2>1
    <3>7. /\ Good(r.slots, D) /\ r.count = j + 1 /\ Cardinality(Fingers!Used(r.slots)) = j + 1
          /\ \E h : Carries(h, t, S \cup {i}, r.slots)
      BY ONLY <3>3, <3>4, <3>5, <3>6, PartsAssumption, Good(t, C), GrowStep
    <3> QED BY <3>1, <3>2, <3>7
  <2>9. j + 1 = k
    BY <2>1
  <2> QED BY <2>5, <2>8, <2>9
<1> HIDE DEF Right, Done
<1>8. ASSUME Bad # {} PROVE FALSE
  <2>1. Bad \subseteq Nat
    BY <1>2
  <2>2. PICK k \in Bad : \A j \in Bad : k <= j
    <3> HIDE DEF Bad
    <3> QED BY <1>8, <2>1, LeastNatural
  <2>3. k \in 0..N /\ ~Right(k)
    OBVIOUS
  <2>4. k # 0
    BY <1>6, <2>3
  <2>5. k \in 1..N /\ k - 1 \in 0..N /\ ~(k <= k - 1)
    BY <1>2, <2>3, <2>4
  <2>6. Right(k - 1)
    BY <2>2, <2>5
  <2> QED BY <1>7, <2>3, <2>5, <2>6
<1>9. Right(N)
  BY <1>2, <1>8
<1>10. Done(N) = U
  BY <1>3 DEF Done
<1>11. /\ Good(f[N].slots, 2 * C) /\ f[N].count = N
       /\ Cardinality(Fingers!Used(f[N].slots)) = N
       /\ \E g : Carries(g, t, U, f[N].slots)
  BY <1>9, <1>10 DEF Right
<1> QED BY <1>2, <1>5, <1>11 DEF U, N

-----------------------------------------------------------------------------
(* What a step does to the lookups.                                        *)

\* Slots carried elsewhere give the same lookups.
LEMMA CarriedLookup ==
  ASSUME PartsAssumption, NEW t, NEW C, Good(t, C), NEW u, NEW D, Good(u, D),
         NEW g, Carries(g, t, Fingers!Used(t), u), NEW h \in Hashes
  PROVE  Fingers!Lookup(u, h) = Fingers!Lookup(t, h)
<1> DEFINE n == Cardinality(Of(t, h))
           s == Fingers!Lookup(t, h)
<1>1. TableT(t, C) /\ OnPath(t, C) /\ TableT(u, D) /\ OnPath(u, D)
  BY DEF Good
<1>2. PICK b : Arranges(t, h, s, b)
  BY <1>1, LookupArranges
<1>3. PICK c : Arranges(u, h, Fingers!Lookup(u, h), c)
  BY <1>1, LookupArranges
<1>4. /\ b \in [1..n -> Of(t, h)] /\ s \in [1..n -> Nat]
      /\ \A j, k \in 1..n : b[j] = b[k] => j = k
      /\ \A i \in Of(t, h) : \E k \in 1..n : b[k] = i
      /\ \A k \in 1..n : s[k] = t[b[k]].id
      /\ \A j, k \in 1..n : j < k => s[j] <= s[k]
  BY <1>2 DEF Arranges
<1>5. Among(t, Fingers!Used(t), h) = Of(t, h)
  BY DEF Among, Of
<1>6. Fingers!Used(t) \in SUBSET Fingers!Used(t)
  OBVIOUS
<1>7. Cardinality(Of(u, h)) = n
  BY <1>1, <1>5, <1>6, CarriedOf
<1>8. \A x \in Of(t, h) : g[x] \in Of(u, h)
  <2>1. \A x \in Fingers!Used(t) : t[x].hash = h => g[x] \in Of(u, h)
    BY <1>1, <1>6, CarriedOf
  <2> QED BY <2>1 DEF Of
<1>9. \A z \in Of(u, h) : \E x \in Of(t, h) : g[x] = z
  <2>1. \A z \in Of(u, h) : \E x \in Fingers!Used(t) : t[x].hash = h /\ g[x] = z
    BY <1>1, <1>6, CarriedFrom
  <2> QED BY <2>1 DEF Of
<1>10. \A x, y \in Of(t, h) : (g[x] = g[y] => x = y) /\ u[g[x]] = t[x]
  BY DEF Carries, Of
<1> DEFINE a == [k \in 1..n |-> g[b[k]]]
<1> HIDE DEF n, s
<1>11. a \in [1..n -> Of(u, h)] /\ \A k \in 1..n : a[k] = g[b[k]] /\ b[k] \in Of(t, h)
  BY <1>4, <1>8
<1> HIDE DEF a
<1>12. \A j, k \in 1..n : a[j] = a[k] => j = k
  BY <1>4, <1>10, <1>11
<1>13. \A z \in Of(u, h) : \E k \in 1..n : a[k] = z
  BY <1>4, <1>9, <1>11
<1>14. \A k \in 1..n : s[k] = u[a[k]].id
  BY <1>4, <1>10, <1>11
<1>15. Arranges(u, h, s, a)
  BY <1>4, <1>7, <1>11, <1>12, <1>13, <1>14 DEF Arranges
<1> QED BY <1>1, <1>3, <1>15, ArrangedOnce DEF s
\* A lookup is a sequence of numbers, as long as h has slots.
LEMMA LookupIs ==
  ASSUME PartsAssumption, NEW t, NEW C, TableT(t, C), OnPath(t, C), NEW h \in Hashes
  PROVE  /\ Fingers!Lookup(t, h) \in Seq(Nat)
         /\ Len(Fingers!Lookup(t, h)) = Cardinality(Of(t, h)) /\ Cardinality(Of(t, h)) \in Nat
<1>1. PICK b : Arranges(t, h, Fingers!Lookup(t, h), b)
  BY LookupArranges
<1>2. PICK n \in Nat : n = Cardinality(Of(t, h))
  BY OfFacts
<1>3. Fingers!Lookup(t, h) \in [1..n -> Nat]
  BY <1>1, <1>2 DEF Arranges
<1> QED BY <1>2, <1>3

\* The slots of g are as they were: so is its lookup.
LEMMA SameLookup ==
  ASSUME PartsAssumption, NEW t, NEW C, TableT(t, C), OnPath(t, C), NEW g \in Hashes,
         NEW u, TableT(u, C), OnPath(u, C), Of(u, g) = Of(t, g), \A i \in Of(t, g) : u[i] = t[i]
  PROVE  Fingers!Lookup(u, g) = Fingers!Lookup(t, g)
<1>1. PICK b : Arranges(t, g, Fingers!Lookup(t, g), b)
  BY LookupArranges
<1>2. PICK c : Arranges(u, g, Fingers!Lookup(u, g), c)
  BY LookupArranges
<1> DEFINE n == Cardinality(Of(t, g))
           s == Fingers!Lookup(t, g)
<1> HIDE DEF s
<1>3. /\ b \in [1..n -> Of(t, g)] /\ s \in [1..n -> Nat]
      /\ \A j, k \in 1..n : b[j] = b[k] => j = k
      /\ \A i \in Of(t, g) : \E k \in 1..n : b[k] = i
      /\ \A k \in 1..n : s[k] = t[b[k]].id
      /\ \A j, k \in 1..n : j < k => s[j] <= s[k]
  BY <1>1 DEF Arranges, s
<1>4. Cardinality(Of(u, g)) = n
  OBVIOUS
<1> HIDE DEF n
<1>5. \A k \in 1..n : s[k] = u[b[k]].id
  BY <1>3
<1>6. Arranges(u, g, s, b)
  BY <1>3, <1>4, <1>5 DEF Arranges
<1> QED BY <1>2, <1>6, ArrangedOnce DEF s

\* x among the n of q, after the first k: what Holders makes of a fingerprint's holders.
PlacedAt(q, n, k, x, r) ==
  /\ k \in 0..n
  /\ \A i \in 1..k : q[i] <= x
  /\ \A i \in (k + 1)..n : x < q[i]
  /\ r = [i \in 1..(n + 1) |-> IF i <= k THEN q[i] ELSE IF i = k + 1 THEN x ELSE q[i - 1]]
Places(q, x, r) == \E k : PlacedAt(q, Len(q), k, x, r)

\* The slots b of S have the n ids of q, in order.
Numbers(u, S, n, q, b) ==
  /\ q \in [1..n -> Nat] /\ b \in [1..n -> S]
  /\ \A m, i \in 1..n : m < i => q[m] <= q[i]
  /\ \A m, i \in 1..n : b[m] = b[i] => m = i
  /\ \A y \in S : \E m \in 1..n : b[m] = y
  /\ \A m \in 1..n : q[m] = u[b[m]].id

\* Where the i-th of n + 1 comes from, one of them put in after k.
LEMMA Position ==
  ASSUME NEW n \in Nat, NEW k \in 0..n, NEW i \in 1..(n + 1)
  PROVE  \/ i <= k /\ i \in 1..n
         \/ ~(i <= k) /\ i = k + 1
         \/ ~(i <= k) /\ i # k + 1 /\ i - 1 \in 1..n /\ k < i - 1
OBVIOUS

\* With one more slot j of h, of id x, a lookup gives x where the order of the ids puts it.
LEMMA PlacedLookup ==
  ASSUME PartsAssumption, NEW u, NEW C, TableT(u, C), OnPath(u, C), NEW h \in Hashes, NEW x \in Nat,
         NEW n \in Nat, NEW S, NEW q, NEW b, Numbers(u, S, n, q, b),
         NEW j, j \notin S, Of(u, h) = S \cup {j}, Cardinality(Of(u, h)) = n + 1, u[j].id = x
  PROVE  \E k : PlacedAt(q, n, k, x, Fingers!Lookup(u, h))
<1>1. PICK c : Arranges(u, h, Fingers!Lookup(u, h), c)
  BY LookupArranges
<1> DEFINE D == {m \in 1..n : q[m] <= x}
<1>2. /\ q \in [1..n -> Nat] /\ b \in [1..n -> S]
      /\ \A m, i \in 1..n : m < i => q[m] <= q[i]
      /\ \A m, i \in 1..n : b[m] = b[i] => m = i
      /\ \A y \in S : \E m \in 1..n : b[m] = y
      /\ \A m \in 1..n : q[m] = u[b[m]].id
  BY DEF Numbers
<1>3. \A m \in 1..n, i \in D : m < i => m \in D
  <2> SUFFICES ASSUME NEW m \in 1..n, NEW i \in D, m < i PROVE q[m] <= x
    OBVIOUS
  <2>1. q[m] <= q[i] /\ q[i] <= x /\ q[m] \in Nat /\ q[i] \in Nat
    BY <1>2
  <2> QED BY <2>1
<1>4. D \in SUBSET (1..n)
  OBVIOUS
<1>5. PICK k : k = Cardinality(D)
  OBVIOUS
<1>6. \A m \in 1..n : m \in D <=> q[m] <= x
  OBVIOUS
<1> HIDE DEF D
<1>7. /\ k \in Nat
      /\ \A m \in 1..n : m \in D <=> m <= k
  BY <1>3, <1>4, <1>5, Initial
<1>8. k \in 0..n
  <2>1. IsFiniteSet(1..n) /\ Cardinality(1..n) = n
    BY FS_Interval
  <2>2. Cardinality(D) <= Cardinality(1..n)
    BY <1>4, <2>1, FS_Subset
  <2> QED BY <1>5, <1>7, <2>1, <2>2
<1>9. \A m \in 1..n : q[m] <= x <=> m <= k
  BY <1>6, <1>7
<1>10. \A m \in 1..n : k < m => x < q[m]
  <2> SUFFICES ASSUME NEW m \in 1..n, k < m PROVE x < q[m]
    OBVIOUS
  <2>1. ~(q[m] <= x) /\ q[m] \in Nat
    BY <1>2, <1>8, <1>9
  <2> QED BY <2>1
<1> DEFINE r == [i \in 1..(n + 1) |-> IF i <= k THEN q[i] ELSE IF i = k + 1 THEN x ELSE q[i - 1]]
           a == [i \in 1..(n + 1) |-> IF i <= k THEN b[i] ELSE IF i = k + 1 THEN j ELSE b[i - 1]]
           First(i) == i <= k /\ i \in 1..n /\ a[i] = b[i] /\ r[i] = q[i]
           Put(i) == i = k + 1 /\ a[i] = j /\ r[i] = x
           Later(i) == i - 1 \in 1..n /\ k < i - 1 /\ a[i] = b[i - 1] /\ r[i] = q[i - 1]
<1>11. ASSUME NEW i \in 1..(n + 1) PROVE First(i) \/ Put(i) \/ Later(i)
  <2>1. CASE i <= k /\ i \in 1..n
    BY <2>1
  <2>2. CASE ~(i <= k) /\ i = k + 1
    BY <2>2
  <2>3. CASE ~(i <= k) /\ i # k + 1 /\ i - 1 \in 1..n /\ k < i - 1
    BY <2>3
  <2> QED BY <1>8, <2>1, <2>2, <2>3, Position
<1>12. PlacedAt(q, n, k, x, r)
  <2>1. \A i \in 1..k : q[i] <= x
    BY <1>8, <1>9
  <2>2. \A i \in (k + 1)..n : x < q[i]
    BY <1>8, <1>10
  <2> QED BY <1>8, <2>1, <2>2 DEF PlacedAt
<1>13. r \in [1..(n + 1) -> Nat] /\ a \in [1..(n + 1) -> Of(u, h)]
  <2>1. ASSUME NEW i \in 1..(n + 1) PROVE r[i] \in Nat /\ a[i] \in Of(u, h)
    <3> HIDE DEF r, a
    <3> QED BY <1>2, <1>11
  <2> DEFINE T == Of(u, h)
  <2>2. \A i \in 1..(n + 1) : r[i] \in Nat
    BY <2>1
  <2>3. \A i \in 1..(n + 1) : a[i] \in T
    BY <2>1
  <2> HIDE DEF T
  <2>4. r \in [1..(n + 1) -> Nat]
    BY <2>2
  <2>5. a \in [1..(n + 1) -> T]
    BY <2>3
  <2> QED BY <2>4, <2>5 DEF T
<1> HIDE DEF r, a
<1>14. ASSUME NEW m \in 1..(n + 1), NEW i \in 1..(n + 1), a[m] = a[i] PROVE m = i
  <2>1. First(m) \/ Put(m) \/ Later(m)
    BY <1>11
  <2>2. First(i) \/ Put(i) \/ Later(i)
    BY <1>11
  <2>3. \A y \in 1..n : b[y] # j
    BY <1>2
  <2>4. CASE First(m)
    <3>1. CASE First(i)
      <4>1. b[m] = b[i] /\ m \in 1..n /\ i \in 1..n
        BY <2>4, <3>1, <1>14
      <4> QED BY <4>1, <1>2
    <3>2. CASE Put(i)
      BY <2>3, <2>4, <3>2, <1>14
    <3>3. CASE Later(i)
      <4>1. m = i - 1
        BY <2>4, <3>3, <1>2, <1>14
      <4> QED BY <2>4, <3>3, <4>1, <1>8
    <3> QED BY <2>2, <3>1, <3>2, <3>3
  <2>5. CASE Put(m)
    <3>1. CASE Put(i)
      BY <2>5, <3>1
    <3>2. CASE First(i) \/ Later(i)
      BY <2>3, <2>5, <3>2, <1>14
    <3> QED BY <2>2, <3>1, <3>2
  <2>6. CASE Later(m)
    <3>1. CASE First(i)
      <4>1. m - 1 = i
        BY <2>6, <3>1, <1>2, <1>14
      <4> QED BY <2>6, <3>1, <4>1, <1>8
    <3>2. CASE Put(i)
      BY <2>3, <2>6, <3>2, <1>14
    <3>3. CASE Later(i)
      <4>1. m - 1 = i - 1
        BY <2>6, <3>3, <1>2, <1>14
      <4> QED BY <4>1
    <3> QED BY <2>2, <3>1, <3>2, <3>3
  <2> QED BY <2>1, <2>4, <2>5, <2>6
<1>15. ASSUME NEW y \in Of(u, h) PROVE \E i \in 1..(n + 1) : a[i] = y
  <2>1. CASE y = j
    <3>1. k + 1 \in 1..(n + 1)
      BY <1>8
    <3>2. a[k + 1] = j
      BY <1>8, <3>1 DEF a
    <3> QED BY <2>1, <3>1, <3>2
  <2>2. CASE y \in S
    <3>1. PICK m \in 1..n : b[m] = y
      BY <1>2, <2>2
    <3>2. CASE m <= k
      <4>1. m \in 1..(n + 1) /\ a[m] = b[m]
        BY <3>2 DEF a
      <4> QED BY <3>1, <4>1
    <3>3. CASE k < m
      <4>1. m + 1 \in 1..(n + 1) /\ ~(m + 1 <= k) /\ m + 1 # k + 1 /\ (m + 1) - 1 = m
        BY <1>8, <3>3
      <4>2. a[m + 1] = b[(m + 1) - 1]
        BY <4>1 DEF a
      <4> QED BY <3>1, <4>1, <4>2
    <3> QED BY <1>8, <3>2, <3>3
  <2> QED BY <2>1, <2>2
<1>16. ASSUME NEW i \in 1..(n + 1) PROVE r[i] = u[a[i]].id
  BY <1>2, <1>11
<1>17. ASSUME NEW m \in 1..(n + 1), NEW i \in 1..(n + 1), m < i PROVE r[m] <= r[i]
  <2>1. First(m) \/ Put(m) \/ Later(m)
    BY <1>11
  <2>2. First(i) \/ Put(i) \/ Later(i)
    BY <1>11
  <2>3. \A y \in 1..n : q[y] \in Nat
    BY <1>2
  <2>4. CASE First(m)
    <3>1. q[m] <= x /\ r[m] = q[m] /\ m \in 1..n
      BY <2>4, <1>9
    <3>2. CASE First(i)
      BY <3>1, <3>2, <1>2, <1>17
    <3>3. CASE Put(i)
      BY <3>1, <3>3
    <3>4. CASE Later(i)
      <4>1. x < q[i - 1] /\ r[i] = q[i - 1] /\ q[i - 1] \in Nat /\ q[m] \in Nat
        BY <2>3, <3>1, <3>4, <1>10
      <4> QED BY <3>1, <4>1
    <3> QED BY <2>2, <3>2, <3>3, <3>4
  <2>5. CASE Put(m)
    <3>1. Later(i)
      BY <2>2, <2>5, <1>8, <1>17
    <3>2. x < q[i - 1] /\ r[i] = q[i - 1] /\ q[i - 1] \in Nat
      BY <2>3, <3>1, <1>10
    <3> QED BY <2>5, <3>2
  <2>6. CASE Later(m)
    <3>1. Later(i) /\ m - 1 < i - 1
      BY <2>2, <2>6, <1>8, <1>17
    <3> QED BY <2>6, <3>1, <1>2
  <2> QED BY <2>1, <2>4, <2>5, <2>6
<1>18. Arranges(u, h, r, a)
  BY <1>13, <1>14, <1>15, <1>16, <1>17 DEF Arranges
<1> QED BY <1>1, <1>12, <1>18, ArrangedOnce

\* A filled slot's id is put among those of h that were there.
LEMMA FilledLookup ==
  ASSUME PartsAssumption, NEW t, NEW C, TableT(t, C), OnPath(t, C), NEW h \in Hashes, NEW x \in Nat,
         NEW j, j \notin Of(t, h), NEW u, TableT(u, C), OnPath(u, C),
         Of(u, h) = Of(t, h) \cup {j}, u[j].id = x, \A i \in Of(t, h) : u[i] = t[i]
  PROVE  Places(Fingers!Lookup(t, h), x, Fingers!Lookup(u, h))
<1>1. PICK b : Arranges(t, h, Fingers!Lookup(t, h), b)
  BY LookupArranges
<1> DEFINE n == Cardinality(Of(t, h))
           s == Fingers!Lookup(t, h)
<1>2. Len(s) = n /\ n \in Nat
  BY LookupIs
<1>3. Cardinality(Of(u, h)) = n + 1
  BY OfFacts, FS_AddElement
<1> HIDE DEF s
<1>4. /\ b \in [1..n -> Of(t, h)] /\ s \in [1..n -> Nat]
      /\ \A m, k \in 1..n : b[m] = b[k] => m = k
      /\ \A i \in Of(t, h) : \E k \in 1..n : b[k] = i
      /\ \A k \in 1..n : s[k] = t[b[k]].id
      /\ \A m, k \in 1..n : m < k => s[m] <= s[k]
  BY <1>1 DEF Arranges, s
<1> HIDE DEF n
<1>5. \A k \in 1..n : s[k] = u[b[k]].id
  BY <1>4
<1>6. Numbers(u, Of(t, h), n, s, b)
  BY <1>4, <1>5 DEF Numbers
<1>7. \E k : PlacedAt(s, n, k, x, Fingers!Lookup(u, h))
  BY <1>2, <1>3, <1>6, PlacedLookup
<1> QED BY <1>2, <1>7 DEF Places, s

\* The lowest id's slot with x: the lookup without its first, and x among the rest.
LEMMA ReplacedLookup ==
  ASSUME PartsAssumption, NEW t, NEW C, TableT(t, C), OnPath(t, C), NEW h \in Hashes, NEW x \in Nat,
         Cardinality(Of(t, h)) # 0,
         NEW j, j = Fingers!Oldest(t, h), NEW u, TableT(u, C), OnPath(u, C),
         Of(u, h) = Of(t, h), u[j].id = x, \A i \in Of(t, h) : i # j => u[i] = t[i]
  PROVE  Places(Tail(Fingers!Lookup(t, h)), x, Fingers!Lookup(u, h))
<1>1. PICK b : Arranges(t, h, Fingers!Lookup(t, h), b) /\ j = b[1]
  BY LookupArranges
<1> DEFINE n == Cardinality(Of(t, h))
           s == Fingers!Lookup(t, h)
           q == Tail(s)
           l == n - 1
           S == Of(t, h) \ {j}
           d == [k \in 1..l |-> b[k + 1]]
<1>2. s \in Seq(Nat) /\ Len(s) = n /\ n \in Nat /\ n # 0
  BY LookupIs
<1> HIDE DEF s
<1>3. /\ b \in [1..n -> Of(t, h)] /\ s \in [1..n -> Nat]
      /\ \A m, k \in 1..n : b[m] = b[k] => m = k
      /\ \A i \in Of(t, h) : \E k \in 1..n : b[k] = i
      /\ \A k \in 1..n : s[k] = t[b[k]].id
      /\ \A m, k \in 1..n : m < k => s[m] <= s[k]
  BY <1>1 DEF Arranges, s
<1>4. Cardinality(Of(u, h)) = n
  OBVIOUS
<1> HIDE DEF n
<1>5. l \in Nat /\ l + 1 = n /\ 1 \in 1..n /\ \A k \in 1..l : k + 1 \in 1..n /\ k + 1 # 1
  BY <1>2
<1>6. q \in Seq(Nat) /\ Len(q) = l /\ \A k \in 1..l : q[k] = s[k + 1]
  <2>1. s # <<>>
    BY <1>2
  <2> QED BY <1>2, <2>1, HeadTailProperties
<1> HIDE DEF q, l
<1>7. j \in Of(t, h) /\ b[1] = j
  BY <1>1, <1>3, <1>5
<1>8. \A k \in 1..l : d[k] = b[k + 1] /\ b[k + 1] \in S
  BY <1>3, <1>5, <1>7
<1>9. q \in [1..l -> Nat] /\ d \in [1..l -> S]
  BY <1>6, <1>8
<1> HIDE DEF d
<1>10. ASSUME NEW m \in 1..l, NEW k \in 1..l, m < k PROVE q[m] <= q[k]
  <2>1. m + 1 \in 1..n /\ k + 1 \in 1..n /\ m + 1 < k + 1
    BY <1>5, <1>10
  <2> QED BY <2>1, <1>3, <1>6
<1>11. ASSUME NEW m \in 1..l, NEW k \in 1..l, d[m] = d[k] PROVE m = k
  <2>1. m + 1 \in 1..n /\ k + 1 \in 1..n /\ b[m + 1] = b[k + 1]
    BY <1>5, <1>8, <1>11
  <2>2. m + 1 = k + 1
    BY <2>1, <1>3
  <2> QED BY <2>2
<1>12. ASSUME NEW i \in S PROVE \E k \in 1..l : d[k] = i
  <2>1. PICK m \in 1..n : b[m] = i
    BY <1>3
  <2>2. m # 1
    BY <2>1, <1>7
  <2>3. PICK k \in 1..l : m = k + 1
    <3>1. m - 1 \in 1..l /\ m = (m - 1) + 1
      BY <2>2, <1>5
    <3> QED BY <3>1
  <2> QED BY <2>1, <2>3, <1>8
<1>13. ASSUME NEW k \in 1..l PROVE q[k] = u[d[k]].id
  <2>1. q[k] = s[k + 1] /\ s[k + 1] = t[b[k + 1]].id
    BY <1>3, <1>5, <1>6
  <2>2. d[k] = b[k + 1] /\ u[b[k + 1]] = t[b[k + 1]]
    BY <1>8
  <2> QED BY <2>1, <2>2
<1>14. Numbers(u, S, l, q, d)
  BY <1>9, <1>10, <1>11, <1>12, <1>13 DEF Numbers
<1>15. j \notin S /\ Of(u, h) = S \cup {j} /\ Cardinality(Of(u, h)) = l + 1
  BY <1>4, <1>5, <1>7
<1> HIDE DEF S
<1>16. \E k : PlacedAt(q, l, k, x, Fingers!Lookup(u, h))
  BY <1>5, <1>14, <1>15, PlacedLookup
<1> QED BY <1>6, <1>16 DEF Places, q, s
-----------------------------------------------------------------------------
(* An insertion, with growth or without.                                   *)

\* The holders that stay when one more comes.
Kept(s) == IF Len(s) < HOLDERS THEN s ELSE Tail(s)

LEMMA SetHolds ==
  ASSUME PartsAssumption, NEW t, NEW C, Good(t, C), NEW h \in Hashes, NEW x \in 0..(MaxIds - 1),
         NEW n \in Nat, NEW a \in 0..(C - 1), t[a] = Empty,
         NEW r, r = Fingers!Set(t, n, h, x)
  PROVE  /\ Good(r.slots, C)
         /\ \/ r.count = n /\ Cardinality(Fingers!Used(r.slots)) = Cardinality(Fingers!Used(t))
            \/ r.count = n + 1 /\ Cardinality(Fingers!Used(r.slots)) = Cardinality(Fingers!Used(t)) + 1
         /\ Places(Kept(Fingers!Lookup(t, h)), x, Fingers!Lookup(r.slots, h))
         /\ \A g \in Hashes : g # h => Fingers!Lookup(r.slots, g) = Fingers!Lookup(t, g)
<1>1. PICK u, m : u = r.slots /\ m = r.count
  OBVIOUS
<1>2. /\ TableT(t, C) /\ OnPath(t, C) /\ HOLDERS \in Nat \ {0}
      /\ \A e \in Hashes : Cardinality(Of(t, e)) <= HOLDERS
  BY DEF Good, PartsAssumption, Fingers!TableAssumption
<1>3. \/ /\ Cardinality(Of(t, h)) < HOLDERS /\ m = n + 1
         /\ \E d : Stops(t, C, h, d) /\ u = With(t, Probe(C, h, d), h, x)
      \/ /\ Cardinality(Of(t, h)) = HOLDERS /\ m = n /\ Fingers!Oldest(t, h) \in Of(t, h)
         /\ u = With(t, Fingers!Oldest(t, h), h, x)
  BY <1>1, SetIs
<1>4. /\ Len(Fingers!Lookup(t, h)) = Cardinality(Of(t, h))
      /\ IsFiniteSet(Of(t, h)) /\ Cardinality(Of(t, h)) \in Nat
      /\ IsFiniteSet(Fingers!Used(t))
  BY <1>2, LookupIs, OfFacts, SlotFacts
<1>5. x \in Nat
  OBVIOUS
<1>6. CASE Cardinality(Of(t, h)) < HOLDERS
  <2>1. m = n + 1
    BY <1>2, <1>3, <1>4, <1>6
  <2>2. PICK d, j : Stops(t, C, h, d) /\ u = With(t, j, h, x) /\ j = Probe(C, h, d)
    BY <1>2, <1>3, <1>4, <1>6
  <2>3. /\ TableT(u, C) /\ OnPath(u, C)
        /\ u[j] = [hash |-> h, id |-> x] /\ \A i \in Fingers!Used(t) : u[i] = t[i]
        /\ Fingers!Used(u) = Fingers!Used(t) \cup {j} /\ j \notin Fingers!Used(t)
        /\ Of(u, h) = Of(t, h) \cup {j} /\ j \notin Of(t, h)
        /\ \A g \in Hashes : g # h => Of(u, g) = Of(t, g)
    BY <1>2, <2>2, Filled
  <2>4. Cardinality(Fingers!Used(u)) = Cardinality(Fingers!Used(t)) + 1
    <3>1. /\ IsFiniteSet(Fingers!Used(t)) /\ j \notin Fingers!Used(t)
          /\ Fingers!Used(u) = Fingers!Used(t) \cup {j}
      BY <1>4, <2>3
    <3> QED BY ONLY <3>1, FS_AddElement
  <2>5. ASSUME NEW g \in Hashes PROVE Cardinality(Of(u, g)) <= HOLDERS
    <3>1. CASE g = h
      <4>1. Cardinality(Of(u, h)) = Cardinality(Of(t, h)) + 1
        <5>1. IsFiniteSet(Of(t, h)) /\ j \notin Of(t, h) /\ Of(u, h) = Of(t, h) \cup {j}
          BY <1>4, <2>3
        <5> QED BY ONLY <5>1, FS_AddElement
      <4> QED BY <3>1, <4>1, <1>2, <1>4, <1>6
    <3>2. CASE g # h
      BY <3>2, <1>2, <2>3
    <3> QED BY <3>1, <3>2
  <2>6. Good(u, C)
    BY <2>3, <2>5 DEF Good
  <2>7. Places(Fingers!Lookup(t, h), x, Fingers!Lookup(u, h))
    <3>1. u[j].id = x /\ \A i \in Of(t, h) : u[i] = t[i]
      BY <2>3 DEF Of
    <3> QED BY <3>1, <2>3, <1>2, <1>5, FilledLookup
  <2>9. ASSUME NEW g \in Hashes, g # h PROVE Fingers!Lookup(u, g) = Fingers!Lookup(t, g)
    <3>1. Of(u, g) = Of(t, g) /\ \A i \in Of(t, g) : u[i] = t[i]
      BY <2>3, <2>9 DEF Of
    <3> QED BY <3>1, <2>3, <1>2, SameLookup
  <2>10. Kept(Fingers!Lookup(t, h)) = Fingers!Lookup(t, h)
    BY <1>4, <1>6 DEF Kept
  <2> QED BY <1>1, <2>1, <2>4, <2>6, <2>7, <2>9, <2>10
<1>7. CASE ~(Cardinality(Of(t, h)) < HOLDERS)
  <2>1. /\ Cardinality(Of(t, h)) = HOLDERS /\ m = n /\ Fingers!Oldest(t, h) \in Of(t, h)
        /\ u = With(t, Fingers!Oldest(t, h), h, x)
    BY <1>3, <1>7
  <2>2. PICK j \in Of(t, h) : j = Fingers!Oldest(t, h) /\ u = With(t, j, h, x)
    BY <2>1
  <2>3. /\ TableT(u, C) /\ OnPath(u, C)
        /\ u[j] = [hash |-> h, id |-> x] /\ \A i \in Fingers!Used(t) : i # j => u[i] = t[i]
        /\ Fingers!Used(u) = Fingers!Used(t)
        /\ \A g : Of(u, g) = Of(t, g)
    BY <1>2, <2>2, Replaced
  <2>4. Good(u, C)
    BY <1>2, <2>3 DEF Good
  <2>6. Places(Tail(Fingers!Lookup(t, h)), x, Fingers!Lookup(u, h))
    <3>1. u[j].id = x /\ \A i \in Of(t, h) : i # j => u[i] = t[i]
      BY <2>3 DEF Of
    <3>2. Of(u, h) = Of(t, h) /\ Cardinality(Of(t, h)) # 0
      BY <1>2, <2>1, <2>3
    <3> QED BY <3>1, <3>2, <2>2, <2>3, <1>2, <1>5, ReplacedLookup
  <2>7. ASSUME NEW g \in Hashes, g # h PROVE Fingers!Lookup(u, g) = Fingers!Lookup(t, g)
    <3>1. Of(u, g) = Of(t, g) /\ \A i \in Of(t, g) : u[i] = t[i]
      BY <2>2, <2>3, <2>7 DEF Of
    <3> QED BY <3>1, <2>3, <1>2, SameLookup
  <2>8. Kept(Fingers!Lookup(t, h)) = Tail(Fingers!Lookup(t, h))
    BY <1>4, <1>7 DEF Kept
  <2>9. Cardinality(Fingers!Used(u)) = Cardinality(Fingers!Used(t))
    BY <2>3
  <2> QED BY <1>1, <2>1, <2>4, <2>6, <2>7, <2>8, <2>9
<1> QED BY <1>6, <1>7

\* Growth keeps the lookups.
LEMMA GrownLookups ==
  ASSUME PartsAssumption, NEW t, NEW C, Good(t, C), NEW u, u = Fingers!Grow(t).slots
  PROVE  \A h \in Hashes : Fingers!Lookup(u, h) = Fingers!Lookup(t, h)
<1>1. PICK D, g : D = 2 * C /\ Good(u, D) /\ Carries(g, t, Fingers!Used(t), u)
  <2>1. Good(u, 2 * C) /\ \E g : Carries(g, t, Fingers!Used(t), u)
    BY Grown
  <2> QED BY <2>1
<1> QED BY <1>1, CarriedLookup

\* A table and its count: half full at most, unless a kill has lost a part of the count.
Sound(t, C, n, l) ==
  /\ Good(t, C) /\ \E e \in Nat : C = 2 * e
  /\ l = FALSE => n = Cardinality(Fingers!Used(t)) /\ 2 * n <= C

\* The table an insertion goes into.
Target(t, n) == IF Fingers!Full(t, n) THEN Fingers!Grow(t) ELSE [slots |-> t, count |-> n]

\* It has an empty slot, is less than half full, and has what t had.
Room(g, D, l, t) ==
  /\ Sound(g.slots, D, g.count, l) /\ g.count \in Nat
  /\ l = FALSE => 2 * (g.count + 1) <= D
  /\ \E a \in 0..(D - 1) : g.slots[a] = Empty
  /\ \A h \in Hashes : Fingers!Lookup(g.slots, h) = Fingers!Lookup(t, h)

LEMMA RoomMade ==
  ASSUME PartsAssumption, NEW t, NEW C, NEW n \in Nat, NEW l \in BOOLEAN, Sound(t, C, n, l),
         Fingers!Full(t, n) \/ Fingers!Used(t) # DOMAIN t,
         NEW g, g = Target(t, n)
  PROVE  \E D : Room(g, D, l, t)
<1>1. Good(t, C) /\ TableT(t, C) /\ l = FALSE => n = Cardinality(Fingers!Used(t)) /\ 2 * n <= C
  BY DEF Sound, Good
<1>2. PICK e \in Nat : C = 2 * e
  BY DEF Sound
<1>3. Good(t, C) /\ TableT(t, C)
  BY DEF Sound, Good
<1>4. /\ C \in Nat \ {0} /\ Fingers!Capacity(t) = C /\ DOMAIN t = 0..(C - 1)
      /\ Fingers!Used(t) = {i \in 0..(C - 1) : t[i] # Empty}
  BY <1>3, CapacityIs, SlotFacts DEF TableT
<1>5. CASE Fingers!Full(t, n)
  <2>1. PICK u, m, D : u = g.slots /\ m = g.count /\ D = 2 * C
    OBVIOUS
  <2>2. u = Fingers!Grow(t).slots /\ m = Fingers!Grow(t).count
    BY <1>5, <2>1 DEF Target
  <2>3. /\ Good(u, D) /\ m = Cardinality(Fingers!Used(t)) /\ m \in Nat /\ m <= C
        /\ Cardinality(Fingers!Used(u)) = m
    <3>1. /\ Good(u, 2 * C) /\ m = Cardinality(Fingers!Used(t)) /\ m \in Nat /\ m <= C
          /\ Cardinality(Fingers!Used(u)) = m
      BY <1>3, <2>2, Grown
    <3> QED BY <2>1, <3>1
  <2>4. \A h \in Hashes : Fingers!Lookup(u, h) = Fingers!Lookup(t, h)
    BY <1>3, <2>2, GrownLookups
  <2>5. l = FALSE => 2 * m <= C
    BY <2>3 DEF Sound
  <2>6. D \in Nat \ {0} /\ m < D /\ 2 * m <= D /\ (l = FALSE => 2 * (m + 1) <= D)
    BY <1>2, <1>4, <2>1, <2>3, <2>5
  <2>7. Sound(u, D, m, l)
    BY <1>4, <2>1, <2>3, <2>4, <2>6 DEF Sound
  <2>8. \E a \in 0..(D - 1) : u[a] = Empty
    <3>1. ASSUME \A a \in 0..(D - 1) : u[a] # Empty PROVE FALSE
      <4>1. TableT(u, D)
        BY <2>3 DEF Good
      <4>2. Fingers!Used(u) = {a \in 0..(D - 1) : u[a] # Empty}
        BY <4>1, SlotFacts
      <4>3. Fingers!Used(u) = 0..(D - 1)
        BY <3>1, <4>2
      <4>4. Cardinality(Fingers!Used(u)) = D
        BY <4>3, <2>6, FS_Interval
      <4> QED BY <4>4, <2>3, <2>6
    <3> QED BY <3>1
  <2> QED BY <2>1, <2>3, <2>4, <2>6, <2>7, <2>8 DEF Room
<1>6. CASE ~Fingers!Full(t, n)
  <2>1. g.slots = t /\ g.count = n
    BY <1>6 DEF Target
  <2>2. n * 2 < C
    BY <1>4, <1>6 DEF Fingers!Full
  <2>3. 2 * (n + 1) <= C
    BY <1>2, <2>2
  <2>4. \E a \in 0..(C - 1) : t[a] = Empty
    BY <1>4, <1>6
  <2>5. Sound(g.slots, C, g.count, l)
    BY <2>1
  <2> QED BY <2>1, <2>3, <2>4, <2>5 DEF Room
<1> QED BY <1>5, <1>6

\* What an insertion of h for x starts from: the table t of n slots in use that
\* may have lost some, its target g and what the set leaves; and what it makes.
InsertTakes(t, C, n, l, x, h, g, r) ==
  /\ n \in Nat /\ l \in BOOLEAN /\ x \in 0..(MaxIds - 1) /\ h \in Hashes
  /\ Sound(t, C, n, l)
  /\ Fingers!Full(t, n) \/ Fingers!Used(t) # DOMAIN t
  /\ g = Target(t, n) /\ r = Fingers!Set(g.slots, g.count, h, x)

InsertMakes(t, l, x, h, g, r) ==
  /\ \E D : Sound(r.slots, D, r.count, l)
  /\ g.count \in Nat /\ r.count \in Nat /\ g.count <= r.count
  /\ Places(Kept(Fingers!Lookup(t, h)), x, Fingers!Lookup(r.slots, h))
  /\ \A k \in Hashes : k # h => Fingers!Lookup(r.slots, k) = Fingers!Lookup(t, k)

LEMMA InsertHolds ==
  ASSUME PartsAssumption, NEW t, NEW C, NEW n, NEW l, NEW x, NEW h, NEW g, NEW r,
         InsertTakes(t, C, n, l, x, h, g, r)
  PROVE  InsertMakes(t, l, x, h, g, r)
<1> SUFFICES ASSUME n \in Nat, l \in BOOLEAN, x \in 0..(MaxIds - 1), h \in Hashes,
                    Sound(t, C, n, l), Fingers!Full(t, n) \/ Fingers!Used(t) # DOMAIN t,
                    g = Target(t, n), r = Fingers!Set(g.slots, g.count, h, x)
             PROVE  /\ \E D : Sound(r.slots, D, r.count, l)
                    /\ g.count \in Nat /\ r.count \in Nat /\ g.count <= r.count
                    /\ Places(Kept(Fingers!Lookup(t, h)), x, Fingers!Lookup(r.slots, h))
                    /\ \A k \in Hashes : k # h => Fingers!Lookup(r.slots, k) = Fingers!Lookup(t, k)
  BY DEF InsertTakes, InsertMakes
<1>1. PICK v, m : v = g.slots /\ m = g.count
  OBVIOUS
<1>2. PICK D : /\ Sound(v, D, m, l) /\ m \in Nat
               /\ l = FALSE => 2 * (m + 1) <= D
               /\ \E a \in 0..(D - 1) : v[a] = Empty
               /\ \A k \in Hashes : Fingers!Lookup(v, k) = Fingers!Lookup(t, k)
  <2>1. PICK D : Room(g, D, l, t)
    BY RoomMade
  <2> QED BY <1>1, <2>1 DEF Room
<1>3. PICK a \in 0..(D - 1) : v[a] = Empty
  BY <1>2
<1>4. Good(v, D) /\ m \in Nat
  BY <1>2 DEF Sound
<1>5. r = Fingers!Set(v, m, h, x)
  BY <1>1
<1>6. /\ Good(r.slots, D)
      /\ \/ r.count = m /\ Cardinality(Fingers!Used(r.slots)) = Cardinality(Fingers!Used(v))
         \/ r.count = m + 1 /\ Cardinality(Fingers!Used(r.slots)) = Cardinality(Fingers!Used(v)) + 1
      /\ Places(Kept(Fingers!Lookup(v, h)), x, Fingers!Lookup(r.slots, h))
      /\ \A k \in Hashes : k # h => Fingers!Lookup(r.slots, k) = Fingers!Lookup(v, k)
  BY <1>3, <1>4, <1>5, SetHolds
<1>7. /\ \E e \in Nat : D = 2 * e
      /\ l = FALSE => m = Cardinality(Fingers!Used(v)) /\ 2 * m <= D
  BY <1>2 DEF Sound
<1>8. r.count \in Nat /\ m <= r.count
  BY <1>4, <1>6
<1>9. l = FALSE => r.count = Cardinality(Fingers!Used(r.slots)) /\ 2 * r.count <= D
  BY <1>2, <1>6, <1>7
<1>10. Sound(r.slots, D, r.count, l)
  BY <1>6, <1>7, <1>9 DEF Sound
<1> QED BY <1>1, <1>2, <1>4, <1>6, <1>8, <1>10

-----------------------------------------------------------------------------
(* The table's invariant, and the theorems.                                *)

TableInv ==
  /\ count \in Nat /\ header \in Nat /\ header <= count
  /\ id \in 0..(MaxIds - 1) /\ indexed \in Nat /\ inserts \in Nat /\ lost \in BOOLEAN
  /\ \E C : Sound(slots, C, count, lost)

LEMMA TableInitOK ==
  ASSUME PartsAssumption, Fingers!Init
  PROVE  TableInv /\ \A h \in Hashes : Fingers!Lookup(slots, h) = <<>>
<1>1. /\ slots = Fingers!Fresh(FirstCap) /\ count = 0 /\ header = 0 /\ id = 0 /\ indexed = 0
      /\ inserts = 0 /\ lost = FALSE
      /\ FirstCap \in Nat \ {0} /\ FirstCap % 2 = 0 /\ MaxIds \in Nat \ {0}
  BY DEF Fingers!Init, PartsAssumption, Fingers!TableAssumption
<1>2. /\ Good(slots, FirstCap) /\ Fingers!Used(slots) = {} /\ \A h : Of(slots, h) = {}
  BY <1>1, FreshIs
<1>3. \E e \in Nat : FirstCap = 2 * e
  <2>1. PICK e : e = FirstCap \div 2
    OBVIOUS
  <2>2. FirstCap = 2 * e + 0 /\ e \in Int
    <3>1. FirstCap \in Int /\ 2 \in Int /\ 2 > 0
      BY <1>1
    <3>2. FirstCap = 2 * (FirstCap \div 2) + (FirstCap % 2) /\ (FirstCap \div 2) \in Int
      BY ONLY <3>1, DivMod
    <3> QED BY <1>1, <2>1, <3>2
  <2> QED BY <1>1, <2>2
<1>4. Cardinality({}) = 0
  BY FS_EmptySet
<1>5. Sound(slots, FirstCap, count, lost)
  BY <1>1, <1>2, <1>3, <1>4 DEF Sound
<1>6. TableInv
  <2>1. \E C : Sound(slots, C, count, lost)
    BY <1>5
  <2>2. id \in 0..(MaxIds - 1)
    <3>1. MaxIds \in Nat /\ MaxIds # 0 /\ id = 0
      BY <1>1
    <3> QED BY ONLY <3>1, SMT
  <2>4. lost \in BOOLEAN
    BY <1>1, Zenon
  <2>3. indexed \in Nat /\ inserts \in Nat /\ count \in Nat /\ header \in Nat /\ header <= count
    BY <1>1
  <2> QED BY <2>1, <2>2, <2>3, <2>4 DEF TableInv
<1>7. ASSUME NEW h \in Hashes PROVE Fingers!Lookup(slots, h) = <<>>
  <2>1. Len(Fingers!Lookup(slots, h)) = 0 /\ Fingers!Lookup(slots, h) \in Seq(Nat)
    BY <1>2, <1>4, LookupIs DEF Good
  <2> QED BY <2>1, EmptySeq
<1> QED BY <1>6, <1>7

LEMMA InsertStep ==
  ASSUME PartsAssumption, TableInv, NEW h \in Hashes, Fingers!insert(h)
  PROVE  /\ TableInv'
         /\ Places(Kept(Fingers!Lookup(slots, h)), id, Fingers!Lookup(slots', h))
         /\ \A k \in Hashes : k # h => Fingers!Lookup(slots', k) = Fingers!Lookup(slots, k)
<1>1. PICK g, r : /\ g = Target(slots, count) /\ r = Fingers!Set(g.slots, g.count, h, id)
                  /\ slots' = r.slots /\ count' = r.count
                  /\ header' = IF Fingers!Full(slots, count) THEN g.count ELSE header
  BY DEF Fingers!insert, Target
<1>2. /\ inserts' = inserts + 1 /\ id' = id /\ indexed' = indexed /\ lost' = lost
      /\ Fingers!Full(slots, count) \/ Fingers!Used(slots) # DOMAIN slots
  BY DEF Fingers!insert
<1>3. PICK C : Sound(slots, C, count, lost)
  BY DEF TableInv
<1>4. /\ count \in Nat /\ header \in Nat /\ header <= count
      /\ id \in 0..(MaxIds - 1) /\ indexed \in Nat /\ inserts \in Nat /\ lost \in BOOLEAN
  BY DEF TableInv
<1>5. /\ \E D : Sound(r.slots, D, r.count, lost)
      /\ g.count \in Nat /\ r.count \in Nat /\ g.count <= r.count
      /\ Places(Kept(Fingers!Lookup(slots, h)), id, Fingers!Lookup(r.slots, h))
      /\ \A k \in Hashes : k # h => Fingers!Lookup(r.slots, k) = Fingers!Lookup(slots, k)
  <2>1. PICK t, n, l, x : t = slots /\ n = count /\ l = lost /\ x = id
    OBVIOUS
  <2>2. n \in Nat /\ l \in BOOLEAN /\ x \in 0..(MaxIds - 1)
    BY <1>4, <2>1
  <2>3. /\ Sound(t, C, n, l) /\ (Fingers!Full(t, n) \/ Fingers!Used(t) # DOMAIN t)
        /\ g = Target(t, n) /\ r = Fingers!Set(g.slots, g.count, h, x)
    BY <1>1, <1>2, <1>3, <2>1
  <2>4. /\ \E D : Sound(r.slots, D, r.count, l)
        /\ g.count \in Nat /\ r.count \in Nat /\ g.count <= r.count
        /\ Places(Kept(Fingers!Lookup(t, h)), x, Fingers!Lookup(r.slots, h))
        /\ \A k \in Hashes : k # h => Fingers!Lookup(r.slots, k) = Fingers!Lookup(t, k)
    <3>1. InsertTakes(t, C, n, l, x, h, g, r)
      BY <2>2, <2>3 DEF InsertTakes
    <3>2. InsertMakes(t, l, x, h, g, r)
      BY ONLY PartsAssumption, <3>1, InsertHolds
    <3> QED BY <3>2 DEF InsertMakes
  <2> QED BY <2>1, <2>4
<1>6. ~Fingers!Full(slots, count) => g.count = count
  BY <1>1 DEF Target
<1>7. TableInv'
  <2>1. \E D : Sound(slots', D, count', lost')
    BY <1>1, <1>2, <1>5
  <2>2. header' \in Nat /\ header' <= count' /\ count' \in Nat
    BY <1>1, <1>4, <1>5, <1>6
  <2> QED BY <1>2, <1>4, <2>1, <2>2 DEF TableInv
<1> QED BY <1>1, <1>5, <1>7

\* The other steps leave the slots as they are.
LEMMA OtherSteps ==
  ASSUME PartsAssumption, TableInv, Fingers!NextObject \/ Fingers!sync \/ Fingers!Kill \/ UNCHANGED ofTable
  PROVE  TableInv' /\ slots' = slots
<1>1. PICK C : Sound(slots, C, count, lost)
  BY DEF TableInv
<1>2. /\ count \in Nat /\ header \in Nat /\ header <= count
      /\ id \in 0..(MaxIds - 1) /\ indexed \in Nat /\ inserts \in Nat /\ lost \in BOOLEAN /\ MaxIds \in Nat \ {0}
  BY DEF TableInv, PartsAssumption, Fingers!TableAssumption
<1>3. /\ Good(slots, C) /\ \E e \in Nat : C = 2 * e
      /\ lost = FALSE => count = Cardinality(Fingers!Used(slots)) /\ 2 * count <= C
  BY <1>1 DEF Sound
<1>4. CASE Fingers!NextObject
  <2>1. /\ id + 1 < MaxIds /\ id' = id + 1 /\ slots' = slots /\ count' = count /\ header' = header
        /\ indexed' = indexed /\ inserts' = inserts /\ lost' = lost
    BY <1>4 DEF Fingers!NextObject
  <2>3. Sound(slots', C, count', lost')
    BY <1>3, <2>1 DEF Sound
  <2> QED BY <1>2, <2>1, <2>3 DEF TableInv
<1>5. CASE Fingers!sync
  <2>1. /\ header' = count /\ slots' = slots /\ count' = count /\ id' = id
        /\ indexed' = indexed /\ inserts' = inserts /\ lost' = lost
    BY <1>5 DEF Fingers!sync
  <2> QED BY <1>1, <1>2, <2>1 DEF TableInv
<1>6. CASE Fingers!Kill
  <2>1. /\ count' = header /\ lost' = (lost \/ header < count) /\ slots' = slots
        /\ header' = header /\ inserts' = inserts
        /\ indexed' \in indexed..(id + 1) /\ indexed' < MaxIds /\ id' = indexed'
    BY <1>6 DEF Fingers!Kill
  <2>4. indexed' \in Nat /\ id' \in 0..(MaxIds - 1)
    <3>1. PICK i : i = indexed'
      OBVIOUS
    <3>2. i \in Nat /\ i \in 0..(MaxIds - 1)
      BY <1>2, <2>1, <3>1
    <3> QED BY <2>1, <3>1, <3>2
  <2>2. lost' \in BOOLEAN /\ (lost' = FALSE => lost = FALSE /\ count' = count)
    <3>1. \/ header < count /\ lost' = TRUE
          \/ header = count /\ lost' = lost
      <4>1. header < count \/ header = count
        BY <1>2
      <4>2. lost' = (lost \/ header < count) /\ lost \in BOOLEAN
        BY <1>2, <2>1, Zenon
      <4>3. CASE header < count
        BY <4>2, <4>3, Zenon
      <4>4. CASE ~(header < count)
        BY <4>1, <4>2, <4>4, Zenon
      <4> QED BY <4>3, <4>4
    <3> QED BY <1>2, <2>1, <3>1
  <2>3. Sound(slots', C, count', lost')
    BY <1>3, <2>1, <2>2 DEF Sound
  <2> QED BY <1>2, <2>1, <2>2, <2>3, <2>4 DEF TableInv
<1>7. CASE UNCHANGED ofTable
  <2>1. /\ slots' = slots /\ count' = count /\ header' = header /\ id' = id
        /\ indexed' = indexed /\ inserts' = inserts /\ lost' = lost
    BY <1>7 DEF ofTable
  <2> QED BY <1>1, <1>2, <2>1 DEF TableInv
<1> QED BY <1>4, <1>5, <1>6, <1>7

LEMMA StepsOfTable == ASSUME [Next]_vars PROVE [Fingers!Next]_ofTable
<1>1. CASE Next
  BY <1>1 DEF Next, InWriter, InSinks, ofTable
<1>2. CASE UNCHANGED vars
  BY <1>2 DEF vars
<1> QED BY <1>1, <1>2

\* The abstract table: what is held of every fingerprint, and a step of it.
HeldOf(t) == [h \in Hashes |-> Fingers!Lookup(t, h)]
Holds == Fingers!Abstract!Next

LEMMA TableStepOK == ASSUME PartsAssumption, TableInv, [Next]_vars PROVE TableInv' /\ [Holds]_(HeldOf(slots))
<1>1. CASE \E h \in Hashes : Fingers!insert(h)
  <2>1. PICK h \in Hashes : Fingers!insert(h)
    BY <1>1
  <2>2. /\ TableInv'
        /\ Places(Kept(Fingers!Lookup(slots, h)), id, Fingers!Lookup(slots', h))
        /\ \A k \in Hashes : k # h => Fingers!Lookup(slots', k) = Fingers!Lookup(slots, k)
    BY <2>1, InsertStep
  <2>3. id \in 0..(MaxIds - 1)
    BY DEF TableInv
  <2> DEFINE q == Kept(HeldOf(slots)[h])
             r == Fingers!Lookup(slots', h)
  <2>4. HeldOf(slots)[h] = Fingers!Lookup(slots, h)
    BY DEF HeldOf
  <2>5. PICK k : PlacedAt(q, Len(q), k, id, r)
    BY <2>2, <2>4 DEF Places
  <2>6. HeldOf(slots') = [HeldOf(slots) EXCEPT ![h] = r]
    <3>1. \A g \in Hashes : Fingers!Lookup(slots', g) = IF g = h THEN r ELSE Fingers!Lookup(slots, g)
      BY <2>2
    <3> HIDE DEF r
    <3> QED BY <3>1 DEF HeldOf
  <2>7. q = Fingers!Abstract!Kept(HeldOf(slots)[h])
    BY DEF Kept, Fingers!Abstract!Kept
  <2> HIDE DEF q, r
  <2>8. /\ k \in 0..Len(q)
        /\ \A i \in 1..k : q[i] <= id
        /\ \A i \in (k + 1)..Len(q) : id < q[i]
        /\ r = Fingers!Abstract!Between(q, k, id)
    BY <2>5 DEF PlacedAt, Fingers!Abstract!Between
  <2>9. Fingers!Abstract!Hold(h, id)
    BY <2>6, <2>7, <2>8 DEF Fingers!Abstract!Hold, HeldOf
  <2> QED BY <2>2, <2>3, <2>9 DEF Holds, Fingers!Abstract!Next
<1>2. CASE Fingers!NextObject \/ Fingers!sync \/ Fingers!Kill \/ UNCHANGED ofTable
  BY <1>2, OtherSteps DEF HeldOf
<1> QED BY <1>1, <1>2, StepsOfTable DEF Fingers!Next

\* What the invariant says of the probes.
LEMMA TableInvSound == ASSUME PartsAssumption, TableInv PROVE ProbesSound
<1>1. PICK C : Sound(slots, C, count, lost)
  BY DEF TableInv
<1>2. /\ Good(slots, C) /\ TableT(slots, C) /\ OnPath(slots, C) /\ lost \in BOOLEAN
      /\ lost = FALSE => count = Cardinality(Fingers!Used(slots)) /\ 2 * count <= C
  BY <1>1 DEF Sound, Good, TableInv
<1>3. Fingers!HalfFull
  <2>1. Fingers!Capacity(slots) = C
    BY <1>2, CapacityIs
  <2>2. Fingers!Cardinality(Fingers!Used(slots)) = Cardinality(Fingers!Used(slots))
    BY SameCardinality, Zenon
  <2> QED BY <1>2, <2>1, <2>2 DEF Fingers!HalfFull, Fingers!AlwaysHalfFull
<1>4. ASSUME NEW i \in Fingers!Used(slots)
      PROVE  \E d \in Fingers!Holding(slots, slots[i].hash) : Fingers!Slot(slots, slots[i].hash, d) = i
  <2>1. PICK h \in Hashes : h = slots[i].hash
    BY <1>2, SlotFacts
  <2>2. i \in Of(slots, h)
    BY <2>1 DEF Of
  <2>3. PICK d \in Fingers!Holding(slots, h) : Probe(C, h, d) = i
    BY <1>2, <2>2, HoldingIs
  <2>4. Fingers!Slot(slots, h, d) = i
    BY <1>2, <2>3, CapacityIs
  <2> QED BY <2>1, <2>3, <2>4
<1> QED BY <1>3, <1>4 DEF ProbesSound, Fingers!ProbesSound, Fingers!NoneStranded

\* However the table grew and whatever kills made of its count, every used slot is met by its
\* fingerprint's probe before an empty one; and until a kill loses a part of the count half of the
\* slots are empty, so that a probe ends.
THEOREM TableProbesSound == Spec => []ProbesSound
<1>1. Init => TableInv
  BY TableInitOK, PartsAssumption DEF Init
<1>2. TableInv /\ [Next]_vars => TableInv'
  BY TableStepOK, PartsAssumption
<1>3. TableInv => ProbesSound
  BY TableInvSound, PartsAssumption
<1> QED BY <1>1, <1>2, <1>3, PTL DEF Spec

\* A lookup finds every holder of a fingerprint that was put and not replaced, and an insertion
\* changes those of its own fingerprint only and replaces the lowest id and no other, whether the
\* table grew, wrapped or lost its count, and whichever ids a kill gave again.
THEOREM TableImplementsHolders == Spec => ImplementsHolders
<1>1. Init => TableInv /\ Fingers!Abstract!Init
  <2> SUFFICES ASSUME Init PROVE TableInv /\ Fingers!Abstract!Init
    OBVIOUS
  <2>1. TableInv /\ \A h \in Hashes : Fingers!Lookup(slots, h) = <<>>
    BY TableInitOK, PartsAssumption DEF Init
  <2> QED BY <2>1 DEF Fingers!Abstract!Init
<1>2. TableInv /\ [Next]_vars => TableInv' /\ [Holds]_(HeldOf(slots))
  BY TableStepOK, PartsAssumption
<1>3. ImplementsHolders <=> Fingers!Abstract!Init /\ [][Holds]_(HeldOf(slots))
  BY DEF ImplementsHolders, Fingers!ImplementsHolders, Fingers!Abstract!Spec, Holds, HeldOf
<1> QED BY <1>1, <1>2, <1>3, PTL DEF Spec

=============================================================================
