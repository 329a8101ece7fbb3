--------------------------- MODULE Writer_proofs ---------------------------
(***************************************************************************)
(* Theorems about the writer thread (Writer), as a part of MCParts: an     *)
(* object waited for is written, the index is complete, and nothing is     *)
(* written after the first failure, for every bound on the puts and every  *)
(* length of the channel, and whichever writes, flushes and insertions     *)
(* into the table fail.                                                    *)
(***************************************************************************)
EXTENDS MCParts, TLAPS

-----------------------------------------------------------------------------
(* The inductive invariant.                                                *)

JobType == [id : Nat, put : Nat]
LineType == [id : Nat, put : Nat, own : BOOLEAN]
CallerType ==
  [pc : {"idle", "sending", "check", "waiting", "read", "flush", "members", "pack", "sidecar", "joining", "dropped"},
   id : Nat, then : {"read", "flush"}]

WriterTypeOK ==
  /\ channel \in Seq(JobType)
  /\ done \in Nat /\ failure \in BOOLEAN /\ sent \in Nat /\ puts \in Nat
  /\ writer \in [pc : {"recv", "object", "sidecar", "line", "written", "failed", "skip", "exited"}, job : JobType]
  /\ caller \in CallerType
  /\ entries \in Seq(Nat)
  /\ index \in Seq(LineType)
  /\ \A i \in DOMAIN streams : i \in Nat /\ streams[i] \in Nat
  /\ twice \subseteq Nat

Busy == writer.pc \notin {"recv", "exited"}

\* The thread is still to be done with a job of the id.
Pending(i) == (Busy /\ writer.job.id = i) \/ \E k \in 1..Len(channel) : channel[k].id = i

\* An id is sent again only while its entry is not there, so that the ids sent are those of the
\* entries, and one more at most.
Ids ==
  /\ sent <= Len(entries) + 1
  /\ done <= sent
  /\ \A i \in twice : i < sent

\* A job the thread is not done with is the entry's, comes after every line its own must come
\* after, and is not written off by `done`, unless its id was sent twice.
Awaited(job) ==
  /\ job.id < sent /\ job.put < puts
  /\ done <= job.id \/ (done = job.id + 1 /\ job.id \in twice)
  /\ job.id < Len(entries) /\ job.id \notin twice => job.put = entries[job.id + 1]
  /\ \A k \in 1..Len(index) :
       twice = {} \/ (job.id \notin twice /\ index[k].id = job.id) => index[k].put <= job.put

Before(a, b) == a.put < b.put /\ a.id <= b.id /\ (a.id = b.id => a.id \in twice)

InOrder ==
  /\ \A k \in 1..Len(channel) : Awaited(channel[k])
  /\ \A j, k \in 1..Len(channel) : j < k => Before(channel[j], channel[k])
  /\ Busy => Awaited(writer.job) /\ \A k \in 1..Len(channel) : Before(writer.job, channel[k])

\* What a line needs is there.
Lines ==
  /\ \A k \in 1..Len(index) :
       /\ index[k].put <= puts
       /\ index[k].id \in DOMAIN streams
       /\ index[k].id \notin twice => index[k].put <= streams[index[k].id]
       /\ \/ index[k].id \in DOMAIN sidecars \cup cut
          \/ caller.pc \in {"pack", "sidecar"} /\ index[k].id = Len(entries)
  /\ twice = {} => \A k \in 2..Len(index) : index[k - 1].put <= index[k].put

\* What was sent, and what the store wrote itself, is there or to come, or something failed.
Kept ==
  /\ \A i \in 0..(done - 1) : Writing!Listed(i)
  /\ \A i \in Nat : i < Len(entries) \/ i < sent => Writing!Listed(i) \/ failure \/ Pending(i)
  /\ \A i \in 0..(Len(entries) - 1) :
       i \notin twice => (i \in DOMAIN streams /\ streams[i] = entries[i + 1]) \/ failure \/ Pending(i)

\* The writes of the job in hand come in their order, none after a failure.
Ordered ==
  /\ writer.pc \in {"object", "sidecar", "line", "written", "failed"} => ~failure
  /\ writer.pc = "skip" => failure
  /\ writer.pc \in {"sidecar", "line", "written"} =>
       /\ writer.job.id \in DOMAIN streams
       /\ writer.job.id \notin twice => streams[writer.job.id] = writer.job.put
  /\ writer.pc = "line" => writer.job.id \in DOMAIN sidecars
  /\ writer.pc = "written" => Writing!Listed(writer.job.id)
  /\ writer.pc = "exited" => caller.pc \in {"joining", "dropped"}

\* What the store's thread may rely on where it is.
Waits ==
  /\ caller.pc \in {"check", "waiting"} =>
       /\ caller.id < sent
       /\ caller.then = "flush" => caller.id = sent - 1
       /\ caller.then = "read" => caller.id < Len(entries)
  /\ caller.pc = "sending" => caller.id = Len(entries)
  /\ caller.pc = "read" =>
       /\ caller.id < Len(entries) /\ caller.id \in DOMAIN streams
       /\ caller.id \notin twice => streams[caller.id] = entries[caller.id + 1]
  /\ Writing!Flushing => Writing!LastSent \in twice \/ (~failure /\ channel = <<>> /\ writer.pc = "recv")
  /\ caller.pc \in {"members", "pack", "sidecar"} =>
       /\ Len(entries) \in DOMAIN streams
       /\ Len(entries) \notin twice => streams[Len(entries)] = puts
  /\ caller.pc = "sidecar" =>
       \E k \in 1..Len(index) : index[k].own /\ index[k].id = Len(entries) /\ index[k].put = puts

WriterInv == WriterTypeOK /\ Ids /\ InOrder /\ Lines /\ Kept /\ Ordered /\ Waits

-----------------------------------------------------------------------------
(* Its proof: a lemma for each of the actions.                             *)

LEMMA WriterInitOK == Writing!Init => WriterInv
<1> SUFFICES ASSUME Writing!Init PROVE WriterInv
  OBVIOUS
<1> USE DEF Writing!Init, Writing!NoJob
<1>1. WriterTypeOK
  <2>1. channel \in Seq(JobType) /\ entries \in Seq(Nat) /\ index \in Seq(LineType)
    OBVIOUS
  <2>2. done \in Nat /\ failure \in BOOLEAN /\ sent \in Nat /\ puts \in Nat
    OBVIOUS
  <2>3. /\ writer \in [pc : {"recv"}, job : JobType]
        /\ caller \in [pc : {"idle"}, id : Nat, then : {"read"}]
    BY DEF JobType
  <2>4. DOMAIN streams = {} /\ twice = {}
    OBVIOUS
  <2> HIDE DEF Writing!Init
  <2> QED BY <2>1, <2>2, <2>3, <2>4 DEF WriterTypeOK, CallerType
<1>2. /\ Len(channel) = 0 /\ Len(index) = 0 /\ Len(entries) = 0 /\ sent = 0 /\ done = 0 /\ twice = {}
      /\ writer.pc = "recv" /\ caller.pc = "idle"
  OBVIOUS
<1> HIDE DEF Writing!Init
<1>3. Ids /\ InOrder /\ Ordered
  BY <1>2 DEF Ids, InOrder, Ordered, Busy
<1>4. Lines
  BY <1>2 DEF Lines
<1>5. Kept
  BY <1>2 DEF Kept
<1>6. Waits
  BY <1>2 DEF Waits, Writing!Flushing
<1> QED BY <1>1, <1>3, <1>4, <1>5, <1>6 DEF WriterInv

LEMMA WriterTypes ==
  ASSUME WriterTypeOK
  PROVE  /\ Len(index) \in Nat /\ Len(channel) \in Nat /\ Len(entries) \in Nat
         /\ \A k \in 1..Len(index) : index[k] \in LineType /\ index[k].id \in Nat /\ index[k].put \in Nat
         /\ \A k \in 1..Len(channel) :
              channel[k] \in JobType /\ channel[k].id \in Nat /\ channel[k].put \in Nat
         /\ \A k \in 1..Len(entries) : entries[k] \in Nat
<1>1. index \in Seq(LineType) /\ channel \in Seq(JobType) /\ entries \in Seq(Nat)
  BY DEF WriterTypeOK
<1>2. /\ \A k \in 1..Len(index) : index[k] \in LineType
      /\ \A k \in 1..Len(channel) : channel[k] \in JobType
      /\ \A k \in 1..Len(entries) : entries[k] \in Nat
  BY <1>1
<1>3. (\A l \in LineType : l.id \in Nat /\ l.put \in Nat) /\ (\A j \in JobType : j.id \in Nat /\ j.put \in Nat)
  BY DEF LineType, JobType
<1> QED BY <1>1, <1>2, <1>3

\* An object listed stays so while the index grows, if its entry stays.
LEMMA ListedStays ==
  ASSUME WriterTypeOK, WriterTypeOK', Len(index) <= Len(index'),
         \A k \in 1..Len(index) : index'[k] = index[k],
         NEW i \in Nat, Writing!Listed(i),
         i < Len(entries') /\ i \notin twice' => i < Len(entries) /\ i \notin twice /\ entries'[i + 1] = entries[i + 1]
  PROVE  Writing!Listed(i)'
<1>1. Len(index) \in Nat /\ Len(index') \in Nat
  BY DEF WriterTypeOK, LineType
<1>2. PICK k \in 1..Len(index) :
        /\ index[k].own /\ index[k].id = i
        /\ i < Len(entries) /\ i \notin twice => index[k].put = entries[i + 1]
  BY DEF Writing!Listed
<1>3. k \in 1..Len(index') /\ index'[k] = index[k]
  BY <1>1
<1> QED BY <1>2, <1>3 DEF Writing!Listed

LEMMA RecvKeeps == ASSUME WriterInv, Writing!Recv PROVE WriterInv'
<1> USE DEF Writing!Recv, Writing!failed, Writing!store, Writing!disk, WriterInv
<1>1. /\ channel \in Seq(JobType) /\ channel # <<>> /\ channel' = Tail(channel)
  BY DEF WriterTypeOK
<1>2. /\ channel' \in Seq(JobType) /\ Len(channel') = Len(channel) - 1
      /\ \A k \in 1..Len(channel') : channel'[k] = channel[k + 1]
      /\ Head(channel) = channel[1] /\ channel[1] \in JobType /\ Len(channel) \in Nat \ {0}
  BY <1>1
<1>3. /\ writer.pc = "recv" /\ writer'.job = channel[1]
      /\ writer'.pc = IF failure THEN "skip" ELSE "object"
      /\ UNCHANGED <<done, failure, sent, caller, entries, puts, streams, sidecars, index, twice, cut>>
  BY <1>2
<1>4. ~Busy /\ Busy'
  BY <1>3 DEF Busy
<1>5. WriterTypeOK'
  BY <1>2, <1>3 DEF WriterTypeOK
<1>6. InOrder'
  <2>1. ASSUME NEW j, Awaited(j) PROVE Awaited(j)'
    BY <1>3, <2>1 DEF Awaited
  <2>2. \A k \in 1..Len(channel') : k + 1 \in 1..Len(channel) /\ 1 < k + 1
    BY <1>2
  <2>3. 1 \in 1..Len(channel)
    BY <1>2
  <2>4. ASSUME NEW k \in 1..Len(channel') PROVE Awaited(channel[k])' /\ Before(writer.job, channel[k])'
    <3>1. PICK j : j = channel[k + 1] /\ j = channel'[k]
      BY <1>2
    <3>2. Awaited(j) /\ Before(channel[1], j)
      BY <2>2, <2>3, <3>1 DEF InOrder
    <3>3. Awaited(j)'
      BY <2>1, <3>2
    <3> QED BY <1>3, <3>1, <3>2, <3>3 DEF Awaited, Before
  <2>5. Awaited(writer.job)'
    <3>1. PICK j : j = channel[1] /\ j = writer'.job /\ Awaited(j)
      BY <1>3, <2>3 DEF InOrder
    <3>2. Awaited(j)'
      BY <2>1, <3>1
    <3> QED BY <3>1, <3>2 DEF Awaited
  <2>6. ASSUME NEW j \in 1..Len(channel'), NEW k \in 1..Len(channel'), j < k PROVE Before(channel[j], channel[k])'
    <3>1. Before(channel[j + 1], channel[k + 1])
      BY <2>2, <2>6 DEF InOrder
    <3> QED BY <1>2, <1>3, <3>1 DEF Before
  <2> QED BY <2>4, <2>5, <2>6 DEF InOrder
<1>7. \A i : Pending(i) => Pending(i)'
  <2> SUFFICES ASSUME NEW i, NEW k \in 1..Len(channel), channel[k].id = i PROVE Pending(i)'
    BY <1>4 DEF Pending
  <2>1. CASE k = 1
    BY <1>3, <1>4, <2>1 DEF Pending
  <2>2. CASE k # 1
    <3>1. k - 1 \in 1..Len(channel') /\ channel'[k - 1] = channel[k]
      BY <1>2, <2>2
    <3> QED BY <3>1 DEF Pending
  <2> QED BY <2>1, <2>2
<1>8. \A i : Writing!Listed(i)' <=> Writing!Listed(i)
  BY <1>3 DEF Writing!Listed
<1>9. Kept'
  BY <1>3, <1>7, <1>8 DEF Kept
<1>10. Ids' /\ Lines' /\ Ordered'
  BY <1>3 DEF Ids, Lines, Ordered
<1>11. Waits'
  <2>1. ~Writing!Flushing \/ Writing!LastSent \in twice
    BY <1>1 DEF Waits
  <2> QED
    BY <1>3, <2>1 DEF Waits, Writing!Flushing, Writing!LastSent
<1> QED BY <1>5, <1>6, <1>9, <1>10, <1>11

\* What a write of the thread does: the next is to come, or none.
Wrote(pc) == writer.pc = pc /\ writer' = [writer EXCEPT !.pc = Writing!After[pc]]

LEMMA WriteCases ==
  ASSUME Writing!Write
  PROVE  /\ UNCHANGED <<channel, done, failure, caller, entries, puts, sent, twice, cut>>
         /\ \/ Wrote("object") /\ streams' = Writing!Put(streams, writer.job) /\ UNCHANGED <<sidecars, index>>
            \/ Wrote("sidecar") /\ sidecars' = Writing!Put(sidecars, writer.job) /\ UNCHANGED <<streams, index>>
            \/ Wrote("line") /\ index' = Append(index, Writing!Line(writer.job, TRUE)) /\ UNCHANGED <<streams, sidecars>>
            \/ /\ writer.pc \in {"object", "sidecar", "line"} /\ writer' = [writer EXCEPT !.pc = "failed"]
               /\ UNCHANGED <<streams, sidecars, index>>
BY DEF Writing!Write, Writing!Then, Writing!store, Wrote

\* A job in hand has the id of a pack being written only when the id was sent twice.
LEMMA HandAndPack ==
  ASSUME WriterInv, Writing!Flushing, NEW job \in JobType, Awaited(job), Busy \/ channel # <<>>
  PROVE  Writing!LastSent \in twice /\ (job.id >= Len(entries) => job.id \in twice)
<1> USE DEF WriterInv
<1>1. Writing!LastSent \in twice
  BY DEF Waits, Busy
<1>2. job.id < sent /\ job.id \in Nat /\ sent \in Nat /\ sent <= Len(entries) + 1 /\ Len(entries) \in Nat
  BY DEF Awaited, WriterTypeOK, Ids, JobType
<1>3. job.id >= Len(entries) => job.id = Writing!LastSent
  BY <1>2 DEF Writing!LastSent
<1> QED BY <1>1, <1>3

LEMMA WriteKeeps == ASSUME WriterInv, Writing!Write PROVE WriterInv'
<1> USE WriteCases DEF WriterInv
<1>1. /\ UNCHANGED <<channel, done, failure, caller, entries, puts, sent, twice, cut>>
      /\ writer.pc \in {"object", "sidecar", "line"} /\ writer'.job = writer.job
      /\ writer'.pc \in {"sidecar", "line", "written", "failed"} /\ ~failure
      /\ writer.job \in JobType /\ Awaited(writer.job) /\ Busy /\ Busy'
  <2>1. UNCHANGED <<channel, done, failure, caller, entries, puts, sent, twice, cut>>
    OBVIOUS
  <2>2. /\ writer.pc \in {"object", "sidecar", "line"}
        /\ writer'.pc \in {"sidecar", "line", "written", "failed"} /\ writer'.job = writer.job
    BY DEF WriterTypeOK, Wrote, Writing!After
  <2>3. Busy /\ Busy'
    BY <2>2 DEF Busy
  <2> QED
    BY <2>1, <2>2, <2>3 DEF WriterTypeOK, Ordered, InOrder
<1>2. Ids' /\ \A i : Pending(i)' <=> Pending(i)
  BY <1>1 DEF Ids, Pending
<1>3. /\ writer.job.id \in Nat /\ writer.job.put \in Nat /\ sent \in Nat /\ Len(entries) \in Nat
      /\ writer.job.id < sent /\ writer.job.put < puts
      /\ writer.job.id < Len(entries) /\ writer.job.id \notin twice =>
           writer.job.put = entries[writer.job.id + 1]
  BY <1>1 DEF Awaited, WriterTypeOK, JobType
<1>4. Writing!Flushing => Writing!LastSent \in twice /\ (writer.job.id >= Len(entries) => writer.job.id \in twice)
  BY <1>1, HandAndPack
<1>5. CASE UNCHANGED index
  <2>1. InOrder'
    BY <1>1, <1>5 DEF InOrder, Awaited, Before
  <2>2. \A i : Writing!Listed(i)' <=> Writing!Listed(i)
    BY <1>1, <1>5 DEF Writing!Listed
  <2>3. CASE Wrote("object") /\ streams' = Writing!Put(streams, writer.job) /\ UNCHANGED sidecars
    <3>1. writer'.pc = "sidecar"
      BY <2>3, <1>1 DEF Wrote, Writing!After, WriterTypeOK
    <3>2. /\ DOMAIN streams' = DOMAIN streams \cup {writer.job.id}
          /\ streams'[writer.job.id] = writer.job.put
          /\ \A i \in DOMAIN streams : i # writer.job.id => streams'[i] = streams[i]
      BY <2>3 DEF Writing!Put
    <3>3. WriterTypeOK'
      <4>1. \A i \in DOMAIN streams' : i \in Nat /\ streams'[i] \in Nat
        BY <1>3, <3>2 DEF WriterTypeOK
      <4>2. writer' \in [pc : {"sidecar"}, job : JobType]
        BY <2>3, <3>1, <1>1 DEF WriterTypeOK, Wrote
      <4> QED
        BY <1>1, <1>5, <4>1, <4>2 DEF WriterTypeOK
    <3>4. Lines'
      <4>1. \A k \in 1..Len(index) : index[k].id = writer.job.id /\ writer.job.id \notin twice => index[k].put <= writer.job.put
        BY <1>1 DEF Awaited
      <4> QED
        BY <1>1, <1>5, <2>3, <3>2, <4>1 DEF Lines
    <3>5. Kept'
      <4>1. ASSUME NEW i \in 0..(Len(entries) - 1), i \notin twice
            PROVE  (i \in DOMAIN streams /\ streams[i] = entries[i + 1]) => (i \in DOMAIN streams' /\ streams'[i] = entries[i + 1])
        BY <4>1, <1>3, <3>2
      <4> QED
        BY <1>1, <1>2, <2>2, <4>1 DEF Kept
    <3>6. Ordered'
      BY <1>1, <3>1, <3>2 DEF Ordered
    <3>7. Waits'
      <4>1. caller.pc = "read" => caller.id < Len(entries) /\ caller.id \in DOMAIN streams'
                                  /\ (caller.id \notin twice => streams'[caller.id] = entries[caller.id + 1])
        BY <1>3, <3>2 DEF Waits
      <4>2. caller.pc \in {"members", "pack", "sidecar"} =>
              Len(entries) \in DOMAIN streams' /\ (Len(entries) \notin twice => streams'[Len(entries)] = puts)
        BY <1>3, <1>4, <3>2 DEF Waits, Writing!Flushing
      <4>3. caller.pc = "sidecar" =>
               \E k \in 1..Len(index) : index[k].own /\ index[k].id = Len(entries) /\ index[k].put = puts
        BY DEF Waits
      <4>4. Writing!Flushing => Writing!LastSent \in twice
        BY <1>4
      <4> QED
        BY <1>1, <1>5, <4>1, <4>2, <4>3, <4>4 DEF Waits, Writing!Flushing, Writing!LastSent
    <3> QED BY <1>2, <2>1, <3>3, <3>4, <3>5, <3>6, <3>7
  <2>4. CASE /\ UNCHANGED streams
             /\ UNCHANGED sidecars \/ (Wrote("sidecar") /\ sidecars' = Writing!Put(sidecars, writer.job))
             /\ writer'.pc = "failed" \/ (Wrote("sidecar") /\ sidecars' = Writing!Put(sidecars, writer.job))
    <3>1. /\ DOMAIN sidecars \subseteq DOMAIN sidecars'
          /\ writer'.pc \in {"failed", "line"}
          /\ writer'.pc = "line" => writer.pc = "sidecar" 
      BY <2>4, <1>1 DEF Writing!Put, Wrote, Writing!After, WriterTypeOK
    <3>2. writer'.pc = "line" => writer.job.id \in DOMAIN sidecars'
      <4> SUFFICES ASSUME writer'.pc = "line" PROVE writer.job.id \in DOMAIN sidecars'
        OBVIOUS
      <4>1. Wrote("sidecar") /\ sidecars' = Writing!Put(sidecars, writer.job)
        BY <2>4
      <4> QED BY <4>1 DEF Writing!Put
    <3>3. WriterTypeOK'
      <4>1. writer' \in [pc : {"line", "failed"}, job : JobType]
        BY <1>1, <3>1 DEF WriterTypeOK, Wrote
      <4> QED
        BY <1>1, <1>5, <2>4, <4>1 DEF WriterTypeOK
    <3>4. Lines'
      BY <1>1, <1>5, <2>4, <3>1 DEF Lines
    <3>5. Kept'
      BY <1>1, <1>2, <2>2, <2>4 DEF Kept
    <3>6. Ordered'
      BY <1>1, <2>4, <3>1, <3>2 DEF Ordered
    <3>7. Waits'
      BY <1>1, <1>4, <1>5, <2>4 DEF Waits, Writing!Flushing, Writing!LastSent
    <3> QED BY <1>2, <2>1, <3>3, <3>4, <3>5, <3>6, <3>7
  <2>5. \/ Wrote("object") /\ streams' = Writing!Put(streams, writer.job) /\ UNCHANGED sidecars
        \/ /\ UNCHANGED streams
           /\ UNCHANGED sidecars \/ (Wrote("sidecar") /\ sidecars' = Writing!Put(sidecars, writer.job))
           /\ writer'.pc = "failed" \/ (Wrote("sidecar") /\ sidecars' = Writing!Put(sidecars, writer.job))
    <3>1. CASE Wrote("object") /\ streams' = Writing!Put(streams, writer.job) /\ UNCHANGED <<sidecars, index>>
      BY <3>1
    <3>2. CASE Wrote("sidecar") /\ sidecars' = Writing!Put(sidecars, writer.job) /\ UNCHANGED <<streams, index>>
      BY <3>2
    <3>3. CASE Wrote("line") /\ index' = Append(index, Writing!Line(writer.job, TRUE))
      <4>1. Len(index') = Len(index) + 1 /\ Len(index) \in Nat
        BY <1>3, <3>3 DEF WriterTypeOK, Writing!Line, LineType
      <4> QED BY <4>1, <1>5
    <3>4. CASE /\ writer.pc \in {"object", "sidecar", "line"} /\ writer' = [writer EXCEPT !.pc = "failed"]
               /\ UNCHANGED <<streams, sidecars, index>>
      <4>1. writer'.pc = "failed"
        BY <3>4 DEF WriterTypeOK, JobType
      <4> QED BY <3>4, <4>1
    <3> QED BY <3>1, <3>2, <3>3, <3>4
  <2> QED BY <2>3, <2>4, <2>5
<1>6. CASE Wrote("line") /\ index' = Append(index, Writing!Line(writer.job, TRUE)) /\ UNCHANGED <<streams, sidecars>>
  <2>1. writer'.pc = "written" /\ writer.pc = "line"
    BY <1>1, <1>6 DEF Wrote, Writing!After, WriterTypeOK
  <2>2. PICK l \in LineType : l = Writing!Line(writer.job, TRUE) /\ l.id = writer.job.id /\ l.put = writer.job.put /\ l.own = TRUE
    <3>1. Writing!Line(writer.job, TRUE) \in LineType
      BY <1>3 DEF Writing!Line, LineType
    <3>2. /\ Writing!Line(writer.job, TRUE).id = writer.job.id /\ Writing!Line(writer.job, TRUE).put = writer.job.put
          /\ Writing!Line(writer.job, TRUE).own = TRUE
      BY DEF Writing!Line
    <3> QED BY <3>1, <3>2
  <2>3. /\ index' \in Seq(LineType) /\ Len(index') = Len(index) + 1 /\ Len(index) \in Nat
        /\ \A k \in 1..Len(index) : index'[k] = index[k]
        /\ index'[Len(index) + 1] = l
    <3>1. index \in Seq(LineType) /\ index' = Append(index, l)
      BY <1>6, <2>2 DEF WriterTypeOK
    <3> QED BY <3>1
  <2>4. WriterTypeOK'
    <3>1. writer' \in [pc : {"written"}, job : JobType]
      BY <1>1, <1>6, <2>1 DEF WriterTypeOK, Wrote
    <3> QED
      BY <1>1, <1>6, <2>3, <3>1 DEF WriterTypeOK
  <2>5. \A i \in Nat : Writing!Listed(i) => Writing!Listed(i)'
    BY <1>1, <2>3, <2>4, ListedStays
  <2>6. Writing!Listed(writer.job.id)'
    <3>1. Len(index) + 1 \in 1..Len(index')
      BY <2>3
    <3> QED
      BY <1>1, <1>3, <2>2, <2>3, <3>1 DEF Writing!Listed
  <2>7. Awaited(writer.job)'
    <3>1. ASSUME NEW k \in 1..Len(index'), twice = {} \/ (writer.job.id \notin twice /\ index'[k].id = writer.job.id)
          PROVE  index'[k].put <= writer.job.put
      <4>1. CASE k \in 1..Len(index)
        BY <1>1, <2>3, <3>1, <4>1 DEF Awaited
      <4>2. CASE k = Len(index) + 1
        <5>1. index'[k].put = writer.job.put
          BY <2>2, <2>3, <4>2
        <5> QED BY <1>3, <5>1
      <4> QED BY <2>3, <4>1, <4>2
    <3> QED
      BY <1>1, <3>1 DEF Awaited
  <2>8. ASSUME NEW k \in 1..Len(channel) PROVE Awaited(channel[k])'
    <3>1. Awaited(channel[k]) /\ Before(writer.job, channel[k]) /\ channel[k] \in JobType
      BY <1>1 DEF InOrder, WriterTypeOK
    <3>2. ASSUME NEW n \in 1..Len(index'), twice = {} \/ (channel[k].id \notin twice /\ index'[n].id = channel[k].id)
          PROVE  index'[n].put <= channel[k].put
      <4>1. CASE n \in 1..Len(index)
        BY <2>3, <3>1, <3>2, <4>1 DEF Awaited
      <4>2. CASE n = Len(index) + 1
        <5>1. index'[n].put = writer.job.put /\ channel[k].put \in Nat
          BY <2>2, <2>3, <3>1, <4>2 DEF JobType
        <5> QED BY <1>3, <3>1, <5>1 DEF Before
      <4> QED BY <2>3, <4>1, <4>2
    <3> QED
      BY <1>1, <3>1, <3>2 DEF Awaited
  <2>9. InOrder'
    BY <1>1, <2>7, <2>8 DEF InOrder, Before
  <2>10. Lines'
    <3>1. ASSUME NEW k \in 1..Len(index')
          PROVE  /\ index'[k].put <= puts
                 /\ index'[k].id \in DOMAIN streams
                 /\ index'[k].id \notin twice => index'[k].put <= streams[index'[k].id]
                 /\ \/ index'[k].id \in DOMAIN sidecars \cup cut
                    \/ caller.pc \in {"pack", "sidecar"} /\ index'[k].id = Len(entries)
      <4>1. CASE k \in 1..Len(index)
        BY <2>3, <4>1 DEF Lines
      <4>2. CASE k = Len(index) + 1
        <5>1. index'[k].id = writer.job.id /\ index'[k].put = writer.job.put /\ puts \in Nat
          BY <2>2, <2>3, <4>2 DEF WriterTypeOK
        <5> QED BY <1>3, <2>1, <5>1 DEF Ordered
      <4> QED BY <2>3, <4>1, <4>2
    <3>2. ASSUME twice = {}, NEW k \in 2..Len(index') PROVE index'[k - 1].put <= index'[k].put
      <4>1. CASE k \in 2..Len(index)
        <5>1. k - 1 \in 1..Len(index) /\ k \in 1..Len(index)
          BY <4>1, <2>3
        <5> QED BY <2>3, <3>2, <4>1, <5>1 DEF Lines
      <4>2. CASE k = Len(index) + 1
        <5>1. k - 1 \in 1..Len(index) /\ index'[k - 1] = index[k - 1] /\ index'[k].put = writer.job.put
          <6>1. k - 1 \in 1..Len(index) /\ k = Len(index) + 1
            BY <2>3, <4>2
          <6> QED BY <2>2, <2>3, <6>1
        <5> QED BY <1>1, <3>2, <5>1 DEF Awaited
      <4> QED BY <2>3, <4>1, <4>2
    <3> QED
      BY <1>1, <1>6, <3>1, <3>2 DEF Lines
  <2>11. Kept'
    BY <1>1, <1>2, <1>6, <2>5 DEF Kept, WriterTypeOK
  <2>12. Ordered'
    BY <1>1, <1>6, <2>1, <2>6 DEF Ordered
  <2>13. Waits'
    <3>1. caller.pc = "sidecar" =>
            \E k \in 1..Len(index') : index'[k].own /\ index'[k].id = Len(entries) /\ index'[k].put = puts
      <4> SUFFICES ASSUME caller.pc = "sidecar"
                   PROVE  \E k \in 1..Len(index') : index'[k].own /\ index'[k].id = Len(entries) /\ index'[k].put = puts
        OBVIOUS
      <4>1. PICK k \in 1..Len(index) : index[k].own /\ index[k].id = Len(entries) /\ index[k].put = puts
        BY DEF Waits
      <4>2. k \in 1..Len(index') /\ index'[k] = index[k]
        BY <2>3
      <4> QED BY <4>1, <4>2
    <3> QED
      BY <1>1, <1>4, <1>6, <3>1 DEF Waits, Writing!Flushing, Writing!LastSent
  <2> QED BY <1>2, <2>4, <2>9, <2>10, <2>11, <2>12, <2>13
<1> QED BY <1>5, <1>6

LEMMA UpdateKeeps == ASSUME WriterInv, Writing!Update PROVE WriterInv'
<1> USE DEF Writing!Update, Writing!Notified, Writing!Advance, Writing!store, Writing!disk, WriterInv
<1>1. UNCHANGED <<channel, sent, entries, puts, streams, sidecars, index, twice, cut>>
  OBVIOUS
<1>2. /\ writer.pc \in {"written", "failed", "skip"} /\ Busy /\ ~Busy'
      /\ writer'.pc = "recv" /\ writer'.job = writer.job
      /\ writer.job \in JobType /\ Awaited(writer.job)
      /\ \A k \in 1..Len(channel) : Before(writer.job, channel[k])
  BY DEF WriterTypeOK, Busy, InOrder
<1>3. /\ writer.job.id \in Nat /\ writer.job.id < sent /\ done \in Nat /\ sent \in Nat
      /\ done <= writer.job.id + 1 /\ Len(entries) \in Nat
  BY <1>2 DEF Awaited, WriterTypeOK, JobType
<1>4. \/ writer.pc = "written" /\ ~failure /\ ~failure' /\ done' = writer.job.id + 1
      \/ writer.pc = "failed" /\ failure' /\ done' = done
      \/ writer.pc = "skip" /\ failure /\ failure' /\ done' = done
  BY <1>2 DEF Ordered, WriterTypeOK
<1>5. /\ caller' \in {caller, [caller EXCEPT !.pc = "check"]} /\ (caller' # caller => caller.pc = "waiting")
      /\ caller' \in CallerType /\ caller'.id = caller.id /\ caller'.then = caller.then
      /\ caller'.pc = caller.pc \/ (caller.pc = "waiting" /\ caller'.pc = "check")
  BY DEF WriterTypeOK, CallerType
<1>6. done' \in Nat /\ failure' \in BOOLEAN /\ done' <= sent /\ done <= done' /\ (failure => failure')
  BY <1>3, <1>4 DEF WriterTypeOK, Ids
<1>7. WriterTypeOK'
  <2>1. writer' \in [pc : {"recv"}, job : JobType]
    BY DEF WriterTypeOK
  <2> QED
    BY <1>1, <1>5, <1>6, <2>1 DEF WriterTypeOK
<1>8. Ids'
  BY <1>1, <1>6 DEF Ids
<1>9. InOrder'
  <2>1. ASSUME NEW k \in 1..Len(channel) PROVE Awaited(channel[k])'
    <3>1. Awaited(channel[k]) /\ Before(writer.job, channel[k]) /\ channel[k] \in JobType
      BY <1>2 DEF InOrder, WriterTypeOK
    <3>2. channel[k].id \in Nat
      BY <3>1 DEF JobType
    <3>3. done' <= channel[k].id \/ (done' = channel[k].id + 1 /\ channel[k].id \in twice)
      <4>1. CASE done' = done
        BY <3>1, <4>1 DEF Awaited
      <4>2. CASE done' = writer.job.id + 1
        BY <1>3, <3>1, <3>2, <4>2 DEF Before
      <4> QED BY <1>4, <4>1, <4>2
    <3> QED
      BY <1>1, <3>1, <3>3 DEF Awaited
  <2> QED
    BY <1>1, <1>2, <2>1 DEF InOrder, Before
<1>10. Lines'
  BY <1>1, <1>5 DEF Lines
<1>11. \A i : Writing!Listed(i)' <=> Writing!Listed(i)
  BY <1>1 DEF Writing!Listed
<1>12. ASSUME NEW i \in Nat, Pending(i), ~Pending(i)' PROVE i = writer.job.id
  BY <1>1, <1>2, <1>12 DEF Pending
<1>13. Kept'
  <2>1. ASSUME NEW i \in 0..(done' - 1) PROVE Writing!Listed(i)
    <3>1. CASE i < done
      BY <1>3, <3>1 DEF Kept
    <3>2. CASE i >= done
      <4>1. writer.pc = "written" /\ ~failure /\ i <= writer.job.id /\ i \in Nat /\ i < sent
        BY <1>3, <1>4, <1>6, <3>2
      <4>2. CASE i = writer.job.id
        BY <4>1, <4>2 DEF Ordered
      <4>3. CASE i < writer.job.id
        <5>1. ASSUME NEW k \in 1..Len(channel) PROVE channel[k].id # i
          <6>1. channel[k].id \in Nat /\ writer.job.id <= channel[k].id
            BY <1>2, WriterTypes DEF Before
          <6> QED BY <1>3, <4>3, <6>1
        <5>2. ~Pending(i)
          BY <1>3, <4>3, <5>1 DEF Pending
        <5> QED BY <4>1, <5>2 DEF Kept
      <4> QED BY <1>3, <4>1, <4>2, <4>3
    <3> QED BY <1>3, <3>1, <3>2
  <2>2. ASSUME NEW i \in Nat, i < Len(entries) \/ i < sent PROVE Writing!Listed(i) \/ failure' \/ Pending(i)'
    <3>1. CASE i = writer.job.id
      BY <1>4, <3>1 DEF Ordered
    <3>2. CASE i # writer.job.id
      BY <1>6, <1>12, <2>2, <3>2 DEF Kept
    <3> QED BY <3>1, <3>2
  <2>3. ASSUME NEW i \in 0..(Len(entries) - 1), i \notin twice
        PROVE  (i \in DOMAIN streams /\ streams[i] = entries[i + 1]) \/ failure' \/ Pending(i)'
    <3>1. CASE i = writer.job.id
      <4>1. i < Len(entries)
        BY <1>3
      <4>2. writer.job.put = entries[i + 1]
        BY <1>2, <2>3, <3>1, <4>1 DEF Awaited
      <4> QED
        BY <1>4, <2>3, <3>1, <4>2 DEF Ordered
    <3>2. CASE i # writer.job.id
      BY <1>3, <1>6, <1>12, <2>3, <3>2 DEF Kept
    <3> QED BY <3>1, <3>2
  <2> QED
    BY <1>1, <1>11, <2>1, <2>2, <2>3 DEF Kept
<1>14. Ordered'
  BY <1>2 DEF Ordered
<1>15. Waits'
  <2>1. Writing!Flushing => Writing!LastSent \in twice
    BY <1>2 DEF Waits
  <2> QED
    BY <1>1, <1>5, <2>1 DEF Waits, Writing!Flushing, Writing!LastSent
<1> QED BY <1>7, <1>8, <1>9, <1>10, <1>13, <1>14, <1>15

LEMMA ExitKeeps == ASSUME WriterInv, Writing!Exit PROVE WriterInv'
<1> USE DEF Writing!Exit, Writing!store, Writing!disk, WriterInv
<1>1. /\ UNCHANGED <<channel, done, failure, caller, entries, puts, sent, streams, sidecars, index, twice, cut>>
      /\ ~Busy /\ ~Busy' /\ writer.pc = "recv" /\ writer'.pc = "exited" /\ caller.pc = "joining"
  BY DEF WriterTypeOK, Busy
<1>2. WriterTypeOK'
  BY DEF WriterTypeOK
<1>3. Ids' /\ Lines'
  BY <1>1 DEF Ids, Lines
<1>4. InOrder'
  BY <1>1 DEF InOrder, Awaited, Before
<1>5. Kept'
  BY <1>1 DEF Kept, Pending, Writing!Listed
<1>6. Ordered'
  BY <1>1 DEF Ordered
<1>7. Waits'
  BY <1>1 DEF Waits, Writing!Flushing
<1> QED BY <1>2, <1>3, <1>4, <1>5, <1>6, <1>7

-----------------------------------------------------------------------------
(* The store's thread.                                                     *)

\* A step that moves the store's thread alone, and not into a flush's writes, keeps the
\* invariant when what it may rely on where it arrives is there.
LEMMA CallerKeeps ==
  ASSUME WriterInv, Waits', caller' \in CallerType,
         UNCHANGED <<channel, done, failure, sent, writer, entries, puts, streams, sidecars, index, twice, cut>>,
         caller.pc \notin {"pack", "sidecar"},
         writer.pc = "exited" => caller'.pc \in {"joining", "dropped"}
  PROVE  WriterInv'
<1> USE DEF WriterInv
<1>1. WriterTypeOK'
  BY DEF WriterTypeOK
<1>2. Ids' /\ Lines'
  BY DEF Ids, Lines
<1>3. InOrder'
  BY DEF InOrder, Awaited, Before, Busy
<1>4. Kept'
  BY DEF Kept, Pending, Busy, Writing!Listed
<1>5. Ordered'
  BY DEF Ordered, Writing!Listed
<1> QED BY <1>1, <1>2, <1>3, <1>4, <1>5

LEMMA SendKeeps == ASSUME WriterInv, Writing!Send PROVE WriterInv'
<1> USE DEF Writing!Send, Writing!At, Writing!store, Writing!disk
<1>1. caller' \in CallerType /\ caller'.pc = "sending" /\ caller'.id = Len(entries) /\ caller.pc = "idle"
  <2>1. Len(entries) \in Nat /\ caller \in CallerType
    BY WriterTypes DEF WriterInv, WriterTypeOK
  <2> QED BY <2>1 DEF CallerType
<1>2. writer.pc # "exited"
  BY DEF WriterInv, Ordered
<1>3. Waits'
  BY <1>1 DEF Waits, Writing!Flushing
<1> QED BY <1>1, <1>2, <1>3, CallerKeeps

\* No failure, and every job with the id done with: the object's stream is there.
LEMMA ObjectIn ==
  ASSUME WriterInv, ~failure, NEW i \in Nat, i < Len(entries), ~(i < sent) \/ i < done
  PROVE  i \in DOMAIN streams /\ (i \notin twice => streams[i] = entries[i + 1])
<1> USE DEF WriterInv
<1>1. done \in Nat /\ sent \in Nat /\ Len(entries) \in Nat
  BY DEF WriterTypeOK
<1>2. CASE i \in twice
  <2>1. i < done
    BY <1>1, <1>2 DEF Ids
  <2>2. PICK k \in 1..Len(index) : index[k].id = i
    BY <1>1, <2>1 DEF Kept, Writing!Listed
  <2> QED BY <1>2, <2>2 DEF Lines
<1>3. CASE i \notin twice
  <2>1. ASSUME NEW job \in JobType, Awaited(job) PROVE job.id # i
    BY <1>1, <1>3, <2>1 DEF Awaited, JobType
  <2>2. \A k \in 1..Len(channel) : channel[k].id # i
    BY <2>1 DEF InOrder, WriterTypeOK
  <2>3. Busy => writer.job.id # i
    BY <2>1 DEF InOrder, WriterTypeOK
  <2>4. ~Pending(i)
    BY <2>2, <2>3 DEF Pending
  <2> QED
    BY <1>1, <1>3, <2>4 DEF Kept
<1> QED BY <1>2, <1>3

\* No failure, and everything sent done with: nothing is in the channel or in hand, unless the
\* last id sent was sent twice.
LEMMA AllIn ==
  ASSUME WriterInv, sent = 0 \/ Writing!LastSent < done, Writing!LastSent \notin twice
  PROVE  channel = <<>> /\ ~Busy
<1> USE DEF WriterInv
<1>1. done \in Nat /\ sent \in Nat
  BY DEF WriterTypeOK
<1>2. ASSUME NEW job \in JobType, Awaited(job) PROVE FALSE
  <2>1. job.id \in Nat /\ job.id < sent
    BY <1>2 DEF Awaited, JobType
  <2>2. done = job.id + 1 /\ job.id \in twice
    BY <1>1, <1>2, <2>1 DEF Awaited, Writing!LastSent
  <2> QED BY <1>1, <2>1, <2>2 DEF Writing!LastSent
<1>3. \A k \in 1..Len(channel) : FALSE
  BY <1>2 DEF InOrder, WriterTypeOK
<1>4. channel = <<>>
  BY <1>3 DEF WriterTypeOK
<1>5. ~Busy
  BY <1>2 DEF InOrder, WriterTypeOK
<1> QED BY <1>4, <1>5

\* Where the caller of an object, or of everything sent, goes on without a wait.
LEMMA WaitForKeeps ==
  ASSUME WriterInv, caller.pc = "idle",
         NEW obj \in Nat, NEW then \in {"read", "flush"}, Writing!WaitFor(obj, then),
         then = "read" => obj < Len(entries),
         then = "flush" => obj = Writing!LastSent
  PROVE  WriterInv'
<1> USE DEF Writing!WaitFor, Writing!store, Writing!disk
<1>1. writer.pc # "exited"
  BY DEF WriterInv, Ordered
<1>2. /\ caller' \in CallerType /\ caller'.id = obj /\ caller'.then = then
      /\ caller'.pc \in {"check", "idle", then}
      /\ caller'.pc = "check" => obj < sent
      /\ caller'.pc \in {"read", "flush"} => ~(obj < sent) /\ ~failure /\ caller'.pc = then
      /\ UNCHANGED <<channel, done, failure, sent, writer, entries, puts, streams, sidecars, index, twice, cut>>
  BY DEF CallerType
<1>3. sent \in Nat /\ done \in Nat
  BY DEF WriterInv, WriterTypeOK
<1>4. Waits'
  <2>1. CASE caller'.pc = "check"
    BY <1>2, <1>3, <2>1 DEF Waits, Writing!LastSent, Writing!Flushing
  <2>2. CASE caller'.pc = "read"
    <3>1. obj < Len(entries) /\ obj \in DOMAIN streams /\ (obj \notin twice => streams[obj] = entries[obj + 1])
      BY <1>2, <2>2, ObjectIn
    <3> QED BY <1>2, <2>2, <3>1 DEF Waits, Writing!Flushing
  <2>3. CASE caller'.pc = "flush"
    <3>1. ~failure /\ sent = 0
      BY <1>2, <1>3, <2>3 DEF Writing!LastSent
    <3>2. Writing!LastSent \in twice \/ (channel = <<>> /\ writer.pc = "recv")
      BY <1>1, <3>1, AllIn DEF WriterInv, WriterTypeOK, Busy
    <3> QED BY <1>2, <2>3, <3>1, <3>2 DEF Waits, Writing!Flushing, Writing!LastSent
  <2>4. CASE caller'.pc = "idle"
    BY <2>4 DEF Waits, Writing!Flushing
  <2> QED BY <1>2, <2>1, <2>2, <2>3, <2>4
<1> QED BY <1>1, <1>2, <1>4, CallerKeeps

LEMMA StartReadKeeps == ASSUME WriterInv, Writing!StartRead PROVE WriterInv'
<1>1. PICK obj \in 0..(Len(entries) - 1) : Writing!WaitFor(obj, "read") /\ caller.pc = "idle"
  BY DEF Writing!StartRead
<1>2. obj \in Nat /\ obj < Len(entries)
  BY <1>1 DEF WriterInv, WriterTypeOK
<1> QED BY <1>1, <1>2, WaitForKeeps

LEMMA StartFlushKeeps == ASSUME WriterInv, Writing!StartFlush PROVE WriterInv'
<1>1. Writing!LastSent \in Nat
  BY DEF WriterInv, WriterTypeOK, Writing!LastSent
<1> QED BY <1>1, WaitForKeeps DEF Writing!StartFlush

LEMMA CheckKeeps == ASSUME WriterInv, Writing!Check PROVE WriterInv'
<1> USE DEF Writing!Check, Writing!Behind, Writing!store, Writing!disk
<1>1. writer.pc # "exited" /\ caller.pc = "check"
  BY DEF WriterInv, Ordered
<1>2. /\ caller' \in CallerType /\ caller'.id = caller.id /\ caller'.then = caller.then
      /\ caller'.pc \in {"waiting", "idle", caller.then}
      /\ caller'.pc = caller.then => ~failure /\ ~(done <= caller.id)
      /\ UNCHANGED <<channel, done, failure, sent, writer, entries, puts, streams, sidecars, index, twice, cut>>
  BY DEF WriterInv, WriterTypeOK, CallerType
<1>3. /\ sent \in Nat /\ done \in Nat /\ caller.id \in Nat /\ caller.then \in {"read", "flush"}
      /\ caller.id < sent
      /\ caller.then = "flush" => caller.id = sent - 1
      /\ caller.then = "read" => caller.id < Len(entries)
  BY <1>1 DEF WriterInv, WriterTypeOK, CallerType, Waits
<1>4. Waits'
  <2>1. CASE caller'.pc = "waiting"
    BY <1>2, <1>3, <2>1 DEF Waits, Writing!Flushing
  <2>2. CASE caller'.pc = "read"
    <3>1. caller.id < done /\ ~failure /\ caller.then = "read"
      BY <1>2, <1>3, <2>2
    <3>2. caller.id < Len(entries) /\ caller.id \in DOMAIN streams
          /\ (caller.id \notin twice => streams[caller.id] = entries[caller.id + 1])
      BY <1>3, <3>1, ObjectIn
    <3> QED BY <1>2, <2>2, <3>2 DEF Waits, Writing!Flushing
  <2>3. CASE caller'.pc = "flush"
    <3>1. ~failure /\ Writing!LastSent < done
      BY <1>2, <1>3, <2>3 DEF Writing!LastSent
    <3>2. Writing!LastSent \in twice \/ (channel = <<>> /\ writer.pc = "recv")
      BY <1>1, <3>1, AllIn DEF WriterInv, WriterTypeOK, Busy
    <3> QED BY <1>2, <2>3, <3>1, <3>2 DEF Waits, Writing!Flushing, Writing!LastSent
  <2>4. CASE caller'.pc = "idle"
    BY <2>4 DEF Waits, Writing!Flushing
  <2> QED BY <1>2, <1>3, <2>1, <2>2, <2>3, <2>4
<1> QED BY <1>1, <1>2, <1>4, CallerKeeps

LEMMA ReturnsKeep ==
  ASSUME WriterInv, Writing!Spurious \/ Writing!Read \/ Writing!Drop \/ Writing!Joined PROVE WriterInv'
<1> USE DEF Writing!Spurious, Writing!Read, Writing!Drop, Writing!Joined, Writing!Return, Writing!At,
            Writing!store, Writing!disk
<1>1. /\ caller' \in CallerType /\ caller'.pc \in {"check", "idle", "joining", "dropped"}
      /\ caller.pc \in {"waiting", "read", "idle", "joining"}
      /\ caller'.pc = "check" => caller.pc = "waiting" /\ caller'.id = caller.id /\ caller'.then = caller.then
      /\ caller'.pc = "idle" => caller.pc = "read"
      /\ UNCHANGED <<channel, done, failure, sent, writer, entries, puts, streams, sidecars, index, twice, cut>>
  <2> caller \in CallerType
    BY DEF WriterInv, WriterTypeOK
  <2>1. CASE Writing!Spurious
    BY <2>1 DEF CallerType
  <2>2. CASE Writing!Read
    BY <2>2 DEF CallerType
  <2>3. CASE Writing!Drop
    BY <2>3 DEF CallerType
  <2>4. CASE Writing!Joined
    BY <2>4 DEF CallerType
  <2> QED BY <2>1, <2>2, <2>3, <2>4
<1>2. writer.pc = "exited" => caller'.pc \in {"joining", "dropped"}
  BY <1>1 DEF WriterInv, Ordered
<1>3. Waits'
  BY <1>1 DEF WriterInv, Waits, Writing!Flushing
<1> QED BY <1>1, <1>2, <1>3, CallerKeeps

LEMMA SentKeeps == ASSUME WriterInv, Writing!Sent PROVE WriterInv'
<1> USE DEF Writing!Sent, Writing!At, Writing!Return, Writing!disk, WriterInv
<1>1. /\ caller.pc = "sending" /\ caller.id = Len(entries)
      /\ caller'.pc = "idle" /\ caller' \in CallerType /\ puts' = puts + 1 /\ sent' = Len(entries) + 1
      /\ twice' = IF Len(entries) < sent THEN twice \cup {Len(entries)} ELSE twice
      /\ UNCHANGED <<done, failure, writer, streams, sidecars, index, cut>>
  BY DEF WriterTypeOK, Waits, CallerType
<1>2. /\ puts \in Nat /\ sent \in Nat /\ done \in Nat /\ Len(entries) \in Nat
      /\ sent <= Len(entries) + 1 /\ done <= sent /\ channel \in Seq(JobType) /\ entries \in Seq(Nat)
  BY DEF WriterTypeOK, Ids
<1>3. PICK job \in JobType : job.id = Len(entries) /\ job.put = puts /\ channel' = Append(channel, job)
  <2>1. Writing!Job(Len(entries), puts) \in JobType /\ channel' = Append(channel, Writing!Job(Len(entries), puts))
    BY <1>1, <1>2 DEF Writing!Job, JobType
  <2> QED BY <2>1 DEF Writing!Job
<1>4. /\ channel' \in Seq(JobType) /\ Len(channel') = Len(channel) + 1 /\ Len(channel) \in Nat
      /\ channel'[Len(channel) + 1] = job /\ \A k \in 1..Len(channel) : channel'[k] = channel[k]
  BY <1>2, <1>3
<1>5. /\ entries' \in Seq(Nat) /\ Len(entries') \in {Len(entries), Len(entries) + 1}
      /\ \A i \in 1..Len(entries) : entries'[i] = entries[i]
      /\ Len(entries') = Len(entries) + 1 => entries'[Len(entries) + 1] = puts
  <2>1. entries' = Append(entries, puts) \/ entries' = entries
    OBVIOUS
  <2>2. CASE entries' = Append(entries, puts)
    <3>1. entries \in Seq(Nat) /\ puts \in Nat
      BY <1>2
    <3> QED BY ONLY <2>2, <3>1
  <2>3. CASE entries' = entries
    <3>1. Len(entries) # Len(entries) + 1
      BY <1>2
    <3> QED BY <1>2, <2>3, <3>1
  <2> QED BY <2>1, <2>2, <2>3
<1>6. /\ twice \subseteq twice' /\ (Len(entries) < sent => Len(entries) \in twice')
      /\ \A i \in twice' : i \in twice \/ (i = Len(entries) /\ Len(entries) < sent)
      /\ sent <= sent' /\ sent' \in Nat
  BY <1>1, <1>2
<1>7. WriterTypeOK'
  <2>1. puts' \in Nat /\ sent' \in Nat /\ twice' \subseteq Nat
    BY <1>1, <1>2, <1>6 DEF WriterTypeOK
  <2> QED BY <1>1, <1>4, <1>5, <2>1 DEF WriterTypeOK
<1>8. Ids'
  <2>1. Len(entries') \in Nat /\ sent' <= Len(entries') + 1 /\ done <= sent'
    BY <1>1, <1>2, <1>5, <1>6
  <2>2. \A i \in twice' : i < sent'
    <3> SUFFICES ASSUME NEW i \in twice' PROVE i < sent'
      OBVIOUS
    <3>1. CASE i \in twice
      <4>1. i < sent /\ i \in Nat
        BY <3>1 DEF Ids, WriterTypeOK
      <4> QED BY <1>2, <1>6, <4>1
    <3>2. CASE i = Len(entries)
      BY <1>1, <1>2, <3>2
    <3> QED BY <1>6, <3>1, <3>2
  <2> QED BY <1>1, <2>1, <2>2 DEF Ids
<1>9. ASSUME NEW j \in JobType, Awaited(j) PROVE Awaited(j)' /\ Before(j, job)'
  <2>1. j.id \in Nat /\ j.put \in Nat /\ j.id < sent /\ j.put < puts
    BY <1>9 DEF Awaited, JobType
  <2>2. j.id <= Len(entries) /\ (j.id = Len(entries) => j.id \in twice')
    BY <1>2, <1>6, <2>1
  <2>3. j.id < sent' /\ j.put < puts'
    BY <1>1, <1>2, <1>6, <2>1
  <2>4. j.id < Len(entries') /\ j.id \notin twice' => j.put = entries'[j.id + 1]
    <3> SUFFICES ASSUME j.id < Len(entries'), j.id \notin twice' PROVE j.put = entries'[j.id + 1]
      OBVIOUS
    <3>1. j.id < Len(entries) /\ j.id \notin twice /\ j.id + 1 \in 1..Len(entries)
      <4>1. j.id # Len(entries) /\ j.id \notin twice
        BY <1>6, <2>2
      <4>2. j.id < Len(entries)
        BY <1>2, <2>1, <2>2, <4>1
      <4>3. j.id + 1 \in 1..Len(entries)
        BY <1>2, <2>1, <4>2
      <4> QED BY <4>1, <4>2, <4>3
    <3> QED BY <1>5, <1>9, <3>1 DEF Awaited
  <2>5. done <= j.id \/ (done = j.id + 1 /\ j.id \in twice')
    BY <1>6, <1>9 DEF Awaited
  <2>6. \A k \in 1..Len(index) :
          twice' = {} \/ (j.id \notin twice' /\ index[k].id = j.id) => index[k].put <= j.put
    BY <1>6, <1>9 DEF Awaited
  <2>7. Awaited(j)'
    BY <1>1, <2>3, <2>4, <2>5, <2>6 DEF Awaited
  <2>8. Before(j, job)'
    BY <1>3, <2>1, <2>2 DEF Before
  <2> QED BY <2>7, <2>8
<1>10. Awaited(job)'
  <2>1. job.id < sent' /\ job.put < puts'
    BY <1>1, <1>2, <1>3
  <2>2. done <= job.id \/ (done = job.id + 1 /\ job.id \in twice')
    BY <1>2, <1>3, <1>6
  <2>3. job.id < Len(entries') => job.put = entries'[job.id + 1]
    BY <1>2, <1>3, <1>5
  <2>4. \A k \in 1..Len(index) : index[k].put <= job.put
    BY <1>3 DEF Lines
  <2> QED BY <1>1, <2>1, <2>2, <2>3, <2>4 DEF Awaited
<1>11. InOrder'
  <2>1. ASSUME NEW k \in 1..Len(channel) PROVE Awaited(channel[k])' /\ Before(channel[k], job)'
    <3>1. channel[k] \in JobType /\ Awaited(channel[k])
      BY DEF WriterTypeOK, InOrder
    <3>2. PICK j \in JobType : j = channel[k] /\ Awaited(j)
      BY <3>1
    <3>3. Awaited(j)' /\ Before(j, job)'
      BY <1>9, <3>2
    <3>4. j = channel'[k]
      BY <1>4, <3>2
    <3> QED BY <3>2, <3>3, <3>4 DEF Awaited, Before
  <2>2. Busy => Awaited(writer.job)' /\ Before(writer.job, job)'
    <3> SUFFICES ASSUME Busy PROVE Awaited(writer.job)' /\ Before(writer.job, job)'
      OBVIOUS
    <3>1. PICK j \in JobType : j = writer.job /\ Awaited(j)
      BY DEF WriterTypeOK, InOrder
    <3>2. Awaited(j)' /\ Before(j, job)' /\ j = writer'.job
      BY <1>1, <1>9, <3>1
    <3> QED BY <3>2 DEF Awaited, Before
  <2>3. \A j, k \in 1..Len(channel) : j < k => Before(channel[j], channel[k])'
    BY <1>4, <1>6 DEF InOrder, Before
  <2>4. Busy => \A k \in 1..Len(channel) : Before(writer.job, channel[k])'
    BY <1>1, <1>4, <1>6 DEF InOrder, Before
  <2>5. \A k \in 1..Len(channel') : k \in 1..Len(channel) \/ (k = Len(channel) + 1 /\ channel'[k] = job)
    BY <1>4
  <2>6. \A k \in 1..Len(channel') : Awaited(channel[k])'
    BY <1>10, <2>1, <2>5 DEF Awaited
  <2>7. ASSUME NEW j \in 1..Len(channel'), NEW k \in 1..Len(channel'), j < k PROVE Before(channel[j], channel[k])'
    <3>1. j \in 1..Len(channel)
      BY <1>4, <2>7
    <3>2. CASE k \in 1..Len(channel)
      BY <2>3, <2>7, <3>1, <3>2
    <3>3. CASE k = Len(channel) + 1
      BY <1>4, <2>1, <3>1, <3>3 DEF Before
    <3> QED BY <2>5, <3>2, <3>3
  <2>8. Busy => \A k \in 1..Len(channel') : Before(writer.job, channel[k])'
    BY <2>2, <2>4, <2>5 DEF Before
  <2>9. Busy' <=> Busy
    BY <1>1 DEF Busy
  <2> QED BY <2>2, <2>6, <2>7, <2>8, <2>9 DEF InOrder
<1>12. Lines'
  <2>1. \A k \in 1..Len(index) : index[k].put <= puts' /\ index[k].id \in DOMAIN sidecars \cup cut
    <3>1. \A k \in 1..Len(index) : index[k].put \in Nat
      BY WriterTypes
    <3> QED BY <1>1, <1>2, <3>1 DEF Lines
  <2> QED
    BY <1>1, <1>6, <2>1 DEF Lines
<1>13. ASSUME NEW i \in Nat, Writing!Listed(i), i < done \/ i < Len(entries) \/ i < sent PROVE Writing!Listed(i)'
  <2>1. i < Len(entries') /\ i \notin twice' => i < Len(entries) /\ i \notin twice /\ entries'[i + 1] = entries[i + 1]
    <3> SUFFICES ASSUME i < Len(entries'), i \notin twice' PROVE i < Len(entries) /\ i \notin twice /\ entries'[i + 1] = entries[i + 1]
      OBVIOUS
    <3>1. i < Len(entries) /\ i \notin twice
      <4>1. i \notin twice /\ (i = Len(entries) => ~(Len(entries) < sent))
        BY <1>6
      <4>2. i < sent => i # Len(entries)
        BY <4>1
      <4>3. i < Len(entries) \/ i < sent
        BY <1>2, <1>13
      <4>4. i <= Len(entries)
        BY <1>2, <1>13, <4>3
      <4> QED BY <1>2, <4>1, <4>2, <4>3, <4>4
    <3>2. i + 1 \in 1..Len(entries)
      BY <1>2, <3>1
    <3> QED BY <1>5, <3>1, <3>2
  <2>2. Len(index) <= Len(index') /\ \A k \in 1..Len(index) : index'[k] = index[k]
    BY <1>1 DEF WriterTypeOK
  <2> QED BY <1>7, <1>13, <2>1, <2>2, ListedStays
<1>14. /\ \A i : Pending(i) => Pending(i)'
       /\ \A i : i = Len(entries) => Pending(i)'
  <2>1. Len(channel) + 1 \in 1..Len(channel') /\ \A k \in 1..Len(channel) : k \in 1..Len(channel')
    BY <1>4
  <2>2. Busy' <=> Busy
    BY <1>1 DEF Busy
  <2>3. \A k \in 1..Len(channel) : channel'[k].id = channel[k].id
    BY <1>4
  <2>4. channel'[Len(channel) + 1].id = Len(entries)
    BY <1>3, <1>4
  <2>5. ASSUME NEW i, Pending(i) PROVE Pending(i)'
    BY <1>1, <2>1, <2>2, <2>3, <2>5 DEF Pending
  <2>6. ASSUME NEW i, i = Len(entries) PROVE Pending(i)'
    BY <2>1, <2>4, <2>6 DEF Pending
  <2> QED BY <2>5, <2>6
<1>15. Kept'
  <2>1. \A i \in 0..(done' - 1) : Writing!Listed(i)'
    BY <1>1, <1>2, <1>13 DEF Kept
  <2>2. ASSUME NEW i \in Nat, i < Len(entries') \/ i < sent' PROVE Writing!Listed(i)' \/ failure' \/ Pending(i)'
    <3>1. CASE i = Len(entries)
      BY <1>14, <3>1
    <3>2. CASE i < Len(entries)
      BY <1>1, <1>13, <1>14, <3>2 DEF Kept
    <3> QED BY <1>1, <1>2, <1>5, <2>2, <3>1, <3>2
  <2>3. ASSUME NEW i \in 0..(Len(entries') - 1), i \notin twice'
        PROVE  (i \in DOMAIN streams' /\ streams'[i] = entries'[i + 1]) \/ failure' \/ Pending(i)'
    <3>1. CASE i = Len(entries)
      BY <1>14, <3>1
    <3>2. CASE i # Len(entries)
      <4>1. i \in 0..(Len(entries) - 1) /\ i \notin twice /\ i + 1 \in 1..Len(entries)
        <5>1. i \notin twice /\ i \in Nat /\ i < Len(entries)
          BY <1>2, <1>5, <1>6, <2>3, <3>2
        <5> QED BY <1>2, <5>1
      <4>2. entries'[i + 1] = entries[i + 1]
        BY <1>5, <4>1
      <4> QED BY <1>1, <1>14, <4>1, <4>2 DEF Kept
    <3> QED BY <3>1, <3>2
  <2> QED BY <2>1, <2>2, <2>3 DEF Kept
<1>16. Ordered'
  <2>1. writer.pc = "written" => Writing!Listed(writer.job.id)'
    <3> SUFFICES ASSUME writer.pc = "written" PROVE Writing!Listed(writer.job.id)'
      OBVIOUS
    <3>1. writer.job.id \in Nat /\ writer.job.id < sent /\ Writing!Listed(writer.job.id)
      BY DEF WriterTypeOK, JobType, InOrder, Busy, Awaited, Ordered
    <3>2. PICK i \in Nat : i = writer.job.id /\ i = writer'.job.id /\ Writing!Listed(i)'
      BY <1>1, <1>13, <3>1
    <3> QED BY <3>2 DEF Writing!Listed
  <2> QED
    BY <1>1, <1>6, <2>1 DEF Ordered
<1>17. Waits'
  BY <1>1 DEF Waits, Writing!Flushing
<1> QED BY <1>7, <1>8, <1>11, <1>12, <1>15, <1>16, <1>17

\* What the store's thread may rely on in a flush's writes.
LEMMA PackFacts ==
  ASSUME WriterInv, Writing!Flushing
  PROVE  /\ Writing!Pack.id = Len(entries) /\ Writing!Pack.put = puts
         /\ Len(entries) \in Nat /\ puts \in Nat /\ sent \in Nat /\ done \in Nat
         /\ \A job \in JobType :
              Awaited(job) /\ (Busy \/ channel # <<>>) =>
                Writing!LastSent \in twice /\ (job.id >= Len(entries) => job.id \in twice)
         /\ writer.pc # "exited"
         /\ caller.pc \in {"flush", "members", "pack", "sidecar"}
<1>1. Writing!Pack.id = Len(entries) /\ Writing!Pack.put = puts
  BY DEF Writing!Pack, Writing!Job
<1>2. Len(entries) \in Nat /\ puts \in Nat /\ sent \in Nat /\ done \in Nat
  BY DEF WriterInv, WriterTypeOK
<1>3. writer.pc # "exited" /\ caller.pc \in {"flush", "members", "pack", "sidecar"}
  BY DEF WriterInv, Ordered, Writing!Flushing
<1> QED BY <1>1, <1>2, <1>3, HandAndPack

LEMMA WritePackKeeps == ASSUME WriterInv, Writing!WritePack PROVE WriterInv'
<1> USE DEF WriterInv
<1>1. Writing!Flushing /\ UNCHANGED <<channel, done, failure, writer, entries, puts, sent, twice, cut>>
  BY DEF Writing!WritePack, Writing!Flushing, Writing!store
<1>2. /\ Writing!Pack.id = Len(entries) /\ Writing!Pack.put = puts
      /\ Len(entries) \in Nat /\ puts \in Nat /\ writer.pc # "exited"
      /\ \A job \in JobType :
           Awaited(job) /\ (Busy \/ channel # <<>>) =>
             Writing!LastSent \in twice /\ (job.id >= Len(entries) => job.id \in twice)
  BY <1>1, PackFacts
<1>3. caller' \in CallerType /\ caller'.pc \in {"members", "pack", "sidecar"}
  BY DEF Writing!WritePack, WriterTypeOK, CallerType
<1>4. Ids' /\ (Busy' <=> Busy) /\ \A i : Pending(i)' <=> Pending(i)
  BY <1>1 DEF Ids, Pending, Busy
<1>5. Busy => /\ writer.job \in JobType /\ Awaited(writer.job) /\ writer.job.id \in Nat
              /\ Writing!LastSent \in twice /\ (writer.job.id >= Len(entries) => writer.job.id \in twice)
  BY <1>2 DEF InOrder, WriterTypeOK, JobType
<1>6. Writing!LastSent \in twice \/ (~failure /\ channel = <<>> /\ writer.pc = "recv")
  BY <1>1 DEF Waits
<1>7. CASE caller.pc = "flush" /\ streams' = Writing!Put(streams, Writing!Pack)
           /\ caller' = [caller EXCEPT !.pc = "members"] /\ UNCHANGED <<sidecars, index>>
  <2>1. /\ DOMAIN streams' = DOMAIN streams \cup {Len(entries)}
        /\ streams'[Len(entries)] = puts
        /\ \A i \in DOMAIN streams : i # Len(entries) => streams'[i] = streams[i]
    BY <1>2, <1>7 DEF Writing!Put
  <2>2. caller'.pc = "members"
    BY <1>7 DEF WriterTypeOK, CallerType
  <2>3. WriterTypeOK'
    <3>1. \A i \in DOMAIN streams' : i \in Nat /\ streams'[i] \in Nat
      BY <1>2, <2>1 DEF WriterTypeOK
    <3> QED
      BY <1>1, <1>3, <1>7, <3>1 DEF WriterTypeOK
  <2>4. InOrder'
    BY <1>1, <1>4, <1>7 DEF InOrder, Awaited, Before
  <2>5. Lines'
    BY <1>1, <1>7, <2>1, <2>2 DEF Lines
  <2>6. \A i : Writing!Listed(i)' <=> Writing!Listed(i)
    BY <1>1, <1>7 DEF Writing!Listed
  <2>7. Kept'
    <3>1. \A i \in 0..(Len(entries) - 1) : i # Len(entries)
      BY <1>2
    <3> QED
      BY <1>1, <1>4, <2>1, <2>6, <3>1 DEF Kept
  <2>8. Ordered'
    <3>1. writer.pc \in {"sidecar", "line", "written"} =>
            /\ writer.job.id \in DOMAIN streams'
            /\ writer.job.id \notin twice => streams'[writer.job.id] = writer.job.put
      BY <1>2, <1>5, <2>1 DEF Ordered, Busy
    <3> QED
      BY <1>1, <1>2, <1>7, <2>6, <3>1 DEF Ordered
  <2>9. Waits'
    BY <1>1, <1>6, <2>1, <2>2 DEF Waits, Writing!Flushing, Writing!LastSent
  <2> QED BY <1>4, <2>3, <2>4, <2>5, <2>7, <2>8, <2>9
<1>8. CASE caller.pc \in {"members", "pack"} /\ index' = Append(index, Writing!Line(Writing!Pack, caller.pc = "pack"))
           /\ caller' = [caller EXCEPT !.pc = IF @ = "members" THEN "pack" ELSE "sidecar"]
           /\ UNCHANGED <<streams, sidecars>>
  <2>1. caller'.pc \in {"pack", "sidecar"} /\ (caller'.pc = "sidecar" => caller.pc = "pack")
    BY <1>8 DEF WriterTypeOK, CallerType
  <2>2. PICK l \in LineType : /\ l = Writing!Line(Writing!Pack, caller.pc = "pack")
                              /\ l.id = Len(entries) /\ l.put = puts /\ l.own = (caller.pc = "pack")
    <3>1. PICK own \in BOOLEAN : own = (caller.pc = "pack")
      OBVIOUS
    <3>2. Writing!Line(Writing!Pack, own) \in LineType
      BY <1>2 DEF Writing!Line, LineType
    <3>3. /\ Writing!Line(Writing!Pack, own).id = Len(entries) /\ Writing!Line(Writing!Pack, own).put = puts
          /\ Writing!Line(Writing!Pack, own).own = own
      BY <1>2 DEF Writing!Line
    <3> QED BY <3>1, <3>2, <3>3
  <2>3. /\ index' \in Seq(LineType) /\ Len(index') = Len(index) + 1 /\ Len(index) \in Nat
        /\ \A k \in 1..Len(index) : index'[k] = index[k]
        /\ index'[Len(index) + 1] = l
    <3>1. index \in Seq(LineType) /\ index' = Append(index, l)
      BY <1>8, <2>2 DEF WriterTypeOK
    <3> QED BY <3>1
  <2>4. WriterTypeOK'
    BY <1>1, <1>3, <1>8, <2>3 DEF WriterTypeOK
  <2>5. \A i \in Nat : Writing!Listed(i) => Writing!Listed(i)'
    BY <1>1, <2>3, <2>4, ListedStays
  <2>6. /\ Len(entries) \in DOMAIN streams
        /\ Len(entries) \notin twice => streams[Len(entries)] = puts
    BY <1>8 DEF Waits
  <2>7. ASSUME NEW j \in JobType, Awaited(j), Busy \/ channel # <<>> PROVE Awaited(j)'
    <3>1. twice # {} /\ j.id \in Nat /\ (j.id >= Len(entries) => j.id \in twice)
      BY <1>2, <2>7 DEF JobType
    <3>2. ASSUME NEW k \in 1..Len(index'), twice = {} \/ (j.id \notin twice /\ index'[k].id = j.id)
          PROVE  index'[k].put <= j.put
      <4>1. k \in 1..Len(index)
        BY <1>2, <2>2, <2>3, <3>1, <3>2
      <4> QED BY <2>3, <2>7, <3>2, <4>1 DEF Awaited
    <3> QED
      BY <1>1, <2>7, <3>2 DEF Awaited
  <2>8. InOrder'
    <3>1. ASSUME NEW k \in 1..Len(channel) PROVE Awaited(channel[k])'
      <4>1. PICK j \in JobType : j = channel[k] /\ Awaited(j) /\ channel # <<>>
        BY DEF InOrder, WriterTypeOK
      <4>2. Awaited(j)' /\ j = channel'[k]
        BY <1>1, <2>7, <4>1
      <4> QED BY <4>2 DEF Awaited
    <3>2. Busy => Awaited(writer.job)'
      <4> SUFFICES ASSUME Busy PROVE Awaited(writer.job)'
        OBVIOUS
      <4>1. PICK j \in JobType : j = writer.job /\ Awaited(j)
        BY <1>5
      <4>2. Awaited(j)' /\ j = writer'.job
        BY <1>1, <2>7, <4>1
      <4> QED BY <4>2 DEF Awaited
    <3> QED
      BY <1>1, <1>4, <3>1, <3>2 DEF InOrder, Before
  <2>9. Lines'
    <3>1. ASSUME NEW k \in 1..Len(index')
          PROVE  /\ index'[k].put <= puts
                 /\ index'[k].id \in DOMAIN streams
                 /\ index'[k].id \notin twice => index'[k].put <= streams[index'[k].id]
                 /\ index'[k].id \in DOMAIN sidecars \cup cut \/ index'[k].id = Len(entries)
      <4>1. CASE k \in 1..Len(index)
        BY <2>3, <4>1 DEF Lines
      <4>2. CASE k = Len(index) + 1
        BY <1>2, <2>2, <2>3, <2>6, <4>2
      <4> QED BY <2>3, <4>1, <4>2
    <3>2. ASSUME twice = {}, NEW k \in 2..Len(index') PROVE index'[k - 1].put <= index'[k].put
      <4>1. CASE k \in 2..Len(index)
        <5>1. k - 1 \in 1..Len(index) /\ k \in 1..Len(index)
          BY <4>1, <2>3
        <5> QED BY <2>3, <3>2, <4>1, <5>1 DEF Lines
      <4>2. CASE k = Len(index) + 1
        <5>1. k - 1 \in 1..Len(index') /\ index'[k].put = puts
          BY <2>2, <2>3, <4>2
        <5> QED BY <3>1, <5>1
      <4> QED BY <2>3, <4>1, <4>2
    <3> QED
      BY <1>1, <1>8, <2>1, <3>1, <3>2 DEF Lines
  <2>10. Kept'
    <3>1. \A i \in 0..(done - 1) : i \in Nat
      BY DEF WriterTypeOK
    <3> QED
      BY <1>1, <1>4, <1>8, <2>5, <3>1 DEF Kept
  <2>11. Ordered'
    BY <1>1, <1>2, <1>5, <1>8, <2>5 DEF Ordered, Busy
  <2>12. Waits'
    <3>1. caller'.pc = "sidecar" =>
            \E k \in 1..Len(index') : index'[k].own /\ index'[k].id = Len(entries) /\ index'[k].put = puts
      <4>1. Len(index) + 1 \in 1..Len(index')
        BY <2>3
      <4> QED BY <2>1, <2>2, <2>3, <4>1
    <3> QED
      BY <1>1, <1>6, <1>8, <2>1, <2>6, <3>1 DEF Waits, Writing!Flushing, Writing!LastSent
  <2> QED BY <1>4, <2>4, <2>8, <2>9, <2>10, <2>11, <2>12
<1> QED BY <1>7, <1>8 DEF Writing!WritePack

LEMMA FlushedKeeps == ASSUME WriterInv, Writing!Flushed PROVE WriterInv'
<1> USE DEF WriterInv
<1>1. /\ Writing!Flushing /\ caller.pc = "sidecar" /\ caller' = [caller EXCEPT !.pc = "idle", !.id = 0]
      /\ UNCHANGED <<channel, done, failure, writer, sent, twice, cut, streams, index>>
      /\ entries' = Append(entries, puts) /\ puts' = puts + 1 /\ sidecars' = Writing!Put(sidecars, Writing!Pack)
  BY DEF Writing!Flushed, Writing!Flushing, Writing!Return, Writing!At
<1>2. /\ Writing!Pack.id = Len(entries) /\ Writing!Pack.put = puts
      /\ Len(entries) \in Nat /\ puts \in Nat /\ sent \in Nat /\ done \in Nat /\ writer.pc # "exited"
      /\ \A job \in JobType :
           Awaited(job) /\ (Busy \/ channel # <<>>) =>
             Writing!LastSent \in twice /\ (job.id >= Len(entries) => job.id \in twice)
  BY <1>1, PackFacts
<1>3. caller' \in CallerType /\ caller'.pc = "idle"
  BY <1>1 DEF WriterTypeOK, CallerType
<1>4. /\ entries' \in Seq(Nat) /\ Len(entries') = Len(entries) + 1 /\ entries'[Len(entries) + 1] = puts
      /\ \A i \in 1..Len(entries) : entries'[i] = entries[i]
  <2>1. entries \in Seq(Nat) /\ entries' = Append(entries, puts) /\ puts \in Nat
    BY <1>1, <1>2 DEF WriterTypeOK
  <2> QED BY <2>1
<1>5. DOMAIN sidecars' = DOMAIN sidecars \cup {Len(entries)}
  BY <1>1, <1>2 DEF Writing!Put
<1>6. WriterTypeOK'
  BY <1>1, <1>2, <1>3, <1>4 DEF WriterTypeOK
<1>7. Ids'
  BY <1>1, <1>2, <1>4 DEF Ids
<1>8. (Busy' <=> Busy) /\ \A i : Pending(i)' <=> Pending(i)
  BY <1>1 DEF Pending, Busy
<1>9. ASSUME NEW j \in JobType, Awaited(j), Busy \/ channel # <<>> PROVE Awaited(j)'
  <2>1. j.id \in Nat /\ j.put \in Nat /\ j.put < puts' /\ (j.id >= Len(entries) => j.id \in twice)
    BY <1>1, <1>2, <1>9 DEF JobType, Awaited
  <2>2. j.id < Len(entries') /\ j.id \notin twice => j.put = entries'[j.id + 1]
    <3> SUFFICES ASSUME j.id < Len(entries'), j.id \notin twice PROVE j.put = entries'[j.id + 1]
      OBVIOUS
    <3>1. j.id < Len(entries) /\ j.id + 1 \in 1..Len(entries)
      BY <1>2, <2>1
    <3> QED BY <1>4, <1>9, <3>1 DEF Awaited
  <2> QED
    BY <1>1, <1>9, <2>1, <2>2 DEF Awaited
<1>10. InOrder'
  <2>1. ASSUME NEW k \in 1..Len(channel) PROVE Awaited(channel[k])'
    <3>1. PICK j \in JobType : j = channel[k] /\ Awaited(j) /\ channel # <<>>
      BY DEF InOrder, WriterTypeOK
    <3>2. Awaited(j)' /\ j = channel'[k]
      BY <1>1, <1>9, <3>1
    <3> QED BY <3>2 DEF Awaited
  <2>2. Busy => Awaited(writer.job)'
    <3> SUFFICES ASSUME Busy PROVE Awaited(writer.job)'
      OBVIOUS
    <3>1. PICK j \in JobType : j = writer.job /\ Awaited(j)
      BY DEF InOrder, WriterTypeOK
    <3>2. Awaited(j)' /\ j = writer'.job
      BY <1>1, <1>9, <3>1
    <3> QED BY <3>2 DEF Awaited
  <2> QED
    BY <1>1, <1>8, <2>1, <2>2 DEF InOrder, Before
<1>11. Lines'
  <2>1. \A k \in 1..Len(index) : index[k].put \in Nat
    BY WriterTypes
  <2>2. \A k \in 1..Len(index) : index[k].put <= puts' /\ index[k].id \in DOMAIN sidecars' \cup cut
    BY <1>1, <1>2, <1>5, <2>1 DEF Lines
  <2> QED
    BY <1>1, <2>2 DEF Lines
<1>12. PICK p \in 1..Len(index) : index[p].own /\ index[p].id = Len(entries) /\ index[p].put = puts
  BY <1>1 DEF Waits
<1>13. ASSUME NEW i \in Nat, i = Len(entries) \/ (i < Len(entries) /\ Writing!Listed(i)) PROVE Writing!Listed(i)'
  <2>1. CASE i = Len(entries)
    BY <1>1, <1>4, <1>12, <2>1 DEF Writing!Listed
  <2>2. CASE i < Len(entries) /\ Writing!Listed(i)
    <3>1. i + 1 \in 1..Len(entries)
      BY <1>2, <2>2
    <3>2. Len(index) <= Len(index') /\ \A k \in 1..Len(index) : index'[k] = index[k]
      BY <1>1 DEF WriterTypeOK
    <3>3. i \notin twice' => i \notin twice
      BY <1>1
    <3>4. entries'[i + 1] = entries[i + 1]
      BY <1>4, <3>1
    <3> QED BY <1>6, <2>2, <3>2, <3>3, <3>4, ListedStays
  <2> QED BY <1>13, <2>1, <2>2
<1>14. Kept'
  <2>1. ASSUME NEW i \in 0..(done - 1) PROVE Writing!Listed(i)'
    <3>1. i \in Nat /\ Writing!Listed(i) /\ (i = Len(entries) \/ i < Len(entries))
      BY <1>2 DEF Kept, Ids
    <3> QED BY <1>13, <3>1
  <2>2. ASSUME NEW i \in Nat, i < Len(entries') \/ i < sent PROVE Writing!Listed(i)' \/ failure \/ Pending(i)
    <3>1. i = Len(entries) \/ i < Len(entries)
      BY <1>2, <1>4, <2>2 DEF Ids
    <3> QED BY <1>13, <3>1 DEF Kept
  <2>3. ASSUME NEW i \in 0..(Len(entries') - 1), i \notin twice
        PROVE  (i \in DOMAIN streams /\ streams[i] = entries'[i + 1]) \/ failure \/ Pending(i)
    <3>1. CASE i = Len(entries)
      BY <1>1, <1>4, <2>3, <3>1 DEF Waits
    <3>2. CASE i # Len(entries)
      <4>1. i \in 0..(Len(entries) - 1) /\ i + 1 \in 1..Len(entries)
        BY <1>2, <1>4, <3>2
      <4>2. entries'[i + 1] = entries[i + 1]
        BY <1>4, <4>1
      <4> QED BY <2>3, <4>1, <4>2 DEF Kept
    <3> QED BY <3>1, <3>2
  <2> QED
    BY <1>1, <1>8, <2>1, <2>2, <2>3 DEF Kept
<1>15. Ordered'
  <2>1. writer.pc = "written" => Writing!Listed(writer.job.id)'
    <3> SUFFICES ASSUME writer.pc = "written" PROVE Writing!Listed(writer.job.id)'
      OBVIOUS
    <3>1. writer.job.id \in Nat /\ writer.job.id < sent /\ Writing!Listed(writer.job.id)
      BY DEF WriterTypeOK, JobType, InOrder, Busy, Awaited, Ordered
    <3>2. writer.job.id = Len(entries) \/ writer.job.id < Len(entries)
      BY <1>2, <3>1 DEF Ids
    <3>3. PICK i \in Nat : i = writer.job.id /\ i = writer'.job.id /\ Writing!Listed(i)'
      BY <1>1, <1>13, <3>1, <3>2
    <3> QED BY <3>3 DEF Writing!Listed
  <2> QED
    BY <1>1, <1>2, <1>5, <2>1 DEF Ordered
<1>16. Waits'
  BY <1>3 DEF Waits, Writing!Flushing
<1> QED BY <1>6, <1>7, <1>10, <1>11, <1>14, <1>15, <1>16

LEMMA FlushFailsKeeps == ASSUME WriterInv, Writing!FlushFails PROVE WriterInv'
<1> USE DEF WriterInv
<1>1. /\ Writing!Flushing /\ caller' = [caller EXCEPT !.pc = "idle", !.id = 0] /\ puts' = puts + 1
      /\ UNCHANGED <<channel, done, failure, writer, sent, entries, twice, streams, sidecars, index>>
      /\ cut' = IF caller.pc \in {"pack", "sidecar"} THEN cut \cup {Writing!Pack.id} ELSE cut
  BY DEF Writing!FlushFails, Writing!Return, Writing!At, Writing!disk
<1>2. Writing!Pack.id = Len(entries) /\ puts \in Nat /\ writer.pc # "exited"
  BY <1>1, PackFacts
<1>3. caller' \in CallerType /\ caller'.pc = "idle" /\ puts' \in Nat
  <2>1. caller \in CallerType
    BY DEF WriterTypeOK
  <2>2. caller' \in CallerType /\ caller'.pc = "idle"
    BY <1>1, <2>1 DEF CallerType
  <2> QED BY <1>1, <1>2, <2>2
<1>4. WriterTypeOK'
  BY <1>1, <1>3 DEF WriterTypeOK
<1>5. Ids'
  BY <1>1 DEF Ids
<1>6. ASSUME NEW j \in JobType, Awaited(j) PROVE Awaited(j)'
  <2>1. j.put < puts'
    BY <1>1, <1>2, <1>6 DEF Awaited, JobType
  <2> QED
    BY <1>1, <1>6, <2>1 DEF Awaited
<1>7. InOrder'
  <2>1. \A k \in 1..Len(channel) : channel[k] \in JobType /\ Awaited(channel[k])
    BY DEF InOrder, WriterTypeOK
  <2>2. ASSUME NEW k \in 1..Len(channel) PROVE Awaited(channel[k])'
    <3>1. PICK j \in JobType : j = channel[k] /\ Awaited(j)
      BY <2>1
    <3>2. Awaited(j)' /\ j = channel'[k]
      BY <1>1, <1>6, <3>1
    <3> QED BY <3>2 DEF Awaited
  <2>3. Busy => Awaited(writer.job)'
    <3> SUFFICES ASSUME Busy PROVE Awaited(writer.job)'
      OBVIOUS
    <3>1. PICK j \in JobType : j = writer.job /\ Awaited(j)
      BY DEF InOrder, WriterTypeOK
    <3>2. Awaited(j)' /\ j = writer'.job
      BY <1>1, <1>6, <3>1
    <3> QED BY <3>2 DEF Awaited
  <2> QED
    BY <1>1, <2>2, <2>3 DEF InOrder, Before, Busy
<1>8. Lines'
  <2>1. \A k \in 1..Len(index) : index[k].put \in Nat
    BY WriterTypes
  <2>2. \A k \in 1..Len(index) : index[k].put <= puts' /\ index[k].id \in DOMAIN sidecars \cup cut'
    BY <1>1, <1>2, <2>1 DEF Lines
  <2> QED
    BY <1>1, <2>2 DEF Lines
<1>9. Kept'
  BY <1>1 DEF Kept, Pending, Busy, Writing!Listed
<1>10. Ordered'
  BY <1>1, <1>2 DEF Ordered, Writing!Listed
<1>11. Waits'
  BY <1>3 DEF Waits, Writing!Flushing
<1> QED BY <1>4, <1>5, <1>7, <1>8, <1>9, <1>10, <1>11

LEMMA FlushKeeps == ASSUME WriterInv, Writing!Flush PROVE WriterInv'
BY WritePackKeeps, FlushedKeeps, FlushFailsKeeps DEF Writing!Flush

-----------------------------------------------------------------------------
(* The theorems.                                                           *)

LEMMA WriterNextKeeps == ASSUME WriterInv, Writing!Next PROVE WriterInv'
<1>1. CASE Writing!WriterThread
  BY <1>1, RecvKeeps, WriteKeeps, UpdateKeeps, ExitKeeps DEF Writing!WriterThread
<1>2. CASE Writing!Call
  BY <1>2, SentKeeps, CheckKeeps, ReturnsKeep, FlushKeeps DEF Writing!Call
<1>3. CASE Writing!Send \/ Writing!StartRead \/ Writing!StartFlush \/ Writing!Spurious \/ Writing!Drop
  BY <1>3, SendKeeps, StartReadKeeps, StartFlushKeeps, ReturnsKeep
<1> QED BY <1>1, <1>2, <1>3 DEF Writing!Next

LEMMA WriterRests == ASSUME WriterInv, UNCHANGED ofWriter PROVE WriterInv'
<1> USE DEF ofWriter, WriterInv
<1>1. WriterTypeOK' /\ Ids' /\ Lines'
  BY DEF WriterTypeOK, Ids, Lines
<1>2. InOrder'
  BY DEF InOrder, Awaited, Before, Busy
<1>3. Kept'
  BY DEF Kept, Pending, Busy, Writing!Listed
<1>4. Ordered' /\ Waits'
  BY DEF Ordered, Waits, Writing!Listed, Writing!Flushing, Writing!LastSent
<1> QED BY <1>1, <1>2, <1>3, <1>4

\* A step of the parts is one of the writer's, or leaves the writer alone.
LEMMA StepsOfWriter == [Next]_vars => [Writing!Next]_ofWriter
BY DEF Next, vars, InWriter, InSinks, ofWriter

\* The ids, the channel, the disk and both threads stay in step, whatever fails.
THEOREM WriterInvariant == Spec => []WriterInv
<1>1. Init => WriterInv
  BY WriterInitOK DEF Init
<1>2. WriterInv /\ [Next]_vars => WriterInv'
  BY StepsOfWriter, WriterNextKeeps, WriterRests
<1> QED BY <1>1, <1>2, PTL DEF Spec

\* `wait_for`: an object waited for is in the backend when the wait ends, under its own id, and
\* is its entry's unless a put that failed had sent the id before; `wait_all`: when the store
\* writes a stream itself, nothing sent is unwritten, unless the last id sent was sent twice.
THEOREM WaitedObjectsAreWritten == Spec => []WaitedIsWritten
<1>1. WriterInv => WaitedIsWritten
  <2> SUFFICES ASSUME WriterInv PROVE WaitedIsWritten
    OBVIOUS
  <2>1. Writing!WaitedIsWritten
    BY DEF WriterInv, Waits, Writing!WaitedIsWritten
  <2>2. ASSUME Writing!Flushing, Writing!LastSent \notin twice
        PROVE  channel = <<>> /\ writer.pc = "recv" /\ \A i \in 0..(Len(entries) - 1) : Writing!Listed(i)
    <3>1. ~failure /\ channel = <<>> /\ writer.pc = "recv"
      BY <2>2 DEF WriterInv, Waits
    <3>2. \A i : ~Pending(i)
      BY <3>1 DEF Pending, Busy
    <3>3. \A i \in 0..(Len(entries) - 1) : i \in Nat /\ i < Len(entries)
      BY DEF WriterInv, WriterTypeOK
    <3> QED BY <3>1, <3>2, <3>3 DEF WriterInv, Kept
  <2> QED BY <2>1, <2>2 DEF WaitedIsWritten, Writing!AllWritten
<1> QED BY <1>1, WriterInvariant, PTL

\* The index lists every object below `done` by a line of its own, the lines in the order of
\* the puts, each with a stream no older than it and with a sidecar; what is left out is named:
\* the pack of a flush that failed between its lines and its sidecar, and the ids sent twice.
THEOREM IndexIsComplete == Spec => []IndexComplete
<1>1. WriterInv => IndexComplete
  <2> SUFFICES ASSUME WriterInv PROVE Writing!IndexComplete
    BY DEF IndexComplete
  <2>1. ASSUME NEW k \in 1..Len(index)
        PROVE  /\ index[k].id \in DOMAIN streams
               /\ index[k].id \notin twice => streams[index[k].id] >= index[k].put
               /\ index[k].id \in DOMAIN sidecars \cup cut \/ (Writing!Flushing /\ index[k].id = Writing!Pack.id)
    <3>1. index[k].id \in DOMAIN streams /\ (index[k].id \notin twice => index[k].put <= streams[index[k].id])
      BY DEF WriterInv, Lines
    <3>2. index[k].put \in Nat /\ streams[index[k].id] \in Nat
      BY <3>1, WriterTypes DEF WriterInv, WriterTypeOK
    <3>3. index[k].id \in DOMAIN sidecars \cup cut \/ (Writing!Flushing /\ index[k].id = Writing!Pack.id)
      BY DEF WriterInv, Lines, Writing!Flushing, Writing!Pack, Writing!Job
    <3>4. index[k].id \notin twice => streams[index[k].id] >= index[k].put
      BY <3>1, <3>2
    <3> QED BY <3>1, <3>3, <3>4
  <2>2. \A i \in 0..(done - 1) : Writing!Listed(i)
    BY DEF WriterInv, Kept
  <2>3. twice = {} => \A k \in 2..Len(index) : index[k - 1].put <= index[k].put
    BY DEF WriterInv, Lines
  <2> QED BY <2>1, <2>2, <2>3 DEF Writing!IndexComplete
<1> QED BY <1>1, WriterInvariant, PTL

\* "The first failure stops the rest (none of them reaches the index)": after the thread's first
\* failure nothing is written, but for a flush let go on by the first job of an id sent twice.
THEOREM FailureStopsTheRest == Spec => FailureStops
<1>1. WriterInv /\ [Next]_vars =>
        (failure => UNCHANGED <<streams, sidecars, index>> \/ (Writing!Flushing /\ Writing!LastSent \in twice))
  <2> SUFFICES ASSUME WriterInv, failure, [Writing!Next]_ofWriter, ~(Writing!Flushing /\ Writing!LastSent \in twice)
               PROVE  UNCHANGED <<streams, sidecars, index>>
    BY StepsOfWriter
  <2>1. ~Writing!Write
    BY WriteCases DEF WriterInv, Ordered, Wrote
  <2>2. ~Writing!Flush
    BY DEF WriterInv, Waits, Writing!Flush, Writing!WritePack, Writing!Flushed, Writing!FlushFails, Writing!Flushing
  <2>3. CASE Writing!Next
    BY <2>1, <2>2, <2>3 DEF Writing!Next, Writing!WriterThread, Writing!Call, Writing!Recv, Writing!Update, Writing!Exit,
      Writing!Sent, Writing!Check, Writing!Read, Writing!Joined, Writing!Send, Writing!StartRead, Writing!StartFlush,
      Writing!WaitFor, Writing!Spurious, Writing!Drop, Writing!disk
  <2> QED BY <2>3 DEF ofWriter
<1>2. WriterInv /\ [Next]_vars =>
        [failure => UNCHANGED <<streams, sidecars, index>> \/ (Writing!Flushing /\ Writing!LastSent \in twice)]_(Writing!vars)
  BY <1>1
<1>3. FailureStops <=>
        [][failure => UNCHANGED <<streams, sidecars, index>> \/ (Writing!Flushing /\ Writing!LastSent \in twice)]_(Writing!vars)
  BY DEF FailureStops, Writing!FailureStops, Writing!disk
<1> QED BY <1>2, <1>3, WriterInvariant, PTL DEF Spec

=============================================================================
