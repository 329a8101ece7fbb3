------------------------------- MODULE Writer -------------------------------
(***************************************************************************)
(* The store's writer thread (Writer in src/glyd-store/src/lib.rs): a      *)
(* bounded channel of jobs, a mutex with how far the writing is and its    *)
(* first failure, and a condition variable the store's thread waits on.    *)
(*                                                                         *)
(* A job is the put it carries.  Each critical section is one step, as is  *)
(* each write of a job and of a flush.  Any write may fail, and so may     *)
(* what a put does between the send of its job and its entry: the id is    *)
(* then given again.                                                       *)
(***************************************************************************)
EXTENDS Naturals, Sequences

CONSTANTS
  CHANNEL,     \* jobs the channel holds
  MaxPuts      \* bound: puts a run makes, the flushes among them

WriterAssumption == CHANNEL \in Nat /\ MaxPuts \in Nat

VARIABLES
  channel,   \* jobs sent and not received
  done,      \* state.0: every id sent below this is written
  failure,   \* state.1 is Some
  sent,      \* one past the last id sent
  writer,    \* the thread: where it is, its job, and `failed` as it read it
  caller,    \* the store's thread: where it is in which call
  entries,   \* the put each id was given to
  puts,      \* puts tried so far
  streams,   \* the put whose stream the backend has under each id
  sidecars,  \* likewise its sidecar
  index,     \* the lines of the index: the object needed, its put, and whether it is its own
  twice,     \* history: the ids sent again after a put that failed
  cut        \* history: the ids of packs whose flush failed between two of its lines' writes

store == <<entries, puts, sent, twice, cut>>
disk == <<streams, sidecars, index>>
vars == <<channel, done, failure, writer, caller, store, disk>>

NoJob == [id |-> 0, put |-> 0]
Job(id, put) == [id |-> id, put |-> put]

\* An object's own line, or a pack's member's: what the line says is in the job's stream.
Line(job, own) == [id |-> job.id, put |-> job.put, own |-> own]

-----------------------------------------------------------------------------
(* The thread.                                                             *)

failed_ignored == FALSE
failed == failure

Recv ==
  /\ writer.pc = "recv"
  /\ channel # <<>>
  /\ channel' = Tail(channel)
  /\ writer' = [pc |-> IF failed THEN "skip" ELSE "object", job |-> Head(channel)]
  /\ UNCHANGED <<done, failure, caller, store, disk>>

Put(f, job) ==
  [i \in DOMAIN f \cup {job.id} |-> IF i = job.id THEN job.put ELSE f[i]]

After_line == [object |-> "line", line |-> "sidecar", sidecar |-> "written"]
After == [object |-> "sidecar", sidecar |-> "line", line |-> "written"]

\* A write that succeeds leads to the next; one that fails, to the update.
Then(ok) == writer' = [writer EXCEPT !.pc = IF ok THEN After[@] ELSE "failed"]

Write ==
  /\ \E ok \in BOOLEAN :
       \/ /\ writer.pc = "object"
          /\ streams' = IF ok THEN Put(streams, writer.job) ELSE streams
          /\ Then(ok)
          /\ UNCHANGED <<sidecars, index>>
       \/ /\ writer.pc = "sidecar"
          /\ sidecars' = IF ok THEN Put(sidecars, writer.job) ELSE sidecars
          /\ Then(ok)
          /\ UNCHANGED <<streams, index>>
       \/ /\ writer.pc = "line"
          /\ index' = IF ok THEN Append(index, Line(writer.job, TRUE)) ELSE index
          /\ Then(ok)
          /\ UNCHANGED <<streams, sidecars>>
  /\ UNCHANGED <<channel, done, failure, caller, store>>

Notified_none(c) == c
Notified(c) == IF c.pc = "waiting" THEN [c EXCEPT !.pc = "check"] ELSE c

Advance(job) == job.id + 1

\* The mutex taken, the outcome recorded, every waiter woken.
Update ==
  /\ writer.pc \in {"written", "failed", "skip"}
  /\ failure' = (failure \/ writer.pc = "failed")
  /\ done' = IF writer.pc # "failed" /\ ~failure THEN Advance(writer.job) ELSE done
  /\ caller' = Notified(caller)
  /\ writer' = [writer EXCEPT !.pc = "recv"]
  /\ UNCHANGED <<channel, store, disk>>

\* The channel is closed and empty: the loop over it ends.
Exit ==
  /\ writer.pc = "recv"
  /\ caller.pc = "joining"
  /\ channel = <<>>
  /\ writer' = [writer EXCEPT !.pc = "exited"]
  /\ UNCHANGED <<channel, done, failure, caller, store, disk>>

-----------------------------------------------------------------------------
(* The store's thread.                                                     *)

At(pc, id) == caller' = [caller EXCEPT !.pc = pc, !.id = id]
Return == At("idle", 0)

\* `send`: the failure first, then the channel, full or not.
Send ==
  /\ caller.pc = "idle"
  /\ puts < MaxPuts
  /\ ~failure
  /\ At("sending", Len(entries))
  /\ UNCHANGED <<channel, done, failure, writer, store, disk>>

Room == Len(channel) < CHANNEL

\* Room in the channel; then the fingerprints go into the table, whose
\* growth may fail, and only then is the entry there.
Sent ==
  /\ caller.pc = "sending"
  /\ Room
  /\ channel' = Append(channel, Job(caller.id, puts))
  /\ puts' = puts + 1
  /\ sent' = caller.id + 1
  /\ twice' = IF caller.id < sent THEN twice \cup {caller.id} ELSE twice
  /\ entries' = Append(entries, puts) \/ entries' = entries
  /\ Return
  /\ UNCHANGED <<done, failure, writer, disk, cut>>

Behind_by_one(id) == done < id
Behind(id) == done <= id

\* `wait_for`: an id not sent here is not waited for.
WaitFor(id, then) ==
  /\ caller' = [pc |-> IF id < sent THEN "check" ELSE IF failure THEN "idle" ELSE then,
                id |-> id, then |-> then]
  /\ UNCHANGED <<channel, done, failure, writer, store, disk>>

LastSent == IF sent = 0 THEN 0 ELSE sent - 1

\* A read of an object waits for it; an operation that writes a stream
\* itself (flush here), for everything sent: `wait_all`.
StartRead == caller.pc = "idle" /\ \E id \in 0..(Len(entries) - 1) : WaitFor(id, "read")
StartFlush ==
  /\ caller.pc = "idle"
  /\ puts < MaxPuts
  /\ WaitFor(LastSent, "flush")

\* The loop's condition under the mutex; `wait` gives the mutex up as it
\* starts to wait.
Check ==
  /\ caller.pc = "check"
  /\ caller' = [caller EXCEPT !.pc = IF Behind(caller.id) /\ ~failure THEN "waiting"
                                    ELSE IF failure THEN "idle" ELSE caller.then]
  /\ UNCHANGED <<channel, done, failure, writer, store, disk>>

\* A condition variable may wake with nothing to wake it.
Spurious ==
  /\ caller.pc = "waiting"
  /\ caller' = [caller EXCEPT !.pc = "check"]
  /\ UNCHANGED <<channel, done, failure, writer, store, disk>>

\* The read the wait was for.
Read ==
  /\ caller.pc = "read"
  /\ Return
  /\ UNCHANGED <<channel, done, failure, writer, store, disk>>

\* A flush's writes, in their order: the pack's stream, its members' lines
\* (one stands for them), its own line, its sidecar; then its entry.
Flushing == caller.pc \in {"flush", "members", "pack", "sidecar"}
Pack == Job(Len(entries), puts)

WritePack ==
  /\ \/ /\ caller.pc = "flush"
        /\ streams' = Put(streams, Pack)
        /\ caller' = [caller EXCEPT !.pc = "members"]
        /\ UNCHANGED <<sidecars, index>>
     \/ /\ caller.pc \in {"members", "pack"}
        /\ index' = Append(index, Line(Pack, caller.pc = "pack"))
        /\ caller' = [caller EXCEPT !.pc = IF @ = "members" THEN "pack" ELSE "sidecar"]
        /\ UNCHANGED <<streams, sidecars>>
  /\ UNCHANGED <<channel, done, failure, writer, store>>

Flushed ==
  /\ caller.pc = "sidecar"
  /\ sidecars' = Put(sidecars, Pack)
  /\ entries' = Append(entries, puts)
  /\ puts' = puts + 1
  /\ Return
  /\ UNCHANGED <<channel, done, failure, sent, writer, streams, index, twice, cut>>

\* A write fails: what is written stays, and nothing else says so.
FlushFails ==
  /\ Flushing
  /\ puts' = puts + 1
  /\ cut' = IF caller.pc \in {"pack", "sidecar"} THEN cut \cup {Pack.id} ELSE cut
  /\ Return
  /\ UNCHANGED <<channel, done, failure, sent, writer, entries, disk, twice>>

Flush == WritePack \/ Flushed \/ FlushFails

\* Writer::drop: the channel is closed, then the thread joined.
Drop ==
  /\ caller.pc = "idle"
  /\ At("joining", 0)
  /\ UNCHANGED <<channel, done, failure, writer, store, disk>>

Joined ==
  /\ caller.pc = "joining"
  /\ writer.pc = "exited"
  /\ At("dropped", 0)
  /\ UNCHANGED <<channel, done, failure, writer, store, disk>>

Init ==
  /\ channel = <<>> /\ done = 0 /\ failure = FALSE /\ sent = 0
  /\ writer = [pc |-> "recv", job |-> NoJob]
  /\ caller = [pc |-> "idle", id |-> 0, then |-> "read"]
  /\ entries = <<>> /\ puts = 0
  /\ streams = [i \in {} |-> 0] /\ sidecars = [i \in {} |-> 0] /\ index = <<>>
  /\ twice = {} /\ cut = {}

WriterThread == Recv \/ Write \/ Update \/ Exit
Call == Sent \/ Check \/ Read \/ Flush \/ Joined
Next == WriterThread \/ Call \/ Send \/ StartRead \/ StartFlush \/ Spurious \/ Drop

\* Threads that can run do; nothing says the store makes another call, or
\* that a wait wakes by itself.
Spec == Init /\ [][Next]_vars /\ WF_vars(WriterThread) /\ WF_vars(Call)

-----------------------------------------------------------------------------
(* Properties.                                                             *)

\* `wait_for`: "Once `id` is written, when it was sent here".  What is then
\* read is the stream of the object the entry is about, unless a put that
\* failed had sent the id before: then it may still be that put's.
WaitedIsWritten ==
  caller.pc = "read" =>
    /\ caller.id \in DOMAIN streams
    /\ caller.id \notin twice => streams[caller.id] = entries[caller.id + 1]

\* The index has the object's own line, of the put its entry is about.
Listed(i) ==
  \E k \in 1..Len(index) :
    /\ index[k].own /\ index[k].id = i
    /\ i < Len(entries) /\ i \notin twice => index[k].put = entries[i + 1]

\* `wait_all`: "Once everything sent is written".  No stream of the thread
\* lands on or after one the store writes itself, unless the last id sent
\* was sent twice: its first job ends the wait.
AllWritten ==
  Flushing /\ LastSent \notin twice =>
    /\ channel = <<>> /\ writer.pc = "recv"
    /\ \A i \in 0..(Len(entries) - 1) : Listed(i)

\* The stream a line needs is there and no older than the line; its sidecar
\* is there too, but for a pack's whose flush failed before it, or is still
\* to write it.  The lines of every id below `done` are there, and in the
\* order of the puts.
IndexComplete ==
  /\ \A k \in 1..Len(index) :
       /\ index[k].id \in DOMAIN streams
       /\ index[k].id \notin twice => streams[index[k].id] >= index[k].put
       /\ index[k].id \in DOMAIN sidecars \cup cut \/ (Flushing /\ index[k].id = Pack.id)
  /\ \A i \in 0..(done - 1) : Listed(i)
  /\ twice = {} => \A k \in 2..Len(index) : index[k - 1].put <= index[k].put

\* "The first failure stops the rest (none of them reaches the index)"; only
\* a flush that a first job of an id sent twice let go on may write after it.
FailureStops == [][failure => UNCHANGED disk \/ (Flushing /\ LastSent \in twice)]_vars

\* WaitedIsWritten and a part of IndexComplete without their exceptions, which the code
\* breaks (README): a put that failed, and a flush that failed, leave what they wrote.
WaitedIsOwn == caller.pc = "read" => caller.id \in DOMAIN streams /\ streams[caller.id] = entries[caller.id + 1]
LinesHaveSidecars ==
  \A k \in 1..Len(index) : index[k].id \in DOMAIN sidecars \/ (Flushing /\ index[k].id = Pack.id)

\* Every call returns, the last one (drop) included: no wakeup is lost, a
\* failure wakes who waits for an id that will never be written, and a full
\* channel drains.
CallsReturn == caller.pc \notin {"idle", "dropped"} ~> caller.pc \in {"idle", "dropped"}

=============================================================================
