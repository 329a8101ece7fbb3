----------------------------- MODULE S3Download -----------------------------
(***************************************************************************)
(* S3Backend::read of src/glyd-store/src/s3.rs: the first range of an      *)
(* object says its size and version (ETag); several threads ask for the    *)
(* other ranges of that version.  Meanwhile the object may be written      *)
(* again, by a rebase of another process on the bucket, say.  The service  *)
(* is external.                                                            *)
(***************************************************************************)
EXTENDS Naturals, Sequences

CONSTANTS
  Thread,
  Pieces,       \* ranges of the object
  MaxVersions   \* bound: times it is written

S3DownloadAssumption == Thread # {} /\ Pieces \in Nat \ {0} /\ MaxVersions \in Nat \ {0}

VARIABLES
  version,  \* the version in the bucket
  phase,    \* where read is
  etag,     \* the version of the first range: 0 where the service named none
  pieces,   \* the ranges no thread has taken: the last is taken first
  piece,    \* the range each thread is at: 0 for none, and that it stopped
  out,      \* the version of each range's bytes: 0 where there are none
  failed,   \* whether a range failed
  returned  \* what read returned

vars == <<version, phase, etag, pieces, piece, out, failed, returned>>

Overwrite ==
  /\ version < MaxVersions
  /\ version' = version + 1
  /\ UNCHANGED <<phase, etag, pieces, piece, out, failed, returned>>

First ==
  /\ phase = "first"
  /\ \/ /\ etag' \in {version, 0} /\ out' = [out EXCEPT ![1] = version]
        /\ pieces' = [k \in 1..(Pieces - 1) |-> k + 1]
        /\ IF Pieces = 1 THEN phase' = "returned" /\ returned' = "ok"
           ELSE phase' = "rest" /\ UNCHANGED returned
     \/ phase' = "returned" /\ returned' = "err" /\ UNCHANGED <<etag, out, pieces>>
  /\ UNCHANGED <<version, piece, failed>>

Stopped == Pieces + 1

Pop(t) ==
  /\ phase = "rest" /\ piece[t] = 0
  /\ IF pieces = <<>> THEN piece' = [piece EXCEPT ![t] = Stopped] /\ UNCHANGED pieces
     ELSE /\ piece' = [piece EXCEPT ![t] = pieces[Len(pieces)]]
          /\ pieces' = SubSeq(pieces, 1, Len(pieces) - 1)
  /\ UNCHANGED <<version, phase, etag, out, failed, returned>>

\* if-match, sent with an ETag that is not empty
Matches_any == TRUE
Matches == etag = 0 \/ version = etag

Get(t) ==
  /\ phase = "rest" /\ piece[t] \in 2..Pieces
  /\ \/ /\ Matches
        /\ out' = [out EXCEPT ![piece[t]] = version]
        /\ piece' = [piece EXCEPT ![t] = 0]
        /\ UNCHANGED failed
     \/ failed' = TRUE /\ piece' = [piece EXCEPT ![t] = Stopped] /\ UNCHANGED out
  /\ UNCHANGED <<version, phase, etag, pieces, returned>>

Joined ==
  /\ phase = "rest" /\ \A t \in Thread : piece[t] = Stopped
  /\ phase' = "returned"
  /\ returned' = IF failed THEN "err" ELSE "ok"
  /\ UNCHANGED <<version, etag, pieces, piece, out, failed>>

Init ==
  /\ version = 1 /\ phase = "first" /\ etag = 0 /\ pieces = <<>>
  /\ piece = [t \in Thread |-> 0] /\ out = [i \in 1..Pieces |-> 0]
  /\ failed = FALSE /\ returned = "no"

Work(t) == Pop(t) \/ Get(t)

Next == Overwrite \/ First \/ (\E t \in Thread : Work(t)) \/ Joined

Spec == Init /\ [][Next]_vars

-----------------------------------------------------------------------------
(* Properties.                                                             *)

\* "Each asking for the same version": what read returns is every range of one
\* version of the object, when the service named the first one's.
OneVersion ==
  returned = "ok" /\ etag # 0 => \E v \in 1..MaxVersions : \A i \in 1..Pieces : out[i] = v

=============================================================================
