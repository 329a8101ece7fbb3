------------------------------ MODULE S3Upload ------------------------------
(***************************************************************************)
(* write_parts of src/glyd-store/src/s3.rs: a multipart upload created,    *)
(* its pieces put by several threads, then completed, or aborted.          *)
(*                                                                         *)
(* A request ends answered 200, refused, or given up after its attempts    *)
(* (S3Request), the service having done it or not.  The service is         *)
(* external.                                                               *)
(***************************************************************************)
EXTENDS Naturals, FiniteSets

CONSTANTS
  Thread,
  Pieces  \* pieces of the object

S3UploadAssumption == Pieces \in Nat \ {0}

VARIABLES
  phase,    \* where write_parts is
  next,     \* the counter the threads take pieces from
  piece,    \* the piece each thread is at: 0 for none
  etags,    \* each piece: "none", "ok" or "failed"
  upload,   \* the service's upload: "none", "open", "completed" or "aborted"
  parts,    \* the parts it holds
  object,   \* the parts of the object, when it has one
  unanswered,  \* history: whether the completion or the abort was given up
  returned  \* what write_parts returned

service == <<upload, parts, object>>
vars == <<phase, next, piece, etags, service, unanswered, returned>>

Return(r) == phase' = "returned" /\ returned' = r

create ==
  /\ phase = "create"
  /\ \/ phase' = "pieces" /\ upload' = "open" /\ UNCHANGED returned
     \/ Return("err") /\ upload' \in {"none", "open"}
  /\ UNCHANGED <<next, piece, etags, parts, object, unanswered>>

Take(t) ==
  /\ phase = "pieces" /\ piece[t] = 0 /\ next <= Pieces
  /\ piece' = [piece EXCEPT ![t] = next]
  /\ next' = next + 1
  /\ UNCHANGED <<phase, etags, service, unanswered, returned>>

Put(t) ==
  /\ phase = "pieces" /\ piece[t] # 0
  /\ \/ parts' = parts \cup {piece[t]} /\ etags' = [etags EXCEPT ![piece[t]] = "ok"]
     \/ parts' \in {parts, parts \cup {piece[t]}} /\ etags' = [etags EXCEPT ![piece[t]] = "failed"]
  /\ piece' = [piece EXCEPT ![t] = 0]
  /\ UNCHANGED <<phase, next, upload, object, unanswered, returned>>

AnyFailed_first == etags[1] = "failed"
AnyFailed == \E i \in 1..Pieces : etags[i] = "failed"

Joined ==
  /\ phase = "pieces" /\ next > Pieces /\ \A t \in Thread : piece[t] = 0
  /\ phase' = IF AnyFailed THEN "abort" ELSE "complete"
  /\ UNCHANGED <<next, piece, etags, service, unanswered, returned>>

\* The service takes the parts it was sent for the object.
Completed == upload' = "completed" /\ object' = parts /\ parts' = {}

Refusal_return == Return("err")
Refusal == phase' = "abort" /\ UNCHANGED returned

\* Answered 200; refused, or answered 200 with an error in the body, or
\* refused as done already, where the first attempt's answer was lost; or
\* given up, which returns there and then.
complete ==
  /\ phase = "complete"
  /\ \/ Completed /\ Return("ok") /\ UNCHANGED unanswered
     \/ (Completed \/ UNCHANGED service) /\ Refusal /\ UNCHANGED unanswered
     \/ /\ (Completed \/ UNCHANGED service)
        /\ Return("err") /\ unanswered' = TRUE
  /\ UNCHANGED <<next, piece, etags>>

\* The answer to the abort is not looked at.
abort ==
  /\ phase = "abort"
  /\ \/ /\ upload' = IF upload = "open" THEN "aborted" ELSE upload
        /\ parts' = {} /\ UNCHANGED unanswered
     \/ UNCHANGED <<upload, parts>> /\ unanswered' = TRUE
  /\ Return("err")
  /\ UNCHANGED <<next, piece, etags, object>>

Init ==
  /\ phase = "create" /\ next = 1 /\ piece = [t \in Thread |-> 0] /\ etags = [i \in 1..Pieces |-> "none"]
  /\ upload = "none" /\ parts = {} /\ object = {}
  /\ unanswered = FALSE /\ returned = "no"

Work(t) == Take(t) \/ Put(t)

Next == create \/ (\E t \in Thread : Work(t)) \/ Joined \/ complete \/ abort

Spec == Init /\ [][Next]_vars

-----------------------------------------------------------------------------
(* Properties.                                                             *)

\* write_parts returns Ok with the whole object in the bucket, and no parts
\* outside it.
OkIsWhole == returned = "ok" => object = 1..Pieces /\ parts = {}

\* "Aborted if any piece fails, so no half-uploaded parts stay behind to be
\* billed", while the service answers the completion and the abort.
NoPartsLeft == returned = "err" /\ ~unanswered => parts = {}

=============================================================================
