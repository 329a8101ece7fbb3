----------------------------- MODULE S3Request ------------------------------
(***************************************************************************)
(* Requests to S3 (request_with, send and credentials of                   *)
(* src/glyd-store/src/s3.rs), made by several threads of a ranged read or  *)
(* a multipart upload at once, which share the region and the credentials. *)
(*                                                                         *)
(* The service is external: it answers a request for another region's host *)
(* with 301, one signed for another region with 400, either with the right *)
(* region, one with a lapsed token with 403 ExpiredToken, and any with     *)
(* nothing or a status to retry (429, 5xx).  The credentials are those of  *)
(* an instance's role, whose own service may not answer.                   *)
(***************************************************************************)
EXTENDS Naturals

CONSTANTS
  Thread,
  Region, Home,  \* the regions, and the bucket's
  ATTEMPTS,
  MaxLapses,     \* bound: times the role's token lapses
  None

S3RequestAssumption ==
  /\ Home \in Region /\ ATTEMPTS \in Nat \ {0} /\ MaxLapses \in Nat
  /\ None \notin Nat /\ None \notin {"answer", "gave up", "redirect", "no credentials"}

VARIABLES
  region,   \* S3Backend.region
  creds,    \* S3Backend.creds: a token
  current,  \* the token the service takes; those before it have lapsed
  at,       \* where each thread is in request_with
  attempt,  \* its attempts so far
  moved,    \* whether it has moved the region
  token, host, scope,  \* what it sends: with which token, to which region, signed for which
  faults,   \* history: attempts without an answer to act on
  denied,   \* history: the threads that got no credentials
  answer    \* what request_with returned

mine == <<at, attempt, moved, token, host, scope, faults, denied, answer>>
vars == <<region, creds, current, mine>>

Lapse ==
  /\ current < MaxLapses
  /\ current' = current + 1
  /\ UNCHANGED <<region, creds, mine>>

Returns(t, a) ==
  /\ answer' = [answer EXCEPT ![t] = a]
  /\ at' = [at EXCEPT ![t] = "returned"]
  /\ UNCHANGED attempt

Retries(t) ==
  /\ attempt' = [attempt EXCEPT ![t] = @ + 1]
  /\ at' = [at EXCEPT ![t] = "attempt"]
  /\ UNCHANGED answer

AttemptsLeft(t) == attempt[t] < ATTEMPTS

GiveUp(t) ==
  /\ at[t] = "attempt" /\ ~AttemptsLeft(t)
  /\ Returns(t, "gave up")
  /\ UNCHANGED <<region, creds, current, moved, token, host, scope, faults, denied>>

\* The slot's credentials, or the role's where there are none or they are
\* about to lapse.
credentials(t) ==
  /\ at[t] = "attempt" /\ AttemptsLeft(t)
  /\ creds' \in {current} \cup ({creds} \ {None})
  /\ token' = [token EXCEPT ![t] = creds']
  /\ at' = [at EXCEPT ![t] = "locate"]
  /\ UNCHANGED <<region, current, attempt, moved, host, scope, faults, denied, answer>>

\* The role's are not to be had: "not a transient condition", the request
\* ends, whatever took the slot's away.
NoCredentials(t) ==
  /\ at[t] = "attempt" /\ AttemptsLeft(t)
  /\ denied' = denied \cup {t}
  /\ Returns(t, "no credentials")
  /\ UNCHANGED <<region, creds, current, moved, token, host, scope, faults>>

locate(t) ==
  /\ at[t] = "locate"
  /\ host' = [host EXCEPT ![t] = region]
  /\ at' = [at EXCEPT ![t] = "sign"]
  /\ UNCHANGED <<region, creds, current, attempt, moved, token, scope, faults, denied, answer>>

\* The region is read a second time.
sign(t) ==
  /\ at[t] = "sign"
  /\ scope' = [scope EXCEPT ![t] = region]
  /\ at' = [at EXCEPT ![t] = "send"]
  /\ UNCHANGED <<region, creds, current, attempt, moved, token, host, faults, denied, answer>>

-----------------------------------------------------------------------------
(* Answers.                                                                *)

Redirected(t) == host[t] # Home \/ scope[t] # Home

Moves(t) == region' = Home

Redirect(t) ==
  /\ at[t] = "send" /\ Redirected(t)
  /\ IF ~moved[t] /\ region # Home
     THEN Moves(t) /\ moved' = [moved EXCEPT ![t] = TRUE] /\ Retries(t)
     ELSE Returns(t, "redirect") /\ UNCHANGED <<region, moved>>
  /\ UNCHANGED <<creds, current, token, host, scope, faults, denied>>

Forget_not == creds
Forget == None

ExpiredToken(t) ==
  /\ at[t] = "send" /\ ~Redirected(t) /\ token[t] < current
  /\ creds' = Forget
  /\ Retries(t)
  /\ UNCHANGED <<region, current, moved, token, host, scope, faults, denied>>

Answered(t) ==
  /\ at[t] = "send" /\ ~Redirected(t) /\ token[t] = current
  /\ Returns(t, "answer")
  /\ UNCHANGED <<region, creds, current, moved, token, host, scope, faults, denied>>

Fault(t) ==
  /\ at[t] = "send"
  /\ faults' = [faults EXCEPT ![t] = @ + 1]
  /\ Retries(t)
  /\ UNCHANGED <<region, creds, current, moved, token, host, scope, denied>>

request_with(t) ==
  GiveUp(t) \/ credentials(t) \/ NoCredentials(t) \/ locate(t) \/ sign(t)
    \/ Redirect(t) \/ ExpiredToken(t) \/ Answered(t) \/ Fault(t)

Init ==
  /\ region \in Region /\ creds = None /\ current = 0
  /\ at = [t \in Thread |-> "attempt"] /\ attempt = [t \in Thread |-> 0]
  /\ moved = [t \in Thread |-> FALSE] /\ token = [t \in Thread |-> None]
  /\ host = [t \in Thread |-> None] /\ scope = [t \in Thread |-> None]
  /\ faults = [t \in Thread |-> 0] /\ denied = {} /\ answer = [t \in Thread |-> None]

Next == Lapse \/ \E t \in Thread : request_with(t)

Spec == Init /\ [][Next]_vars

-----------------------------------------------------------------------------
(* Properties.                                                             *)

\* A request that gives up had credentials for each attempt and met faults:
\* the region is moved once, and a token that lapsed is not sent again.
GivesUpOnFaults ==
  \A t \in Thread :
    answer[t] = "gave up" => t \notin denied /\ faults[t] + 1 + MaxLapses >= ATTEMPTS

\* "No credentials is not a transient condition": the one call that got
\* none was the request's last.
DeniedEnds == \A t \in denied : at[t] = "returned" /\ answer[t] = "no credentials"

\* A redirect that request_with returns as its answer was to a request made
\* before the region was moved: a later request goes to the right region.
RedirectIsLate == \A t \in Thread : answer[t] = "redirect" => region = Home

\* A request ends without its answer only after faults, for want of
\* credentials, or with the redirect to the region another thread has
\* meanwhile moved to.
EndsInAnswer == GivesUpOnFaults /\ DeniedEnds /\ RedirectIsLate

\* "A request to the wrong region is answered with the right one and retried".
RedirectIsRetried == \A t \in Thread : answer[t] # "redirect"

=============================================================================
