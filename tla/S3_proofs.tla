----------------------------- MODULE S3_proofs ------------------------------
(***************************************************************************)
(* Theorems about the S3 backend's connections (S3Request, S3Upload,       *)
(* S3Download), as parts of MCParts, for every number of threads, pieces,  *)
(* attempts, lapses of the token and versions of the object.               *)
(***************************************************************************)
EXTENDS MCParts, SequenceTheorems, TLAPS

-----------------------------------------------------------------------------
(* write_parts.                                                            *)

UploadTypeOK ==
  /\ phase \in {"create", "pieces", "complete", "abort", "returned"}
  /\ next \in Nat /\ parts \subseteq 1..Pieces /\ unanswered \in BOOLEAN
  /\ piece \in [Thread -> 0..Pieces]
  /\ etags \in [1..Pieces -> {"none", "ok", "failed"}]
  /\ returned \in {"no", "ok", "err"}

\* A piece that was taken is with a thread until its outcome is there.
PiecesTaken ==
  /\ phase = "create" => parts = {}
  /\ phase \in {"create", "pieces"} =>
       \A i \in 1..Pieces : i < next => etags[i] # "none" \/ \E t \in Thread : piece[t] = i

\* A piece answered with an ETag is in the upload, until the upload is completed or aborted.
EtagsArePut ==
  /\ phase \in {"create", "pieces", "complete"} => \A i \in 1..Pieces : etags[i] = "ok" => i \in parts
  /\ phase = "complete" => \A i \in 1..Pieces : etags[i] = "ok"

UploadEnds ==
  /\ phase # "returned" <=> returned = "no"
  /\ OkIsWhole /\ NoPartsLeft

UploadInv == which = "upload" => UploadTypeOK /\ PiecesTaken /\ EtagsArePut /\ UploadEnds

LEMMA UploadInitOK == ASSUME Pieces \in Nat \ {0}, Upload!Init PROVE UploadInv
<1> USE DEF Upload!Init
<1>1. UploadTypeOK
  <2>1. piece \in [Thread -> 0..Pieces] /\ etags \in [1..Pieces -> {"none", "ok", "failed"}]
    OBVIOUS
  <2> QED BY <2>1 DEF UploadTypeOK
<1>2. PiecesTaken /\ EtagsArePut
  BY DEF PiecesTaken, EtagsArePut
<1>3. UploadEnds
  BY DEF UploadEnds, OkIsWhole, Upload!OkIsWhole, NoPartsLeft, Upload!NoPartsLeft
<1> QED BY <1>1, <1>2, <1>3 DEF UploadInv

\* A step to a phase from which write_parts has not returned.
LEMMA UploadGoesOn ==
  ASSUME phase' # "returned", returned' = "no" PROVE UploadEnds'
BY DEF UploadEnds, OkIsWhole, Upload!OkIsWhole, NoPartsLeft, Upload!NoPartsLeft

\* A step on which it returns an error.
LEMMA UploadFails ==
  ASSUME phase' = "returned", returned' = "err", unanswered' \/ parts' = {}
  PROVE  PiecesTaken' /\ EtagsArePut' /\ UploadEnds'
BY DEF PiecesTaken, EtagsArePut, UploadEnds, OkIsWhole, Upload!OkIsWhole, NoPartsLeft, Upload!NoPartsLeft

LEMMA UploadStep ==
  ASSUME which = "upload", Pieces \in Nat \ {0}, UploadInv, Upload!Next PROVE UploadInv'
<1> USE DEF Upload!service, Upload!Return
<1> SUFFICES UploadTypeOK' /\ PiecesTaken' /\ EtagsArePut' /\ UploadEnds'
  BY DEF UploadInv
<1> UploadTypeOK /\ PiecesTaken /\ EtagsArePut /\ UploadEnds
  BY DEF UploadInv
<1>1. CASE Upload!create
  <2>1. /\ phase = "create" /\ parts = {} /\ returned = "no" /\ UNCHANGED <<next, piece, etags, parts, unanswered>>
        /\ \/ phase' = "pieces" /\ returned' = "no"
           \/ phase' = "returned" /\ returned' = "err"
    BY <1>1 DEF Upload!create, PiecesTaken, UploadEnds
  <2>2. UploadTypeOK'
    BY <2>1 DEF UploadTypeOK
  <2>3. CASE phase' = "pieces" /\ returned' = "no"
    BY <2>1, <2>2, <2>3, UploadGoesOn DEF PiecesTaken, EtagsArePut
  <2>4. CASE phase' = "returned" /\ returned' = "err"
    BY <2>1, <2>2, <2>4, UploadFails
  <2> QED BY <2>1, <2>3, <2>4
<1>2. ASSUME NEW t \in Thread, Upload!Take(t) PROVE UploadTypeOK' /\ PiecesTaken' /\ EtagsArePut' /\ UploadEnds'
  <2>1. /\ phase = "pieces" /\ phase' = "pieces" /\ returned = "no" /\ returned' = "no"
        /\ piece[t] = 0 /\ piece'[t] = next /\ next' = next + 1 /\ next \in Nat /\ next <= Pieces
        /\ \A u \in Thread : u # t => piece'[u] = piece[u]
        /\ UNCHANGED <<etags, parts, unanswered>>
    BY <1>2 DEF Upload!Take, UploadTypeOK, UploadEnds
  <2>2. piece' \in [Thread -> 0..Pieces]
    BY <1>2 DEF Upload!Take, UploadTypeOK
  <2>3. UploadTypeOK'
    BY <2>1, <2>2 DEF UploadTypeOK
  <2>4. PiecesTaken'
    BY <2>1 DEF PiecesTaken
  <2>5. EtagsArePut'
    BY <2>1 DEF EtagsArePut
  <2> QED BY <2>1, <2>3, <2>4, <2>5, UploadGoesOn
<1>3. ASSUME NEW t \in Thread, Upload!Put(t) PROVE UploadTypeOK' /\ PiecesTaken' /\ EtagsArePut' /\ UploadEnds'
  <2>1. /\ phase = "pieces" /\ phase' = "pieces" /\ returned = "no" /\ returned' = "no"
        /\ piece[t] \in 1..Pieces /\ piece'[t] = 0
        /\ \A u \in Thread : u # t => piece'[u] = piece[u]
        /\ UNCHANGED <<next, unanswered>>
    BY <1>3 DEF Upload!Put, UploadTypeOK, UploadEnds
  <2>2. PICK e \in {"ok", "failed"} :
          /\ etags' = [etags EXCEPT ![piece[t]] = e]
          /\ parts' \in {parts, parts \cup {piece[t]}}
          /\ e = "ok" => parts' = parts \cup {piece[t]}
    BY <1>3 DEF Upload!Put
  <2>3. /\ etags' \in [1..Pieces -> {"none", "ok", "failed"}] /\ etags'[piece[t]] = e
        /\ \A i \in 1..Pieces : i # piece[t] => etags'[i] = etags[i]
    BY <2>1, <2>2 DEF UploadTypeOK
  <2>4. piece' \in [Thread -> 0..Pieces]
    BY <1>3 DEF Upload!Put, UploadTypeOK
  <2>5. UploadTypeOK'
    BY <2>1, <2>2, <2>3, <2>4 DEF UploadTypeOK
  <2>6. PiecesTaken'
    BY <2>1, <2>2, <2>3 DEF PiecesTaken
  <2>7. EtagsArePut'
    BY <2>1, <2>2, <2>3 DEF EtagsArePut
  <2> QED BY <2>1, <2>5, <2>6, <2>7, UploadGoesOn
<1>4. CASE Upload!Joined
  <2>1. /\ phase = "pieces" /\ returned = "no" /\ UNCHANGED <<next, piece, etags, parts, unanswered, returned>>
        /\ phase' \in {"abort", "complete"}
        /\ \A i \in 1..Pieces : etags[i] # "none"
        /\ phase' = "complete" => \A i \in 1..Pieces : etags[i] # "failed"
    BY <1>4 DEF Upload!Joined, Upload!AnyFailed, UploadTypeOK, PiecesTaken, UploadEnds
  <2>2. UploadTypeOK'
    BY <2>1 DEF UploadTypeOK
  <2>3. EtagsArePut'
    BY <2>1 DEF EtagsArePut, UploadTypeOK
  <2>4. PiecesTaken'
    BY <2>1 DEF PiecesTaken
  <2> QED BY <2>1, <2>2, <2>3, <2>4, UploadGoesOn
<1>5. CASE Upload!complete
  <2> USE DEF Upload!complete, Upload!Completed, Upload!Refusal
  <2>1. phase = "complete" /\ returned = "no" /\ parts = 1..Pieces /\ UNCHANGED <<next, piece, etags>>
    BY <1>5 DEF EtagsArePut, UploadTypeOK, UploadEnds
  <2>2. parts' \in {parts, {}}
    BY <1>5
  <2>3. CASE object' = parts /\ parts' = {} /\ phase' = "returned" /\ returned' = "ok" /\ UNCHANGED unanswered
    BY <2>1, <2>3 DEF UploadTypeOK, PiecesTaken, EtagsArePut, UploadEnds, OkIsWhole, Upload!OkIsWhole,
         NoPartsLeft, Upload!NoPartsLeft
  <2>4. CASE phase' = "abort" /\ UNCHANGED <<returned, unanswered>>
    <3>1. UploadTypeOK'
      BY <2>1, <2>2, <2>4 DEF UploadTypeOK
    <3>2. PiecesTaken' /\ EtagsArePut'
      BY <2>4 DEF PiecesTaken, EtagsArePut
    <3> QED BY <2>1, <2>4, <3>1, <3>2, UploadGoesOn
  <2>5. CASE phase' = "returned" /\ returned' = "err" /\ unanswered' = TRUE
    <3>1. UploadTypeOK'
      BY <2>1, <2>2, <2>5 DEF UploadTypeOK
    <3> QED BY <2>5, <3>1, UploadFails
  <2> QED BY <1>5, <2>3, <2>4, <2>5
<1>6. CASE Upload!abort
  <2>1. /\ phase' = "returned" /\ returned' = "err" /\ unanswered' \in BOOLEAN
        /\ parts' \in {parts, {}} /\ (unanswered' \/ parts' = {})
        /\ UNCHANGED <<next, piece, etags>>
    BY <1>6 DEF Upload!abort, UploadTypeOK
  <2>2. UploadTypeOK'
    BY <2>1 DEF UploadTypeOK
  <2> QED BY <2>1, <2>2, UploadFails
<1> QED BY <1>1, <1>2, <1>3, <1>4, <1>5, <1>6 DEF Upload!Next, Upload!Work

-----------------------------------------------------------------------------
(* S3Backend::read.                                                        *)

DownloadTypeOK ==
  /\ phase \in {"first", "rest", "returned"}
  /\ version \in 1..MaxVersions /\ etag \in 0..MaxVersions
  /\ piece \in [Thread -> 0..(Pieces + 1)]
  /\ out \in [1..Pieces -> 0..MaxVersions]
  /\ pieces \in Seq(2..Pieces)
  /\ failed \in BOOLEAN /\ returned \in {"no", "ok", "err"}

\* The ranges still to take are the first ones, in order.
RangesLeft == Len(pieces) < Pieces /\ \A k \in 1..Len(pieces) : pieces[k] = k + 1

\* Every range is still to take, or with a thread, or there and of the first range's version,
\* unless one failed or the service named no version; a thread stops when there is none to take, or it failed.
RangesTaken ==
  /\ phase = "first" => failed = FALSE /\ \A t \in Thread : piece[t] = 0
  /\ phase = "rest" =>
       /\ etag # 0 => etag \in 1..MaxVersions /\ out[1] = etag
       /\ \A i \in 2..Pieces :
            i <= Len(pieces) + 1 \/ (\E t \in Thread : piece[t] = i) \/ out[i] = etag \/ failed \/ etag = 0
       /\ \A t \in Thread : piece[t] = Pieces + 1 => pieces = <<>> \/ failed

DownloadEnds ==
  /\ phase # "returned" => returned = "no"
  /\ OneVersion

DownloadInv == which = "download" => DownloadTypeOK /\ RangesLeft /\ RangesTaken /\ DownloadEnds

LEMMA DownloadInitOK ==
  ASSUME Pieces \in Nat \ {0}, MaxVersions \in Nat \ {0}, Download!Init PROVE DownloadInv
<1> USE DEF Download!Init
<1>1. DownloadTypeOK
  <2>1. piece \in [Thread -> 0..(Pieces + 1)] /\ out \in [1..Pieces -> 0..MaxVersions] /\ pieces \in Seq(2..Pieces)
    OBVIOUS
  <2>2. version \in 1..MaxVersions /\ etag \in 0..MaxVersions
    OBVIOUS
  <2>3. phase = "first" /\ failed = FALSE /\ returned = "no"
    OBVIOUS
  <2> HIDE DEF Download!Init
  <2> QED BY <2>1, <2>2, <2>3 DEF DownloadTypeOK
<1>2. RangesLeft
  <2>1. Len(pieces) = 0
    OBVIOUS
  <2> QED BY <2>1 DEF RangesLeft
<1>3. RangesTaken /\ DownloadEnds
  BY DEF RangesTaken, DownloadEnds, OneVersion, Download!OneVersion
<1> QED BY <1>1, <1>2, <1>3 DEF DownloadInv

\* A step on which read does not return, or returns an error.
LEMMA DownloadGoesOn ==
  ASSUME \/ phase' # "returned" /\ returned' = "no"
         \/ phase' = "returned" /\ returned' = "err"
  PROVE  DownloadEnds'
BY DEF DownloadEnds, OneVersion, Download!OneVersion

LEMMA DownloadStep ==
  ASSUME which = "download", Pieces \in Nat \ {0}, MaxVersions \in Nat \ {0}, Thread # {},
         DownloadInv, Download!Next
  PROVE  DownloadInv'
<1> SUFFICES DownloadTypeOK' /\ RangesLeft' /\ RangesTaken' /\ DownloadEnds'
  BY DEF DownloadInv
<1> DownloadTypeOK /\ RangesLeft /\ RangesTaken /\ DownloadEnds
  BY DEF DownloadInv
<1>1. CASE Download!Overwrite
  <2> USE DEF Download!Overwrite
  <2>1. version' \in 1..MaxVersions /\ UNCHANGED <<phase, etag, pieces, piece, out, failed, returned>>
    BY <1>1 DEF DownloadTypeOK
  <2>2. DownloadTypeOK' /\ RangesLeft' /\ RangesTaken'
    BY <2>1 DEF DownloadTypeOK, RangesLeft, RangesTaken
  <2>3. DownloadEnds'
    BY <2>1, <1>1 DEF DownloadEnds, OneVersion, Download!OneVersion
  <2> QED BY <2>2, <2>3
<1>2. CASE Download!First
  <2>1. /\ phase = "first" /\ returned = "no" /\ failed = FALSE /\ \A t \in Thread : piece[t] = 0
        /\ UNCHANGED <<version, piece, failed>>
    BY <1>2 DEF Download!First, RangesTaken, DownloadEnds
  <2>2. CASE /\ etag' \in {version, 0} /\ out' = [out EXCEPT ![1] = version]
             /\ pieces' = [k \in 1..(Pieces - 1) |-> k + 1]
             /\ IF Pieces = 1 THEN phase' = "returned" /\ returned' = "ok"
                ELSE phase' = "rest" /\ UNCHANGED returned
    <3>1. /\ Len(pieces') = Pieces - 1 /\ pieces' \in Seq(2..Pieces)
          /\ \A k \in 1..Len(pieces') : pieces'[k] = k + 1
      <4> Pieces - 1 \in Nat /\ \A k \in 1..(Pieces - 1) : k + 1 \in 2..Pieces
        OBVIOUS
      <4> QED BY <2>2
    <3>2. /\ out' \in [1..Pieces -> 0..MaxVersions] /\ etag' \in 0..MaxVersions
          /\ etag' # 0 => etag' \in 1..MaxVersions /\ out'[1] = etag'
      BY <2>2 DEF DownloadTypeOK
    <3>3. DownloadTypeOK'
      BY <2>1, <2>2, <3>1, <3>2 DEF DownloadTypeOK
    <3>4. RangesLeft'
      BY <3>1 DEF RangesLeft
    <3>5. RangesTaken'
      BY <2>1, <2>2, <3>1, <3>2 DEF RangesTaken
    <3>6. DownloadEnds'
      <4>1. CASE Pieces = 1
        BY <2>2, <3>2, <4>1 DEF DownloadEnds, OneVersion, Download!OneVersion
      <4>2. CASE Pieces # 1
        <5>1. phase' = "rest" /\ returned' = "no"
          BY <2>1, <2>2, <4>2
        <5> QED BY <5>1, DownloadGoesOn
      <4> QED BY <4>1, <4>2
    <3> QED BY <3>3, <3>4, <3>5, <3>6
  <2>3. CASE phase' = "returned" /\ returned' = "err" /\ UNCHANGED <<etag, out, pieces>>
    <3>1. DownloadTypeOK' /\ RangesLeft' /\ RangesTaken'
      BY <2>1, <2>3 DEF DownloadTypeOK, RangesLeft, RangesTaken
    <3> QED BY <2>3, <3>1, DownloadGoesOn
  <2> QED BY <1>2, <2>2, <2>3 DEF Download!First
<1>3. ASSUME NEW t \in Thread, Download!Pop(t)
      PROVE  DownloadTypeOK' /\ RangesLeft' /\ RangesTaken' /\ DownloadEnds'
  <2>1. /\ phase = "rest" /\ returned = "no" /\ piece[t] = 0
        /\ UNCHANGED <<version, phase, etag, out, failed, returned>> /\ phase' = "rest" /\ returned' = "no"
        /\ pieces \in Seq(2..Pieces) /\ Len(pieces) \in Nat
    BY <1>3 DEF Download!Pop, DownloadEnds, DownloadTypeOK
  <2>2. CASE pieces = <<>> /\ piece' = [piece EXCEPT ![t] = Pieces + 1] /\ UNCHANGED pieces
    <3>1. /\ piece' \in [Thread -> 0..(Pieces + 1)]
          /\ \A u \in Thread : u # t => piece'[u] = piece[u]
      BY <2>2 DEF DownloadTypeOK
    <3>2. DownloadTypeOK' /\ RangesLeft'
      BY <2>1, <2>2, <3>1 DEF DownloadTypeOK, RangesLeft
    <3>3. RangesTaken'
      BY <2>1, <2>2, <3>1 DEF RangesTaken
    <3> QED BY <2>1, <3>2, <3>3, DownloadGoesOn
  <2>3. CASE /\ pieces # <<>>
             /\ piece' = [piece EXCEPT ![t] = pieces[Len(pieces)]]
             /\ pieces' = SubSeq(pieces, 1, Len(pieces) - 1)
    <3>1. Len(pieces) \in 1..(Pieces - 1) /\ pieces[Len(pieces)] = Len(pieces) + 1
      BY <2>1, <2>3 DEF RangesLeft
    <3>2. /\ Len(pieces') = Len(pieces) - 1 /\ pieces' \in Seq(2..Pieces)
          /\ \A k \in 1..Len(pieces') : pieces'[k] = pieces[k]
      <4>1. Len(pieces) - 1 \in Int /\ \A k \in 1..(Len(pieces) - 1) : pieces[k] \in 2..Pieces
        BY <2>1
      <4> DEFINE S == 2..Pieces
                 n == Len(pieces) - 1
      <4>2. \A k \in 1..n : pieces[k] \in S
        BY <4>1
      <4>3. n \in Int /\ n >= 0 /\ 1 \in Int
        BY <3>1
      <4>4. /\ SubSeq(pieces, 1, n) \in Seq(S)
            /\ Len(SubSeq(pieces, 1, n)) = IF 1 <= n THEN n - 1 + 1 ELSE 0
            /\ \A k \in 1..(n - 1 + 1) : SubSeq(pieces, 1, n)[k] = pieces[1 + k - 1]
        <5> HIDE DEF S, n
        <5> QED BY <4>2, <4>3, SubSeqProperties
      <4>5. Len(SubSeq(pieces, 1, n)) = n
        <5> HIDE DEF n, S
        <5> QED BY <4>3, <4>4
      <4>6. ASSUME NEW k \in 1..n PROVE SubSeq(pieces, 1, n)[k] = pieces[k]
        <5>1. k \in 1..(n - 1 + 1) /\ 1 + k - 1 = k
          <6> HIDE DEF n
          <6> QED BY <4>3, <4>6
        <5> QED BY <4>4, <5>1
      <4>7. pieces' = SubSeq(pieces, 1, n)
        BY <2>3
      <4> QED BY <4>4, <4>5, <4>6, <4>7
    <3>3. /\ piece' \in [Thread -> 0..(Pieces + 1)] /\ piece'[t] = Len(pieces) + 1 /\ piece'[t] # Pieces + 1
          /\ \A u \in Thread : u # t => piece'[u] = piece[u]
      <4>1. piece' = [piece EXCEPT ![t] = Len(pieces) + 1] /\ Len(pieces) + 1 \in 0..Pieces
        BY <2>3, <3>1
      <4> QED BY <4>1 DEF DownloadTypeOK
    <3>4. DownloadTypeOK'
      BY <2>1, <3>2, <3>3 DEF DownloadTypeOK
    <3>5. RangesLeft'
      BY <3>1, <3>2 DEF RangesLeft
    <3>6. RangesTaken'
      <4>1. \A i \in 2..Pieces : i <= Len(pieces) + 1 => i <= Len(pieces') + 1 \/ i = piece'[t]
        BY <3>1, <3>2, <3>3
      <4>2. ASSUME NEW i \in 2..Pieces
            PROVE  i <= Len(pieces') + 1 \/ (\E u \in Thread : piece'[u] = i) \/ out[i] = etag \/ failed \/ etag = 0
        BY SMTT(40), <2>1, <3>3, <4>1 DEF RangesTaken
      <4>3. \A u \in Thread : piece'[u] = Pieces + 1 => failed
        BY <2>1, <2>3, <3>3 DEF RangesTaken
      <4> QED BY <2>1, <4>2, <4>3 DEF RangesTaken
    <3> QED BY <2>1, <3>4, <3>5, <3>6, DownloadGoesOn
  <2> QED BY <1>3, <2>2, <2>3 DEF Download!Pop, Download!Stopped
<1>4. ASSUME NEW t \in Thread, Download!Get(t)
      PROVE  DownloadTypeOK' /\ RangesLeft' /\ RangesTaken' /\ DownloadEnds'
  <2>1. /\ phase = "rest" /\ returned = "no" /\ piece[t] \in 2..Pieces
        /\ UNCHANGED <<version, phase, etag, pieces, returned>> /\ phase' = "rest" /\ returned' = "no"
    BY <1>4 DEF Download!Get, DownloadEnds
  <2>2. CASE /\ etag = 0 \/ version = etag
             /\ out' = [out EXCEPT ![piece[t]] = version]
             /\ piece' = [piece EXCEPT ![t] = 0] /\ UNCHANGED failed
    <3>1. /\ out' \in [1..Pieces -> 0..MaxVersions] /\ (etag # 0 => out'[piece[t]] = etag)
          /\ \A i \in 1..Pieces : i # piece[t] => out'[i] = out[i]
      BY <2>1, <2>2 DEF DownloadTypeOK
    <3>2. /\ piece' \in [Thread -> 0..(Pieces + 1)] /\ piece'[t] = 0
          /\ \A u \in Thread : u # t => piece'[u] = piece[u]
      BY <2>2 DEF DownloadTypeOK
    <3>3. DownloadTypeOK' /\ RangesLeft'
      BY <2>1, <2>2, <3>1, <3>2 DEF DownloadTypeOK, RangesLeft
    <3>4. RangesTaken'
      BY <2>1, <2>2, <3>1, <3>2 DEF RangesTaken
    <3> QED BY <2>1, <3>3, <3>4, DownloadGoesOn
  <2>3. CASE failed' = TRUE /\ piece' = [piece EXCEPT ![t] = Pieces + 1] /\ UNCHANGED out
    <3>1. piece' \in [Thread -> 0..(Pieces + 1)]
      BY <2>3 DEF DownloadTypeOK
    <3>2. DownloadTypeOK' /\ RangesLeft' /\ RangesTaken'
      BY <2>1, <2>3, <3>1 DEF DownloadTypeOK, RangesLeft, RangesTaken
    <3> QED BY <2>1, <3>2, DownloadGoesOn
  <2> QED BY <1>4, <2>2, <2>3 DEF Download!Get, Download!Stopped, Download!Matches
<1>5. CASE Download!Joined
  <2>1. /\ phase = "rest" /\ phase' = "returned" /\ \A t \in Thread : piece[t] = Pieces + 1
        /\ returned' = IF failed THEN "err" ELSE "ok"
        /\ UNCHANGED <<version, etag, pieces, piece, out, failed>>
    BY <1>5 DEF Download!Joined, Download!Stopped
  <2>2. DownloadTypeOK' /\ RangesLeft' /\ RangesTaken'
    BY <2>1 DEF DownloadTypeOK, RangesLeft, RangesTaken
  <2>5. CASE etag = 0
    BY <2>1, <2>2, <2>5 DEF DownloadEnds, OneVersion, Download!OneVersion
  <2>3. CASE ~failed /\ etag # 0
    <3>1. Len(pieces) = 0 /\ etag \in 1..MaxVersions /\ out[1] = etag
      BY <2>1, <2>3 DEF RangesTaken
    <3>2. \A i \in 2..Pieces : out[i] = etag
      BY <2>1, <2>3, <3>1 DEF RangesTaken
    <3> QED BY <2>1, <2>2, <3>1, <3>2 DEF DownloadEnds, OneVersion, Download!OneVersion
  <2>4. CASE failed
    BY <2>1, <2>2, <2>4, DownloadGoesOn
  <2> QED BY <2>3, <2>4, <2>5
<1> QED BY <1>1, <1>2, <1>3, <1>4, <1>5 DEF Download!Next, Download!Work

-----------------------------------------------------------------------------
(* request_with.                                                           *)

Tokens == Nat \cup {None}
Answers == {None, "answer", "gave up", "redirect", "no credentials"}

RequestTypeOK ==
  /\ current \in 0..MaxLapses /\ creds \in Tokens
  /\ at \in [Thread -> {"attempt", "locate", "sign", "send", "returned"}]
  /\ attempt \in [Thread -> Nat] /\ faults \in [Thread -> Nat]
  /\ moved \in [Thread -> BOOLEAN] /\ denied \in SUBSET Thread
  /\ token \in [Thread -> Tokens] /\ answer \in [Thread -> Answers]

\* A thread's attempts that a lapsed token cost it.
Lapsed(t) == attempt[t] - faults[t] - (IF moved[t] THEN 1 ELSE 0)

\* Each of them was of an older token than any it may still send: a thread forgets the token
\* it was refused, and whoever gets one next gets the role's.
TokensAreNewer ==
  /\ \A t \in Thread : Lapsed(t) <= current /\ (creds # None => Lapsed(t) <= creds)
  /\ \A t \in Thread : at[t] \in {"locate", "sign", "send"} => token[t] \in Nat /\ Lapsed(t) <= token[t]

\* A thread that has moved the region has moved it to the bucket's.
RegionStays ==
  /\ \A t \in Thread : moved[t] => region = Home
  /\ Request!RedirectIsLate

\* Who gave up had used its attempts, and who got no credentials has ended so.
GaveUp ==
  /\ \A t \in Thread : answer[t] = "gave up" => attempt[t] >= ATTEMPTS
  /\ Request!DeniedEnds

RequestInv == which = "request" => RequestTypeOK /\ TokensAreNewer /\ RegionStays /\ GaveUp

LEMMA TokenSet == Nat \subseteq Tokens /\ None \in Tokens /\ \A x \in Tokens : x # None => x \in Nat
BY DEF Tokens

LEMMA AnswerSet ==
  /\ "answer" \in Answers /\ "gave up" \in Answers /\ "redirect" \in Answers
  /\ "no credentials" \in Answers /\ None \in Answers
BY DEF Answers

LEMMA Bounds == ASSUME PartsAssumption PROVE ATTEMPTS \in Nat \ {0} /\ MaxLapses \in Nat
BY DEF PartsAssumption, Request!S3RequestAssumption

LEMMA NoneIsNoToken == ASSUME PartsAssumption PROVE None \notin Nat
BY DEF PartsAssumption, Request!S3RequestAssumption

LEMMA NoneIsNoAnswer == ASSUME PartsAssumption PROVE None # "answer" /\ None # "gave up" /\ None # "redirect"
<1>1. None \notin {"answer", "gave up", "redirect", "no credentials"}
  BY DEF PartsAssumption, Request!S3RequestAssumption
<1> QED BY <1>1

LEMMA NoLapse == ASSUME PartsAssumption, NEW c, c = 0 PROVE c \in 0..MaxLapses
BY Bounds

\* A count that goes up by one at one thread.
LEMMA OneMore ==
  ASSUME NEW f, f \in [Thread -> Nat], NEW t \in Thread, NEW g, g = [f EXCEPT ![t] = @ + 1]
  PROVE  g \in [Thread -> Nat] /\ g[t] = f[t] + 1 /\ \A u \in Thread : u # t => g[u] = f[u]
OBVIOUS

LEMMA NoneLapsed ==
  ASSUME NEW t \in Thread, attempt[t] = 0, faults[t] = 0, moved[t] = FALSE
  PROVE  Lapsed(t) = 0
<1>1. (IF moved[t] THEN 1 ELSE 0) = 0
  OBVIOUS
<1>2. Lapsed(t) = 0 - 0 - 0
  BY <1>1 DEF Lapsed
<1> QED BY <1>2

LEMMA RequestInitOK == ASSUME PartsAssumption, Request!Init PROVE RequestInv
<1> USE DEF Request!Init
<1>1. RequestTypeOK
  <2>1. /\ at \in [Thread -> {"attempt", "locate", "sign", "send", "returned"}]
        /\ attempt \in [Thread -> Nat] /\ faults \in [Thread -> Nat] /\ moved \in [Thread -> BOOLEAN]
    OBVIOUS
  <2>2. token \in [Thread -> Tokens] /\ answer \in [Thread -> Answers] /\ creds \in Tokens
    BY TokenSet, AnswerSet
  <2>3. current = 0
    OBVIOUS
  <2>4. current \in 0..MaxLapses
    BY <2>3, NoLapse
  <2> QED BY <2>1, <2>2, <2>4 DEF RequestTypeOK
<1>2. ASSUME NEW t \in Thread PROVE Lapsed(t) = 0
  <2>1. attempt[t] = 0
    OBVIOUS
  <2>2. faults[t] = 0
    OBVIOUS
  <2>3. moved[t] = FALSE
    OBVIOUS
  <2> HIDE DEF Request!Init
  <2> QED BY <2>1, <2>2, <2>3, NoneLapsed
<1>3. TokensAreNewer
  <2>1. current = 0 /\ creds = None /\ \A t \in Thread : at[t] = "attempt"
    OBVIOUS
  <2> HIDE DEF Request!Init
  <2> QED BY <1>2, <2>1 DEF TokensAreNewer
<1>4. \A t \in Thread : answer[t] = None /\ moved[t] = FALSE
  OBVIOUS
<1>5. RegionStays /\ GaveUp
  BY <1>4, NoneIsNoAnswer DEF RegionStays, Request!RedirectIsLate, GaveUp, Request!DeniedEnds
<1> QED BY <1>1, <1>3, <1>5 DEF RequestInv

LEMMA LapsedIsInt == ASSUME RequestTypeOK, NEW t \in Thread PROVE Lapsed(t) \in Int
<1>1. attempt[t] \in Nat /\ faults[t] \in Nat
  BY DEF RequestTypeOK
<1> QED BY <1>1 DEF Lapsed

\* Of the other threads a step changes nothing but the region, the credentials and the token in force.
Others(t) ==
  \A u \in Thread : u # t =>
    /\ at'[u] = at[u] /\ attempt'[u] = attempt[u] /\ faults'[u] = faults[u] /\ moved'[u] = moved[u]
    /\ token'[u] = token[u] /\ answer'[u] = answer[u]

LEMMA LapsedRests ==
  ASSUME NEW u \in Thread, attempt'[u] = attempt[u], faults'[u] = faults[u], moved'[u] = moved[u]
  PROVE  Lapsed(u)' = Lapsed(u)
BY DEF Lapsed

\* What a step of thread t does: to the end of its request, or one attempt on.
Ends(t) ==
  /\ at[t] \in {"attempt", "send"} /\ at'[t] = "returned"
  /\ UNCHANGED <<region, creds, attempt, faults, moved, token>>
  /\ \/ answer'[t] = "answer" /\ denied' = denied
     \/ answer'[t] = "gave up" /\ attempt[t] >= ATTEMPTS /\ denied' = denied
     \/ answer'[t] = "no credentials" /\ denied' = denied \cup {t}
     \/ answer'[t] = "redirect" /\ (moved[t] \/ region = Home) /\ denied' = denied

Retries(t) ==
  /\ at[t] = "send" /\ at'[t] = "attempt" /\ attempt'[t] = attempt[t] + 1
  /\ UNCHANGED <<token, answer, denied>>
  /\ \/ /\ ~moved[t] /\ moved'[t] = TRUE /\ region' = Home /\ UNCHANGED <<faults, creds>>
     \/ faults'[t] = faults[t] + 1 /\ UNCHANGED <<moved, region, creds>>
     \/ token[t] < current /\ creds' = None /\ UNCHANGED <<faults, moved, region>>

GetsToken(t) ==
  /\ at[t] = "attempt" /\ at'[t] = "locate" /\ token'[t] = creds'
  /\ creds' = current \/ (creds' = creds /\ creds # None)
  /\ UNCHANGED <<region, attempt, faults, moved, denied, answer>>

Goes(t) ==
  /\ at[t] \in {"locate", "sign"} /\ at'[t] \in {"sign", "send"}
  /\ UNCHANGED <<region, creds, attempt, faults, moved, token, denied, answer>>

LEMMA RequestCases ==
  ASSUME PartsAssumption, RequestTypeOK, NEW t \in Thread, Request!request_with(t)
  PROVE  /\ RequestTypeOK' /\ Others(t) /\ current' = current
         /\ Ends(t) \/ Retries(t) \/ GetsToken(t) \/ Goes(t)
<1> USE DEF Request!Returns, RequestTypeOK
<1>10. CASE Request!NoCredentials(t)
  BY <1>10, AnswerSet DEF Others, Ends, Request!NoCredentials
<1>1. CASE Request!GiveUp(t)
  <2>1. attempt[t] >= ATTEMPTS
    <3>1. attempt[t] \in Nat
      OBVIOUS
    <3>2. ~(attempt[t] < ATTEMPTS)
      BY <1>1 DEF Request!GiveUp, Request!AttemptsLeft
    <3> HIDE DEF RequestTypeOK
    <3> QED BY <3>1, <3>2, Bounds
  <2> QED BY <1>1, <2>1, AnswerSet DEF Others, Ends, Request!GiveUp
<1>2. CASE Request!credentials(t)
  <2> USE <1>2 DEF Request!credentials
  <2>1. creds' = current \/ (creds' = creds /\ creds # None)
    OBVIOUS
  <2>2. current \in Nat
    BY Bounds
  <2>3. creds' \in Tokens
    BY <2>1, <2>2, TokenSet
  <2>4. token' \in [Thread -> Tokens]
    BY <2>3
  <2>5. at' \in [Thread -> {"attempt", "locate", "sign", "send", "returned"}]
    OBVIOUS
  <2>6. RequestTypeOK'
    BY <2>3, <2>4, <2>5
  <2>7. Others(t)
    BY DEF Others
  <2>8. GetsToken(t)
    BY <2>1 DEF GetsToken
  <2> QED BY <2>6, <2>7, <2>8
<1>3. CASE Request!locate(t)
  BY <1>3 DEF Others, Goes, Request!locate
<1>4. CASE Request!sign(t)
  BY <1>4 DEF Others, Goes, Request!sign
<1>5. ASSUME Request!Retries(t)
      PROVE  /\ attempt' \in [Thread -> Nat] /\ attempt'[t] = attempt[t] + 1
             /\ \A u \in Thread : u # t => attempt'[u] = attempt[u] /\ at'[u] = at[u]
             /\ at' \in [Thread -> {"attempt", "locate", "sign", "send", "returned"}]
             /\ at'[t] = "attempt" /\ answer' = answer
  <2>1. attempt' = [attempt EXCEPT ![t] = @ + 1]
    BY <1>5 DEF Request!Retries
  <2>2. attempt \in [Thread -> Nat]
    OBVIOUS
  <2>3. /\ attempt' \in [Thread -> Nat] /\ attempt'[t] = attempt[t] + 1
        /\ \A u \in Thread : u # t => attempt'[u] = attempt[u]
    <3> HIDE DEF RequestTypeOK
    <3> QED BY <2>1, <2>2, OneMore
  <2>4. at' = [at EXCEPT ![t] = "attempt"] /\ answer' = answer
    BY <1>5 DEF Request!Retries
  <2> QED BY <2>3, <2>4
<1>6. CASE Request!Redirect(t)
  <2> USE <1>6 DEF Request!Redirect, Request!Moves
  <2>1. CASE ~moved[t] /\ region # Home
    <3>1. Request!Retries(t)
      BY <2>1
    <3>2. moved' = [moved EXCEPT ![t] = TRUE] /\ UNCHANGED <<current, creds, faults, token, denied>> /\ region' = Home
      BY <2>1
    <3>3. at[t] = "send"
      OBVIOUS
    <3> HIDE <1>6 DEF Request!Redirect, Request!Moves
    <3> QED BY <2>1, <3>1, <3>2, <3>3, <1>5 DEF Others, Retries
  <2>2. CASE moved[t] \/ region = Home
    <3>1. /\ Request!Returns(t, "redirect") /\ at[t] = "send"
          /\ UNCHANGED <<moved, region, current, creds, faults, token, host, scope, denied>>
      BY <2>2
    <3> HIDE <1>6 DEF Request!Redirect, Request!Moves
    <3> QED BY <2>2, <3>1, AnswerSet DEF Others, Ends
  <2> QED BY <2>1, <2>2
<1>7. CASE Request!ExpiredToken(t)
  <2>1. Request!Retries(t) /\ at[t] = "send" /\ token[t] < current
    BY <1>7 DEF Request!ExpiredToken
  <2>2. creds' = None /\ UNCHANGED <<region, current, moved, token, faults, denied>>
    BY <1>7 DEF Request!ExpiredToken, Request!Forget
  <2>3. RequestTypeOK'
    BY <2>1, <2>2, <1>5, TokenSet
  <2> HIDE DEF RequestTypeOK
  <2> QED BY <2>1, <2>2, <2>3, <1>5 DEF Others, Retries
<1>8. CASE Request!Answered(t)
  BY <1>8, AnswerSet DEF Others, Ends, Request!Answered
<1>9. CASE Request!Fault(t)
  <2>1. Request!Retries(t) /\ at[t] = "send" /\ UNCHANGED <<region, creds, current, moved, token, denied>>
    BY <1>9 DEF Request!Fault
  <2>2. faults' = [faults EXCEPT ![t] = @ + 1]
    BY <1>9 DEF Request!Fault
  <2>3. faults \in [Thread -> Nat]
    OBVIOUS
  <2>4. /\ faults' \in [Thread -> Nat] /\ faults'[t] = faults[t] + 1
        /\ \A u \in Thread : u # t => faults'[u] = faults[u]
    <3> HIDE DEF RequestTypeOK
    <3> QED BY <2>2, <2>3, OneMore
  <2>5. RequestTypeOK'
    BY <2>1, <2>4, <1>5
  <2> HIDE DEF RequestTypeOK
  <2> QED BY <2>1, <2>4, <2>5, <1>5 DEF Others, Retries
<1> QED BY <1>1, <1>2, <1>3, <1>4, <1>6, <1>7, <1>8, <1>9, <1>10 DEF Request!request_with

LEMMA EndsStep ==
  ASSUME PartsAssumption, RequestTypeOK, RequestTypeOK', TokensAreNewer, RegionStays, GaveUp,
         NEW t \in Thread, Others(t), current' = current, Ends(t)
  PROVE  (TokensAreNewer /\ RegionStays /\ GaveUp)'
<1>1. \A u \in Thread : Lapsed(u)' = Lapsed(u)
  BY LapsedRests DEF Ends, Others
<1>2. TokensAreNewer'
  <2>1. \A u \in Thread : token'[u] = token[u] /\ (at'[u] = at[u] \/ at'[u] = "returned")
    BY DEF Ends, Others
  <2> QED BY <1>1, <2>1 DEF TokensAreNewer, Ends
<1>3. RegionStays'
  BY DEF Ends, Others, RegionStays, Request!RedirectIsLate
<1>4. GaveUp'
  <2>1. \A u \in Thread : u # t => answer'[u] = answer[u] /\ attempt'[u] = attempt[u] /\ at'[u] = at[u]
    BY DEF Others
  <2>2. denied \subseteq Thread /\ t \notin denied
    BY DEF Ends, GaveUp, Request!DeniedEnds, RequestTypeOK
  <2>3. Request!DeniedEnds'
    <3>1. \A u \in denied : u \in Thread /\ u # t /\ at[u] = "returned" /\ answer[u] = "no credentials"
      BY <2>2 DEF GaveUp, Request!DeniedEnds
    <3>2. denied' = denied \/ (denied' = denied \cup {t} /\ answer'[t] = "no credentials")
      BY DEF Ends
    <3>3. at'[t] = "returned"
      BY DEF Ends
    <3>4. ASSUME NEW u \in denied' PROVE at'[u] = "returned" /\ answer'[u] = "no credentials"
      <4>1. CASE u \in denied
        BY <4>1, <2>1, <3>1
      <4>2. CASE u = t /\ answer'[t] = "no credentials"
        BY <4>2, <3>3
      <4> QED BY <4>1, <4>2, <3>2, <3>4
    <3> QED BY <3>4 DEF Request!DeniedEnds
  <2>4. \A u \in Thread : answer'[u] = "gave up" => attempt'[u] >= ATTEMPTS
    BY <2>1 DEF Ends, GaveUp
  <2> QED BY <2>3, <2>4 DEF GaveUp
<1> QED BY <1>2, <1>3, <1>4

LEMMA GoesStep ==
  ASSUME PartsAssumption, RequestTypeOK, RequestTypeOK', TokensAreNewer, RegionStays, GaveUp,
         NEW t \in Thread, Others(t), current' = current, Goes(t)
  PROVE  (TokensAreNewer /\ RegionStays /\ GaveUp)'
<1>1. \A u \in Thread : Lapsed(u)' = Lapsed(u)
  BY LapsedRests DEF Goes, Others
<1>2. TokensAreNewer'
  <2>1. \A u \in Thread : token'[u] = token[u] /\ (at'[u] = at[u] \/ u = t)
    BY DEF Goes, Others
  <2> QED BY <1>1, <2>1 DEF TokensAreNewer, Goes
<1>3. RegionStays'
  BY DEF Goes, Others, RegionStays, Request!RedirectIsLate
<1>4. GaveUp'
  <2>1. \A u \in Thread : answer'[u] = answer[u] /\ attempt'[u] = attempt[u] /\ (u # t => at'[u] = at[u])
    BY DEF Goes, Others
  <2>2. denied' = denied /\ denied \subseteq Thread /\ t \notin denied
    BY DEF Goes, GaveUp, Request!DeniedEnds, RequestTypeOK
  <2>3. Request!DeniedEnds'
    BY <2>1, <2>2 DEF GaveUp, Request!DeniedEnds
  <2> QED BY <2>1, <2>3 DEF GaveUp
<1> QED BY <1>2, <1>3, <1>4

LEMMA GetsTokenStep ==
  ASSUME PartsAssumption, RequestTypeOK, RequestTypeOK', TokensAreNewer, RegionStays, GaveUp,
         NEW t \in Thread, Others(t), current' = current, GetsToken(t)
  PROVE  (TokensAreNewer /\ RegionStays /\ GaveUp)'
<1>1. \A u \in Thread : Lapsed(u)' = Lapsed(u)
  BY LapsedRests DEF GetsToken, Others
<1>2. creds' \in Nat
  BY Bounds, TokenSet DEF GetsToken, RequestTypeOK
<1>3. \A u \in Thread : Lapsed(u) <= creds'
  BY DEF GetsToken, TokensAreNewer
<1>4. TokensAreNewer'
  <2>1. \A u \in Thread : Lapsed(u)' <= current' /\ (creds' # None => Lapsed(u)' <= creds')
    BY <1>1, <1>3 DEF TokensAreNewer
  <2>2. ASSUME NEW u \in Thread, at'[u] \in {"locate", "sign", "send"}
        PROVE  token'[u] \in Nat /\ Lapsed(u)' <= token'[u]
    <3>1. CASE u = t
      BY <3>1, <1>1, <1>2, <1>3 DEF GetsToken
    <3>2. CASE u # t
      BY <3>2, <2>2, <1>1 DEF Others, TokensAreNewer
    <3> QED BY <3>1, <3>2
  <2> QED BY <2>1, <2>2 DEF TokensAreNewer
<1>5. RegionStays'
  BY DEF GetsToken, Others, RegionStays, Request!RedirectIsLate
<1>6. GaveUp'
  <2>1. \A u \in Thread : answer'[u] = answer[u] /\ attempt'[u] = attempt[u] /\ (u # t => at'[u] = at[u])
    BY DEF GetsToken, Others
  <2>2. denied' = denied /\ denied \subseteq Thread /\ t \notin denied
    BY DEF GetsToken, GaveUp, Request!DeniedEnds, RequestTypeOK
  <2>3. Request!DeniedEnds'
    BY <2>1, <2>2 DEF GaveUp, Request!DeniedEnds
  <2> QED BY <2>1, <2>3 DEF GaveUp
<1> QED BY <1>4, <1>5, <1>6

\* A retry is of a fault, of the move, or of a token older than the service's: then one more has
\* lapsed on this thread, and it gets a new one.
LEMMA RetriesStep ==
  ASSUME PartsAssumption, RequestTypeOK, RequestTypeOK', TokensAreNewer, RegionStays, GaveUp,
         NEW t \in Thread, Others(t), current' = current, Retries(t)
  PROVE  (TokensAreNewer /\ RegionStays /\ GaveUp)'
<1>1. \A u \in Thread : u # t => Lapsed(u)' = Lapsed(u)
  BY LapsedRests DEF Others
<1>2. attempt[t] \in Nat /\ faults[t] \in Nat /\ moved[t] \in BOOLEAN /\ current \in Nat
  BY Bounds DEF RequestTypeOK
<1>3. creds' = creds \/ creds' = None
  BY DEF Retries
<1>4. Lapsed(t)' <= current /\ (creds' # None => Lapsed(t)' <= Lapsed(t))
  <2>1. CASE ~moved[t] /\ moved'[t] = TRUE /\ faults' = faults
    BY <2>1, <1>2 DEF Retries, Lapsed, TokensAreNewer
  <2>2. CASE faults'[t] = faults[t] + 1 /\ moved' = moved
    BY <2>2, <1>2 DEF Retries, Lapsed, TokensAreNewer
  <2>3. CASE token[t] < current /\ creds' = None /\ faults' = faults /\ moved' = moved
    <3>1. Lapsed(t)' = Lapsed(t) + 1
      BY <2>3, <1>2 DEF Retries, Lapsed
    <3>2. token[t] \in Nat /\ Lapsed(t) <= token[t]
      BY DEF Retries, TokensAreNewer
    <3>3. Lapsed(t) \in Int
      BY LapsedIsInt
    <3> QED BY <2>3, <3>1, <3>2, <3>3, <1>2
  <2> QED BY <2>1, <2>2, <2>3 DEF Retries
<1>5. TokensAreNewer'
  <2>1. ASSUME NEW u \in Thread PROVE Lapsed(u)' <= current' /\ (creds' # None => Lapsed(u)' <= creds')
    <3>1. CASE u # t
      BY <3>1, <1>1, <1>3 DEF TokensAreNewer
    <3>2. CASE u = t
      <4>1. Lapsed(t) \in Int /\ Lapsed(t)' \in Int
        BY LapsedIsInt, <1>2 DEF RequestTypeOK, Lapsed
      <4>2. creds' # None => creds' \in Nat /\ Lapsed(t) <= creds'
        BY <1>3, TokenSet DEF TokensAreNewer, RequestTypeOK
      <4> QED BY <3>2, <1>4, <4>1, <4>2
    <3> QED BY <3>1, <3>2
  <2>2. ASSUME NEW u \in Thread, at'[u] \in {"locate", "sign", "send"}
        PROVE  token'[u] \in Nat /\ Lapsed(u)' <= token'[u]
    <3>1. u # t
      BY <2>2 DEF Retries
    <3> QED BY <3>1, <2>2, <1>1 DEF Others, TokensAreNewer
  <2> QED BY <2>1, <2>2 DEF TokensAreNewer
<1>6. RegionStays'
  <2>1. region' = region \/ region' = Home
    BY DEF Retries
  <2>2. \A u \in Thread : moved'[u] => moved[u] \/ region' = Home
    BY DEF Retries, Others
  <2>3. answer' = answer
    BY DEF Retries
  <2> QED BY <2>1, <2>2, <2>3 DEF RegionStays, Request!RedirectIsLate
<1>7. GaveUp'
  <2>1. \A u \in Thread : attempt'[u] = attempt[u] \/ attempt'[u] = attempt[u] + 1
    BY DEF Retries, Others
  <2>2. \A u \in Thread : attempt[u] \in Nat
    BY DEF RequestTypeOK
  <2>3. answer' = answer
    BY DEF Retries
  <2>4. ASSUME NEW u \in Thread, attempt[u] >= ATTEMPTS PROVE attempt'[u] >= ATTEMPTS
    BY <2>1, <2>2, <2>4, Bounds
  <2>5. Request!DeniedEnds'
    <3>1. \A u \in Thread : u # t => at'[u] = at[u]
      BY DEF Others
    <3>2. t \notin denied /\ denied \subseteq Thread
      BY DEF Retries, GaveUp, Request!DeniedEnds, RequestTypeOK
    <3> QED BY <2>3, <3>1, <3>2 DEF Retries, GaveUp, Request!DeniedEnds
  <2> QED BY <2>3, <2>4, <2>5 DEF GaveUp
<1> QED BY <1>5, <1>6, <1>7

LEMMA RequestStep ==
  ASSUME PartsAssumption, RequestInv, which = "request", Request!Next
  PROVE  RequestInv'
<1>1. RequestTypeOK /\ TokensAreNewer /\ RegionStays /\ GaveUp
  BY DEF RequestInv
<1>2. CASE Request!Lapse
  <2> USE <1>2 DEF Request!Lapse, Request!mine
  <2>1. UNCHANGED <<region, creds, at, attempt, moved, token, faults, denied, answer>>
    OBVIOUS
  <2>2. current' \in 0..MaxLapses /\ current <= current' /\ current \in Nat /\ current' \in Nat
    BY <1>1, Bounds DEF RequestTypeOK
  <2> HIDE <1>2 DEF Request!Lapse, Request!mine
  <2>3. RequestTypeOK'
    BY <1>1, <2>1, <2>2 DEF RequestTypeOK
  <2>4. \A u \in Thread : Lapsed(u)' = Lapsed(u)
    BY <2>1, LapsedRests
  <2>5. \A u \in Thread : Lapsed(u) \in Int /\ Lapsed(u) <= current
    BY <1>1, LapsedIsInt DEF TokensAreNewer
  <2>6. \A u \in Thread : Lapsed(u) <= current'
    BY <2>2, <2>5
  <2>7. TokensAreNewer'
    BY <1>1, <2>1, <2>4, <2>6 DEF TokensAreNewer
  <2>8. RegionStays' /\ GaveUp'
    BY <1>1, <2>1 DEF RegionStays, Request!RedirectIsLate, GaveUp, Request!DeniedEnds
  <2> QED BY <2>3, <2>7, <2>8 DEF RequestInv
<1>3. ASSUME NEW t \in Thread, Request!request_with(t) PROVE RequestInv'
  <2>1. /\ RequestTypeOK' /\ Others(t) /\ current' = current
        /\ Ends(t) \/ Retries(t) \/ GetsToken(t) \/ Goes(t)
    BY <1>1, <1>3, RequestCases
  <2>2. (TokensAreNewer /\ RegionStays /\ GaveUp)'
    BY <1>1, <2>1, EndsStep, RetriesStep, GetsTokenStep, GoesStep
  <2> QED BY <2>1, <2>2 DEF RequestInv
<1> QED BY <1>2, <1>3 DEF Request!Next

\* Attempts are faults, the move and lapsed tokens, of which there are no more than lapses.
LEMMA RequestEnds == ASSUME PartsAssumption, RequestInv PROVE EndsInAnswer
<1> SUFFICES ASSUME which = "request" PROVE Request!EndsInAnswer
  BY DEF EndsInAnswer
<1>1. RequestTypeOK /\ TokensAreNewer /\ RegionStays /\ GaveUp
  BY DEF RequestInv
<1>2. ASSUME NEW t \in Thread, answer[t] = "gave up" PROVE faults[t] + 1 + MaxLapses >= ATTEMPTS
  <2>1. attempt[t] >= ATTEMPTS /\ Lapsed(t) <= current
    BY <1>1, <1>2 DEF GaveUp, TokensAreNewer
  <2>2. attempt[t] \in Nat /\ faults[t] \in Nat /\ current \in 0..MaxLapses
    BY <1>1 DEF RequestTypeOK
  <2>3. attempt[t] <= faults[t] + 1 + Lapsed(t) /\ Lapsed(t) \in Int
    BY <2>2 DEF Lapsed
  <2> QED BY <2>1, <2>2, <2>3, Bounds
<1>3. \A t \in Thread : answer[t] = "gave up" => t \notin denied
  BY <1>1 DEF GaveUp, Request!DeniedEnds
<1> QED BY <1>1, <1>2, <1>3 DEF Request!EndsInAnswer, Request!GivesUpOnFaults, RegionStays, GaveUp

-----------------------------------------------------------------------------
(* As parts.                                                               *)

S3Inv == UploadInv /\ DownloadInv /\ RequestInv

LEMMA StepsOfS3 ==
  ASSUME [Next]_vars
  PROVE  /\ which' = which
         /\ which = "upload" => [Upload!Next]_<<phase, next, piece, etags, upload, parts, object, unanswered, returned>>
         /\ which = "download" => [Download!Next]_<<version, phase, etag, pieces, piece, out, failed, returned>>
         /\ which = "request" => [Request!Next]_ofRequest
<1>1. CASE Next
  BY <1>1 DEF Next, InWriter, InSinks, ofS3
<1>2. CASE UNCHANGED vars
  BY <1>2 DEF vars, ofS3, ofUpload, ofDownload, ofRequest, ofBoth
<1> QED BY <1>1, <1>2

LEMMA UploadRests ==
  ASSUME which' = which, UploadInv,
         UNCHANGED <<phase, next, piece, etags, upload, parts, object, unanswered, returned>>
  PROVE  UploadInv'
BY DEF UploadInv, UploadTypeOK, PiecesTaken, EtagsArePut, UploadEnds, OkIsWhole, Upload!OkIsWhole,
  NoPartsLeft, Upload!NoPartsLeft

LEMMA DownloadRests ==
  ASSUME which' = which, DownloadInv,
         UNCHANGED <<version, phase, etag, pieces, piece, out, failed, returned>>
  PROVE  DownloadInv'
BY DEF DownloadInv, DownloadTypeOK, RangesLeft, RangesTaken, DownloadEnds, OneVersion, Download!OneVersion

LEMMA RequestRests ==
  ASSUME which' = which, RequestInv, UNCHANGED ofRequest
  PROVE  RequestInv'
<1>1. UNCHANGED <<region, creds, current, at, attempt, moved, token, faults, denied, answer>>
  BY DEF ofRequest
<1> QED BY <1>1 DEF RequestInv, RequestTypeOK, TokensAreNewer, RegionStays, Request!RedirectIsLate, GaveUp, Request!DeniedEnds, Lapsed

LEMMA S3Constants ==
  ASSUME PartsAssumption
  PROVE  Pieces \in Nat \ {0} /\ MaxVersions \in Nat \ {0} /\ Thread # {}
BY DEF PartsAssumption, Upload!S3UploadAssumption, Download!S3DownloadAssumption

LEMMA S3InitOK == ASSUME Init PROVE S3Inv
<1>1. CASE which = "upload"
  BY <1>1, UploadInitOK, S3Constants, PartsAssumption DEF Init, S3Inv, DownloadInv, RequestInv
<1>2. CASE which = "download"
  BY <1>2, DownloadInitOK, S3Constants, PartsAssumption DEF Init, S3Inv, UploadInv, RequestInv
<1>3. CASE which = "request"
  BY <1>3, RequestInitOK, PartsAssumption DEF Init, S3Inv, UploadInv, DownloadInv
<1>4. CASE which \notin {"upload", "download", "request"}
  BY <1>4 DEF S3Inv, UploadInv, DownloadInv, RequestInv
<1> QED BY <1>1, <1>2, <1>3, <1>4

LEMMA S3StepOK == ASSUME S3Inv, [Next]_vars PROVE S3Inv'
<1> USE PartsAssumption
<1>1. UploadInv'
  BY StepsOfS3, UploadStep, UploadRests, S3Constants DEF S3Inv, UploadInv
<1>2. DownloadInv'
  BY StepsOfS3, DownloadStep, DownloadRests, S3Constants DEF S3Inv, DownloadInv
<1>3. RequestInv'
  BY StepsOfS3, RequestStep, RequestRests DEF S3Inv, RequestInv
<1> QED BY <1>1, <1>2, <1>3 DEF S3Inv

\* The inductive invariant of the three.
THEOREM S3Invariant == Spec => []S3Inv
BY S3InitOK, S3StepOK, PTL DEF Spec

\* `write_parts` returns Ok only with every piece in the bucket's object.
THEOREM OkMeansWhole == Spec => []OkIsWhole
<1>1. S3Inv => OkIsWhole
  BY DEF S3Inv, UploadInv, UploadEnds, OkIsWhole
<1> QED BY <1>1, S3Invariant, PTL

\* However `write_parts` returns, the service holds no parts of its upload, unless it did not
\* answer the completion or the abort: "No half-uploaded parts stay behind to be billed".
THEOREM PartsAreGone == Spec => []NoPartsLeft
<1>1. S3Inv => NoPartsLeft
  BY DEF S3Inv, UploadInv, UploadEnds, NoPartsLeft
<1> QED BY <1>1, S3Invariant, PTL

\* What `read` returns in ranges, on however many connections, is of one version of the object.
THEOREM ReadsOneVersion == Spec => []OneVersion
<1>1. S3Inv => OneVersion
  BY DEF S3Inv, DownloadInv, DownloadEnds, OneVersion
<1> QED BY <1>1, S3Invariant, PTL

\* `request_with` gives up only after faults, and returns a redirect as its answer only when
\* another thread has moved to the bucket's region.
THEOREM RequestsEndInAnswers == Spec => []EndsInAnswer
<1>1. S3Inv => EndsInAnswer
  BY RequestEnds, PartsAssumption DEF S3Inv
<1> QED BY <1>1, S3Invariant, PTL

=============================================================================
