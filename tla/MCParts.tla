------------------------------ MODULE MCParts ------------------------------
(***************************************************************************)
(* Parts on their own: of src/glyd-store the fingerprint table, the names, *)
(* the writer thread, and what the S3 backend does on several connections  *)
(* at once; of src/src/lib.rs the ways an output is handed to its sink. An *)
(* initial state chooses one; the others rest.                             *)
(***************************************************************************)
EXTENDS Naturals, Sequences, FiniteSets

CONSTANTS
  HOLDERS, FirstCap, Hashes, MaxIds, MaxInserts, Empty,
  Name, PackName, WriteFails, MaxLen, None,
  CHANNEL, MaxPuts,
  Thread, Region, Home, ATTEMPTS, MaxLapses, Pieces, MaxVersions,
  Worker, Units

VARIABLES which,
  slots, count, header, id, indexed, inserts, lost,
  named, names, refused,
  channel, done, failure, sent, writer, caller, entries, puts, streams, sidecars, index, twice, cut,
  region, creds, current, at, attempt, moved, token, host, scope, faults, denied, answer,
  next, etags, upload, parts, object, unanswered,
  version, etag, pieces, out, failed,
  phase, piece, returned,
  sink, sinkNext, sinkAt, handed, ended,
  task, once, units, turn, slot, error,
  stop, unit, lock, due, decoded, badUnit, ioError,
  filling, batch, spare, filled, open, emptied, hands, result, written

ofTable == <<slots, count, header, id, indexed, inserts, lost>>
ofNames == <<named, names, refused>>
ofWriter == <<channel, done, failure, sent, writer, caller, entries, puts, streams, sidecars, index, twice, cut>>
ofRequest == <<region, creds, current, at, attempt, moved, token, host, scope, faults, denied, answer>>
ofUpload == <<next, etags, upload, parts, object, unanswered>>
ofDownload == <<version, etag, pieces, out, failed>>
ofBoth == <<phase, piece, returned>>
ofS3 == <<ofRequest, ofUpload, ofDownload, ofBoth>>
ofSinks ==
  <<sink, sinkNext, sinkAt, handed, ended, task, once, units, turn, slot, error,
    stop, unit, lock, due, decoded, badUnit, ioError,
    filling, batch, spare, filled, open, emptied, hands, result, written>>
vars == <<which, ofTable, ofNames, ofWriter, ofS3, ofSinks>>

Fingers == INSTANCE FingerTable
Named == INSTANCE Names WITH entries <- named, failed <- refused
Writing == INSTANCE Writer
Request == INSTANCE S3Request
Upload == INSTANCE S3Upload
Download == INSTANCE S3Download
Sinks == INSTANCE MCStreams WITH
  N <- Units, Nobody <- None, which <- sink, next <- sinkNext, at <- sinkAt, slots <- units, writer <- turn,
  failed <- badUnit, io_error <- ioError, caller <- filling

ASSUME PartsAssumption ==
  /\ Fingers!TableAssumption /\ Named!NamesAssumption /\ Writing!WriterAssumption
  /\ Request!S3RequestAssumption /\ Upload!S3UploadAssumption /\ Download!S3DownloadAssumption
  /\ Sinks!StreamsAssumption

NoRequest ==
  /\ region = None /\ creds = None /\ current = None /\ at = None /\ attempt = None /\ moved = None
  /\ token = None /\ host = None /\ scope = None /\ faults = None /\ denied = None /\ answer = None
NoUpload ==
  /\ next = None /\ etags = None /\ upload = None /\ parts = None /\ object = None
  /\ unanswered = None
NoDownload == version = None /\ etag = None /\ pieces = None /\ out = None /\ failed = None
NoBoth == phase = None /\ piece = None /\ returned = None
NoSinks ==
  /\ sink = None /\ sinkNext = None /\ sinkAt = None /\ turn = None /\ handed = <<>> /\ ended = "no"
  /\ Sinks!NoCompress /\ Sinks!NoDecode /\ Sinks!NoBatches

Init ==
  /\ Fingers!Init /\ Named!Init /\ Writing!Init
  /\ \/ which \in {"table", "names", "writer"} /\ NoRequest /\ NoUpload /\ NoDownload /\ NoBoth /\ NoSinks
     \/ which = "request" /\ Request!Init /\ NoUpload /\ NoDownload /\ NoBoth /\ NoSinks
     \/ which = "upload" /\ Upload!Init /\ NoRequest /\ NoDownload /\ NoSinks
     \/ which = "download" /\ Download!Init /\ NoRequest /\ NoUpload /\ NoSinks
     \/ which = "sinks" /\ Sinks!Init /\ NoRequest /\ NoUpload /\ NoDownload /\ NoBoth

InWriter(A) == which = "writer" /\ A /\ UNCHANGED <<which, ofTable, ofNames, ofS3, ofSinks>>
InSinks(A) == which = "sinks" /\ A /\ UNCHANGED <<which, ofTable, ofNames, ofWriter, ofS3>>

Next ==
  \/ which = "table" /\ Fingers!Next /\ UNCHANGED <<which, ofNames, ofWriter, ofS3, ofSinks>>
  \/ which = "names" /\ Named!Next /\ UNCHANGED <<which, ofTable, ofWriter, ofS3, ofSinks>>
  \/ InWriter(Writing!Next)
  \/ InSinks(Sinks!Next)
  \/ /\ UNCHANGED <<which, ofTable, ofNames, ofWriter, ofSinks>>
     /\ \/ which = "request" /\ Request!Next /\ UNCHANGED <<ofUpload, ofDownload, ofBoth>>
        \/ which = "upload" /\ Upload!Next /\ UNCHANGED <<ofRequest, ofDownload>>
        \/ which = "download" /\ Download!Next /\ UNCHANGED <<ofRequest, ofUpload>>

\* The fairness of Writer's own specification and of MCStreams'.
Spec ==
  /\ Init /\ [][Next]_vars
  /\ WF_vars(InWriter(Writing!WriterThread)) /\ WF_vars(InWriter(Writing!Call))
  /\ \A w \in Worker : WF_vars(InSinks(Sinks!Works(w)))
  /\ WF_vars(InSinks(Sinks!Writes)) /\ WF_vars(InSinks(Sinks!Calls)) /\ WF_vars(InSinks(Sinks!Ends))

-----------------------------------------------------------------------------
(* Each part's properties; they hold of one that rests.                    *)

\* The probes of the table end, and find what is there.
ProbesSound == Fingers!ProbesSound

\* The table keeps a fingerprint's latest holders, through kills and growth.
ImplementsHolders == Fingers!ImplementsHolders

\* What id_of gives is live, has the name, and no later live object has it.
NameIsLatest == Named!NameIsLatest

\* An object waited for is written, and is the entry's; nothing sent is unwritten when the
\* store writes itself.
WaitedIsWritten == Writing!WaitedIsWritten /\ Writing!AllWritten

\* The index has every object below `done`, in order, whole.
IndexComplete == Writing!IndexComplete

\* Nothing is written after the writer's first failure.
FailureStops == Writing!FailureStops

\* Every call of the store returns.
CallsReturn == Writing!CallsReturn

\* A request ends in its answer, in faults, for want of credentials, or in a redirect that came
\* late.
EndsInAnswer == which = "request" => Request!EndsInAnswer

\* write_parts returns Ok with the whole object in the bucket.
OkIsWhole == which = "upload" => Upload!OkIsWhole

\* "No half-uploaded parts stay behind to be billed".
NoPartsLeft == which = "upload" => Upload!NoPartsLeft

\* What read returns is of one version.
OneVersion == which = "download" => Download!OneVersion

\* compress_stream, compress_max_stream, decode_units_to and stream_batches hand every unit
\* to the sink in order, once, and return Ok only after the last.
ImplementsOrdered == Sinks!ImplementsOrdered

\* The decoders return, whichever units and calls of the sink fail.
DecodersEnd == Sinks!DecodersEnd

=============================================================================
