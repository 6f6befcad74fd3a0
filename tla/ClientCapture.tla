---------------------------- MODULE ClientCapture ----------------------------
(***************************************************************************)
(* The client-capture extension: its popup asks the service worker to      *)
(* capture the active tab; the worker makes sure that the one offscreen    *)
(* document exists and sends it the stream's URL; the document downloads   *)
(* the stream in ranges and uploads the Blob to POST /jobs/upload.         *)
(*                                                                         *)
(* A stream is the sequence of its bytes, 1 .. size; a Blob is the         *)
(* sequence of the parts that were appended.                               *)
(***************************************************************************)
EXTENDS Naturals, Sequences

CONSTANTS
    Capture,    \* captures, each one press of the popup's button
    Sizes,      \* how long the stream may be
    Chunk,      \* RANGE_CHUNK
    MaxDeaths   \* how often Chrome stops the service worker

ASSUME CaptureAssumption ==
    /\ Sizes \subseteq Nat \ {0}
    /\ Chunk \in Nat \ {0}
    /\ MaxDeaths \in Nat

VARIABLES
    size,       \* length of the stream
    capture,    \* how far each capture is, in the worker and in the document
    offscreen,  \* does the offscreen document exist
    waiting,    \* the captures whose answer an open popup waits for
    uploads,    \* Blobs that POST /jobs/upload has accepted, by capture
    deaths,
    odd         \* ghost: captures whose server cut a range short or ignored a later one

captureVars == <<size, capture, offscreen, waiting, uploads, deaths, odd>>

WorkerPc == {"idle", "resolve", "create", "sent", "answered", "lost"}
DocPc == {"idle", "download", "fetch", "upload", "sent"}
Blob == Seq(Nat)
CaptureState == [worker : WorkerPc, doc : DocPc, parts : Blob, total : Nat, ranged : BOOLEAN]
NoCapture == [worker |-> "idle", doc |-> "idle", parts |-> <<>>, total |-> 0,
              ranged |-> FALSE]      \* ghost: a range has been honoured

CaptureInit ==
    /\ size \in Sizes
    /\ capture = [c \in Capture |-> NoCapture]
    /\ offscreen = FALSE
    /\ waiting = {}
    /\ uploads = [c \in Capture |-> <<>>]
    /\ deaths = 0
    /\ odd = {}

--------------------------------------------------------------------------------
(* Popup and service worker *)

\* The button is disabled while its own capture runs; a popup opened anew has a fresh one.
PressCapture(c) ==
    /\ capture[c] = NoCapture /\ waiting = {}
    /\ capture' = [capture EXCEPT ![c].worker = "resolve"]
    /\ waiting' = {c}
    /\ UNCHANGED <<size, offscreen, uploads, deaths, odd>>

CloseCapturePopup ==
    /\ waiting # {} /\ waiting' = {}
    /\ UNCHANGED <<size, capture, offscreen, uploads, deaths, odd>>

Refused(c) ==
    /\ capture' = [capture EXCEPT ![c].worker = "answered"]
    /\ waiting' = waiting \ {c}

SendToDocument(c) == capture' = [capture EXCEPT ![c].worker = "sent", ![c].doc = "download"]

\* No watch page or no stream URL ends it; else the worker looks for the document.
ResolveAudioStream(c) ==
    /\ capture[c].worker = "resolve"
    /\ \/ Refused(c)
       \/ /\ IF offscreen THEN SendToDocument(c)
             ELSE capture' = [capture EXCEPT ![c].worker = "create"]
          /\ UNCHANGED waiting
    /\ UNCHANGED <<size, offscreen, uploads, deaths, odd>>

\* Chrome refuses a second document: of two captures that found none, one fails.
CreateDocument(c) ==
    /\ capture[c].worker = "create"
    /\ IF offscreen
       THEN Refused(c) /\ UNCHANGED offscreen
       ELSE SendToDocument(c) /\ offscreen' = TRUE /\ UNCHANGED waiting
    /\ UNCHANGED <<size, uploads, deaths, odd>>

\* The worker is stopped while it waits; the document goes on, and nobody hears of it.
StopWorker ==
    /\ deaths < MaxDeaths /\ deaths' = deaths + 1
    /\ capture' = [c \in Capture |->
           IF capture[c].worker \in {"idle", "answered"} THEN capture[c]
           ELSE [capture[c] EXCEPT !.worker = "lost"]]
    /\ waiting' = {}
    /\ UNCHANGED <<size, offscreen, uploads, odd>>

\* sendResponse of the document: its answer reaches the worker only if that still waits.
DocumentAnswers(c) ==
    /\ capture' = [capture EXCEPT ![c] = [NoCapture EXCEPT !.doc = "sent",
           !.worker = IF capture[c].worker = "sent" THEN "answered" ELSE capture[c].worker]]
    /\ waiting' = waiting \ {c}

--------------------------------------------------------------------------------
(* The offscreen document *)

Bytes(from, to) == [i \in 1 .. (to - from) |-> from + i]
Least(a, b) == IF a < b THEN a ELSE b

\* What the server can make of "Range: bytes=offset-": any stretch from there on, an empty or
\* too long one among them, the whole stream with a 200, or 416; a 206 may not tell the length.
Response == [status : {200, 206, 416}, from : Nat, to : Nat]
Responses(offset) ==
    {[status |-> 200, from |-> 0, to |-> size], [status |-> 416, from |-> offset, to |-> offset]}
        \cup [status : {206}, from : {offset}, to : offset .. size]

\* The server left out bytes of the range, or ignores Range after it honoured one.
Cut(c, r, offset) ==
    \/ r.status = 200 /\ capture[c].ranged
    \/ r.status # 200 /\ r.to < Least(offset + Chunk, size)

\* Why the loop stops after a body: Range ignored, nothing came, all there, or a short read.
LastChunk_NoStatus(r, received, offset, total) ==
    \/ received = 0
    \/ (total # 0 /\ offset >= total)
    \/ received < Chunk
LastChunk_TotalOnly(r, received, offset, total) ==
    r.status = 200 \/ (total # 0 /\ offset >= total)
LastChunk(r, received, offset, total) ==
    \/ r.status = 200
    \/ received = 0
    \/ (total # 0 /\ offset >= total)
    \/ received < Chunk

RequestRange(c) ==
    /\ capture[c].doc = "download"
    /\ capture' = [capture EXCEPT ![c].doc = "fetch"]
    /\ UNCHANGED <<size, offscreen, waiting, uploads, deaths, odd>>

\* The answer to a range is appended, and the loop goes on or hands over to the upload,
\* unless it ends with no byte at all.
RangeArrives(c, r, told) ==
    LET offset == Len(capture[c].parts)
        received == r.to - r.from
        total == IF capture[c].total = 0 THEN told ELSE capture[c].total
        stops == r.status = 416 \/ LastChunk(r, received, offset + received, total)
    IN /\ r.status = 416 => told = 0
       /\ IF stops /\ offset + received = 0
          THEN DocumentAnswers(c) /\ UNCHANGED odd
          ELSE /\ capture' = [capture EXCEPT ![c] = [@ EXCEPT
                      !.parts = capture[c].parts \o Bytes(r.from, r.to),
                      !.total = total,
                      !.ranged = capture[c].ranged \/ r.status = 206,
                      !.doc = IF stops THEN "upload" ELSE "download"]]
               /\ odd' = IF Cut(c, r, offset) THEN odd \cup {c} ELSE odd
               /\ UNCHANGED waiting

ReceiveRange(c) ==
    /\ capture[c].doc = "fetch"
    /\ \/ /\ DocumentAnswers(c)                             \* any other status, or no answer
          /\ UNCHANGED odd
       \/ \E r \in Responses(Len(capture[c].parts)), told \in {0, size} : RangeArrives(c, r, told)
    /\ UNCHANGED <<size, offscreen, uploads, deaths>>

UploadToScribe(c) ==
    /\ capture[c].doc = "upload"
    /\ \E ok \in BOOLEAN :
        /\ DocumentAnswers(c)
        /\ uploads' = IF ok THEN [uploads EXCEPT ![c] = capture[c].parts] ELSE uploads
    /\ UNCHANGED <<size, offscreen, deaths, odd>>

--------------------------------------------------------------------------------

CaptureStep(c) == \/ ResolveAudioStream(c) \/ CreateDocument(c)
                  \/ RequestRange(c) \/ ReceiveRange(c) \/ UploadToScribe(c)
CaptureNext == \/ \E c \in Capture : PressCapture(c) \/ CaptureStep(c)
               \/ CloseCapturePopup
               \/ StopWorker

CaptureFair == \A c \in Capture : WF_captureVars(CaptureStep(c))
CaptureSpec == CaptureInit /\ [][CaptureNext]_captureVars /\ CaptureFair

--------------------------------------------------------------------------------
(* Properties *)

CaptureTypeOK ==
    /\ size \in Sizes /\ offscreen \in BOOLEAN /\ waiting \subseteq Capture
    /\ capture \in [Capture -> CaptureState]
    /\ uploads \in [Capture -> Blob]
    /\ deaths \in 0 .. MaxDeaths /\ odd \subseteq Capture

\* What Scribe accepts is the whole stream, every byte once and in order, whether or not
\* the server tells the length, ends on a chunk boundary or ignores Range altogether --
\* unless the server cut a range short or changed its mind about Range half way.
UploadIsWhole ==
    \A c \in Capture : uploads[c] # <<>> => uploads[c] = Bytes(0, size) \/ c \in odd

\* The download loop ends, whatever the server answers: in the end no document is at work.
CaptureEnds == <>[](\A c \in Capture : capture[c].doc \in {"idle", "sent"})
=============================================================================
