------------------------------ MODULE ClientProofs ------------------------------
(***************************************************************************)
(* Proofs about the web client and the client-capture extension: one       *)
(* inductive invariant per part, for any jobs, transcripts, users, keys    *)
(* and failures, and at the end the theorems about all of them together.   *)
(***************************************************************************)
EXTENDS MCClient, SequenceTheorems, FunctionTheorems, FiniteSetTheorems, WellFoundedInduction, TLAPS

--------------------------------------------------------------------------------
(* PollLoop: in a hidden tab every operation on a loop leaves it without a *)
(* timer, and starts nothing.                                              *)

\* What the transcript's loop reads is what the route wants.
ReadsRoutes == reading.now \in {want, NoTranscript}

PollIInv == PollTypeOK /\ HiddenIsQuiet /\ TranscriptIsRoutes /\ ReadsRoutes

--------------------------------------------------------------------------------
(* One loop *)

\* Ticking and settling keep the type of a loop, and set no timer while the tab is hidden.
LEMMA TickQuiet ==
    ASSUME NEW s \in LoopState, NEW visible \in BOOLEAN
    PROVE  /\ Tick(s, visible) \in LoopState
           /\ ~visible => ~Tick(s, visible).timer /\ Tick(s, visible).running = s.running
BY DEF Tick, Starts, Schedule, LoopState

LEMMA SettledQuiet ==
    ASSUME NEW s \in LoopState
    PROVE  Settled(s) \in LoopState /\ (~Visible => ~Settled(s).timer)
BY DEF Settled, Schedule, LoopState, Visible

LEMMA NewLoopQuiet ==
    /\ Stopped \in LoopState /\ ~Stopped.timer
    /\ NewLoop \in LoopState
    /\ ~Visible => ~NewLoop.timer /\ ~NewLoop.running
<1>1. [Stopped EXCEPT !.on = TRUE] \in LoopState /\ ~[Stopped EXCEPT !.on = TRUE].running
    BY DEF Stopped, LoopState
<1>2. Visible \in BOOLEAN
    BY DEF Visible
<1> QED
    BY <1>1, <1>2, TickQuiet DEF NewLoop, Stopped, LoopState

LEMMA FetchTyped ==
    /\ NoFetch \in FetchState /\ Sent \in FetchState /\ NoFetch.at = "none"
    /\ \A x \in FetchState : /\ Abort(x) \in FetchState
                             /\ Abort(x).at # "none" => Abort(x).aborted
<1>1. NoFetch \in FetchState /\ NoFetch.at = "none"
    BY PollAssumption DEF NoFetch, FetchState
<1>2. Sent \in FetchState
    BY <1>1 DEF Sent, FetchState
<1>3. ASSUME NEW x \in FetchState
      PROVE  Abort(x) \in FetchState /\ (Abort(x).at # "none" => Abort(x).aborted)
    BY DEF Abort, FetchState
<1> QED
    BY <1>1, <1>2, <1>3

--------------------------------------------------------------------------------

LEMMA PollInitHolds == PollInit => PollIInv
<1> SUFFICES ASSUME PollInit PROVE PollIInv
    OBVIOUS
<1>1. PollTypeOK
    BY NewLoopQuiet, FetchTyped, PollAssumption DEF PollInit, PollTypeOK
<1>2. HiddenIsQuiet
    BY DEF PollInit, HiddenIsQuiet, Stopped, NoFetch, Fetcher
<1> QED
    BY <1>1, <1>2 DEF PollInit, PollIInv, TranscriptIsRoutes, ReadsRoutes

--------------------------------------------------------------------------------
(* The tab *)

LEMMA HideKeeps == PollIInv /\ Hide => PollIInv'
<1> SUFFICES ASSUME PollIInv, Hide PROVE PollIInv'
    OBVIOUS
<1> USE DEF PollIInv, Hide
<1>1. \A l \in Loops : OnHide(loop[l]) \in LoopState /\ ~OnHide(loop[l]).timer
    BY DEF PollTypeOK, OnHide, LoopState
<1>2. PollTypeOK'
    BY <1>1, FetchTyped DEF PollTypeOK, Fetcher
<1>3. HiddenIsQuiet'
    BY <1>1, FetchTyped DEF PollTypeOK, HiddenIsQuiet, Fetcher
<1> QED
    BY <1>2, <1>3 DEF TranscriptIsRoutes, ReadsRoutes

LEMMA ShowKeeps == PollIInv /\ Show => PollIInv'
<1> SUFFICES ASSUME PollIInv, Show PROVE PollIInv'
    OBVIOUS
<1> USE DEF PollIInv, Show
<1>1. \A l \in Loops : OnShow(loop[l]) \in LoopState
    BY TickQuiet DEF PollTypeOK, OnShow
<1>2. PollTypeOK'
    BY <1>1, FetchTyped DEF PollTypeOK, SendsCore, Fetcher
<1>3. HiddenIsQuiet'
    BY DEF HiddenIsQuiet, Visible
<1> QED
    BY <1>2, <1>3 DEF TranscriptIsRoutes, ReadsRoutes

--------------------------------------------------------------------------------
(* The core *)

\* Of the session and the bootstrap a step changes nothing but auth, loops and fetches.
LEMMA SessionKeeps ==
    ASSUME PollIInv, NEW a \in [ready : BOOLEAN, signedIn : BOOLEAN, was : BOOLEAN], Session(a),
           UNCHANGED <<tab, version, core, want, got, reading, fetchFaults>>
    PROVE  PollIInv'
<1> USE DEF PollIInv, Session
<1>1. auth' \in [ready : BOOLEAN, signedIn : BOOLEAN, was : BOOLEAN]
    BY DEF PollTypeOK
<1>2. \A l \in Loops : loop'[l] \in LoopState /\ (~Visible => ~loop'[l].timer)
    BY NewLoopQuiet DEF PollTypeOK, HiddenIsQuiet, Loops
<1>3. \A f \in Fetcher : fetch'[f] \in FetchState
    BY FetchTyped DEF PollTypeOK, Fetcher
<1>4. ~Visible /\ fetch'["loop"].at # "none" => fetch'["loop"].aborted
    BY FetchTyped, NewLoopQuiet DEF PollTypeOK, HiddenIsQuiet, Fetcher
<1>5. PollTypeOK'
    BY <1>1, <1>2, <1>3 DEF PollTypeOK
<1>6. HiddenIsQuiet'
    BY <1>2, <1>4 DEF HiddenIsQuiet, Visible
<1> QED
    BY <1>5, <1>6 DEF TranscriptIsRoutes, ReadsRoutes

LEMMA CoreTimerKeeps == PollIInv /\ CoreTimer => PollIInv'
<1> SUFFICES ASSUME PollIInv, CoreTimer PROVE PollIInv'
    OBVIOUS
<1> USE DEF PollIInv, CoreTimer
<1>1. Visible
    BY DEF HiddenIsQuiet, Loops
<1>2. [loop["core"] EXCEPT !.timer = FALSE] \in LoopState
    BY DEF PollTypeOK, LoopState, Loops
<1>3. PollTypeOK'
    BY <1>1, <1>2, TickQuiet, FetchTyped DEF PollTypeOK, SendsCore, Loops, Fetcher
<1> QED
    BY <1>1, <1>3 DEF HiddenIsQuiet, Visible, TranscriptIsRoutes, ReadsRoutes

\* A fetch that settles leaves its loop without a timer if the tab is hidden.
LEMMA CoreSettlesQuiet ==
    ASSUME PollIInv, NEW f \in Fetcher, CoreSettles(f), UNCHANGED <<tab, reading>>
    PROVE  /\ fetch' \in [Fetcher -> FetchState] /\ loop' \in [Loops -> LoopState]
           /\ HiddenIsQuiet'
<1> USE DEF PollIInv, CoreSettles
<1>1. /\ fetch' \in [Fetcher -> FetchState] /\ fetch'[f].at = "none"
      /\ \A g \in Fetcher \ {f} : fetch'[g] = fetch[g]
    BY FetchTyped DEF PollTypeOK
<1>2. \A l \in Loops : loop'[l] \in LoopState /\ (~Visible => ~loop'[l].timer)
    BY SettledQuiet DEF PollTypeOK, HiddenIsQuiet, Loops
<1>3. loop' \in [Loops -> LoopState]
    BY <1>2 DEF PollTypeOK
<1> QED
    BY <1>1, <1>2, <1>3 DEF HiddenIsQuiet, Visible, Fetcher

LEMMA CoreMovesKeeps ==
    ASSUME PollIInv, NEW f \in Fetcher, CoreMoves(f)
    PROVE  PollIInv'
<1> USE DEF PollIInv
<1>1. CASE CoreAnswers(f)
    <2>1. fetch' \in [Fetcher -> FetchState]
        BY <1>1 DEF CoreAnswers, PollTypeOK, FetchState
    <2>2. HiddenIsQuiet'
        BY <1>1 DEF CoreAnswers, PollTypeOK, HiddenIsQuiet, Visible, FetchState, Fetcher
    <2> QED
        BY <1>1, <2>1, <2>2 DEF CoreAnswers, PollTypeOK, TranscriptIsRoutes, ReadsRoutes
<1>2. CASE CoreFails(f)
    <2>1. /\ core' \in [v : 0 .. MaxVersion, extras : BOOLEAN, error : BOOLEAN]
          /\ fetchFaults' \in 0 .. MaxFetchFaults
        <3>1. CASE fetch[f].aborted
            BY <1>2, <3>1 DEF CoreFails, PollTypeOK
        <3>2. CASE ~fetch[f].aborted
            <4>1. core' = [core EXCEPT !.error = TRUE] /\ fetchFaults < MaxFetchFaults
                  /\ fetchFaults' = fetchFaults + 1
                BY <1>2, <3>2 DEF CoreFails
            <4>2. core' \in [v : 0 .. MaxVersion, extras : BOOLEAN, error : BOOLEAN]
                BY <4>1 DEF PollTypeOK
            <4> QED
                BY <4>1, <4>2, PollAssumption DEF PollTypeOK
        <3> QED
            BY <3>1, <3>2
    <2> QED
        BY <1>2, <2>1, CoreSettlesQuiet DEF CoreFails, PollTypeOK, TranscriptIsRoutes, ReadsRoutes
<1>3. CASE CoreApplies(f)
    <2>1. /\ core' \in [v : 0 .. MaxVersion, extras : BOOLEAN, error : BOOLEAN]
          /\ fetchFaults' \in 0 .. MaxFetchFaults
        BY <1>3, PollAssumption DEF CoreApplies, PollTypeOK, FetchState
    <2> QED
        BY <1>3, <2>1, CoreSettlesQuiet DEF CoreApplies, PollTypeOK, TranscriptIsRoutes, ReadsRoutes
<1> QED
    BY <1>1, <1>2, <1>3 DEF CoreMoves

LEMMA CoreKeeps == PollIInv /\ CoreNext => PollIInv'
<1> SUFFICES ASSUME PollIInv, CoreNext PROVE PollIInv'
    OBVIOUS
<1>1. CASE ServerChanges
    BY <1>1, PollAssumption DEF PollIInv, ServerChanges, PollTypeOK, HiddenIsQuiet, Visible, TranscriptIsRoutes, ReadsRoutes
<1>2. CASE BootstrapChanges \/ SessionChanges \/ AuthRenders
    BY <1>2, SessionKeeps DEF PollIInv, BootstrapChanges, SessionChanges, AuthRenders, PollTypeOK
<1>3. CASE RefreshByHand
    <2>1. PollTypeOK'
        BY <1>3, FetchTyped DEF PollIInv, RefreshByHand, PollTypeOK
    <2>2. HiddenIsQuiet'
        BY <1>3 DEF PollIInv, RefreshByHand, PollTypeOK, HiddenIsQuiet, Visible, Fetcher
    <2> QED
        BY <1>3, <2>1, <2>2 DEF PollIInv, RefreshByHand, TranscriptIsRoutes, ReadsRoutes
<1> QED
    BY <1>1, <1>2, <1>3, CoreTimerKeeps, CoreMovesKeeps DEF CoreNext

--------------------------------------------------------------------------------
(* The transcript of the route *)

\* The transcript's loop, and what is read for it, after a step that lets it start, settle
\* or stop: quiet in a hidden tab.
LEMMA TranscriptKeeps == PollIInv /\ TranscriptNext => PollIInv'
<1> SUFFICES ASSUME PollIInv, TranscriptNext PROVE PollIInv'
    OBVIOUS
<1> USE DEF PollIInv
<1>1. ASSUME NEW t \in Transcript \cup {NoTranscript}, OpenTranscript(t) PROVE PollIInv'
    <2>1. \A l \in Loops : /\ loop'[l] \in LoopState
                           /\ ~Visible => ~loop'[l].timer
                           /\ ~Visible /\ l = "transcript" => ~loop'[l].running
        BY <1>1, NewLoopQuiet DEF OpenTranscript, PollTypeOK, HiddenIsQuiet, Loops, Stopped
    <2>2. PollTypeOK'
        BY <1>1, <2>1 DEF OpenTranscript, PollTypeOK, Loops
    <2>3. HiddenIsQuiet'
        BY <1>1, <2>1 DEF OpenTranscript, PollTypeOK, HiddenIsQuiet, Visible, Loops
    <2> QED
        BY <1>1, <2>2, <2>3 DEF OpenTranscript, TranscriptIsRoutes, ReadsRoutes
<1>2. ASSUME NEW t \in Transcript \cup {NoTranscript}, AbortedSettles(t) PROVE PollIInv'
    <2>1. \A l \in Loops : loop'[l] \in LoopState /\ (~Visible => ~loop'[l].timer)
        BY <1>2, SettledQuiet DEF AbortedSettles, PollTypeOK, HiddenIsQuiet, Loops
    <2>2. got' = got
        BY <1>2 DEF AbortedSettles, MayWrite
    <2>3. PollTypeOK'
        BY <1>2, <2>1, <2>2 DEF AbortedSettles, PollTypeOK
    <2>4. HiddenIsQuiet'
        BY <1>2, <2>1 DEF AbortedSettles, HiddenIsQuiet, Visible
    <2> QED
        BY <1>2, <2>2, <2>3, <2>4 DEF AbortedSettles, PollTypeOK, TranscriptIsRoutes, ReadsRoutes
<1>3. CASE TranscriptTimer
    <2>1. Visible
        BY <1>3 DEF TranscriptTimer, HiddenIsQuiet, Loops
    <2>2. [loop["transcript"] EXCEPT !.timer = FALSE] \in LoopState
        BY DEF PollTypeOK, LoopState, Loops
    <2>3. PollTypeOK'
        BY <1>3, <2>1, <2>2, TickQuiet DEF TranscriptTimer, PollTypeOK, Loops
    <2> QED
        BY <1>3, <2>1, <2>3 DEF TranscriptTimer, HiddenIsQuiet, Visible, TranscriptIsRoutes, ReadsRoutes
<1>4. CASE TranscriptAnswers
    <2>1. Visible
        BY <1>4 DEF TranscriptAnswers, HiddenIsQuiet
    <2>2. got' \in {want, NoTranscript} /\ fetchFaults' \in 0 .. MaxFetchFaults
        BY <1>4, PollAssumption DEF TranscriptAnswers, MayWrite, PollTypeOK, TranscriptIsRoutes, ReadsRoutes
    <2>3. PollTypeOK'
        BY <1>4, <2>2, SettledQuiet DEF TranscriptAnswers, PollTypeOK, Loops
    <2> QED
        BY <1>4, <2>1, <2>2, <2>3 DEF TranscriptAnswers, HiddenIsQuiet, Visible, TranscriptIsRoutes, ReadsRoutes
<1> QED
    BY <1>1, <1>2, <1>3, <1>4 DEF TranscriptNext

--------------------------------------------------------------------------------
(* Theorems *)

LEMMA PollStepKeeps == PollIInv /\ [PollNext]_pollVars => PollIInv'
<1>1. PollIInv /\ UNCHANGED pollVars => PollIInv'
    BY DEF PollIInv, pollVars, PollTypeOK, HiddenIsQuiet, Visible, TranscriptIsRoutes, ReadsRoutes
<1> QED
    BY <1>1, HideKeeps, ShowKeeps, CoreKeeps, TranscriptKeeps DEF PollNext, TabNext

\* The inductive invariant of the poll loops: their types, the quiet of a hidden tab, and
\* that nothing is read or kept but the route's transcript.
THEOREM PollInvariant == PollSpec => []PollIInv
BY PollInitHolds, PollStepKeeps, PTL DEF PollSpec

\* Every reachable state of the poll loops is well typed.
THEOREM PollTypeCorrect == PollSpec => []PollTypeOK
BY PollInvariant, PTL DEF PollIInv

\* createPollLoop: no timer and no live request in a hidden tab.
THEOREM HiddenTabsAreQuiet == PollSpec => []HiddenIsQuiet
BY PollInvariant, PTL DEF PollIInv

\* refreshTranscript: the transcript on the page is the route's.
THEOREM TranscriptsAreTheRoutes == PollSpec => []TranscriptIsRoutes
BY PollInvariant, PTL DEF PollIInv

--------------------------------------------------------------------------------
(* ClientCapture: until the server strays, the parts are a first stretch   *)
(* of the stream, and the whole of it once they are uploaded.              *)

\* Two stretches of the stream that meet are one.
LEMMA StretchesMeet ==
    ASSUME NEW n \in Nat, NEW m \in Nat, n <= m
    PROVE  /\ Bytes(0, n) \in Blob /\ Len(Bytes(0, n)) = n
           /\ Bytes(n, m) \in Blob /\ Len(Bytes(n, m)) = m - n
           /\ Bytes(0, n) \o Bytes(n, m) = Bytes(0, m)
<1>1. Bytes(0, n) \in Blob /\ Len(Bytes(0, n)) = n
    BY DEF Bytes, Blob
<1>2. Bytes(n, m) \in Blob /\ Len(Bytes(n, m)) = m - n
    BY DEF Bytes, Blob
<1>3. Bytes(0, m) \in Blob /\ Len(Bytes(0, m)) = m
    BY DEF Bytes, Blob
<1>4. \A i \in 1 .. m : (Bytes(0, n) \o Bytes(n, m))[i] = Bytes(0, m)[i]
    BY <1>1, <1>2 DEF Bytes, Blob
<1>5. Bytes(0, n) \o Bytes(n, m) \in Blob /\ Len(Bytes(0, n) \o Bytes(n, m)) = m
    BY <1>1, <1>2 DEF Blob
<1> QED
    BY <1>1, <1>2, <1>3, <1>4, <1>5, SeqEqual DEF Blob

\* What a capture that the server dealt with straight has of the stream.
Straight(c) ==
    c \notin odd =>
        /\ capture[c].parts = Bytes(0, Len(capture[c].parts)) /\ Len(capture[c].parts) <= size
        /\ capture[c].doc = "upload" => Len(capture[c].parts) = size
        /\ capture[c].doc # "upload" /\ ~capture[c].ranged => Len(capture[c].parts) = 0

\* The document starts once, and the length it was told is the stream's.
Started(c) ==
    /\ capture[c].worker \in {"idle", "resolve", "create"} => capture[c].doc = "idle"
    /\ capture[c].total \in {0, size}

CaptureIInv ==
    /\ CaptureTypeOK /\ UploadIsWhole
    /\ \A c \in Capture : Straight(c) /\ Started(c)

LEMMA EmptyStretch == Bytes(0, 0) = <<>> /\ <<>> \in Blob /\ Len(<<>>) = 0
BY StretchesMeet, EmptySeq DEF Blob

LEMMA NoCaptureTyped == NoCapture \in CaptureState
BY EmptyStretch DEF NoCapture, CaptureState, WorkerPc, DocPc

\* A step that leaves every capture alone, or takes it to a state that is as straight, keeps
\* the invariant.
LEMMA StraightKeeps ==
    ASSUME CaptureIInv, NEW c \in Capture, NEW s \in CaptureState,
           capture' = [capture EXCEPT ![c] = s], UNCHANGED <<size, uploads, odd>>,
           \/ s.parts = capture[c].parts /\ s.ranged = capture[c].ranged
              /\ (s.doc = "upload") = (capture[c].doc = "upload")
           \/ s.parts = <<>> /\ s.doc # "upload",
           s.worker \in {"idle", "resolve", "create"} => s.doc = "idle",
           s.total \in {0, size},
           offscreen' \in BOOLEAN, waiting' \subseteq Capture, deaths' \in 0 .. MaxDeaths
    PROVE  CaptureIInv'
<1> USE DEF CaptureIInv
<1>1. /\ capture' \in [Capture -> CaptureState] /\ capture'[c] = s
      /\ \A d \in Capture \ {c} : capture'[d] = capture[d]
    BY DEF CaptureTypeOK
<1>2. CaptureTypeOK'
    BY <1>1 DEF CaptureTypeOK
<1>3. UploadIsWhole'
    BY DEF UploadIsWhole, Bytes
<1>4. \A d \in Capture : Straight(d)'
    BY <1>1, EmptyStretch, CaptureAssumption DEF Straight, Bytes, CaptureTypeOK
<1>5. \A d \in Capture : Started(d)'
    BY <1>1 DEF Started
<1> QED
    BY <1>2, <1>3, <1>4, <1>5

LEMMA CaptureInitHolds == CaptureInit => CaptureIInv
<1> SUFFICES ASSUME CaptureInit PROVE CaptureIInv
    OBVIOUS
<1>1. CaptureTypeOK
    <2>1. capture \in [Capture -> CaptureState]
        BY NoCaptureTyped DEF CaptureInit
    <2>2. uploads \in [Capture -> Blob]
        BY EmptyStretch DEF CaptureInit
    <2>3. deaths \in 0 .. MaxDeaths
        BY CaptureAssumption DEF CaptureInit
    <2> QED
        BY <2>1, <2>2, <2>3 DEF CaptureInit, CaptureTypeOK
<1>2. UploadIsWhole
    BY DEF CaptureInit, UploadIsWhole
<1>3. \A c \in Capture : Straight(c) /\ Started(c)
    BY EmptyStretch, CaptureAssumption DEF CaptureInit, Straight, Started, NoCapture
<1> QED
    BY <1>1, <1>2, <1>3 DEF CaptureIInv

\* Of a capture at "download" or before, the popup and the worker change nothing but its
\* places, and "download" follows on "idle".
LEMMA PlacesKeep ==
    ASSUME CaptureIInv, NEW c \in Capture, NEW w \in WorkerPc, NEW d \in DocPc,
           capture' = [capture EXCEPT ![c].worker = w, ![c].doc = d],
           UNCHANGED <<size, uploads, odd>>,
           (d = "upload") = (capture[c].doc = "upload"),
           w \in {"idle", "resolve", "create"} => d = "idle",
           offscreen' \in BOOLEAN, waiting' \subseteq Capture, deaths' \in 0 .. MaxDeaths
    PROVE  CaptureIInv'
<1> DEFINE s == [capture[c] EXCEPT !.worker = w, !.doc = d]
<1>1. capture[c] \in CaptureState
    BY DEF CaptureIInv, CaptureTypeOK
<1>2. s \in CaptureState /\ s.parts = capture[c].parts /\ s.ranged = capture[c].ranged
      /\ s.doc = d /\ s.worker = w /\ s.total = capture[c].total
    BY <1>1 DEF CaptureState
<1>3. capture' = [capture EXCEPT ![c] = s]
    BY DEF CaptureIInv, CaptureTypeOK
<1>4. s.total \in {0, size}
    BY <1>2 DEF CaptureIInv, Started
<1> HIDE DEF s
<1> QED
    BY <1>2, <1>3, <1>4, StraightKeeps

\* The same when only the worker's place changes.
LEMMA WorkerPlaceKeeps ==
    ASSUME CaptureIInv, NEW c \in Capture, NEW w \in WorkerPc,
           capture' = [capture EXCEPT ![c].worker = w],
           UNCHANGED <<size, uploads, odd>>,
           w \in {"idle", "resolve", "create"} => capture[c].doc = "idle",
           offscreen' \in BOOLEAN, waiting' \subseteq Capture, deaths' \in 0 .. MaxDeaths
    PROVE  CaptureIInv'
<1>1. capture[c] \in CaptureState
    BY DEF CaptureIInv, CaptureTypeOK
<1> DEFINE s == [capture[c] EXCEPT !.worker = w]
<1>2. s \in CaptureState /\ s.parts = capture[c].parts /\ s.ranged = capture[c].ranged
      /\ s.doc = capture[c].doc /\ s.worker = w /\ s.total = capture[c].total
    BY <1>1 DEF CaptureState
<1>3. capture' = [capture EXCEPT ![c] = s]
    OBVIOUS
<1>4. s.total \in {0, size}
    BY <1>2 DEF CaptureIInv, Started
<1> HIDE DEF s
<1> QED
    BY <1>2, <1>3, <1>4, StraightKeeps

\* The answer of the document ends the capture: its parts are gone.
LEMMA AnswerKeeps ==
    ASSUME CaptureIInv, NEW c \in Capture, DocumentAnswers(c), capture[c].doc \in {"fetch", "upload"},
           UNCHANGED <<size, uploads, odd, offscreen, deaths>>
    PROVE  CaptureIInv'
<1> DEFINE w == IF capture[c].worker = "sent" THEN "answered" ELSE capture[c].worker
           s == [NoCapture EXCEPT !.doc = "sent", !.worker = w]
<1>1. capture[c] \in CaptureState /\ Started(c) /\ waiting \subseteq Capture
      /\ deaths \in 0 .. MaxDeaths /\ offscreen \in BOOLEAN
    BY DEF CaptureIInv, CaptureTypeOK
<1>2. w \in WorkerPc /\ w \notin {"idle", "resolve", "create"}
    BY <1>1 DEF Started, CaptureState, WorkerPc
<1>3. s \in CaptureState /\ s.parts = <<>> /\ s.doc = "sent" /\ s.worker = w /\ s.total = 0
    BY <1>2, NoCaptureTyped DEF CaptureState, NoCapture, DocPc
<1>4. capture' = [capture EXCEPT ![c] = s] /\ waiting' \subseteq Capture
    BY <1>1 DEF DocumentAnswers
<1> HIDE DEF s, w
<1> QED
    BY <1>1, <1>2, <1>3, <1>4, StraightKeeps

LEMMA PopupKeeps ==
    ASSUME CaptureIInv, \/ \E c \in Capture : PressCapture(c)
                        \/ CloseCapturePopup
    PROVE  CaptureIInv'
<1>1. ASSUME NEW c \in Capture, PressCapture(c) PROVE CaptureIInv'
    <2>1. /\ capture' = [capture EXCEPT ![c].worker = "resolve"] /\ waiting' = {c}
          /\ UNCHANGED <<size, offscreen, uploads, deaths, odd>> /\ capture[c].doc = "idle"
        BY <1>1 DEF PressCapture, NoCapture
    <2>2. /\ "resolve" \in WorkerPc /\ offscreen' \in BOOLEAN /\ waiting' \subseteq Capture
          /\ deaths' \in 0 .. MaxDeaths
        BY <2>1 DEF CaptureIInv, CaptureTypeOK, WorkerPc
    <2> QED
        BY <2>1, <2>2, WorkerPlaceKeeps
<1>2. CASE CloseCapturePopup
    <2>1. CaptureTypeOK'
        BY <1>2 DEF CloseCapturePopup, CaptureIInv, CaptureTypeOK
    <2>2. UploadIsWhole' /\ \A c \in Capture : Straight(c)' /\ Started(c)'
        BY <1>2 DEF CloseCapturePopup, CaptureIInv, UploadIsWhole, Straight, Started, Bytes
    <2> QED
        BY <2>1, <2>2 DEF CaptureIInv
<1> QED
    BY <1>1, <1>2

LEMMA ResolveKeeps ==
    ASSUME CaptureIInv, NEW c \in Capture, ResolveAudioStream(c) \/ CreateDocument(c)
    PROVE  CaptureIInv'
<1>1. /\ capture[c].doc = "idle" /\ waiting \subseteq Capture /\ waiting \ {c} \subseteq Capture
      /\ deaths \in 0 .. MaxDeaths /\ offscreen \in BOOLEAN /\ Capture # {}
    BY DEF CaptureIInv, CaptureTypeOK, Started, ResolveAudioStream, CreateDocument
<1>2. /\ UNCHANGED <<size, uploads, odd>> /\ waiting' \subseteq Capture
      /\ deaths' \in 0 .. MaxDeaths /\ offscreen' \in BOOLEAN
      /\ Refused(c) \/ SendToDocument(c) \/ capture' = [capture EXCEPT ![c].worker = "create"]
    BY <1>1 DEF ResolveAudioStream, CreateDocument, Refused
<1>3. {"answered", "sent", "create"} \subseteq WorkerPc /\ "download" \in DocPc
    BY DEF WorkerPc, DocPc
<1> QED
    BY <1>1, <1>2, <1>3, WorkerPlaceKeeps, PlacesKeep DEF Refused, SendToDocument

LEMMA StopKeeps == CaptureIInv /\ StopWorker => CaptureIInv'
<1> SUFFICES ASSUME CaptureIInv, StopWorker PROVE CaptureIInv'
    OBVIOUS
<1> USE DEF CaptureIInv
<1>1. \A c \in Capture : /\ capture'[c] \in CaptureState
                         /\ capture'[c].parts = capture[c].parts /\ capture'[c].doc = capture[c].doc
                         /\ capture'[c].total = capture[c].total
                         /\ capture'[c].ranged = capture[c].ranged
                         /\ capture'[c].worker \in {capture[c].worker, "lost"}
    <2> TAKE c \in Capture
    <2>1. capture[c] \in CaptureState
        BY DEF CaptureTypeOK
    <2>2. capture'[c] \in {capture[c], [capture[c] EXCEPT !.worker = "lost"]}
        BY DEF StopWorker
    <2> QED
        BY <2>1, <2>2 DEF CaptureState, WorkerPc
<1>2. CaptureTypeOK'
    BY <1>1, CaptureAssumption DEF StopWorker, CaptureTypeOK
<1>3. UploadIsWhole'
    BY DEF StopWorker, UploadIsWhole, Bytes
<1>4. \A c \in Capture : Straight(c)' /\ Started(c)'
    BY <1>1 DEF StopWorker, Straight, Started, Bytes
<1> QED
    BY <1>2, <1>3, <1>4

\* What an answered range adds to a straight capture: the next stretch, the last one if the
\* loop stops after it.
LEMMA RangeExtends ==
    ASSUME size \in Nat \ {0}, NEW n \in 0 .. size, NEW r \in Responses(n),
           NEW total \in {0, size},
           r.status = 200 => n = 0,
           r.status # 200 => r.to >= Least(n + Chunk, size)
    PROVE  /\ n + (r.to - r.from) \in 0 .. size
           /\ Bytes(0, n) \o Bytes(r.from, r.to) = Bytes(0, n + (r.to - r.from))
           /\ r.status = 416 \/ LastChunk(r, r.to - r.from, n + (r.to - r.from), total)
                => n + (r.to - r.from) = size
           /\ r.status \notin {206, 416} => n + (r.to - r.from) = size
<1>1. CASE r.status = 200
    <2>1. r = [status |-> 200, from |-> 0, to |-> size]
        BY <1>1 DEF Responses
    <2>2. n = 0 /\ r.from = 0 /\ r.to = size /\ r.status = 200
        BY <2>1, <1>1
    <2>3. Bytes(0, 0) \o Bytes(0, size) = Bytes(0, size)
        <3>1. 0 \in Nat /\ size \in Nat /\ 0 <= size
            OBVIOUS
        <3> QED
            BY <3>1, StretchesMeet
    <2> QED
        BY <2>2, <2>3
<1>2. CASE r.status # 200
    <2>1. r.status \in {206, 416} /\ r.from = n /\ r.to \in n .. size /\ (r.status = 416 => r.to = n)
        BY <1>2 DEF Responses
    <2>2. r.to >= Least(n + Chunk, size) /\ Chunk \in Nat \ {0}
        BY <1>2, CaptureAssumption
    <2>3. Bytes(0, n) \o Bytes(n, r.to) = Bytes(0, r.to)
        <3>1. n \in Nat /\ r.to \in Nat /\ n <= r.to
            BY <2>1
        <3> QED
            BY <3>1, StretchesMeet
    <2>4. r.status = 416 => r.to = size
        BY <2>1, <2>2 DEF Least
    <2>5. LastChunk(r, r.to - n, r.to, total) => r.to = size
        BY <2>1, <2>2 DEF LastChunk, Least
    <2>6. n + (r.to - r.from) = r.to /\ r.to - r.from = r.to - n
        BY <2>1
    <2> QED
        BY <2>1, <2>3, <2>4, <2>5, <2>6
<1> QED
    BY <1>1, <1>2

\* The parts stay a Blob whatever is answered.
LEMMA ResponseTyped ==
    ASSUME size \in Nat \ {0}, NEW n \in Nat, NEW r \in Responses(n)
    PROVE  r.status \in {200, 206, 416} /\ r.from \in Nat /\ r.to \in Nat /\ r.from <= r.to
           /\ Bytes(r.from, r.to) \in Blob
<1>1. r.status \in {200, 206, 416} /\ r.from \in Nat /\ r.to \in Nat /\ r.from <= r.to
    BY CaptureAssumption DEF Responses, Least
<1>2. Bytes(r.from, r.to) \in Blob
    BY <1>1 DEF Bytes, Blob
<1> QED
    BY <1>1, <1>2

LEMMA ReceiveKeeps ==
    ASSUME CaptureIInv, NEW c \in Capture, ReceiveRange(c)
    PROVE  CaptureIInv'
<1> DEFINE offset == Len(capture[c].parts)
<1>1. /\ capture[c] \in CaptureState /\ capture[c].doc = "fetch" /\ size \in Nat \ {0}
      /\ offset \in Nat /\ capture[c].total \in {0, size} /\ odd \subseteq Capture
      /\ UNCHANGED <<size, offscreen, uploads, deaths>>
    <2>1. capture[c] \in CaptureState /\ size \in Nat \ {0} /\ odd \subseteq Capture
        BY CaptureAssumption DEF CaptureIInv, CaptureTypeOK
    <2>2. offset \in Nat
        BY <2>1, LenProperties DEF CaptureState, Blob
    <2>3. capture[c].total \in {0, size}
        BY DEF CaptureIInv, Started
    <2> QED
        BY <2>1, <2>2, <2>3 DEF ReceiveRange
<1>2. CASE DocumentAnswers(c) /\ UNCHANGED odd
    BY <1>1, <1>2, AnswerKeeps
<1>3. ASSUME NEW r \in Responses(offset), NEW told \in {0, size}, RangeArrives(c, r, told)
      PROVE  CaptureIInv'
    <2> DEFINE received == r.to - r.from
               total == IF capture[c].total = 0 THEN told ELSE capture[c].total
               stops == r.status = 416 \/ LastChunk(r, received, offset + received, total)
               parts == capture[c].parts \o Bytes(r.from, r.to)
               ranged == capture[c].ranged \/ r.status = 206
               doc == IF stops THEN "upload" ELSE "download"
    <2>1. /\ r.status \in {200, 206, 416} /\ Bytes(r.from, r.to) \in Blob /\ total \in {0, size}
          /\ total \in Nat /\ doc \in DocPc /\ doc \notin {"idle"} /\ ranged \in BOOLEAN
        BY <1>1, ResponseTyped DEF DocPc, CaptureState
    <2>2. parts \in Blob
        BY <1>1, <2>1 DEF CaptureState, Blob
    <2> DEFINE s == [capture[c] EXCEPT !.parts = parts, !.total = total,
                                        !.ranged = ranged, !.doc = doc]
    <2>0. CASE stops /\ offset + received = 0
        BY <1>1, <1>3, <2>0, AnswerKeeps DEF RangeArrives
    <2> SUFFICES ASSUME ~(stops /\ offset + received = 0) PROVE CaptureIInv'
        BY <2>0
    <2>3. capture' = [capture EXCEPT ![c] = s]
        BY <1>1, <1>3 DEF RangeArrives
    <2>4. odd' = (IF Cut(c, r, offset) THEN odd \cup {c} ELSE odd) /\ UNCHANGED waiting
        BY <1>3 DEF RangeArrives
    <2>5. c \notin odd' => /\ parts = Bytes(0, Len(parts)) /\ Len(parts) <= size
                           /\ doc = "upload" => Len(parts) = size
                           /\ doc # "upload" => ranged
        <3> SUFFICES ASSUME c \notin odd' PROVE /\ parts = Bytes(0, Len(parts)) /\ Len(parts) <= size
                                                /\ doc = "upload" => Len(parts) = size
                                                /\ doc # "upload" => ranged
            OBVIOUS
        <3>1. c \notin odd /\ ~Cut(c, r, offset)
            BY <2>4, <1>1
        <3>2. /\ capture[c].parts = Bytes(0, offset) /\ offset \in 0 .. size
              /\ ~capture[c].ranged => offset = 0
            BY <3>1, <1>1 DEF CaptureIInv, Straight
        <3>3. (r.status = 200 => offset = 0) /\ (r.status # 200 => r.to >= Least(offset + Chunk, size))
            BY <3>1, <3>2, <1>1, ResponseTyped, CaptureAssumption DEF Cut, Least
        <3>4. /\ offset + received \in 0 .. size /\ parts = Bytes(0, offset + received)
              /\ stops => offset + received = size
              /\ r.status = 200 => stops
            <4>1. /\ offset + (r.to - r.from) \in 0 .. size
                  /\ Bytes(0, offset) \o Bytes(r.from, r.to) = Bytes(0, offset + (r.to - r.from))
                  /\ r.status = 416 \/ LastChunk(r, r.to - r.from, offset + (r.to - r.from), total)
                       => offset + (r.to - r.from) = size
                <5> HIDE DEF total, offset
                <5>1. /\ size \in Nat \ {0} /\ offset \in 0 .. size
                      /\ r \in Responses(offset) /\ total \in {0, size}
                    BY <3>2, <1>1, <2>1
                <5> QED
                    BY ONLY <5>1, <3>3, RangeExtends
            <4>2. r.status = 200 => stops
                BY DEF LastChunk
            <4> QED
                BY <3>2, <4>1, <4>2
        <3>5. Len(parts) = offset + received
            BY <3>4, StretchesMeet
        <3> QED
            BY <3>4, <3>5, <2>1
    <2> HIDE DEF received, total, stops, parts, ranged, doc
    <2>11. /\ s \in CaptureState /\ s.parts = parts /\ s.total = total /\ s.ranged = ranged
           /\ s.doc = doc /\ s.worker = capture[c].worker
        BY <1>1, <2>1, <2>2 DEF CaptureState
    <2>12. /\ capture'[c] = s /\ capture' \in [Capture -> CaptureState]
           /\ \A d \in Capture \ {c} : capture'[d] = capture[d]
        BY <2>3, <2>11 DEF CaptureIInv, CaptureTypeOK
    <2> HIDE DEF s
    <2>6. /\ capture'[c].parts = parts /\ capture'[c].total = total /\ capture'[c].ranged = ranged
          /\ capture'[c].doc = doc /\ capture'[c].worker = capture[c].worker
          /\ \A d \in Capture \ {c} : capture'[d] = capture[d]
        BY <2>11, <2>12
    <2>7. CaptureTypeOK'
        BY <1>1, <2>12, <2>4 DEF CaptureIInv, CaptureTypeOK
    <2>8. UploadIsWhole'
        BY <1>1, <2>4 DEF CaptureIInv, UploadIsWhole, Bytes
    <2>9. \A d \in Capture : Straight(d)'
        <3> TAKE d \in Capture
        <3>1. CASE d = c
            BY <3>1, <1>1, <2>5, <2>6 DEF Straight, Bytes
        <3>2. CASE d # c
            BY <3>2, <1>1, <2>4, <2>6 DEF CaptureIInv, Straight, Bytes
        <3> QED
            BY <3>1, <3>2
    <2>10. \A d \in Capture : Started(d)'
        <3> TAKE d \in Capture
        <3>1. CASE d = c
            BY <3>1, <1>1, <2>1, <2>6 DEF CaptureIInv, Started
        <3>2. CASE d # c
            BY <3>2, <1>1, <2>6 DEF CaptureIInv, Started
        <3> QED
            BY <3>1, <3>2
    <2> QED
        BY <2>7, <2>8, <2>9, <2>10 DEF CaptureIInv
<1> QED
    BY <1>2, <1>3 DEF ReceiveRange

LEMMA RequestRangeKeeps ==
    ASSUME CaptureIInv, NEW c \in Capture, RequestRange(c)
    PROVE  CaptureIInv'
<1> DEFINE s == [capture[c] EXCEPT !.doc = "fetch"]
<1>1. capture[c] \in CaptureState /\ capture[c].doc = "download" /\ Started(c)
    BY DEF CaptureIInv, CaptureTypeOK, RequestRange
<1>2. s \in CaptureState /\ s.parts = capture[c].parts /\ s.ranged = capture[c].ranged
      /\ s.doc = "fetch" /\ s.worker = capture[c].worker /\ s.total = capture[c].total
    BY <1>1 DEF CaptureState, DocPc
<1>3. capture' = [capture EXCEPT ![c] = s]
    BY DEF CaptureIInv, CaptureTypeOK, RequestRange
<1> HIDE DEF s
<1> QED
    BY <1>1, <1>2, <1>3, StraightKeeps DEF RequestRange, CaptureIInv, CaptureTypeOK, Started

LEMMA UploadKeeps ==
    ASSUME CaptureIInv, NEW c \in Capture, UploadToScribe(c)
    PROVE  CaptureIInv'
<1> DEFINE w == IF capture[c].worker = "sent" THEN "answered" ELSE capture[c].worker
           s == [NoCapture EXCEPT !.doc = "sent", !.worker = w]
<1>1. /\ capture[c] \in CaptureState /\ capture[c].doc = "upload" /\ Started(c) /\ Straight(c)
      /\ capture' = [capture EXCEPT ![c] = s] /\ waiting' = waiting \ {c}
      /\ uploads' \in {uploads, [uploads EXCEPT ![c] = capture[c].parts]}
      /\ UNCHANGED <<size, offscreen, deaths, odd>>
    BY DEF CaptureIInv, CaptureTypeOK, UploadToScribe, DocumentAnswers
<1>2. w \in WorkerPc /\ w \notin {"idle", "resolve", "create"}
    BY <1>1 DEF Started, CaptureState, WorkerPc
<1>3. s \in CaptureState /\ s.parts = <<>> /\ s.doc = "sent" /\ s.worker = w /\ s.total = 0
    BY <1>2, NoCaptureTyped DEF CaptureState, NoCapture, DocPc
<1> HIDE DEF s, w
<1>4. /\ capture'[c] = s /\ \A d \in Capture \ {c} : capture'[d] = capture[d]
      /\ capture' \in [Capture -> CaptureState]
      /\ uploads' \in [Capture -> Blob] /\ size \in Nat
    BY <1>1, <1>3, CaptureAssumption DEF CaptureIInv, CaptureTypeOK, CaptureState
<1>5. CaptureTypeOK'
    BY <1>1, <1>4 DEF CaptureIInv, CaptureTypeOK
<1>6. UploadIsWhole'
    <2>1. c \notin odd => capture[c].parts = Bytes(0, size)
        BY <1>1 DEF Straight
    <2> QED
        BY <1>1, <2>1 DEF CaptureIInv, CaptureTypeOK, UploadIsWhole, Bytes
<1>7. \A d \in Capture : Straight(d)'
    <2> TAKE d \in Capture
    <2>1. CASE d = c
        <3>1. capture'[d].parts = <<>> /\ capture'[d].doc = "sent" /\ size' = size /\ size \in Nat
            BY <1>1, <1>3, <1>4, <2>1
        <3> QED
            BY <3>1, EmptyStretch DEF Straight, Bytes
    <2>2. CASE d # c
        <3>1. capture'[d] = capture[d] /\ size' = size /\ odd' = odd /\ Straight(d)
            BY <1>1, <1>4, <2>2 DEF CaptureIInv
        <3> QED
            BY <3>1 DEF Straight, Bytes
    <2> QED
        BY <2>1, <2>2
<1>8. \A d \in Capture : Started(d)'
    BY <1>1, <1>2, <1>3, <1>4 DEF CaptureIInv, Started
<1> QED
    BY <1>5, <1>6, <1>7, <1>8 DEF CaptureIInv

LEMMA CaptureStepKeeps == CaptureIInv /\ [CaptureNext]_captureVars => CaptureIInv'
<1>1. CaptureIInv /\ UNCHANGED captureVars => CaptureIInv'
    BY DEF CaptureIInv, captureVars, CaptureTypeOK, UploadIsWhole, Straight, Started, Bytes
<1>2. ASSUME CaptureIInv, NEW c \in Capture, CaptureStep(c) PROVE CaptureIInv'
    BY <1>2, ResolveKeeps, RequestRangeKeeps, ReceiveKeeps, UploadKeeps DEF CaptureStep
<1> QED
    BY <1>1, <1>2, PopupKeeps, StopKeeps DEF CaptureNext

--------------------------------------------------------------------------------
(* Settings: the configuration.  A save that was not overlapped is the     *)
(* last word on what is stored, and nothing loaded has a gap.              *)

WholeDraft == [Key -> Value]

ConfigTyped ==
    /\ stored \in WholeDraft /\ configCrossed \in BOOLEAN
    /\ config \in [loaded : Draft \cup {NoDraft}, draft : Draft \cup {NoDraft}, chip : Chip]
    /\ configCalls \subseteq ConfigCall

\* What was loaded, or is on its way from the server or to it, is whole, and so is a draft
\* begun from it.
ConfigWhole ==
    /\ config.loaded # NoDraft => config.loaded \in WholeDraft /\ config.draft \in WholeDraft
    /\ \A c \in configCalls : c.what = "save" \/ c.at = "answered" => c.body \in WholeDraft

\* A save alone: what it was answered is stored, and "Saved" comes after it.
ConfigAlone ==
    ~configCrossed =>
        /\ \A c, d \in configCalls : c.what = "save" /\ d.what = "save" => c = d
        /\ \A c \in configCalls : c.what = "save" /\ c.at = "answered" => c.body = stored
        /\ config.chip = "saved" =>
               /\ config.draft = stored /\ config.loaded = stored
               /\ \A c \in configCalls : c.what # "save"

ConfigIInv == ConfigTyped /\ ConfigWhole /\ ConfigAlone

LEMMA ConfigImplies == ConfigIInv => SavedIsStored /\ DraftIsWhole
BY SettingsAssumption DEF ConfigIInv, ConfigWhole, ConfigAlone, WholeDraft, SavedIsStored, DraftIsWhole

\* Drafts and the calls that carry them.
LEMMA DraftsTyped ==
    /\ WholeDraft \subseteq Draft /\ Nothing \in Draft
    /\ Load \in ConfigCall /\ Load.what = "load" /\ Load.at = "sent"
    /\ \A d \in Draft : ConfigPayload(d) \in WholeDraft
BY SettingsAssumption DEF WholeDraft, Draft, Nothing, Load, ConfigCall, ConfigPayload

LEMMA SetDraftTyped ==
    ASSUME NEW k \in Key, NEW v \in Value, NEW d \in Draft \cup {NoDraft}
    PROVE  /\ SetDraft(d, k, v) \in Draft
           /\ d \in WholeDraft => SetDraft(d, k, v) \in WholeDraft
<1>1. d \in WholeDraft => d # NoDraft
    BY DEF WholeDraft, NoDraft
<1> QED
    BY <1>1, DraftsTyped DEF SetDraft, WholeDraft, Draft

LEMMA ConfigInitHolds == SettingsInit => ConfigIInv
<1> SUFFICES ASSUME SettingsInit PROVE ConfigIInv
    OBVIOUS
<1>1. /\ stored \in WholeDraft /\ configCalls = {Load} /\ configCrossed = FALSE
      /\ config = [loaded |-> NoDraft, draft |-> NoDraft, chip |-> "loading"]
    BY DEF SettingsInit, WholeDraft
<1> QED
    BY <1>1, DraftsTyped DEF ConfigIInv, ConfigTyped, ConfigWhole, ConfigAlone, Chip

\* Edits and reloads: the draft changes, the word is taken back.
LEMMA EditsKeep ==
    ASSUME ConfigIInv, \/ ReloadConfig \/ DiscardConfig
                       \/ \E k \in Key, v \in Value : EditConfig(k, v)
    PROVE  ConfigIInv'
<1> USE DEF ConfigIInv
<1>1. CASE ReloadConfig
    <2>1. /\ config' = [config EXCEPT !.chip = "loading"] /\ UNCHANGED <<stored, configCrossed>>
          /\ configCalls' = {c \in configCalls : c.what = "save"} \cup {Load}
        BY <1>1 DEF ReloadConfig
    <2>2. /\ config' \in [loaded : Draft \cup {NoDraft}, draft : Draft \cup {NoDraft}, chip : Chip]
          /\ config'.loaded = config.loaded /\ config'.draft = config.draft
          /\ config'.chip = "loading"
        BY <2>1 DEF ConfigTyped, Chip
    <2> QED
        BY <2>1, <2>2, DraftsTyped DEF ConfigTyped, ConfigWhole, ConfigAlone, WholeDraft
<1>2. CASE DiscardConfig
    <2> DEFINE draft == IF config.loaded = NoDraft THEN Nothing ELSE config.loaded
               chip == IF config.chip = "loading" THEN config.chip ELSE "none"
    <2>1. config' = [config EXCEPT !.draft = draft, !.chip = chip]
          /\ UNCHANGED <<stored, configCalls, configCrossed>>
        BY <1>2 DEF DiscardConfig, ConfigTyped
    <2>2. draft \in Draft /\ chip \in Chip /\ chip # "saved"
          /\ (config.loaded # NoDraft => draft = config.loaded)
        BY DraftsTyped DEF ConfigTyped, Chip
    <2> HIDE DEF draft, chip
    <2>3. /\ config' \in [loaded : Draft \cup {NoDraft}, draft : Draft \cup {NoDraft}, chip : Chip]
          /\ config'.loaded = config.loaded /\ config'.draft = draft /\ config'.chip = chip
        BY <2>1, <2>2 DEF ConfigTyped
    <2> QED
        BY <2>1, <2>2, <2>3 DEF ConfigTyped, ConfigWhole, ConfigAlone, WholeDraft
<1>3. ASSUME NEW k \in Key, NEW v \in Value, EditConfig(k, v) PROVE ConfigIInv'
    <2> DEFINE draft == SetDraft(config.draft, k, v)
               chip == EditedChip(config.chip)
    <2>1. config' = [config EXCEPT !.draft = draft, !.chip = chip]
          /\ UNCHANGED <<stored, configCalls, configCrossed>>
        BY <1>3 DEF EditConfig, ConfigTyped
    <2>2. draft \in Draft /\ chip \in Chip /\ chip # "saved"
          /\ (config.loaded # NoDraft => draft \in WholeDraft)
        BY SetDraftTyped DEF ConfigTyped, ConfigWhole, EditedChip, Chip
    <2> HIDE DEF draft, chip
    <2>3. /\ config' \in [loaded : Draft \cup {NoDraft}, draft : Draft \cup {NoDraft}, chip : Chip]
          /\ config'.loaded = config.loaded /\ config'.draft = draft /\ config'.chip = chip
        BY <2>1, <2>2 DEF ConfigTyped
    <2> QED
        BY <2>1, <2>2, <2>3 DEF ConfigTyped, ConfigWhole, ConfigAlone, WholeDraft
<1> QED
    BY <1>1, <1>2, <1>3

LEMMA SaveConfigKeeps == ConfigIInv /\ SaveConfig => ConfigIInv'
<1> SUFFICES ASSUME ConfigIInv, SaveConfig PROVE ConfigIInv'
    OBVIOUS
<1> USE DEF ConfigIInv
<1> DEFINE call == [what |-> "save", at |-> "sent", body |-> ConfigPayload(config.draft)]
<1>1. /\ configCalls' = configCalls \cup {call} /\ configCrossed' = (configCalls # {})
      /\ config' = [config EXCEPT !.chip = "none"] /\ UNCHANGED stored
    BY DEF SaveConfig
<1>2. config.draft \in Draft
    BY DEF SaveConfig, ConfigTyped
<1>3. /\ call \in ConfigCall /\ call.body \in WholeDraft
      /\ call.what = "save" /\ call.at = "sent"
    BY <1>2, DraftsTyped DEF ConfigCall
<1> HIDE DEF call
<1>4. /\ config' \in [loaded : Draft \cup {NoDraft}, draft : Draft \cup {NoDraft}, chip : Chip]
      /\ config'.loaded = config.loaded /\ config'.draft = config.draft /\ config'.chip = "none"
    BY <1>1 DEF ConfigTyped, Chip
<1>5. ConfigTyped'
    BY <1>1, <1>3, <1>4 DEF ConfigTyped, WholeDraft
<1>6. ConfigWhole'
    BY <1>1, <1>3, <1>4 DEF ConfigWhole, WholeDraft
<1>7. ConfigAlone'
    BY <1>1, <1>3, <1>4 DEF ConfigAlone
<1> QED
    BY <1>5, <1>6, <1>7

LEMMA ConfigCallsKeep ==
    ASSUME ConfigIInv, NEW c \in configCalls,
           ServerAnswersConfig(c) \/ HearConfig(c) \/ FailConfig(c)
    PROVE  ConfigIInv'
<1> USE DEF ConfigIInv
<1>0. c \in ConfigCall
    BY DEF ConfigTyped
<1>1. CASE ServerAnswersConfig(c)
    <2> DEFINE d == [c EXCEPT !.at = "answered", !.body = stored']
    <2>1. /\ c.at = "sent" /\ stored' = (IF c.what = "save" THEN c.body ELSE stored)
          /\ configCalls' = (configCalls \ {c}) \cup {d}
          /\ UNCHANGED <<config, configCrossed>>
        BY <1>1 DEF ServerAnswersConfig
    <2>2. stored' \in WholeDraft
        BY <2>1 DEF ConfigTyped, ConfigWhole
    <2>3. d \in ConfigCall /\ d.what = c.what /\ d.at = "answered" /\ d.body = stored'
        BY <1>0, <2>2, DraftsTyped DEF ConfigCall
    <2> HIDE DEF d
    <2>4. ConfigTyped'
        BY <2>1, <2>2, <2>3 DEF ConfigTyped, WholeDraft
    <2>5. ConfigWhole'
        BY <2>1, <2>2, <2>3 DEF ConfigWhole, WholeDraft
    <2>6. ConfigAlone'
        BY <2>1, <2>3 DEF ConfigAlone
    <2> QED
        BY <2>4, <2>5, <2>6
<1>2. CASE HearConfig(c)
    <2>1. /\ c.at = "answered" /\ configCalls' = configCalls \ {c} /\ UNCHANGED <<stored, configCrossed>>
          /\ config' = [loaded |-> c.body, draft |-> c.body,
                        chip |-> IF c.what = "save" THEN "saved" ELSE "none"]
        BY <1>2 DEF HearConfig
    <2>2. c.body \in WholeDraft /\ c.body \in Draft
        BY <2>1, DraftsTyped DEF ConfigWhole
    <2>3. ConfigTyped'
        BY <2>1, <2>2 DEF ConfigTyped, WholeDraft, Chip
    <2>4. ConfigWhole'
        BY <2>1, <2>2 DEF ConfigWhole, WholeDraft
    <2>5. ConfigAlone'
        BY <2>1 DEF ConfigAlone
    <2> QED
        BY <2>3, <2>4, <2>5
<1>3. CASE FailConfig(c)
    <2>1. /\ configCalls' = configCalls \ {c} /\ UNCHANGED <<stored, configCrossed>>
          /\ config' = [config EXCEPT !.chip = "error"]
        BY <1>3 DEF FailConfig
    <2>2. /\ config' \in [loaded : Draft \cup {NoDraft}, draft : Draft \cup {NoDraft}, chip : Chip]
          /\ config'.loaded = config.loaded /\ config'.draft = config.draft /\ config'.chip = "error"
        BY <2>1 DEF ConfigTyped, Chip
    <2> QED
        BY <2>1, <2>2 DEF ConfigTyped, ConfigWhole, ConfigAlone, WholeDraft
<1> QED
    BY <1>1, <1>2, <1>3

LEMMA ConfigStepKeeps == ConfigIInv /\ [ConfigNext]_configVars => ConfigIInv'
<1>1. ConfigIInv /\ UNCHANGED configVars => ConfigIInv'
    BY DEF ConfigIInv, configVars, ConfigTyped, ConfigWhole, ConfigAlone, WholeDraft
<1> QED
    BY <1>1, EditsKeep, SaveConfigKeeps, ConfigCallsKeep DEF ConfigNext

--------------------------------------------------------------------------------
(* Settings: the prompts.  The latest load under way is the one of the     *)
(* version chosen, unless it brings its version with it.                   *)

PromptTyped ==
    /\ slipped \in BOOLEAN
    /\ box \in [version : Version, text : Version, list : BOOLEAN, chip : Chip]
    /\ opening \subseteq Opening /\ writing \subseteq Writing

LatestIsChosen ==
    /\ \A o, p \in opening : o.latest /\ p.latest => o = p
    /\ \A o \in opening : o.latest /\ ~o.whole => o.version = box.version

\* Without a load under way, or with one that a save has silenced, the text is the version's.
TextIsLoaded ==
    ~slipped => /\ (\A o \in opening : ~o.latest) => box.text = box.version
                /\ box.chip # "loading" => box.text = box.version

PromptIInv == PromptTyped /\ LatestIsChosen /\ TextIsLoaded

LEMMA SupersededLoads ==
    ASSUME NEW os \in SUBSET Opening
    PROVE  Superseded(os) \subseteq Opening /\ \A o \in Superseded(os) : ~o.latest
<1>1. ASSUME NEW o \in os
      PROVE  [o EXCEPT !.latest = FALSE] \in Opening /\ ~[o EXCEPT !.latest = FALSE].latest
    BY DEF Opening
<1> QED
    BY <1>1 DEF Superseded

LEMMA OpenActiveTyped ==
    Version # {} => OpenActive \in Opening /\ OpenActive.latest /\ OpenActive.whole
BY DEF OpenActive, Opening

LEMMA PromptInitHolds == SettingsInit => PromptIInv
<1> SUFFICES ASSUME SettingsInit PROVE PromptIInv
    OBVIOUS
<1>1. PICK v \in Version : box = [version |-> v, text |-> v, list |-> FALSE, chip |-> "loading"]
    BY DEF SettingsInit
<1>2. opening = {OpenActive} /\ writing = {} /\ slipped = FALSE
    BY DEF SettingsInit
<1>3. Version # {}
    BY <1>1
<1> QED
    BY <1>1, <1>2, <1>3, OpenActiveTyped
    DEF PromptIInv, PromptTyped, LatestIsChosen, TextIsLoaded, Chip

LEMMA OpensKeep ==
    ASSUME PromptIInv, ReloadPrompts \/ \E v \in Version : OpenVersion(v)
    PROVE  PromptIInv'
<1> USE DEF PromptIInv
<1>0. box.version \in Version /\ opening \subseteq Opening
    BY DEF PromptTyped
<1>1. CASE ReloadPrompts
    <2> DEFINE older == Superseded({o \in opening : ~o.whole})
    <2>1. /\ opening' = older \cup {OpenActive} /\ box' = [box EXCEPT !.chip = "loading"]
          /\ UNCHANGED <<writing, slipped>>
        BY <1>1 DEF ReloadPrompts
    <2>2. older \subseteq Opening /\ \A o \in older : ~o.latest
        BY <1>0, SupersededLoads
    <2>3. OpenActive \in Opening /\ OpenActive.latest /\ OpenActive.whole
        BY <1>0, OpenActiveTyped
    <2> HIDE DEF older
    <2>4. /\ box' \in [version : Version, text : Version, list : BOOLEAN, chip : Chip]
          /\ box'.chip = "loading"
        BY <2>1 DEF PromptTyped, Chip
    <2> QED
        BY <2>1, <2>2, <2>3, <2>4 DEF PromptTyped, LatestIsChosen, TextIsLoaded
<1>2. ASSUME NEW v \in Version, OpenVersion(v) PROVE PromptIInv'
    <2> DEFINE older == Superseded(opening)
               o == [version |-> v, latest |-> TRUE, whole |-> FALSE]
    <2>1. /\ opening' = older \cup {o} /\ box' = [box EXCEPT !.version = v, !.chip = "loading"]
          /\ UNCHANGED <<writing, slipped>>
        BY <1>2 DEF OpenVersion
    <2>2. older \subseteq Opening /\ \A p \in older : ~p.latest
        BY <1>0, SupersededLoads
    <2>3. o \in Opening /\ o.latest /\ o.version = v
        BY DEF Opening
    <2> HIDE DEF older, o
    <2>4. /\ box' \in [version : Version, text : Version, list : BOOLEAN, chip : Chip]
          /\ box'.chip = "loading" /\ box'.version = v
        BY <2>1 DEF PromptTyped, Chip
    <2> QED
        BY <2>1, <2>2, <2>3, <2>4 DEF PromptTyped, LatestIsChosen, TextIsLoaded
<1> QED
    BY <1>1, <1>2

LEMMA OpeningEndsKeeps ==
    ASSUME PromptIInv, NEW o \in opening, VersionOpened(o) \/ VersionFails(o)
    PROVE  PromptIInv'
<1> USE DEF PromptIInv
<1>0. o \in Opening /\ opening' = opening \ {o} /\ UNCHANGED writing
    BY DEF PromptTyped, VersionOpened, VersionFails
<1>1. CASE VersionOpened(o) /\ o.latest
    <2>1. /\ box' = [version |-> IF o.whole THEN o.version ELSE box.version,
                     text |-> o.version, list |-> box.list \/ o.whole, chip |-> "none"]
          /\ slipped' = FALSE
        BY <1>1 DEF VersionOpened, HearsOpening
    <2>2. /\ box' \in [version : Version, text : Version, list : BOOLEAN, chip : Chip]
          /\ box'.text = box'.version
        BY <1>0, <1>1, <2>1 DEF PromptTyped, LatestIsChosen, Opening, Chip
    <2>3. \A p \in opening' : ~p.latest
        BY <1>0, <1>1 DEF LatestIsChosen
    <2> QED
        BY <1>0, <2>1, <2>2, <2>3 DEF PromptTyped, LatestIsChosen, TextIsLoaded
<1>2. CASE VersionOpened(o) /\ ~o.latest
    <2>1. box' = box /\ slipped' = slipped
        BY <1>2 DEF VersionOpened, HearsOpening, PromptTyped
    <2> QED
        BY <1>0, <1>2, <2>1 DEF PromptTyped, LatestIsChosen, TextIsLoaded
<1>3. CASE VersionFails(o)
    <2>1. /\ box' = (IF o.latest THEN [box EXCEPT !.chip = "error"] ELSE box)
          /\ slipped' = (slipped \/ o.latest)
        BY <1>3 DEF VersionFails, HearsOpening
    <2>2. /\ box' \in [version : Version, text : Version, list : BOOLEAN, chip : Chip]
          /\ box'.version = box.version /\ box'.text = box.text
          /\ o.latest \/ box' = box
        BY <2>1 DEF PromptTyped, Chip
    <2>3. slipped' \in BOOLEAN /\ (~slipped' => ~o.latest /\ ~slipped)
        BY <1>0, <2>1 DEF PromptTyped, Opening
    <2> QED
        BY <1>0, <2>2, <2>3 DEF PromptTyped, LatestIsChosen, TextIsLoaded
<1> QED
    BY <1>1, <1>2, <1>3

LEMMA PromptSavesKeep ==
    ASSUME PromptIInv, SavePrompt \/ \E w \in writing : PromptWritten(w) \/ SaveSettles(w)
    PROVE  PromptIInv'
<1> USE DEF PromptIInv
<1>1. CASE SavePrompt
    <2>1. /\ box.chip # "loading" /\ UNCHANGED <<opening, slipped>>
          /\ writing' = writing \cup {[version |-> box.version, text |-> box.text, at |-> "write"]}
          /\ box' = [box EXCEPT !.chip = "none"]
        BY <1>1 DEF SavePrompt, MaySavePrompt
    <2>2. /\ box' \in [version : Version, text : Version, list : BOOLEAN, chip : Chip]
          /\ box'.version = box.version /\ box'.text = box.text
        BY <2>1 DEF PromptTyped, Chip
    <2>3. writing' \subseteq Writing
        BY <2>1 DEF PromptTyped, Writing
    <2> QED
        BY <2>1, <2>2, <2>3 DEF PromptTyped, LatestIsChosen, TextIsLoaded
<1>2. ASSUME NEW w \in writing, PromptWritten(w) PROVE PromptIInv'
    <2>1. [w EXCEPT !.at = "list"] \in Writing
        BY DEF PromptTyped, Writing
    <2> QED
        BY <1>2, <2>1 DEF PromptWritten, PromptTyped, LatestIsChosen, TextIsLoaded
<1>3. ASSUME NEW w \in writing, SaveSettles(w) PROVE PromptIInv'
    <2>1. /\ writing' = writing \ {w} /\ UNCHANGED opening
          /\ slipped' = (slipped \/ \E o \in opening : o.latest)
          /\ \/ box' = [box EXCEPT !.list = TRUE, !.chip = "saved"]
             \/ box' = [box EXCEPT !.chip = "error"]
        BY <1>3 DEF SaveSettles
    <2>2. /\ box' \in [version : Version, text : Version, list : BOOLEAN, chip : Chip]
          /\ box'.version = box.version /\ box'.text = box.text
        BY <2>1 DEF PromptTyped, Chip
    <2>3. slipped' \in BOOLEAN /\ (~slipped' => ~slipped /\ \A o \in opening : ~o.latest)
        BY <2>1 DEF PromptTyped
    <2> QED
        BY <2>1, <2>2, <2>3 DEF PromptTyped, LatestIsChosen, TextIsLoaded
<1> QED
    BY <1>1, <1>2, <1>3

LEMMA PromptStepKeeps == PromptIInv /\ [PromptNext]_promptVars => PromptIInv'
<1>1. PromptIInv /\ UNCHANGED promptVars => PromptIInv'
    BY DEF PromptIInv, promptVars, PromptTyped, LatestIsChosen, TextIsLoaded
<1> QED
    BY <1>1, OpensKeep, OpeningEndsKeeps, PromptSavesKeep DEF PromptNext

--------------------------------------------------------------------------------
(* Settings: the users.  Unless calls overlapped there is one at most, and *)
(* what it was answered is what the server has.                            *)

UsersTyped ==
    /\ accounts \in Rows /\ usersDoubt \in BOOLEAN
    /\ group \in [mounted : BOOLEAN, rows : Rows, chip : Chip, busy : BOOLEAN, menu : BOOLEAN]
    /\ userCalls \subseteq UserCall

UsersAlone ==
    ~usersDoubt =>
        /\ \A c, d \in userCalls : c = d
        /\ \A c \in userCalls : c.at = "answered" => c.body = accounts
        /\ group.chip = "saved" => userCalls = {} /\ group.rows = accounts

UsersIInv == UsersTyped /\ UsersAlone

\* A table of users with one row added or replaced.
LEMMA RowsTyped ==
    /\ NoRows \in Rows
    /\ \A u \in Account, a \in Access : [x \in {u} |-> a] \in Rows
    /\ \A r, s \in Rows : Upsert(r, s) \in Rows
<1>1. NoRows \in [{} -> Access]
    BY DEF NoRows
<1>2. ASSUME NEW u \in Account, NEW a \in Access PROVE [x \in {u} |-> a] \in Rows
    <2>1. [x \in {u} |-> a] \in [{u} -> Access] /\ {u} \in SUBSET Account
        OBVIOUS
    <2> QED
        BY <2>1 DEF Rows
<1>3. ASSUME NEW r \in Rows, NEW s \in Rows PROVE Upsert(r, s) \in Rows
    <2>1. PICK D \in SUBSET Account, E \in SUBSET Account : r \in [D -> Access] /\ s \in [E -> Access]
        BY DEF Rows
    <2>2. Upsert(r, s) \in [D \cup E -> Access]
        BY <2>1 DEF Upsert
    <2> QED
        BY <2>1, <2>2 DEF Rows
<1>4. NoRows \in Rows
    BY <1>1 DEF Rows
<1> QED
    BY <1>2, <1>3, <1>4

LEMMA ReadTyped ==
    ASSUME NEW kind \in {"load", "refresh", "change"}
    PROVE  Read(kind) \in UserCall /\ Read(kind).at = "reading"
BY RowsTyped DEF Read, UserCall

Group == [mounted : BOOLEAN, rows : Rows, chip : Chip, busy : BOOLEAN, menu : BOOLEAN]

LEMMA UsersInitHolds == SettingsInit => UsersIInv
<1> SUFFICES ASSUME SettingsInit PROVE UsersIInv
    OBVIOUS
<1>1. Read("load") \in UserCall /\ Read("load").at = "reading"
    BY ReadTyped
<1>2. Unmounted \in Group /\ Unmounted.chip = "none"
    BY RowsTyped DEF Unmounted, Chip, Group
<1>3. accounts \in Rows /\ usersDoubt = FALSE /\ group = Unmounted /\ userCalls = {Read("load")}
    BY DEF SettingsInit
<1>4. UsersTyped
    BY <1>1, <1>2, <1>3 DEF UsersTyped, Group
<1>5. UsersAlone
    BY <1>1, <1>2, <1>3 DEF UsersAlone
<1> QED
    BY <1>4, <1>5 DEF UsersIInv

LEMMA UnmountedTyped ==
    /\ Unmounted \in [mounted : BOOLEAN, rows : Rows, chip : Chip, busy : BOOLEAN, menu : BOOLEAN]
    /\ [Unmounted EXCEPT !.mounted = TRUE] \in
           [mounted : BOOLEAN, rows : Rows, chip : Chip, busy : BOOLEAN, menu : BOOLEAN]
    /\ Unmounted.chip = "none" /\ [Unmounted EXCEPT !.mounted = TRUE].chip = "none"
BY RowsTyped DEF Unmounted, Chip

\* One more call: it is alone, or the table is in doubt; either way "saved" is taken back.
LEMMA AddsKeep ==
    ASSUME UsersIInv, NEW call \in UserCall, call.at # "answered", Adds(call),
           group' \in Group, group'.chip = "none", UNCHANGED accounts
    PROVE  UsersIInv'
BY DEF UsersIInv, UsersTyped, UsersAlone, Adds, Group

LEMMA ReloadUsersKeeps == UsersIInv /\ ReloadUsers => UsersIInv'
<1> SUFFICES ASSUME UsersIInv, ReloadUsers PROVE UsersIInv'
    OBVIOUS
<1> DEFINE theirs == {c \in userCalls : c.what # "load"}
           orphans == {[c EXCEPT !.mine = FALSE] : c \in theirs}
<1>1. /\ group' = Unmounted /\ userCalls' = orphans \cup {Read("load")}
      /\ usersDoubt' = (theirs # {}) /\ UNCHANGED accounts
    BY DEF ReloadUsers
<1>2. \A c \in theirs : [c EXCEPT !.mine = FALSE] \in UserCall
    BY DEF UsersIInv, UsersTyped, UserCall
<1>3. orphans \subseteq UserCall /\ (theirs = {} => orphans = {})
    BY <1>2
<1> HIDE DEF orphans
<1>4. UsersTyped'
    BY <1>1, <1>3, UnmountedTyped, ReadTyped DEF UsersIInv, UsersTyped
<1>5. UsersAlone'
    BY <1>1, <1>3, UnmountedTyped, ReadTyped DEF UsersAlone
<1> QED
    BY <1>4, <1>5 DEF UsersIInv

LEMMA UserButtonsKeep ==
    ASSUME UsersIInv,
           \/ TellsWhoIsMe \/ RefreshUsers \/ UserMenu
           \/ \E u \in Account : \/ ToggleState(u) \/ SetRole(u)
                                 \/ \E admin \in BOOLEAN : AddUser(u, admin)
    PROVE  UsersIInv'
<1> USE DEF UsersIInv
<1>0. group \in Group /\ group.rows \in Rows
    BY DEF UsersTyped, Group
<1>1. CASE TellsWhoIsMe
    <2>1. UsersTyped'
        BY <1>1, UnmountedTyped DEF TellsWhoIsMe, UsersTyped
    <2>2. UsersAlone'
        BY <1>1, UnmountedTyped DEF TellsWhoIsMe, UsersAlone
    <2> QED
        BY <2>1, <2>2
<1>2. CASE RefreshUsers
    <2>1. group' = [group EXCEPT !.busy = TRUE, !.chip = "none"] /\ Adds(Read("refresh"))
          /\ UNCHANGED accounts
        BY <1>2 DEF RefreshUsers
    <2>2. group' \in Group /\ group'.chip = "none"
        BY <1>0, <2>1 DEF Group, Chip
    <2> QED
        BY <2>1, <2>2, ReadTyped, AddsKeep
<1>3. CASE UserMenu
    <2>1. group' = [group EXCEPT !.menu = ~@] /\ UNCHANGED <<accounts, userCalls, usersDoubt>>
        BY <1>3 DEF UserMenu
    <2>2. group' \in Group /\ group'.chip = group.chip /\ group'.rows = group.rows
        BY <1>0, <2>1 DEF Group
    <2> QED
        BY <2>1, <2>2 DEF UsersTyped, UsersAlone, Group
<1>4. ASSUME NEW u \in Account, NEW access \in Access, ChangeUser(u, access) PROVE UsersIInv'
    <2> DEFINE call == [what |-> "change", at |-> "sent", mine |-> TRUE, body |-> [x \in {u} |-> access]]
    <2>1. group' = [group EXCEPT !.menu = FALSE, !.chip = "none"] /\ Adds(call) /\ UNCHANGED accounts
        BY <1>4 DEF ChangeUser
    <2>2. group' \in Group /\ group'.chip = "none"
        BY <1>0, <2>1 DEF Group, Chip
    <2>3. call \in UserCall /\ call.at # "answered"
        BY RowsTyped DEF UserCall
    <2> HIDE DEF call
    <2> QED
        BY <2>1, <2>2, <2>3, AddsKeep
<1>5. \A u \in DOMAIN group.rows : group.rows[u] \in Access
    BY <1>0 DEF Rows
<1>6. ASSUME NEW u \in Account, ToggleState(u) PROVE UsersIInv'
    <2>1. [group.rows[u] EXCEPT !.active = ~@] \in Access
        BY <1>5, <1>6 DEF ToggleState, Access
    <2> QED
        BY <1>4, <1>6, <2>1 DEF ToggleState
<1>7. ASSUME NEW u \in Account, SetRole(u) PROVE UsersIInv'
    <2>1. [group.rows[u] EXCEPT !.admin = ~@] \in Access
        BY <1>5, <1>7 DEF SetRole, Access
    <2> QED
        BY <1>4, <1>7, <2>1 DEF SetRole
<1>8. ASSUME NEW u \in Account, NEW admin \in BOOLEAN, AddUser(u, admin) PROVE UsersIInv'
    <2>1. [admin |-> admin, active |-> TRUE] \in Access
        BY DEF Access
    <2> QED
        BY <1>4, <1>8, <2>1 DEF AddUser
<1> QED
    BY <1>1, <1>2, <1>3, <1>6, <1>7, <1>8

LEMMA UserCallsKeep ==
    ASSUME UsersIInv, NEW c \in userCalls,
           ServerChangesUser(c) \/ ServerReadsUsers(c) \/ HearUsers(c) \/ FailUsers(c)
    PROVE  UsersIInv'
<1> USE DEF UsersIInv
<1>0. group \in Group /\ c \in UserCall /\ c.body \in Rows /\ accounts \in Rows /\ c.mine \in BOOLEAN
    BY DEF UsersTyped, Group, UserCall
<1>1. CASE ServerChangesUser(c)
    <2> DEFINE d == [c EXCEPT !.at = "reading"]
    <2>1. /\ accounts' = Upsert(c.body, accounts)
          /\ \/ /\ userCalls' = (userCalls \ {c}) \cup {d}
                /\ group' = [group EXCEPT !.busy = @ \/ c.mine] /\ UNCHANGED usersDoubt
             \/ /\ userCalls' = userCalls \ {c} /\ usersDoubt' = TRUE
                /\ group' = IF c.mine THEN [group EXCEPT !.chip = "error"] ELSE group
        BY <1>1 DEF ServerChangesUser, AfterChange
    <2>2. d \in UserCall /\ d.at = "reading"
        BY <1>0 DEF UserCall
    <2> HIDE DEF d
    <2>3. accounts' \in Rows
        BY <1>0, <2>1, RowsTyped
    <2>4. CASE userCalls' = (userCalls \ {c}) \cup {d} /\ UNCHANGED usersDoubt
               /\ group' = [group EXCEPT !.busy = @ \/ c.mine]
        <3>1. group' \in Group /\ group'.chip = group.chip
            BY <1>0, <2>4 DEF Group
        <3>2. UsersTyped'
            BY <2>2, <2>3, <2>4, <3>1 DEF UsersTyped, Group
        <3>3. UsersAlone'
            BY <2>2, <2>4, <3>1 DEF UsersAlone
        <3> QED
            BY <3>2, <3>3
    <2>5. CASE userCalls' = userCalls \ {c} /\ usersDoubt' = TRUE
               /\ group' = IF c.mine THEN [group EXCEPT !.chip = "error"] ELSE group
        <3>1. group' \in Group
            BY <1>0, <2>5 DEF Group, Chip
        <3>2. UsersTyped'
            BY <2>3, <2>5, <3>1 DEF UsersTyped, Group
        <3>3. UsersAlone'
            BY <2>5 DEF UsersAlone
        <3> QED
            BY <3>2, <3>3
    <2> QED
        BY <2>1, <2>4, <2>5
<1>2. CASE ServerReadsUsers(c)
    <2> DEFINE d == [c EXCEPT !.at = "answered", !.body = accounts]
    <2>1. userCalls' = (userCalls \ {c}) \cup {d} /\ UNCHANGED <<accounts, group, usersDoubt>>
        BY <1>2 DEF ServerReadsUsers
    <2>2. d \in UserCall /\ d.body = accounts
        BY <1>0 DEF UserCall
    <2> HIDE DEF d
    <2> QED
        BY <2>1, <2>2 DEF UsersTyped, UsersAlone
<1>3. CASE HearUsers(c)
    <2>1. /\ c.at = "answered" /\ userCalls' = userCalls \ {c} /\ UNCHANGED <<accounts, usersDoubt>>
          /\ \/ group' = [group EXCEPT !.rows = c.body]
             \/ group' = [group EXCEPT !.rows = c.body, !.busy = FALSE, !.chip = "saved"]
             \/ group' = group
        BY <1>3 DEF HearUsers
    <2>2. /\ group' \in Group
          /\ group'.chip = "saved" => group.chip = "saved" \/ group'.rows = c.body
        BY <1>0, <2>1 DEF Group, Chip
    <2> QED
        BY <2>1, <2>2 DEF UsersTyped, UsersAlone, Group
<1>4. CASE FailUsers(c)
    <2>1. /\ userCalls' = userCalls \ {c} /\ UNCHANGED accounts
          /\ usersDoubt' = (usersDoubt \/ c.what = "change")
          /\ \/ group' = [group EXCEPT !.rows = NoRows]
             \/ group' = [group EXCEPT !.chip = "error"]
             \/ group' = [group EXCEPT !.busy = FALSE,
                                       !.chip = IF c.what = "change" THEN "saved" ELSE "error"]
             \/ group' = group
        BY <1>4 DEF FailUsers
    <2>2. group' \in Group /\ (group'.chip = "saved" => group.chip = "saved" \/ c.what = "change")
        BY <1>0, <2>1, RowsTyped DEF Group, Chip
    <2>3. usersDoubt' \in BOOLEAN /\ (~usersDoubt' => ~usersDoubt /\ c.what # "change")
        BY <2>1 DEF UsersTyped
    <2> QED
        BY <2>1, <2>2, <2>3 DEF UsersTyped, UsersAlone, Group
<1> QED
    BY <1>1, <1>2, <1>3, <1>4

LEMMA UsersStepKeeps == UsersIInv /\ [UsersNext]_usersVars => UsersIInv'
<1>1. UsersIInv /\ UNCHANGED usersVars => UsersIInv'
    BY DEF UsersIInv, usersVars, UsersTyped, UsersAlone
<1> QED
    BY <1>1, ReloadUsersKeeps, UserButtonsKeep, UserCallsKeep DEF UsersNext

--------------------------------------------------------------------------------
(* Settings: all of it *)

SessionTyped ==
    session \in [token : {"none", "pending", "shown", "copied"}, leaving : BOOLEAN, access : BOOLEAN]

SettingsIInv == ConfigIInv /\ PromptIInv /\ UsersIInv /\ SessionTyped

LEMMA SessionStepKeeps == SessionTyped /\ [SessionNext]_session => SessionTyped'
<1> SUFFICES ASSUME SessionTyped, SessionNext PROVE SessionTyped'
    BY DEF SessionTyped
<1>1. \/ \E t \in {"none", "pending", "shown", "copied"} : session' = [session EXCEPT !.token = t]
      \/ \E b \in BOOLEAN : session' = [session EXCEPT !.leaving = b]
      \/ session' = [session EXCEPT !.access = ~@]
    BY DEF SessionNext, GenerateToken, TokenAnswered, CopyToken, LeaveSession, LeaveAnswered,
           ShowAccess
<1> QED
    BY <1>1 DEF SessionTyped

LEMMA SettingsInitHolds == SettingsInit => SettingsIInv
<1>1. SettingsInit => SessionTyped
    BY DEF SettingsInit, SessionTyped
<1> QED
    BY <1>1, ConfigInitHolds, PromptInitHolds, UsersInitHolds DEF SettingsIInv

LEMMA SettingsStepKeeps == SettingsIInv /\ [SettingsNext]_settingsVars => SettingsIInv'
BY ConfigStepKeeps, PromptStepKeeps, UsersStepKeeps, SessionStepKeeps
DEF SettingsIInv, SettingsNext, settingsVars

LEMMA SettingsImplies == SettingsIInv => SettingsTypeOK /\ SettingsAreStored
<1> SUFFICES ASSUME SettingsIInv PROVE SettingsTypeOK /\ SettingsAreStored
    OBVIOUS
<1>1. SettingsTypeOK
    BY DEF SettingsIInv, SettingsTypeOK, ConfigIInv, ConfigTyped, WholeDraft, PromptIInv,
           PromptTyped, UsersIInv, UsersTyped, SessionTyped
<1>2. TextIsVersions
    BY DEF SettingsIInv, PromptIInv, TextIsLoaded, TextIsVersions, MaySavePrompt
<1>3. UsersAreServers
    BY DEF SettingsIInv, UsersIInv, UsersAlone, UsersAreServers
<1> QED
    BY <1>1, <1>2, <1>3, ConfigImplies DEF SettingsIInv, SettingsAreStored

--------------------------------------------------------------------------------
(* Library: the page is mounted by its route alone, and every render takes *)
(* its filter and its rows from what there is.                             *)

PageIsRoutes == view.mounted = (place.page = "library")
RouteIsSynced == ~unsynced => place = Here

LibraryIInv ==
    /\ LibraryTypeOK /\ PageIsRoutes /\ RouteIsSynced /\ FilterIsRoutes /\ RowsAreFresh

LEMMA LibraryImplies == LibraryIInv => LibraryTypeOK /\ RouteIsHash /\ FilterIsRoutes /\ RowsAreFresh
BY DEF LibraryIInv, PageIsRoutes, RouteIsSynced, RouteIsHash

LEMMA NoLibraryTyped == NoLibrary \in LibraryView /\ ~NoLibrary.mounted
BY DEF NoLibrary, LibraryView, RowsFrom, TagFilter

\* A page mounted for a place has its filter, and rows that are fresh.
LEMMA MountsRight ==
    ASSUME NEW p \in Place, NEW desktop \in BOOLEAN, topics \subseteq Tag, Mounts(p, desktop)
    PROVE  /\ view' \in LibraryView /\ view'.mounted
           /\ desktop \/ p.tag \in view'.keys => view'.filter = p.tag
           /\ view'.rows = [of |-> view'.filter, from |-> topics]
<1>1. PICK keys \in (IF desktop THEN {{}} ELSE TopOf(topics)) :
          view' = [mounted |-> TRUE, filter |-> initialFilter(p.tag, keys, desktop), keys |-> keys,
                   rows |-> [of |-> initialFilter(p.tag, keys, desktop), from |-> topics]]
    BY DEF Mounts
<1>2. keys \in SUBSET Tag
    BY DEF TopOf
<1>3. initialFilter(p.tag, keys, desktop) \in TagFilter
      /\ (desktop \/ p.tag \in keys => initialFilter(p.tag, keys, desktop) = p.tag)
    BY DEF initialFilter, TagFilter, Place
<1> QED
    BY <1>1, <1>2, <1>3 DEF LibraryView, RowsFrom

\* A page that stays, filtered anew.
LEMMA RowsOnFresh ==
    ASSUME NEW v \in LibraryView, NEW filter \in TagFilter, NEW tags \in SUBSET Tag
    PROVE  RowsOn(v, filter, tags) = [of |-> filter, from |-> tags]
BY DEF RowsOn, LibraryView, RowsFrom

LEMMA FiltersRight ==
    ASSUME view \in LibraryView, NEW filter \in TagFilter, topics \subseteq Tag, Filters(filter)
    PROVE  /\ view' \in LibraryView /\ view'.mounted = view.mounted /\ view'.keys = view.keys
           /\ view'.filter = filter /\ view'.rows = [of |-> filter, from |-> topics]
<1>1. view' = [view EXCEPT !.filter = filter, !.rows = [of |-> filter, from |-> topics]]
    BY RowsOnFresh DEF Filters
<1>2. [of |-> filter, from |-> topics] \in RowsFrom
    BY DEF RowsFrom
<1> QED
    BY <1>1, <1>2 DEF LibraryView

\* Rendering a route leaves the page the one of that route.
LEMMA RendersRight ==
    ASSUME LibraryIInv, NEW p \in Place, Renders(p), UNCHANGED <<wide, topics>>
    PROVE  /\ place' = p /\ picked' \in BOOLEAN /\ view' \in LibraryView
           /\ PageIsRoutes' /\ FilterIsRoutes' /\ RowsAreFresh'
<1> USE DEF LibraryIInv
<1>0. /\ place' = p /\ p.page \in {"library", "other"} /\ view \in LibraryView /\ place \in Place
      /\ topics \subseteq Tag /\ wide \in BOOLEAN /\ picked \in BOOLEAN /\ p.tag \in TagFilter
      /\ view.filter \in TagFilter
    BY DEF Renders, LibraryTypeOK, Place, LibraryView, TagFilter
<1>1. CASE p.page = "other"
    <2>1. view' = NoLibrary /\ picked' = FALSE
        BY <1>1 DEF Renders
    <2> QED
        BY <1>0, <1>1, <2>1, NoLibraryTyped DEF PageIsRoutes, FilterIsRoutes, RowsAreFresh, NoLibrary
<1>2. CASE p.page = "library" /\ ~view.mounted
    <2>1. Mounts(p, wide) /\ picked' = FALSE
        BY <1>2 DEF Renders
    <2> QED
        BY <1>0, <1>2, <2>1, MountsRight DEF PageIsRoutes, FilterIsRoutes, RowsAreFresh
<1>3. CASE p.page = "library" /\ view.mounted /\ p.tag = place.tag
    <2>1. view' = view /\ picked' = picked
        BY <1>3 DEF Renders
    <2> QED
        BY <1>0, <1>3, <2>1 DEF PageIsRoutes, FilterIsRoutes, RowsAreFresh
<1>4. CASE p.page = "library" /\ view.mounted /\ p.tag # place.tag
    <2>1. Filters(Follows(p.tag)) /\ picked' = (picked /\ Follows(p.tag) # p.tag)
        BY <1>4 DEF Renders
    <2>2. Follows(p.tag) \in TagFilter /\ (wide \/ p.tag \in view.keys => Follows(p.tag) = p.tag)
        BY <1>0 DEF Follows
    <2>3. /\ view' \in LibraryView /\ view'.mounted = view.mounted /\ view'.keys = view.keys
          /\ view'.filter = Follows(p.tag)
          /\ view'.rows = [of |-> Follows(p.tag), from |-> topics]
        BY <1>0, <2>1, <2>2, FiltersRight
    <2> QED
        BY <1>0, <1>4, <2>1, <2>2, <2>3 DEF PageIsRoutes, FilterIsRoutes, RowsAreFresh
<1> QED
    BY <1>0, <1>1, <1>2, <1>3, <1>4

LEMMA LibraryInitHolds == LibraryInit => LibraryIInv
<1> SUFFICES ASSUME LibraryInit PROVE LibraryIInv
    OBVIOUS
<1>0. /\ place \in Place /\ wide \in BOOLEAN /\ topics = {} /\ unsynced = FALSE /\ picked = FALSE
      /\ visits = [entries |-> <<place>>, at |-> 1]
    BY DEF LibraryInit
<1>1. visits.entries \in Seq(Place) /\ visits.at \in DOMAIN visits.entries
      /\ Len(visits.entries) <= MaxVisits /\ Here = place
    BY <1>0, LibraryAssumption DEF Here
<1>2. CASE place.page = "other"
    <2>1. view = NoLibrary /\ view.mounted = FALSE /\ view \in LibraryView
        BY <1>2, NoLibraryTyped DEF LibraryInit, NoLibrary
    <2>2. LibraryTypeOK
        BY <1>0, <1>1, <2>1 DEF LibraryTypeOK
    <2> QED
        BY <1>0, <1>1, <1>2, <2>1, <2>2 DEF LibraryIInv, PageIsRoutes, RouteIsSynced, FilterIsRoutes,
           RowsAreFresh
<1>3. CASE place.page = "library"
    <2> DEFINE filter == IF wide THEN place.tag ELSE NoTag
    <2>1. view = [NoLibrary EXCEPT !.mounted = TRUE, !.filter = filter, !.rows.of = filter]
        BY <1>3 DEF LibraryInit
    <2>2. filter \in TagFilter /\ (wide => filter = place.tag)
        BY <1>0 DEF Place, TagFilter
    <2> HIDE DEF filter
    <2>3. view = [mounted |-> TRUE, filter |-> filter, keys |-> {},
                  rows |-> [of |-> filter, from |-> {}]]
        BY <2>1 DEF NoLibrary
    <2>4. view \in LibraryView
        BY <2>2, <2>3 DEF LibraryView, RowsFrom
    <2> QED
        BY <1>0, <1>1, <1>3, <2>2, <2>3, <2>4 DEF LibraryIInv, LibraryTypeOK, PageIsRoutes,
           RouteIsSynced, FilterIsRoutes, RowsAreFresh
<1> QED
    BY <1>0, <1>2, <1>3 DEF Place

\* The history of the browser after one more entry.
LEMMA EntriesTyped ==
    ASSUME LibraryTypeOK, NEW p \in Place, visits.at < MaxVisits
    PROVE  LET entries == Append(SubSeq(visits.entries, 1, visits.at), p)
           IN entries \in Seq(Place) /\ Len(entries) = visits.at + 1 /\ visits.at + 1 <= MaxVisits
<1>1. visits.entries \in Seq(Place) /\ visits.at \in 1 .. Len(visits.entries)
    BY DEF LibraryTypeOK
<1>2. SubSeq(visits.entries, 1, visits.at) \in Seq(Place)
      /\ Len(SubSeq(visits.entries, 1, visits.at)) = visits.at
    BY <1>1, SubSeqProperties
<1> QED
    BY <1>1, <1>2, LibraryAssumption, AppendProperties

LEMMA LibraryStepKeeps == LibraryIInv /\ [LibraryNext]_libraryVars => LibraryIInv'
<1> SUFFICES ASSUME LibraryIInv, [LibraryNext]_libraryVars PROVE LibraryIInv'
    OBVIOUS
<1> USE DEF LibraryIInv
<1>0. /\ view \in LibraryView /\ topics \subseteq Tag /\ place \in Place /\ wide \in BOOLEAN
      /\ view.filter \in TagFilter /\ place.page \in {"library", "other"}
    BY DEF LibraryTypeOK, LibraryView, Place
<1>1. CASE UNCHANGED libraryVars
    BY <1>1 DEF libraryVars, LibraryTypeOK, PageIsRoutes, RouteIsSynced, Here, FilterIsRoutes,
       RowsAreFresh
<1>2. ASSUME NEW p \in Place, NavigateTo(p) PROVE LibraryIInv'
    <2>1. CASE Here = p
        <3>1. Renders(p) /\ UNCHANGED <<visits, unsynced, wide, topics>>
            BY <1>2, <2>1 DEF NavigateTo, GoesTo
        <3> QED
            BY <2>1, <3>1, RendersRight DEF LibraryTypeOK, RouteIsSynced, Here
    <2>2. CASE Here # p
        <3> DEFINE entries == Append(SubSeq(visits.entries, 1, visits.at), p)
        <3>1. /\ visits.at < MaxVisits /\ visits' = [entries |-> entries, at |-> visits.at + 1]
              /\ unsynced' = TRUE /\ UNCHANGED <<place, view, picked, wide, topics>>
            BY <1>2, <2>2 DEF NavigateTo, GoesTo
        <3>2. entries \in Seq(Place) /\ Len(entries) = visits.at + 1 /\ visits.at + 1 <= MaxVisits
            BY <3>1, EntriesTyped
        <3>3. visits.at + 1 \in 1 .. Len(entries)
            BY <3>2 DEF LibraryTypeOK
        <3> HIDE DEF entries
        <3>4. LibraryTypeOK'
            BY <3>1, <3>2, <3>3 DEF LibraryTypeOK
        <3> QED
            BY <3>1, <3>4 DEF PageIsRoutes, RouteIsSynced, FilterIsRoutes, RowsAreFresh
    <2> QED
        BY <2>1, <2>2
<1>3. ASSUME NEW n \in DOMAIN visits.entries, BackOrForward(n) PROVE LibraryIInv'
    <2>1. /\ visits' = [visits EXCEPT !.at = n] /\ unsynced' = TRUE
          /\ UNCHANGED <<place, wide, topics, view, picked>>
        BY <1>3 DEF BackOrForward
    <2>2. /\ visits' \in [entries : Seq(Place), at : Nat]
          /\ visits'.entries = visits.entries /\ visits'.at = n
        BY <2>1 DEF LibraryTypeOK
    <2> QED
        BY <1>3, <2>1, <2>2 DEF LibraryTypeOK, PageIsRoutes, RouteIsSynced, FilterIsRoutes, RowsAreFresh,
           BackOrForward
<1>4. CASE HashChanged
    <2>1. /\ Renders(Here) /\ unsynced' = FALSE /\ UNCHANGED <<visits, wide, topics>>
        BY <1>4 DEF HashChanged
    <2>2. Here \in Place
        BY DEF Here, LibraryTypeOK
    <2> QED
        BY <2>1, <2>2, RendersRight DEF LibraryTypeOK, RouteIsSynced, Here
<1>5. ASSUME NEW filter \in TagFilter, PickTag(filter) PROVE LibraryIInv'
    <2>1. /\ Filters(filter) /\ picked' = TRUE /\ UNCHANGED <<visits, unsynced, place, wide, topics>>
        BY <1>5 DEF PickTag
    <2> QED
        BY <1>0, <2>1, FiltersRight DEF LibraryTypeOK, PageIsRoutes, RouteIsSynced, Here, FilterIsRoutes,
           RowsAreFresh
<1>6. ASSUME NEW tags \in SUBSET Tag, TranscriptsLoad(tags) PROVE LibraryIInv'
    <2>1. /\ topics' = tags /\ UNCHANGED <<visits, unsynced, place, wide, picked>>
          /\ view' = IF view.mounted
                     THEN [view EXCEPT !.rows = [of |-> view.filter, from |-> tags]] ELSE view
        BY <1>0, <1>6, RowsOnFresh DEF TranscriptsLoad
    <2>2. [of |-> view.filter, from |-> tags] \in RowsFrom
        BY <1>0 DEF RowsFrom
    <2>3. /\ view' \in LibraryView /\ view'.mounted = view.mounted /\ view'.filter = view.filter
          /\ view'.keys = view.keys
          /\ view.mounted => view'.rows = [of |-> view.filter, from |-> tags]
        BY <1>0, <2>1, <2>2 DEF LibraryView
    <2> QED
        BY <2>1, <2>3 DEF LibraryTypeOK, PageIsRoutes, RouteIsSynced, Here, FilterIsRoutes, RowsAreFresh
<1>7. CASE WindowResized
    <2>1. /\ wide' = ~wide /\ UNCHANGED <<visits, unsynced, place, topics>>
          /\ IF view.mounted THEN Mounts(place, ~wide) /\ picked' = FALSE
             ELSE UNCHANGED <<view, picked>>
        BY <1>7 DEF WindowResized
    <2>2. CASE view.mounted
        BY <1>0, <2>1, <2>2, MountsRight DEF LibraryTypeOK, PageIsRoutes, RouteIsSynced, Here,
           FilterIsRoutes, RowsAreFresh
    <2>3. CASE ~view.mounted
        BY <1>0, <2>1, <2>3 DEF LibraryTypeOK, PageIsRoutes, RouteIsSynced, Here, FilterIsRoutes,
           RowsAreFresh
    <2> QED
        BY <2>2, <2>3
<1> QED
    BY <1>1, <1>2, <1>3, <1>4, <1>5, <1>6, <1>7 DEF LibraryNext

--------------------------------------------------------------------------------
(* JobPage: a load is for the route, and an answer for its load.           *)

ViewStatus == {"active", "archiving", "done", "failed"}
Statuses == {"absent", "gone"} \cup ViewStatus
Shows == [loading : BOOLEAN, error : BOOLEAN, value : View \cup {NoView}, by : {"poll", "action"}]
Polling == [timer : BOOLEAN, load : Request]

LoadIsRoutes ==
    poll.load.at # "idle" => /\ poll.load.id = route
                             /\ poll.load.answer.id \in {route, NoJob}

\* The part of the page that its effect and its loads write.
PageIInv ==
    /\ route \in Job \cup {NoJob} /\ current \in Shows /\ poll \in Polling
    /\ PageShowsRoute /\ LoadIsRoutes

\* A button's request has a job.
WellBegun(a) == a.at # "idle" => a.kind \in Kind /\ a.id \in Job

\* No page and no request knows a job that was never made.
KnownJobs ==
    \A j \in Job : status[j] = "absent" =>
        j \notin {current.value.id, act.id, late.id, poll.load.answer.id}

JobPageIInv ==
    /\ platform \in Platform /\ shown \in BOOLEAN /\ status \in [Job -> Statuses]
    /\ act \in Action /\ late \in Action /\ WellBegun(act) /\ WellBegun(late)
    /\ PageIInv /\ KnownJobs

LEMMA JobPageImplies == JobPageIInv => JobPageTypeOK /\ PageShowsRoute
<1> SUFFICES ASSUME JobPageIInv PROVE JobPageTypeOK /\ PageShowsRoute
    OBVIOUS
<1>1. \A j \in Job, s \in ViewStatus : s \in {v.status : v \in View}
    <2> TAKE j \in Job, s \in ViewStatus
    <2>1. [id |-> j, status |-> s] \in View /\ [id |-> j, status |-> s].status = s
        BY DEF View, ViewStatus
    <2> QED
        BY <2>1
<1>2. \A j \in Job : status[j] \in {"absent", "gone"} \cup {v.status : v \in View}
    BY <1>1 DEF JobPageIInv, Statuses
<1> QED
    BY <1>2 DEF JobPageIInv, JobPageTypeOK, PageIInv, Shows, Polling

\* The values that stand for nothing.
LEMMA BlanksTyped ==
    /\ NoJob \notin Job
    /\ NoView.id = NoJob /\ NoView \in NoBody /\ NoAction \in Action /\ NoAction.at = "idle"
    /\ NoAction.id = NoJob
    /\ Idle \in Request /\ Idle.at = "idle" /\ Idle.answer = NoView
    /\ Blank \in Shows /\ Blank.value = NoView
    /\ \A j \in Job \cup {NoJob} : /\ SentFor(j) \in Request /\ SentFor(j).id = j
                                   /\ SentFor(j).answer = NoView
    /\ \A s \in {"error", "transient", "empty"} : Told(s) \in NoBody /\ Told(s).id = NoJob
    /\ \A k \in Kind, j \in Job : /\ Begun(k, j) \in Action /\ Begun(k, j).kind = k
                                  /\ Begun(k, j).id = j
<1>1. NoView.id = NoJob /\ NoView \in NoBody
    BY DEF NoView, NoBody
<1>2. \A s \in {"error", "transient", "empty"} : Told(s) \in NoBody /\ Told(s).id = NoJob
    BY DEF Told, NoBody
<1> QED
    BY <1>1, <1>2, JobPageAssumption DEF NoAction, Action, Idle, SentFor, Request, Blank, Shows, Begun, Kind

LEMMA ViewsTyped ==
    /\ \A v \in View : v.id \in Job /\ v.status \in ViewStatus /\ v # NoView
    /\ \A v \in View \cup NoBody : v.id # NoJob => v \in View
    /\ \A j \in Job, s \in ViewStatus : [id |-> j, status |-> s] \in View
BY BlanksTyped DEF View, ViewStatus, NoBody

\* The effect for a route leaves the page with that route's value or none, and loads it.
LEMMA EffectRight ==
    ASSUME PageIInv, NEW r \in Job \cup {NoJob}, EffectRuns(r), route' = r
    PROVE  /\ PageIInv' /\ current'.value.id \in {current.value.id, NoJob}
           /\ poll'.load.answer = NoView
<1> USE DEF PageIInv
<1>1. CASE r = NoJob
    <2>1. current' = Blank /\ poll' = [timer |-> FALSE, load |-> Idle]
        BY <1>1 DEF EffectRuns
    <2> QED
        BY <2>1, BlanksTyped DEF Polling, PageShowsRoute, LoadIsRoutes
<1>2. CASE r # NoJob
    <2>1. /\ current' = [current EXCEPT !.loading = TRUE, !.error = FALSE, !.value = Kept(r)]
          /\ poll' = [timer |-> FALSE, load |-> SentFor(r)]
        BY <1>2 DEF EffectRuns
    <2>2. /\ Kept(r) \in View \cup {NoView}
          /\ Kept(r) = NoView \/ (Kept(r) = current.value /\ current.value.id = r)
        BY DEF Kept, Shows
    <2>3. current' \in Shows /\ current'.value = Kept(r) /\ current'.by = current.by
        BY <2>1, <2>2 DEF Shows
    <2>4. poll' \in Polling /\ poll'.load = SentFor(r)
        BY <2>1, BlanksTyped DEF Polling
    <2>5. PageShowsRoute'
        BY <2>2, <2>3 DEF PageShowsRoute
    <2>6. LoadIsRoutes'
        BY <2>4, BlanksTyped DEF LoadIsRoutes
    <2> QED
        BY <2>2, <2>3, <2>4, <2>5, <2>6, BlanksTyped
<1> QED
    BY <1>1, <1>2

LEMMA NavigateRight ==
    ASSUME PageIInv, NEW r \in Job \cup {NoJob}, Navigate(r)
    PROVE  /\ PageIInv' /\ current'.value.id \in {current.value.id, NoJob}
           /\ poll'.load.answer.id \in {poll.load.answer.id, NoJob}
<1>1. CASE r = route
    BY <1>1 DEF Navigate, PageIInv, PageShowsRoute, LoadIsRoutes
<1>2. CASE r # route
    BY <1>2, EffectRight, BlanksTyped DEF Navigate
<1> QED
    BY <1>1, <1>2

\* What the server does to a request that has a job it knows.
LEMMA OutcomesTyped ==
    ASSUME status \in [Job -> Statuses], NEW a \in Action, a.at # "idle", WellBegun(a),
           status[a.id] # "absent", NEW o \in Outcomes(a)
    PROVE  /\ o.jobs \in [Job -> Statuses]
           /\ \A j \in Job : status[j] # "absent" => o.jobs[j] # "absent"
           /\ o.answer \in View \cup {Told("error"), Told("empty")}
           /\ o.answer \in View => o.jobs[o.answer.id] # "absent"
<1>0. a.kind \in Kind /\ a.id \in Job
    BY DEF WellBegun
<1>1. ASSUME NEW p \in Does(a), ~Refuses(a)
      PROVE  /\ p.jobs \in [Job -> Statuses]
             /\ \A j \in Job : status[j] # "absent" => p.jobs[j] # "absent"
             /\ p.answer \in View \cup {Told("empty")}
             /\ p.answer \in View => p.jobs[p.answer.id] # "absent"
             /\ p = [jobs |-> p.jobs, answer |-> p.answer]
    <2>1. CASE a.kind = "refresh"
        <3>1. p = [jobs |-> [status EXCEPT ![a.id] = status[a.id]],
                   answer |-> [id |-> a.id, status |-> status[a.id]]]
            BY <1>1, <2>1 DEF Does
        <3>2. status[a.id] \in ViewStatus
            BY <1>0, <1>1 DEF Refuses, Statuses
        <3> QED
            BY <1>0, <3>1, <3>2, ViewsTyped
    <2>2. CASE a.kind = "cancel"
        <3>1. p = [jobs |-> [status EXCEPT ![a.id] = "failed"],
                   answer |-> [id |-> a.id, status |-> "failed"]]
            BY <1>1, <2>2 DEF Does
        <3> QED
            BY <1>0, <3>1, ViewsTyped DEF Statuses, ViewStatus
    <2>3. CASE a.kind = "delete"
        <3>1. p = [jobs |-> [status EXCEPT ![a.id] = "gone"], answer |-> Told("empty")]
            BY <1>1, <2>3 DEF Does
        <3>2. Told("empty") \notin View
            BY ViewsTyped, BlanksTyped
        <3> QED
            BY <1>0, <3>1, <3>2 DEF Statuses, ViewStatus
    <2>4. CASE a.kind = "retry"
        <3>1. PICK n \in Job : p = [jobs |-> [status EXCEPT ![n] = "active"],
                                    answer |-> [id |-> n, status |-> "active"]]
            BY <1>1, <2>4 DEF Does
        <3> QED
            BY <3>1, ViewsTyped DEF Statuses, ViewStatus
    <2> QED
        BY <1>0, <2>1, <2>2, <2>3, <2>4 DEF Kind
<1>2. Told("error") \notin View
    BY ViewsTyped, BlanksTyped
<1>3. CASE o = [jobs |-> status, answer |-> Told("error")]
    BY <1>2, <1>3
<1>4. CASE ~Refuses(a) /\ o \in Does(a)
    BY <1>1, <1>4
<1>5. ASSUME NEW p \in Does(a), ~Refuses(a), o = [p EXCEPT !.answer = Told("error")]
      PROVE  o.jobs = p.jobs /\ o.answer = Told("error")
    BY <1>1, <1>5
<1> QED
    BY <1>1, <1>2, <1>3, <1>4, <1>5 DEF Outcomes

StatusGrows ==
    /\ status' \in [Job -> Statuses]
    /\ \A j \in Job : status[j] # "absent" => status'[j] # "absent"

LEMMA DroppedRight ==
    JobPageIInv /\ Dropped => StatusGrows
<1> SUFFICES ASSUME JobPageIInv, Dropped PROVE StatusGrows
    OBVIOUS
<1>1. CASE status' = status
    BY <1>1 DEF JobPageIInv, StatusGrows
<1>2. CASE status' # status
    <2>1. act.at = "sent" /\ \E o \in Outcomes(act) : status' = o.jobs
        BY <1>2 DEF Dropped
    <2>2. act \in Action /\ WellBegun(act) /\ status[act.id] # "absent" /\ status \in [Job -> Statuses]
        BY <2>1 DEF JobPageIInv, WellBegun, KnownJobs
    <2> QED
        BY <2>1, <2>2, OutcomesTyped DEF StatusGrows
<1> QED
    BY <1>1, <1>2

\* A request that is let go ends, or goes on as the one nobody can abort.
LEMMA AbandonRight ==
    JobPageIInv /\ Abandon => /\ StatusGrows
                              /\ late' \in Action /\ WellBegun(late') /\ late'.id \in {late.id, act.id}
BY DroppedRight DEF Abandon, JobPageIInv, StatusGrows

LEMMA JobPageInitHolds == JobPageInit => JobPageIInv
<1> SUFFICES ASSUME JobPageInit PROVE JobPageIInv
    OBVIOUS
<1>1. /\ platform \in Platform /\ shown \in BOOLEAN /\ route = NoJob /\ current = Blank
      /\ poll = [timer |-> FALSE, load |-> Idle] /\ act = NoAction /\ late = NoAction
      /\ status \in [Job -> {"absent", "active", "failed"}]
    BY DEF JobPageInit
<1>2. PageIInv
    BY <1>1, BlanksTyped DEF PageIInv, Polling, PageShowsRoute, LoadIsRoutes
<1>3. status \in [Job -> Statuses]
    BY <1>1 DEF Statuses, ViewStatus
<1>4. KnownJobs
    BY <1>1, BlanksTyped DEF KnownJobs
<1> QED
    BY <1>1, <1>2, <1>3, <1>4, BlanksTyped DEF JobPageIInv, WellBegun

LEMMA LoadAnswersKeeps == JobPageIInv /\ LoadAnswers => JobPageIInv'
<1> SUFFICES ASSUME JobPageIInv, LoadAnswers PROVE JobPageIInv'
    OBVIOUS
<1>1. PICK a \in {Told("error"), Told("transient")} \cup
                 (View \cap {[id |-> poll.load.id, status |-> status[poll.load.id]]}) :
          poll' = [poll EXCEPT !.load.at = "answered", !.load.answer = a]
    BY DEF LoadAnswers
<1>2. /\ poll \in Polling /\ poll.load.at = "sent" /\ poll.load \in Request
      /\ UNCHANGED <<platform, status, route, shown, current, act, late>>
    BY DEF LoadAnswers, JobPageIInv, PageIInv, Polling
<1>3. a \in View \cup NoBody /\ a.id \in {poll.load.id, NoJob}
    BY <1>1, BlanksTyped
<1>4. \A j \in Job : status[j] = "absent" => j # a.id
    <2> SUFFICES ASSUME NEW j \in Job, status[j] = "absent", j = a.id PROVE FALSE
        OBVIOUS
    <2>1. a \in View /\ a = [id |-> poll.load.id, status |-> status[poll.load.id]]
        BY <1>1, <1>3, BlanksTyped
    <2>2. a.status = "absent"
        BY <2>1
    <2> QED
        BY <2>1, <2>2, ViewsTyped DEF ViewStatus
<1>5. /\ poll' \in Polling /\ poll'.load.at = "answered" /\ poll'.load.id = poll.load.id
      /\ poll'.load.answer = a
    <2> DEFINE load == [poll.load EXCEPT !.at = "answered", !.answer = a]
    <2>1. load \in Request /\ load.at = "answered" /\ load.id = poll.load.id /\ load.answer = a
        BY <1>2, <1>3 DEF Request
    <2>2. poll' = [poll EXCEPT !.load = load]
        BY <1>1, <1>2 DEF Polling, Request
    <2> HIDE DEF load
    <2> QED
        BY <1>2, <2>1, <2>2 DEF Polling
<1>6. PageIInv'
    BY <1>2, <1>3, <1>5 DEF JobPageIInv, PageIInv, PageShowsRoute, LoadIsRoutes
<1>7. KnownJobs'
    BY <1>2, <1>4, <1>5 DEF JobPageIInv, KnownJobs
<1> QED
    BY <1>2, <1>6, <1>7 DEF JobPageIInv, WellBegun

LEMMA LoadDeliversKeeps == JobPageIInv /\ LoadDelivers => JobPageIInv'
<1> SUFFICES ASSUME JobPageIInv, LoadDelivers PROVE JobPageIInv'
    OBVIOUS
<1> DEFINE a == poll.load.answer
<1>1. /\ current' = (IF a.id # NoJob
                     THEN [loading |-> FALSE, error |-> FALSE, value |-> a, by |-> "poll"]
                     ELSE [current EXCEPT !.loading = FALSE, !.error = TRUE])
      /\ poll' = [timer |-> PollsOn(a) /\ shown, load |-> Idle]
      /\ UNCHANGED <<platform, status, route, shown, act, late>>
      /\ a \in View \cup NoBody /\ a.id \in {route, NoJob} /\ current \in Shows
    BY DEF LoadDelivers, JobPageIInv, PageIInv, Polling, Request, LoadIsRoutes
<1>2. poll'.timer \in BOOLEAN /\ poll'.load = Idle /\ poll' = [timer |-> poll'.timer, load |-> Idle]
    <2>1. (PollsOn(a) /\ shown) \in BOOLEAN
        BY DEF PollsOn, isInFlight
    <2> QED
        BY <1>1, <2>1
<1>3. poll' \in Polling /\ poll'.load = Idle
    BY <1>2, BlanksTyped DEF Polling
<1>4. /\ current' \in Shows
      /\ \/ current'.value = a /\ a.id # NoJob
         \/ current'.value = current.value /\ current'.by = current.by
    BY <1>1, ViewsTyped DEF Shows
<1>5. PageIInv'
    BY <1>1, <1>3, <1>4, BlanksTyped DEF JobPageIInv, PageIInv, PageShowsRoute, LoadIsRoutes
<1>6. KnownJobs'
    BY <1>1, <1>3, <1>4, BlanksTyped DEF JobPageIInv, KnownJobs
<1> QED
    BY <1>1, <1>5, <1>6 DEF JobPageIInv, WellBegun

\* Timers and tabs only send a load for the route.
LEMMA PollingKeeps ==
    JobPageIInv /\ (PollTimer \/ TabHides \/ TabShows) => JobPageIInv'
<1> SUFFICES ASSUME JobPageIInv, PollTimer \/ TabHides \/ TabShows PROVE JobPageIInv'
    OBVIOUS
<1>1. /\ poll \in Polling /\ route \in Job \cup {NoJob}
      /\ UNCHANGED <<platform, status, route, current, act, late>> /\ shown' \in BOOLEAN
    BY DEF PollTimer, TabHides, TabShows, JobPageIInv, PageIInv
<1>2. /\ poll' \in Polling
      /\ poll'.load \in {poll.load, SentFor(route)}
    <2>1. \/ poll' = [timer |-> FALSE, load |-> SentFor(route)]
          \/ poll' = [poll EXCEPT !.timer = FALSE]
          \/ poll' = [poll EXCEPT !.load = SentFor(route)]
          \/ poll' = poll
        BY DEF PollTimer, TabHides, TabShows, OnTabShown
    <2>2. poll.timer \in BOOLEAN /\ poll.load \in Request /\ SentFor(route) \in Request
          /\ poll = [timer |-> poll.timer, load |-> poll.load]
        BY <1>1, BlanksTyped DEF Polling
    <2>3. \/ poll' = [timer |-> FALSE, load |-> SentFor(route)]
          \/ poll' = [timer |-> FALSE, load |-> poll.load]
          \/ poll' = [timer |-> poll.timer, load |-> SentFor(route)]
          \/ poll' = poll
        BY <2>1, <2>2
    <2> QED
        <3>1. ASSUME NEW t \in BOOLEAN, NEW l \in {poll.load, SentFor(route)},
                     poll' = [timer |-> t, load |-> l]
              PROVE  poll' \in Polling /\ poll'.load \in {poll.load, SentFor(route)}
            BY <2>2, <3>1 DEF Polling
        <3> QED
            BY <1>1, <2>2, <2>3, <3>1
<1>3. PageIInv'
    BY <1>1, <1>2, BlanksTyped DEF JobPageIInv, PageIInv, PageShowsRoute, LoadIsRoutes
<1>4. KnownJobs'
    BY <1>1, <1>2, BlanksTyped DEF JobPageIInv, KnownJobs
<1> QED
    BY <1>1, <1>3, <1>4 DEF JobPageIInv, WellBegun

LEMMA GoKeeps ==
    ASSUME JobPageIInv, \/ JobEffectRunsAgain
                        \/ \E r \in Job \cup {NoJob} : Go(r)
    PROVE  JobPageIInv'
<1>1. CASE JobEffectRunsAgain
    <2>1. /\ PageIInv' /\ current'.value.id \in {current.value.id, NoJob} /\ poll'.load.answer = NoView
          /\ UNCHANGED <<platform, status, route, shown, act, late>>
        BY <1>1, EffectRight DEF JobEffectRunsAgain, JobPageIInv, PageIInv
    <2> QED
        BY <2>1, BlanksTyped DEF JobPageIInv, KnownJobs, WellBegun
<1>2. ASSUME NEW r \in Job \cup {NoJob}, Go(r) PROVE JobPageIInv'
    <2>1. /\ PageIInv' /\ current'.value.id \in {current.value.id, NoJob}
          /\ poll'.load.answer.id \in {poll.load.answer.id, NoJob}
          /\ UNCHANGED <<platform, shown>>
        BY <1>2, NavigateRight DEF Go, JobPageIInv
    <2>2. /\ StatusGrows /\ late' \in Action /\ WellBegun(late') /\ late'.id \in {late.id, act.id}
          /\ act' \in {act, NoAction}
        BY <1>2, AbandonRight DEF Go, JobPageIInv, StatusGrows
    <2> QED
        BY <2>1, <2>2, BlanksTyped DEF JobPageIInv, KnownJobs, WellBegun, StatusGrows
<1> QED
    BY <1>1, <1>2

LEMMA PressKeeps ==
    ASSUME JobPageIInv, CopyJob \/ \E k \in Kind : Press(k)
    PROVE  JobPageIInv'
<1>1. /\ StatusGrows /\ late' \in Action /\ WellBegun(late') /\ late'.id \in {late.id, act.id}
      /\ UNCHANGED <<platform, route, shown, current, poll>>
    BY AbandonRight DEF CopyJob, Press
<1>2. act' \in Action /\ WellBegun(act') /\ act'.id \in {NoJob, current.value.id}
    <2>1. CASE CopyJob
        BY <2>1, BlanksTyped DEF CopyJob, WellBegun
    <2>2. ASSUME NEW k \in Kind, Press(k)
          PROVE  act' \in Action /\ WellBegun(act') /\ act'.id \in {NoJob, current.value.id}
        <3>1. current.value.id \in Job
            BY <2>2, ViewsTyped DEF Press, Offers, JobPageIInv, PageIInv, Shows
        <3> QED
            BY <2>2, <3>1, BlanksTyped DEF Press, WellBegun
    <2> QED
        BY <2>1, <2>2
<1>3. PageIInv'
    BY <1>1 DEF JobPageIInv, PageIInv, PageShowsRoute, LoadIsRoutes
<1>4. KnownJobs'
    BY <1>1, <1>2, BlanksTyped DEF JobPageIInv, KnownJobs, StatusGrows
<1> QED
    BY <1>1, <1>2, <1>3, <1>4 DEF JobPageIInv, StatusGrows, WellBegun

\* The worker, and the rows of other pages.
LEMMA RowsKeep ==
    ASSUME JobPageIInv, NEW j \in Job, RowRetries(j) \/ RowDeletes(j) \/ Advances(j)
    PROVE  JobPageIInv'
<1>1. /\ StatusGrows /\ UNCHANGED <<platform, route, shown, current, poll, act>>
      /\ \/ late' = late
         \/ late' = Begun("retry", j) /\ status[j] = "failed" /\ status' = status
    BY DEF RowRetries, RowDeletes, Advances, StatusGrows, JobPageIInv, Statuses, ViewStatus, Terminal
<1>2. late' \in Action /\ WellBegun(late') /\ (late'.id = late.id \/ status'[late'.id] # "absent")
    BY <1>1, BlanksTyped DEF JobPageIInv, WellBegun, Kind
<1>3. PageIInv'
    BY <1>1 DEF JobPageIInv, PageIInv, PageShowsRoute, LoadIsRoutes
<1>4. KnownJobs'
    BY <1>1, <1>2 DEF JobPageIInv, KnownJobs, StatusGrows
<1> QED
    BY <1>1, <1>2, <1>3, <1>4 DEF JobPageIInv, StatusGrows, WellBegun

\* An answer of a button is written over whatever page it finds.
LEMMA OverwritesRight ==
    ASSUME PageIInv, NEW v \in View, Overwrites(v)
    PROVE  PageIInv' /\ current'.value = v /\ poll' = poll
<1>1. /\ current' = [loading |-> FALSE, error |-> FALSE, value |-> v, by |-> "action"]
      /\ UNCHANGED <<route, poll>>
    BY DEF Overwrites
<1>2. current' \in Shows /\ current'.value = v /\ current'.by = "action"
    BY <1>1 DEF Shows
<1> QED
    BY <1>1, <1>2 DEF PageIInv, PageShowsRoute, LoadIsRoutes

\* A request that was answered, and waits for the core.
LEMMA WaitsTyped ==
    ASSUME NEW a \in Action, WellBegun(a), a.at # "idle", NEW v \in View
    PROVE  LET b == [a EXCEPT !.at = "core", !.answer = v]
           IN b \in Action /\ WellBegun(b) /\ b.id = a.id
BY DEF Action, WellBegun

LEMMA ActDeliversKeeps == JobPageIInv /\ ActDelivers => JobPageIInv'
<1> SUFFICES ASSUME JobPageIInv, ActDelivers PROVE JobPageIInv'
    OBVIOUS
<1>1. PICK o \in Outcomes(act) :
         /\ status' = o.jobs
         /\ \/ /\ o.answer.status = "error"
               /\ act' = NoAction /\ UNCHANGED <<route, current, poll>>
            \/ o.answer.status = "empty" /\ act' = NoAction /\ Navigate(NoJob)
            \/ /\ o.answer.id # NoJob /\ Overwrites(o.answer)
               /\ act' = IF act.kind = "refresh" THEN NoAction
                         ELSE [act EXCEPT !.at = "core", !.answer = o.answer]
    BY DEF ActDelivers
<1>2. /\ UNCHANGED <<platform, shown, late>> /\ act.at = "sent" /\ act \in Action /\ WellBegun(act)
      /\ PageIInv /\ status[act.id] # "absent" /\ status \in [Job -> Statuses]
    BY DEF ActDelivers, JobPageIInv, WellBegun, KnownJobs
<1>3. StatusGrows /\ o.answer \in View \cup {Told("error"), Told("empty")}
      /\ (o.answer \in View => status'[o.answer.id] # "absent")
    BY <1>1, <1>2, OutcomesTyped DEF StatusGrows
<1>4. /\ PageIInv' /\ act' \in Action /\ WellBegun(act') /\ act'.id \in {act.id, NoJob}
      /\ poll'.load.answer.id \in {poll.load.answer.id, NoJob}
      /\ \/ current'.value.id \in {current.value.id, NoJob}
         \/ current'.value \in View /\ status'[current'.value.id] # "absent"
    <2>1. CASE act' = NoAction /\ UNCHANGED <<route, current, poll>>
        BY <1>2, <2>1, BlanksTyped DEF PageIInv, PageShowsRoute, LoadIsRoutes, WellBegun
    <2>2. CASE act' = NoAction /\ Navigate(NoJob)
        BY <1>2, <2>2, BlanksTyped, NavigateRight DEF WellBegun
    <2>3. CASE /\ o.answer.id # NoJob /\ Overwrites(o.answer)
               /\ act' = IF act.kind = "refresh" THEN NoAction
                         ELSE [act EXCEPT !.at = "core", !.answer = o.answer]
        <3>1. o.answer \in View
            BY <1>3, <2>3, BlanksTyped
        <3>2. PageIInv' /\ current'.value = o.answer /\ poll' = poll
            BY <1>2, <2>3, <3>1, OverwritesRight
        <3>3. act' \in Action /\ WellBegun(act') /\ act'.id \in {act.id, NoJob}
            BY <1>2, <2>3, <3>1, WaitsTyped, BlanksTyped DEF WellBegun
        <3> QED
            BY <1>3, <3>1, <3>2, <3>3
    <2> QED
        BY <1>1, <2>1, <2>2, <2>3
<1>5. KnownJobs'
    BY <1>2, <1>3, <1>4, BlanksTyped DEF JobPageIInv, KnownJobs, StatusGrows
<1> QED
    BY <1>2, <1>3, <1>4, <1>5 DEF JobPageIInv, StatusGrows, WellBegun

LEMMA LateDeliversKeeps == JobPageIInv /\ LateDelivers => JobPageIInv'
<1> SUFFICES ASSUME JobPageIInv, LateDelivers PROVE JobPageIInv'
    OBVIOUS
<1>1. PICK o \in Outcomes(late) :
         /\ status' = o.jobs
         /\ IF o.answer.id # NoJob
            THEN late' = [late EXCEPT !.at = "core", !.answer = o.answer] /\ Overwrites(o.answer)
            ELSE late' = NoAction /\ UNCHANGED <<route, current, poll>>
    BY DEF LateDelivers
<1>2. /\ UNCHANGED <<platform, shown, act>> /\ late.at = "sent" /\ late \in Action /\ WellBegun(late)
      /\ PageIInv /\ status[late.id] # "absent" /\ status \in [Job -> Statuses]
    BY DEF LateDelivers, JobPageIInv, WellBegun, KnownJobs
<1>3. StatusGrows /\ o.answer \in View \cup {Told("error"), Told("empty")}
      /\ (o.answer \in View => status'[o.answer.id] # "absent")
    BY <1>1, <1>2, OutcomesTyped DEF StatusGrows
<1>4. /\ PageIInv' /\ late' \in Action /\ WellBegun(late') /\ late'.id \in {late.id, NoJob} /\ poll' = poll
      /\ \/ current' = current
         \/ current'.value \in View /\ status'[current'.value.id] # "absent"
    <2>1. CASE o.answer.id # NoJob
        <3>1. o.answer \in View
            BY <1>3, <2>1, BlanksTyped
        <3> QED
            <4>1. late' = [late EXCEPT !.at = "core", !.answer = o.answer] /\ Overwrites(o.answer)
                BY <1>1, <2>1
            <4>2. PageIInv' /\ poll' = poll /\ current'.value = o.answer
                BY <1>2, <3>1, <4>1, OverwritesRight
            <4>3. late' \in Action /\ WellBegun(late') /\ late'.id = late.id
                BY <1>2, <3>1, <4>1, WaitsTyped
            <4> QED
                BY <1>2, <1>3, <3>1, <4>2, <4>3
    <2>2. CASE o.answer.id = NoJob
        BY <1>1, <1>2, <2>2, BlanksTyped DEF PageIInv, PageShowsRoute, LoadIsRoutes, WellBegun
    <2> QED
        BY <2>1, <2>2
<1>5. KnownJobs'
    BY <1>2, <1>3, <1>4, BlanksTyped DEF JobPageIInv, KnownJobs, StatusGrows
<1> QED
    BY <1>2, <1>3, <1>4, <1>5 DEF JobPageIInv, StatusGrows, WellBegun

\* A retry leads to its job from wherever the page is.
LEMMA ActEndsKeeps == JobPageIInv /\ (ActEnds \/ LateEnds) => JobPageIInv'
<1> SUFFICES ASSUME JobPageIInv, ActEnds \/ LateEnds PROVE JobPageIInv'
    OBVIOUS
<1>1. \A a \in Action : a.answer.id \in Job \cup {NoJob}
    BY ViewsTyped, BlanksTyped DEF Action
<1>2. /\ PageIInv' /\ current'.value.id \in {current.value.id, NoJob}
      /\ poll'.load.answer.id \in {poll.load.answer.id, NoJob}
    <2>1. CASE ActEnds
        BY <1>1, <2>1, NavigateRight DEF ActEnds, JobPageIInv, PageIInv, PageShowsRoute, LoadIsRoutes
    <2>2. CASE LateEnds
        BY <1>1, <2>2, NavigateRight DEF LateEnds, JobPageIInv
    <2> QED
        BY <2>1, <2>2
<1>3. /\ act' \in {act, NoAction} /\ late' \in {late, NoAction} /\ StatusGrows
      /\ UNCHANGED <<platform, shown>>
    BY DroppedRight DEF ActEnds, LateEnds, JobPageIInv, StatusGrows
<1>4. KnownJobs'
    BY <1>2, <1>3, BlanksTyped DEF JobPageIInv, KnownJobs, StatusGrows
<1> QED
    BY <1>2, <1>3, <1>4, BlanksTyped DEF JobPageIInv, StatusGrows, WellBegun

LEMMA JobPageStepKeeps == JobPageIInv /\ [JobPageNext]_jobPageVars => JobPageIInv'
<1>1. JobPageIInv /\ UNCHANGED jobPageVars => JobPageIInv'
    BY DEF JobPageIInv, jobPageVars, PageIInv, PageShowsRoute, LoadIsRoutes, KnownJobs, WellBegun
<1> QED
    BY <1>1, LoadAnswersKeeps, LoadDeliversKeeps, PollingKeeps, GoKeeps, PressKeeps, RowsKeep,
       ActDeliversKeeps, LateDeliversKeeps, ActEndsKeeps DEF JobPageNext, Requests, Answers

--------------------------------------------------------------------------------
(* History: while reads did not cross there is one at most, for the page   *)
(* that was asked for; a job that was cleared is gone from the server.     *)

\* The reads under way, and what the last of them left on the page.
ReadsAlone ==
    ~astray =>
        /\ \A l, m \in loads : l = m
        /\ \A l \in loads : l.of = asked
        /\ loads = {} /\ listed.state = "shown" =>
               listed.page.of = asked /\ listed.page.rows \cap cleared = {}

ClearedIsGone == cleared \cap DOMAIN jobs = {}

HistoryIInv == HistoryTypeOK /\ ReadsAlone /\ ClearedIsGone

LEMMA HistoryImplies == HistoryIInv => HistoryTypeOK /\ HistoryIsPage
BY DEF HistoryIInv, ReadsAlone, HistoryIsPage

LEMMA AsksTyped ==
    /\ FirstPage \in Asked /\ Unread \in Listing
    /\ \A a \in Asked, s \in BOOLEAN : [of |-> a, signal |-> s] \in Loading
BY HistoryAssumption DEF FirstPage, Asked, Unread, Listing, Loading, Filter

\* What the server answers to a read is a page of the jobs it has.
LEMMA ListingTyped ==
    ASSUME HistoryTypeOK, NEW a \in Asked
    PROVE  ListingOf(a) \in Listing /\ ListingOf(a).of = a /\ ListingOf(a).rows \subseteq DOMAIN jobs
<1>1. Matches(a.filter) \subseteq JobNo /\ RowsOf(a) \subseteq Matches(a.filter)
      /\ Matches(a.filter) \subseteq DOMAIN jobs
    BY DEF Matches, RowsOf, HistoryTypeOK
<1>2. Cardinality(Matches(a.filter)) \in 0 .. MaxJobs
    <2>1. IsFiniteSet(JobNo) /\ Cardinality(JobNo) = MaxJobs
        BY HistoryAssumption, FS_Interval DEF JobNo
    <2>2. IsFiniteSet(Matches(a.filter)) /\ Cardinality(Matches(a.filter)) <= Cardinality(JobNo)
        BY <1>1, <2>1, FS_Subset
    <2> QED
        BY <2>1, <2>2, FS_CardinalityType, HistoryAssumption
<1> QED
    BY <1>1, <1>2 DEF ListingOf, Listing

LEMMA HistoryInitHolds == HistoryInit => HistoryIInv
<1> SUFFICES ASSUME HistoryInit PROVE HistoryIInv
    OBVIOUS
<1>1. HistoryTypeOK
    BY AsksTyped DEF HistoryInit, HistoryTypeOK
<1>2. ReadsAlone
    BY DEF HistoryInit, ReadsAlone
<1>3. ClearedIsGone
    BY DEF HistoryInit, ClearedIsGone
<1> QED
    BY <1>1, <1>2, <1>3 DEF HistoryIInv

\* A read that begins: it is alone and for the page asked for, or the reads went astray.
LEMMA BeginsKeep ==
    ASSUME HistoryTypeOK, NEW a \in Asked, NEW s \in BOOLEAN, NEW others \in SUBSET loads,
           Begin([of |-> a, signal |-> s], others), asked' \in Asked
    PROVE  /\ loads' \subseteq Loading /\ astray' \in BOOLEAN
           /\ listed' \in [page : Listing, state : {"loading", "shown", "error"}]
           /\ ReadsAlone'
<1> DEFINE load == [of |-> a, signal |-> s]
<1>1. load \in Loading /\ load.of = a
    BY AsksTyped
<1> HIDE DEF load
<1>2. /\ loads' = others \cup {load} /\ astray' = (others # {} \/ load.of # asked')
      /\ listed' = [listed EXCEPT !.state = "loading"]
    BY DEF Begin, load
<1>3. loads' \subseteq Loading /\ astray' \in BOOLEAN
      /\ listed' \in [page : Listing, state : {"loading", "shown", "error"}]
    BY <1>1, <1>2 DEF HistoryTypeOK
<1>4. ReadsAlone'
    BY <1>2 DEF ReadsAlone
<1> QED
    BY <1>3, <1>4

LEMMA AskKeeps ==
    ASSUME HistoryIInv, NEW a \in Asked, Ask(a)
    PROVE  HistoryIInv'
<1>1. /\ asked' = a /\ UNCHANGED <<jobs, clearing, cleared>>
      /\ Begin([of |-> a, signal |-> TRUE], {l \in loads : ~l.signal})
    BY DEF Ask
<1>2. {l \in loads : ~l.signal} \in SUBSET loads /\ HistoryTypeOK
    BY DEF HistoryIInv
<1>3. /\ loads' \subseteq Loading /\ astray' \in BOOLEAN
      /\ listed' \in [page : Listing, state : {"loading", "shown", "error"}]
      /\ ReadsAlone'
    BY <1>1, <1>2, BeginsKeep
<1>4. HistoryTypeOK'
    BY <1>1, <1>2, <1>3 DEF HistoryTypeOK
<1> QED
    BY <1>1, <1>3, <1>4 DEF HistoryIInv, ClearedIsGone

\* The page and the status are chosen, or the session is a new one.
LEMMA ChoicesKeep ==
    ASSUME HistoryIInv, \/ \E f \in Filter : ChooseStatus(f)
                        \/ PreviousPage \/ NextPage \/ SessionRenewed
    PROVE  HistoryIInv'
<1>1. asked \in Asked
    BY DEF HistoryIInv, HistoryTypeOK
<1>2. ASSUME NEW f \in Filter, ChooseStatus(f) PROVE HistoryIInv'
    <2>1. [filter |-> f, page |-> 0] \in Asked
        BY HistoryAssumption DEF Asked
    <2> QED
        BY <1>2, <2>1, AskKeeps DEF ChooseStatus
<1>3. CASE PreviousPage
    <2>1. [asked EXCEPT !.page = @ - 1] \in Asked
        BY <1>1, <1>3, HistoryAssumption DEF Asked, PreviousPage
    <2> QED
        BY <1>3, <2>1, AskKeeps DEF PreviousPage
<1>4. CASE NextPage
    <2>1. [asked EXCEPT !.page = @ + 1] \in Asked
        BY <1>1, <1>4, HistoryAssumption DEF Asked, NextPage
    <2> QED
        BY <1>4, <2>1, AskKeeps DEF NextPage
<1>5. CASE SessionRenewed
    BY <1>1, <1>5, AskKeeps DEF SessionRenewed
<1> QED
    BY <1>2, <1>3, <1>4, <1>5

\* "Refresh", and the read after a job was cleared.
LEMMA ReadByHandKeeps ==
    ASSUME HistoryTypeOK, NEW a \in Asked, LoadsByHand(a), UNCHANGED asked
    PROVE  /\ loads' \subseteq Loading /\ astray' \in BOOLEAN
           /\ listed' \in [page : Listing, state : {"loading", "shown", "error"}]
           /\ ReadsAlone'
<1>1. Begin([of |-> a, signal |-> FALSE], loads) /\ asked' \in Asked /\ loads \in SUBSET loads
    BY DEF LoadsByHand, HistoryTypeOK
<1> QED
    BY <1>1, BeginsKeep

LEMMA RefreshKeeps == HistoryIInv /\ RefreshHistory => HistoryIInv'
<1> SUFFICES ASSUME HistoryIInv, RefreshHistory PROVE HistoryIInv'
    OBVIOUS
<1>1. LoadsByHand(asked) /\ UNCHANGED <<jobs, asked, clearing, cleared>> /\ asked \in Asked
      /\ HistoryTypeOK
    BY DEF RefreshHistory, HistoryIInv, HistoryTypeOK
<1>2. /\ loads' \subseteq Loading /\ astray' \in BOOLEAN
      /\ listed' \in [page : Listing, state : {"loading", "shown", "error"}]
      /\ ReadsAlone'
    BY <1>1, ReadByHandKeeps
<1>3. HistoryTypeOK'
    BY <1>1, <1>2 DEF HistoryTypeOK
<1> QED
    BY <1>1, <1>2, <1>3 DEF HistoryIInv, ClearedIsGone

LEMMA HistoryAnswersKeeps ==
    ASSUME HistoryIInv, NEW l \in loads, HistoryAnswers(l)
    PROVE  HistoryIInv'
<1> USE DEF HistoryIInv
<1>1. /\ loads' = loads \ {l} /\ UNCHANGED <<jobs, asked, clearing, cleared, astray>>
      /\ l.of \in Asked /\ listed \in [page : Listing, state : {"loading", "shown", "error"}]
    BY DEF HistoryAnswers, HistoryTypeOK, Loading
<1>2. /\ ListingOf(l.of) \in Listing /\ ListingOf(l.of).of = l.of
      /\ ListingOf(l.of).rows \subseteq DOMAIN jobs
    BY <1>1, ListingTyped
<1>3. /\ listed' \in [page : Listing, state : {"loading", "shown", "error"}]
      /\ \/ listed'.page = ListingOf(l.of) /\ listed'.state = "shown"
         \/ listed'.state = "error"
    BY <1>1, <1>2 DEF HistoryAnswers
<1>4. HistoryTypeOK'
    BY <1>1, <1>3 DEF HistoryTypeOK
<1>5. ReadsAlone'
    BY <1>1, <1>2, <1>3 DEF ReadsAlone, ClearedIsGone
<1> QED
    BY <1>1, <1>4, <1>5 DEF ClearedIsGone

\* A job is cleared: it is gone from the server, and the list is read again.
LEMMA JobClearedKeeps ==
    ASSUME HistoryIInv, NEW c \in clearing, JobCleared(c)
    PROVE  HistoryIInv'
<1>1. /\ clearing' = clearing \ {c} /\ UNCHANGED asked /\ LoadsByHand(c.of)
      /\ jobs' = [j \in DOMAIN jobs \ {c.job} |-> jobs[j]] /\ cleared' = cleared \cup {c.job}
      /\ c.of \in Asked /\ c.job \in JobNo /\ HistoryTypeOK
    BY DEF JobCleared, ReadsAgain, HistoryIInv, HistoryTypeOK
<1>2. /\ loads' \subseteq Loading /\ astray' \in BOOLEAN
      /\ listed' \in [page : Listing, state : {"loading", "shown", "error"}]
      /\ ReadsAlone'
    BY <1>1, ReadByHandKeeps
<1>3. HistoryTypeOK'
    BY <1>1, <1>2 DEF HistoryTypeOK
<1>4. ClearedIsGone'
    BY <1>1 DEF HistoryIInv, ClearedIsGone
<1> QED
    BY <1>2, <1>3, <1>4 DEF HistoryIInv

\* Steps that neither read nor delete.
LEMMA RowStepsKeep ==
    ASSUME HistoryIInv, \/ \E j \in JobNo : ClearJob(j)
                        \/ \E c \in clearing : JobNotCleared(c)
                        \/ \E j \in DOMAIN jobs : JobSettles(j)
    PROVE  HistoryIInv'
<1>1. /\ UNCHANGED <<asked, listed, loads, cleared, astray>> /\ HistoryTypeOK
      /\ DOMAIN jobs' = DOMAIN jobs /\ \A j \in DOMAIN jobs : jobs'[j] \in {jobs[j], "done"}
      /\ clearing' \subseteq clearing \cup {[job |-> j, of |-> asked] : j \in JobNo}
    BY DEF ClearJob, JobNotCleared, JobSettles, HistoryIInv
<1>2. \A j \in JobNo : [job |-> j, of |-> asked] \in [job : JobNo, of : Asked]
    BY <1>1 DEF HistoryTypeOK
<1>3. HistoryTypeOK'
    BY <1>1, <1>2 DEF HistoryTypeOK
<1> QED
    BY <1>1, <1>3 DEF HistoryIInv, ReadsAlone, ClearedIsGone

LEMMA HistoryStepKeeps == HistoryIInv /\ [HistoryNext]_historyVars => HistoryIInv'
<1>1. HistoryIInv /\ UNCHANGED historyVars => HistoryIInv'
    BY DEF HistoryIInv, HistoryTypeOK, ReadsAlone, ClearedIsGone, historyVars
<1> QED
    BY <1>1, ChoicesKeep, RefreshKeeps, HistoryAnswersKeeps, JobClearedKeeps, RowStepsKeep
       DEF HistoryNext

--------------------------------------------------------------------------------
(* TranscriptPage: the desktop's calls.  The page that waits for a new     *)
(* summary is the one whose call it is, and it has no other.               *)

Regenerating == {c \in pending : c.own /\ c.what = "regenerate"}

DeskTyped ==
    /\ kept \subseteq Document /\ labels \in 0 .. MaxFlashes
    /\ desk \in [of : Document \cup {Nowhere}, regenerating : BOOLEAN, armed : BOOLEAN,
                 sheet : BOOLEAN, label : {"none", "ok", "err"}]
    /\ pending \subseteq [what : Calls, of : Document, own : BOOLEAN]

WaitsForOne ==
    /\ \A c, d \in Regenerating : c = d
    /\ desk.regenerating = (Regenerating # {})

DeskIInv == DeskTyped /\ WaitsForOne

LEMMA WaitingIsOne == WaitsForOne => OneRegenerate
<1> SUFFICES ASSUME WaitsForOne PROVE OneRegenerate
    OBVIOUS
<1>1. Cardinality(Regenerating) <= 1
    <2>1. CASE Regenerating = {}
        BY <2>1, FS_EmptySet
    <2>2. ASSUME NEW c \in Regenerating PROVE Cardinality(Regenerating) <= 1
        <3>1. Regenerating = {c}
            BY <2>2 DEF WaitsForOne
        <3> QED
            BY <3>1, FS_Singleton
    <2> QED
        BY <2>1, <2>2
<1> QED
    BY <1>1 DEF OneRegenerate, WaitsForOne, Regenerating

DeskPage == [of : Document \cup {Nowhere}, regenerating : BOOLEAN, armed : BOOLEAN,
             sheet : BOOLEAN, label : {"none", "ok", "err"}]

LEMMA ClosedTyped == Closed \in DeskPage /\ Closed.regenerating = FALSE
BY DEF Closed, DeskPage

\* Leaving the page orphans its calls: they go on, and it waits for none.
LEMMA LeavesRight ==
    ASSUME DeskTyped, NEW left \in SUBSET pending, desk' = Closed, pending' = Orphaned(left),
           kept' \subseteq kept, UNCHANGED labels
    PROVE  DeskIInv'
<1>1. \A c \in left : /\ [c EXCEPT !.own = FALSE] \in [what : Calls, of : Document, own : BOOLEAN]
                      /\ ~[c EXCEPT !.own = FALSE].own
    <2> TAKE c \in left
    <2>1. c \in [what : Calls, of : Document, own : BOOLEAN]
        BY DEF DeskTyped
    <2> QED
        BY <2>1
<1>2. pending' \subseteq [what : Calls, of : Document, own : BOOLEAN]
      /\ \A c \in pending' : ~c.own
    BY <1>1 DEF Orphaned
<1>3. DeskTyped'
    BY <1>2, ClosedTyped DEF DeskTyped, DeskPage
<1>4. Regenerating' = {}
    BY <1>2 DEF Regenerating
<1> QED
    BY <1>3, <1>4, ClosedTyped DEF DeskIInv, WaitsForOne

\* A step that leaves the page's own calls alone.
LEMMA CallsStay ==
    ASSUME DeskIInv, DeskTyped', Regenerating' = Regenerating,
           desk'.regenerating = desk.regenerating
    PROVE  DeskIInv'
BY DEF DeskIInv, WaitsForOne

LEMMA OpenPageKeeps ==
    ASSUME DeskIInv, NEW d \in Document \cup {Nowhere}, OpenPage(d)
    PROVE  DeskIInv'
<1>1. CASE d = Nowhere
    BY <1>1, LeavesRight DEF OpenPage, Route, DeskIInv
<1>2. CASE d # Nowhere
    <2>1. desk' = [desk EXCEPT !.of = d] /\ UNCHANGED <<kept, labels, pending>>
        BY <1>2 DEF OpenPage, Route
    <2>2. DeskTyped' /\ desk'.regenerating = desk.regenerating
        BY <2>1 DEF DeskIInv, DeskTyped
    <2>3. Regenerating' = Regenerating
        BY <2>1 DEF Regenerating
    <2> QED
        BY <2>2, <2>3, CallsStay
<1> QED
    BY <1>1, <1>2

LEMMA TogglesKeep == DeskIInv /\ (ToggleShare \/ Arm \/ LabelTimer) => DeskIInv'
<1> SUFFICES ASSUME DeskIInv, ToggleShare \/ Arm \/ LabelTimer PROVE DeskIInv'
    OBVIOUS
<1>1. /\ UNCHANGED <<kept, pending>> /\ labels' \in 0 .. MaxFlashes
      /\ \/ desk' = [desk EXCEPT !.sheet = ~desk.sheet]
         \/ desk' = [desk EXCEPT !.armed = ~desk.armed]
         \/ desk' = [desk EXCEPT !.label = "none"]
    BY TranscriptPageAssumption DEF ToggleShare, Arm, LabelTimer, DeskIInv, DeskTyped
<1>2. DeskTyped' /\ desk'.regenerating = desk.regenerating
    BY <1>1 DEF DeskIInv, DeskTyped
<1>3. Regenerating' = Regenerating
    BY <1>1 DEF Regenerating
<1> QED
    BY <1>2, <1>3, CallsStay

LEMMA CallServerKeeps ==
    ASSUME DeskIInv, NEW what \in Calls, CallServer(what)
    PROVE  DeskIInv'
<1> DEFINE call == [what |-> what, of |-> desk.of, own |-> TRUE]
<1>1. /\ call \in [what : Calls, of : Document, own : BOOLEAN] /\ call.own /\ call.what = what
      /\ pending' = pending \cup {call} /\ UNCHANGED <<kept, labels>>
      /\ what = "regenerate" => ~desk.regenerating
    BY DEF CallServer, MayCall
<1>2. desk' = [desk EXCEPT !.regenerating = desk.regenerating \/ what = "regenerate"]
    BY DEF CallServer
<1> HIDE DEF call
<1>3. DeskTyped' /\ desk'.regenerating = (desk.regenerating \/ what = "regenerate")
    BY <1>1, <1>2 DEF DeskIInv, DeskTyped
<1>4. Regenerating' = IF what = "regenerate" THEN Regenerating \cup {call} ELSE Regenerating
    BY <1>1 DEF Regenerating
<1> QED
    BY <1>1, <1>3, <1>4 DEF DeskIInv, WaitsForOne

LEMMA RegenerateAnsweredKeeps ==
    ASSUME DeskIInv, NEW c \in pending, RegenerateAnswered(c)
    PROVE  DeskIInv'
<1>1. /\ c.what = "regenerate" /\ pending' = pending \ {c} /\ UNCHANGED <<kept, labels>>
      /\ desk' = IF c.own THEN [desk EXCEPT !.regenerating = FALSE] ELSE desk
    BY DEF RegenerateAnswered
<1>2. DeskTyped' /\ desk'.regenerating = (~c.own /\ desk.regenerating)
    BY <1>1 DEF DeskIInv, DeskTyped
<1>3. Regenerating' = Regenerating \ {c} /\ (c.own => c \in Regenerating)
    BY <1>1 DEF Regenerating
<1>4. ~c.own => c \notin Regenerating
    BY DEF Regenerating
<1> QED
    BY <1>2, <1>3, <1>4 DEF DeskIInv, WaitsForOne

LEMMA DeleteAnsweredKeeps ==
    ASSUME DeskIInv, NEW c \in pending, DeleteAnswered(c)
    PROVE  DeskIInv'
<1>1. CASE /\ c.of \in kept /\ kept' = kept \ {c.of}
           /\ desk' = Closed /\ pending' = Orphaned(pending \ {c}) /\ UNCHANGED labels
    BY <1>1, LeavesRight DEF DeskIInv
<1>2. CASE pending' = pending \ {c} /\ UNCHANGED <<kept, desk, labels>>
    <2>1. c.what = "delete"
        BY DEF DeleteAnswered
    <2>2. Regenerating' = Regenerating
        BY <1>2, <2>1 DEF Regenerating
    <2>3. DeskTyped'
        BY <1>2 DEF DeskIInv, DeskTyped
    <2> QED
        BY <1>2, <2>2, <2>3, CallsStay
<1> QED
    BY <1>1, <1>2 DEF DeleteAnswered

LEMMA CopyAnsweredKeeps ==
    ASSUME DeskIInv, NEW c \in pending, CopyAnswered(c)
    PROVE  DeskIInv'
<1>1. /\ c.what # "regenerate" /\ pending' = pending \ {c} /\ UNCHANGED kept
      /\ labels' \in 0 .. MaxFlashes
      /\ \E label \in {"ok", "err"} : desk' = IF c.own THEN [desk EXCEPT !.label = label] ELSE desk
    BY TranscriptPageAssumption DEF CopyAnswered, DeskIInv, DeskTyped
<1>2. DeskTyped' /\ desk'.regenerating = desk.regenerating
    BY <1>1 DEF DeskIInv, DeskTyped
<1>3. Regenerating' = Regenerating
    BY <1>1 DEF Regenerating
<1> QED
    BY <1>2, <1>3, CallsStay

LEMMA DeskInitHolds == TranscriptPageInit => DeskIInv
<1> SUFFICES ASSUME TranscriptPageInit PROVE DeskIInv
    OBVIOUS
<1>1. kept = Document /\ desk = Closed /\ pending = {} /\ labels = 0
    BY DEF TranscriptPageInit
<1>2. DeskTyped
    BY <1>1, ClosedTyped, TranscriptPageAssumption DEF DeskTyped, DeskPage
<1>3. Regenerating = {}
    BY <1>1 DEF Regenerating
<1> QED
    BY <1>1, <1>2, <1>3, ClosedTyped DEF DeskIInv, WaitsForOne

LEMMA DeskStepKeeps == DeskIInv /\ [DeskNext]_deskVars => DeskIInv'
<1>1. DeskIInv /\ UNCHANGED deskVars => DeskIInv'
    BY DEF DeskIInv, DeskTyped, WaitsForOne, Regenerating, deskVars
<1> QED
    BY <1>1, OpenPageKeeps, TogglesKeep, CallServerKeeps, RegenerateAnsweredKeeps,
       DeleteAnsweredKeeps, CopyAnsweredKeeps DEF DeskNext

--------------------------------------------------------------------------------
(* TranscriptPage: the phone's toast and the summary it waits for.         *)

Phone == [seen : Digest \cup {"null"}, seg : {"summary", "transcript"},
          regenerating : BOOLEAN, sheet : BOOLEAN, toast : 0 .. MaxFlashes]

PhoneTyped ==
    /\ digest \in Digest /\ settledOn \in BOOLEAN /\ phone \in Phone
    /\ dismissals \in 0 .. MaxFlashes /\ toasts \subseteq 1 .. MaxFlashes

PhoneIInv == PhoneTyped /\ ToastStays /\ SummaryComesUp

LEMMA PhoneInitHolds == TranscriptPageInit => PhoneIInv
<1> SUFFICES ASSUME TranscriptPageInit PROVE PhoneIInv
    OBVIOUS
<1>1. digest \in Digest /\ dismissals = 0 /\ toasts = {} /\ settledOn = FALSE
    BY DEF TranscriptPageInit
<1>2. \A seen \in Digest \cup {"null"} : Opened(seen) \in Phone /\ Opened(seen).toast = 0
    BY TranscriptPageAssumption DEF Opened, Phone
<1>3. phone \in Phone /\ phone.toast = 0
    BY <1>1, <1>2 DEF TranscriptPageInit
<1>4. dismissals \in 0 .. MaxFlashes /\ toasts \subseteq 1 .. MaxFlashes /\ settledOn \in BOOLEAN
    <2>1. 0 \in 0 .. MaxFlashes
        BY TranscriptPageAssumption
    <2> QED
        BY <1>1, <2>1
<1> QED
    BY <1>1, <1>3, <1>4 DEF PhoneIInv, PhoneTyped, ToastStays, SummaryComesUp

LEMMA DigestStepsKeep ==
    PhoneIInv /\ (DigestChanges \/ GenerateSummary \/ GenerateAnswered \/ OpenSheet \/ DismissSheet)
        => PhoneIInv'
<1> SUFFICES ASSUME PhoneIInv, \/ DigestChanges \/ GenerateSummary \/ GenerateAnswered
                               \/ OpenSheet \/ DismissSheet
             PROVE  PhoneIInv'
    OBVIOUS
<1>1. /\ UNCHANGED <<toasts, settledOn>> /\ digest' \in Digest /\ dismissals' \in 0 .. MaxFlashes
      /\ \/ phone' = phone
         \/ \E b \in BOOLEAN : phone' = [phone EXCEPT !.regenerating = b]
         \/ phone' = [phone EXCEPT !.sheet = TRUE]
    <2>1. digest \in Digest /\ "ready" \in Digest /\ dismissals \in 0 .. MaxFlashes
        BY DEF PhoneIInv, PhoneTyped, Digest
    <2>2. CASE DigestChanges
        BY <2>1, <2>2 DEF DigestChanges
    <2>3. CASE GenerateSummary \/ GenerateAnswered
        BY <2>1, <2>3 DEF GenerateSummary, GenerateAnswered
    <2>4. CASE OpenSheet
        BY <2>1, <2>4 DEF OpenSheet
    <2>5. CASE DismissSheet
        BY <2>1, <2>5, TranscriptPageAssumption DEF DismissSheet
    <2> QED
        BY <2>2, <2>3, <2>4, <2>5
<1>2. /\ phone' \in Phone /\ phone'.toast = phone.toast /\ phone'.seen = phone.seen
      /\ phone'.seg = phone.seg
    BY <1>1 DEF PhoneIInv, PhoneTyped, Phone
<1> QED
    BY <1>1, <1>2 DEF PhoneIInv, PhoneTyped, ToastStays, SummaryComesUp

LEMMA PollBringsKeeps == PhoneIInv /\ PollBrings => PhoneIInv'
<1> SUFFICES ASSUME PhoneIInv, PollBrings PROVE PhoneIInv'
    OBVIOUS
<1> DEFINE seg == IF BringsUp(phone.seen, digest) THEN "summary" ELSE phone.seg
<1>1. /\ phone' = [phone EXCEPT !.seen = digest, !.seg = seg]
      /\ settledOn' = (digest = "ready" /\ phone.seen = "generating")
      /\ UNCHANGED <<digest, dismissals, toasts>> /\ phone \in Phone /\ digest \in Digest
    BY DEF PollBrings, PhoneIInv, PhoneTyped
<1>2. seg \in {"summary", "transcript"} /\ (settledOn' => seg = "summary")
    BY <1>1 DEF BringsUp, Phone
<1> HIDE DEF seg
<1>3. phone' \in Phone /\ phone'.toast = phone.toast /\ phone'.seen = digest /\ phone'.seg = seg
    BY <1>1, <1>2 DEF Phone
<1> QED
    BY <1>1, <1>2, <1>3 DEF PhoneIInv, PhoneTyped, ToastStays, SummaryComesUp

LEMMA ChooseSegmentKeeps ==
    ASSUME PhoneIInv, NEW seg \in {"summary", "transcript"}, ChooseSegment(seg)
    PROVE  PhoneIInv'
<1>1. /\ phone' = [phone EXCEPT !.seg = seg] /\ settledOn' = FALSE
      /\ UNCHANGED <<digest, dismissals, toasts>> /\ phone \in Phone
    BY DEF ChooseSegment, PhoneIInv, PhoneTyped
<1>2. phone' \in Phone /\ phone'.toast = phone.toast
    BY <1>1 DEF Phone
<1> QED
    BY <1>1, <1>2 DEF PhoneIInv, PhoneTyped, ToastStays, SummaryComesUp

LEMMA ToastStepsKeep ==
    ASSUME PhoneIInv, \/ DismissTimer \/ CopyOnPhone
                      \/ \E n \in toasts : ToastTimer(n)
    PROVE  PhoneIInv'
<1>0. phone \in Phone
    BY DEF PhoneIInv, PhoneTyped
<1>4. 0 \in 0 .. MaxFlashes
    BY TranscriptPageAssumption
<1>1. CASE DismissTimer
    <2>1. /\ phone' = [phone EXCEPT !.sheet = FALSE, !.toast = 0] /\ toasts' = {}
          /\ dismissals' \in 0 .. MaxFlashes /\ UNCHANGED <<digest, settledOn>>
        BY <1>1, TranscriptPageAssumption DEF DismissTimer, PhoneIInv, PhoneTyped
    <2>2. phone' \in Phone /\ phone'.toast = 0 /\ phone'.seen = phone.seen /\ phone'.seg = phone.seg
        BY <1>0, <1>4, <2>1 DEF Phone
    <2> QED
        BY <2>1, <2>2 DEF PhoneIInv, PhoneTyped, ToastStays, SummaryComesUp
<1>2. ASSUME NEW n \in 1 .. MaxFlashes, phone' = [phone EXCEPT !.toast = n], toasts' = {n},
             UNCHANGED <<digest, dismissals, settledOn>>
      PROVE  PhoneIInv'
    <2>0. n \in 0 .. MaxFlashes
        BY TranscriptPageAssumption
    <2>1. phone' \in Phone /\ phone'.toast = n /\ phone'.seen = phone.seen /\ phone'.seg = phone.seg
        BY <1>0, <1>2, <2>0 DEF Phone
    <2> QED
        BY <1>2, <2>1 DEF PhoneIInv, PhoneTyped, ToastStays, SummaryComesUp
<1>3. ASSUME NEW n \in toasts, ToastTimer(n) PROVE PhoneIInv'
    <2>1. /\ phone' = [phone EXCEPT !.toast = 0] /\ toasts' = toasts \ {n}
          /\ UNCHANGED <<digest, dismissals, settledOn>>
        BY <1>3 DEF ToastTimer
    <2>2. phone' \in Phone /\ phone'.toast = 0 /\ phone'.seen = phone.seen /\ phone'.seg = phone.seg
        BY <1>0, <1>4, <2>1 DEF Phone
    <2> QED
        BY <2>1, <2>2 DEF PhoneIInv, PhoneTyped, ToastStays, SummaryComesUp
<1> QED
    BY <1>1, <1>2, <1>3 DEF CopyOnPhone, TimersOfToast

LEMMA PhoneStepKeeps == PhoneIInv /\ [PhoneNext]_phoneVars => PhoneIInv'
<1>1. PhoneIInv /\ UNCHANGED phoneVars => PhoneIInv'
    BY DEF PhoneIInv, PhoneTyped, ToastStays, SummaryComesUp, phoneVars
<1> QED
    BY <1>1, DigestStepsKeep, PollBringsKeeps, ChooseSegmentKeeps, ToastStepsKeep DEF PhoneNext

LEMMA ReaderImplies ==
    DeskIInv /\ PhoneIInv => TranscriptPageTypeOK /\ OneRegenerate /\ ToastStays /\ SummaryComesUp
BY WaitingIsOne DEF DeskIInv, DeskTyped, PhoneIInv, PhoneTyped, Phone, TranscriptPageTypeOK

--------------------------------------------------------------------------------
(* The lists of Submit: what a list has at some places, in their order.    *)

\* Bijections are named by the pairs they make, so that no lemma has an operator parameter.
LEMMA SameCount ==
    ASSUME NEW S, NEW T, IsFiniteSet(S), NEW f \in [S -> T],
           \A x, y \in S : f[x] = f[y] => x = y, \A t \in T : \E x \in S : f[x] = t
    PROVE  IsFiniteSet(T) /\ Cardinality(T) = Cardinality(S)
<1>1. f \in Bijection(S, T)
    BY DEF Bijection, Injection, Surjection, IsInjective
<1> QED
    BY <1>1, FS_Bijection, Fun_ExistsBij

\* The rank of a place counts the places up to it: they are finitely many, one more at each.
LEMMA RankTyped ==
    ASSUME NEW S \in SUBSET Nat, NEW i \in Nat
    PROVE  /\ IsFiniteSet({k \in S : k <= i}) /\ Rank(S, i) \in Nat
           /\ IsFiniteSet(S) => Rank(S, i) <= Cardinality(S)
<1>1. IsFiniteSet({k \in S : k <= i})
    <2>1. {k \in S : k <= i} \in SUBSET Nat /\ \A k \in {k \in S : k <= i} : k <= i
        OBVIOUS
    <2> QED
        BY <2>1, FS_BoundedSetOfNaturals
<1>2. Rank(S, i) \in Nat
    BY <1>1, FS_CardinalityType DEF Rank
<1>3. ASSUME IsFiniteSet(S) PROVE Rank(S, i) <= Cardinality(S)
    <2>1. {k \in S : k <= i} \in SUBSET S
        OBVIOUS
    <2> QED
        BY <1>3, <2>1, FS_Subset DEF Rank
<1> QED
    BY <1>1, <1>2, <1>3

LEMMA RankGrows ==
    ASSUME NEW S \in SUBSET Nat, NEW i \in Nat, NEW j \in S
    PROVE  /\ Rank(S, j) >= 1
           /\ i < j => Rank(S, i) < Rank(S, j)
           /\ j <= i => Rank(S, j) <= Rank(S, i)
<1> DEFINE Upto(n) == {k \in S : k <= n}
<1>1. j \in Nat /\ j \in Upto(j)
    OBVIOUS
<1>2. IsFiniteSet(Upto(i)) /\ IsFiniteSet(Upto(j))
    BY <1>1, RankTyped
<1>3. Rank(S, i) = Cardinality(Upto(i)) /\ Rank(S, j) = Cardinality(Upto(j))
      /\ Rank(S, i) \in Nat /\ Rank(S, j) \in Nat
    BY <1>1, RankTyped DEF Rank
<1>4. Rank(S, j) >= 1
    <2>1. Rank(S, j) # 0
        <3>1. Upto(j) # {}
            BY <1>1
        <3> HIDE DEF Upto
        <3> QED
            BY <1>2, <1>3, <3>1, FS_EmptySet
    <2> QED
        BY <1>3, <2>1
<1>5. i < j => Rank(S, i) < Rank(S, j)
    <2> SUFFICES ASSUME i < j PROVE Rank(S, i) < Rank(S, j)
        OBVIOUS
    <2>1. j \notin Upto(i)
        BY <1>1
    <2>2. \A k \in Upto(i) : k \in Upto(j)
        BY <1>1
    <2>3. Upto(i) \in SUBSET Upto(j) /\ Upto(i) # Upto(j)
        BY ONLY <1>1, <2>1, <2>2
    <2> HIDE DEF Upto
    <2>4. Cardinality(Upto(i)) <= Cardinality(Upto(j)) /\ Cardinality(Upto(j)) # Cardinality(Upto(i))
        BY <1>2, <2>3, FS_Subset
    <2> QED
        BY <1>3, <2>4
<1>6. j <= i => Rank(S, j) <= Rank(S, i)
    <2> SUFFICES ASSUME j <= i PROVE Rank(S, j) <= Rank(S, i)
        OBVIOUS
    <2>1. \A k \in Upto(j) : k \in Upto(i)
        BY <1>1
    <2> HIDE DEF Upto
    <2>2. Upto(j) \in SUBSET Upto(i)
        BY ONLY <2>1
    <2> QED
        BY <1>2, <1>3, <2>2, FS_Subset
<1> QED
    BY <1>4, <1>5, <1>6

LEMMA RankInjective ==
    ASSUME NEW S \in SUBSET Nat, NEW i \in S, NEW j \in S, Rank(S, i) = Rank(S, j)
    PROVE  i = j
<1>1. i \in Nat /\ j \in Nat /\ Rank(S, i) \in Nat
    BY RankTyped
<1>2. ~(i < j) /\ ~(j < i)
    BY <1>1, RankGrows
<1> QED
    BY <1>1, <1>2

\* Each number up to the count of the places is the rank of one of them.
LEMMA RankOnto ==
    ASSUME NEW S \in SUBSET Nat, IsFiniteSet(S), NEW n \in 1 .. Cardinality(S)
    PROVE  \E i \in S : Rank(S, i) = n
<1> DEFINE R == {Rank(S, i) : i \in S}
           f == [i \in S |-> Rank(S, i)]
           c == Cardinality(S)
<1>1. c \in Nat
    BY FS_CardinalityType
<1>2. R \in SUBSET (1 .. c)
    <2> SUFFICES ASSUME NEW i \in S PROVE Rank(S, i) \in 1 .. c
        OBVIOUS
    <2>1. i \in Nat
        OBVIOUS
    <2>2. Rank(S, i) \in Nat /\ Rank(S, i) <= c
        BY <2>1, RankTyped
    <2>3. Rank(S, i) >= 1
        BY <2>1, RankGrows
    <2> QED
        BY <1>1, <2>2, <2>3
<1>3. f \in [S -> R] /\ (\A x, y \in S : f[x] = f[y] => x = y) /\ \A t \in R : \E x \in S : f[x] = t
    BY RankInjective
<1> HIDE DEF f, R
<1>4. Cardinality(R) = c
    BY <1>3, SameCount
<1>5. 1 \in Int /\ c \in Int /\ (1 > c => c = 0) /\ c - 1 + 1 = c
    BY <1>1
<1>6. IsFiniteSet(1 .. c) /\ Cardinality(1 .. c) = c
    BY <1>5, FS_Interval
<1>7. R = 1 .. c
    BY <1>2, <1>4, <1>6, FS_Subset
<1> QED
    BY <1>7 DEF R

\* Ranks in a first stretch of the places are those in all of them.
LEMMA RankOfFirst ==
    ASSUME NEW S \in SUBSET Nat, NEW L \in SUBSET S, NEW i \in Nat,
           \A k \in S : k <= i => k \in L
    PROVE  Rank(L, i) = Rank(S, i)
<1>1. {k \in L : k <= i} = {k \in S : k <= i}
    OBVIOUS
<1> QED
    BY <1>1 DEF Rank

\* The first M of the places are M of them, or all.
LEMMA FirstPlaces ==
    ASSUME NEW S \in SUBSET Nat, IsFiniteSet(S), NEW M \in Nat,
           NEW L \in SUBSET S, \A i \in S : i \in L <=> Rank(S, i) <= M
    PROVE  /\ IsFiniteSet(L)
           /\ Cardinality(L) = IF Cardinality(S) <= M THEN Cardinality(S) ELSE M
           /\ Cardinality(S) <= M => L = S
           /\ \A i \in L : Rank(L, i) = Rank(S, i)
           /\ \A i \in L, k \in S : k <= i => k \in L
<1> DEFINE c == Cardinality(S)
<1>1. c \in Nat /\ IsFiniteSet(L)
    BY FS_CardinalityType, FS_Subset
<1>2. ASSUME c <= M PROVE L = S
    <2> SUFFICES ASSUME NEW i \in S PROVE Rank(S, i) <= M
        OBVIOUS
    <2>1. i \in Nat
        OBVIOUS
    <2>2. Rank(S, i) \in Nat /\ Rank(S, i) <= c
        BY <2>1, RankTyped
    <2> QED
        BY <1>1, <1>2, <2>2
<1>3. ASSUME ~(c <= M) PROVE Cardinality(L) = M
    <2> DEFINE f == [i \in L |-> Rank(S, i)]
               T == 1 .. M
    <2>1. f \in [L -> T]
        <3> SUFFICES ASSUME NEW i \in L PROVE Rank(S, i) \in 1 .. M
            OBVIOUS
        <3>1. i \in S /\ i \in Nat
            OBVIOUS
        <3>2. Rank(S, i) \in Nat /\ Rank(S, i) >= 1
            BY <3>1, RankTyped, RankGrows
        <3> QED
            BY <3>2
    <2>2. \A x, y \in L : f[x] = f[y] => x = y
        BY RankInjective
    <2>3. \A t \in T : \E x \in L : f[x] = t
        <3> TAKE t \in T
        <3>1. t \in 1 .. c
            BY <1>1, <1>3
        <3>2. PICK i \in S : Rank(S, i) = t
            BY <3>1, RankOnto
        <3> QED
            BY <3>2
    <2> HIDE DEF f, T
    <2>4. Cardinality(T) = Cardinality(L)
        BY ONLY <1>1, <2>1, <2>2, <2>3, SameCount
    <2>5. 1 \in Int /\ M \in Int /\ (1 > M => M = 0) /\ M - 1 + 1 = M
        OBVIOUS
    <2>6. Cardinality(T) = M
        BY <2>5, FS_Interval DEF T
    <2> QED
        BY <2>4, <2>6
<1>4. \A i \in L, k \in S : k <= i => k \in L
    <2> SUFFICES ASSUME NEW i \in L, NEW k \in S, k <= i PROVE Rank(S, k) <= M
        OBVIOUS
    <2>1. i \in Nat /\ i \in S /\ Rank(S, i) <= M /\ Rank(S, i) \in Nat /\ k \in Nat
        BY RankTyped
    <2>2. Rank(S, k) <= Rank(S, i) /\ Rank(S, k) \in Nat
        BY <2>1, RankGrows, RankTyped
    <2> QED
        BY <2>1, <2>2
<1>5. ASSUME NEW i \in L PROVE Rank(L, i) = Rank(S, i)
    <2>1. i \in Nat /\ L \in SUBSET S
        OBVIOUS
    <2> QED
        BY <1>4, <2>1, RankOfFirst
<1> QED
    BY <1>1, <1>2, <1>3, <1>4, <1>5

LEMMA ListedIs ==
    ASSUME NEW T, NEW q \in Seq(T), NEW S \in SUBSET (DOMAIN q)
    PROVE  /\ S \in SUBSET Nat /\ IsFiniteSet(S) /\ Cardinality(S) \in Nat
           /\ Listed(q, S) \in Seq(T) /\ Len(Listed(q, S)) = Cardinality(S)
           /\ \A i \in S : /\ Rank(S, i) \in 1 .. Cardinality(S)
                           /\ Listed(q, S)[Rank(S, i)] = q[i]
<1>1. Len(q) \in Nat /\ DOMAIN q = 1 .. Len(q) /\ 1 \in Int /\ Len(q) \in Int
    BY LenProperties
<1>2. S \in SUBSET Nat /\ IsFiniteSet(S) /\ Cardinality(S) \in Nat
    <2>1. IsFiniteSet(1 .. Len(q))
        BY <1>1, FS_Interval
    <2>2. IsFiniteSet(S)
        BY <1>1, <2>1, FS_Subset
    <2>3. S \in SUBSET Nat
        BY <1>1
    <2> QED
        BY <2>2, <2>3, FS_CardinalityType
<1>3. \A n \in 1 .. Cardinality(S) : q[CHOOSE i \in S : Rank(S, i) = n] \in T
    <2> TAKE n \in 1 .. Cardinality(S)
    <2>1. \E i \in S : Rank(S, i) = n
        BY <1>2, RankOnto
    <2>2. (CHOOSE i \in S : Rank(S, i) = n) \in S
        BY <2>1
    <2>3. \A i \in S : q[i] \in T
        BY <1>1
    <2> QED
        BY <2>2, <2>3
<1>4. Listed(q, S) \in Seq(T) /\ Len(Listed(q, S)) = Cardinality(S)
    <2> DEFINE c == Cardinality(S)
    <2>1. Listed(q, S) \in [1 .. c -> T]
        BY <1>3 DEF Listed
    <2>2. c \in Nat
        BY <1>2
    <2> HIDE DEF c
    <2>3. Listed(q, S) \in Seq(T) /\ Len(Listed(q, S)) = c
        BY ONLY <2>1, <2>2
    <2> QED
        BY <2>3 DEF c
<1>5. ASSUME NEW i \in S
      PROVE  Rank(S, i) \in 1 .. Cardinality(S) /\ Listed(q, S)[Rank(S, i)] = q[i]
    <2>1. i \in Nat
        BY <1>2
    <2>2. Rank(S, i) \in Nat /\ Rank(S, i) >= 1 /\ Rank(S, i) <= Cardinality(S)
        BY <1>2, <2>1, RankTyped, RankGrows
    <2>3. Rank(S, i) \in 1 .. Cardinality(S)
        BY <1>2, <2>2
    <2>4. (CHOOSE k \in S : Rank(S, k) = Rank(S, i)) = i
        BY <1>2, RankInjective
    <2> QED
        BY <2>3, <2>4 DEF Listed
<1> QED
    BY <1>2, <1>4, <1>5

\* Places that correspond in order have the same ranks.
LEMMA RankOfImage ==
    ASSUME NEW A \in SUBSET Nat, NEW B \in SUBSET Nat, NEW f \in [A -> B],
           \A x, y \in A : x <= y <=> f[x] <= f[y], \A b \in B : \E x \in A : f[x] = b
    PROVE  /\ IsFiniteSet(A) => IsFiniteSet(B) /\ Cardinality(B) = Cardinality(A)
           /\ \A i \in A : Rank(B, f[i]) = Rank(A, i)
<1>1. \A x, y \in A : f[x] = f[y] => x = y
    <2> SUFFICES ASSUME NEW x \in A, NEW y \in A, f[x] = f[y] PROVE x = y
        OBVIOUS
    <2>1. f[x] \in Nat /\ x \in Nat /\ y \in Nat
        OBVIOUS
    <2>2. x <= y /\ y <= x
        BY <2>1
    <2> QED
        BY <2>1, <2>2
<1>2. ASSUME IsFiniteSet(A) PROVE IsFiniteSet(B) /\ Cardinality(B) = Cardinality(A)
    BY <1>1, <1>2, SameCount
<1>3. ASSUME NEW i \in A PROVE Rank(B, f[i]) = Rank(A, i)
    <2> DEFINE U == {k \in A : k <= i}
               V == {k \in B : k <= f[i]}
               g == [k \in U |-> f[k]]
    <2>1. i \in Nat
        OBVIOUS
    <2>2. IsFiniteSet(U)
        BY <2>1, RankTyped
    <2>3. g \in [U -> V] /\ \A x, y \in U : g[x] = g[y] => x = y
        BY <1>1
    <2>4. \A b \in V : \E x \in U : g[x] = b
        OBVIOUS
    <2> HIDE DEF U, V, g
    <2>5. Cardinality(V) = Cardinality(U)
        BY ONLY <2>2, <2>3, <2>4, SameCount
    <2> QED
        BY <2>5 DEF Rank, U, V
<1> QED
    BY <1>2, <1>3

\* One more place before all of them, which move up by one.
LEMMA RankAfterOne ==
    ASSUME NEW A \in SUBSET Nat, IsFiniteSet(A), 0 \notin A,
           NEW B, 1 \in B, \A i \in A : i + 1 \in B, \A k \in B : k = 1 \/ \E i \in A : k = i + 1
    PROVE  /\ B \in SUBSET Nat /\ IsFiniteSet(B) /\ Cardinality(B) = Cardinality(A) + 1
           /\ Rank(B, 1) = 1 /\ \A i \in A : Rank(B, i + 1) = Rank(A, i) + 1
<1> DEFINE C == {k + 1 : k \in A}
           f == [k \in A |-> k + 1]
<1>1. C \in SUBSET Nat /\ 1 \notin C /\ B = C \cup {1} /\ \A k \in C : k > 1
    OBVIOUS
<1>2. f \in [A -> C] /\ (\A x, y \in A : x <= y <=> f[x] <= f[y]) /\ \A b \in C : \E x \in A : f[x] = b
    OBVIOUS
<1>3. \A i \in A : f[i] = i + 1
    OBVIOUS
<1> HIDE DEF C, f
<1>4. /\ IsFiniteSet(C) /\ Cardinality(C) = Cardinality(A)
      /\ \A i \in A : Rank(C, f[i]) = Rank(A, i)
    BY <1>1, <1>2, RankOfImage
<1>5. B \in SUBSET Nat /\ IsFiniteSet(B) /\ Cardinality(B) = Cardinality(A) + 1
    BY <1>1, <1>4, FS_AddElement
<1>6. Rank(B, 1) = 1
    <2>1. \A k \in B : k <= 1 <=> k = 1
        BY ONLY <1>1
    <2>2. 1 \in B
        BY ONLY <1>1
    <2>3. {k \in B : k <= 1} = {1}
        BY ONLY <2>1, <2>2
    <2> QED
        BY <2>3, FS_Singleton DEF Rank
<1>7. ASSUME NEW i \in A PROVE Rank(B, i + 1) = Rank(A, i) + 1
    <2> DEFINE U == {k \in C : k <= i + 1}
    <2>1. i \in Nat /\ i + 1 \in Nat
        OBVIOUS
    <2>2. IsFiniteSet(U) /\ {k \in B : k <= i + 1} = U \cup {1} /\ 1 \notin U
        BY <1>1, <2>1, RankTyped
    <2>3. Cardinality(U) = Rank(A, i)
        BY <1>3, <1>4 DEF Rank
    <2> HIDE DEF U
    <2>4. Cardinality(U \cup {1}) = Cardinality(U) + 1
        BY <2>2, FS_AddElement
    <2> QED
        BY <2>2, <2>3, <2>4 DEF Rank
<1> QED
    BY <1>5, <1>6, <1>7

\* A row comes before those of the list q at its places N; X are the places of its twins, of
\* which N has one at most, and L and L2 the first M places before and after.
Pushes(T, q, row, M, N, X, L, rows, K, next, N2, L2) ==
    /\ q \in Seq(T) /\ row \in T /\ M \in Nat
    /\ N \in SUBSET (DOMAIN q) /\ \A i, j \in N \cap X : i = j
    /\ L \in SUBSET N /\ \A i \in N : i \in L <=> Rank(N, i) <= M
    /\ rows = Listed(q, L)
    /\ K \in SUBSET (DOMAIN rows) /\ \A i \in L : Rank(L, i) \in K <=> i \notin X
    /\ next = <<row>> \o Listed(rows, K)
    /\ 1 \in N2 /\ \A i \in N \ X : i + 1 \in N2
    /\ \A k \in N2 : k = 1 \/ \E i \in N \ X : k = i + 1
    /\ L2 \in SUBSET N2 /\ \A i \in N2 : i \in L2 <=> Rank(N2, i) <= M

\* To put the row before the first M, without its twin, and to keep the first M of that, is
\* to list the first M of the places there are then.
LEMMA PushedIsListed ==
    ASSUME NEW T, NEW q, NEW row, NEW M, NEW N, NEW X, NEW L, NEW rows, NEW K, NEW next, NEW N2,
           NEW L2, Pushes(T, q, row, M, N, X, L, rows, K, next, N2, L2)
    PROVE  SubSeq(next, 1, IF Len(next) < M THEN Len(next) ELSE M) = Listed(<<row>> \o q, L2)
<1> DEFINE A == N \ X
           B == L \ X
           len == IF Len(next) < M THEN Len(next) ELSE M
<1> USE DEF Pushes
<1>1. /\ Len(q) \in Nat /\ DOMAIN q = 1 .. Len(q)
      /\ N \in SUBSET Nat /\ IsFiniteSet(N) /\ Cardinality(N) \in Nat
    BY LenProperties, ListedIs
<1>2. /\ IsFiniteSet(L) /\ L \in SUBSET N /\ L \in SUBSET Nat /\ L \in SUBSET (DOMAIN q)
      /\ Cardinality(L) = IF Cardinality(N) <= M THEN Cardinality(N) ELSE M
      /\ Cardinality(N) <= M => L = N
      /\ \A i \in L, k \in N : k <= i => k \in L
    <2>1. L \in SUBSET N /\ (\A i \in N : i \in L <=> Rank(N, i) <= M) /\ M \in Nat /\ N \in SUBSET (DOMAIN q)
        OBVIOUS
    <2>2. L \in SUBSET Nat /\ L \in SUBSET (DOMAIN q)
        BY ONLY <1>1, <2>1
    <2> QED
        BY ONLY <1>1, <2>1, <2>2, FirstPlaces
<1>3. /\ rows \in Seq(T) /\ Len(rows) = Cardinality(L) /\ Cardinality(L) \in Nat
      /\ DOMAIN rows = 1 .. Cardinality(L)
      /\ \A i \in L : Rank(L, i) \in 1 .. Cardinality(L) /\ rows[Rank(L, i)] = q[i]
    <2>1. rows = Listed(q, L) /\ q \in Seq(T)
        OBVIOUS
    <2>2. /\ rows \in Seq(T) /\ Len(rows) = Cardinality(L) /\ Cardinality(L) \in Nat
          /\ \A i \in L : Rank(L, i) \in 1 .. Cardinality(L) /\ rows[Rank(L, i)] = q[i]
        BY ONLY <1>2, <2>1, ListedIs
    <2> QED
        BY ONLY <2>2, LenProperties
<1>4. /\ A \in SUBSET Nat /\ IsFiniteSet(A) /\ 0 \notin A /\ Cardinality(A) \in Nat
      /\ B \in SUBSET A /\ B \in SUBSET Nat /\ IsFiniteSet(B) /\ Cardinality(B) \in Nat
      /\ Cardinality(B) <= Cardinality(A)
    <2>1. A \in SUBSET N /\ B \in SUBSET A /\ 0 \notin A
        <3>1. L \in SUBSET N /\ 0 \notin N
            BY <1>1
        <3> QED
            BY ONLY <3>1
    <2> HIDE DEF A, B
    <2>2. A \in SUBSET Nat /\ IsFiniteSet(A) /\ IsFiniteSet(B) /\ B \in SUBSET Nat
          /\ Cardinality(B) <= Cardinality(A)
        BY <1>1, <2>1, FS_Subset
    <2> QED
        BY <2>1, <2>2, FS_CardinalityType
<1>5. /\ N2 \in SUBSET Nat /\ IsFiniteSet(N2) /\ Cardinality(N2) = Cardinality(A) + 1
      /\ Rank(N2, 1) = 1 /\ \A i \in A : Rank(N2, i + 1) = Rank(A, i) + 1
    <2>1. /\ 1 \in N2 /\ \A i \in A : i + 1 \in N2
          /\ \A k \in N2 : k = 1 \/ \E i \in A : k = i + 1
        OBVIOUS
    <2> HIDE DEF A
    <2> QED
        BY ONLY <1>4, <2>1, RankAfterOne
<1>6. /\ L2 \in SUBSET N2
      /\ Cardinality(L2) = IF Cardinality(N2) <= M THEN Cardinality(N2) ELSE M
      /\ \A i \in L2 : Rank(L2, i) = Rank(N2, i)
    <2>1. L2 \in SUBSET N2 /\ (\A i \in N2 : i \in L2 <=> Rank(N2, i) <= M) /\ M \in Nat
        OBVIOUS
    <2> QED
        BY ONLY <1>5, <2>1, FirstPlaces
<1>7. \A i \in B : Rank(B, i) = Rank(A, i)
    <2> TAKE i \in B
    <2>1. i \in Nat /\ \A k \in A : k <= i => k \in B
        BY <1>2
    <2> HIDE DEF A, B
    <2> QED
        BY ONLY <1>4, <2>1, RankOfFirst
<1>8. Cardinality(K) = Cardinality(B) /\ \A i \in B : Rank(L, i) \in K /\ Rank(K, Rank(L, i)) = Rank(B, i)
    <2> DEFINE f == [i \in B |-> Rank(L, i)]
    <2>1. K \in SUBSET Nat
        <3>1. K \in SUBSET (DOMAIN rows)
            OBVIOUS
        <3> QED
            BY ONLY <1>3, <3>1
    <2>2. f \in [B -> K]
        OBVIOUS
    <2>3. \A x, y \in B : x <= y <=> f[x] <= f[y]
        <3> TAKE x, y \in B
        <3>1. x \in L /\ y \in L /\ x \in Nat /\ y \in Nat /\ f[x] = Rank(L, x) /\ f[y] = Rank(L, y)
            BY <1>2
        <3>2. Rank(L, x) \in Nat /\ Rank(L, y) \in Nat
            BY <1>2, <3>1, RankTyped
        <3>3. (x <= y => Rank(L, x) <= Rank(L, y)) /\ (y < x => Rank(L, y) < Rank(L, x))
            BY <1>2, <3>1, RankGrows
        <3> QED
            BY <3>1, <3>2, <3>3
    <2>4. \A n \in K : \E x \in B : f[x] = n
        <3> TAKE n \in K
        <3>1. n \in 1 .. Cardinality(L)
            BY <1>3
        <3>2. PICK i \in L : Rank(L, i) = n
            BY <1>2, <3>1, RankOnto
        <3> QED
            BY <3>2
    <2>5. \A i \in B : f[i] = Rank(L, i) /\ Rank(L, i) \in K
        OBVIOUS
    <2> HIDE DEF f, B
    <2>6. (IsFiniteSet(B) => Cardinality(K) = Cardinality(B)) /\ \A i \in B : Rank(K, f[i]) = Rank(B, i)
        BY ONLY <1>4, <2>1, <2>2, <2>3, <2>4, RankOfImage
    <2> QED
        BY ONLY <1>4, <2>5, <2>6
<1>9. /\ Listed(rows, K) \in Seq(T) /\ Len(Listed(rows, K)) = Cardinality(K)
      /\ \A n \in K : Listed(rows, K)[Rank(K, n)] = rows[n]
    BY <1>3, ListedIs
<1>10. /\ next \in Seq(T) /\ Len(next) = Cardinality(B) + 1 /\ next[1] = row
       /\ \A m \in 1 .. Cardinality(B) : next[m + 1] = Listed(rows, K)[m]
    <2>1. <<row>> \in Seq(T) /\ Len(<<row>>) = 1 /\ <<row>>[1] = row
        OBVIOUS
    <2>2. next = <<row>> \o Listed(rows, K)
        OBVIOUS
    <2> HIDE DEF B
    <2>3. Cardinality(K) \in Nat /\ \A m \in 1 .. Cardinality(K) :
              m + 1 \in 1 .. 1 + Cardinality(K) /\ ~(m + 1 <= 1) /\ m + 1 - 1 = m
        BY ONLY <1>4, <1>8
    <2>4. /\ next \in Seq(T) /\ Len(next) = 1 + Cardinality(K) /\ next[1] = row
          /\ \A m \in 1 .. Cardinality(K) : next[m + 1] = Listed(rows, K)[m]
        BY ONLY <1>9, <2>1, <2>2, <2>3, ConcatProperties
    <2> QED
        BY ONLY <1>4, <1>8, <2>4
<1>11. len \in Nat /\ len = Cardinality(L2) /\ len <= Cardinality(B) + 1 /\ len <= M
    <2>1. Cardinality(B) >= Cardinality(L) - 1
        <3>1. CASE L \cap X = {}
            <4>1. B = L
                BY <3>1
            <4> HIDE DEF B
            <4> QED
                BY ONLY <1>3, <4>1
        <3>2. ASSUME NEW x \in L \cap X PROVE Cardinality(B) >= Cardinality(L) - 1
            <4>1. B = L \ {x} /\ x \in L
                <5>1. \A i \in L : i \in X <=> i = x
                    BY <1>2, <3>2
                <5> QED
                    BY ONLY <3>2, <5>1
            <4> HIDE DEF B
            <4>2. Cardinality(B) = Cardinality(L) - 1
                BY ONLY <1>2, <4>1, FS_RemoveElement
            <4> QED
                BY ONLY <1>3, <4>2
        <3> QED
            BY <3>1, <3>2
    <2>2. Cardinality(N) <= M => Cardinality(A) = Cardinality(B)
        BY <1>2
    <2> HIDE DEF A, B
    <2>3. len = IF Cardinality(B) + 1 < M THEN Cardinality(B) + 1 ELSE M
        BY <1>10
    <2> QED
        BY <1>1, <1>2, <1>3, <1>4, <1>5, <1>6, <2>1, <2>2, <2>3
<1>12. /\ SubSeq(next, 1, len) \in Seq(T) /\ Len(SubSeq(next, 1, len)) = len
       /\ \A m \in 1 .. len : SubSeq(next, 1, len)[m] = next[m]
    <2>1. \A m \in 1 .. len : next[m] \in T
        BY <1>4, <1>10, <1>11, ElementOfSeq
    <2>2. len \in Nat /\ 1 \in Int /\ len \in Int /\ (1 > len => len = 0) /\ len - 1 + 1 = len
          /\ \A m \in 1 .. len : 1 + m - 1 = m
        BY <1>11
    <2> HIDE DEF len
    <2>3. /\ SubSeq(next, 1, len) \in Seq(T)
          /\ Len(SubSeq(next, 1, len)) = (IF 1 <= len THEN len - 1 + 1 ELSE 0)
          /\ \A m \in 1 .. len - 1 + 1 : SubSeq(next, 1, len)[m] = next[1 + m - 1]
        BY ONLY <2>1, <2>2, SubSeqProperties
    <2> QED
        BY ONLY <2>2, <2>3
<1>13. /\ <<row>> \o q \in Seq(T) /\ DOMAIN (<<row>> \o q) = 1 .. Len(q) + 1
       /\ (<<row>> \o q)[1] = row /\ \A i \in 1 .. Len(q) : (<<row>> \o q)[i + 1] = q[i]
    <2>1. <<row>> \in Seq(T) /\ Len(<<row>>) = 1 /\ <<row>>[1] = row
        OBVIOUS
    <2> QED
        BY <1>1, <2>1, ConcatProperties, LenProperties
<1>14. /\ Listed(<<row>> \o q, L2) \in Seq(T) /\ Len(Listed(<<row>> \o q, L2)) = len
       /\ \A i \in L2 : Listed(<<row>> \o q, L2)[Rank(L2, i)] = (<<row>> \o q)[i]
    <2>1. L2 \in SUBSET (DOMAIN (<<row>> \o q))
        BY <1>1, <1>13
    <2> HIDE DEF len
    <2> QED
        BY ONLY <1>11, <1>13, <2>1, ListedIs
<1> HIDE DEF len
<1>15. \A m \in 1 .. len : SubSeq(next, 1, len)[m] = Listed(<<row>> \o q, L2)[m]
    <2> TAKE m \in 1 .. len
    <2>1. CASE m = 1
        <3>1. 1 <= M /\ 1 \in N2 /\ (\A i \in N2 : i \in L2 <=> Rank(N2, i) <= M)
            BY <1>11, <2>1
        <3>2. 1 \in L2 /\ Rank(L2, 1) = 1
            BY ONLY <1>5, <1>6, <3>1
        <3>3. SubSeq(next, 1, len)[1] = row
            BY <1>10, <1>12, <2>1
        <3>4. Listed(<<row>> \o q, L2)[1] = row
            BY ONLY <1>13, <1>14, <3>2
        <3> QED
            BY ONLY <2>1, <3>3, <3>4
    <2>2. CASE m # 1
        <3>1. PICK n \in Nat : n = m - 1 /\ m = n + 1 /\ n \in 1 .. Cardinality(B)
            <4> HIDE DEF B
            <4>1. m \in 1 .. len
                OBVIOUS
            <4> QED
                BY ONLY <1>4, <1>11, <2>2, <4>1
        <3>2. PICK i \in B : Rank(B, i) = n
            <4> HIDE DEF B
            <4> QED
                BY ONLY <1>4, <3>1, RankOnto
        <3>3. next[m] = q[i]
            <4>1. next[m] = Listed(rows, K)[n] /\ i \in L
                BY <1>10, <3>1, <3>2
            <4>2. Rank(L, i) \in K /\ Rank(K, Rank(L, i)) = n
                BY ONLY <1>8, <3>2
            <4> QED
                BY ONLY <1>3, <1>9, <4>1, <4>2
        <3>4. i \in A /\ i \in 1 .. Len(q) /\ i + 1 \in N2 /\ Rank(N2, i + 1) = m
            BY <1>1, <1>5, <1>7, <3>1, <3>2
        <3>5. m <= M /\ \A k \in N2 : k \in L2 <=> Rank(N2, k) <= M
            BY <1>11
        <3>6. i + 1 \in L2 /\ Rank(L2, i + 1) = m
            BY ONLY <1>6, <3>4, <3>5
        <3>7. Listed(<<row>> \o q, L2)[m] = q[i]
            BY ONLY <1>13, <1>14, <3>4, <3>6
        <3> QED
            BY <1>12, <3>3, <3>7
    <2> QED
        BY <2>1, <2>2
<1>16. SubSeq(next, 1, len) = Listed(<<row>> \o q, L2)
    BY <1>12, <1>14, <1>15, SeqEqual
<1> QED
    BY <1>16 DEF len

--------------------------------------------------------------------------------
(* Submit: the request that an opening has under way is its only one, and  *)
(* the form says so, until it hears the answer of an earlier opening.      *)

SubmitTyped ==
    /\ accepted \in Seq(Video \cup Upload) /\ Len(accepted) <= MaxAccepted
    /\ surface \in [Surface -> Form] /\ inFlight \subseteq Post /\ toldJobs \in Seq(Row)
    /\ closers \in 0 .. MaxClosers /\ leading \in 0 .. MaxClosers /\ crossed \subseteq Surface

OwnPosts(s) == {r \in inFlight : r.by = s /\ r.own}

FormWaits(s) ==
    s \notin crossed =>
        /\ \A r, q \in OwnPosts(s) : r = q
        /\ OwnPosts(s) # {} => surface[s].state = "submitting"

SubmitIInv == SubmitTyped /\ \A s \in Surface : FormWaits(s)

LEMMA FormsSendOnce == SubmitIInv => OneSubmit
<1> SUFFICES ASSUME SubmitIInv, NEW s \in Surface \ crossed
             PROVE  Cardinality({r \in inFlight : r.by = s /\ r.own}) <= 1
    BY DEF OneSubmit
<1>1. \A r, q \in OwnPosts(s) : r = q
    BY DEF SubmitIInv, FormWaits
<1>2. CASE OwnPosts(s) = {}
    BY <1>2, FS_EmptySet DEF OwnPosts
<1>3. ASSUME NEW r \in OwnPosts(s) PROVE Cardinality(OwnPosts(s)) <= 1
    <2>1. OwnPosts(s) = {r}
        BY <1>1, <1>3
    <2> QED
        BY <2>1, FS_Singleton
<1> QED
    BY <1>2, <1>3 DEF OwnPosts

LEMMA FormsTyped ==
    /\ Fresh \in Form /\ [Fresh EXCEPT !.open = FALSE] \in Form
    /\ \A f \in Form : /\ \A b \in BOOLEAN : [f EXCEPT !.open = b] \in Form
                       /\ \A v \in Video \cup {NoVideo}, b \in BOOLEAN :
                              [f EXCEPT !.text = v, !.file = b] \in Form
                       /\ \A b \in BOOLEAN : [f EXCEPT !.file = b] \in Form
                       /\ \A st \in {"none", "submitting", "error", "queued"} :
                              [f EXCEPT !.state = st] \in Form
BY DEF Fresh, Form

LEMMA SubmitInitHolds == SubmitInit => SubmitIInv
<1> SUFFICES ASSUME SubmitInit PROVE SubmitIInv
    OBVIOUS
<1>1. /\ accepted = <<>> /\ toldJobs = <<>> /\ inFlight = {} /\ crossed = {}
      /\ closers = 0 /\ leading = 0 /\ surface = [s \in Surface |-> [Fresh EXCEPT !.open = FALSE]]
    BY DEF SubmitInit
<1>2. MaxAccepted \in Nat /\ MaxClosers \in Nat
    BY SubmitAssumption
<1>3. surface \in [Surface -> Form]
    BY <1>1, FormsTyped
<1>4. SubmitTyped
    <2>1. accepted \in Seq(Video \cup Upload) /\ Len(accepted) = 0 /\ toldJobs \in Seq(Row)
        BY <1>1, EmptySeq
    <2>2. closers \in 0 .. MaxClosers /\ leading \in 0 .. MaxClosers /\ 0 <= MaxAccepted
        BY <1>1, <1>2
    <2> QED
        BY <1>1, <1>2, <1>3, <2>1, <2>2 DEF SubmitTyped, Post
<1>5. \A s \in Surface : OwnPosts(s) = {}
    BY <1>1 DEF OwnPosts
<1> QED
    BY <1>4, <1>5 DEF SubmitIInv, FormWaits

\* A step that sends nothing, hears nothing and leaves a form that waits waiting.
LEMMA WaitingStays ==
    ASSUME SubmitIInv, UNCHANGED <<accepted, inFlight, toldJobs, crossed>>,
           surface' \in [Surface -> Form],
           \A s \in Surface : surface[s].state = "submitting" => surface'[s].state = "submitting",
           closers' \in 0 .. MaxClosers, leading' \in 0 .. MaxClosers
    PROVE  SubmitIInv'
<1>1. SubmitTyped'
    BY DEF SubmitIInv, SubmitTyped
<1>2. \A s \in Surface : OwnPosts(s)' = OwnPosts(s)
    BY DEF OwnPosts
<1> QED
    BY <1>1, <1>2 DEF SubmitIInv, FormWaits

\* What one form is changed to.
LEMMA FormChanges ==
    ASSUME SubmitIInv, NEW s \in Surface, NEW f \in Form, surface' = [surface EXCEPT ![s] = f]
    PROVE  /\ surface' \in [Surface -> Form] /\ surface'[s] = f
           /\ \A t \in Surface \ {s} : surface'[t] = surface[t]
BY DEF SubmitIInv, SubmitTyped

LEMMA OpenFormKeeps ==
    ASSUME SubmitIInv, NEW s \in Surface, OpenForm(s)
    PROVE  SubmitIInv'
<1>1. /\ surface' = [surface EXCEPT ![s] = Fresh] /\ crossed' = crossed \ {s}
      /\ inFlight' = {IF r.by = s THEN [r EXCEPT !.own = FALSE] ELSE r : r \in inFlight}
      /\ UNCHANGED <<accepted, toldJobs, closers, leading>>
    BY DEF OpenForm
<1>2. /\ surface' \in [Surface -> Form] /\ \A t \in Surface \ {s} : surface'[t] = surface[t]
    BY <1>1, FormsTyped, FormChanges
<1>3. ASSUME NEW r \in inFlight
      PROVE  LET q == IF r.by = s THEN [r EXCEPT !.own = FALSE] ELSE r
             IN q \in Post /\ q.by = r.by /\ (r.by = s => ~q.own) /\ (r.by # s => q = r)
    <2>1. r \in Post
        BY DEF SubmitIInv, SubmitTyped
    <2> QED
        BY <2>1 DEF Post
<1>4. inFlight' \subseteq Post
    BY <1>1, <1>3
<1>5. SubmitTyped'
    BY <1>1, <1>2, <1>4 DEF SubmitIInv, SubmitTyped
<1>6. OwnPosts(s)' = {} /\ \A t \in Surface \ {s} : OwnPosts(t)' = OwnPosts(t)
    BY <1>1, <1>3 DEF OwnPosts
<1> QED
    BY <1>1, <1>2, <1>5, <1>6 DEF SubmitIInv, FormWaits

\* A form that does not wait sends a request, and waits.
LEMMA PostsKeep ==
    ASSUME SubmitIInv, NEW s \in Surface, NEW v \in Video \cup Upload, Posts(s, v),
           surface[s].state # "submitting",
           surface' = [surface EXCEPT ![s].state = "submitting"],
           UNCHANGED <<accepted, toldJobs, closers, leading, crossed>>
    PROVE  SubmitIInv'
<1> DEFINE post == [by |-> s, own |-> TRUE, video |-> v]
           f == [surface[s] EXCEPT !.state = "submitting"]
<1>1. post \in Post /\ post.by = s /\ post.own /\ inFlight' = inFlight \cup {post}
    BY DEF Posts, Post
<1>2. surface[s] \in Form
    BY DEF SubmitIInv, SubmitTyped
<1>8. f \in Form /\ f.state = "submitting" /\ surface' = [surface EXCEPT ![s] = f]
    BY <1>2 DEF Form
<1> HIDE DEF post, f
<1>3. /\ surface' \in [Surface -> Form] /\ surface'[s].state = "submitting"
      /\ \A t \in Surface \ {s} : surface'[t] = surface[t]
    BY <1>8, FormChanges
<1>4. SubmitTyped'
    BY <1>1, <1>3 DEF SubmitIInv, SubmitTyped
<1>5. OwnPosts(s)' = OwnPosts(s) \cup {post} /\ \A t \in Surface \ {s} : OwnPosts(t)' = OwnPosts(t)
    BY <1>1 DEF OwnPosts
<1>6. FormWaits(s)'
    BY <1>3, <1>5 DEF SubmitIInv, FormWaits
<1>7. \A t \in Surface \ {s} : FormWaits(t)'
    BY <1>3, <1>5 DEF SubmitIInv, FormWaits
<1> QED
    BY <1>4, <1>6, <1>7 DEF SubmitIInv

LEMMA TypeUrlKeeps ==
    ASSUME SubmitIInv, NEW s \in Surface, NEW v \in Video \cup {NoVideo}, TypeUrl(s, v)
    PROVE  SubmitIInv'
<1> DEFINE f == [surface[s] EXCEPT !.text = v, !.file = FALSE]
<1>1. surface[s] \in Form /\ closers \in 0 .. MaxClosers /\ leading \in 0 .. MaxClosers
    BY DEF SubmitIInv, SubmitTyped
<1>2. f \in Form /\ f.state = surface[s].state
    BY <1>1 DEF Form
<1>3. surface' = [surface EXCEPT ![s] = f] /\ UNCHANGED <<accepted, inFlight, toldJobs, closers, leading, crossed>>
    BY DEF TypeUrl, SubmitIInv, SubmitTyped
<1> HIDE DEF f
<1>4. /\ surface' \in [Surface -> Form] /\ surface'[s].state = surface[s].state
      /\ \A t \in Surface \ {s} : surface'[t] = surface[t]
    BY <1>2, <1>3, FormChanges
<1> QED
    BY <1>1, <1>3, <1>4, WaitingStays

LEMMA PaletteSendsKeeps ==
    SubmitIInv /\ (SubmitUrl \/ PickFile) => SubmitIInv'
<1> SUFFICES ASSUME SubmitIInv, SubmitUrl \/ PickFile PROVE SubmitIInv'
    OBVIOUS
<1>1. "palette" \in Surface /\ surface["palette"] \in Form
    BY DEF Surface, SubmitIInv, SubmitTyped
<1>2. CASE SubmitUrl
    <2>1. /\ surface["palette"].text \in Video \cup Upload /\ surface["palette"].state # "submitting"
        BY <1>1, <1>2 DEF SubmitUrl, MaySubmitUrl, Form
    <2> QED
        BY <1>1, <1>2, <2>1, PostsKeep DEF SubmitUrl
<1>3. CASE PickFile
    <2>1. PICK v \in Upload : Posts("palette", v)
        BY <1>3 DEF PickFile
    <2>2. v \in Video \cup Upload /\ surface["palette"].state # "submitting"
        BY <1>3 DEF PickFile, isSubmitInFlight
    <2> QED
        BY <1>1, <1>3, <2>1, <2>2, PostsKeep DEF PickFile
<1> QED
    BY <1>2, <1>3

LEMMA AddKeeps == SubmitIInv /\ Add => SubmitIInv'
<1> SUFFICES ASSUME SubmitIInv, Add PROVE SubmitIInv'
    OBVIOUS
<1> DEFINE f == surface["sheet"]
<1>1. "sheet" \in Surface /\ f \in Form
    BY DEF Surface, SubmitIInv, SubmitTyped
<1>3. PICK v \in IF f.file THEN Upload ELSE {f.text} : Posts("sheet", v)
    BY DEF Add
<1>4. /\ surface' = [surface EXCEPT !["sheet"].state = "submitting"]
      /\ UNCHANGED <<accepted, toldJobs, closers, leading, crossed>>
    BY DEF Add
<1>2. v \in Video \cup Upload /\ f.state # "submitting"
    BY <1>1, <1>3 DEF Add, Valid, Form
<1> QED
    BY <1>1, <1>2, <1>3, <1>4, PostsKeep

\* Closing, choosing a file and the timers.
LEMMA FormsRestKeep ==
    SubmitIInv /\ (ClosePalette \/ ChooseFile \/ RemoveFile \/ CloseSheet \/ SheetCloses \/ SheetLeads)
        => SubmitIInv'
<1> SUFFICES ASSUME SubmitIInv, \/ ClosePalette \/ ChooseFile \/ RemoveFile
                                \/ CloseSheet \/ SheetCloses \/ SheetLeads
             PROVE  SubmitIInv'
    OBVIOUS
<1>1. /\ {"palette", "sheet"} \subseteq Surface /\ surface \in [Surface -> Form]
      /\ closers \in 0 .. MaxClosers /\ leading \in 0 .. MaxClosers /\ MaxClosers \in Nat
      /\ surface["palette"] \in Form /\ surface["sheet"] \in Form
    BY SubmitAssumption DEF Surface, SubmitIInv, SubmitTyped
<1>2. ASSUME NEW s \in Surface, NEW f \in Form, surface' = [surface EXCEPT ![s] = f],
             surface[s].state = "submitting" => f.state = "submitting",
             UNCHANGED <<accepted, inFlight, toldJobs, crossed>>,
             closers' \in 0 .. MaxClosers, leading' \in 0 .. MaxClosers
      PROVE  SubmitIInv'
    <2>1. /\ surface' \in [Surface -> Form] /\ surface'[s] = f
          /\ \A t \in Surface \ {s} : surface'[t] = surface[t]
        BY <1>2, FormChanges
    <2>2. \A t \in Surface : surface[t].state = "submitting" => surface'[t].state = "submitting"
        BY <1>2, <2>1
    <2> QED
        BY <1>2, <2>1, <2>2, WaitingStays
<1>3. CASE ClosePalette
    <2> DEFINE f == [surface["palette"] EXCEPT !.open = FALSE]
    <2>1. f \in Form /\ f.state = surface["palette"].state
        BY <1>1 DEF Form
    <2>2. /\ surface' = [surface EXCEPT !["palette"] = f]
          /\ UNCHANGED <<accepted, inFlight, toldJobs, crossed, closers, leading>>
        BY <1>3 DEF ClosePalette
    <2> HIDE DEF f
    <2> QED
        BY <1>1, <1>2, <2>1, <2>2
<1>4. CASE ChooseFile
    <2> DEFINE st == IF surface["sheet"].state = "error" THEN "none" ELSE surface["sheet"].state
               f == [surface["sheet"] EXCEPT !.file = TRUE, !.text = NoVideo, !.state = st]
    <2>1. st \in {"none", "submitting", "error", "queued"}
          /\ (surface["sheet"].state = "submitting" => st = "submitting")
        BY <1>1 DEF Form
    <2>2. /\ surface' = [surface EXCEPT !["sheet"] = f]
          /\ UNCHANGED <<accepted, inFlight, toldJobs, crossed, closers, leading>>
        BY <1>1, <1>4 DEF ChooseFile, Form
    <2> HIDE DEF st
    <2>3. f \in Form /\ f.state = st
        BY <1>1, <2>1 DEF Form
    <2> HIDE DEF f
    <2> QED
        BY <1>1, <1>2, <2>1, <2>2, <2>3
<1>5. CASE RemoveFile
    <2> DEFINE f == [surface["sheet"] EXCEPT !.file = FALSE]
    <2>1. f \in Form /\ f.state = surface["sheet"].state
        BY <1>1 DEF Form
    <2>2. /\ surface' = [surface EXCEPT !["sheet"] = f]
          /\ UNCHANGED <<accepted, inFlight, toldJobs, crossed, closers, leading>>
        BY <1>5 DEF RemoveFile
    <2> HIDE DEF f
    <2> QED
        BY <1>1, <1>2, <2>1, <2>2
<1>6. CASE CloseSheet \/ SheetLeads
    <2>1. /\ UNCHANGED <<accepted, surface, inFlight, toldJobs, crossed>>
          /\ closers' \in 0 .. MaxClosers /\ leading' \in 0 .. MaxClosers
        BY <1>1, <1>6 DEF CloseSheet, SheetLeads
    <2> QED
        BY <1>1, <2>1, WaitingStays
<1>7. CASE SheetCloses
    <2> DEFINE f == [surface["sheet"] EXCEPT !.open = FALSE]
    <2>1. f \in Form /\ f.state = surface["sheet"].state
        BY <1>1 DEF Form
    <2>2. /\ surface' = [surface EXCEPT !["sheet"] = f] /\ closers' \in 0 .. MaxClosers
          /\ UNCHANGED <<accepted, inFlight, toldJobs, crossed, leading>>
        BY <1>1, <1>7 DEF SheetCloses
    <2> HIDE DEF f
    <2> QED
        BY <1>1, <1>2, <2>1, <2>2
<1> QED
    BY <1>3, <1>4, <1>5, <1>6, <1>7

\* The row of an answer: the job is one that the server has, or makes.
LEMMA RowTyped ==
    ASSUME SubmitTyped, NEW v \in Video \cup Upload, NEW id \in AcceptsAs(v)
    PROVE  /\ [id |-> id, video |-> v] \in Row
           /\ id \notin DOMAIN accepted => Len(accepted) < MaxAccepted
<1>1. /\ Len(accepted) \in Nat /\ DOMAIN accepted = 1 .. Len(accepted) /\ Len(accepted) <= MaxAccepted
      /\ MaxAccepted \in Nat
    BY LenProperties, SubmitAssumption DEF SubmitTyped
<1>2. id \in 1 .. MaxAccepted /\ (id \notin DOMAIN accepted => Len(accepted) < MaxAccepted)
    BY <1>1 DEF AcceptsAs
<1> QED
    BY <1>2 DEF Row

\* What an answer that is heard leaves of the tables.
LEMMA AnswerTyped ==
    ASSUME SubmitTyped, NEW r \in Post, Accepted(r) \/ Failed(r)
    PROVE  /\ accepted' \in Seq(Video \cup Upload) /\ Len(accepted') <= MaxAccepted
           /\ surface' \in [Surface -> Form] /\ toldJobs' \in Seq(Row)
           /\ \A t \in Surface \ {r.by} : surface'[t] = surface[t]
           /\ closers' \in 0 .. MaxClosers /\ leading' \in 0 .. MaxClosers
<1>0. /\ MaxClosers \in Nat /\ MaxAccepted \in Nat /\ r.video \in Video \cup Upload /\ r.by \in Surface
      /\ surface[r.by] \in Form /\ closers \in 0 .. MaxClosers /\ leading \in 0 .. MaxClosers
    BY SubmitAssumption DEF SubmitTyped, Post
<1>1. ASSUME NEW st \in {"none", "submitting", "error", "queued"},
             surface' = [surface EXCEPT ![r.by].state = st]
      PROVE  surface' \in [Surface -> Form] /\ \A t \in Surface \ {r.by} : surface'[t] = surface[t]
    <2>1. [surface[r.by] EXCEPT !.state = st] \in Form
        BY <1>0, FormsTyped
    <2> QED
        BY <1>1, <2>1 DEF SubmitTyped
<1>2. CASE Failed(r)
    <2>1. /\ surface' = [surface EXCEPT ![r.by].state = "error"]
          /\ UNCHANGED <<accepted, toldJobs, closers, leading>>
        BY <1>2 DEF Failed
    <2> QED
        BY <1>0, <1>1, <2>1 DEF SubmitTyped
<1>3. CASE r.by = "palette" /\ Accepted(r)
    <2>1. PICK id \in AcceptsAs(r.video) :
             /\ accepted' = IF id \in DOMAIN accepted THEN accepted ELSE Append(accepted, r.video)
             /\ surface' = [surface EXCEPT !["palette"].state = "queued"]
             /\ toldJobs' = <<[id |-> id, video |-> r.video]>> \o toldJobs
             /\ UNCHANGED <<closers, leading>>
        BY <1>3 DEF Accepted
    <2>2. [id |-> id, video |-> r.video] \in Row /\ (id \notin DOMAIN accepted => Len(accepted) < MaxAccepted)
        BY <1>0, RowTyped
    <2>3. toldJobs' \in Seq(Row)
        BY <2>1, <2>2 DEF SubmitTyped
    <2>4. accepted' \in Seq(Video \cup Upload) /\ Len(accepted') <= MaxAccepted
        BY <1>0, <2>1, <2>2, AppendProperties, LenProperties DEF SubmitTyped
    <2>5. surface' = [surface EXCEPT ![r.by].state = "queued"]
        BY <1>3, <2>1
    <2> QED
        BY <1>0, <1>1, <2>1, <2>3, <2>4, <2>5
<1>4. CASE r.by # "palette" /\ Accepted(r)
    <2>1. /\ closers < MaxClosers /\ closers' = closers + 1 /\ leading < MaxClosers
          /\ leading' = leading + 1 /\ UNCHANGED <<accepted, surface, toldJobs>>
        BY <1>4 DEF Accepted
    <2> QED
        BY <1>0, <2>1 DEF SubmitTyped
<1> QED
    BY <1>2, <1>3, <1>4

LEMMA HearsKeep ==
    ASSUME SubmitIInv, NEW r \in inFlight, Hears(r)
    PROVE  SubmitIInv'
<1>1. /\ r \in Post /\ inFlight' = inFlight \ {r} /\ (Accepted(r) \/ Failed(r)) /\ SubmitTyped
      /\ crossed' = IF r.own THEN crossed ELSE crossed \cup {r.by}
    BY DEF Hears, SubmitIInv, SubmitTyped
<1>2. /\ accepted' \in Seq(Video \cup Upload) /\ Len(accepted') <= MaxAccepted
      /\ surface' \in [Surface -> Form] /\ toldJobs' \in Seq(Row)
      /\ \A t \in Surface \ {r.by} : surface'[t] = surface[t]
      /\ closers' \in 0 .. MaxClosers /\ leading' \in 0 .. MaxClosers
    BY <1>1, AnswerTyped
<1>3. r.by \in Surface
    BY <1>1 DEF Post
<1>4. SubmitTyped'
    BY <1>1, <1>2, <1>3 DEF SubmitTyped
<1>5. \A t \in Surface \ {r.by} : FormWaits(t)'
    <2> TAKE t \in Surface \ {r.by}
    <2>1. OwnPosts(t)' = OwnPosts(t) /\ surface'[t] = surface[t] /\ (t \in crossed' <=> t \in crossed)
        BY <1>1, <1>2 DEF OwnPosts
    <2> QED
        BY <2>1 DEF SubmitIInv, FormWaits
<1>6. FormWaits(r.by)'
    <2>1. CASE ~r.own
        BY <1>1, <2>1 DEF FormWaits
    <2>2. CASE r.own
        <3>1. OwnPosts(r.by)' = OwnPosts(r.by) \ {r} /\ r \in OwnPosts(r.by) /\ crossed' = crossed
            BY <1>1, <2>2 DEF OwnPosts
        <3> QED
            BY <1>3, <3>1 DEF SubmitIInv, FormWaits
    <2> QED
        BY <2>1, <2>2
<1> QED
    BY <1>3, <1>4, <1>5, <1>6 DEF SubmitIInv

LEMMA FormNextKeeps ==
    ASSUME SubmitIInv, NEW s \in Surface, FormNext(s) \/ FormHears(s)
    PROVE  SubmitIInv'
BY OpenFormKeeps, TypeUrlKeeps, HearsKeep DEF FormNext, FormHears

LEMMA SubmitStepKeeps == SubmitIInv /\ [SubmitNext]_submitVars => SubmitIInv'
<1>1. SubmitIInv /\ UNCHANGED submitVars => SubmitIInv'
    BY DEF SubmitIInv, SubmitTyped, FormWaits, OwnPosts, submitVars
<1>2. "palette" \in Surface /\ "sheet" \in Surface
    BY DEF Surface
<1> QED
    BY <1>1, <1>2, FormNextKeeps, PaletteSendsKeeps, AddKeeps, FormsRestKeep
       DEF SubmitNext, PaletteNext, SheetNext, SheetTimers

LEMMA RecentsTyped == SubmitTyped /\ RecentsAreLatest => recents \in Seq(Row)
<1> SUFFICES ASSUME SubmitTyped, RecentsAreLatest PROVE recents \in Seq(Row)
    OBVIOUS
<1>1. Lasting \in SUBSET (DOMAIN toldJobs)
    BY DEF Lasting, Newest
<1>2. toldJobs \in Seq(Row) /\ recents = Listed(toldJobs, Lasting)
    BY DEF SubmitTyped, RecentsAreLatest
<1> QED
    BY ONLY <1>1, <1>2, ListedIs

LEMMA RecentsInitHold == SubmitInit => RecentsAreLatest
<1> SUFFICES ASSUME SubmitInit PROVE RecentsAreLatest
    OBVIOUS
<1>1. toldJobs = <<>> /\ recents = <<>> /\ toldJobs \in Seq(Row) /\ DOMAIN toldJobs = {}
    BY DEF SubmitInit
<1>2. Lasting = {} /\ Lasting \in SUBSET (DOMAIN toldJobs)
    BY <1>1 DEF Lasting, Newest
<1>3. Listed(toldJobs, Lasting) \in Seq(Row) /\ Len(Listed(toldJobs, Lasting)) = 0
    <2>1. toldJobs \in Seq(Row) /\ Lasting \in SUBSET (DOMAIN toldJobs)
        BY <1>1, <1>2
    <2>2. /\ Listed(toldJobs, Lasting) \in Seq(Row)
          /\ Len(Listed(toldJobs, Lasting)) = Cardinality(Lasting)
        BY ONLY <2>1, ListedIs
    <2> QED
        BY <1>2, <2>2, FS_EmptySet
<1>4. Listed(toldJobs, Lasting) = <<>>
    BY ONLY <1>3
<1> QED
    BY <1>1, <1>4 DEF RecentsAreLatest

LEMMA AnswerKeepsRecents ==
    ASSUME SubmitTyped, RecentsAreLatest, NEW v \in Video \cup Upload, NEW id \in AcceptsAs(v),
           NEW row, row = [id |-> id, video |-> v],
           recents' = Pushed(recents, row), toldJobs' = <<row>> \o toldJobs
    PROVE  RecentsAreLatest'
<1>1. /\ row \in Row /\ toldJobs \in Seq(Row)
      /\ MaxRecents \in Nat /\ recents \in Seq(Row)
    BY RowTyped, RecentsTyped, SubmitAssumption DEF SubmitTyped
<1>3. /\ toldJobs' \in Seq(Row) /\ DOMAIN toldJobs' = 1 .. Len(toldJobs) + 1 /\ toldJobs'[1] = row
      /\ \A i \in 1 .. Len(toldJobs) : toldJobs'[i + 1] = toldJobs[i]
      /\ Len(toldJobs) \in Nat /\ DOMAIN toldJobs = 1 .. Len(toldJobs)
    <2>1. <<row>> \in Seq(Row) /\ Len(<<row>>) = 1 /\ <<row>>[1] = row
        BY <1>1
    <2>2. Len(toldJobs) \in Nat /\ DOMAIN toldJobs = 1 .. Len(toldJobs) /\ toldJobs' = <<row>> \o toldJobs
        BY <1>1, LenProperties
    <2>3. /\ toldJobs' \in Seq(Row) /\ Len(toldJobs') = 1 + Len(toldJobs)
          /\ \A i \in 1 .. 1 + Len(toldJobs) :
                 toldJobs'[i] = IF i <= 1 THEN <<row>>[i] ELSE toldJobs[i - 1]
        BY ONLY <1>1, <2>1, <2>2, ConcatProperties
    <2>4. DOMAIN toldJobs' = 1 .. Len(toldJobs')
        BY ONLY <2>3, LenProperties
    <2>5. \A i \in 1 .. Len(toldJobs) : i + 1 \in 1 .. 1 + Len(toldJobs) /\ ~(i + 1 <= 1) /\ i + 1 - 1 = i
        BY ONLY <2>2
    <2> QED
        BY ONLY <2>1, <2>2, <2>3, <2>4, <2>5
<1> DEFINE Twins == {i \in DOMAIN toldJobs : SameVideo(row, toldJobs[i])}
           K == {n \in DOMAIN recents : ~SameVideo(recents[n], row)}
           next == <<row>> \o Listed(recents, K)
<1>5. \A a, b : SameVideo(a, b) <=> SameVideo(b, a)
    BY DEF SameVideo
<1>7. ASSUME NEW i \in Newest \cap Twins, NEW j \in Newest \cap Twins, i < j PROVE FALSE
    <2>1. /\ i \in DOMAIN toldJobs /\ j \in DOMAIN toldJobs /\ i \in 1 .. j - 1
          /\ SameVideo(toldJobs[i], row) /\ SameVideo(row, toldJobs[j])
        BY <1>3, <1>5, <1>7
    <2>2. SameVideo(toldJobs[i], toldJobs[j])
        BY <2>1 DEF SameVideo
    <2> QED
        BY <2>1, <2>2, <1>7 DEF Newest
<1>8. \A i, j \in Newest \cap Twins : i = j
    <2> TAKE i, j \in Newest \cap Twins
    <2>1. i \in Nat /\ j \in Nat
        BY <1>3
    <2> QED
        BY <1>7, <2>1
<1>9. /\ 1 \in Newest' /\ \A i \in Newest \ Twins : i + 1 \in Newest'
      /\ \A k \in Newest' : k = 1 \/ \E i \in Newest \ Twins : k = i + 1
    <2>1. 1 \in Newest'
        BY <1>3 DEF Newest
    <2>2. ASSUME NEW i \in 1 .. Len(toldJobs) PROVE i + 1 \in Newest' <=> i \in Newest \ Twins
        <3>1. i \in Nat /\ i + 1 \in DOMAIN toldJobs' /\ i + 1 - 1 = i /\ i \in DOMAIN toldJobs
            BY <1>3
        <3>2. i + 1 \in Newest' <=> \A k \in 1 .. i : ~SameVideo(toldJobs'[k], toldJobs[i])
            BY <1>3, <3>1 DEF Newest
        <3>3. i \in Newest <=> \A k \in 1 .. i - 1 : ~SameVideo(toldJobs[k], toldJobs[i])
            BY <1>3 DEF Newest
        <3>4. \A k \in 1 .. i - 1 : k + 1 \in 1 .. i /\ toldJobs'[k + 1] = toldJobs[k]
            BY <1>3, <3>1
        <3>5. 1 \in 1 .. i /\ \A k \in 1 .. i : k = 1 \/ \E l \in 1 .. i - 1 : k = l + 1
            <4>1. 1 \in 1 .. i /\ \A k \in 1 .. i : k = 1 \/ (k - 1 \in 1 .. i - 1 /\ k = k - 1 + 1)
                BY ONLY <3>1, i \in 1 .. Len(toldJobs)
            <4> QED
                BY ONLY <4>1
        <3>6. (\A k \in 1 .. i : ~SameVideo(toldJobs'[k], toldJobs[i])) <=>
                  /\ ~SameVideo(row, toldJobs[i])
                  /\ \A k \in 1 .. i - 1 : ~SameVideo(toldJobs[k], toldJobs[i])
            BY ONLY <1>3, <3>4, <3>5
        <3> QED
            BY <3>1, <3>2, <3>3, <3>6
    <2>3. \A i \in Newest \ Twins : i \in 1 .. Len(toldJobs)
        BY <1>3 DEF Newest
    <2>4. ASSUME NEW k \in Newest', k # 1 PROVE \E i \in Newest \ Twins : k = i + 1
        <3>1. k \in 1 .. Len(toldJobs) + 1
            BY <1>3 DEF Newest
        <3>2. k - 1 \in 1 .. Len(toldJobs) /\ k = k - 1 + 1
            BY <1>3, <2>4, <3>1
        <3>3. k - 1 \in Newest \ Twins
            BY <2>2, <2>4, <3>2
        <3> QED
            BY <3>2, <3>3
    <2> QED
        BY <2>1, <2>2, <2>3, <2>4
<1>10. /\ Newest \in SUBSET (DOMAIN toldJobs) /\ Lasting \in SUBSET Newest /\ Lasting' \in SUBSET Newest'
       /\ \A i \in Newest : i \in Lasting <=> Rank(Newest, i) <= MaxRecents
       /\ \A i \in Newest' : i \in Lasting' <=> Rank(Newest', i) <= MaxRecents
    BY DEF Lasting, Newest
<1>11. recents = Listed(toldJobs, Lasting)
    BY DEF RecentsAreLatest
<1>12. K \in SUBSET (DOMAIN recents) /\ \A i \in Lasting : Rank(Lasting, i) \in K <=> i \notin Twins
    <2>1. Lasting \in SUBSET (DOMAIN toldJobs)
        BY <1>10
    <2>2. /\ Len(recents) = Cardinality(Lasting)
          /\ \A i \in Lasting : /\ Rank(Lasting, i) \in 1 .. Cardinality(Lasting)
                                /\ recents[Rank(Lasting, i)] = toldJobs[i]
        BY ONLY <1>1, <1>11, <2>1, ListedIs
    <2>3. DOMAIN recents = 1 .. Len(recents)
        BY <1>1, LenProperties
    <2> QED
        BY <1>5, <2>1, <2>2, <2>3
<1>13. next = <<row>> \o Listed(recents, K)
    OBVIOUS
<1>14. recents' = SubSeq(next, 1, IF Len(next) < MaxRecents THEN Len(next) ELSE MaxRecents)
    BY DEF Pushed, Shorter
<1> HIDE DEF Twins, K, next
<1>15. SubSeq(next, 1, IF Len(next) < MaxRecents THEN Len(next) ELSE MaxRecents)
           = Listed(<<row>> \o toldJobs, Lasting')
    <2>1. Pushes(Row, toldJobs, row, MaxRecents, Newest, Twins, Lasting, recents, K, next,
                 Newest', Lasting')
        BY ONLY <1>1, <1>8, <1>9, <1>10, <1>11, <1>12, <1>13 DEF Pushes
    <2> QED
        BY ONLY <2>1, PushedIsListed
<1> QED
    BY <1>14, <1>15 DEF RecentsAreLatest

LEMMA RecentsStepKeeps == SubmitTyped /\ RecentsAreLatest /\ [SubmitNext]_submitVars => RecentsAreLatest'
<1> SUFFICES ASSUME SubmitTyped, RecentsAreLatest, [SubmitNext]_submitVars PROVE RecentsAreLatest'
    OBVIOUS
<1>1. CASE UNCHANGED <<accepted, recents, toldJobs>>
    BY <1>1 DEF RecentsAreLatest, Lasting, Newest
<1>2. ASSUME NEW r \in inFlight, Accepted(r), r.by = "palette" PROVE RecentsAreLatest'
    <2>1. r.video \in Video \cup Upload
        BY DEF SubmitTyped, Post
    <2>2. PICK id \in AcceptsAs(r.video) :
             /\ recents' = Pushed(recents, [id |-> id, video |-> r.video])
             /\ toldJobs' = <<[id |-> id, video |-> r.video]>> \o toldJobs
        BY <1>2 DEF Accepted
    <2> QED
        BY <2>1, <2>2, AnswerKeepsRecents
<1>3. ASSUME NEW s \in Surface, FormNext(s) \/ FormHears(s) PROVE RecentsAreLatest'
    <2>1. CASE FormNext(s)
        BY <1>1, <2>1 DEF FormNext, OpenForm, TypeUrl
    <2>2. CASE FormHears(s)
        <3>1. PICK r \in inFlight : Accepted(r) \/ Failed(r)
            BY <2>2 DEF FormHears, Hears
        <3>2. CASE Failed(r) \/ (Accepted(r) /\ r.by # "palette")
            BY <1>1, <3>2 DEF Failed, Accepted
        <3> QED
            BY <1>2, <3>1, <3>2
    <2> QED
        BY <1>3, <2>1, <2>2
<1>4. CASE \/ SubmitUrl \/ PickFile \/ ClosePalette \/ ChooseFile \/ RemoveFile \/ Add
           \/ CloseSheet \/ SheetTimers
    BY <1>1, <1>4 DEF SubmitUrl, PickFile, ClosePalette, ChooseFile, RemoveFile, Add, CloseSheet,
                      SheetTimers, SheetCloses, SheetLeads
<1>5. CASE UNCHANGED submitVars
    BY <1>1, <1>5 DEF submitVars
<1> QED
    BY <1>3, <1>4, <1>5 DEF SubmitNext, PaletteNext, SheetNext, Surface

LEMMA SubmitImplies == SubmitIInv /\ RecentsAreLatest => SubmitTypeOK /\ SubmitIsSound
BY FormsSendOnce, RecentsTyped DEF SubmitIInv, SubmitTyped, SubmitTypeOK, RecentsAreLatest, SubmitIsSound

--------------------------------------------------------------------------------
(* Markdown: of a document of any length, the lines before the loop's are  *)
(* cut into their blocks, and the loop's line is the first of what is to   *)
(* come: it is in no fence and no open value, and joins nothing above.     *)

\* Of some numbers one is the least: the strict order of their intervals is well founded.
LEMMA LeastExists ==
    ASSUME NEW T \in SUBSET Nat, T # {}
    PROVE  \E n \in T : \A m \in T : n <= m
<1>1. PICK t \in T : TRUE
    OBVIOUS
<1> DEFINE U == 1 .. t
           R == StrictSubsetOrdering(U)
           W == FiniteSubsetsOf(U)
           X == {1 .. n : n \in {k \in T : k <= t}}
<1>2. IsFiniteSet(U) /\ \A A \in SUBSET U : IsFiniteSet(A)
    <2>1. t \in Int /\ 1 \in Int
        BY <1>1
    <2>2. IsFiniteSet(U)
        BY <2>1, FS_Interval
    <2> QED
        BY <2>2, FS_Subset
<1>3. IsWellFoundedOn(R, W)
    BY <1>2, FS_StrictSubsetOrderingWellFounded
<1>4. X \subseteq W /\ X # {}
    <2>1. \A n \in T : n <= t => 1 .. n \in SUBSET U
        BY <1>1
    <2>2. X \subseteq W
        BY <2>1, <1>2 DEF FiniteSubsetsOf
    <2>3. 1 .. t \in X
        BY <1>1
    <2> QED
        BY <2>2, <2>3
<1>5. \A A, B \in X : <<A, B>> \in R <=> A \subseteq B /\ A # B
    <2>1. X \subseteq SUBSET U
        BY <1>4 DEF FiniteSubsetsOf
    <2> QED
        BY <2>1 DEF StrictSubsetOrdering
<1> HIDE DEF R, W, X
<1>6. PICK A \in X : \A B \in X : ~(<<B, A>> \in R)
    BY <1>3, <1>4, WFMin
<1>7. PICK n \in T : n <= t /\ A = 1 .. n
    BY <1>6 DEF X
<1>8. ASSUME NEW m \in T, m < n PROVE FALSE
    <2>1. 1 .. m \in X
        BY <1>8, <1>7, <1>1 DEF X
    <2>2. 1 .. m \subseteq A /\ n \in A /\ n \notin 1 .. m
        BY <1>8, <1>7
    <2> QED
        BY <2>1, <2>2, <1>5, <1>6
<1> QED
    BY <1>8

SourceTyped ==
    /\ source.dialect \in Dialect /\ Len(Lines) \in Nat /\ Len(Lines) <= MaxLines
    /\ DOMAIN Lines = 1 .. Len(Lines)
    /\ \A n \in 1 .. Len(Lines) : Lines[n] \in Classes(source.dialect)

\* The line n is the first of a block, or of none.
Opens(n) ==
    /\ ~OpenBefore(n)
    /\ source.dialect # "yaml" /\ n > 1 /\ Lines[n] # "blank" =>
           OpenBefore(n - 1) \/ ~Joins(source.dialect, Lines[n - 1], Lines[n])

Free(n) ==
    \/ Lines[n] \in {"blank", "closes", "other"}
    \/ Lines[n] = "fence" /\ OpenBefore(n)

CutBefore ==
    /\ {blocks[b].first : b \in DOMAIN blocks} = {n \in 1 .. at - 1 : Begins(n)}
    /\ \A b \in 1 .. Len(blocks) - 1 : blocks[b].last < blocks[b + 1].first
    /\ \A b \in DOMAIN blocks : blocks[b].last < at
    /\ \A n \in 1 .. at - 1 :
           Free(n) \/ \E b \in DOMAIN blocks : n \in blocks[b].first .. blocks[b].last

MarkdownIInv ==
    /\ SourceTyped /\ at \in 1 .. Past /\ blocks \in Seq(Block)
    /\ CutBefore /\ (at < Past => Opens(at))

LEMMA MarkdownImplies == MarkdownIInv => MarkdownTypeOK /\ BlocksAreLines
<1> SUFFICES ASSUME MarkdownIInv PROVE MarkdownTypeOK /\ BlocksAreLines
    OBVIOUS
<1>1. MarkdownTypeOK
    BY DEF MarkdownIInv, MarkdownTypeOK, SourceTyped
<1>2. ASSUME at = Past
      PROVE  /\ {blocks[b].first : b \in DOMAIN blocks} = {n \in DOMAIN Lines : Begins(n)}
             /\ \A b \in 1 .. Len(blocks) - 1 : blocks[b].last < blocks[b + 1].first
             /\ \A n \in DOMAIN Lines :
                    Free(n) \/ \E b \in DOMAIN blocks : n \in blocks[b].first .. blocks[b].last
    <2>1. 1 .. at - 1 = DOMAIN Lines
        BY <1>2 DEF MarkdownIInv, SourceTyped, Past
    <2>2. CutBefore
        BY DEF MarkdownIInv
    <2> QED
        BY <2>1, <2>2 DEF CutBefore
<1>3. ASSUME at = Past, NEW n \in DOMAIN Lines
      PROVE  \/ \E b \in DOMAIN blocks : n \in blocks[b].first .. blocks[b].last
             \/ Lines[n] \in {"blank", "closes", "other"}
             \/ Lines[n] = "fence" /\ OpenBefore(n)
    BY <1>2, <1>3 DEF Free
<1>4. BlocksAreLines
    <2> SUFFICES ASSUME at = Past
                 PROVE  /\ {blocks[b].first : b \in DOMAIN blocks} = {n \in DOMAIN Lines : Begins(n)}
                        /\ \A b \in 1 .. Len(blocks) - 1 : blocks[b].last < blocks[b + 1].first
                        /\ \A n \in DOMAIN Lines :
                               \/ \E b \in DOMAIN blocks : n \in blocks[b].first .. blocks[b].last
                               \/ Lines[n] \in {"blank", "closes", "other"}
                               \/ Lines[n] = "fence" /\ OpenBefore(n)
        BY DEF BlocksAreLines
    <2>1. /\ {blocks[b].first : b \in DOMAIN blocks} = {n \in DOMAIN Lines : Begins(n)}
          /\ \A b \in 1 .. Len(blocks) - 1 : blocks[b].last < blocks[b + 1].first
        BY <1>2
    <2>2. \A n \in DOMAIN Lines :
             \/ \E b \in DOMAIN blocks : n \in blocks[b].first .. blocks[b].last
             \/ Lines[n] \in {"blank", "closes", "other"}
             \/ Lines[n] = "fence" /\ OpenBefore(n)
        BY <1>3
    <2> QED
        BY <2>1, <2>2
<1> QED
    BY <1>1, <1>4

\* What the two searches find.
LEMMA RunEnds ==
    ASSUME SourceTyped, NEW n \in 1 .. Past, NEW cs
    PROVE  LET e == EndOfRun(n, cs)
           IN e \in n .. Past /\ (e = Past \/ Lines[e] \notin cs) /\ \A j \in n .. e - 1 : Lines[j] \in cs
<1> DEFINE T == {k \in n .. Past : k = Past \/ Lines[k] \notin cs}
           Q(k) == (k = Past \/ Lines[k] \notin cs) /\ \A j \in n .. k - 1 : Lines[j] \in cs
<1>1. Past \in Nat /\ n \in Nat /\ n <= Past
    BY DEF SourceTyped, Past
<1>2. T \in SUBSET Nat /\ Past \in T
    BY <1>1
<1>3. PICK k \in T : \A m \in T : k <= m
    <2> HIDE DEF T
    <2> QED
        BY <1>2, LeastExists
<1>4. \A j \in n .. k - 1 : Lines[j] \in cs
    <2> TAKE j \in n .. k - 1
    <2>1. j \in n .. Past /\ ~(k <= j)
        BY <1>1, <1>3
    <2> QED
        BY <1>3, <2>1
<1>5. \E e \in n .. Past : Q(e)
    BY <1>3, <1>4
<1>6. EndOfRun(n, cs) = CHOOSE e \in n .. Past : Q(e)
    BY DEF EndOfRun
<1>7. EndOfRun(n, cs) \in n .. Past /\ Q(EndOfRun(n, cs))
    <2> HIDE DEF Q
    <2> QED
        BY <1>5, <1>6
<1> QED
    BY <1>7

LEMMA FirstFound ==
    ASSUME SourceTyped, NEW n \in 1 .. Past, NEW cs
    PROVE  LET e == FirstOf(n, cs)
           IN e \in n .. Past /\ (e = Past \/ Lines[e] \in cs) /\ \A j \in n .. e - 1 : Lines[j] \notin cs
<1> DEFINE T == {k \in n .. Past : k = Past \/ Lines[k] \in cs}
           Q(k) == (k = Past \/ Lines[k] \in cs) /\ \A j \in n .. k - 1 : Lines[j] \notin cs
<1>1. Past \in Nat /\ n \in Nat /\ n <= Past
    BY DEF SourceTyped, Past
<1>2. T \in SUBSET Nat /\ Past \in T
    BY <1>1
<1>3. PICK k \in T : \A m \in T : k <= m
    <2> HIDE DEF T
    <2> QED
        BY <1>2, LeastExists
<1>4. \A j \in n .. k - 1 : Lines[j] \notin cs
    <2> TAKE j \in n .. k - 1
    <2>1. j \in n .. Past /\ ~(k <= j)
        BY <1>1, <1>3
    <2> QED
        BY <1>3, <2>1
<1>5. \E e \in n .. Past : Q(e)
    BY <1>3, <1>4
<1>6. FirstOf(n, cs) = CHOOSE e \in n .. Past : Q(e)
    BY DEF FirstOf
<1>7. FirstOf(n, cs) \in n .. Past /\ Q(FirstOf(n, cs))
    <2> HIDE DEF Q
    <2> QED
        BY <1>5, <1>6
<1> QED
    BY <1>7

\* With no line read there is nothing to cut, and nothing is open.
LEMMA NothingOpen ==
    ASSUME SourceTyped
    PROVE  Opens(1)
<1>1. {j \in 1 .. 1 - 1 : Lines[j] = "fence"} = {}
    OBVIOUS
<1>2. Cardinality({j \in 1 .. 1 - 1 : Lines[j] = "fence"}) = 0
    BY <1>1, FS_EmptySet
<1>3. ~OpenBefore(1)
    BY <1>2 DEF OpenBefore
<1> QED
    BY <1>3 DEF Opens

LEMMA MarkdownInitHolds == MarkdownInit => MarkdownIInv
<1> SUFFICES ASSUME MarkdownInit PROVE MarkdownIInv
    OBVIOUS
<1>1. PICK d \in Dialect, n \in 0 .. MaxLines : \E ls \in [1 .. n -> Classes(d)] :
          source = [dialect |-> d, lines |-> ls]
    BY DEF MarkdownInit
<1>2. PICK ls \in [1 .. n -> Classes(d)] : source = [dialect |-> d, lines |-> ls]
    BY <1>1
<1>3. source.dialect = d /\ Lines = ls /\ n \in Nat /\ n <= MaxLines
    BY <1>2, MarkdownAssumption DEF Lines
<1>4. ls \in Seq(Classes(d)) /\ Len(ls) = n
    BY <1>3, <1>2
<1>5. SourceTyped
    BY <1>2, <1>3, <1>4 DEF SourceTyped
<1>6. at = 1 /\ blocks = <<>> /\ at \in 1 .. Past /\ blocks \in Seq(Block) /\ DOMAIN blocks = {}
    BY <1>3, <1>4, EmptySeq DEF MarkdownInit, Past
<1>7. CutBefore
    <2>1. 1 .. at - 1 = {} /\ Len(blocks) = 0
        BY <1>6
    <2> QED
        BY <1>6, <2>1 DEF CutBefore
<1> QED
    BY <1>5, <1>6, <1>7, NothingOpen DEF MarkdownIInv

LEMMA BlocksTyped ==
    ASSUME blocks \in Seq(Block), NEW b \in DOMAIN blocks
    PROVE  blocks[b].first \in Nat /\ blocks[b].last \in Nat
<1>1. blocks[b] \in Block /\ MaxLines \in Nat
    BY MarkdownAssumption
<1> QED
    BY <1>1 DEF Block

\* The loop takes the lines at .. next - 1: they are a block up to line last, which begins
\* at the first of them and nowhere else, and what is left of them belongs to none.
LEMMA BlockIsCut ==
    ASSUME MarkdownIInv, NEW kind, NEW last \in Nat, NEW next \in Nat, AddsBlock(kind, last, next),
           [kind |-> kind, first |-> at, last |-> last] \in Block,
           at <= last, last < next, next <= Past, Begins(at),
           \A n \in at + 1 .. next - 1 : ~Begins(n),
           \A n \in last + 1 .. next - 1 : Free(n),
           next < Past => Opens(next)
    PROVE  MarkdownIInv'
<1> DEFINE block == [kind |-> kind, first |-> at, last |-> last]
<1>1. /\ blocks' = Append(blocks, block) /\ at' = next /\ UNCHANGED source
      /\ block.first = at /\ block.last = last /\ block \in Block /\ blocks \in Seq(Block)
    BY DEF AddsBlock, MarkdownIInv
<1> HIDE DEF block
<1>2. /\ blocks' \in Seq(Block) /\ Len(blocks') = Len(blocks) + 1 /\ Len(blocks) \in Nat
      /\ \A b \in 1 .. Len(blocks) : blocks'[b] = blocks[b]
      /\ blocks'[Len(blocks) + 1] = block
      /\ DOMAIN blocks = 1 .. Len(blocks) /\ DOMAIN blocks' = 1 .. Len(blocks) + 1
    BY <1>1, AppendProperties, LenProperties
<1>3. at \in Nat /\ Past \in Nat /\ at >= 1 /\ CutBefore /\ SourceTyped
    BY DEF MarkdownIInv, SourceTyped, Past
<1>4. /\ Past' = Past /\ Lines' = Lines /\ SourceTyped'
      /\ \A n \in Nat : /\ Begins(n)' = Begins(n) /\ Free(n)' = Free(n)
                        /\ Opens(n)' = Opens(n)
    BY <1>1, <1>3 DEF Past, Lines, SourceTyped, Begins, Free, Opens, OpenBefore
<1>5. {blocks'[b].first : b \in DOMAIN blocks'} = {n \in 1 .. next - 1 : Begins(n)}
    <2>1. {blocks'[b].first : b \in DOMAIN blocks'}
              = {blocks[b].first : b \in DOMAIN blocks} \cup {at}
        BY <1>1, <1>2
    <2>2. {n \in 1 .. next - 1 : Begins(n)} = {n \in 1 .. at - 1 : Begins(n)} \cup {at}
        BY <1>3
    <2> QED
        BY <2>1, <2>2, <1>3 DEF CutBefore
<1>6. \A b \in 1 .. Len(blocks') - 1 : blocks'[b].last < blocks'[b + 1].first
    <2> TAKE b \in 1 .. Len(blocks') - 1
    <2>1. CASE b < Len(blocks)
        <3>1. b \in 1 .. Len(blocks) - 1 /\ b \in 1 .. Len(blocks) /\ b + 1 \in 1 .. Len(blocks)
            BY <1>2, <2>1
        <3> QED
            BY <1>2, <1>3, <3>1 DEF CutBefore
    <2>2. CASE b = Len(blocks)
        <3>1. b \in DOMAIN blocks /\ blocks'[b] = blocks[b] /\ blocks'[b + 1] = block
            BY <1>2, <2>2
        <3> QED
            BY <1>1, <1>3, <3>1 DEF CutBefore
    <2>3. b \in Nat /\ b <= Len(blocks)
        BY <1>2
    <2>5. Len(blocks) \in Nat
        BY <1>2
    <2>4. b < Len(blocks) \/ b = Len(blocks)
        BY <2>3, <2>5
    <2> QED
        BY <2>1, <2>2, <2>4
<1>7. \A b \in DOMAIN blocks' : blocks'[b].last < next
    <2> TAKE b \in DOMAIN blocks'
    <2>1. CASE b \in DOMAIN blocks
        <3>1. blocks[b].last < at /\ blocks[b].last \in Nat /\ blocks'[b] = blocks[b]
            BY <1>1, <1>2, <1>3, <2>1, BlocksTyped DEF CutBefore
        <3> QED
            BY <1>3, <3>1
    <2>2. CASE b = Len(blocks) + 1
        BY <1>1, <1>2, <2>2
    <2> QED
        BY <1>2, <2>1, <2>2
<1>8. \A n \in 1 .. next - 1 :
          Free(n) \/ \E b \in DOMAIN blocks' : n \in blocks'[b].first .. blocks'[b].last
    <2> TAKE n \in 1 .. next - 1
    <2>1. CASE n < at
        <3>1. n \in 1 .. at - 1
            BY <1>3, <2>1
        <3>2. Free(n) \/ \E b \in DOMAIN blocks : n \in blocks[b].first .. blocks[b].last
            BY <1>3, <3>1 DEF CutBefore
        <3> QED
            BY <1>2, <3>2
    <2>2. CASE at <= n /\ n <= last
        <3>1. n \in block.first .. block.last
            BY <1>1, <1>3, <2>2
        <3> QED
            BY <1>2, <3>1
    <2>3. CASE last < n
        BY <2>3
    <2> QED
        BY <1>3, <2>1, <2>2, <2>3
<1>9. CutBefore'
    BY <1>1, <1>4, <1>5, <1>6, <1>7, <1>8 DEF CutBefore
<1>10. at' \in 1 .. Past' /\ (at' < Past' => Opens(at)')
    <2>1. next \in 1 .. Past
        BY <1>3
    <2> QED
        BY <1>1, <1>4, <2>1
<1> QED
    BY <1>2, <1>4, <1>9, <1>10 DEF MarkdownIInv

\* A line that belongs to no block is passed over.
LEMMA BlankIsSkipped ==
    ASSUME MarkdownIInv, SkipBlank, at < Past, ~Begins(at), Free(at),
           at + 1 < Past => Opens(at + 1)
    PROVE  MarkdownIInv'
<1>1. at' = at + 1 /\ UNCHANGED <<source, blocks>>
    BY DEF SkipBlank
<1>2. at \in Nat /\ Past \in Nat /\ at >= 1 /\ CutBefore /\ SourceTyped /\ blocks \in Seq(Block)
    BY DEF MarkdownIInv, SourceTyped, Past
<1>3. /\ Past' = Past /\ Lines' = Lines /\ SourceTyped'
      /\ \A n \in Nat : /\ Begins(n)' = Begins(n) /\ Free(n)' = Free(n)
                        /\ Opens(n)' = Opens(n)
    BY <1>1, <1>2 DEF Past, Lines, SourceTyped, Begins, Free, Opens, OpenBefore
<1>4. 1 .. at = (1 .. at - 1) \cup {at} /\ at' - 1 = at
    BY <1>1, <1>2
<1>5. \A b \in DOMAIN blocks : blocks[b].last < at + 1
    <2> TAKE b \in DOMAIN blocks
    <2>1. blocks[b].last < at /\ blocks[b].last \in Nat
        BY <1>2, BlocksTyped DEF CutBefore
    <2> QED
        BY <1>2, <2>1
<1>6. {n \in 1 .. at : Begins(n)} = {n \in 1 .. at - 1 : Begins(n)}
    BY <1>4
<1>7. CutBefore'
    <2>1. \A n \in 1 .. at :
              Free(n) \/ \E b \in DOMAIN blocks : n \in blocks[b].first .. blocks[b].last
        BY <1>2, <1>4 DEF CutBefore
    <2>2. /\ {blocks[b].first : b \in DOMAIN blocks} = {n \in 1 .. at : Begins(n)}
          /\ \A b \in 1 .. Len(blocks) - 1 : blocks[b].last < blocks[b + 1].first
        BY <1>2, <1>6 DEF CutBefore
    <2>3. {n \in 1 .. at' - 1 : Begins(n)'} = {n \in 1 .. at : Begins(n)}
        BY <1>3, <1>4
    <2>4. \A n \in 1 .. at' - 1 : Free(n)' = Free(n) /\ n \in 1 .. at
        BY <1>3, <1>4
    <2> QED
        BY <1>1, <1>5, <2>1, <2>2, <2>3, <2>4 DEF CutBefore
<1>8. at' \in 1 .. Past' /\ (at' < Past' => Opens(at)')
    BY <1>1, <1>2, <1>3
<1> QED
    BY <1>1, <1>2, <1>3, <1>7, <1>8 DEF MarkdownIInv

\* Where the loop stands is a line, of a class of its dialect.
LEMMA AtLine ==
    ASSUME MarkdownIInv, at < Past
    PROVE  /\ at \in 1 .. Len(Lines) /\ at \in Nat /\ Len(Lines) \in Nat /\ Past = Len(Lines) + 1
           /\ Past \in Nat /\ Len(Lines) <= MaxLines /\ MaxLines \in Nat
           /\ source.dialect \in Dialect /\ Opens(at) /\ SourceTyped
           /\ \A n \in 1 .. Past - 1 : Lines[n] \in Classes(source.dialect)
BY MarkdownAssumption DEF MarkdownIInv, SourceTyped, Past

LEMMA BlockTyped ==
    ASSUME NEW kind \in {"heading", "quote", "list", "numbers", "code", "paragraph", "property"},
           NEW first \in 1 .. MaxLines, NEW last \in 0 .. MaxLines
    PROVE  [kind |-> kind, first |-> first, last |-> last] \in Block
BY DEF Block

\* Outside front matter a line that is not blank, and open to nothing, begins a block; one
\* that joins the line above does not.
LEMMA BeginsHere ==
    ASSUME Opens(at), source.dialect # "yaml", Lines[at] # "blank"
    PROVE  Begins(at)
BY DEF Opens, Begins

\* A block without a fence: each of its lines joins the one above, and what follows does not.
LEMMA JoinedBlock ==
    ASSUME MarkdownIInv, at < Past, source.dialect # "yaml", Lines[at] # "blank",
           NEW kind \in {"heading", "quote", "list", "numbers", "paragraph"},
           NEW e \in at + 1 .. Past, AddsBlock(kind, e - 1, e),
           \A n \in at + 1 .. e - 1 :
               ~OpenBefore(n - 1) /\ Joins(source.dialect, Lines[n - 1], Lines[n]),
           e < Past => /\ ~OpenBefore(e)
                       /\ Lines[e] # "blank" => ~Joins(source.dialect, Lines[e - 1], Lines[e])
    PROVE  MarkdownIInv'
<1>1. /\ at \in 1 .. Len(Lines) /\ at \in Nat /\ Len(Lines) \in Nat /\ Past = Len(Lines) + 1
      /\ Len(Lines) <= MaxLines /\ MaxLines \in Nat /\ Opens(at) /\ e \in Nat /\ Past \in Nat
    BY AtLine
<1>2. e - 1 \in Nat /\ at <= e - 1 /\ e - 1 < e /\ e <= Past
      /\ at \in 1 .. MaxLines /\ e - 1 \in 0 .. MaxLines
    BY <1>1
<1>3. [kind |-> kind, first |-> at, last |-> e - 1] \in Block
    BY <1>2, BlockTyped
<1>4. Begins(at)
    BY <1>1, BeginsHere
<1>5. \A n \in at + 1 .. e - 1 : ~Begins(n)
    <2> TAKE n \in at + 1 .. e - 1
    <2>1. n > 1
        BY <1>1
    <2> QED
        BY <2>1 DEF Begins
<1>6. \A n \in e - 1 + 1 .. e - 1 : Free(n)
    BY <1>1
<1>7. e < Past => Opens(e)
    BY DEF Opens
<1> QED
    BY <1>1, <1>2, <1>3, <1>4, <1>5, <1>6, <1>7, BlockIsCut

\* A run of lines of the same classes.
LEMMA RunKeeps ==
    ASSUME MarkdownIInv, at < Past, source.dialect \in {"desktop", "mobile"},
           NEW kind \in {"quote", "list", "numbers"}, NEW cs \in SUBSET Class, Run(kind, cs),
           Lines[at] \in cs, "blank" \notin cs,
           \A n \in at .. Past : (\A j \in at .. n - 1 : Lines[j] \in cs) => ~OpenBefore(n),
           \A x, y \in cs : Joins(source.dialect, x, y),
           \A x \in cs, y \in Class \ cs : ~Joins(source.dialect, x, y)
    PROVE  MarkdownIInv'
<1> DEFINE e == EndOfRun(at, cs)
<1>1. /\ at \in 1 .. Past /\ at \in Nat /\ Past \in Nat /\ SourceTyped
      /\ \A n \in 1 .. Past - 1 : Lines[n] \in Class
    BY AtLine DEF Classes
<1>2. e \in at .. Past /\ (e = Past \/ Lines[e] \notin cs) /\ \A j \in at .. e - 1 : Lines[j] \in cs
    BY <1>1, RunEnds
<1>3. AddsBlock(kind, e - 1, e)
    BY DEF Run
<1> HIDE DEF e
<1>4. e \in at + 1 .. Past /\ e \in Nat
    BY <1>1, <1>2
<1>5. \A n \in at + 1 .. e - 1 : ~OpenBefore(n - 1) /\ Joins(source.dialect, Lines[n - 1], Lines[n])
    <2> TAKE n \in at + 1 .. e - 1
    <2>1. n - 1 \in at .. Past /\ n - 1 \in at .. e - 1 /\ n \in at .. e - 1
          /\ \A j \in at .. n - 1 - 1 : j \in at .. e - 1
        BY <1>1, <1>4
    <2> QED
        BY <1>2, <2>1
<1>6. e < Past => ~OpenBefore(e) /\ ~Joins(source.dialect, Lines[e - 1], Lines[e])
    <2>1. e \in at .. Past /\ e - 1 \in at .. e - 1
        BY <1>1, <1>4
    <2>2. e < Past => Lines[e] \in Class \ cs
        BY <1>1, <1>2, <1>4
    <2> QED
        BY <1>2, <2>1, <2>2
<1> QED
    BY <1>1, <1>3, <1>4, <1>5, <1>6, JoinedBlock

\* A paragraph: plain lines under a line that is worded.
LEMMA ParagraphKeeps ==
    ASSUME MarkdownIInv, at < Past, NEW d \in {"desktop", "mobile"}, source.dialect = d, Paragraph(d),
           Lines[at] \in Worded(d),
           \A n \in at .. Past : (\A j \in at .. n - 1 : Lines[j] \in Worded(d)) => ~OpenBefore(n)
    PROVE  MarkdownIInv'
<1> DEFINE e == FirstOf(at + 1, Stops(d))
<1>1. /\ at + 1 \in 1 .. Past /\ at \in Nat /\ Past \in Nat /\ SourceTyped /\ Lines[at] # "blank"
      /\ \A n \in 1 .. Past - 1 : Lines[n] \in Class
    BY AtLine DEF Classes, Worded, Plain
<1>2. /\ e \in at + 1 .. Past /\ (e = Past \/ Lines[e] \in Stops(d))
      /\ \A j \in at + 1 .. e - 1 : Lines[j] \notin Stops(d)
    BY <1>1, FirstFound
<1>3. AddsBlock("paragraph", e - 1, e)
    BY DEF Paragraph
<1> HIDE DEF e
<1>4. e \in Nat /\ e > at /\ e <= Past
    BY <1>1, <1>2
<1>5. \A y \in Class \ Stops(d) : y \in Plain(d) /\ y \in Worded(d)
    BY DEF Class, Stops, Plain, Worded
<1>6. \A n \in at + 1 .. e - 1 : Lines[n] \in Plain(d)
    BY <1>1, <1>2, <1>4, <1>5
<1>7. \A n \in at .. e - 1 : Lines[n] \in Worded(d)
    <2> TAKE n \in at .. e - 1
    <2>1. n = at \/ n \in at + 1 .. e - 1
        BY <1>1, <1>4
    <2> QED
        BY <2>1, <1>6 DEF Worded
<1>8. \A n \in at + 1 .. e - 1 : ~OpenBefore(n - 1) /\ Joins(source.dialect, Lines[n - 1], Lines[n])
    <2> TAKE n \in at + 1 .. e - 1
    <2>1. n - 1 \in at .. Past /\ n - 1 \in at .. e - 1
          /\ \A j \in at .. n - 1 - 1 : j \in at .. e - 1
        BY <1>1, <1>4
    <2> QED
        BY <1>6, <1>7, <2>1 DEF Joins
<1>9. e < Past => /\ ~OpenBefore(e)
                  /\ Lines[e] # "blank" => ~Joins(source.dialect, Lines[e - 1], Lines[e])
    <2>1. e \in at .. Past /\ e - 1 \in at .. e - 1
        BY <1>1, <1>4
    <2>2. \A x \in Worded(d), y \in Stops(d) : ~Joins(d, x, y)
        BY DEF Stops, Worded, Plain, Joins, Bullets
    <2> QED
        BY <1>2, <1>4, <1>7, <2>1, <2>2
<1> QED
    BY <1>1, <1>2, <1>3, <1>8, <1>9, JoinedBlock

\* A heading is a line by itself.
LEMMA HeadingKeeps ==
    ASSUME MarkdownIInv, at < Past, source.dialect # "yaml", Lines[at] # "blank",
           AddsBlock("heading", at, at + 1),
           at + 1 < Past => ~OpenBefore(at + 1) /\ ~Joins(source.dialect, Lines[at], Lines[at + 1])
    PROVE  MarkdownIInv'
<1>1. at \in Nat /\ Past \in Nat
    BY AtLine
<1>2. at + 1 \in at + 1 .. Past /\ at + 1 - 1 = at
    BY <1>1
<1>3. PICK e \in at + 1 .. Past : e = at + 1 /\ e - 1 = at
    BY ONLY <1>1, <1>2
<1>4. AddsBlock("heading", e - 1, e)
    BY ONLY <1>3, AddsBlock("heading", at, at + 1)
<1>5. \A n \in at + 1 .. e - 1 :
          ~OpenBefore(n - 1) /\ Joins(source.dialect, Lines[n - 1], Lines[n])
    BY <1>1, <1>3
<1>6. e < Past => /\ ~OpenBefore(e)
                  /\ Lines[e] # "blank" => ~Joins(source.dialect, Lines[e - 1], Lines[e])
    BY <1>3
<1> QED
    BY <1>4, <1>5, <1>6, JoinedBlock

\* On the desktop no line is inside another's block.
LEMMA DesktopKeeps ==
    ASSUME MarkdownIInv, at < Past, source.dialect = "desktop", Desktop
    PROVE  MarkdownIInv'
<1>1. /\ at \in 1 .. Len(Lines) /\ at \in Nat /\ Past \in Nat /\ Opens(at)
      /\ Lines[at] \in Class
    BY AtLine DEF Classes
<1>2. \A n : ~OpenBefore(n)
    BY DEF OpenBefore
<1>3. CASE Lines[at] = "heading"
    <2>1. AddsBlock("heading", at, at + 1)
        BY <1>3 DEF Desktop
    <2>2. \A y \in Class : ~Joins("desktop", "heading", y)
        BY DEF Class, Joins, Bullets, Worded, Plain
    <2>3. at + 1 < Past => ~Joins("desktop", Lines[at], Lines[at + 1])
        <3>1. at + 1 < Past => Lines[at + 1] \in Class
            BY <1>1, AtLine DEF Classes
        <3> QED
            BY <1>3, <2>2, <3>1
    <2> QED
        BY <1>2, <1>3, <2>1, <2>3, HeadingKeeps
<1>4. CASE Lines[at] = "quote"
    <2>1. Run("quote", {"quote"})
        BY <1>4 DEF Desktop
    <2>2. /\ \A x, y \in {"quote"} : Joins("desktop", x, y)
          /\ \A x \in {"quote"}, y \in Class \ {"quote"} : ~Joins("desktop", x, y)
        BY DEF Class, Joins, Bullets, Worded, Plain
    <2>3. {"quote"} \in SUBSET Class
        BY DEF Class
    <2> QED
        BY <1>2, <1>4, <2>1, <2>2, <2>3, RunKeeps
<1>5. CASE Lines[at] \in {"item", "indented"}
    <2>1. Run("list", {"item", "indented"})
        BY <1>5 DEF Desktop
    <2>2. /\ \A x, y \in {"item", "indented"} : Joins("desktop", x, y)
          /\ \A x \in {"item", "indented"}, y \in Class \ {"item", "indented"} :
                 ~Joins("desktop", x, y)
        BY DEF Class, Joins, Bullets, Worded, Plain
    <2>3. {"item", "indented"} \in SUBSET Class
        BY DEF Class
    <2> QED
        BY <1>2, <1>5, <2>1, <2>2, <2>3, RunKeeps
<1>6. CASE Lines[at] = "number"
    <2>1. Run("numbers", {"number"})
        BY <1>6 DEF Desktop
    <2>2. /\ \A x, y \in {"number"} : Joins("desktop", x, y)
          /\ \A x \in {"number"}, y \in Class \ {"number"} : ~Joins("desktop", x, y)
        BY DEF Class, Joins, Bullets, Worded, Plain
    <2>3. {"number"} \in SUBSET Class
        BY DEF Class
    <2> QED
        BY <1>2, <1>6, <2>1, <2>2, <2>3, RunKeeps
<1>7. CASE Lines[at] = "blank"
    <2>1. SkipBlank
        BY <1>7 DEF Desktop
    <2>2. ~Begins(at) /\ Free(at)
        BY <1>7 DEF Begins, Free
    <2>3. \A y : ~Joins("desktop", "blank", y)
        BY DEF Joins, Bullets, Worded, Plain
    <2>4. Opens(at + 1)
        BY <1>1, <1>2, <1>7, <2>3 DEF Opens
    <2> QED
        BY <2>1, <2>2, <2>4, BlankIsSkipped
<1>8. CASE Lines[at] \in {"h3", "hash", "fence", "text"}
    <2>1. Paragraph("desktop")
        BY <1>8 DEF Desktop
    <2>2. Lines[at] \in Worded("desktop")
        BY <1>8 DEF Worded, Plain
    <2> QED
        BY <1>2, <2>1, <2>2, ParagraphKeeps
<1> QED
    BY <1>1, <1>3, <1>4, <1>5, <1>6, <1>7, <1>8 DEF Class

\* On the mobile page a fence opens what is shut and shuts what is open; no other line does.
LEMMA FenceToggles ==
    ASSUME SourceTyped, source.dialect = "mobile", NEW n \in 1 .. Len(Lines), Lines[n] = "fence"
    PROVE  OpenBefore(n + 1) <=> ~OpenBefore(n)
<1> DEFINE F(k) == {j \in 1 .. k - 1 : Lines[j] = "fence"}
<1>1. n \in Nat /\ F(n + 1) = F(n) \cup {n} /\ n \notin F(n)
    <2>1. n \in Nat
        BY DEF SourceTyped
    <2>2. 1 .. n + 1 - 1 = (1 .. n - 1) \cup {n} /\ n \notin 1 .. n - 1
        BY <2>1
    <2> QED
        BY <2>1, <2>2
<1>2. IsFiniteSet(F(n))
    <2>1. 1 \in Int /\ n - 1 \in Int
        BY <1>1
    <2>2. IsFiniteSet(1 .. n - 1)
        BY <2>1, FS_Interval
    <2>3. F(n) \subseteq 1 .. n - 1
        OBVIOUS
    <2> QED
        BY <2>2, <2>3, FS_Subset
<1>3. OpenBefore(n + 1) = (Cardinality(F(n + 1)) % 2 = 1) /\ OpenBefore(n) = (Cardinality(F(n)) % 2 = 1)
    BY DEF OpenBefore
<1> HIDE DEF F
<1>4. Cardinality(F(n)) \in Nat /\ Cardinality(F(n + 1)) = Cardinality(F(n)) + 1
    BY <1>1, <1>2, FS_AddElement, FS_CardinalityType
<1>5. \A c \in Nat : (c + 1) % 2 = 1 <=> ~(c % 2 = 1)
    OBVIOUS
<1>6. (Cardinality(F(n + 1)) % 2 = 1) <=> ~(Cardinality(F(n)) % 2 = 1)
    BY <1>4, <1>5
<1> QED
    BY <1>3, <1>6

LEMMA NoFenceNoChange ==
    ASSUME SourceTyped, source.dialect = "mobile", NEW n \in Nat, NEW m \in Nat, 1 <= n, n <= m,
           \A j \in n .. m - 1 : Lines[j] # "fence"
    PROVE  OpenBefore(m) <=> OpenBefore(n)
<1>1. 1 .. m - 1 = (1 .. n - 1) \cup (n .. m - 1)
    OBVIOUS
<1>2. {j \in 1 .. m - 1 : Lines[j] = "fence"} = {j \in 1 .. n - 1 : Lines[j] = "fence"}
    BY <1>1
<1> QED
    BY <1>2 DEF OpenBefore

\* On the mobile page a fenced block takes all up to the fence that ends it.
LEMMA FenceKeeps ==
    ASSUME MarkdownIInv, at < Past, source.dialect = "mobile", Lines[at] = "fence", Fence
    PROVE  MarkdownIInv'
<1> DEFINE close == FirstOf(at + 1, {"fence"})
<1>1. /\ at \in 1 .. Len(Lines) /\ at \in Nat /\ Len(Lines) \in Nat /\ Past = Len(Lines) + 1
      /\ Past \in Nat /\ Len(Lines) <= MaxLines /\ MaxLines \in Nat /\ Opens(at) /\ SourceTyped
    BY AtLine
<1>2. at + 1 \in 1 .. Past
    BY <1>1
<1>3. /\ close \in at + 1 .. Past /\ (close = Past \/ Lines[close] = "fence")
      /\ \A j \in at + 1 .. close - 1 : Lines[j] # "fence"
    BY <1>1, <1>2, FirstFound
<1>4. PICK next \in Nat : next = AfterFence(close) /\ AddsBlock("code", close - 1, next)
    <2>1. AddsBlock("code", close - 1, AfterFence(close)) /\ AfterFence(close) \in Nat
        BY <1>1, <1>3 DEF Fence, AfterFence
    <2> QED
        BY ONLY <2>1
<1>5. next = IF close < Past THEN close + 1 ELSE close
    BY <1>4 DEF AfterFence
<1> HIDE DEF close
<1>6. /\ close \in Nat /\ close - 1 \in Nat /\ at <= close - 1 /\ close - 1 < next /\ next <= Past
      /\ at \in 1 .. MaxLines /\ close - 1 \in 0 .. MaxLines /\ close > at /\ close <= Past
    BY <1>1, <1>3, <1>5
<1>7. OpenBefore(at + 1)
    BY <1>1, FenceToggles DEF Opens
<1>8. \A n \in at + 1 .. close : OpenBefore(n)
    <2> TAKE n \in at + 1 .. close
    <2>1. n \in Nat /\ at + 1 \in Nat /\ 1 <= at + 1 /\ at + 1 <= n
        BY <1>1, <1>6
    <2>2. \A j \in at + 1 .. n - 1 : Lines[j] # "fence"
        BY <1>3, <1>6
    <2> QED
        BY <1>1, <1>7, <2>1, <2>2, NoFenceNoChange
<1>9. close < Past => Lines[close] = "fence" /\ OpenBefore(close) /\ ~OpenBefore(close + 1)
    <2> SUFFICES ASSUME close < Past
                 PROVE  Lines[close] = "fence" /\ OpenBefore(close) /\ ~OpenBefore(close + 1)
        OBVIOUS
    <2>1. Lines[close] = "fence" /\ close \in 1 .. Len(Lines) /\ close \in at + 1 .. close
        BY <1>1, <1>3, <1>6
    <2> QED
        BY <1>1, <1>8, <2>1, FenceToggles
<1>10. Begins(at)
    BY <1>1, BeginsHere
<1>11. \A n \in at + 1 .. next - 1 : ~Begins(n)
    <2>1. \A n \in at + 1 .. next - 1 : n \in at + 1 .. close
        BY <1>1, <1>5, <1>6
    <2> QED
        BY <1>8, <2>1 DEF Begins
<1>12. \A n \in close - 1 + 1 .. next - 1 : Free(n)
    <2>1. \A n \in close - 1 + 1 .. next - 1 : n = close /\ close < Past
        BY <1>5, <1>6
    <2> QED
        BY <1>9, <2>1 DEF Free
<1>13. next < Past => Opens(next)
    <2> SUFFICES ASSUME next < Past PROVE Opens(next)
        OBVIOUS
    <2>1. close < Past /\ next = close + 1 /\ next - 1 = close
        BY <1>1, <1>5, <1>6
    <2> QED
        BY <1>9, <2>1 DEF Opens
<1>14. [kind |-> "code", first |-> at, last |-> close - 1] \in Block
    BY <1>6, BlockTyped
<1> QED
    BY <1>4, <1>6, <1>10, <1>11, <1>12, <1>13, <1>14, BlockIsCut

LEMMA MobileKeeps ==
    ASSUME MarkdownIInv, at < Past, source.dialect = "mobile", Mobile
    PROVE  MarkdownIInv'
<1>1. /\ at \in 1 .. Len(Lines) /\ at \in Nat /\ Len(Lines) \in Nat /\ Past = Len(Lines) + 1
      /\ Past \in Nat /\ Opens(at) /\ SourceTyped /\ ~OpenBefore(at)
      /\ Lines[at] \in Class
    BY AtLine DEF Classes, Opens
<1>2. \A n \in at .. Past : (\A j \in at .. n - 1 : Lines[j] # "fence") => ~OpenBefore(n)
    <2> TAKE n \in at .. Past
    <2>1. n \in Nat /\ 1 <= at /\ at <= n
        BY <1>1
    <2> QED
        BY <1>1, <2>1, NoFenceNoChange
<1>3. Lines[at] # "fence" => ~OpenBefore(at + 1)
    <2>1. at + 1 \in Nat /\ 1 <= at /\ at <= at + 1 /\ \A j \in at .. at + 1 - 1 : j = at
        BY <1>1
    <2> QED
        BY <1>1, <2>1, NoFenceNoChange
<1>4. CASE Lines[at] = "blank"
    <2>1. SkipBlank
        BY <1>4 DEF Mobile
    <2>2. ~Begins(at) /\ Free(at)
        BY <1>4 DEF Begins, Free
    <2>3. \A y : ~Joins("mobile", "blank", y)
        BY DEF Joins, Bullets, Worded, Plain
    <2>4. Opens(at + 1)
        <3>1. PICK n \in Nat : n = at + 1 /\ n - 1 = at
            BY ONLY <1>1
        <3>2. ~OpenBefore(n) /\ ~Joins(source.dialect, Lines[n - 1], Lines[n])
            BY <1>3, <1>4, <2>3, <3>1
        <3>3. Opens(n)
            BY <3>2 DEF Opens
        <3> QED
            BY ONLY <3>1, <3>3
    <2> QED
        BY <2>1, <2>2, <2>4, BlankIsSkipped
<1>5. CASE Lines[at] = "fence"
    <2>1. Fence
        BY <1>5 DEF Mobile
    <2> QED
        BY <1>5, <2>1, FenceKeeps
<1>6. CASE Lines[at] \in {"heading", "h3"}
    <2>1. AddsBlock("heading", at, at + 1)
        BY <1>6 DEF Mobile
    <2>2. \A y : ~Joins("mobile", "heading", y) /\ ~Joins("mobile", "h3", y)
        BY DEF Joins, Bullets, Worded, Plain
    <2> QED
        BY <1>3, <1>6, <2>1, <2>2, HeadingKeeps
<1>7. CASE Lines[at] = "item"
    <2>1. Run("list", {"item"})
        BY <1>7 DEF Mobile
    <2>2. /\ \A x, y \in {"item"} : Joins("mobile", x, y)
          /\ \A x \in {"item"}, y \in Class \ {"item"} : ~Joins("mobile", x, y)
        BY DEF Class, Joins, Bullets, Worded, Plain
    <2>3. {"item"} \in SUBSET Class
        BY DEF Class
    <2> QED
        BY <1>2, <1>7, <2>1, <2>2, <2>3, RunKeeps
<1>8. CASE Lines[at] \in {"text", "hash", "quote", "indented", "number"}
    <2>1. Paragraph("mobile")
        BY <1>8 DEF Mobile
    <2>2. Lines[at] \in Worded("mobile") /\ "fence" \notin Worded("mobile")
        BY <1>8 DEF Worded, Plain
    <2> QED
        BY <1>2, <2>1, <2>2, ParagraphKeeps
<1> QED
    BY <1>1, <1>4, <1>5, <1>6, <1>7, <1>8 DEF Class

\* In front matter a line that closes leaves nothing open, and so does one that opens nothing
\* where nothing was.
LEMMA ValueCloses ==
    ASSUME SourceTyped, source.dialect = "yaml", NEW n \in Nat, n >= 1, NEW m \in Nat, m = n + 1,
           Lines[n] \in Closers \/ (~OpenBefore(n) /\ Lines[n] # "opens")
    PROVE  ~OpenBefore(m)
<1> SUFFICES ASSUME NEW j \in 1 .. m - 1, Lines[j] = "opens",
                    \A l \in j + 1 .. m - 1 : Lines[l] \notin Closers
             PROVE  FALSE
    BY DEF OpenBefore
<1>1. j \in Nat /\ j <= n
    OBVIOUS
<1>2. Lines[n] # "opens"
    BY DEF Closers
<1>3. j < n
    BY <1>1, <1>2
<1>4. n \in j + 1 .. m - 1 /\ j \in 1 .. n - 1 /\ \A l \in j + 1 .. n - 1 : l \in j + 1 .. m - 1
    BY <1>1, <1>3
<1>5. ~OpenBefore(n)
    BY <1>4
<1> QED
    BY <1>4, <1>5 DEF OpenBefore

LEMMA YamlKeeps ==
    ASSUME MarkdownIInv, at < Past, source.dialect = "yaml", Yaml
    PROVE  MarkdownIInv'
<1>1. /\ at \in 1 .. Len(Lines) /\ at \in Nat /\ Len(Lines) \in Nat /\ Past = Len(Lines) + 1
      /\ Past \in Nat /\ Len(Lines) <= MaxLines /\ MaxLines \in Nat /\ SourceTyped
      /\ ~OpenBefore(at) /\ Lines[at] \in YamlClass
    BY AtLine DEF Classes, Opens
<1>2. PICK after \in Nat : after = at + 1 /\ after - 1 = at
    BY ONLY <1>1
<1>3. CASE Lines[at] \in {"key", "quoted"}
    <2>1. AddsBlock("property", at, after)
        BY <1>2, <1>3 DEF Yaml
    <2>2. Opens(after)
        <3>1. ~OpenBefore(after)
            BY <1>1, <1>2, <1>3, ValueCloses
        <3> QED
            BY <3>1 DEF Opens
    <2>3. Begins(at)
        BY <1>1, <1>3 DEF Begins
    <2>4. /\ \A n \in at + 1 .. after - 1 : ~Begins(n) /\ Free(n)
          /\ at < after /\ after <= Past /\ at \in 1 .. MaxLines /\ at \in 0 .. MaxLines
        BY <1>1, <1>2
    <2>5. [kind |-> "property", first |-> at, last |-> at] \in Block
        BY <2>4 DEF Block
    <2> QED
        BY <1>1, <2>1, <2>2, <2>3, <2>4, <2>5, BlockIsCut
<1>4. CASE Lines[at] = "opens"
    <2> DEFINE close == FirstOf(at + 1, Closers)
    <2>1. at + 1 \in 1 .. Past
        BY <1>1
    <2>2. /\ close \in at + 1 .. Past /\ (close = Past \/ Lines[close] \in Closers)
          /\ \A j \in at + 1 .. close - 1 : Lines[j] \notin Closers
        BY <1>1, <2>1, FirstFound
    <2>3. PICK last \in Nat, next \in Nat :
              /\ last = (IF close < Past THEN close ELSE close - 1) /\ next = last + 1
              /\ AddsBlock("property", last, next)
        <3> DEFINE l == IF close < Past THEN close ELSE close - 1
        <3>1. AddsBlock("property", l, l + 1)
            BY <1>4 DEF Yaml
        <3>2. l \in Nat /\ l + 1 \in Nat
            BY <1>1, <2>2
        <3> HIDE DEF close
        <3> QED
            BY <3>1, <3>2
    <2> HIDE DEF close
    <2>4. /\ close \in Nat /\ close <= Past /\ at <= last /\ last < next /\ next <= Past
          /\ at \in 1 .. MaxLines /\ last \in 0 .. MaxLines
        BY <1>1, <2>2, <2>3
    <2>5. \A n \in at + 1 .. next - 1 : ~Begins(n)
        <3> TAKE n \in at + 1 .. next - 1
        <3>1. n \in Nat /\ at \in 1 .. n - 1 /\ \A l \in at + 1 .. n - 1 : l \in at + 1 .. close - 1
            BY <1>1, <2>3, <2>4
        <3>2. OpenBefore(n)
            BY <1>4, <2>2, <3>1 DEF OpenBefore
        <3> QED
            BY <3>2 DEF Begins
    <2>6. \A n \in last + 1 .. next - 1 : Free(n)
        BY <2>3
    <2>7. next < Past => Opens(next)
        <3> SUFFICES ASSUME next < Past PROVE Opens(next)
            OBVIOUS
        <3>1. close < Past /\ next = close + 1 /\ close >= 1
            BY <1>1, <2>2, <2>3, <2>4
        <3>2. ~OpenBefore(next)
            BY <1>1, <2>2, <2>4, <3>1, ValueCloses
        <3> QED
            BY <3>2 DEF Opens
    <2>8. Begins(at)
        BY <1>1, <1>4 DEF Begins
    <2>9. [kind |-> "property", first |-> at, last |-> last] \in Block
        BY <2>4 DEF Block
    <2> QED
        BY <2>3, <2>4, <2>5, <2>6, <2>7, <2>8, <2>9, BlockIsCut
<1>5. CASE Lines[at] \in {"closes", "other"}
    <2>1. SkipBlank
        BY <1>5 DEF Yaml
    <2>2. ~Begins(at) /\ Free(at)
        BY <1>5 DEF Begins, Free
    <2>3. Opens(after)
        <3>1. ~OpenBefore(after)
            BY <1>1, <1>2, <1>5, ValueCloses
        <3> QED
            BY <3>1 DEF Opens
    <2>4. Opens(at + 1)
        BY ONLY <1>2, <2>3
    <2> QED
        BY <2>1, <2>2, <2>4, BlankIsSkipped
<1> QED
    BY <1>1, <1>3, <1>4, <1>5 DEF YamlClass

LEMMA MarkdownStepKeeps == MarkdownIInv /\ [ParseStep]_markdownVars => MarkdownIInv'
<1> SUFFICES ASSUME MarkdownIInv, [ParseStep]_markdownVars PROVE MarkdownIInv'
    OBVIOUS
<1>1. CASE ParseStep
    <2>1. at < Past /\ source.dialect \in Dialect
        BY <1>1 DEF ParseStep, MarkdownIInv, SourceTyped
    <2>2. CASE source.dialect = "desktop"
        BY <1>1, <2>1, <2>2, DesktopKeeps DEF ParseStep
    <2>3. CASE source.dialect = "mobile"
        BY <1>1, <2>1, <2>3, MobileKeeps DEF ParseStep
    <2>4. CASE source.dialect = "yaml"
        BY <1>1, <2>1, <2>4, YamlKeeps DEF ParseStep
    <2> QED
        BY <2>1, <2>2, <2>3, <2>4 DEF Dialect
<1>2. CASE UNCHANGED markdownVars
    <2>1. UNCHANGED <<source, at, blocks>>
        BY <1>2 DEF markdownVars
    <2>2. at \in Nat /\ at >= 1 /\ CutBefore /\ SourceTyped /\ blocks \in Seq(Block)
        BY DEF MarkdownIInv, SourceTyped, Past
    <2>3. /\ Past' = Past /\ Lines' = Lines /\ SourceTyped'
          /\ \A n \in Nat : /\ Begins(n)' = Begins(n) /\ Free(n)' = Free(n)
                            /\ Opens(n)' = Opens(n)
        BY <2>1, <2>2 DEF Past, Lines, SourceTyped, Begins, Free, Opens, OpenBefore
    <2>4. CutBefore'
        <3>1. \A n \in 1 .. at - 1 : Begins(n)' = Begins(n) /\ Free(n)' = Free(n)
            BY <2>2, <2>3
        <3>2. {n \in 1 .. at' - 1 : Begins(n)'} = {n \in 1 .. at - 1 : Begins(n)}
            BY <2>1, <3>1
        <3> QED
            BY <2>1, <2>2, <3>1, <3>2 DEF CutBefore
    <2>5. at' \in 1 .. Past' /\ (at' < Past' => Opens(at)')
        BY <2>1, <2>2, <2>3 DEF MarkdownIInv
    <2> QED
        BY <2>1, <2>2, <2>3, <2>4, <2>5 DEF MarkdownIInv
<1> QED
    BY <1>1, <1>2

--------------------------------------------------------------------------------
(* The client: a step of it is a step of one part, and leaves the others   *)
(* as they are.                                                            *)

ClientIInv ==
    /\ part \in Parts
    /\ PollIInv /\ JobPageIInv /\ SubmitIInv /\ RecentsAreLatest /\ SettingsIInv /\ HistoryIInv
    /\ DeskIInv /\ PhoneIInv /\ MarkdownIInv /\ LibraryIInv /\ CaptureIInv

LEMMA ClientInitHolds == ClientInit => ClientIInv
BY PollInitHolds, JobPageInitHolds, SubmitInitHolds, RecentsInitHold, SettingsInitHolds, HistoryInitHolds,
   DeskInitHolds, PhoneInitHolds, MarkdownInitHolds, LibraryInitHolds, CaptureInitHolds
DEF ClientInit, ClientIInv

\* The steps of the client as each part sees them.
PartsMove ==
    /\ part' = part
    /\ [PollNext]_pollVars /\ [JobPageNext]_jobPageVars /\ [SubmitNext]_submitVars
    /\ [SettingsNext]_settingsVars /\ [HistoryNext]_historyVars
    /\ [DeskNext]_deskVars /\ [PhoneNext]_phoneVars /\ [ParseStep]_markdownVars
    /\ [LibraryNext]_libraryVars /\ [CaptureNext]_captureVars

LEMMA ReaderStands == UNCHANGED transcriptPageVars => UNCHANGED deskVars /\ UNCHANGED phoneVars
BY DEF transcriptPageVars, deskVars, phoneVars

LEMMA PartMoves == [ClientNext]_clientVars => PartsMove
<1>1. TabNext => PollNext
    BY DEF PollNext
<1>2. CoreNext => PollNext
    BY DEF PollNext
<1>3. TranscriptNext => PollNext
    BY DEF PollNext
<1>4. CASE Polls(TabNext) \/ Polls(CoreNext) \/ Polls(TranscriptNext)
    BY <1>4, <1>1, <1>2, <1>3, ReaderStands DEF Polls, PartsMove
<1>5. CASE Visits(JobPageNext)
    BY <1>5, ReaderStands DEF Visits, PartsMove
<1>6. CASE Submits(PaletteNext) \/ Submits(SheetNext)
    BY <1>6, ReaderStands DEF Submits, PartsMove, SubmitNext
<1>7. CASE Sets(ConfigNext) /\ UNCHANGED <<promptVars, usersVars, session>>
    BY <1>7, ReaderStands DEF Sets, PartsMove, SettingsNext
<1>8. CASE Sets(PromptNext) /\ UNCHANGED <<configVars, usersVars, session>>
    BY <1>8, ReaderStands DEF Sets, PartsMove, SettingsNext
<1>9. CASE Sets(UsersNext) /\ UNCHANGED <<configVars, promptVars, session>>
    BY <1>9, ReaderStands DEF Sets, PartsMove, SettingsNext
<1>10. CASE Sets(SessionNext) /\ UNCHANGED <<configVars, promptVars, usersVars>>
    BY <1>10, ReaderStands DEF Sets, PartsMove, SettingsNext
<1>11. CASE /\ part = "history" /\ HistoryNext
            /\ UNCHANGED <<part, pollVars, jobPageVars, submitVars, settingsVars,
                           transcriptPageVars, markdownVars, libraryVars, captureVars>>
    BY <1>11, ReaderStands DEF PartsMove
<1>12. CASE Reads(DeskNext) /\ UNCHANGED phoneVars
    BY <1>12 DEF Reads, PartsMove
<1>13. CASE Reads(PhoneNext) /\ UNCHANGED deskVars
    BY <1>13 DEF Reads, PartsMove
<1>14. CASE /\ part = "markdown" /\ ParseStep
            /\ UNCHANGED <<part, pollVars, jobPageVars, submitVars, settingsVars, historyVars,
                           transcriptPageVars, libraryVars, captureVars>>
    BY <1>14, ReaderStands DEF PartsMove
<1>15. CASE /\ part = "library" /\ LibraryNext
            /\ UNCHANGED <<part, pollVars, jobPageVars, submitVars, settingsVars, historyVars,
                           transcriptPageVars, markdownVars, captureVars>>
    BY <1>15, ReaderStands DEF PartsMove
<1>16. CASE Captures(CaptureNext)
    BY <1>16, ReaderStands DEF Captures, PartsMove
<1>17. CASE UNCHANGED clientVars
    BY <1>17, ReaderStands DEF clientVars, PartsMove
<1> QED
    BY <1>4, <1>5, <1>6, <1>7, <1>8, <1>9, <1>10, <1>11, <1>12, <1>13, <1>14, <1>15, <1>16, <1>17
       DEF ClientNext

LEMMA ClientStepKeeps == ClientIInv /\ [ClientNext]_clientVars => ClientIInv'
<1>1. ClientIInv /\ PartsMove => ClientIInv'
    BY PollStepKeeps, JobPageStepKeeps, SubmitStepKeeps, RecentsStepKeeps, SettingsStepKeeps,
       HistoryStepKeeps,
       DeskStepKeeps, PhoneStepKeeps, MarkdownStepKeeps, LibraryStepKeeps, CaptureStepKeeps
       DEF ClientIInv, PartsMove, SubmitIInv
<1> QED
    BY <1>1, PartMoves

\* The inductive invariant of the client: each part's own.
THEOREM ClientInvariant == ClientSpec => []ClientIInv
BY ClientInitHolds, ClientStepKeeps, PTL DEF ClientSpec

\* The capture proof of concept: while the server appends what it is sent, its parts are a
\* first stretch of the stream, and the whole stream once the upload is done.
THEOREM UploadsAreWhole == ClientSpec => []UploadIsWhole
<1>1. ClientIInv => UploadIsWhole
    BY DEF ClientIInv, CaptureIInv
<1> QED
    BY <1>1, ClientInvariant, PTL

\* createPollLoop: no timer and no live request in a hidden tab, whatever page is open.
THEOREM HiddenClientsAreQuiet == ClientSpec => []HiddenIsQuiet
<1>1. ClientIInv => HiddenIsQuiet
    BY DEF ClientIInv, PollIInv
<1> QED
    BY <1>1, ClientInvariant, PTL

\* No page shows what its route, its hash or its filter does not name, however late an
\* answer arrives: the transcript, the job, the history and the library.
THEOREM PagesShowTheirRoutes == ClientSpec => []ShownIsRoutes
<1>1. ClientIInv => ShownIsRoutes
    BY JobPageImplies, HistoryImplies, LibraryImplies DEF ClientIInv, PollIInv, ShownIsRoutes
<1> QED
    BY <1>1, ClientInvariant, PTL

\* What the settings page calls saved or loaded is what the server has: the configuration,
\* the prompt and the users.
THEOREM SavedIsTheServers == ClientSpec => []SettingsAreStored
<1>1. ClientIInv => SettingsAreStored
    BY SettingsImplies DEF ClientIInv
<1> QED
    BY <1>1, ClientInvariant, PTL

\* The transcript's page makes one new summary at a time, keeps a toast for its time, brings
\* up the summary that is ready, and cuts a document of any length into its blocks: every
\* line is in the block it belongs to, and the two parsers and the front matter's agree with
\* the line-by-line definition.
THEOREM ReadersAreServed == ClientSpec => []ReaderIsServed
<1>1. ClientIInv => ReaderIsServed
    BY ReaderImplies, MarkdownImplies DEF ClientIInv, ReaderIsServed
<1> QED
    BY <1>1, ClientInvariant, PTL

\* One opening of the palette or of the capture sheet submits once at a time, and the
\* palette's recent submissions are the latest answer for each of the last videos answered.
THEOREM SubmissionsAreSound == ClientSpec => []SubmitIsSound
<1>1. ClientIInv => SubmitIsSound
    BY SubmitImplies DEF ClientIInv
<1> QED
    BY <1>1, ClientInvariant, PTL

\* Every reachable state of the client is well typed, for any documents, videos, keys, jobs,
\* captures and bounds.
THEOREM ClientTypeCorrect == ClientSpec => []ClientTypeOK
<1>1. ClientIInv => ClientTypeOK
    BY JobPageImplies, SubmitImplies, SettingsImplies, HistoryImplies, ReaderImplies,
       MarkdownImplies, LibraryImplies DEF ClientIInv, PollIInv, CaptureIInv, ClientTypeOK
<1> QED
    BY <1>1, ClientInvariant, PTL
================================================================================
