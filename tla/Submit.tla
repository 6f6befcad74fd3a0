-------------------------------- MODULE Submit --------------------------------
(***************************************************************************)
(* Submitting a video from the web app: the desktop's command palette      *)
(* (Cmd+K) and the mobile capture sheet.  Both post a URL to /jobs or a    *)
(* file to /jobs/upload; both can be closed while the request is under way *)
(* and opened again, which forgets it, and its answer still arrives.       *)
(***************************************************************************)
EXTENDS Naturals, Sequences, FiniteSets

CONSTANTS
    Video,          \* videos whose URL can be typed
    Upload,         \* videos of files that can be picked: "upload:" and a hash of the content
    NoVideo,
    MaxRecents,     \* MAX_RECENT_SUBMISSIONS
    MaxAccepted,    \* jobs the server creates for the palette
    MaxInFlight,    \* requests under way at once, per surface
    MaxClosers      \* close timers of the sheet running at once

ASSUME SubmitAssumption ==
    /\ NoVideo \notin Video \cup Upload
    /\ {MaxRecents, MaxAccepted, MaxInFlight, MaxClosers} \subseteq Nat

VARIABLES
    accepted,   \* the palette's jobs at the server: the video of each, by id
    surface,    \* the two forms
    inFlight,   \* requests: whose, of the present opening or an earlier one, for what
    recents,    \* scribe.cmdk.recentSubmissions
    toldJobs,   \* ghost: the palette's answers, the latest first
    closers,    \* timers that will call the sheet's onClose
    leading,    \* timers of the sheet that will lead to a job
    crossed     \* ghost: forms whose opening heard the answer of an earlier one

submitVars == <<accepted, surface, inFlight, recents, toldJobs, closers, leading, crossed>>

Surface == {"palette", "sheet"}
Form == [open : BOOLEAN, text : Video \cup {NoVideo}, file : BOOLEAN,
         state : {"none", "submitting", "error", "queued"}]
Fresh == [open |-> TRUE, text |-> NoVideo, file |-> FALSE, state |-> "none"]
Post == [by : Surface, own : BOOLEAN, video : Video \cup Upload]
Row == [id : 1 .. MaxAccepted, video : Video \cup Upload]

SubmitInit ==
    /\ accepted = <<>>
    /\ surface = [s \in Surface |-> [Fresh EXCEPT !.open = FALSE]]
    /\ inFlight = {} /\ recents = <<>> /\ toldJobs = <<>>
    /\ closers = 0 /\ leading = 0 /\ crossed = {}

--------------------------------------------------------------------------------
(* Both forms *)

\* Opening resets the form; requests of an earlier opening run on.
OpenForm(s) ==
    /\ ~surface[s].open
    /\ surface' = [surface EXCEPT ![s] = Fresh]
    /\ inFlight' = {IF r.by = s THEN [r EXCEPT !.own = FALSE] ELSE r : r \in inFlight}
    /\ crossed' = crossed \ {s}
    /\ UNCHANGED <<accepted, recents, toldJobs, closers, leading>>

\* parseVideoUrl decides whether the text names a video; typing drops the sheet's file.
TypeUrl(s, v) ==
    /\ surface[s].open
    /\ surface' = [surface EXCEPT ![s].text = v, ![s].file = FALSE]
    /\ UNCHANGED <<accepted, inFlight, recents, toldJobs, closers, leading, crossed>>

\* (bound: requests under way)
Posts(s, v) ==
    /\ Cardinality({r \in inFlight : r.by = s}) < MaxInFlight
    /\ inFlight' = inFlight \cup {[by |-> s, own |-> TRUE, video |-> v]}
    /\ [by |-> s, own |-> TRUE, video |-> v] \notin inFlight

--------------------------------------------------------------------------------
(* The palette *)

\* A URL waits for nothing to be told yet; a file waits only for a request under way.
MaySubmitUrl(f) == f.text # NoVideo /\ f.state = "none"
isSubmitInFlight(f) == f.state = "submitting"

SubmitUrl ==
    /\ surface["palette"].open /\ MaySubmitUrl(surface["palette"])
    /\ Posts("palette", surface["palette"].text)
    /\ surface' = [surface EXCEPT !["palette"].state = "submitting"]
    /\ UNCHANGED <<accepted, recents, toldJobs, closers, leading, crossed>>

\* The list offers the upload while no URL is typed.
PickFile ==
    /\ surface["palette"].open /\ surface["palette"].text = NoVideo
    /\ ~isSubmitInFlight(surface["palette"])
    /\ \E v \in Upload : Posts("palette", v)
    /\ surface' = [surface EXCEPT !["palette"].state = "submitting"]
    /\ UNCHANGED <<accepted, recents, toldJobs, closers, leading, crossed>>

\* Escape, the shortcut again, a click beside it, or a pick that navigates.
ClosePalette ==
    /\ surface["palette"].open
    /\ surface' = [surface EXCEPT !["palette"].open = FALSE]
    /\ UNCHANGED <<accepted, inFlight, recents, toldJobs, closers, leading, crossed>>

Shorter(n) == IF n < MaxRecents THEN n ELSE MaxRecents

\* One row per video, the newest first.
SameVideo(a, b) == a.video = b.video
\* What a list q has at the places S, in order.
Rank(S, i) == Cardinality({k \in S : k <= i})
Listed(q, S) == [n \in 1 .. Cardinality(S) |-> q[CHOOSE i \in S : Rank(S, i) = n]]
Pushed_KeepsTwins(rows, row) ==
    LET next == <<row>> \o rows
    IN SubSeq(next, 1, Shorter(Len(next)))
Pushed(rows, row) ==
    LET next == <<row>> \o Listed(rows, {n \in DOMAIN rows : ~SameVideo(rows[n], row)})
    IN SubSeq(next, 1, Shorter(Len(next)))

--------------------------------------------------------------------------------
(* The capture sheet *)

\* A chosen file supersedes the URL.
ChooseFile ==
    /\ surface["sheet"].open
    /\ surface' = [surface EXCEPT !["sheet"].file = TRUE, !["sheet"].text = NoVideo,
           !["sheet"].state = IF @ = "error" THEN "none" ELSE @]
    /\ UNCHANGED <<accepted, inFlight, recents, toldJobs, closers, leading, crossed>>
RemoveFile ==
    /\ surface["sheet"].open /\ surface["sheet"].file /\ surface["sheet"].state # "submitting"
    /\ surface' = [surface EXCEPT !["sheet"].file = FALSE]
    /\ UNCHANGED <<accepted, inFlight, recents, toldJobs, closers, leading, crossed>>

Valid_WhileSubmitting(f) == f.file \/ f.text # NoVideo
Valid(f) == (f.file \/ f.text # NoVideo) /\ f.state # "submitting"

Add ==
    LET f == surface["sheet"] IN
    /\ f.open /\ Valid(f)
    /\ \E v \in IF f.file THEN Upload ELSE {f.text} : Posts("sheet", v)
    /\ surface' = [surface EXCEPT !["sheet"].state = "submitting"]
    /\ UNCHANGED <<accepted, recents, toldJobs, closers, leading, crossed>>

\* "Cancel" waits for the request, but the backdrop and Escape do not.  Closing slides the
\* sheet out and starts a timer of its own each time.
CloseSheet ==
    /\ surface["sheet"].open /\ closers < MaxClosers /\ closers' = closers + 1
    /\ UNCHANGED <<accepted, surface, inFlight, recents, toldJobs, leading, crossed>>
SheetCloses ==
    /\ closers > 0 /\ closers' = closers - 1
    /\ surface' = [surface EXCEPT !["sheet"].open = FALSE]
    /\ UNCHANGED <<accepted, inFlight, recents, toldJobs, leading, crossed>>
SheetLeads ==
    /\ leading > 0 /\ leading' = leading - 1
    /\ UNCHANGED <<accepted, surface, inFlight, recents, toldJobs, closers, crossed>>

--------------------------------------------------------------------------------
(* Answers *)

\* A job of the same video, or of the same content, is handed out again, or a new one is made.
AcceptsAs(v) ==
    {i \in DOMAIN accepted : accepted[i] = v} \cup
    (IF Len(accepted) < MaxAccepted THEN {Len(accepted) + 1} ELSE {})

\* (When the server acts and when its answer arrives is one step.)
Accepted(r) ==
    IF r.by = "palette"
    THEN \E id \in AcceptsAs(r.video) :
           /\ accepted' = IF id \in DOMAIN accepted THEN accepted ELSE Append(accepted, r.video)
           /\ surface' = [surface EXCEPT !["palette"].state = "queued"]
           /\ recents' = Pushed(recents, [id |-> id, video |-> r.video])
           /\ toldJobs' = <<[id |-> id, video |-> r.video]>> \o toldJobs
           /\ UNCHANGED <<closers, leading>>
    ELSE /\ closers < MaxClosers /\ closers' = closers + 1       \* close()
         /\ leading < MaxClosers /\ leading' = leading + 1       \* navigateDesign
         /\ UNCHANGED <<accepted, surface, recents, toldJobs>>

\* Refused, unreachable, or an answer that is no job.
Failed(r) ==
    /\ surface' = [surface EXCEPT ![r.by].state = "error"]
    /\ UNCHANGED <<accepted, recents, toldJobs, closers, leading>>

\* (bound: the ghost of the palette's answers)
Hears(r) ==
    /\ inFlight' = inFlight \ {r}
    /\ (Len(toldJobs) <= MaxAccepted /\ Accepted(r)) \/ Failed(r)
    /\ crossed' = IF r.own THEN crossed ELSE crossed \cup {r.by}

--------------------------------------------------------------------------------

FormNext(s) ==
    \/ OpenForm(s)
    \/ \E v \in Video \cup {NoVideo} : TypeUrl(s, v)
FormHears(s) == \E r \in inFlight : r.by = s /\ Hears(r)
PaletteNext == FormNext("palette") \/ FormHears("palette") \/ SubmitUrl \/ PickFile \/ ClosePalette
SheetTimers == SheetCloses \/ SheetLeads
SheetNext ==
    \/ FormNext("sheet") \/ FormHears("sheet")
    \/ ChooseFile \/ RemoveFile \/ Add \/ CloseSheet
    \/ SheetTimers
SubmitNext == PaletteNext \/ SheetNext

SubmitSpec == SubmitInit /\ [][SubmitNext]_submitVars

--------------------------------------------------------------------------------
(* Properties *)

SubmitTypeOK ==
    /\ accepted \in Seq(Video \cup Upload) /\ Len(accepted) <= MaxAccepted
    /\ surface \in [Surface -> Form]
    /\ inFlight \subseteq Post
    /\ recents \in Seq(Row) /\ toldJobs \in Seq(Row)
    /\ closers \in 0 .. MaxClosers /\ leading \in 0 .. MaxClosers
    /\ crossed \subseteq Surface

\* One opening of a form has one request under way at most -- unless the late answer of an
\* earlier opening has changed what it shows.
OneSubmit ==
    \A s \in Surface \ crossed : Cardinality({r \in inFlight : r.by = s /\ r.own}) <= 1

\* Of the answers, the latest for each video, and of these the first that the list has room for.
Newest == {i \in DOMAIN toldJobs : \A k \in 1 .. i - 1 : ~SameVideo(toldJobs[k], toldJobs[i])}
Lasting == {i \in Newest : Rank(Newest, i) <= MaxRecents}

\* The palette's recent submissions are the latest answer for each of the last videos
\* answered, in order: no twin, no stale id, nothing missing, not too many.
RecentsAreLatest == recents = Listed(toldJobs, Lasting)
=============================================================================
