------------------------------ MODULE Extension ------------------------------
(***************************************************************************)
(* The Chrome extension: the service worker with its context menu and its  *)
(* notifications, the popup and the options page.                          *)
(*                                                                         *)
(* A flow is one invocation of an event handler of the worker.  Handlers   *)
(* are async functions: between two awaits a flow takes one step, and any  *)
(* other handler, the user and the browser can act in between.  Two tables *)
(* in chrome.storage.local, the links and the retry URLs of notifications, *)
(* are read, changed and written back whole across such gaps.              *)
(***************************************************************************)
EXTENDS Naturals

CONSTANTS
    Url,            \* pages and links
    Base,           \* Scribe services that the options can name
    DefaultBase,    \* the one that the manifest grants access to
    Verdict,        \* what classifySubmit makes of a page: [Url -> VerdictKind]
    Youtube,        \* pages whose submit carries cookies
    FlowId,         \* handlers that can be running at once
    MaxStarts,      \* handler invocations in a behaviour
    MaxFaults,      \* deaths of the worker and failed storage writes
    MaxSaves,       \* changes of the options
    None

VerdictKind == {"submit", "confirm", "refuse", "local"}

ASSUME ExtensionAssumption ==
    /\ MaxStarts \in Nat /\ MaxFaults \in Nat /\ MaxSaves \in Nat
    /\ DefaultBase \in Base
    /\ Verdict \in [Url -> VerdictKind]
    /\ Youtube \subseteq Url
    /\ Url # {}
    /\ None \notin Url \cup Base \cup VerdictKind /\ None \notin FlowId

VARIABLES
    base,       \* chrome.storage.sync baseUrl
    permitted,  \* origins Chrome has granted
    cookies,    \* is the youtube.com permission granted
    saves,
    popup,      \* the popup: the tab it is over, the page it talks about, what it shows
    flow, started,  \* the handler invocations, and how many there have been
    seq,        \* notificationSeq (with the clock in it, it never repeats)
    notice,     \* notifications on the screen
    links,      \* the notificationLinks table
    retry,      \* the cookieRetryUrls table
    badge, alarm,
    faults

options == <<base, permitted, cookies, saves>>
tables == <<links, retry>>
toolbar == <<badge, alarm>>
vars == <<options, popup, flow, started, seq, notice, tables, toolbar, faults>>

NoteId == 1 .. (MaxStarts + MaxFaults)

\* "menu": context menu; "check", "force" and "bare": the popup's first submit, Submit
\* anyway and Retry without cookies; "open" and "retry": a click on a notification.
Kind == {"menu", "check", "force", "bare", "open", "retry"}
Popups == {"check", "force", "bare"}
WithCookies == Kind \ {"bare", "retry"}

Pc == {"unused", "preflight", "config", "post", "linkRead", "linkWrite",
       "gateRead", "gateWrite", "openWrite", "retryWrite"}

Link == [base : Base, url : Url]   \* the job of a page, at a service
LinkTable == [NoteId -> Link \cup {None}]
RetryTable == [NoteId -> Url \cup {None}]
Empty == [n \in NoteId |-> None]

Flow == [kind : Kind, pc : Pc, url : Url, shown : Url \cup {None}, moved : BOOLEAN,
         base : Base, answer : VerdictKind \cup {None},
         note : NoteId \cup {0}, snap : LinkTable \cup RetryTable]
NoFlow == [kind |-> "menu", pc |-> "unused", url |-> CHOOSE u \in Url : TRUE,
           shown |-> None, moved |-> FALSE, base |-> DefaultBase, answer |-> None,
           note |-> 0, snap |-> Empty]
Popup == [at : {"closed", "waiting", "confirm", "gate", "receipt", "error"},
          tab : Url \cup {None}, url : Url \cup {None}, moved : BOOLEAN,
          flow : FlowId \cup {None}]
Closed == [at |-> "closed", tab |-> None, url |-> None, moved |-> FALSE, flow |-> None]
Notice == [kind : {"none", "job", "gate", "error"}, url : Url \cup {None}, base : Base]
NoNotice == [kind |-> "none", url |-> None, base |-> DefaultBase]
NoticeOf(f, k) == [kind |-> k, url |-> flow[f].url, base |-> flow[f].base]
ErrorNotice == [NoNotice EXCEPT !.kind = "error"]

Init ==
    /\ base = DefaultBase /\ permitted = {DefaultBase} /\ cookies \in BOOLEAN /\ saves = 0
    /\ popup = Closed
    /\ flow = [f \in FlowId |-> NoFlow] /\ started = 0
    /\ seq = 0 /\ notice = [n \in NoteId |-> NoNotice]
    /\ links = Empty /\ retry = Empty
    /\ badge = "" /\ alarm = FALSE
    /\ faults = 0

--------------------------------------------------------------------------------
(* Helpers of the handlers *)

Fresh(f) == /\ flow[f] = NoFlow
            /\ started < MaxStarts /\ started' = started + 1
At(f, pc) == flow[f].pc = pc
End(f) == flow' = [flow EXCEPT ![f] = NoFlow]

\* setBadge: every text but "..." has an alarm that clears it.
ClearsLater_Running(text) == text = "..."
ClearsLater(text) == text # "..."
SetBadge(text) == /\ badge' = text
                  /\ alarm' = (alarm \/ ClearsLater(text))

NextNotificationId_Clock == 1
NextNotificationId == seq + 1

\* A notification without buttons, made in the step that ends the flow.
NotifyFailure(f) ==
    /\ seq' = NextNotificationId
    /\ notice' = [notice EXCEPT ![NextNotificationId] = ErrorNotice]
    /\ End(f)

\* The popup hears from the flow it waits for, if it is still open.
Reply(f, at) ==
    popup' = IF popup.flow = f
             THEN [popup EXCEPT !.at = at, !.flow = None, !.url = flow[f].url]
             ELSE popup

--------------------------------------------------------------------------------
(* The user and the browser *)

\* A tab that plays on, or is redirected, under the open popup.
Navigate(u) ==
    /\ popup.at # "closed" /\ u # popup.tab
    /\ popup' = [popup EXCEPT !.tab = u, !.moved = TRUE]
    /\ UNCHANGED <<started, options, flow, seq, notice, tables, toolbar, faults>>

\* saveOptions stores the base URL only after Chrome has granted its origin ...
SaveOptions(b) ==
    /\ saves < MaxSaves /\ b # base
    /\ base' = b /\ permitted' = permitted \cup {b} /\ saves' = saves + 1
    /\ UNCHANGED <<started, cookies, popup, flow, seq, notice, tables, toolbar, faults>>

\* ... but chrome.storage.sync can bring one from another device.
SyncOptions(b) ==
    /\ saves < MaxSaves /\ b # base
    /\ base' = b /\ saves' = saves + 1
    /\ UNCHANGED <<started, permitted, cookies, popup, flow, seq, notice, tables, toolbar, faults>>

ToggleYoutubeCookies ==
    /\ saves < MaxSaves
    /\ cookies' = ~cookies /\ saves' = saves + 1
    /\ UNCHANGED <<started, base, permitted, popup, flow, seq, notice, tables, toolbar, faults>>

ClosePopup ==
    /\ popup.at # "closed"
    /\ popup' = Closed
    /\ UNCHANGED <<started, options, flow, seq, notice, tables, toolbar, faults>>

DismissNotice(n) ==
    /\ notice[n].kind \in {"job", "gate"}       \* nothing depends on the others
    /\ notice' = [notice EXCEPT ![n] = NoNotice]
    /\ UNCHANGED <<started, options, popup, flow, seq, tables, toolbar, faults>>

ClearBadge ==
    /\ alarm
    /\ badge' = "" /\ alarm' = FALSE
    /\ UNCHANGED <<started, options, popup, flow, seq, notice, tables, faults>>

\* Chrome stops the worker: its flows are gone, and the popup's message has no answer.
KillWorker ==
    /\ faults < MaxFaults
    /\ faults' = faults + 1
    /\ flow' = [f \in FlowId |-> NoFlow]
    /\ popup' = IF popup.flow = None THEN popup ELSE [popup EXCEPT !.at = "error", !.flow = None]
    /\ UNCHANGED <<started, options, seq, notice, tables, toolbar>>

--------------------------------------------------------------------------------
(* Submitting *)

ContextMenu(f, u) ==
    /\ Fresh(f)
    /\ IF Verdict[u] = "local"
       THEN /\ seq' = NextNotificationId
            /\ notice' = [notice EXCEPT ![NextNotificationId] = ErrorNotice]
            /\ UNCHANGED flow
       ELSE /\ flow' = [flow EXCEPT ![f] = [NoFlow EXCEPT !.pc = "preflight", !.url = u,
                                                          !.shown = u]]
            /\ UNCHANGED <<seq, notice>>
    /\ UNCHANGED <<options, popup, tables, toolbar, faults>>

\* submitActiveTab reads the tab when it runs: the popup may be about an older page.
SkipsPreflight(kind) == kind \in {"force", "bare"}

SubmitActiveTab(f, kind, u, moved) ==
    /\ Fresh(f)
    /\ IF Verdict[u] = "local" \/ base \notin permitted
       THEN /\ popup' = [Closed EXCEPT !.at = "error", !.tab = u, !.moved = moved]
            /\ UNCHANGED <<flow, toolbar>>
       ELSE /\ popup' = [popup EXCEPT !.at = "waiting", !.tab = u, !.flow = f]
            /\ flow' = [flow EXCEPT ![f] = [NoFlow EXCEPT
                   !.kind = kind, !.url = u, !.base = base, !.moved = moved,
                   !.shown = IF kind = "check" THEN u ELSE popup.url,
                   !.pc = IF SkipsPreflight(kind) THEN "post" ELSE "preflight"]]
            /\ IF SkipsPreflight(kind) THEN SetBadge("...") ELSE UNCHANGED toolbar
    /\ UNCHANGED <<options, seq, notice, tables, faults>>

OpenPopup(f, u) == popup.at = "closed" /\ SubmitActiveTab(f, "check", u, FALSE)
SubmitAnyway(f) ==
    popup.at = "confirm" /\ SubmitActiveTab(f, "force", popup.tab, popup.moved)
RetryWithoutCookies(f) ==
    popup.at = "gate" /\ SubmitActiveTab(f, "bare", popup.tab, popup.moved)

\* fetchPreflight answers with the verdict, or with null (timeout, error, not 2xx).
AutoSubmits_Any(verdict) == verdict # "refuse"
AutoSubmits(verdict) == verdict = "submit"

Preflight(f) ==
    /\ At(f, "preflight")
    /\ \E answer \in {None, Verdict[flow[f].url]} :
        LET goes == IF flow[f].kind = "menu" THEN answer = None \/ AutoSubmits(answer)
                    ELSE AutoSubmits(answer)
        IN CASE goes /\ flow[f].kind = "menu" ->
                  /\ flow' = [flow EXCEPT ![f].pc = "config", ![f].answer = answer]
                  /\ SetBadge("...") /\ UNCHANGED <<popup, seq, notice>>
             [] goes /\ flow[f].kind # "menu" ->
                  /\ flow' = [flow EXCEPT ![f].pc = "post", ![f].answer = answer]
                  /\ SetBadge("...") /\ UNCHANGED <<popup, seq, notice>>
             [] ~goes /\ flow[f].kind = "menu" ->
                  /\ NotifyFailure(f) /\ UNCHANGED <<popup, toolbar>>
             [] OTHER ->
                  /\ Reply(f, IF answer \in {None, "confirm"} THEN "confirm" ELSE "error")
                  /\ End(f) /\ UNCHANGED <<seq, notice, toolbar>>
    /\ UNCHANGED <<started, options, tables, faults>>

\* submitToScribe reads the options again and asks whether Chrome grants the origin.
GetConfig(f) ==
    /\ At(f, "config")
    /\ IF base \in permitted
       THEN /\ flow' = [flow EXCEPT ![f].pc = "post", ![f].base = base]
            /\ UNCHANGED <<seq, notice, toolbar>>
       ELSE NotifyFailure(f) /\ SetBadge("ERR")
    /\ UNCHANGED <<started, options, popup, tables, faults>>

\* What POST /jobs can come to: accepted; a job without an id in the answer, or an
\* answer that is lost; rejected; or the cookie gate, when cookies were attached.
Attaches(f) == flow[f].kind \in WithCookies /\ flow[f].url \in Youtube /\ cookies
Outcome(f) == {"accepted", "unanswered", "rejected"} \cup (IF Attaches(f) THEN {"gate"} ELSE {})

CreateJob(f) ==
    /\ At(f, "post")
    /\ \E out \in Outcome(f) :
        IF flow[f].kind \in Popups
        THEN /\ End(f)
             /\ Reply(f, CASE out = "accepted" -> "receipt"
                           [] out = "gate" -> "gate"
                           [] OTHER -> "error")
             /\ SetBadge(IF out = "accepted" THEN "OK" ELSE "ERR")
             /\ UNCHANGED <<seq, notice>>
        ELSE /\ UNCHANGED popup
             /\ IF out \in {"accepted", "gate"}
                THEN /\ flow' = [flow EXCEPT
                            ![f].pc = IF out = "gate" THEN "gateRead" ELSE "linkRead"]
                     /\ UNCHANGED <<seq, notice, toolbar>>
                ELSE NotifyFailure(f) /\ SetBadge("ERR")
    /\ UNCHANGED <<started, options, tables, faults>>

--------------------------------------------------------------------------------
(* The two tables of notifications *)

\* notifySuccess and notifyFailure draw the id, then wait for the table.
ReadTable(f) ==
    /\ flow[f].pc \in {"linkRead", "gateRead"}
    /\ seq' = NextNotificationId
    /\ flow' = [flow EXCEPT ![f].note = NextNotificationId,
                            ![f].pc = IF At(f, "linkRead") THEN "linkWrite" ELSE "gateWrite",
                            ![f].snap = IF At(f, "linkRead") THEN links ELSE retry]
    /\ UNCHANGED <<started, options, popup, notice, tables, toolbar, faults>>

\* links[notificationId] = jobUrl, on the copy that was read.
WithEntry_Alone(table, n, value) == [Empty EXCEPT ![n] = value]
WithEntry(table, n, value) == [table EXCEPT ![n] = value]
JobUrl_Page(f) == flow[f].url
JobUrl(f) == [base |-> flow[f].base, url |-> flow[f].url]

WriteLink(f) ==
    /\ At(f, "linkWrite")
    /\ links' = WithEntry(flow[f].snap, flow[f].note, JobUrl(f))
    /\ notice' = [notice EXCEPT ![flow[f].note] = NoticeOf(f, "job")]
    /\ End(f) /\ SetBadge("OK")
    /\ UNCHANGED <<started, options, popup, seq, retry, faults>>

WriteRetryUrl(f) ==
    /\ At(f, "gateWrite")
    /\ retry' = WithEntry(flow[f].snap, flow[f].note, flow[f].url)
    /\ notice' = [notice EXCEPT ![flow[f].note] = NoticeOf(f, "gate")]
    /\ End(f) /\ SetBadge("ERR")
    /\ UNCHANGED <<started, options, popup, seq, links, faults>>

\* A storage write fails.  The link's failure is caught and told as a failed submit; the
\* retry URL's escapes from the catch block: no notification, and the badge stays.
WriteFails(f) ==
    /\ faults < MaxFaults /\ faults' = faults + 1
    /\ \/ At(f, "linkWrite") /\ NotifyFailure(f) /\ SetBadge("ERR")
       \/ At(f, "gateWrite") /\ End(f) /\ UNCHANGED <<seq, notice, toolbar>>
    /\ UNCHANGED <<started, options, popup, tables>>

\* A click reads the table first; the copy waits while the tab opens, or for the write.
ClickNotice(f, n) ==
    /\ Fresh(f)
    /\ notice[n] # NoNotice /\ links[n] # None
    /\ flow' = [flow EXCEPT ![f] = [NoFlow EXCEPT !.kind = "open", !.pc = "openWrite",
                                                  !.note = n, !.snap = links]]
    /\ UNCHANGED <<options, popup, seq, notice, tables, toolbar, faults>>

RemoveLink(f) ==
    /\ At(f, "openWrite")
    /\ links' = WithEntry(flow[f].snap, flow[f].note, None)
    /\ notice' = [notice EXCEPT ![flow[f].note] = NoNotice]
    /\ End(f)
    /\ UNCHANGED <<started, options, popup, seq, retry, toolbar, faults>>

ClickRetry(f, n) ==
    /\ Fresh(f)
    /\ notice[n].kind = "gate" /\ retry[n] # None
    /\ flow' = [flow EXCEPT ![f] = [NoFlow EXCEPT !.kind = "retry", !.pc = "retryWrite",
                    !.url = retry[n], !.shown = retry[n], !.note = n, !.snap = retry]]
    /\ UNCHANGED <<options, popup, seq, notice, tables, toolbar, faults>>

\* The entry is gone before the URL is submitted again.
RemoveRetryUrl(f) ==
    /\ At(f, "retryWrite")
    /\ retry' = WithEntry(flow[f].snap, flow[f].note, None)
    /\ notice' = [notice EXCEPT ![flow[f].note] = NoNotice]
    /\ flow' = [flow EXCEPT ![f].pc = "config", ![f].note = 0, ![f].snap = Empty]
    /\ SetBadge("...")
    /\ UNCHANGED <<started, options, popup, seq, links, faults>>

--------------------------------------------------------------------------------

WorkerStep(f) ==
    \/ Preflight(f) \/ GetConfig(f) \/ CreateJob(f) \/ ReadTable(f)
    \/ WriteLink(f) \/ WriteRetryUrl(f) \/ RemoveLink(f) \/ RemoveRetryUrl(f)

UserStep ==
    \/ \E u \in Url : Navigate(u)
    \/ \E b \in Base : SaveOptions(b) \/ SyncOptions(b)
    \/ ToggleYoutubeCookies
    \/ ClosePopup
    \/ \E n \in NoteId : DismissNotice(n)
    \/ \E f \in FlowId : \/ SubmitAnyway(f) \/ RetryWithoutCookies(f)
                         \/ \E u \in Url : OpenPopup(f, u) \/ ContextMenu(f, u)
                         \/ \E n \in NoteId : ClickNotice(f, n) \/ ClickRetry(f, n)

Next ==
    \/ UserStep
    \/ \E f \in FlowId : WorkerStep(f) \/ WriteFails(f)
    \/ ClearBadge
    \/ KillWorker

Spec == Init /\ [][Next]_vars

--------------------------------------------------------------------------------
(* Properties *)

TypeOK ==
    /\ base \in Base /\ permitted \subseteq Base
    /\ cookies \in BOOLEAN /\ saves \in 0 .. MaxSaves
    /\ popup \in Popup /\ flow \in [FlowId -> Flow]
    /\ started \in 0 .. MaxStarts /\ seq \in 0 .. (MaxStarts + MaxFaults) /\ notice \in [NoteId -> Notice]
    /\ links \in LinkTable /\ retry \in RetryTable
    /\ badge \in {"", "...", "OK", "ERR"} /\ alarm \in BOOLEAN
    /\ faults \in 0 .. MaxFaults

\* Two submits that end at once keep their own notifications: a notification on the
\* screen never turns into another one (nextNotificationId, #406).
NoticeNotReplaced ==
    [][\A n \in NoteId : notice[n] # NoNotice => notice'[n] \in {notice[n], NoNotice}]_vars

\* What a notification offers is the entry under its id: the job's link at the service that
\* has the job, or the URL to submit again without cookies.
Offers(n) == notice[n].kind \in {"job", "gate"}
Works(n) == IF notice[n].kind = "job"
            THEN links[n] = [base |-> notice[n].base, url |-> notice[n].url]
            ELSE retry[n] = notice[n].url
Missing(n) == IF notice[n].kind = "job" THEN links[n] = None ELSE retry[n] = None

\* A handler writes back, for another notification, the copy of the table that it read
\* before entry n was there.
Writing(n) == IF notice[n].kind = "job" THEN {"linkWrite", "openWrite"} ELSE {"gateWrite", "retryWrite"}
Overwritten(n) == \E f \in FlowId : /\ flow[f].pc \in Writing(n) /\ flow'[f].pc # flow[f].pc
                                    /\ flow[f].note # n /\ flow[f].snap[n] = None

\* The offer on a notification is its own and lasts: no step gives it the URL or the service
\* of another submit, and only a handler that had read the table before the entry was
\* written can drop it; handlers that come later, clicks on other notifications and a
\* worker that is stopped cannot (notifySuccess, notifyFailure, the two onClicked).
OfferLostOnlyToRace ==
    [][\A n \in NoteId : Offers(n)' =>
           \/ Works(n)'
           \/ Missing(n)' /\ (Overwritten(n) \/ (Offers(n) /\ Missing(n)))]_vars

\* service_worker.js:20: of "two context-menu submits racing the cookie gate" neither drops
\* the other's "stored retry URL": a gate notification on the screen has its URL.
RacingRetriesKept == \A n \in NoteId : notice[n].kind = "gate" => Works(n)

\* No blind submits: what is about to be posted is a single video, or was confirmed by
\* the user for that very page (in the popup, or by a right click that preflight could
\* not judge).  A tab that navigates under the open popup is the exception.
NoBlindSubmit ==
    \A f \in FlowId : At(f, "post") =>
        /\ flow[f].url = flow[f].shown \/ flow[f].moved
        /\ \/ Verdict[flow[f].url] = "submit"
           \/ flow[f].kind = "menu" /\ flow[f].answer = None
           \/ flow[f].kind \in {"force", "bare", "retry"}

\* A badge is never left behind: whatever the toolbar shows, an alarm or the handler that
\* set it will clear it, unless the worker died or storage failed.
BadgeIsTended ==
    badge # "" => \/ alarm \/ faults > 0
                  \/ badge = "..." /\ \E f \in FlowId : flow[f].pc \notin
                                           {"unused", "preflight", "openWrite", "retryWrite"}

=============================================================================
