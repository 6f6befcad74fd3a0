------------------------------- MODULE PollLoop -------------------------------
(***************************************************************************)
(* How the web app keeps what it shows fresh: createPollLoop, used twice   *)
(* by useScribeRuntime -- for the core (library, active jobs, and the      *)
(* extras: failures, ops, config) and for the transcript of the route --   *)
(* next to refreshes by hand and the one after a sign-in.                  *)
(*                                                                         *)
(* A fetch of the core is answered in two steps: library and jobs, whose   *)
(* failure fails the refresh, then the extras, whose failure -- an abort   *)
(* included -- is caught each on its own and leaves them blank.            *)
(***************************************************************************)
EXTENDS Naturals

CONSTANTS
    Transcript,     \* transcripts a route can name
    NoTranscript,
    MaxVersion,     \* changes of the server's data
    MaxFetchFaults  \* answers that fail

ASSUME PollAssumption ==
    /\ NoTranscript \notin Transcript
    /\ MaxVersion \in Nat /\ MaxFetchFaults \in Nat

VARIABLES
    tab,        \* visible or hidden
    auth,       \* bootstrap ready, signed in, and wasSignedIn
    version,    \* of the server's library and jobs
    loop,       \* the two loops: on, running, timer set
    fetch,      \* the core's fetches: of its loop, of a loop stopped, by hand, after sign-in
    core,       \* what the page has: version, extras there, error
    want,       \* transcript of the route
    got,        \* transcript the page has
    reading,    \* transcripts being fetched: by the loop, and by loops stopped since
    fetchFaults

pollVars == <<tab, auth, version, loop, fetch, core, want, got, reading, fetchFaults>>

Loops == {"core", "transcript"}
Fetcher == {"loop", "stopped", "manual", "signin"}
LoopState == [on : BOOLEAN, running : BOOLEAN, timer : BOOLEAN]
FetchState == [at : {"none", "sent", "half"}, v : 0 .. MaxVersion, aborted : BOOLEAN]
NoFetch == [at |-> "none", v |-> 0, aborted |-> FALSE]
Sent == [NoFetch EXCEPT !.at = "sent"]
Stopped == [on |-> FALSE, running |-> FALSE, timer |-> FALSE]

Visible == tab = "visible"

PollInit ==
    /\ tab \in {"visible", "hidden"}
    /\ auth = [ready |-> FALSE, signedIn |-> FALSE, was |-> FALSE]
    /\ version = 0
    /\ loop = [l \in Loops |-> Stopped]
    /\ fetch = [f \in Fetcher |-> NoFetch]
    /\ core = [v |-> 0, extras |-> FALSE, error |-> FALSE]
    /\ want = NoTranscript /\ got = NoTranscript
    /\ reading = [now |-> NoTranscript, aborted |-> {}]
    /\ fetchFaults = 0

--------------------------------------------------------------------------------
(* The loop *)

\* schedule: clears the timer, and sets it only while the tab is shown.
Schedule(s, visible) == [s EXCEPT !.timer = s.on /\ visible]

\* tick: starts nothing while stopped, running or hidden.
Starts(s, visible) == s.on /\ ~s.running /\ visible
Tick(s, visible) ==
    IF Starts(s, visible) THEN [s EXCEPT !.running = TRUE, !.timer = FALSE]
    ELSE Schedule(s, visible)

\* The promise of fn has settled: finally.
Settled_NoSchedule(s) == [s EXCEPT !.running = FALSE]
Settled(s) == Schedule([s EXCEPT !.running = FALSE], Visible)

NewLoop == Tick([Stopped EXCEPT !.on = TRUE], Visible)

Abort(x) == IF x.at = "none" THEN x ELSE [x EXCEPT !.aborted = TRUE]

\* Starting a loop, or one more tick of it, sends what it fetches.
SendsCore(s, t) == IF t.running /\ ~s.running THEN Sent ELSE fetch["loop"]

--------------------------------------------------------------------------------
(* The tab *)

\* onVisibilityChange: hidden clears the timer and aborts; shown ticks at once.
OnHide_KeepsTimer(s) == s
OnHide(s) == [s EXCEPT !.timer = FALSE]

Hide ==
    /\ Visible /\ tab' = "hidden"
    /\ loop' = [l \in Loops |-> OnHide(loop[l])]
    /\ fetch' = [fetch EXCEPT !["loop"] = Abort(@)]
    /\ reading' = [now |-> NoTranscript,
                   aborted |-> reading.aborted \cup ({reading.now} \ {NoTranscript})]
    /\ UNCHANGED <<auth, version, core, want, got, fetchFaults>>

\* An aborted request may still be settling: then the tick only sets the timer.
OnShow(s) == IF s.on THEN Tick(s, TRUE) ELSE s

Show ==
    /\ ~Visible /\ tab' = "visible"
    /\ loop' = [l \in Loops |-> OnShow(loop[l])]
    /\ fetch' = [fetch EXCEPT !["loop"] = SendsCore(loop["core"], loop'["core"])]
    /\ reading' = [reading EXCEPT !.now =
           IF loop'["transcript"].running /\ ~loop["transcript"].running THEN want ELSE @]
    /\ UNCHANGED <<auth, version, core, want, got, fetchFaults>>

--------------------------------------------------------------------------------
(* The core *)

\* usePoll's effect: enabled is the bootstrap's "ready"; its cleanup stops the loop.  The
\* refresh after a sign-in is aborted when ready or signedIn changes.
Session(a) ==
    LET wakes == a.ready /\ ~auth.was /\ a.signedIn
        started == a.ready /\ ~auth.ready
        stopped == ~a.ready /\ auth.ready
    IN /\ auth' = [a EXCEPT !.was = IF a.ready THEN a.signedIn ELSE auth.was]
       /\ loop' = [loop EXCEPT !["core"] = IF started THEN NewLoop
                                           ELSE IF stopped THEN Stopped ELSE @]
       /\ stopped => fetch["stopped"] = NoFetch       \* (bound: one loop left behind)
       /\ wakes => fetch["signin"] = NoFetch
       /\ fetch' = [f \in Fetcher |->
              CASE f = "loop" -> IF started /\ NewLoop.running THEN Sent
                                 ELSE IF stopped THEN NoFetch ELSE fetch[f]
                [] f = "stopped" -> IF stopped THEN Abort(fetch["loop"]) ELSE fetch[f]
                [] f = "signin" -> IF wakes THEN Sent ELSE Abort(fetch[f])
                [] OTHER -> fetch[f]]

BootstrapChanges ==
    /\ Session([auth EXCEPT !.ready = ~@])
    /\ UNCHANGED <<tab, version, core, want, got, reading, fetchFaults>>
SessionChanges ==
    /\ Session([auth EXCEPT !.signedIn = ~@])
    /\ UNCHANGED <<tab, version, core, want, got, reading, fetchFaults>>
\* Anything else of the context's value changes: refreshCore is a new function.
AuthRenders ==
    /\ Session(auth)
    /\ UNCHANGED <<tab, version, core, want, got, reading, fetchFaults>>

CoreTimer ==
    /\ loop["core"].timer
    /\ LET s == [loop["core"] EXCEPT !.timer = FALSE]
       IN /\ loop' = [loop EXCEPT !["core"] = Tick(s, Visible)]
          /\ fetch' = [fetch EXCEPT !["loop"] = SendsCore(s, loop'["core"])]
    /\ UNCHANGED <<tab, auth, version, core, want, got, reading, fetchFaults>>

\* "Poll now", "Refresh", and every retry, cancel and delete: never aborted.
RefreshByHand ==
    /\ auth.ready /\ fetch["manual"] = NoFetch
    /\ fetch' = [fetch EXCEPT !["manual"] = Sent]
    /\ UNCHANGED <<tab, auth, version, loop, core, want, got, reading, fetchFaults>>

CoreSettles(f) ==
    /\ fetch' = [fetch EXCEPT ![f] = NoFetch]
    /\ loop' = IF f = "loop" THEN [loop EXCEPT !["core"] = Settled(@)] ELSE loop

\* Library and jobs answer.
CoreAnswers(f) ==
    /\ fetch[f].at = "sent" /\ ~fetch[f].aborted
    /\ fetch' = [fetch EXCEPT ![f].at = "half", ![f].v = version]
    /\ UNCHANGED <<tab, auth, version, loop, core, want, got, reading, fetchFaults>>

\* One of them fails; only a fetch that was not aborted tells.
CoreFails(f) ==
    /\ fetch[f].at = "sent"
    /\ IF fetch[f].aborted THEN UNCHANGED <<core, fetchFaults>>
       ELSE /\ fetchFaults < MaxFetchFaults /\ fetchFaults' = fetchFaults + 1
            /\ core' = [core EXCEPT !.error = TRUE]
    /\ CoreSettles(f)
    /\ UNCHANGED <<tab, auth, version, want, got, reading>>

\* The extras are there or blank: setCore runs either way, after an abort too.
CoreApplies(f) ==
    /\ fetch[f].at = "half"
    /\ \E extras \in BOOLEAN :
        /\ fetch[f].aborted => ~extras
        /\ core' = [v |-> fetch[f].v, extras |-> extras, error |-> FALSE]
        /\ IF extras \/ fetch[f].aborted THEN UNCHANGED fetchFaults
           ELSE fetchFaults < MaxFetchFaults /\ fetchFaults' = fetchFaults + 1
    /\ CoreSettles(f)
    /\ UNCHANGED <<tab, auth, version, want, got, reading>>

ServerChanges ==
    /\ version < MaxVersion /\ version' = version + 1
    /\ UNCHANGED <<tab, auth, loop, fetch, core, want, got, reading, fetchFaults>>

--------------------------------------------------------------------------------
(* The transcript of the route *)

\* The effect's cleanup stops the old loop, whose request is aborted and settles later: for
\* another transcript, or for the same one when the context's value has changed.
OpenTranscript(t) ==
    /\ want' = t /\ got' = NoTranscript
    /\ loop' = [loop EXCEPT !["transcript"] = IF t = NoTranscript THEN Stopped ELSE NewLoop]
    /\ reading' = [now |-> IF loop'["transcript"].running THEN t ELSE NoTranscript,
                   aborted |-> reading.aborted \cup ({reading.now} \ {NoTranscript})]
    /\ UNCHANGED <<tab, auth, version, fetch, core, fetchFaults>>

TranscriptTimer ==
    /\ loop["transcript"].timer
    /\ loop' = [loop EXCEPT !["transcript"] = Tick([@ EXCEPT !.timer = FALSE], Visible)]
    /\ reading' = [reading EXCEPT !.now = IF loop'["transcript"].running THEN want ELSE @]
    /\ UNCHANGED <<tab, auth, version, fetch, core, want, got, fetchFaults>>

\* refreshTranscript writes unless its own signal is aborted.
MayWrite_Always(aborted) == TRUE
MayWrite(aborted) == ~aborted

TranscriptAnswers ==
    /\ reading.now # NoTranscript
    /\ \/ got' = (IF MayWrite(FALSE) THEN reading.now ELSE got) /\ UNCHANGED fetchFaults
       \/ /\ fetchFaults < MaxFetchFaults /\ fetchFaults' = fetchFaults + 1
          /\ UNCHANGED got
    /\ reading' = [reading EXCEPT !.now = NoTranscript]
    /\ loop' = [loop EXCEPT !["transcript"] = Settled(@)]
    /\ UNCHANGED <<tab, auth, version, fetch, core, want>>

\* An aborted request settles; if its loop is still the route's, that loop goes on.
AbortedSettles(t) ==
    /\ t \in reading.aborted
    /\ reading' = [reading EXCEPT !.aborted = @ \ {t}]
    /\ got' = IF MayWrite(TRUE) THEN t ELSE got
    /\ loop' = IF t = want /\ reading.now = NoTranscript
               THEN [loop EXCEPT !["transcript"] = Settled(@)] ELSE loop
    /\ UNCHANGED <<tab, auth, version, fetch, core, want, fetchFaults>>

--------------------------------------------------------------------------------

CoreMoves(f) == CoreAnswers(f) \/ CoreFails(f) \/ CoreApplies(f)

TabNext == Hide \/ Show
CoreNext ==
    \/ ServerChanges \/ BootstrapChanges \/ SessionChanges \/ AuthRenders
    \/ CoreTimer \/ RefreshByHand
    \/ \E f \in Fetcher : CoreMoves(f)
TranscriptNext ==
    \/ \E t \in Transcript \cup {NoTranscript} : OpenTranscript(t) \/ AbortedSettles(t)
    \/ TranscriptTimer \/ TranscriptAnswers
PollNext == TabNext \/ CoreNext \/ TranscriptNext

\* Timers fire and requests settle; nobody has to hide, show, sign in or navigate.
PollFair ==
    /\ WF_pollVars(CoreTimer) /\ WF_pollVars(TranscriptTimer)
    /\ \A f \in Fetcher : WF_pollVars(CoreMoves(f))
    /\ WF_pollVars(TranscriptAnswers)
    /\ \A t \in Transcript : WF_pollVars(AbortedSettles(t))
PollSpec == PollInit /\ [][PollNext]_pollVars /\ PollFair

--------------------------------------------------------------------------------
(* Properties *)

PollTypeOK ==
    /\ tab \in {"visible", "hidden"}
    /\ auth \in [ready : BOOLEAN, signedIn : BOOLEAN, was : BOOLEAN]
    /\ version \in 0 .. MaxVersion
    /\ loop \in [Loops -> LoopState]
    /\ fetch \in [Fetcher -> FetchState]
    /\ core \in [v : 0 .. MaxVersion, extras : BOOLEAN, error : BOOLEAN]
    /\ {want, got} \subseteq Transcript \cup {NoTranscript}
    /\ reading \in [now : Transcript \cup {NoTranscript}, aborted : SUBSET Transcript]
    /\ fetchFaults \in 0 .. MaxFetchFaults

\* While the tab is hidden no loop has a timer, and whatever a loop has in flight is
\* aborted (pollLoop.ts: "never schedules a tick while the tab is hidden").
HiddenIsQuiet ==
    ~Visible => /\ \A l \in Loops : ~loop[l].timer
                /\ fetch["loop"].at # "none" => fetch["loop"].aborted
                /\ reading.now = NoTranscript

\* A transcript on the page is the route's, whatever answers arrive late.
TranscriptIsRoutes == got \in {want, NoTranscript}

\* A page that stays in view catches up with the server -- the extras an abort blanked
\* included -- whatever was hidden, aborted, refreshed by hand or failed before.
CoreCatchesUp ==
    \A s \in BOOLEAN :
        <>[](Visible /\ auth.ready /\ auth.signedIn = s)
            => <>[](core = [v |-> version, extras |-> TRUE, error |-> FALSE])
=============================================================================
