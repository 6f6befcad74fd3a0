-------------------------------- MODULE Auth --------------------------------
(***************************************************************************)
(* AuthProvider of the web application: it fetches /api/auth/config, loads *)
(* Clerk when the service asks for it, follows Clerk's session, starts the *)
(* sign-in (the dialog, or a redirect to Clerk's portal) and wraps fetch.  *)
(* The gate of Loaders.tsx lies over the page while it does.               *)
(*                                                                         *)
(* An attempt is one run of the effect that loads the provider; a request  *)
(* is one protectedFetch, of the poll or of the page.  A behaviour is one  *)
(* life of the page; it may begin with what an earlier one left: a session *)
(* and a redirect intent.  The flag scribe.signInAttempted is left out:    *)
(* nothing reads what it decides.                                          *)
(***************************************************************************)
EXTENDS Naturals, FiniteSets

CONSTANTS
    Redirect,       \* calls of startRedirect that can be under way
    MaxAttempts,    \* how often the provider is loaded in one life of the page
    MaxFaults       \* failed requests, and scripts that fail or are blocked

ASSUME AuthAssumption == MaxAttempts \in Nat \ {0} /\ MaxFaults \in Nat

VARIABLES
    served,     \* what /api/auth/config says of this network
    tag,        \* the <script> of clerk-js in the document's head
    clerk,      \* window.Clerk
    session,    \* window.Clerk.session
    leaving,    \* "asked": signOut awaits Clerk; "late": it came back to a new session
    intent,     \* scribe.auth.redirect-intent of sessionStorage
    attempt,    \* the attempts of this life of the page
    auth,       \* the React state of AuthProvider
    redirect,   \* the calls of startRedirect
    timer,      \* the timeout that gives up on a redirect
    away,       \* document.hidden, and navigationStartedRef
    request,    \* the protectedFetch under way, of the poll and of the page
    faults      \* faults so far

vars == <<served, tag, clerk, session, leaving, intent, attempt, auth, redirect,
          timer, away, request, faults>>
browser == <<tag, clerk>>

AttemptPc == {"none", "config", "script", "fetching", "load", "done", "failed", "ended"}
Attempt == [pc : AttemptPc, aborted : BOOLEAN, listening : BOOLEAN,
            clean : BOOLEAN]      \* ghost: it has met no fault
NoAttempt == [pc |-> "none", aborted |-> FALSE, listening |-> FALSE, clean |-> TRUE]
FirstAttempt == [i \in 1 .. MaxAttempts |->
    IF i = 1 THEN [NoAttempt EXCEPT !.pc = "config"] ELSE NoAttempt]

AuthState == [config : {"none", "trusted", "open", "clerk"},
              bootstrap : {"config", "clerk", "ready", "error"},
              clerkReady : BOOLEAN, signedIn : BOOLEAN, unauthorized : BOOLEAN,
              authRequired : BOOLEAN, authBlocked : BOOLEAN, inFlight : BOOLEAN]
FreshAuth(fresh) == [config |-> "none", bootstrap |-> "config", clerkReady |-> FALSE,
    signedIn |-> FALSE, unauthorized |-> FALSE, authRequired |-> FALSE,
    authBlocked |-> FALSE, inFlight |-> fresh]

Caller == {"poll", "page"}
Request == [sent : BOOLEAN, required : BOOLEAN, trusted : BOOLEAN,
            token : BOOLEAN]
NoRequest == [sent |-> FALSE, required |-> FALSE, trusted |-> FALSE, token |-> FALSE]

Init ==
    /\ served \in {"trusted", "open", "clerk"}
    /\ session \in BOOLEAN /\ intent \in {"none", "fresh"}
    /\ leaving = "no"
    /\ tag = "absent" /\ clerk = "undefined"
    /\ attempt = FirstAttempt
    /\ auth = FreshAuth(intent = "fresh")
    /\ redirect = [r \in Redirect |-> "idle"]
    /\ timer = (intent = "fresh")
    /\ away = [hidden |-> FALSE, navigating |-> FALSE]
    /\ request = [c \in Caller |-> NoRequest]
    /\ faults = 0

Fault == faults < MaxFaults /\ faults' = faults + 1
Healthy == UNCHANGED faults

--------------------------------------------------------------------------------
(* Loading the provider *)

\* A handler's updates and its intent i, then the effect on [authRedirectInFlight,
\* signedIn]: a redirect in flight without a fresh intent is over at once, and one with it
\* has a timer.
Commit(a, i) ==
    LET changed == <<a.inFlight, a.signedIn>> # <<auth.inFlight, auth.signedIn>>
        waits == a.inFlight /\ ~a.signedIn
        over == changed /\ waits /\ i # "fresh"
    IN /\ auth' = IF over THEN [a EXCEPT !.inFlight = FALSE] ELSE a
       /\ timer' = IF changed THEN waits /\ ~over ELSE timer
       /\ intent' = IF over THEN "none" ELSE i

Current == CHOOSE i \in 1 .. MaxAttempts :
    /\ attempt[i].pc # "none"
    /\ \A j \in 1 .. MaxAttempts : j > i => attempt[j].pc = "none"

\* Cleanup of the effect and its next run: the old attempt goes on after its abort
\* wherever it does not wait for the fetch.
Restart ==
    LET n == Current + 1 IN
    /\ n <= MaxAttempts
    /\ attempt' = [attempt EXCEPT
           ![Current] = [@ EXCEPT !.aborted = TRUE, !.listening = FALSE],
           ![n].pc = "config"]
    /\ auth' = [auth EXCEPT !.config = "none", !.bootstrap = "config", !.clerkReady = FALSE,
                            !.authBlocked = FALSE]

\* The catch of loadAuth, which alone looks at the abort.
Fails(i, clean) ==
    IF attempt[i].aborted
    THEN /\ attempt' = [attempt EXCEPT ![i].pc = "ended"]
         /\ UNCHANGED <<auth, intent, timer>>
    ELSE /\ attempt' = [attempt EXCEPT ![i].pc = "failed", ![i].clean = @ /\ clean]
         /\ Commit([auth EXCEPT !.authBlocked = TRUE, !.bootstrap = "error",
                                !.inFlight = FALSE], "none")

ConfigAnswers(i) ==
    /\ attempt[i].pc = "config"
    /\ \/ attempt[i].aborted /\ Healthy /\ Fails(i, TRUE)
       \/ ~attempt[i].aborted /\ Fault /\ Fails(i, FALSE)
       \/ /\ ~attempt[i].aborted /\ Healthy
          /\ IF served = "clerk"
             THEN /\ attempt' = [attempt EXCEPT ![i].pc = "script"]
                  /\ auth' = [auth EXCEPT !.config = served, !.bootstrap = "clerk"]
             ELSE /\ attempt' = [attempt EXCEPT ![i].pc = "done"]
                  /\ auth' = [auth EXCEPT !.config = served, !.bootstrap = "ready",
                                          !.authRequired = FALSE]
          /\ UNCHANGED <<intent, timer>>
    /\ UNCHANGED <<served, browser, session, leaving, redirect, away, request>>

\* What appendScript does for clerk-js: a tag that is in the head already, whatever became
\* of its download, counts as loaded.
AppendScript(i) ==
    IF tag # "absent"
    THEN Fails(i, TRUE) /\ UNCHANGED tag      \* ... and window.Clerk is still undefined
    ELSE /\ tag' = "loading"
         /\ attempt' = [attempt EXCEPT ![i].pc = "fetching"]
         /\ UNCHANGED <<auth, intent, timer>>

LoadClerk(i) ==
    /\ attempt[i].pc = "script"
    /\ IF clerk = "undefined"
       THEN AppendScript(i)
       ELSE /\ attempt' = [attempt EXCEPT ![i].pc = "load"]
            /\ UNCHANGED <<tag, auth, intent, timer>>
    /\ UNCHANGED <<served, clerk, session, leaving, redirect, away, request, faults>>

ScriptSettles(i) ==
    /\ attempt[i].pc = "fetching"
    /\ Fault
    /\ tag' = "failed"
    /\ Fails(i, FALSE)
    /\ UNCHANGED <<served, clerk, session, leaving, redirect, away, request>>

ScriptLoads(i) ==
    /\ attempt[i].pc = "fetching"
    /\ tag' = "loaded" /\ clerk' = "script"
    /\ attempt' = [attempt EXCEPT ![i].pc = "load"]
    /\ UNCHANGED <<served, session, leaving, intent, auth, redirect, timer, away, request, faults>>

Synced_Loaded == [auth EXCEPT !.authBlocked = FALSE, !.clerkReady = TRUE, !.bootstrap = "loaded",
    !.signedIn = session, !.unauthorized = FALSE,
    !.authRequired = @ /\ ~session, !.inFlight = FALSE]
\* The page has just been told of a session, and errs no longer.
Noticed == IF leaving = "late" THEN "no" ELSE leaving
\* syncSignedIn and what follows it, up to the listener.
Synced == [auth EXCEPT !.authBlocked = FALSE, !.clerkReady = TRUE, !.bootstrap = "ready",
    !.signedIn = session, !.unauthorized = FALSE,
    !.authRequired = @ /\ ~session, !.inFlight = FALSE]

ClerkLoads(i) ==
    /\ attempt[i].pc = "load"
    /\ \/ Fault /\ Fails(i, FALSE) /\ UNCHANGED <<clerk, leaving>>
       \/ /\ Healthy
          /\ clerk' = "loaded" /\ leaving' = Noticed
          /\ attempt' = [attempt EXCEPT ![i].pc = "done", ![i].listening = TRUE]
          /\ Commit(Synced, "none")
    /\ UNCHANGED <<served, tag, session, redirect, away, request>>

--------------------------------------------------------------------------------
(* The gate and its buttons *)

GatePhase ==
    CASE auth.bootstrap \in {"error", "config", "clerk"} -> auth.bootstrap
      [] auth.config = "clerk" /\ ~auth.signedIn -> "signin"
      [] OTHER -> "ready"

\* Which buttons the gate shows.
GateOffers == CASE GatePhase = "signin" -> {"sign in"}
                [] GatePhase = "error" -> {"retry", "continue"}
                [] OTHER -> {}

RetryBootstrap ==
    /\ "retry" \in GateOffers
    /\ Restart
    /\ UNCHANGED <<served, browser, session, leaving, intent, redirect, timer, away, request, faults>>

ContinueOffline ==
    /\ "continue" \in GateOffers
    /\ auth' = [auth EXCEPT !.config = "open", !.bootstrap = "ready", !.authBlocked = FALSE,
                            !.authRequired = FALSE]
    /\ UNCHANGED <<served, browser, session, leaving, intent, attempt, redirect, timer, away, request, faults>>

\* Retry of the library's "Sign in required", which stays mounted under the gate.
RetryAuth ==
    /\ auth.authRequired
    /\ Restart
    /\ UNCHANGED <<served, browser, session, leaving, intent, redirect, timer, away, request, faults>>

--------------------------------------------------------------------------------
(* Signing in and out *)

\* The library offers it too, unless Clerk is still loading or a redirect is under way.
SignInOffered ==
    \/ "sign in" \in GateOffers
    \/ /\ auth.authRequired /\ ~auth.inFlight
       /\ auth.clerkReady \/ auth.authBlocked

\* Without Clerk, or with a redirect in flight, there is nothing to start; the dialog of
\* the UI bundle leaves the rest to the listener; else the browser is sent to the portal.
StartRedirect(r) ==
    /\ SignInOffered /\ redirect[r] = "idle"
    /\ \/ /\ clerk = "undefined"
          /\ Commit([auth EXCEPT !.authRequired = TRUE], intent)
          /\ UNCHANGED <<redirect, away>>
       \/ /\ clerk # "undefined" /\ ~auth.inFlight
          /\ Commit([auth EXCEPT !.authBlocked = FALSE], intent)
          /\ UNCHANGED <<redirect, away>>
       \/ /\ clerk # "undefined" /\ ~auth.inFlight
          /\ Commit([auth EXCEPT !.authBlocked = FALSE, !.inFlight = TRUE], "fresh")
          /\ away' = [away EXCEPT !.navigating = FALSE]
          /\ redirect' = [redirect EXCEPT ![r] = "calling"]
    /\ UNCHANGED <<served, browser, session, leaving, attempt, request, faults>>

\* redirectToSignIn returns, or throws; a page that is leaving keeps its redirect in flight.
GivesUp(r) ==
    /\ redirect' = [redirect EXCEPT ![r] = "idle"]
    /\ IF away.navigating \/ away.hidden
       THEN UNCHANGED <<auth, intent, timer>>
       ELSE Commit([auth EXCEPT !.authBlocked = TRUE, !.inFlight = FALSE], "none")

RedirectReturns(r) ==
    /\ redirect[r] = "calling"
    /\ \/ /\ redirect' = [redirect EXCEPT ![r] = "grace"]
          /\ UNCHANGED <<auth, intent, timer, faults>>
       \/ Fault /\ GivesUp(r)
    /\ UNCHANGED <<served, browser, session, leaving, attempt, away, request>>

GraceOver(r) ==
    /\ redirect[r] = "grace"
    /\ GivesUp(r)
    /\ UNCHANGED <<served, browser, session, leaving, attempt, away, request, faults>>

\* Ninety seconds after the click.
IntentExpires ==
    /\ intent = "fresh" /\ intent' = "stale"
    /\ UNCHANGED <<served, browser, session, leaving, attempt, auth, redirect, timer, away, request, faults>>

TimerClears_Visible == ~(clerk = "loaded" /\ session) /\ ~away.navigating
TimerClears == ~(clerk = "loaded" /\ session)
TimerFires ==
    /\ timer /\ intent # "fresh"
    /\ timer' = FALSE
    /\ IF TimerClears
       THEN intent' = "none" /\ auth' = [auth EXCEPT !.inFlight = FALSE]
       ELSE UNCHANGED <<intent, auth>>
    /\ UNCHANGED <<served, browser, session, leaving, attempt, redirect, away, request, faults>>

\* The listener that a finished attempt left with Clerk.
Listening == \E i \in 1 .. MaxAttempts : attempt[i].listening
Heard_Opened(s) == IF s THEN [auth EXCEPT !.signedIn = TRUE, !.unauthorized = FALSE,
                                          !.authRequired = FALSE, !.inFlight = FALSE]
                   ELSE auth
Heard(s) == IF s THEN [auth EXCEPT !.signedIn = TRUE, !.unauthorized = FALSE,
                                   !.authRequired = FALSE, !.inFlight = FALSE]
            ELSE [auth EXCEPT !.signedIn = FALSE]

SessionChanges(s) ==
    /\ session' = s
    /\ IF Listening
       THEN Commit(Heard(s), IF s THEN "none" ELSE intent)
       ELSE UNCHANGED <<auth, intent, timer>>

SessionOpens ==
    /\ clerk = "loaded" /\ ~session
    /\ SessionChanges(TRUE)
    /\ leaving' = Noticed
    /\ UNCHANGED <<served, browser, attempt, redirect, away, request, faults>>

SessionEnds ==
    /\ clerk = "loaded" /\ session
    /\ SessionChanges(FALSE)
    /\ UNCHANGED <<served, browser, leaving, attempt, redirect, away, request, faults>>

\* The button: Clerk ends the session, and its listener hears of it, before signOut goes on.
\* (Where Clerk fails nothing is changed.)
SignOut ==
    /\ auth.signedIn /\ clerk # "undefined" /\ leaving # "asked"
    /\ SessionChanges(FALSE)
    /\ leaving' = "asked"
    /\ UNCHANGED <<served, browser, attempt, redirect, away, request, faults>>

\* After the await, whatever became of the session meanwhile.
SignedOut ==
    /\ leaving = "asked"
    /\ Commit([auth EXCEPT !.signedIn = FALSE, !.unauthorized = FALSE, !.authRequired = FALSE],
              intent)
    /\ leaving' = IF session THEN "late" ELSE "no"
    /\ UNCHANGED <<served, browser, session, attempt, redirect, away, request, faults>>

--------------------------------------------------------------------------------
(* protectedFetch and maybeAutoSignIn *)

Trusted == auth.config = "trusted"
ShouldRequireSignIn == ~Trusted /\ ~auth.signedIn /\ auth.config \in {"none", "clerk"}
CanWrite == Trusted \/ (auth.signedIn /\ ~auth.unauthorized)

\* The caller keeps the context value of its render; the poll waits for the bootstrap.
StartRequest(c) ==
    /\ ~request[c].sent
    /\ c = "poll" => auth.bootstrap = "ready" /\ ~away.hidden
    /\ request' = [request EXCEPT ![c] =
           [sent |-> TRUE, required |-> ShouldRequireSignIn, trusted |-> Trusted,
            token |-> clerk = "loaded" /\ session]]
    /\ UNCHANGED <<served, browser, session, leaving, intent, attempt, auth, redirect, timer, away, faults>>

\* A page may ask for what only an administrator may see.
Statuses(c) ==
    LET known == request[c].token \/ served = "trusted" IN
    {IF known \/ served = "open" THEN "ok" ELSE "401"} \cup (IF c = "page" THEN {"403"} ELSE {})

Told_KeepsRequired(c, status) ==
    CASE status = "ok" -> [auth EXCEPT !.unauthorized = FALSE]
      [] OTHER -> [auth EXCEPT !.unauthorized = @ \/ status = "403",
                               !.authRequired = @ \/ request[c].required]
\* What the status tells the provider, and then maybeAutoSignIn of the same render.
Told(c, status) ==
    LET stillRequired == auth.authRequired /\ ~((clerk = "loaded" /\ session) \/ request[c].trusted)
    IN CASE status = "ok" -> [auth EXCEPT !.unauthorized = FALSE, !.authRequired = stillRequired]
         [] OTHER -> [auth EXCEPT !.unauthorized = @ \/ status = "403",
                                  !.authRequired = @ \/ request[c].required]

AnswerRequest(c) ==
    /\ request[c].sent
    /\ request' = [request EXCEPT ![c] = NoRequest]
    /\ \/ \E s \in Statuses(c) : auth' = Told(c, s) /\ Healthy
       \/ Fault /\ UNCHANGED auth
    /\ UNCHANGED <<served, browser, session, leaving, intent, attempt, redirect, timer, away>>

--------------------------------------------------------------------------------
(* The browser *)

\* Another tab, or a navigation that may still be undone.  (Hidden while no redirect is
\* under way, the page only polls less.)
Hide ==
    /\ ~away.hidden /\ \E r \in Redirect : redirect[r] # "idle"
    /\ away' = [hidden |-> TRUE, navigating |-> TRUE]
    /\ UNCHANGED <<served, browser, session, leaving, intent, attempt, auth, redirect, timer, request, faults>>
Show ==
    /\ away.hidden /\ away' = [away EXCEPT !.hidden = FALSE]
    /\ UNCHANGED <<served, browser, session, leaving, intent, attempt, auth, redirect, timer, request, faults>>

--------------------------------------------------------------------------------

AttemptStep(i) == \/ ConfigAnswers(i) \/ LoadClerk(i) \/ ScriptSettles(i) \/ ScriptLoads(i)
                  \/ ClerkLoads(i)
RedirectStep(r) == RedirectReturns(r) \/ GraceOver(r)

Next ==
    \/ \E i \in 1 .. MaxAttempts : AttemptStep(i)
    \/ RetryBootstrap \/ ContinueOffline \/ RetryAuth
    \/ \E r \in Redirect : StartRedirect(r) \/ RedirectStep(r)
    \/ IntentExpires \/ TimerFires
    \/ SessionOpens \/ SessionEnds \/ SignOut \/ SignedOut
    \/ \E c \in Caller : StartRequest(c) \/ AnswerRequest(c)
    \/ Hide \/ Show

\* Requests and scripts settle, timers fire, and the poll goes on while the page is shown.
Fairness ==
    /\ \A i \in 1 .. MaxAttempts : WF_vars(AttemptStep(i))
    /\ \A r \in Redirect : WF_vars(GraceOver(r))
    /\ WF_vars(IntentExpires) /\ WF_vars(TimerFires)
    /\ \A c \in Caller : WF_vars(AnswerRequest(c))
    /\ WF_vars(StartRequest("poll"))

Spec == Init /\ [][Next]_vars /\ Fairness

--------------------------------------------------------------------------------
(* Properties *)

TypeOK ==
    /\ served \in {"trusted", "open", "clerk"}
    /\ tag \in {"absent", "loading", "loaded", "failed"}
    /\ clerk \in {"undefined", "script", "loaded"} /\ session \in BOOLEAN
    /\ leaving \in {"no", "asked", "late"}
    /\ intent \in {"none", "fresh", "stale"}
    /\ attempt \in [1 .. MaxAttempts -> Attempt]
    /\ auth \in AuthState
    /\ redirect \in [Redirect -> {"idle", "calling", "grace"}]
    /\ timer \in BOOLEAN /\ away \in [hidden : BOOLEAN, navigating : BOOLEAN]
    /\ request \in [Caller -> Request]
    /\ faults \in 0 .. MaxFaults

\* Once Clerk is ready the page knows whether it has a session, over retries, attempts that
\* go on after their abort, and sessions that another tab opens or ends.  (signOut forgets a
\* session that was opened before Clerk answered it: the page then stays signed out.)
SignedInIsSession ==
    auth.clerkReady => auth.signedIn = session \/ (leaving = "late" /\ ~auth.signedIn)

\* A redirect does not stay in flight for ever, with its spinner and no way to start another:
\* also when the page was hidden at the wrong moment, or restored by "back".  (A page that
\* went on offline after a retry no longer listens, and may miss a session of another tab; and
\* the timer keeps a redirect while Clerk has a session that signOut has forgotten.)
RedirectSettles ==
    auth.inFlight ~> (\/ ~auth.inFlight \/ auth.signedIn \/ leaving = "late"
                      \/ clerk = "loaded" /\ ~auth.clerkReady)

\* A page that a late 401 told to sign in, when it had signed in already, is freed again by
\* the poll.
RequiredClears ==
    (auth.authRequired /\ auth.clerkReady /\ session) ~>
        (~auth.authRequired \/ ~auth.clerkReady \/ ~session \/ away.hidden
            \/ auth.bootstrap # "ready")

\* "Disable the blocker for this site, then retry": an attempt that meets no fault and no
\* blocker does not fail.
RetrySucceeds == \A i \in 1 .. MaxAttempts : attempt[i].pc = "failed" => ~attempt[i].clean

\* Signing in comes to an end: neither a spinner nor a stale demand to sign in stays.
SignInSettles == RedirectSettles /\ RequiredClears
=============================================================================
