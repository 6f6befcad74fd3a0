------------------------------ MODULE AuthProofs ------------------------------
(***************************************************************************)
(* Proofs about Auth for any number of redirects, attempts and faults.     *)
(* That the page knows its session rests on one fact: whenever Clerk is    *)
(* ready, some attempt has left its listener -- attempts that went on      *)
(* after their abort included.                                             *)
(***************************************************************************)
EXTENDS Auth, TLAPS

ReadyListens == auth.clerkReady => Listening
IInv == TypeOK /\ SignedInIsSession /\ ReadyListens

Attempts == [1 .. MaxAttempts -> Attempt]
Intent == {"none", "fresh", "stale"}

--------------------------------------------------------------------------------
(* Shapes of steps *)

\* The effect that follows a handler's updates takes back a redirect, and nothing else.
LEMMA CommitEffect ==
    ASSUME timer \in BOOLEAN, NEW a \in AuthState, NEW i \in Intent, Commit(a, i)
    PROVE  /\ auth' \in AuthState /\ timer' \in BOOLEAN /\ intent' \in Intent
           /\ auth'.clerkReady = a.clerkReady /\ auth'.signedIn = a.signedIn
<1>1. auth' \in {a, [a EXCEPT !.inFlight = FALSE]} /\ intent' \in {i, "none"}
    BY DEF Commit
<1>2. timer' \in BOOLEAN
    BY DEF Commit
<1> QED
    BY <1>1, <1>2 DEF AuthState, Intent

\* A step that leaves the session, the listeners and what the page says of them alone.
LEMMA Apart ==
    ASSUME IInv, session' = session, leaving' = leaving,
           auth'.clerkReady => /\ auth.clerkReady /\ auth'.signedIn = auth.signedIn
                               /\ \A j \in 1 .. MaxAttempts :
                                      attempt'[j].listening = attempt[j].listening
    PROVE  SignedInIsSession' /\ ReadyListens'
BY DEF IInv, SignedInIsSession, ReadyListens, Listening

LEMMA FaultTyped == TypeOK /\ (Fault \/ Healthy) => faults' \in 0 .. MaxFaults
BY AuthAssumption DEF TypeOK, Fault, Healthy

\* Moving one attempt to another place, with its listener as it was.
LEMMA AttemptMoves ==
    ASSUME TypeOK, NEW i \in 1 .. MaxAttempts, NEW pc \in AttemptPc,
           attempt' = [attempt EXCEPT ![i].pc = pc]
    PROVE  /\ attempt' \in Attempts
           /\ \A j \in 1 .. MaxAttempts : attempt'[j].listening = attempt[j].listening
BY DEF TypeOK, Attempts, Attempt

\* The same for an attempt that has now met, or not met, a fault.
LEMMA AttemptMovesOn ==
    ASSUME TypeOK, NEW i \in 1 .. MaxAttempts, NEW pc \in AttemptPc, NEW c \in BOOLEAN,
           attempt' = [attempt EXCEPT ![i].pc = pc, ![i].clean = c]
    PROVE  /\ attempt' \in Attempts
           /\ \A j \in 1 .. MaxAttempts : attempt'[j].listening = attempt[j].listening
<1> DEFINE a == [attempt[i] EXCEPT !.pc = pc, !.clean = c]
<1>1. attempt \in Attempts /\ attempt[i] \in Attempt
    BY DEF TypeOK, Attempts
<1>2. a \in Attempt /\ a.listening = attempt[i].listening
    BY <1>1 DEF Attempt
<1>3. attempt' = [attempt EXCEPT ![i] = a]
    BY <1>1 DEF Attempts
<1> HIDE DEF a
<1> QED
    BY <1>1, <1>2, <1>3 DEF Attempts

\* The catch of loadAuth.
LEMMA FailsEffect ==
    ASSUME TypeOK, NEW i \in 1 .. MaxAttempts, NEW clean \in BOOLEAN, Fails(i, clean)
    PROVE  /\ attempt' \in Attempts
           /\ auth' \in AuthState /\ timer' \in BOOLEAN /\ intent' \in Intent
           /\ auth'.clerkReady = auth.clerkReady /\ auth'.signedIn = auth.signedIn
           /\ \A j \in 1 .. MaxAttempts : attempt'[j].listening = attempt[j].listening
<1>1. CASE attempt[i].aborted
    <2>1. "ended" \in AttemptPc /\ attempt' = [attempt EXCEPT ![i].pc = "ended"]
        BY <1>1 DEF Fails, AttemptPc
    <2>2. /\ attempt' \in Attempts
          /\ \A j \in 1 .. MaxAttempts : attempt'[j].listening = attempt[j].listening
        BY <2>1, AttemptMoves
    <2> QED
        BY <1>1, <2>2 DEF Fails, TypeOK, Intent
<1>2. CASE ~attempt[i].aborted
    <2>1. [auth EXCEPT !.authBlocked = TRUE, !.bootstrap = "error", !.inFlight = FALSE] \in AuthState
        BY DEF TypeOK, AuthState
    <2>2. attempt' = [attempt EXCEPT ![i].pc = "failed", ![i].clean = @ /\ clean]
        BY <1>2 DEF Fails
    <2>3. /\ attempt' \in Attempts
          /\ \A j \in 1 .. MaxAttempts : attempt'[j].listening = attempt[j].listening
        <3> DEFINE c == attempt[i].clean /\ clean
        <3>1. c \in BOOLEAN
            BY Zenon
        <3>2. attempt' = [attempt EXCEPT ![i].pc = "failed", ![i].clean = c]
            BY <2>2
        <3> HIDE DEF c
        <3>3. "failed" \in AttemptPc
            BY DEF AttemptPc
        <3> QED
            BY <3>1, <3>2, <3>3, AttemptMovesOn
    <2> QED
        BY <1>2, <2>1, <2>3, CommitEffect DEF Fails, TypeOK, AuthState, Intent
<1> QED
    BY <1>1, <1>2

\* Cleanup and next run of the effect: Clerk is not ready any more.
LEMMA RestartEffect ==
    ASSUME TypeOK, Restart
    PROVE  attempt' \in Attempts /\ auth' \in AuthState /\ ~auth'.clerkReady
<1>1. auth' \in AuthState /\ ~auth'.clerkReady
    BY DEF Restart, TypeOK, AuthState
<1>2. attempt' \in Attempts
    <2> DEFINE n == Current + 1
               a1 == [attempt EXCEPT ![Current] = [@ EXCEPT !.aborted = TRUE, !.listening = FALSE]]
    <2>1. a1 \in Attempts
        BY DEF TypeOK, Attempts, Attempt
    <2>2. attempt' = [a1 EXCEPT ![n].pc = "config"]
        BY DEF Restart
    <2> HIDE DEF a1, n
    <2>3. "config" \in AttemptPc
        BY DEF AttemptPc
    <2> QED
        BY <2>1, <2>2, <2>3 DEF Attempts, Attempt
<1> QED
    BY <1>1, <1>2

--------------------------------------------------------------------------------

LEMMA InitIInv == Init => IInv
<1> SUFFICES ASSUME Init PROVE IInv
    OBVIOUS
<1>1. attempt \in Attempts
    BY DEF Init, FirstAttempt, NoAttempt, Attempts, Attempt, AttemptPc
<1>2. auth \in AuthState /\ ~auth.clerkReady
    BY DEF Init, FreshAuth, AuthState
<1>3. TypeOK
    BY <1>1, <1>2, AuthAssumption DEF Init, TypeOK, Attempts, Request, NoRequest
<1> QED
    BY <1>2, <1>3 DEF IInv, SignedInIsSession, ReadyListens

--------------------------------------------------------------------------------
(* Loading the provider *)

LEMMA ConfigAnswersKeeps ==
    ASSUME IInv, NEW i \in 1 .. MaxAttempts, ConfigAnswers(i) PROVE IInv'
<1>1. CASE \E clean \in BOOLEAN : Fails(i, clean) /\ (Fault \/ Healthy)
    BY <1>1, FailsEffect, Apart, FaultTyped DEF browser, ConfigAnswers, IInv, TypeOK, Attempts, Intent
<1>2. CASE /\ Healthy /\ UNCHANGED <<intent, timer>>
           /\ \/ /\ attempt' = [attempt EXCEPT ![i].pc = "script"]
                 /\ auth' = [auth EXCEPT !.config = served, !.bootstrap = "clerk"]
              \/ /\ attempt' = [attempt EXCEPT ![i].pc = "done"]
                 /\ auth' = [auth EXCEPT !.config = served, !.bootstrap = "ready",
                                         !.authRequired = FALSE]
    <2>1. /\ attempt' \in Attempts
          /\ \A j \in 1 .. MaxAttempts : attempt'[j].listening = attempt[j].listening
        <3>1. "script" \in AttemptPc /\ "done" \in AttemptPc
            BY DEF AttemptPc
        <3> QED
            BY <1>2, <3>1, AttemptMoves DEF IInv
    <2>2. /\ auth' \in AuthState
          /\ auth'.clerkReady = auth.clerkReady /\ auth'.signedIn = auth.signedIn
        BY <1>2 DEF IInv, TypeOK, AuthState
    <2>3. SignedInIsSession' /\ ReadyListens'
        BY <2>1, <2>2, Apart DEF ConfigAnswers
    <2> QED
        BY <1>2, <2>1, <2>2, <2>3 DEF browser, ConfigAnswers, Healthy, IInv, TypeOK, Attempts
<1> QED
    BY <1>1, <1>2 DEF ConfigAnswers

LEMMA LoadClerkKeeps ==
    ASSUME IInv, NEW i \in 1 .. MaxAttempts, LoadClerk(i) PROVE IInv'
<1>1. CASE Fails(i, TRUE) /\ UNCHANGED tag
    BY <1>1, FailsEffect, Apart DEF LoadClerk, IInv, TypeOK, Attempts, Intent
<1>2. CASE /\ \E pc \in {"fetching", "load"} : attempt' = [attempt EXCEPT ![i].pc = pc]
           /\ tag' \in {"loading", tag} /\ UNCHANGED <<auth, intent, timer>>
    <2>1. /\ attempt' \in Attempts
          /\ \A j \in 1 .. MaxAttempts : attempt'[j].listening = attempt[j].listening
        <3>1. "fetching" \in AttemptPc /\ "load" \in AttemptPc
            BY DEF AttemptPc
        <3> QED
            BY <1>2, <3>1, AttemptMoves DEF IInv
    <2>2. SignedInIsSession' /\ ReadyListens'
        BY <1>2, <2>1, Apart DEF LoadClerk
    <2> QED
        BY <1>2, <2>1, <2>2 DEF LoadClerk, IInv, TypeOK, Attempts
<1> QED
    BY <1>1, <1>2 DEF LoadClerk, AppendScript

LEMMA ScriptKeeps ==
    ASSUME IInv, NEW i \in 1 .. MaxAttempts, ScriptSettles(i) \/ ScriptLoads(i) PROVE IInv'
<1>1. CASE ScriptSettles(i)
    BY <1>1, FailsEffect, Apart, FaultTyped DEF ScriptSettles, IInv, TypeOK, Attempts, Intent
<1>2. CASE ScriptLoads(i)
    <2>1. /\ attempt' \in Attempts
          /\ \A j \in 1 .. MaxAttempts : attempt'[j].listening = attempt[j].listening
        BY <1>2, AttemptMoves DEF IInv, AttemptPc, ScriptLoads
    <2>2. SignedInIsSession' /\ ReadyListens'
        BY <1>2, <2>1, Apart DEF ScriptLoads
    <2> QED
        BY <1>2, <2>1, <2>2 DEF ScriptLoads, IInv, TypeOK, Attempts
<1> QED
    BY <1>1, <1>2

\* Clerk has loaded: the page reads the session, and the attempt listens from now on.
LEMMA ClerkLoadsKeeps ==
    ASSUME IInv, NEW i \in 1 .. MaxAttempts, ClerkLoads(i) PROVE IInv'
<1>1. CASE Fault /\ Fails(i, FALSE) /\ UNCHANGED <<clerk, leaving>>
    <2>1. /\ attempt' \in Attempts
          /\ auth' \in AuthState /\ timer' \in BOOLEAN /\ intent' \in Intent
          /\ auth'.clerkReady = auth.clerkReady /\ auth'.signedIn = auth.signedIn
          /\ \A j \in 1 .. MaxAttempts : attempt'[j].listening = attempt[j].listening
        BY <1>1, FailsEffect DEF IInv
    <2>2. UNCHANGED <<session, leaving, clerk, served, tag, redirect, away, request>>
        BY <1>1 DEF ClerkLoads
    <2>3. SignedInIsSession' /\ ReadyListens'
        BY <2>1, <2>2, Apart
    <2>4. faults' \in 0 .. MaxFaults
        BY <1>1, FaultTyped DEF IInv
    <2> QED
        BY <2>1, <2>2, <2>3, <2>4 DEF IInv, TypeOK, Attempts, Intent
<1>2. CASE /\ Healthy /\ clerk' = "loaded" /\ leaving' = Noticed
           /\ attempt' = [attempt EXCEPT ![i].pc = "done", ![i].listening = TRUE]
           /\ Commit(Synced, "none")
    <2>1. attempt' \in Attempts /\ attempt'[i].listening
        BY <1>2 DEF IInv, TypeOK, Attempts, Attempt, AttemptPc
    <2>2. Synced \in AuthState /\ Synced.signedIn = session
        BY DEF Synced, IInv, TypeOK, AuthState
    <2>3. /\ auth' \in AuthState /\ timer' \in BOOLEAN /\ intent' \in Intent
          /\ auth'.signedIn = session
        BY <1>2, <2>2, CommitEffect DEF IInv, TypeOK, Intent
    <2>4. SignedInIsSession' /\ ReadyListens'
        BY <2>1, <2>3 DEF ClerkLoads, SignedInIsSession, ReadyListens, Listening
    <2>5. leaving' \in {"no", "asked", "late"}
        BY <1>2 DEF Noticed, IInv, TypeOK
    <2> QED
        BY <1>2, <2>1, <2>3, <2>4, <2>5 DEF ClerkLoads, Healthy, IInv, TypeOK, Attempts, Intent
<1> QED
    BY <1>1, <1>2 DEF ClerkLoads

--------------------------------------------------------------------------------
(* The gate, signing in and out *)

LEMMA GateKeeps == IInv /\ (RetryBootstrap \/ ContinueOffline \/ RetryAuth) => IInv'
<1> SUFFICES ASSUME IInv, RetryBootstrap \/ ContinueOffline \/ RetryAuth PROVE IInv'
    OBVIOUS
<1>1. CASE RetryBootstrap \/ RetryAuth
    BY <1>1, RestartEffect, Apart DEF browser, RetryBootstrap, RetryAuth, IInv, TypeOK, Attempts
<1>2. CASE ContinueOffline
    <2>1. /\ auth' \in AuthState
          /\ auth'.clerkReady = auth.clerkReady /\ auth'.signedIn = auth.signedIn
        BY <1>2 DEF ContinueOffline, IInv, TypeOK, AuthState
    <2> QED
        BY <1>2, <2>1, Apart DEF browser, ContinueOffline, IInv, TypeOK
<1> QED
    BY <1>1, <1>2

LEMMA StartRedirectKeeps ==
    ASSUME IInv, NEW r \in Redirect, StartRedirect(r) PROVE IInv'
<1>1. \A a \in {[auth EXCEPT !.authRequired = TRUE], [auth EXCEPT !.authBlocked = FALSE],
                [auth EXCEPT !.authBlocked = FALSE, !.inFlight = TRUE]} :
          a \in AuthState /\ a.clerkReady = auth.clerkReady /\ a.signedIn = auth.signedIn
    BY DEF IInv, TypeOK, AuthState
<1>2. /\ auth' \in AuthState /\ timer' \in BOOLEAN /\ intent' \in Intent
      /\ auth'.clerkReady = auth.clerkReady /\ auth'.signedIn = auth.signedIn
    BY <1>1, CommitEffect DEF browser, StartRedirect, IInv, TypeOK, Intent
<1>3. /\ redirect' \in [Redirect -> {"idle", "calling", "grace"}]
      /\ away' \in [hidden : BOOLEAN, navigating : BOOLEAN]
    BY DEF StartRedirect, IInv, TypeOK
<1>4. SignedInIsSession' /\ ReadyListens'
    BY <1>2, Apart DEF StartRedirect
<1> QED
    BY <1>2, <1>3, <1>4 DEF browser, StartRedirect, IInv, TypeOK, Intent

LEMMA GivesUpEffect ==
    ASSUME TypeOK, NEW r \in Redirect, GivesUp(r)
    PROVE  /\ redirect' \in [Redirect -> {"idle", "calling", "grace"}]
           /\ auth' \in AuthState /\ timer' \in BOOLEAN /\ intent' \in Intent
           /\ auth'.clerkReady = auth.clerkReady /\ auth'.signedIn = auth.signedIn
<1>1. [auth EXCEPT !.authBlocked = TRUE, !.inFlight = FALSE] \in AuthState
    BY DEF TypeOK, AuthState
<1> QED
    BY <1>1, CommitEffect DEF GivesUp, TypeOK, AuthState, Intent

LEMMA RedirectKeeps ==
    ASSUME IInv, NEW r \in Redirect, RedirectStep(r) PROVE IInv'
<1>1. CASE GivesUp(r) /\ (Fault \/ Healthy)
    BY <1>1, GivesUpEffect, Apart, FaultTyped
    DEF browser, RedirectStep, RedirectReturns, GraceOver, IInv, TypeOK, Intent
<1>2. CASE redirect' = [redirect EXCEPT ![r] = "grace"] /\ UNCHANGED <<auth, intent, timer, faults>>
    <2>1. redirect[r] \in {"calling", "grace"} /\ UNCHANGED <<session, leaving, attempt, away>>
        BY DEF RedirectStep, RedirectReturns, GraceOver
    <2>2. SignedInIsSession' /\ ReadyListens'
        BY <1>2, <2>1, Apart
    <2> QED
        BY <1>2, <2>1, <2>2 DEF browser, RedirectStep, RedirectReturns, GraceOver, IInv, TypeOK
<1> QED
    BY <1>1, <1>2 DEF RedirectStep, RedirectReturns, GraceOver, Healthy

LEMMA TimesKeep == IInv /\ (IntentExpires \/ TimerFires \/ Hide \/ Show) => IInv'
<1> SUFFICES ASSUME IInv, IntentExpires \/ TimerFires \/ Hide \/ Show PROVE IInv'
    OBVIOUS
<1>1. /\ auth' \in AuthState
      /\ auth'.clerkReady = auth.clerkReady /\ auth'.signedIn = auth.signedIn
    BY DEF IntentExpires, TimerFires, Hide, Show, IInv, TypeOK, AuthState
<1>2. SignedInIsSession' /\ ReadyListens'
    BY <1>1, Apart DEF IntentExpires, TimerFires, Hide, Show
<1>3. away' \in [hidden : BOOLEAN, navigating : BOOLEAN]
    <2>1. away' \in {away, [hidden |-> TRUE, navigating |-> TRUE], [away EXCEPT !.hidden = FALSE]}
        BY DEF IntentExpires, TimerFires, Hide, Show
    <2>2. /\ away \in [hidden : BOOLEAN, navigating : BOOLEAN]
          /\ [hidden |-> TRUE, navigating |-> TRUE] \in [hidden : BOOLEAN, navigating : BOOLEAN]
        BY DEF IInv, TypeOK
    <2>3. [away EXCEPT !.hidden = FALSE] \in [hidden : BOOLEAN, navigating : BOOLEAN]
        BY <2>2
    <2> QED
        BY <2>1, <2>2, <2>3
<1>4. /\ intent' \in Intent /\ timer' \in BOOLEAN
      /\ UNCHANGED <<served, browser, session, leaving, attempt, redirect, request, faults>>
    BY DEF IntentExpires, TimerFires, Hide, Show, IInv, TypeOK, Intent
<1> QED
    BY <1>1, <1>2, <1>3, <1>4 DEF browser, IInv, TypeOK, Intent

\* With a listener the page hears of the session; without one Clerk is not ready.
LEMMA SessionKeeps == IInv /\ (SessionOpens \/ SessionEnds \/ SignOut) => IInv'
<1> SUFFICES ASSUME IInv, SessionOpens \/ SessionEnds \/ SignOut PROVE IInv'
    OBVIOUS
<1> PICK s \in BOOLEAN : SessionChanges(s)
    BY DEF SessionOpens, SessionEnds, SignOut
<1>1. Heard(s) \in AuthState /\ Heard(s).signedIn = s
    BY DEF Heard, IInv, TypeOK, AuthState
<1>2. /\ auth' \in AuthState /\ timer' \in BOOLEAN /\ intent' \in Intent
      /\ Listening => auth'.signedIn = s
      /\ ~Listening => auth' = auth
    BY <1>1, CommitEffect DEF SessionChanges, IInv, TypeOK, Intent
<1>3. attempt' = attempt /\ session' = s
    BY DEF SessionOpens, SessionEnds, SignOut, SessionChanges
<1>4. Listening => SignedInIsSession' /\ ReadyListens'
    BY <1>2, <1>3 DEF SignedInIsSession, ReadyListens, Listening
<1>5. ~Listening => SignedInIsSession' /\ ReadyListens'
    BY <1>2, <1>3 DEF IInv, SignedInIsSession, ReadyListens, Listening
<1>6. leaving' \in {"no", "asked", "late"}
    BY DEF SessionOpens, SessionEnds, SignOut, Noticed, IInv, TypeOK
<1> QED
    BY <1>2, <1>3, <1>4, <1>5, <1>6
    DEF browser, SessionOpens, SessionEnds, SignOut, IInv, TypeOK, Intent

\* signOut goes on: the page is signed out, and remembers whether that is so.
LEMMA SignedOutKeeps == IInv /\ SignedOut => IInv'
<1> SUFFICES ASSUME IInv, SignedOut PROVE IInv'
    OBVIOUS
<1> DEFINE a == [auth EXCEPT !.signedIn = FALSE, !.unauthorized = FALSE, !.authRequired = FALSE]
<1>1. a \in AuthState /\ a.signedIn = FALSE /\ a.clerkReady = auth.clerkReady
    BY DEF IInv, TypeOK, AuthState
<1>2. Commit(a, intent)
    BY DEF SignedOut
<1> HIDE DEF a
<1>3. /\ auth' \in AuthState /\ timer' \in BOOLEAN /\ intent' \in Intent
      /\ auth'.signedIn = FALSE /\ auth'.clerkReady = auth.clerkReady
    BY <1>1, <1>2, CommitEffect DEF IInv, TypeOK, Intent
<1>4. SignedInIsSession' /\ ReadyListens'
    BY <1>3 DEF SignedOut, IInv, TypeOK, SignedInIsSession, ReadyListens, Listening
<1> QED
    BY <1>3, <1>4 DEF browser, SignedOut, IInv, TypeOK, Intent

--------------------------------------------------------------------------------
(* Requests *)

LEMMA RequestKeeps ==
    ASSUME IInv, NEW c \in Caller, StartRequest(c) \/ AnswerRequest(c) PROVE IInv'
<1>1. CASE StartRequest(c)
    <2>1. request' \in [Caller -> Request]
        BY <1>1 DEF StartRequest, IInv, TypeOK, Request, AuthState, ShouldRequireSignIn, Trusted
    <2> QED
        BY <1>1, <2>1, Apart DEF browser, StartRequest, IInv, TypeOK
<1>2. CASE AnswerRequest(c)
    <2>1. \A s \in Statuses(c) :
              /\ Told(c, s) \in AuthState
              /\ Told(c, s).clerkReady = auth.clerkReady /\ Told(c, s).signedIn = auth.signedIn
        BY DEF Told, IInv, TypeOK, AuthState, Request
    <2>2. /\ auth' \in AuthState
          /\ auth'.clerkReady = auth.clerkReady /\ auth'.signedIn = auth.signedIn
          /\ faults' \in 0 .. MaxFaults
        BY <1>2, <2>1, FaultTyped DEF browser, AnswerRequest, IInv, TypeOK
    <2>3. request' \in [Caller -> Request]
        BY <1>2 DEF AnswerRequest, IInv, TypeOK, Request, NoRequest
    <2> QED
        BY <1>2, <2>2, <2>3, Apart DEF browser, AnswerRequest, IInv, TypeOK
<1> QED
    BY <1>1, <1>2

--------------------------------------------------------------------------------
(* Theorems *)

LEMMA StepKeeps == IInv /\ [Next]_vars => IInv'
<1> SUFFICES ASSUME IInv, [Next]_vars PROVE IInv'
    OBVIOUS
<1>1. CASE UNCHANGED vars
    BY <1>1 DEF vars, browser, IInv, TypeOK, SignedInIsSession, ReadyListens, Listening
<1>2. ASSUME NEW i \in 1 .. MaxAttempts, AttemptStep(i) PROVE IInv'
    BY <1>2, ConfigAnswersKeeps, LoadClerkKeeps, ScriptKeeps, ClerkLoadsKeeps DEF AttemptStep
<1>3. ASSUME Next, \A i \in 1 .. MaxAttempts : ~AttemptStep(i) PROVE IInv'
    BY <1>3, GateKeeps, StartRedirectKeeps, RedirectKeeps, TimesKeep, SessionKeeps, SignedOutKeeps,
           RequestKeeps
    DEF Next
<1> QED
    BY <1>1, <1>2, <1>3

\* The inductive invariant of the provider.
THEOREM AuthInvariant == Spec => []IInv
BY InitIInv, StepKeeps, PTL DEF Spec

\* Every reachable state of AuthProvider is well typed.
THEOREM AuthTypeCorrect == Spec => []TypeOK
BY AuthInvariant, PTL DEF IInv

\* loadAuth and its listeners: once Clerk is ready the page knows whether it has a session.
THEOREM PageKnowsItsSession == Spec => []SignedInIsSession
BY AuthInvariant, PTL DEF IInv
=============================================================================
