----------------------------- MODULE ProviderChain -----------------------------
(***************************************************************************)
(* The provider chains of scribe-service (summarize_with_chain and         *)
(* transcribe_with_chain) and the circuit breaker they put before every    *)
(* provider.  The breakers live in the process and are shared by all       *)
(* worker threads, so an answer can arrive long after the breaker has      *)
(* changed its mind.                                                       *)
(*                                                                         *)
(* acquire() and record() hold the breaker's lock: each is one step, and   *)
(* the call to the provider is what happens between them.  Time is         *)
(* abstract: a cooldown elapses and outcomes leave the window when they do.*)
(***************************************************************************)
EXTENDS Naturals, Sequences

CONSTANTS
    Provider,       \* breaker keys
    Caller,         \* worker threads, and requests that regenerate a summary
    Chain,          \* the order in which a run tries the providers
    Threshold,      \* trip-relevant failures in a row that trip a breaker
    Unclassified    \* providers that can raise what the chain does not catch

ASSUME ChainAssumption ==
    /\ Chain \in Seq(Provider)
    /\ Chain # <<>>
    /\ Threshold \in Nat \ {0}
    /\ Unclassified \subseteq Provider

VARIABLES
    breaker,    \* CircuitBreaker, by key
    caller      \* how far each chain run is, and what acquire() told it

vars == <<breaker, caller>>

\* The deque of outcomes, as record() reads it: "streak" counts the newest outcomes
\* that are all trip-relevant and inside the window, up to the deque's length.
Breaker ==
    [state : {"closed", "half_open", "tripped"},
     cooling : BOOLEAN,         \* before _tripped_until
     trial : BOOLEAN,           \* _trial_in_progress
     streak : 0 .. Threshold]

Outcome == {"success", "relevant", "error"}
Call == {"none", "allow", "trial"}
NotRunning == [at |-> 0, call |-> "none"]
Run == [at : 0 .. Len(Chain), call : Call]

Used(c) == Chain[caller[c].at]
OnTrial(c, p) == caller[c].call = "trial" /\ Used(c) = p

Init ==
    /\ breaker = [p \in Provider |->
           [state |-> "closed", cooling |-> FALSE, trial |-> FALSE, streak |-> 0]]
    /\ caller = [c \in Caller |-> NotRunning]

--------------------------------------------------------------------------------

Start(c) ==
    /\ caller[c] = NotRunning
    /\ caller' = [caller EXCEPT ![c].at = 1]
    /\ UNCHANGED breaker

\* The state acquire() sees: a breaker whose cooldown is over is half open.
StateNow_NeverHalfOpen(b) == b.state
StateNow(b) == IF b.state = "tripped" /\ ~b.cooling THEN "half_open" ELSE b.state

TrialFree_Always(b) == TRUE
TrialFree(b) == ~b.trial

Answer(b) ==
    IF StateNow(b) = "closed" THEN "allow"
    ELSE IF StateNow(b) = "half_open" /\ TrialFree(b) THEN "trial"
    ELSE "skip"

\* The next provider, or the end of a run that was skipped or failed everywhere.
Advanced(run) ==
    IF run.at = Len(Chain) THEN NotRunning ELSE [at |-> run.at + 1, call |-> "none"]

Acquire(c) ==
    /\ caller[c].at # 0 /\ caller[c].call = "none"
    /\ LET p == Used(c)
           answer == Answer(breaker[p])
       IN  /\ breaker' = [breaker EXCEPT
                  ![p].state = StateNow(breaker[p]),
                  ![p].trial = (answer = "trial" \/ breaker[p].trial)]
           /\ caller' = [caller EXCEPT ![c] =
                  IF answer = "skip" THEN Advanced(@) ELSE [@ EXCEPT !.call = answer]]

Streak_NoReset(b, outcome) ==
    IF outcome = "relevant" /\ b.streak < Threshold THEN b.streak + 1 ELSE b.streak
Streak_Unbounded(b, outcome) == IF outcome = "relevant" THEN b.streak + 1 ELSE 0
Streak(b, outcome) ==
    IF outcome # "relevant" THEN 0
    ELSE IF b.streak < Threshold THEN b.streak + 1 ELSE b.streak

Tripped(b) == [b EXCEPT !.state = "tripped", !.cooling = TRUE]

\* What record() makes of a breaker whose outcome is counted already.
AfterTrial_KeepsTrial(b, outcome) ==
    IF outcome = "success" THEN [b EXCEPT !.state = "closed", !.trial = FALSE] ELSE Tripped(b)
AfterTrial(b, outcome) ==
    LET done == [b EXCEPT !.trial = FALSE]
    IN  IF outcome = "success" THEN [done EXCEPT !.state = "closed"] ELSE Tripped(done)
AfterCall(b, outcome) ==
    IF outcome = "relevant" /\ b.streak = Threshold THEN Tripped(b) ELSE b

Record(c, outcome) ==
    /\ caller[c].call # "none"
    /\ LET p == Used(c)
           counted == [breaker[p] EXCEPT !.streak = Streak(breaker[p], outcome)]
       IN  breaker' = [breaker EXCEPT ![p] =
               IF caller[c].call = "trial" THEN AfterTrial(counted, outcome)
               ELSE AfterCall(counted, outcome)]
    /\ caller' = [caller EXCEPT ![c] =
           IF outcome = "success" THEN NotRunning ELSE Advanced(@)]

\* An exception that is no ProviderError / TranscribeProviderError leaves the chain
\* at once, past record(): TranscribeTimeoutError, a missing codex binary.
Escape(c) ==
    /\ caller[c].call # "none"
    /\ Used(c) \in Unclassified
    /\ caller' = [caller EXCEPT ![c] = NotRunning]
    /\ UNCHANGED breaker

CooldownElapses(p) ==
    /\ breaker[p].cooling
    /\ breaker' = [breaker EXCEPT ![p].cooling = FALSE]
    /\ UNCHANGED caller

OutcomeAges(p) ==
    /\ breaker[p].streak > 0
    /\ breaker' = [breaker EXCEPT ![p].streak = @ - 1]
    /\ UNCHANGED caller

CallerStep(c) ==
    Start(c) \/ Acquire(c) \/ Escape(c) \/ \E outcome \in Outcome : Record(c, outcome)

Next ==
    \/ \E c \in Caller : CallerStep(c)
    \/ \E p \in Provider : CooldownElapses(p) \/ OutcomeAges(p)

Spec == Init /\ [][Next]_vars

\* Jobs keep coming, and every provider call is bounded by a timeout.
Fairness ==
    /\ \A c \in Caller : WF_vars(CallerStep(c))
    /\ \A p \in Provider : WF_vars(CooldownElapses(p))

FairSpec == Spec /\ Fairness

--------------------------------------------------------------------------------
(* Properties *)

TypeOK ==
    /\ breaker \in [Provider -> Breaker]
    /\ caller \in [Caller -> Run]

\* One trial at a time per provider, even when answers to calls from before the trip
\* arrive during the trial and trip the breaker again (acquire, record).
TrialExclusive ==
    \A c, d \in Caller : \A p \in Provider : OnTrial(c, p) /\ OnTrial(d, p) => c = d

\* A breaker that hands out calls has no outage behind it: after the trial succeeded,
\* late failures of older calls start a new count.
ClosedIsHealthy ==
    \A p \in Provider :
        breaker[p].state = "closed" => ~breaker[p].trial /\ breaker[p].streak < Threshold

\* Callers are turned away for a trial only while somebody is on that trial, for the
\* providers whose every failure the chain catches.
TrialHasOwner ==
    \A p \in Provider \ Unclassified : breaker[p].trial => \E c \in Caller : OnTrial(c, p)

\* Inductive: a caller on trial holds the breaker's flag.
Bookkeeping ==
    /\ \A c \in Caller : caller[c].call # "none" => caller[c].at # 0
    /\ \A c \in Caller : \A p \in Provider : OnTrial(c, p) => breaker[p].trial

IInv == TypeOK /\ TrialExclusive /\ ClosedIsHealthy /\ Bookkeeping

\* A trial that its caller left past record(): nobody is on it, and the flag stays.
TrialLost(p) == breaker[p].trial /\ \A c \in Caller : ~OnTrial(c, p)

Probed(p) == breaker[p].state = "closed" \/ \E c \in Caller : OnTrial(c, p)

\* A suspended provider that the walk reaches is tried again, and the loss of a trial
\* harms only the provider it was for: while those before it wait for trials that are
\* lost, the first one left is probed, until its own trial is lost (the walk of
\* transcribe_with_chain goes on where acquire() says skip).
FirstLeftIsProbed ==
    \A i \in 1 .. Len(Chain) :
        LET p == Chain[i]
        IN  breaker[p].state # "closed" /\ (\A j \in 1 .. (i - 1) : TrialLost(Chain[j]))
                ~> Probed(p) \/ TrialLost(p)

\* The first provider of the chain is skipped for the cooldown, not for good: "the breaker
\* trips and the chain skips Vast for the cooldown window" (transcribe_providers.py:13),
\* "concurrent callers see `skip` until the trial resolves" (summary_providers.py:156).
SuspendedIsProbed == breaker[Chain[1]].state # "closed" ~> Probed(Chain[1])
================================================================================
