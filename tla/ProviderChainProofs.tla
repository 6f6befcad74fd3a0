-------------------------- MODULE ProviderChainProofs --------------------------
(***************************************************************************)
(* Proofs about ProviderChain for any providers, callers, chain and        *)
(* threshold.  A step of one caller changes the breaker of the provider it *)
(* is at, and no other; the cases below are the effects on that breaker.   *)
(***************************************************************************)
EXTENDS ProviderChain, TLAPS

USE DEF Breaker, Call

LEMMA ChainFacts ==
    /\ Len(Chain) \in Nat /\ Len(Chain) >= 1
    /\ \A i \in 1 .. Len(Chain) : Chain[i] \in Provider
    /\ NotRunning \in Run
BY ChainAssumption DEF NotRunning, Run

LEMMA AdvancedTyped ==
    ASSUME NEW run \in Run, run.at # 0
    PROVE  /\ Advanced(run) \in Run /\ Advanced(run).call = "none"
BY ChainFacts DEF Advanced, Run, NotRunning

LEMMA StreakTyped ==
    ASSUME NEW b \in Breaker, NEW o \in Outcome
    PROVE  /\ Streak(b, o) \in 0 .. Threshold
           /\ o = "success" => Streak(b, o) = 0
BY ChainAssumption DEF Streak, Outcome

LEMMA TrippedEffect ==
    ASSUME NEW b \in Breaker
    PROVE  /\ Tripped(b) \in Breaker
           /\ Tripped(b).state = "tripped" /\ Tripped(b).trial = b.trial
BY DEF Tripped

\* What judging a counted outcome makes of a breaker.
LEMMA CallEffect ==
    ASSUME NEW b \in Breaker, NEW o \in Outcome
    PROVE  LET a == AfterCall(b, o)
           IN  /\ a \in Breaker /\ a.trial = b.trial
               /\ a.state = "closed" => a = b /\ (o = "relevant" => b.streak # Threshold)
<1>1. CASE o = "relevant" /\ b.streak = Threshold
    BY <1>1, TrippedEffect DEF AfterCall
<1>2. CASE ~(o = "relevant" /\ b.streak = Threshold)
    BY <1>2 DEF AfterCall
<1> QED
    BY <1>1, <1>2

LEMMA TrialEffect ==
    ASSUME NEW b \in Breaker, NEW o \in Outcome
    PROVE  LET a == AfterTrial(b, o)
           IN  /\ a \in Breaker /\ ~a.trial
               /\ a.state = "closed" => o = "success" /\ a.streak = b.streak
BY DEF AfterTrial, Tripped

LEMMA InitIInv == Init => IInv
<1> SUFFICES ASSUME Init PROVE IInv
    OBVIOUS
<1> USE DEF Init
<1>1. TypeOK
    BY ChainFacts, ChainAssumption DEF TypeOK
<1>2. ClosedIsHealthy /\ TrialExclusive /\ Bookkeeping
    BY ChainAssumption DEF ClosedIsHealthy, TrialExclusive, Bookkeeping, OnTrial, NotRunning
<1> QED
    BY <1>1, <1>2 DEF IInv

\* A step of caller c that leaves breaker p as x and its own run as y keeps the
\* invariant if a closed x is healthy, if a trial in y was free to take or already
\* c's own, and if the flag is lowered by nobody but the caller on trial.
LEMMA CallerEffect ==
    ASSUME IInv, NEW c \in Caller, NEW p \in Provider, NEW x \in Breaker, NEW y \in Run,
           breaker' = [breaker EXCEPT ![p] = x], caller' = [caller EXCEPT ![c] = y],
           x.state = "closed" => ~x.trial /\ x.streak < Threshold,
           y.call # "none" => y.at # 0,
           y.call = "trial" => Chain[y.at] = p /\ x.trial /\ ~breaker[p].trial,
           x.trial \/ (breaker[p].trial => OnTrial(c, p))
    PROVE  IInv'
<1>1. /\ breaker' \in [Provider -> Breaker] /\ breaker'[p] = x
      /\ \A q \in Provider : q # p => breaker'[q] = breaker[q]
    BY DEF IInv, TypeOK
<1>2. /\ caller' \in [Caller -> Run] /\ caller'[c] = y
      /\ \A d \in Caller : d # c => caller'[d] = caller[d]
    BY DEF IInv, TypeOK
<1>3. TypeOK' /\ ClosedIsHealthy'
    BY <1>1, <1>2 DEF IInv, TypeOK, ClosedIsHealthy
<1>4. \A d \in Caller : \A q \in Provider :
          OnTrial(d, q)' => \/ d # c /\ OnTrial(d, q)
                            \/ d = c /\ q = p /\ x.trial /\ ~breaker[p].trial
    BY <1>2 DEF OnTrial, Used
<1>5. TrialExclusive'
    BY <1>4 DEF IInv, TrialExclusive, Bookkeeping
<1>6. Bookkeeping'
  <2>1. ASSUME NEW d \in Caller, NEW q \in Provider, OnTrial(d, q)'
        PROVE  breaker'[q].trial
    <3>1. CASE q # p
        BY <1>1, <1>4, <2>1, <3>1 DEF IInv, Bookkeeping
    <3>2. CASE q = p /\ d # c
      <4>1. OnTrial(d, p) /\ breaker[p].trial
          BY <1>4, <2>1, <3>2 DEF IInv, Bookkeeping
      <4>2. ~OnTrial(c, p)
          BY <3>2, <4>1 DEF IInv, TrialExclusive
      <4> QED
          BY <1>1, <3>2, <4>1, <4>2
    <3>3. CASE q = p /\ d = c
        BY <1>1, <1>4, <2>1, <3>3
    <3> QED
        BY <3>1, <3>2, <3>3
  <2> QED
      BY <1>2, <2>1 DEF IInv, Bookkeeping
<1> QED
    BY <1>3, <1>5, <1>6 DEF IInv

\* The provider a caller is at.
LEMMA UsedTyped ==
    ASSUME IInv, NEW c \in Caller, caller[c].at # 0
    PROVE  /\ Used(c) \in Provider /\ caller[c] \in Run /\ breaker[Used(c)] \in Breaker
           /\ breaker = [breaker EXCEPT ![Used(c)] = breaker[Used(c)]]
<1>1. caller[c] \in Run /\ caller[c].at \in 1 .. Len(Chain)
    BY ChainFacts DEF IInv, TypeOK, Run
<1>2. Used(c) \in Provider
    BY <1>1, ChainFacts DEF Used
<1> QED
    BY <1>1, <1>2 DEF IInv, TypeOK

LEMMA StartStep == ASSUME IInv, NEW c \in Caller, Start(c) PROVE IInv'
<1> DEFINE x == [caller[c] EXCEPT !.at = 1]
           p == Chain[1]
<1>1. x \in Run /\ x.at = 1 /\ x.call = "none"
    BY ChainFacts DEF Start, NotRunning, Run
<1>2. caller' = [caller EXCEPT ![c] = x] /\ breaker' = breaker
    BY DEF Start
<1>3. p \in Provider /\ breaker[p] \in Breaker /\ breaker' = [breaker EXCEPT ![p] = breaker[p]]
    BY <1>2, ChainFacts DEF IInv, TypeOK
<1>4. breaker[p].state = "closed" => ~breaker[p].trial /\ breaker[p].streak < Threshold
    BY <1>3 DEF IInv, ClosedIsHealthy
<1>5. breaker[p].trial \/ (breaker[p].trial => OnTrial(c, p))
    BY <1>3
<1> HIDE DEF x, p
<1> QED
    BY <1>1, <1>2, <1>3, <1>4, <1>5, CallerEffect

LEMMA AcquireStep == ASSUME IInv, NEW c \in Caller, Acquire(c) PROVE IInv'
<1> DEFINE p == Used(c)
           b == breaker[p]
           answer == Answer(b)
           flag == answer = "trial" \/ b.trial
           x == [b EXCEPT !.state = StateNow(b), !.trial = flag]
           y == IF answer = "skip" THEN Advanced(caller[c]) ELSE [caller[c] EXCEPT !.call = answer]
<1>1. p \in Provider /\ b \in Breaker /\ caller[c] \in Run /\ caller[c].at # 0
    BY UsedTyped DEF Acquire
<1>2. answer \in {"allow", "trial", "skip"} /\ (answer = "trial" => ~b.trial)
    BY DEF Answer, TrialFree
<1>3. StateNow(b) \in {"closed", "half_open", "tripped"} /\ (StateNow(b) = "closed" => b.state = "closed" /\ answer # "trial")
    BY <1>1 DEF StateNow, Answer
<1>4. flag \in BOOLEAN /\ (flag <=> (answer = "trial" \/ b.trial))
    BY <1>1
<1>5. breaker' = [breaker EXCEPT ![p].state = StateNow(b), ![p].trial = flag]
    BY DEF Acquire
<1>6. caller' = [caller EXCEPT ![c] = y]
    BY DEF Acquire
<1>7. y \in Run /\ (y.call # "none" => y.call = answer /\ y.at = caller[c].at)
    BY <1>1, <1>2, AdvancedTyped DEF Run
<1>8. b.state = "closed" => ~b.trial /\ b.streak < Threshold
    BY <1>1 DEF IInv, ClosedIsHealthy
<1>9. Chain[caller[c].at] = p
    BY DEF Used
<1> HIDE DEF y, flag, answer
<1>10. breaker' = [breaker EXCEPT ![p] = x]
    BY <1>1, <1>5 DEF IInv, TypeOK
<1>11. /\ x \in Breaker /\ x.state = StateNow(b) /\ x.trial = flag /\ x.streak = b.streak
    BY <1>1, <1>3, <1>4
<1> HIDE DEF x, b, p
<1>12. x.state = "closed" => ~x.trial /\ x.streak < Threshold
    BY <1>3, <1>4, <1>8, <1>11
<1>13. y.call = "trial" => Chain[y.at] = p /\ x.trial /\ ~b.trial
    BY <1>2, <1>4, <1>7, <1>9, <1>11
<1>14. y.call # "none" => y.at # 0
    BY <1>1, <1>7
<1>15. x.trial \/ (b.trial => OnTrial(c, p))
    BY <1>4, <1>11
<1> QED
    BY <1>1, <1>6, <1>7, <1>10, <1>11, <1>12, <1>13, <1>14, <1>15, CallerEffect DEF b

LEMMA RecordStep ==
    ASSUME IInv, NEW c \in Caller, NEW o \in Outcome, Record(c, o) PROVE IInv'
<1> DEFINE p == Used(c)
           b == breaker[p]
           counted == [b EXCEPT !.streak = Streak(b, o)]
           x == IF caller[c].call = "trial" THEN AfterTrial(counted, o) ELSE AfterCall(counted, o)
           y == IF o = "success" THEN NotRunning ELSE Advanced(caller[c])
<1>1. p \in Provider /\ b \in Breaker /\ caller[c] \in Run /\ caller[c].at # 0
    BY UsedTyped DEF Record, IInv, Bookkeeping
<1>2. /\ counted \in Breaker /\ counted.streak = Streak(b, o)
      /\ counted.trial = b.trial /\ counted.state = b.state
    BY <1>1, StreakTyped
<1>3. breaker' = [breaker EXCEPT ![p] = x] /\ caller' = [caller EXCEPT ![c] = y]
    BY DEF Record
<1>4. y \in Run /\ y.call = "none"
    BY <1>1, AdvancedTyped, ChainFacts DEF NotRunning
<1>5. b.state = "closed" => ~b.trial /\ b.streak < Threshold
    BY <1>1 DEF IInv, ClosedIsHealthy
<1>6. o # "relevant" => Streak(b, o) = 0
    BY DEF Streak
<1> HIDE DEF y, counted
<1>7. CASE caller[c].call = "trial"
  <2>1. /\ x \in Breaker /\ ~x.trial
        /\ x.state = "closed" => o = "success" /\ x.streak = counted.streak
      BY <1>2, <1>7, TrialEffect
  <2>2. x.state = "closed" => ~x.trial /\ x.streak < Threshold
      BY <1>2, <1>6, <2>1, ChainAssumption
  <2>3. OnTrial(c, p)
      BY <1>7 DEF OnTrial
  <2> HIDE DEF x, p
  <2> QED
      BY <1>1, <1>3, <1>4, <2>1, <2>2, <2>3, CallerEffect
<1>8. CASE caller[c].call # "trial"
  <2>1. /\ x \in Breaker /\ x.trial = counted.trial
        /\ x.state = "closed" => x = counted /\ (o = "relevant" => counted.streak # Threshold)
      BY <1>2, <1>8, CallEffect
  <2>2. x.state = "closed" => ~x.trial /\ x.streak < Threshold
    <3>1. counted.streak \in 0 .. Threshold /\ Threshold \in Nat \ {0}
        BY <1>2, ChainAssumption
    <3> QED
        BY <1>2, <1>5, <1>6, <2>1, <3>1
  <2>3. x.trial \/ (b.trial => OnTrial(c, p))
      BY <1>1, <1>2, <2>1
  <2> HIDE DEF x, b, p
  <2> QED
      BY <1>1, <1>3, <1>4, <2>1, <2>2, <2>3, CallerEffect DEF b
<1> QED
    BY <1>7, <1>8

LEMMA EscapeStep == ASSUME IInv, NEW c \in Caller, Escape(c) PROVE IInv'
<1>1. TypeOK'
    BY ChainFacts DEF Escape, IInv, TypeOK
<1>2. /\ caller'[c] = NotRunning /\ breaker' = breaker
      /\ \A d \in Caller : d # c => caller'[d] = caller[d]
    BY DEF Escape, IInv, TypeOK
<1>3. \A d \in Caller : \A q \in Provider : OnTrial(d, q)' => OnTrial(d, q)
    BY <1>2 DEF OnTrial, Used, NotRunning
<1> QED
    BY <1>1, <1>2, <1>3 DEF IInv, TrialExclusive, ClosedIsHealthy, Bookkeeping, NotRunning

LEMMA TimeStep ==
    ASSUME IInv, NEW p \in Provider, CooldownElapses(p) \/ OutcomeAges(p) PROVE IInv'
<1> DEFINE x == breaker'[p]
<1>1. /\ breaker' \in [Provider -> Breaker]
      /\ breaker'[p].state = breaker[p].state /\ breaker'[p].trial = breaker[p].trial
      /\ breaker'[p].streak <= breaker[p].streak
      /\ \A q \in Provider : q # p => breaker'[q] = breaker[q]
  <2>1. breaker \in [Provider -> Breaker] /\ breaker[p] \in Breaker
      BY DEF IInv, TypeOK
  <2>2. CASE CooldownElapses(p)
    <3> DEFINE y == [breaker[p] EXCEPT !.cooling = FALSE]
    <3>1. /\ y \in Breaker /\ y.state = breaker[p].state /\ y.trial = breaker[p].trial
          /\ y.streak = breaker[p].streak
        BY <2>1
    <3>2. breaker' = [breaker EXCEPT ![p] = y]
        BY <2>2 DEF CooldownElapses
    <3> HIDE DEF y
    <3> QED
        BY <2>1, <3>1, <3>2, ChainAssumption
  <2>3. CASE OutcomeAges(p)
    <3> DEFINE n == breaker[p].streak - 1
               y == [breaker[p] EXCEPT !.streak = n]
    <3>1. n \in 0 .. Threshold /\ n <= breaker[p].streak
        BY <2>1, <2>3, ChainAssumption DEF OutcomeAges
    <3>2. breaker' = [breaker EXCEPT ![p] = y]
        BY <2>3 DEF OutcomeAges
    <3> HIDE DEF n
    <3>3. /\ y \in Breaker /\ y.state = breaker[p].state /\ y.trial = breaker[p].trial
          /\ y.streak = n
        BY <2>1, <3>1
    <3> HIDE DEF y
    <3> QED
        BY <2>1, <3>1, <3>2, <3>3
  <2> QED
      BY <2>2, <2>3
<1>2. caller' = caller
    BY DEF CooldownElapses, OutcomeAges
<1>3. \A c \in Caller : \A q \in Provider : OnTrial(c, q)' <=> OnTrial(c, q)
    BY <1>2 DEF OnTrial, Used
<1>4. \A q \in Provider :
          /\ breaker'[q].state = breaker[q].state /\ breaker'[q].trial = breaker[q].trial
          /\ breaker'[q].streak <= breaker[q].streak
  <2> SUFFICES ASSUME NEW q \in Provider
               PROVE  /\ breaker'[q].state = breaker[q].state
                      /\ breaker'[q].trial = breaker[q].trial
                      /\ breaker'[q].streak <= breaker[q].streak
      OBVIOUS
  <2>1. breaker[q].streak \in Nat
      BY ChainAssumption DEF IInv, TypeOK, Breaker
  <2>2. CASE q = p
      BY <1>1, <2>2
  <2>3. CASE q # p
      BY <1>1, <2>1, <2>3
  <2> QED
      BY <2>2, <2>3
<1>5. ClosedIsHealthy'
  <2> SUFFICES ASSUME NEW q \in Provider, breaker'[q].state = "closed"
               PROVE  ~breaker'[q].trial /\ breaker'[q].streak < Threshold
      BY DEF ClosedIsHealthy
  <2>1. breaker[q].streak \in Nat /\ breaker'[q].streak \in Nat
      BY <1>1, ChainAssumption DEF IInv, TypeOK, Breaker
  <2>2. ~breaker[q].trial /\ breaker[q].streak < Threshold
      BY <1>4 DEF IInv, ClosedIsHealthy
  <2> QED
      BY <1>4, <2>1, <2>2, ChainAssumption
<1> QED
    BY <1>1, <1>2, <1>3, <1>4, <1>5 DEF IInv, TypeOK, TrialExclusive, Bookkeeping

\* Breakers and runs keep their types, a trial is exclusive, and a closed breaker is
\* healthy: the inductive invariant of the chains.
THEOREM ChainInvariant == Spec => []IInv
<1>1. IInv /\ [Next]_vars => IInv'
  <2> SUFFICES ASSUME IInv, [Next]_vars PROVE IInv'
      OBVIOUS
  <2>1. CASE UNCHANGED vars
      BY <2>1
      DEF vars, IInv, TypeOK, TrialExclusive, ClosedIsHealthy, Bookkeeping, OnTrial, Used
  <2> QED
      BY <2>1, StartStep, AcquireStep, RecordStep, EscapeStep, TimeStep DEF Next, CallerStep
<1> QED
    BY <1>1, InitIInv, PTL DEF Spec

\* However answers from before a trip interleave with the trial, no two callers are
\* ever on trial with one provider (CircuitBreaker.acquire, record).
THEOREM OneTrialAtATime == Spec => []TrialExclusive
<1>1. IInv => TrialExclusive
    BY DEF IInv
<1> QED
    BY <1>1, ChainInvariant, PTL

\* A breaker that lets calls through never has Threshold trip-relevant failures in a
\* row behind it, for any threshold.
THEOREM ClosedBreakersAreHealthy == Spec => []ClosedIsHealthy
<1>1. IInv => ClosedIsHealthy
    BY DEF IInv
<1> QED
    BY <1>1, ChainInvariant, PTL

\* Breakers and chain runs keep their types.
THEOREM ChainTypeCorrect == Spec => []TypeOK
<1>1. IInv => TypeOK
    BY DEF IInv
<1> QED
    BY <1>1, ChainInvariant, PTL

--------------------------------------------------------------------------------
(* Who holds the trial *)

\* A step of caller c that leaves breaker p as x and its own run as y loses no trial if the
\* flag is raised only for y's trial, and c gives up its own trial only with the flag.
LEMMA OwnerEffect ==
    ASSUME IInv, TrialHasOwner, NEW c \in Caller, NEW p \in Provider, NEW x, NEW y,
           breaker' = [breaker EXCEPT ![p] = x], caller' = [caller EXCEPT ![c] = y],
           x.trial => breaker[p].trial \/ (y.call = "trial" /\ Chain[y.at] = p),
           \A q \in Provider \ Unclassified : OnTrial(c, q) =>
               (q = p /\ ~x.trial) \/ (y.call = "trial" /\ Chain[y.at] = q)
    PROVE  TrialHasOwner'
<1>1. /\ breaker'[p] = x /\ caller'[c] = y
      /\ \A q \in Provider : q # p => breaker'[q] = breaker[q]
      /\ \A d \in Caller : d # c => caller'[d] = caller[d]
    BY DEF IInv, TypeOK
<1>2. \A d \in Caller : \A q \in Provider : d # c /\ OnTrial(d, q) => OnTrial(d, q)'
    BY <1>1 DEF OnTrial, Used
<1>3. \A q \in Provider : y.call = "trial" /\ Chain[y.at] = q => OnTrial(c, q)'
    BY <1>1 DEF OnTrial, Used
<1> SUFFICES ASSUME NEW q \in Provider \ Unclassified, breaker'[q].trial
             PROVE  \E d \in Caller : OnTrial(d, q)'
    BY DEF TrialHasOwner
<1>4. CASE breaker[q].trial
  <2>1. PICK d \in Caller : OnTrial(d, q)
      BY <1>4 DEF TrialHasOwner
  <2> QED
      BY <1>1, <1>2, <1>3, <2>1
<1>5. CASE ~breaker[q].trial
    BY <1>1, <1>3, <1>5
<1> QED
    BY <1>4, <1>5

LEMMA OwnerStep ==
    ASSUME IInv, TrialHasOwner, NEW c \in Caller, CallerStep(c) PROVE TrialHasOwner'
<1>1. CASE Start(c)
  <2>1. breaker' = breaker /\ caller[c].call = "none" /\ caller' = [caller EXCEPT ![c].at = 1]
      BY <1>1 DEF Start, NotRunning
  <2>2. \A d \in Caller : \A q \in Provider : OnTrial(d, q) => d # c /\ caller'[d] = caller[d]
      BY <2>1 DEF OnTrial, IInv, TypeOK
  <2> QED
      BY <2>1, <2>2 DEF TrialHasOwner, OnTrial, Used
<1>2. CASE Acquire(c)
  <2> DEFINE p == Used(c)
             answer == Answer(breaker[p])
             flag == answer = "trial" \/ breaker[p].trial
             x == [breaker[p] EXCEPT !.state = StateNow(breaker[p]), !.trial = flag]
             y == IF answer = "skip" THEN Advanced(caller[c]) ELSE [caller[c] EXCEPT !.call = answer]
  <2>1. p \in Provider /\ breaker[p] \in Breaker /\ caller[c] \in Run /\ caller[c].call = "none"
      BY <1>2, UsedTyped DEF Acquire
  <2>2. caller' = [caller EXCEPT ![c] = y]
      BY <1>2 DEF Acquire
  <2>3. breaker' = [breaker EXCEPT ![p].state = StateNow(breaker[p]), ![p].trial = flag]
      BY <1>2 DEF Acquire
  <2>4. flag <=> (answer = "trial" \/ breaker[p].trial)
      OBVIOUS
  <2>5. answer = "trial" => y.call = "trial" /\ y.at = caller[c].at
      BY <2>1 DEF Run
  <2>6. Chain[caller[c].at] = p
      BY DEF Used
  <2>7. \A q : ~OnTrial(c, q)
      BY <2>1 DEF OnTrial
  <2> HIDE DEF y, flag, answer
  <2>8. breaker' = [breaker EXCEPT ![p] = x] /\ x.trial = flag
      BY <2>1, <2>3 DEF IInv, TypeOK
  <2> HIDE DEF x, p
  <2> QED
      BY <2>1, <2>2, <2>4, <2>5, <2>6, <2>7, <2>8, OwnerEffect
<1>3. ASSUME NEW o \in Outcome, Record(c, o) PROVE TrialHasOwner'
  <2> DEFINE p == Used(c)
             b == breaker[p]
             counted == [b EXCEPT !.streak = Streak(b, o)]
             x == IF caller[c].call = "trial" THEN AfterTrial(counted, o) ELSE AfterCall(counted, o)
             y == IF o = "success" THEN NotRunning ELSE Advanced(caller[c])
  <2>1. p \in Provider /\ b \in Breaker
      BY <1>3, UsedTyped DEF Record, IInv, Bookkeeping
  <2>2. counted \in Breaker /\ counted.trial = b.trial
      BY <2>1, StreakTyped
  <2>3. breaker' = [breaker EXCEPT ![p] = x] /\ caller' = [caller EXCEPT ![c] = y]
      BY <1>3 DEF Record
  <2>4. \A q : OnTrial(c, q) => q = p /\ caller[c].call = "trial"
      BY DEF OnTrial
  <2> HIDE DEF y, counted
  <2>5. IF caller[c].call = "trial" THEN ~x.trial ELSE x.trial = counted.trial
      BY <2>2, TrialEffect, CallEffect
  <2>6. x.trial => b.trial
      BY <2>2, <2>5
  <2>7. x.trial => breaker[p].trial \/ (y.call = "trial" /\ Chain[y.at] = p)
      BY <2>6
  <2> HIDE DEF x, b, p
  <2>8. \A q \in Provider \ Unclassified : OnTrial(c, q) =>
            (q = p /\ ~x.trial) \/ (y.call = "trial" /\ Chain[y.at] = q)
      BY <2>4, <2>5
  <2> QED
      BY <2>1, <2>3, <2>7, <2>8, OwnerEffect
<1>4. CASE Escape(c)
  <2>1. breaker' = breaker /\ \A d \in Caller : d # c => caller'[d] = caller[d]
      BY <1>4 DEF Escape, IInv, TypeOK
  <2>2. \A q \in Provider \ Unclassified : ~OnTrial(c, q)
      BY <1>4 DEF Escape, OnTrial
  <2> QED
      BY <2>1, <2>2 DEF TrialHasOwner, OnTrial, Used
<1> QED
    BY <1>1, <1>2, <1>3, <1>4 DEF CallerStep

\* A trial that is under way is the call of some caller, which will end it: whatever the
\* interleaving, no breaker is left on trial by nobody, unless a provider's exception escapes
\* the chain (summarize_with_chain, transcribe_with_chain).
THEOREM TrialsHaveOwners == Spec => []TrialHasOwner
<1>1. Init => TrialHasOwner
    BY DEF Init, TrialHasOwner
<1>2. IInv /\ TrialHasOwner /\ [Next]_vars => TrialHasOwner'
  <2> SUFFICES ASSUME IInv, TrialHasOwner, [Next]_vars PROVE TrialHasOwner'
      OBVIOUS
  <2>1. CASE UNCHANGED vars
      BY <2>1 DEF vars, TrialHasOwner, OnTrial, Used
  <2>2. ASSUME NEW p \in Provider, CooldownElapses(p) \/ OutcomeAges(p) PROVE TrialHasOwner'
    <3>1. caller' = caller /\ \A q \in Provider : breaker'[q].trial = breaker[q].trial
        BY <2>2 DEF CooldownElapses, OutcomeAges, IInv, TypeOK
    <3> QED
        BY <3>1 DEF TrialHasOwner, OnTrial, Used
  <2> QED
      BY <2>1, <2>2, OwnerStep DEF Next
<1> QED
    BY <1>1, <1>2, ChainInvariant, PTL DEF Spec

--------------------------------------------------------------------------------
(* A trial that is lost *)

\* A step of caller c keeps a lost trial lost if c takes no trial that is taken, and
\* lowers no flag but that of its own trial.
LEMMA LossEffect ==
    ASSUME IInv, NEW c \in Caller, NEW p \in Provider, NEW x, NEW y,
           breaker' = [breaker EXCEPT ![p] = x], caller' = [caller EXCEPT ![c] = y],
           y.call = "trial" => ~breaker[Chain[y.at]].trial,
           breaker[p].trial /\ ~OnTrial(c, p) => x.trial,
           NEW q \in Provider, TrialLost(q)
    PROVE  TrialLost(q)'
<1>1. breaker'[q].trial
    BY DEF TrialLost, IInv, TypeOK
<1>2. ASSUME NEW d \in Caller PROVE ~OnTrial(d, q)'
  <2>1. CASE d = c
      BY <2>1 DEF TrialLost, OnTrial, Used, IInv, TypeOK
  <2>2. CASE d # c
      BY <2>2 DEF TrialLost, OnTrial, Used, IInv, TypeOK
  <2> QED
      BY <2>1, <2>2
<1> QED
    BY <1>1, <1>2 DEF TrialLost

LEMMA LossStep ==
    ASSUME IInv, NEW c \in Caller, CallerStep(c), NEW q \in Provider, TrialLost(q)
    PROVE  TrialLost(q)'
<1>1. CASE Start(c) \/ Escape(c)
  <2>1. /\ breaker' = breaker /\ caller'[c].call = "none"
        /\ \A d \in Caller : d # c => caller'[d] = caller[d]
      BY <1>1 DEF Start, Escape, NotRunning, IInv, TypeOK
  <2> QED
      BY <2>1 DEF TrialLost, OnTrial, Used
<1>2. CASE Acquire(c)
  <2> DEFINE p == Used(c)
             answer == Answer(breaker[p])
             flag == answer = "trial" \/ breaker[p].trial
             x == [breaker[p] EXCEPT !.state = StateNow(breaker[p]), !.trial = flag]
             y == IF answer = "skip" THEN Advanced(caller[c]) ELSE [caller[c] EXCEPT !.call = answer]
  <2>1. p \in Provider /\ breaker[p] \in Breaker /\ caller[c] \in Run /\ caller[c].at # 0
      BY <1>2, UsedTyped DEF Acquire
  <2>2. caller' = [caller EXCEPT ![c] = y] /\ breaker' = [breaker EXCEPT ![p] = x]
    <3>1. breaker' = [breaker EXCEPT ![p].state = StateNow(breaker[p]), ![p].trial = flag]
        BY <1>2 DEF Acquire
    <3>2. breaker' = [breaker EXCEPT ![p] = x]
        BY <2>1, <3>1 DEF IInv, TypeOK
    <3> QED
        BY <1>2, <3>2 DEF Acquire
  <2>3. answer = "trial" => ~breaker[p].trial
      BY DEF Answer, TrialFree
  <2>4. y.call = "trial" => answer = "trial" /\ y.at = caller[c].at
    <3>1. CASE answer = "skip"
        BY <2>1, <3>1, AdvancedTyped
    <3>2. CASE answer # "skip"
        BY <2>1, <3>2 DEF Run
    <3> QED
        BY <3>1, <3>2
  <2>5. y.call = "trial" => ~breaker[Chain[y.at]].trial
      BY <2>3, <2>4 DEF Used
  <2>6. breaker[p].trial => x.trial
      BY <2>1
  <2> HIDE DEF x, y, p
  <2> QED
      BY <2>1, <2>2, <2>5, <2>6, LossEffect
<1>3. ASSUME NEW o \in Outcome, Record(c, o) PROVE TrialLost(q)'
  <2> DEFINE p == Used(c)
             b == breaker[p]
             counted == [b EXCEPT !.streak = Streak(b, o)]
             x == IF caller[c].call = "trial" THEN AfterTrial(counted, o) ELSE AfterCall(counted, o)
             y == IF o = "success" THEN NotRunning ELSE Advanced(caller[c])
  <2>1. p \in Provider /\ b \in Breaker /\ caller[c] \in Run /\ caller[c].at # 0
      BY <1>3, UsedTyped DEF Record, IInv, Bookkeeping
  <2>2. counted \in Breaker /\ counted.trial = b.trial
      BY <2>1, StreakTyped
  <2>3. breaker' = [breaker EXCEPT ![p] = x] /\ caller' = [caller EXCEPT ![c] = y]
      BY <1>3 DEF Record
  <2>4. y.call # "trial"
      BY <2>1, AdvancedTyped DEF NotRunning
  <2>5. caller[c].call # "trial" => x.trial = counted.trial
      BY <2>2, CallEffect
  <2>6. caller[c].call = "trial" => OnTrial(c, p)
      BY DEF OnTrial
  <2>7. breaker[p].trial /\ ~OnTrial(c, p) => x.trial
      BY <2>2, <2>5, <2>6
  <2> HIDE DEF x, y, p
  <2> QED
      BY <2>1, <2>3, <2>4, <2>7, LossEffect
<1> QED
    BY <1>1, <1>2, <1>3 DEF CallerStep

\* Nothing but a restart of the process gives a provider back whose trial was lost: no late
\* answer, no cooldown and no other caller lowers the flag (CircuitBreaker.record).
THEOREM LostTrialsStayLost == Spec => [][\A p \in Provider : TrialLost(p) => TrialLost(p)']_vars
<1>1. IInv /\ [Next]_vars => [\A p \in Provider : TrialLost(p) => TrialLost(p)']_vars
  <2> SUFFICES ASSUME IInv, Next, NEW p \in Provider, TrialLost(p) PROVE TrialLost(p)'
      OBVIOUS
  <2>1. ASSUME NEW q \in Provider, CooldownElapses(q) \/ OutcomeAges(q) PROVE TrialLost(p)'
    <3>1. caller' = caller /\ breaker'[p].trial = breaker[p].trial
        BY <2>1 DEF CooldownElapses, OutcomeAges, IInv, TypeOK
    <3> QED
        BY <3>1 DEF TrialLost, OnTrial, Used
  <2> QED
      BY <2>1, LossStep DEF Next
<1> QED
    BY <1>1, ChainInvariant, PTL DEF Spec
================================================================================
