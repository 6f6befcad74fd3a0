----------------------------- MODULE VastLifecycle -----------------------------
(***************************************************************************)
(* The GPU instances scribe-service rents from Vast.ai, from the create    *)
(* call to the last attempt to destroy them: whisper_client.transcribe,    *)
(* the bookkeeping on the job row (vast_instance_id, destroy_failed_at),   *)
(* the sweep every worker runs, recovery at startup, and the orphan reaper.*)
(* An instance bills until Vast has destroyed it, so what can go wrong is  *)
(* an instance nobody remembers, or one destroyed under a running job.     *)
(*                                                                         *)
(* A transcription has two threads: the worker waits for a helper with a   *)
(* timeout and, when it runs out, leaves the helper behind.  Both reach    *)
(* the instance through _TranscribeRunContext, whose lock makes taking the *)
(* instance id one step.  A call to Vast and the record of its answer are  *)
(* one step; nobody else writes these two columns of the row in between.   *)
(***************************************************************************)
EXTENDS Naturals

CONSTANTS
    Job,            \* rows of the jobs table
    Instance,       \* contracts Vast can hand out, each at most once
    Sweeper,        \* worker threads, as far as they run the sweep
    MaxFaults,      \* restarts and failures of the database
    None

ASSUME VastAssumption ==
    /\ None \notin Instance \cup Sweeper
    /\ MaxFaults \in Nat

VARIABLES
    row,            \* status, vast_instance_id and destroy_failed_at of a job
    run,            \* the threads that process a job, and their run context
    vast,           \* the contracts at Vast
    sweep,          \* who has locked a row to retry its destroy, and how it went
    recovering,     \* rows recover_interrupted_jobs has still to handle
    faults

vars == <<row, run, vast, sweep, recovering, faults>>

\* destroy_failed_at: NULL, younger than the retry floor, or older.
Row == [status : {"queued", "active", "settled", "deleted"},
        id : Instance \cup {None},
        failed : {"no", "fresh", "ripe"}]

Worker == {"none", "working", "waiting", "cancelled", "destroying",
           "finishing", "lastChance", "failing"}
Helper == {"none", "choose", "asking", "record", "adopt", "wait", "use",
           "retreat", "retreating", "final", "finalizing", "over"}

Run == [worker : Worker,
        helper : Helper,
        new : Instance \cup {None},     \* created, not yet in the context
        ctx : Instance \cup {None},     \* context._instance_id
        taken : Instance \cup {None},   \* out of the context, being destroyed
        late : BOOLEAN]                 \* past context.deadline

NoRun == [worker |-> "none", helper |-> "none", new |-> None, ctx |-> None,
          taken |-> None, late |-> FALSE]

\* "dear": more than the reaper's cost threshold an hour.  "overdue": old enough for
\* the reaper.  "lost" is history: a fault took the instance out of all bookkeeping.
Contract == [state : {"free", "alive", "gone"}, dear : BOOLEAN, overdue : BOOLEAN,
             lost : BOOLEAN]

Sweep == [by : Sweeper \cup {None}, verdict : {"none", "todo", "cleared", "failed"}]
Unlocked == [by |-> None, verdict |-> "none"]

Alive(i) == vast[i].state = "alive"

\* A transcription inside its deadline works with the instance.
InUse(j, i) ==
    /\ ~run[j].late
    /\ run[j].new = i \/ (run[j].ctx = i /\ run[j].helper \in {"wait", "use"})

\* A thread that is still going to destroy it: a context whose helper has ended is
\* looked at only by a worker that waits.
InHand(j, i) ==
    \/ i \in {run[j].new, run[j].taken}
    \/ run[j].ctx = i /\ (run[j].helper # "over" \/ run[j].worker \in {"waiting", "cancelled"})

Exists(j) == row[j].status # "deleted"
Free(j) == sweep[j].by = None
Serving == recovering = {}

Init ==
    /\ row = [j \in Job |-> [status |-> "queued", id |-> None, failed |-> "no"]]
    /\ run = [j \in Job |-> NoRun]
    /\ vast = [i \in Instance |->
           [state |-> "free", dear |-> FALSE, overdue |-> FALSE, lost |-> FALSE]]
    /\ sweep = [j \in Job |-> Unlocked]
    /\ recovering = {}
    /\ faults = 0

\* A restart or an answer the database does not give.
Fault == faults < MaxFaults /\ faults' = faults + 1

--------------------------------------------------------------------------------
(* What a destroy can come to *)

\* _destroy_instance returns: the DELETE or an earlier one has landed, and the confirming
\* GET says so.  A 404 is as good as an answer to the DELETE.
Confirm_GoneIsError(i) == Alive(i) /\ vast' = [vast EXCEPT ![i].state = "gone"]
Confirm_Trusting(i) == vast' = vast
Confirm(i) == vast' = [vast EXCEPT ![i].state = "gone"]

\* _destroy_instance raises: the DELETE was lost, or it landed and the GET failed.
Unconfirmed(i, forget) ==
    \E s \in {vast[i].state, "gone"} :
        vast' = [vast EXCEPT ![i].state = s, ![i].lost = @ \/ forget]

Recorded_Swapped(j, i, failed) == [row EXCEPT ![j].id = failed, ![j].failed = i]
Recorded(j, i, failed) == [row EXCEPT ![j].id = i, ![j].failed = failed]

\* context.destroy_instance() with the callback that records its result.  The record of
\* a failure is lost when the row is gone or the database is away.
DestroySucceeds(j) ==
    LET i == run[j].taken
    IN  /\ Confirm(i)
        /\ row' = IF Exists(j) THEN Recorded(j, i, "no") ELSE row
        /\ UNCHANGED faults

DestroyFails(j) ==
    LET i == run[j].taken
    IN  \/ /\ Exists(j)
           /\ Unconfirmed(i, FALSE)
           /\ row' = Recorded(j, i, "fresh")
           /\ UNCHANGED faults
        \/ /\ ~Exists(j)
           /\ Unconfirmed(i, TRUE)
           /\ UNCHANGED <<row, faults>>
        \/ /\ Fault
           /\ Unconfirmed(i, TRUE)
           /\ UNCHANGED row

--------------------------------------------------------------------------------
(* The helper thread: _transcribe_impl *)

Helps(j, from, to) ==
    /\ run[j].helper = from
    /\ run' = [run EXCEPT ![j].helper = to]
    /\ UNCHANGED <<row, vast, sweep, recovering, faults>>

\* raise_if_cancelled() passes, and the create request leaves.
Ask(j) == ~run[j].late /\ Helps(j, "choose", "asking")

Rented(i, dear, lost) ==
    /\ vast[i].state = "free"
    /\ vast' = [vast EXCEPT
           ![i] = [state |-> "alive", dear |-> dear, overdue |-> FALSE, lost |-> lost]]

Create(j) ==
    /\ run[j].helper = "asking"
    /\ \E i \in Instance, dear \in BOOLEAN :
           /\ Rented(i, dear, FALSE)
           /\ run' = [run EXCEPT ![j].helper = "record", ![j].new = i]
    /\ UNCHANGED <<row, sweep, recovering, faults>>

\* Vast rents the instance out and the answer is lost or unreadable.
CreateUnanswered(j) ==
    /\ run[j].helper = "asking"
    /\ \E i \in Instance, dear \in BOOLEAN : Rented(i, dear, TRUE)
    /\ \E next \in {"choose", "over"} : run' = [run EXCEPT ![j].helper = next]
    /\ UNCHANGED <<row, sweep, recovering, faults>>

CreateRefused(j) == Helps(j, "asking", "choose")

\* No offer is left, or one of the calls before the loop failed.
GiveUp(j) == Helps(j, "choose", "over")

RecordCreated(j) ==
    /\ run[j].helper = "record"
    /\ row' = IF Exists(j) THEN Recorded(j, run[j].new, "no") ELSE row
    /\ run' = [run EXCEPT ![j].helper = "adopt"]
    /\ UNCHANGED <<vast, sweep, recovering, faults>>

\* A database error is none of the exceptions the loop catches.
RecordCreatedRaises(j) ==
    /\ run[j].helper = "record"
    /\ Fault
    /\ vast' = [vast EXCEPT ![run[j].new].lost = TRUE]
    /\ run' = [run EXCEPT ![j].helper = "over", ![j].new = None]
    /\ UNCHANGED <<row, sweep, recovering>>

\* context.set_instance(), then raise_if_cancelled().
Adopt(j) ==
    /\ run[j].helper = "adopt"
    /\ run' = [run EXCEPT ![j].ctx = run[j].new, ![j].new = None,
                          ![j].helper = IF run[j].late THEN "final" ELSE "wait"]
    /\ UNCHANGED <<row, vast, sweep, recovering, faults>>

\* The deadline is looked at again only once the transfer begins.
Ready(j) == Helps(j, "wait", "use")

\* The container fails, or is not ready in time, or the money is spent.
NotReady_KeepsInstance(j) == Helps(j, "wait", "choose")
NotReady(j) == Helps(j, "wait", "retreat")

\* An exception of another kind, such as an answer of Vast that is no JSON, leaves the
\* loop past every destroy.
WaitEscapes(j) == Helps(j, "wait", "over")

\* Transfer and transcription, with any result; the finally block comes next.
Used(j) == Helps(j, "use", "final")

\* The start of context.destroy_instance(): the id leaves the context under its lock.
HelperTakes(j) ==
    /\ \E from \in {"retreat", "final"} :
           /\ run[j].helper = from
           /\ run' = [run EXCEPT
                  ![j].taken = IF run[j].ctx = None THEN @ ELSE run[j].ctx,
                  ![j].ctx = None,
                  ![j].helper = IF run[j].ctx # None
                                THEN IF from = "retreat" THEN "retreating" ELSE "finalizing"
                                ELSE IF from = "retreat" THEN "choose" ELSE "over"]
    /\ UNCHANGED <<row, vast, sweep, recovering, faults>>

\* Deliberately not wrapped: when the destroy of one offer's instance fails the next
\* offer is not tried.
AfterRetreat_TriesNext(ok) == {"choose"}
AfterRetreat(ok) == IF ok THEN {"choose", "over"} ELSE {"over"}

HelperDestroys(j) ==
    /\ run[j].helper \in {"retreating", "finalizing"}
    /\ \E ok \in BOOLEAN :
           /\ IF ok THEN DestroySucceeds(j) ELSE DestroyFails(j)
           /\ \E next \in IF run[j].helper = "retreating" THEN AfterRetreat(ok) ELSE {"over"} :
                  run' = [run EXCEPT ![j].helper = next, ![j].taken = None]
    /\ UNCHANGED <<sweep, recovering>>

--------------------------------------------------------------------------------
(* The worker: process_job around whisper_client.transcribe *)

\* FOR UPDATE SKIP LOCKED; recovery is over before the first worker starts.
Claim(j) ==
    /\ Serving
    /\ row[j].status = "queued" /\ Free(j)
    /\ row' = [row EXCEPT ![j].status = "active"]
    /\ run' = [run EXCEPT ![j] = [NoRun EXCEPT !.worker = "working"]]
    /\ UNCHANGED <<vast, sweep, recovering, faults>>

\* The commit of the next stage overwrites what an operator made of the status.
Active(j) == IF Exists(j) THEN [row EXCEPT ![j].status = "active"] ELSE row

Transcribe(j) ==
    /\ run[j].worker = "working" /\ Exists(j)
    /\ row' = Active(j)
    /\ run' = [run EXCEPT ![j].worker = "waiting", ![j].helper = "choose"]
    /\ UNCHANGED <<vast, sweep, recovering, faults>>

\* A transcript exists already, or a stage before the transcription fails.
NoTranscription(j) ==
    /\ run[j].worker = "working"
    /\ \/ row' = Active(j) /\ run' = [run EXCEPT ![j].worker = "finishing"]
       \/ UNCHANGED row /\ run' = [run EXCEPT ![j].worker = "failing"]
    /\ UNCHANGED <<vast, sweep, recovering, faults>>

\* results.get() returns.  After an error a fallback provider may still transcribe, but
\* nobody comes back to an instance that an escaping exception left in the context.
TakeResult(j) ==
    /\ run[j].worker = "waiting" /\ run[j].helper = "over"
    /\ \/ /\ run[j].ctx = None /\ Free(j)
          /\ row' = Active(j)
          /\ run' = [run EXCEPT ![j].worker = "finishing"]
          /\ UNCHANGED vast
       \/ /\ run' = [run EXCEPT ![j].worker = "failing", ![j].ctx = None]
          /\ vast' = IF run[j].ctx = None THEN vast
                     ELSE [vast EXCEPT ![run[j].ctx].lost = TRUE]
          /\ UNCHANGED row
    /\ UNCHANGED <<sweep, recovering, faults>>

\* results.get() times out: context.cancel().
TimeOut(j) ==
    /\ run[j].worker = "waiting" /\ run[j].late
    /\ run' = [run EXCEPT ![j].worker = "cancelled"]
    /\ UNCHANGED <<row, vast, sweep, recovering, faults>>

WorkerTakes(j) ==
    /\ run[j].worker = "cancelled"
    /\ run' = [run EXCEPT
           ![j].worker = IF run[j].ctx = None THEN "failing" ELSE "destroying",
           ![j].taken = IF run[j].ctx = None THEN @ ELSE run[j].ctx,
           ![j].ctx = None]
    /\ UNCHANGED <<row, vast, sweep, recovering, faults>>

WorkerDestroys(j) ==
    /\ run[j].worker = "destroying"
    /\ DestroySucceeds(j) \/ DestroyFails(j)
    /\ run' = [run EXCEPT ![j].worker = "failing", ![j].taken = None]
    /\ UNCHANGED <<sweep, recovering>>

\* _set_job_status: a session that finds the row gone raises, and nothing is written.
Settled(j, failed) ==
    IF Exists(j) THEN [row EXCEPT ![j].status = "settled", ![j].failed = failed] ELSE row

\* The last commit of process_job, or that of its except block.  When the database is away
\* for that one too, the loop logs it and the row stays active without a thread.
Settle(j) ==
    /\ \/ run[j].worker = "failing"
       \/ run[j].worker = "finishing" /\ row[j].failed # "ripe"
    /\ \/ Free(j) /\ row' = Settled(j, row[j].failed) /\ UNCHANGED faults
       \/ Fault /\ UNCHANGED row
    /\ run' = [run EXCEPT ![j].worker = "none"]
    /\ UNCHANGED <<vast, sweep, recovering>>

\* A job about to be done has a failed destroy older than the floor: try once more.
BeginLastChance(j) ==
    /\ run[j].worker = "finishing" /\ row[j].failed = "ripe"
    /\ run' = [run EXCEPT ![j].worker = "lastChance"]
    /\ UNCHANGED <<row, vast, sweep, recovering, faults>>

LastChance(j) ==
    /\ run[j].worker = "lastChance" /\ Free(j)
    /\ \/ Confirm(row[j].id) /\ row' = Settled(j, "no")
       \/ Unconfirmed(row[j].id, ~Exists(j)) /\ row' = Settled(j, "fresh")
    /\ run' = [run EXCEPT ![j].worker = "none"]
    /\ UNCHANGED <<sweep, recovering, faults>>

DeadlinePasses(j) ==
    /\ run[j].helper # "none" /\ ~run[j].late
    /\ run' = [run EXCEPT ![j].late = TRUE]
    /\ UNCHANGED <<row, vast, sweep, recovering, faults>>

--------------------------------------------------------------------------------
(* The sweep: retry_failed_vast_destroys *)

Due_AllWithInstance(j) == Exists(j) /\ row[j].id # None
Due(j) == Exists(j) /\ row[j].id # None /\ row[j].failed = "ripe"

LockedBy(w) == {j \in Job : sweep[j].by = w}

SweepSelects(w) ==
    /\ Serving
    /\ LockedBy(w) = {}
    /\ LET due == {j \in Job : Due(j) /\ Free(j)}
       IN  /\ due # {}
           /\ sweep' = [j \in Job |->
                  IF j \in due THEN [by |-> w, verdict |-> "todo"] ELSE sweep[j]]
    /\ UNCHANGED <<row, run, vast, recovering, faults>>

SweepTries(w, j) ==
    /\ sweep[j] = [by |-> w, verdict |-> "todo"]
    /\ \/ Confirm(row[j].id) /\ sweep' = [sweep EXCEPT ![j].verdict = "cleared"]
       \/ Unconfirmed(row[j].id, FALSE) /\ sweep' = [sweep EXCEPT ![j].verdict = "failed"]
    /\ UNCHANGED <<row, run, recovering, faults>>

\* All rows are written and unlocked in one commit.
SweepCommits(w) ==
    /\ LockedBy(w) # {}
    /\ \A j \in LockedBy(w) : sweep[j].verdict # "todo"
    /\ row' = [j \in Job |->
           IF sweep[j].by # w THEN row[j]
           ELSE [row[j] EXCEPT !.failed =
                    IF sweep[j].verdict = "cleared" THEN "no" ELSE "fresh"]]
    /\ sweep' = [j \in Job |-> IF sweep[j].by = w THEN Unlocked ELSE sweep[j]]
    /\ UNCHANGED <<run, vast, recovering, faults>>

SweepAborts(w) ==
    /\ LockedBy(w) # {}
    /\ Fault
    /\ sweep' = [j \in Job |-> IF sweep[j].by = w THEN Unlocked ELSE sweep[j]]
    /\ UNCHANGED <<row, run, vast, recovering>>

FloorPasses(j) ==
    /\ row[j].failed = "fresh"
    /\ row' = [row EXCEPT ![j].failed = "ripe"]
    /\ UNCHANGED <<run, vast, sweep, recovering, faults>>

--------------------------------------------------------------------------------
(* The reaper, which knows nothing but what Vast lists *)

\* The reaper's ages (15 minutes loading, 60 in all) exceed what a transcription may
\* wait for an instance (10) and take in all (30).
Ages(i) ==
    /\ Alive(i) /\ ~vast[i].overdue
    /\ \A j \in Job : ~InUse(j, i)
    /\ vast' = [vast EXCEPT ![i].overdue = TRUE]
    /\ UNCHANGED <<row, run, sweep, recovering, faults>>

Reapable_CostOnly(i) == vast[i].dear
Reapable(i) == vast[i].dear \/ vast[i].overdue

\* What is alive here bills, so it has one of the statuses the reaper looks for
\* (_is_billable_status).  A DELETE that is lost changes nothing; the next round lists the
\* instance again.
Reap(i) ==
    /\ Serving
    /\ Alive(i) /\ Reapable(i)
    /\ vast' = [vast EXCEPT ![i].state = "gone"]
    /\ UNCHANGED <<row, run, sweep, recovering, faults>>

--------------------------------------------------------------------------------
(* Operators *)

\* An active job without a thread, with the instance of its last run: recovery failed on it,
\* or its thread could not settle it.
Stranded(j) ==
    row[j].status = "active" /\ run[j].worker = "none" /\ row[j].id # None

\* The next recovery would have destroyed the instance of a stranded job.
Cancel(j) ==
    /\ Serving /\ Free(j)
    /\ row[j].status \in {"queued", "active"}
    /\ row' = [row EXCEPT ![j].status = "settled"]
    /\ vast' = IF Stranded(j) /\ row[j].failed = "no"
               THEN [vast EXCEPT ![row[j].id].lost = TRUE] ELSE vast
    /\ UNCHANGED <<run, sweep, recovering, faults>>

\* With the row goes the only note of a destroy that failed.
Delete(j) ==
    /\ Serving /\ Free(j)
    /\ row[j].status = "settled"
    /\ row' = [row EXCEPT ![j].status = "deleted"]
    /\ vast' = IF row[j].failed = "no" THEN vast
               ELSE [vast EXCEPT ![row[j].id].lost = TRUE]
    /\ UNCHANGED <<run, sweep, recovering, faults>>

--------------------------------------------------------------------------------
(* Restart and recover_interrupted_jobs *)

\* What the threads held survives on a row that is still active and names it.
ForgottenAtRestart(i) ==
    \E j \in Job :
        InHand(j, i) /\ ~(row[j].status = "active" /\ row[j].id = i)

Restart ==
    /\ Fault
    /\ run' = [j \in Job |-> NoRun]
    /\ sweep' = [j \in Job |-> Unlocked]
    /\ vast' = [i \in Instance |->
           [vast[i] EXCEPT !.lost = @ \/ ForgottenAtRestart(i)]]
    /\ recovering' = {j \in Job : row[j].status = "active"}
    /\ UNCHANGED row

Recovered(j, status, failed) ==
    [row EXCEPT ![j].status = status, ![j].failed = failed]

RecoverRow_QueuesAnyway(j) ==
    /\ j \in recovering
    /\ \/ row[j].id = None /\ UNCHANGED vast /\ row' = Recovered(j, "queued", row[j].failed)
       \/ row[j].id # None /\ Confirm(row[j].id) /\ row' = Recovered(j, "queued", "no")
       \/ /\ row[j].id # None
          /\ Unconfirmed(row[j].id, FALSE)
          /\ row' = Recovered(j, "queued", "fresh")
    /\ recovering' = recovering \ {j}
    /\ UNCHANGED <<run, sweep, faults>>
RecoverRow(j) ==
    /\ j \in recovering
    /\ \/ row[j].id = None /\ UNCHANGED vast /\ row' = Recovered(j, "queued", row[j].failed)
       \/ row[j].id # None /\ Confirm(row[j].id) /\ row' = Recovered(j, "queued", "no")
       \/ /\ row[j].id # None
          /\ Unconfirmed(row[j].id, FALSE)
          /\ row' = Recovered(j, "settled", "fresh")
    /\ recovering' = recovering \ {j}
    /\ UNCHANGED <<run, sweep, faults>>

\* The error is logged and the workers start; the other rows wait for the next start.
RecoveryFails ==
    /\ recovering # {}
    /\ Fault
    /\ recovering' = {}
    /\ UNCHANGED <<row, run, vast, sweep>>

--------------------------------------------------------------------------------

HelperStep(j) ==
    \/ Ask(j) \/ Create(j) \/ CreateUnanswered(j) \/ CreateRefused(j) \/ GiveUp(j)
    \/ RecordCreated(j) \/ RecordCreatedRaises(j) \/ Adopt(j)
    \/ Ready(j) \/ NotReady(j) \/ WaitEscapes(j) \/ Used(j)
    \/ HelperTakes(j) \/ HelperDestroys(j)

WorkerStep(j) ==
    \/ Claim(j) \/ Transcribe(j) \/ NoTranscription(j) \/ TakeResult(j)
    \/ TimeOut(j) \/ WorkerTakes(j) \/ WorkerDestroys(j)
    \/ Settle(j) \/ BeginLastChance(j) \/ LastChance(j)

Next ==
    \/ \E j \in Job :
           \/ HelperStep(j) \/ WorkerStep(j) \/ DeadlinePasses(j) \/ FloorPasses(j)
           \/ Cancel(j) \/ Delete(j) \/ RecoverRow(j)
    \/ \E w \in Sweeper :
           \/ SweepSelects(w) \/ SweepCommits(w) \/ SweepAborts(w)
           \/ \E j \in Job : SweepTries(w, j)
    \/ \E i \in Instance : Ages(i) \/ Reap(i)
    \/ Restart \/ RecoveryFails

Spec == Init /\ [][Next]_vars

\* The clock runs; workers and the reaper loop for as long as the process lives; and a
\* destroy that is repeated is confirmed at some point.
Fairness ==
    /\ \A j \in Job : WF_vars(DeadlinePasses(j)) /\ WF_vars(FloorPasses(j))
                      /\ WF_vars(RecoverRow(j))
    /\ \A i \in Instance : WF_vars(Ages(i)) /\ WF_vars(Reap(i))
    /\ \A w \in Sweeper : WF_vars(SweepSelects(w)) /\ WF_vars(SweepCommits(w))
    /\ \A w \in Sweeper, j \in Job :
           /\ WF_vars(SweepTries(w, j))
           /\ SF_vars(SweepTries(w, j) /\ sweep'[j].verdict = "cleared")

FairSpec == Spec /\ Fairness

--------------------------------------------------------------------------------
(* Properties *)

TypeOK ==
    /\ row \in [Job -> Row]
    /\ run \in [Job -> Run]
    /\ vast \in [Instance -> Contract]
    /\ sweep \in [Job -> Sweep]
    /\ recovering \subseteq Job
    /\ faults \in 0 .. MaxFaults

\* Job j, its threads or its row, leads to the destruction of the instance.
Remembered(j, i) ==
    \/ InHand(j, i)
    \/ row[j].id = i /\ ((Exists(j) /\ row[j].failed # "no") \/ Stranded(j))

\* Nothing rented falls between the owners: an instance that bills is in the hands of a
\* thread, on the sweep's list, or on the row of an interrupted job, unless a fault the
\* model names took it out of the books (destroy_instance, the sweep, recovery).
NothingForgotten ==
    \A i \in Instance : Alive(i) => vast[i].lost \/ \E j \in Job : Remembered(j, i)

\* A job goes back to the queue only when the instance it rented is gone for certain
\* (recover_interrupted_jobs), so its next run cannot rent a second one beside it.
QueuedHoldsNone ==
    \A j \in Job :
        row[j].status = "queued" /\ row[j].id # None => ~Alive(row[j].id)

\* "the job has a single bookkeeping slot" (whisper_client.py:1001): the record of an
\* instance that may still bill is never replaced by that of another one, although a run
\* rents one instance after another.
SlotKept ==
    [][\A j \in Job :
          row[j].id # None /\ Alive(row[j].id) => row'[j].id = row[j].id]_vars

\* Sweep, last chance, recovery and reaper work beside the running jobs and never destroy
\* an instance a transcription works with, the reaper's cost rule aside.
InUseSurvives ==
    [][\A j \in Job, i \in Instance :
          InUse(j, i) /\ Alive(i) /\ ~vast[i].dear => vast'[i].state = "alive"]_vars

\* The reaper destroys orphans (vast_reaper.py:1), never what a job works with.
OnlyOrphansReaped ==
    [][\A j \in Job, i \in Instance :
          InUse(j, i) /\ Alive(i) => vast'[i].state = "alive"]_vars

\* The threads of a job share one instance: it moves from the helper's hands to the
\* context, and from there to whoever destroys it.
Threads(j) ==
    LET r == run[j]
    IN  /\ r.new # None <=> r.helper \in {"record", "adopt"}
        /\ r.taken # None <=> (r.helper \in {"retreating", "finalizing"} \/ r.worker = "destroying")
        /\ r.worker = "destroying" =>
               r.helper \in {"choose", "wait", "use", "retreat", "final", "over"}
        /\ r.ctx # None =>
               /\ r.taken = None
               /\ r.helper \in {"wait", "use", "retreat", "final", "over"}
               /\ r.worker \in {"waiting", "cancelled"} \/ r.helper = "final"
        /\ ~r.late /\ r.helper \in {"wait", "use", "retreat"} => r.ctx # None
        /\ r.worker \in {"waiting", "cancelled"} => r.helper # "none"
        /\ r.worker = "working" => r.helper = "none"
        /\ r.worker \in {"finishing", "lastChance"} => r.helper \in {"none", "over"}
        /\ r.worker \in {"cancelled", "destroying"} => r.late
        /\ ~r.late /\ r.helper \notin {"none", "over"} => r.worker = "waiting"

SlotFree(j) == row[j].failed = "no" /\ (row[j].id # None => ~Alive(row[j].id))

\* May still rent an instance.
Renting(j) ==
    \/ run[j].worker = "working" \/ run[j].helper \in {"asking", "record"}
    \/ run[j].helper = "choose" /\ ~run[j].late

\* The row names the instance its threads hold, and has room before they rent one.
Books(j) ==
    /\ row[j].failed # "no" \/ run[j].worker = "lastChance" => row[j].id # None
    /\ row[j].status = "queued" => run[j] = NoRun /\ SlotFree(j)
    /\ Exists(j) /\ Renting(j) => SlotFree(j)
    /\ run[j].helper = "record" => row[j].id # run[j].new
    /\ Exists(j) =>
           \A i \in Instance :
               (run[j].helper = "adopt" /\ run[j].new = i) \/ run[j].ctx = i \/ run[j].taken = i =>
                   row[j].id = i /\ row[j].failed = "no"

Locks(j) ==
    /\ sweep[j].by = None <=> sweep[j].verdict = "none"
    /\ sweep[j].by # None => Exists(j) /\ row[j].failed = "ripe"
    /\ sweep[j].verdict = "cleared" => ~Alive(row[j].id)

Owns(j, i) == InHand(j, i) \/ row[j].id = i

Ownership ==
    /\ \A j, k \in Job, i \in Instance : Owns(j, i) /\ Owns(k, i) => j = k
    /\ \A j \in Job, i \in Instance : Owns(j, i) => vast[i].state # "free"
    /\ \A j \in Job, i \in Instance : vast[i].overdue => ~InUse(j, i)

RecoveryAlone ==
    /\ recovering # {} => \A j \in Job : run[j] = NoRun /\ sweep[j] = Unlocked
    /\ \A j \in recovering : row[j].status = "active"

\* Inductive; it implies QueuedHoldsNone and, step by step, SlotKept and InUseSurvives.
IInv ==
    /\ TypeOK
    /\ \A j \in Job : Threads(j) /\ Books(j) /\ Locks(j)
    /\ Ownership
    /\ RecoveryAlone
    /\ NothingForgotten

\* Whatever is forgotten, every instance is destroyed in the end (run_vast_reaper_loop).
EveryInstanceEnds == \A i \in Instance : Alive(i) ~> ~Alive(i)

\* A row leaves the sweep's list in the end, also when the DELETE had landed long ago
\* ("otherwise the destroy sweep re-fires this DELETE forever", _destroy_instance).
FailedDestroyEnds ==
    \A j \in Job : row[j].failed # "no" ~> row[j].failed = "no" \/ ~Exists(j)
================================================================================
