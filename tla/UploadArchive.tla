----------------------------- MODULE UploadArchive -----------------------------
(***************************************************************************)
(* The source file of an uploaded video or recording, and its archival     *)
(* copy.  POST /jobs/upload stages the file and moves it into the          *)
(* directory of its job; the worker transcribes it, and when the text is   *)
(* saved makes a smaller copy, stores that in a bucket and removes the     *)
(* directory.  A copy that fails is noted on the transcript and made later *)
(* by a sweep, which every worker runs before it looks for a job.          *)
(*                                                                         *)
(* One action is one transaction, or one access to the file system.  As in *)
(* JobPipeline a session neither expires nor flushes by itself: a worker   *)
(* acts on the rows it has loaded, and partial.job_id, once assigned,      *)
(* lands with the commit that follows.                                     *)
(*                                                                         *)
(* All jobs are uploads of one owner.  Webhooks (an upload has no          *)
(* callback), spend caps, rentals and a recovery that breaks off are left  *)
(* out.                                                                    *)
(***************************************************************************)
EXTENDS Naturals, FiniteSets, Sequences

CONSTANTS
    Content,        \* what can be uploaded: the key is a hash of it
    Worker,
    Nothing,        \* no content
    Limit,          \* rows that one sweep takes
    MaxJobs,        \* job rows ever inserted
    MaxTranscripts, \* transcript rows ever inserted
    MaxFaults,      \* restarts, and database outages a worker meets
    MaxOrders       \* cancellations, retries and deletions by operators

ASSUME ArchiveAssumption ==
    /\ Nothing \notin Content /\ Limit \in Nat \ {0}
    /\ MaxJobs \in Nat /\ MaxTranscripts \in Nat /\ MaxFaults \in Nat /\ MaxOrders \in Nat

VARIABLES
    jobs,           \* job rows
    trs,            \* transcript rows, with the columns about the copy
    source,         \* does the directory of a job hold a file
    configured,     \* media_store.is_configured()
    upload,         \* the request under way: its content, and its job once that has a file
    worker,
    faults, orders,
    bereft,         \* ghost: jobs without a file by a named event: they failed hard, took over
                    \* a transcript without one, or ran again while a sweep made the copy
    leaked          \* ghost: jobs whose file a named event has made useless

vars == <<jobs, trs, source, configured, upload, worker, faults, orders, bereft, leaked>>
bounds == <<faults, orders>>

JobId == 1 .. MaxJobs
TrId == 1 .. MaxTranscripts
Active == {"queued", "midstage"}        \* midstage: downloading, transcribing, summarizing
Job == [status : Active \cup {"archiving", "done", "failed", "unborn", "deleted"},
        content : Content \cup {Nothing}, summarize : BOOLEAN]
NoJob == [status |-> "unborn", content |-> Nothing, summarize |-> TRUE]
\* media_object_key, and media_error: none, one to try again, or one ending in "(permanent)".
Transcript == [job : JobId \cup {0}, content : Content \cup {Nothing}, summary : BOOLEAN,
               key : BOOLEAN, error : {"none", "retry", "permanent"}]
NoTranscript == [job |-> 0, content |-> Nothing, summary |-> FALSE, key |-> FALSE, error |-> "none"]

\* Where a thread is: in the sweep, or with a job.
SweepPc == {"sweep", "transcode", "stored"}
JobPc == {"begin", "probed", "transcribe", "text", "summarize", "archive", "copied", "finish",
          "discard"}
Row == [tr : TrId, job : JobId]         \* a transcript as a sweep has loaded it
WorkerState == [at : {"idle", "claim"} \cup SweepPc \cup JobPc, todo : Seq(Row),
                holds : SUBSET TrId,    \* rows locked by its transaction
                job : JobId \cup {0}, file : BOOLEAN, tr : TrId \cup {0},
                takes : BOOLEAN,        \* partial.job_id is assigned and not committed
                error : BOOLEAN]        \* media_error was set when the row was loaded
Idle == [at |-> "idle", todo |-> <<>>, holds |-> {}, job |-> 0, file |-> FALSE, tr |-> 0,
         takes |-> FALSE, error |-> FALSE]

ArchiveInit ==
    /\ jobs = [j \in JobId |-> NoJob] /\ trs = [t \in TrId |-> NoTranscript]
    /\ source = [j \in JobId |-> FALSE] /\ configured = TRUE
    /\ upload = [content |-> Nothing, job |-> 0]
    /\ worker = [w \in Worker |-> Idle]
    /\ faults = 0 /\ orders = 0 /\ bereft = {} /\ leaked = {}

--------------------------------------------------------------------------------
(* The tables *)

Exists(j) == jobs[j].status \notin {"unborn", "deleted"}
TrExists(t) == trs[t].job # 0
Waiting(t) == TrExists(t) /\ ~trs[t].key /\ trs[t].error = "retry"
Partials(c) == {t \in TrId : TrExists(t) /\ trs[t].content = c /\ ~trs[t].summary}

\* The id sequences: the first id never used.  A deleted transcript keeps its content.
Fresh(ids, used) == {i \in ids \ used : 1 .. (i - 1) \subseteq used}
UsedJobs == {j \in JobId : jobs[j].status # "unborn"}
UsedTrs == {t \in TrId : trs[t].content # Nothing}
NewJob_Skips == {j + 1 : j \in Fresh(JobId, UsedJobs)}
NewJob == Fresh(JobId, UsedJobs)
NewTr == Fresh(TrId, UsedTrs)

\* transcripts.job_id is unique and references a job row.
MayOwn(j, t) == Exists(j) /\ \A u \in TrId \ {t} : trs[u].job # j

\* A row that the transaction of another worker's sweep holds is not written meanwhile.
Free(w, t) == \A x \in Worker \ {w} : t \notin worker[x].holds

Runs(w) == worker[w].at \in JobPc
Held(j) == \E w \in Worker : Runs(w) /\ worker[w].job = j
Leaks(js) == leaked' = leaked \cup {j \in js \cap JobId : source[j]}

--------------------------------------------------------------------------------
(* Handlers *)

\* create_upload_job: a finished transcript or an active job of the same content answers.
\* (The handler is async and awaits nothing from here on: one request at a time.)
Stage(c) ==
    /\ upload.content = Nothing
    /\ ~\E t \in TrId : TrExists(t) /\ trs[t].content = c /\ trs[t].summary
    /\ ~\E j \in JobId : jobs[j].status \in Active /\ jobs[j].content = c
    /\ configured /\ NewJob # {}
    /\ upload' = [content |-> c, job |-> 0]
    /\ UNCHANGED <<jobs, trs, source, configured, worker, bounds, bereft, leaked>>

\* promote_to_job: the row has been flushed and has an id, which is used up; nobody sees it
\* before the commit.
Promote ==
    /\ upload.content # Nothing /\ upload.job = 0
    /\ \E j \in NewJob :
        /\ jobs' = [jobs EXCEPT ![j].status = "deleted"]
        /\ source' = [source EXCEPT ![j] = TRUE]
        /\ upload' = [upload EXCEPT !.job = j]
    /\ UNCHANGED <<trs, configured, worker, bounds, bereft, leaked>>

\* The commit, or an exception that takes the file back.
Accept ==
    /\ upload.job # 0
    /\ \E summarize \in BOOLEAN :
        jobs' = [jobs EXCEPT ![upload.job] =
            [status |-> "queued", content |-> upload.content, summarize |-> summarize]]
    /\ upload' = [content |-> Nothing, job |-> 0]
    /\ UNCHANGED <<trs, source, configured, worker, bounds, bereft, leaked>>

Withdrawn_Stays == source
Withdrawn == [source EXCEPT ![upload.job] = FALSE]

Reject ==
    /\ upload.job # 0
    /\ source' = Withdrawn
    /\ upload' = [content |-> Nothing, job |-> 0]
    /\ UNCHANGED <<jobs, trs, configured, worker, bounds, bereft, leaked>>

Orders == orders < MaxOrders /\ orders' = orders + 1

\* A thread that runs the job goes on; without one nobody looks at its file again.
Cancel(j) ==
    /\ Orders /\ jobs[j].status \in Active \cup {"archiving"}
    /\ jobs' = [jobs EXCEPT ![j].status = "failed"]
    /\ Leaks(IF Held(j) THEN {} ELSE {j})
    /\ UNCHANGED <<trs, source, configured, upload, worker, faults, bereft>>

\* A new job of the same content, without a file, and with a summary.
Retry(j) ==
    /\ Orders /\ jobs[j].status \in {"done", "failed"}
    /\ ~\E i \in JobId \ {j} : jobs[i].status \in Active /\ jobs[i].content = jobs[j].content
    /\ \E i \in NewJob :
        jobs' = [jobs EXCEPT ![i] =
            [status |-> "queued", content |-> jobs[j].content, summarize |-> TRUE]]
    /\ UNCHANGED <<trs, source, configured, upload, worker, faults, bereft, leaked>>

\* archiving is not among the active statuses.  The transcript goes with its job; the
\* directory stays.
Delete(j) ==
    /\ Orders /\ jobs[j].status \in {"done", "failed", "archiving"}
    /\ \A t \in TrId, w \in Worker : trs[t].job = j => t \notin worker[w].holds
    /\ jobs' = [jobs EXCEPT ![j].status = "deleted"]
    /\ trs' = [t \in TrId |-> IF trs[t].job = j THEN [NoTranscript EXCEPT !.content = trs[t].content]
                                               ELSE trs[t]]
    /\ Leaks(IF Held(j) THEN {} ELSE {j})
    /\ UNCHANGED <<source, configured, upload, worker, faults, bereft>>

Handler ==
    \/ \E c \in Content : Stage(c)
    \/ Promote \/ Accept \/ Reject
    \/ \E j \in JobId : Cancel(j) \/ Retry(j) \/ Delete(j)

--------------------------------------------------------------------------------
(* retry_pending_archives *)

Due == {t \in TrId : Waiting(t)}

\* FOR UPDATE SKIP LOCKED, in the order of the ids.
Batch(w) ==
    LET free == {t \in Due : Free(w, t)}
    IN  {t \in free : Cardinality({u \in free : u < t}) < Limit}

BeginSweep(w) ==
    /\ worker[w].at = "idle"
    /\ IF configured /\ Batch(w) # {}
       THEN \E batch \in [1 .. Cardinality(Batch(w)) -> Batch(w)] :
                /\ \A i, k \in DOMAIN batch : i < k => batch[i] < batch[k]
                /\ worker' = [worker EXCEPT ![w] = [Idle EXCEPT
                       !.at = "sweep", !.holds = Batch(w),
                       !.todo = [i \in DOMAIN batch |->
                           [tr |-> batch[i], job |-> trs[batch[i]].job]]]]
       ELSE worker' = [worker EXCEPT ![w] = [Idle EXCEPT !.at = "claim"]]
    /\ UNCHANGED <<jobs, trs, source, configured, upload, bounds, bereft, leaked>>

\* On to the next row; every commit releases all the rows.
Moves(w) ==
    LET rest == Tail(worker[w].todo)
    IN  worker' = [worker EXCEPT ![w] = [Idle EXCEPT
            !.todo = rest, !.at = IF rest = <<>> THEN "claim" ELSE "sweep"]]
Leaves(w) == worker' = [worker EXCEPT ![w] = Idle]

\* Another job may own the row by now: nobody makes a copy of its file any more.
LeaksMoved(r) == Leaks({trs[r.tr].job} \ {r.job})

\* find_source: without a file the error becomes permanent; without a job the row is passed
\* over.  A write to a row that is gone raises, and run_worker starts again.
SweepLooks(w) ==
    /\ worker[w].at = "sweep"
    /\ LET r == Head(worker[w].todo)
       IN  IF ~source[r.job]
           THEN /\ Free(w, r.tr)
                /\ IF TrExists(r.tr)
                   THEN trs' = [trs EXCEPT ![r.tr].error = "permanent"] /\ Moves(w)
                   ELSE UNCHANGED trs /\ Leaves(w)
                /\ LeaksMoved(r)
           ELSE /\ UNCHANGED <<trs, leaked>>
                /\ IF Exists(r.job)
                   THEN worker' = [worker EXCEPT ![w].at = "transcode"]
                   ELSE Moves(w)
    /\ UNCHANGED <<jobs, source, configured, upload, bounds, bereft>>

\* ffmpeg or the bucket fails; the text of the error may be the one that is there already.
SweepFails(w) ==
    /\ worker[w].at = "transcode"
    /\ LET t == Head(worker[w].todo).tr
       IN  \/ UNCHANGED trs /\ Moves(w)
           \/ /\ Free(w, t)
              /\ IF TrExists(t) THEN trs' = [trs EXCEPT ![t].error = "retry"] /\ Moves(w)
                                ELSE UNCHANGED trs /\ Leaves(w)
    /\ UNCHANGED <<jobs, source, configured, upload, bounds, bereft, leaked>>

Copied(t) == [trs EXCEPT ![t].key = TRUE, ![t].error = "none"]

SweepSucceeds(w) ==
    /\ worker[w].at = "transcode"
    /\ LET r == Head(worker[w].todo)
       IN  /\ Free(w, r.tr)
           /\ IF TrExists(r.tr)
              THEN /\ trs' = Copied(r.tr)
                   /\ worker' = [worker EXCEPT ![w].at = "stored", ![w].holds = {}]
              ELSE UNCHANGED trs /\ Leaves(w)
           /\ LeaksMoved(r)
    /\ UNCHANGED <<jobs, source, configured, upload, bounds, bereft>>

\* uploads.cleanup(transcript.job_id)
SweepCleans(w) ==
    /\ worker[w].at = "stored"
    /\ LET r == Head(worker[w].todo)
           again == trs[r.tr].job # r.job \/ Held(r.job) \/ jobs[r.job].status \in Active
       IN  /\ source' = [source EXCEPT ![r.job] = FALSE]
           /\ bereft' = IF again THEN bereft \cup {r.job} ELSE bereft
    /\ Moves(w)
    /\ UNCHANGED <<jobs, trs, configured, upload, bounds, leaked>>

\* The database is away.
SweepBreaks(w) ==
    /\ worker[w].at \in {"sweep", "transcode"}
    /\ faults < MaxFaults /\ faults' = faults + 1
    /\ Leaves(w)
    /\ UNCHANGED <<jobs, trs, source, configured, upload, orders, bereft, leaked>>

--------------------------------------------------------------------------------
(* process_job, from the claim on *)

Claim(w) ==
    /\ worker[w].at = "claim"
    /\ LET queued == {j \in JobId : jobs[j].status = "queued"}
       IN  IF queued = {}
           THEN Leaves(w) /\ UNCHANGED jobs
           ELSE \E j \in queued :
                /\ \A i \in queued : j <= i
                /\ jobs' = [jobs EXCEPT ![j].status = "midstage"]
                /\ worker' = [worker EXCEPT ![w] =
                       [Idle EXCEPT !.at = "begin", !.job = j, !.file = source[j]]]
    /\ UNCHANGED <<trs, source, configured, upload, bounds, bereft, leaked>>

\* The newest partial of the content, taken over when it is another job's; without one the
\* file is probed and looked at again.
FindPartial(w) ==
    /\ worker[w].at \in {"begin", "probed"}
    /\ LET partials == Partials(jobs[worker[w].job].content)
       IN  \/ \E t \in partials :
                /\ \A u \in partials : u <= t
                /\ worker' = [worker EXCEPT ![w] =
                       [@ EXCEPT !.at = "text", !.tr = t, !.takes = trs[t].job # worker[w].job,
                                 !.error = trs[t].error # "none"]]
           \/ /\ partials = {} /\ worker[w].at = "begin" /\ worker[w].file
              /\ worker' = [worker EXCEPT ![w].at = "probed"]
    /\ UNCHANGED <<jobs, trs, source, configured, upload, bounds, bereft, leaked>>

StartTranscribing(w) ==
    /\ worker[w].at = "probed" /\ Exists(worker[w].job)
    /\ Partials(jobs[worker[w].job].content) = {}
    /\ jobs' = [jobs EXCEPT ![worker[w].job].status = "midstage"]
    /\ worker' = [worker EXCEPT ![w].at = "transcribe"]
    /\ UNCHANGED <<trs, source, configured, upload, bounds, bereft, leaked>>

SaveTranscript(w) ==
    /\ worker[w].at = "transcribe"
    /\ \E t \in NewTr :
        /\ MayOwn(worker[w].job, t)
        /\ trs' = [trs EXCEPT ![t] =
               [NoTranscript EXCEPT !.job = worker[w].job, !.content = jobs[worker[w].job].content]]
        /\ worker' = [worker EXCEPT ![w] = [@ EXCEPT !.at = "text", !.tr = t]]
    /\ UNCHANGED <<jobs, source, configured, upload, bounds, bereft, leaked>>

\* Any commit of the thread also lands "partial.job_id = job.id".  useless: the file is.
CanCommit(w) ==
    /\ Exists(worker[w].job)
    /\ worker[w].takes => /\ TrExists(worker[w].tr) /\ MayOwn(worker[w].job, worker[w].tr)
                          /\ Free(w, worker[w].tr)
Commit(w, status, tr, useless) ==
    /\ CanCommit(w)
    /\ jobs' = [jobs EXCEPT ![worker[w].job].status = status]
    /\ trs' = [trs EXCEPT ![worker[w].tr] =
           IF worker[w].takes THEN [tr EXCEPT !.job = worker[w].job] ELSE tr]
    /\ bereft' = bereft \cup (IF worker[w].takes /\ ~worker[w].file THEN {worker[w].job} ELSE {})
    /\ Leaks((IF worker[w].takes THEN {trs[worker[w].tr].job} ELSE {})
             \cup (IF useless THEN {worker[w].job} ELSE {}))
    /\ UNCHANGED <<source, configured, upload, bounds>>

Goto(w, at) == worker' = [worker EXCEPT ![w] = [@ EXCEPT !.at = at, !.takes = FALSE]]

StartSummarizing(w) ==
    /\ worker[w].at = "text" /\ jobs[worker[w].job].summarize
    /\ Commit(w, "midstage", trs[worker[w].tr], FALSE)
    /\ Goto(w, "summarize")

\* The text is complete (with summarize = FALSE, at once): the row is locked and read again,
\* and its summary lands with the first commit of _maybe_archive.  Without a file, or without
\* a bucket, there is nothing to archive now.
Complete(w) ==
    LET t == worker[w].tr
        summarized == worker[w].at = "summarize"
        row == IF summarized THEN [trs[t] EXCEPT !.summary = TRUE] ELSE trs[t]
        loaded == IF summarized THEN trs[t].error # "none" ELSE worker[w].error
    IN  /\ worker[w].at = "summarize" \/ (worker[w].at = "text" /\ ~jobs[worker[w].job].summarize)
        /\ summarized => TrExists(t) /\ Free(w, t)
        /\ \/ /\ ~worker[w].file
              /\ Commit(w, "done", row, FALSE) /\ worker' = [worker EXCEPT ![w] = Idle]
           \/ /\ worker[w].file /\ ~configured /\ TrExists(t) /\ Free(w, t)
              /\ \E error \in {"retry"} \cup (IF loaded THEN {row.error} ELSE {}) :
                    Commit(w, jobs[worker[w].job].status, [row EXCEPT !.error = error],
                           row.key \/ error # "retry")
              /\ Goto(w, "finish")
           \/ /\ worker[w].file /\ configured
              /\ Commit(w, "archiving", row, FALSE)
              /\ worker' = [worker EXCEPT ![w] =
                     [@ EXCEPT !.at = "archive", !.takes = FALSE, !.error = loaded]]

\* The copy fails: the job ends all the same, and the file stays for the sweep.
ArchiveFails_Discards(w) ==
    /\ worker[w].at = "archive" /\ Exists(worker[w].job)
    /\ TrExists(worker[w].tr) /\ Free(w, worker[w].tr)
    /\ trs' = [trs EXCEPT ![worker[w].tr].error = "retry"]
    /\ source' = [source EXCEPT ![worker[w].job] = FALSE]
    /\ Goto(w, "finish")
    /\ UNCHANGED <<jobs, configured, upload, bounds, bereft, leaked>>

ArchiveFails(w) ==
    LET t == worker[w].tr
        j == worker[w].job
    IN  /\ worker[w].at = "archive" /\ Exists(j) /\ TrExists(t) /\ Free(w, t)
        /\ \/ trs' = [trs EXCEPT ![t].error = "retry"]
           \/ worker[w].error /\ UNCHANGED trs
        \* The sweep does not look for a row that has its copy, is another job's by now, or
        \* was given up.
        /\ Leaks(IF trs'[t].key \/ trs'[t].job # j \/ trs'[t].error # "retry" THEN {j} ELSE {})
        /\ Goto(w, "finish")
        /\ UNCHANGED <<jobs, source, configured, upload, bounds, bereft>>

ArchiveSucceeds(w) ==
    LET t == worker[w].tr
    IN  /\ worker[w].at = "archive" /\ Exists(worker[w].job) /\ TrExists(t) /\ Free(w, t)
        /\ source[worker[w].job]
        /\ trs' = [trs EXCEPT ![t].key = TRUE, ![t].error = IF worker[w].error THEN "none" ELSE @]
        \* The job that owns the row by now may wait for the sweep in vain.
        /\ Leaks({trs[t].job} \ {worker[w].job})
        /\ Goto(w, "copied")
        /\ UNCHANGED <<jobs, source, configured, upload, bounds, bereft>>

RemoveSource(w) ==
    /\ worker[w].at = "copied"
    /\ source' = [source EXCEPT ![worker[w].job] = FALSE]
    /\ Goto(w, "finish")
    /\ UNCHANGED <<jobs, trs, configured, upload, bounds, bereft, leaked>>

Finish(w) ==
    /\ worker[w].at = "finish" /\ Exists(worker[w].job)
    /\ jobs' = [jobs EXCEPT ![worker[w].job].status = "done"]
    /\ Leaves(w)
    /\ UNCHANGED <<trs, source, configured, upload, bounds, bereft, leaked>>

\* ffmpeg and the providers can fail; after the text is complete, only a row that is gone
\* makes the thread raise, or the database.
MayRaise(w) ==
    \/ worker[w].at \in {"begin", "probed", "transcribe", "text", "summarize"}
    \/ worker[w].at \in {"archive", "finish"} /\ ~Exists(worker[w].job)
    \/ worker[w].at = "archive" /\ ~TrExists(worker[w].tr)
Faulty(w) == ~MayRaise(w) /\ worker[w].at \in {"archive", "finish"} /\ faults < MaxFaults

\* The job is failed and its file discarded.
HandleException(w) ==
    /\ MayRaise(w) \/ Faulty(w)
    /\ faults' = IF Faulty(w) THEN faults + 1 ELSE faults
    /\ jobs' = IF Exists(worker[w].job) THEN [jobs EXCEPT ![worker[w].job].status = "failed"] ELSE jobs
    /\ Goto(w, "discard")
    /\ UNCHANGED <<trs, source, configured, upload, orders, bereft, leaked>>

Discard(w) ==
    /\ worker[w].at = "discard"
    /\ source' = [source EXCEPT ![worker[w].job] = FALSE]
    /\ bereft' = bereft \cup {worker[w].job}
    /\ Leaves(w)
    /\ UNCHANGED <<jobs, trs, configured, upload, bounds, leaked>>

\* The handler raises before it comes to the file.  A provider failed while no transaction was
\* open, so that the rollback expires nothing and the handler writes a row that is gone.
HandlerTrips(w) ==
    /\ worker[w].at \in {"transcribe", "summarize"} /\ ~Exists(worker[w].job)
    /\ Leaks({worker[w].job})
    /\ Leaves(w)
    /\ UNCHANGED <<jobs, trs, source, configured, upload, bounds, bereft>>

\* The database is away: the row keeps its status, the directory its file.
HandlerFails(w) ==
    /\ Runs(w) /\ worker[w].at \notin {"discard", "copied"}
    /\ faults < MaxFaults /\ faults' = faults + 1
    /\ Leaks(IF jobs[worker[w].job].status \in Active \cup {"archiving"} THEN {} ELSE {worker[w].job})
    /\ Leaves(w)
    /\ UNCHANGED <<jobs, trs, source, configured, upload, orders, bereft>>

--------------------------------------------------------------------------------
(* recover_interrupted_jobs *)

OwnedBy(j) == {t \in TrId : trs[t].job = j}
Interrupted == {j \in JobId : jobs[j].status = "archiving"}

\* What a crash leaves in the directory for good: the file of a request, of a thread whose job
\* was cancelled or deleted, of a transcript that has its copy, and of a sweep about to remove it.
Abandoned ==
    {j \in JobId : Held(j) /\ jobs[j].status \notin Active \cup {"archiving"}}
    \cup {upload.job}
    \cup {j \in Interrupted : \E t \in OwnedBy(j) : trs[t].key}
    \cup {Head(worker[w].todo).job : w \in {v \in Worker : worker[v].at = "stored"}}

RecoveredError(j) == IF source[j] THEN "retry" ELSE "permanent"

\* The process stops and starts; the bucket's settings may have changed.  A job whose text is
\* complete is not run again.
Restart ==
    /\ faults < MaxFaults /\ faults' = faults + 1
    /\ configured' \in BOOLEAN
    /\ worker' = [w \in Worker |-> Idle]
    /\ upload' = [content |-> Nothing, job |-> 0]
    /\ jobs' = [j \in JobId |-> [jobs[j] EXCEPT !.status =
           IF @ = "midstage" \/ (@ = "archiving" /\ OwnedBy(j) = {}) THEN "queued"
           ELSE IF @ = "archiving" THEN "done" ELSE @]]
    /\ trs' = [t \in TrId |-> IF trs[t].job \in Interrupted
                              THEN [trs[t] EXCEPT !.error = RecoveredError(trs[t].job)]
                              ELSE trs[t]]
    /\ Leaks(Abandoned)
    /\ UNCHANGED <<source, orders, bereft>>

--------------------------------------------------------------------------------

Sweep(w) == BeginSweep(w) \/ SweepLooks(w) \/ SweepFails(w) \/ SweepSucceeds(w) \/ SweepCleans(w)
Process(w) ==
    \/ Claim(w) \/ FindPartial(w) \/ StartTranscribing(w) \/ SaveTranscript(w)
    \/ StartSummarizing(w) \/ Complete(w) \/ ArchiveFails(w) \/ ArchiveSucceeds(w)
    \/ RemoveSource(w) \/ Finish(w)
Fails(w) == HandleException(w) \/ Discard(w) \/ HandlerTrips(w)
Outage(w) == SweepBreaks(w) \/ HandlerFails(w)

ArchiveNext ==
    \/ Handler \/ Restart
    \/ \E w \in Worker : Sweep(w) \/ Process(w) \/ Fails(w) \/ Outage(w)

ArchiveSpec == ArchiveInit /\ [][ArchiveNext]_vars

--------------------------------------------------------------------------------
(* Properties *)

\* Every value stays in its domain, and ids are handed out in order.
ArchiveTypeOK ==
    /\ UsedJobs = 1 .. Cardinality(UsedJobs) /\ UsedTrs = 1 .. Cardinality(UsedTrs)
    /\ jobs \in [JobId -> Job] /\ trs \in [TrId -> Transcript]
    /\ source \in [JobId -> BOOLEAN] /\ configured \in BOOLEAN
    /\ upload \in [content : Content \cup {Nothing}, job : JobId \cup {0}]
    /\ DOMAIN worker = Worker
    /\ \A w \in Worker :
        /\ worker[w].at \in {"idle", "claim"} \cup SweepPc \cup JobPc
        /\ worker[w].holds \subseteq TrId /\ worker[w].job \in JobId \cup {0}
        /\ worker[w].tr \in TrId \cup {0} /\ worker[w].file \in BOOLEAN
        /\ worker[w].takes \in BOOLEAN /\ worker[w].error \in BOOLEAN
        /\ \A i \in DOMAIN worker[w].todo : worker[w].todo[i] \in Row
    /\ faults \in 0 .. MaxFaults /\ orders \in 0 .. MaxOrders
    /\ bereft \subseteq JobId /\ leaked \subseteq JobId

\* A transcript whose copy is still to be made has its source, through failures, restarts, the
\* loss of the bucket, and two sweeps at once -- unless its job failed hard or bereft it over.
PendingHasSource == \A t \in TrId : Waiting(t) => source[trs[t].job] \/ trs[t].job \in bereft

\* A file in a job's directory has a use: the job is under way, its copy is still to be made,
\* a thread or a request has it in hand.  The exceptions are the named events of leaked.
SourcesAreNeeded ==
    \A j \in JobId : source[j] =>
        \/ j \in leaked \/ j = upload.job
        \/ jobs[j].status \in Active \cup {"archiving"} \/ Held(j)
        \/ \E t \in TrId : Waiting(t) /\ trs[t].job = j
        \/ \E w \in Worker : worker[w].at = "stored" /\ Head(worker[w].todo).job = j

(* What comments of the code say, and TLC refutes *)

Copying(w, t) == worker[w].at = "transcode" /\ Head(worker[w].todo).tr = t

\* retry_pending_archives: concurrent workers do not race on the same transcript.
SweepsDoNotRace ==
    \A t \in TrId : \A w, x \in Worker : Copying(w, t) /\ Copying(x, t) => w = x

\* recover_interrupted_jobs: an archiving job without a transcript should not happen.
ArchivingHasTranscript == \A j \in Interrupted : OwnedBy(j) # {}

\* recover_interrupted_jobs: when the file is gone the copy can never be produced.
LostMeansNoCopy == \A t \in TrId : trs[t].error = "permanent" => ~trs[t].key

\* retry_pending_archives: the media step of a waiting transcript is retried while its file
\* is there -- whether or not it, or any other, succeeds in the end.
ArchiveThreadsRun ==
    ArchiveSpec /\ \A w \in Worker : WF_vars(Sweep(w) \/ Process(w) \/ Fails(w))
PendingIsTried ==
    \A t \in TrId : Waiting(t) ~> \/ ~Waiting(t) \/ ~configured
                                  \/ \E w \in Worker : Copying(w, t)
================================================================================
