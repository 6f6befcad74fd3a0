------------------------------ MODULE JobPipeline ------------------------------
(***************************************************************************)
(* The jobs and transcripts tables of scribe-service, the worker threads   *)
(* that drive a job through the pipeline (worker/loop.py), the API         *)
(* handlers that create, cancel, retry and delete jobs and regenerate      *)
(* summaries (api/routes.py), and the restart that requeues what was       *)
(* interrupted.                                                            *)
(*                                                                         *)
(* One action is one database transaction, or one read on which a later    *)
(* transaction depends: between a worker's lookup and its commit, every    *)
(* other thread may run.  The SQLAlchemy sessions neither expire nor       *)
(* autoflush, so a worker acts on the row it loaded: it writes the next    *)
(* status whatever the row has become meanwhile.                           *)
(*                                                                         *)
(* Left out: owners (one owner submits everything), the media step of      *)
(* uploads, the Vast bookkeeping and the spend caps.                       *)
(***************************************************************************)
EXTENDS Naturals, FiniteSets

CONSTANTS
    Video,          \* resolved video keys (youtube:..., vimeo:..., ...)
    Pending,        \* keys of URLs whose video is known after the download
    Resolve,        \* the video each pending key turns out to be
    Worker,         \* the worker threads of one process
    Request,        \* API handlers that can be in flight at once
    None,           \* no job, no transcript, no text
    Text,           \* summary texts
    SummarizeFlag,  \* values POST /jobs receives for "summarize"
    Webhook,        \* values it receives for the callback: a subset of Hook
    MaxJobs,        \* bound: job rows ever inserted
    MaxTranscripts, \* bound: transcript rows ever inserted
    MaxRestarts,    \* bound: process restarts
    MaxCancels,     \* bound: operator cancellations
    MaxDeletes,     \* bound: operator deletions
    MaxFaults       \* bound: database outages met by a failure handler

Hook == {"none", "muted", "on"}   \* no callback_url; notify = FALSE; notify = TRUE

ASSUME PipelineAssumption ==
    /\ Video \cap Pending = {}
    /\ Resolve \in [Pending -> Video]
    /\ SummarizeFlag \subseteq BOOLEAN
    /\ Webhook \subseteq Hook
    /\ MaxJobs \in Nat /\ MaxTranscripts \in Nat
    /\ None \notin Nat /\ None \notin Text

Key == Video \cup Pending
JobId == 1 .. MaxJobs
TrId == 1 .. MaxTranscripts

Active == {"queued", "downloading", "transcribing", "summarizing"}
MidStage == {"downloading", "transcribing", "summarizing"}
Terminal == {"done", "failed"}
Absent == {"unborn", "deleted"}   \* no row: not inserted yet, or deleted

VARIABLES
    jobs,        \* job rows by id
    trs,         \* transcript rows by id
    worker,      \* what each worker thread is doing, and for which rows
    request,     \* what each API handler in flight has read
    nextJob,     \* the next value of the jobs id sequence
    nextTr,      \* the next value of the transcripts id sequence
    stranded,    \* jobs left mid-stage without a worker by a database outage
    restarts, cancels, deletes, faults

counters == <<restarts, cancels, deletes, faults>>
rows == <<jobs, trs, nextJob, nextTr>>
vars == <<jobs, trs, worker, request, nextJob, nextTr, stranded, counters>>

Job == [status : Active \cup Terminal \cup Absent, video : Key \cup {None},
        summarize : BOOLEAN, hook : Hook, error : BOOLEAN, rented : BOOLEAN]
Transcript == [job : JobId \cup {None}, video : Video \cup {None},
               summary : Text \cup {None}]

NoJobRow == [status |-> "unborn", video |-> None, summarize |-> TRUE,
             hook |-> "none", error |-> FALSE, rented |-> FALSE]
NoTrRow == [job |-> None, video |-> None, summary |-> None]

\* The points of process_job at which a thread can be overtaken.
Stage == {"claimed", "download", "dedup", "deduplicated", "probe", "resume", "convert",
          "transcribe", "saved", "summarize", "webhook", "raised"}
Idle == [at |-> "idle", job |-> None, tr |-> None, owner |-> None]
WorkerState ==
    [at : Stage \cup {"idle"}, job : JobId \cup {None}, tr : TrId \cup {None},
     owner : JobId \cup {None}]

NoRequest == [op |-> "none", job |-> None, video |-> None, tr |-> None, read |-> None]
RequestState ==
    [op : {"none", "post", "retry", "resummarize"}, job : JobId \cup {None},
     video : Key \cup {None}, tr : TrId \cup {None}, read : Text \cup {None}]

--------------------------------------------------------------------------------
(* Reads *)

Exists(j) == jobs[j].status \notin Absent
TrExists(t) == trs[t].job # None

ActiveJobs(k) == {j \in JobId : jobs[j].status \in Active /\ jobs[j].video = k}
Partials(v) == {t \in TrId : TrExists(t) /\ trs[t].video = v /\ trs[t].summary = None}
Finished(v) == {t \in TrId : TrExists(t) /\ trs[t].video = v /\ trs[t].summary # None}

Queued == {j \in JobId : jobs[j].status = "queued"}

\* admin_retry_job keeps FOR UPDATE on the job it recovers until it commits.
Locked(j) == \E r \in Request : request[r].op = "retry" /\ request[r].job = j

VideoOf_KeepsKey(k) == k
VideoOf(k) == IF k \in Pending THEN Resolve[k] ELSE k

(* Writes shared by several handlers *)

InsertJob(key, summarize, hook) ==
    [NoJobRow EXCEPT !.status = "queued", !.video = key, !.summarize = summarize,
                     !.hook = hook]

SetStatus(j, s) == jobs' = [jobs EXCEPT ![j].status = s]

\* Deleting a job cascades to the transcript it owns.
Cascade(j) == [t \in TrId |-> IF trs[t].job = j THEN NoTrRow ELSE trs[t]]

\* The row a worker claimed is still there, and no other transaction locks it.
Row(w) == Exists(worker[w].job)
CanCommit(w) == ~Locked(worker[w].job)

Goto(w, at) == worker' = [worker EXCEPT ![w].at = at]

--------------------------------------------------------------------------------
(* Worker threads: run_worker, process_job, _summarize_and_finalize *)

Init ==
    /\ jobs = [j \in JobId |-> NoJobRow]
    /\ trs = [t \in TrId |-> NoTrRow]
    /\ worker = [w \in Worker |-> Idle]
    /\ request = [r \in Request |-> NoRequest]
    /\ nextJob = 1 /\ nextTr = 1
    /\ stranded = {}
    /\ restarts = 0 /\ cancels = 0 /\ deletes = 0 /\ faults = 0

\* The oldest queued job, by id (FOR UPDATE SKIP LOCKED, committed at once).
Claimable_Reclaims(j) == jobs[j].status \in {"queued", "downloading"}
Claimable(j) == j \in Queued /\ \A i \in Queued : j <= i

ClaimNextJob(w) ==
    /\ worker[w].at = "idle"
    /\ \E j \in JobId :
        /\ Claimable(j)
        /\ SetStatus(j, "downloading")
        /\ worker' = [worker EXCEPT ![w] = [Idle EXCEPT !.at = "claimed", !.job = j]]
    /\ UNCHANGED <<trs, request, nextJob, nextTr, stranded, counters>>

\* The newest partial of the job's video, with the owner the row had when read;
\* the lookup takes no lock.
LookupPartial(w, otherwise) ==
    LET partials == Partials(jobs[worker[w].job].video)
    IN  \/ partials = {} /\ Goto(w, otherwise)
        \/ \E t \in partials :
            /\ \A u \in partials : u <= t
            /\ worker' = [worker EXCEPT ![w] =
                   [@ EXCEPT !.at = "resume", !.tr = t, !.owner = trs[t].job]]

FindPartial(w) ==
    /\ worker[w].at = "claimed"
    /\ IF Row(w) THEN LookupPartial(w, "download") ELSE Goto(w, "raised")
    /\ UNCHANGED <<rows, request, stranded, counters>>

\* The download names the video.
Renamed_Forgets(j) == jobs
Renamed(j) == [jobs EXCEPT ![j].video = VideoOf(@)]

\* Only a pending key is deduplicated again.
Download(w) ==
    /\ worker[w].at = "download"
    /\ CanCommit(w)
    /\ LET j == worker[w].job
       IN  IF Row(w)
           THEN /\ jobs' = Renamed(j)
                /\ Goto(w, IF jobs[j].video \in Pending THEN "dedup" ELSE "probe")
           ELSE UNCHANGED jobs /\ Goto(w, "raised")
    /\ UNCHANGED <<trs, request, nextJob, nextTr, stranded, counters>>

\* _find_done_transcript
DedupHit_AnyTranscript(v) == \E t \in TrId : TrExists(t) /\ trs[t].video = v
DedupHit(v) == Finished(v) # {}

DedupAfterExtraction(w) ==
    /\ worker[w].at = "dedup"
    /\ IF Row(w) /\ DedupHit(jobs[worker[w].job].video)
       THEN Goto(w, "deduplicated")
       ELSE Goto(w, "probe")
    /\ UNCHANGED <<rows, request, stranded, counters>>

FindPartialAgain(w) ==
    /\ worker[w].at = "probe"
    /\ IF Row(w) THEN LookupPartial(w, "convert") ELSE Goto(w, "raised")
    /\ UNCHANGED <<rows, request, stranded, counters>>

StartTranscribing(w) ==
    /\ worker[w].at = "convert"
    /\ CanCommit(w)
    /\ IF Row(w)
       THEN SetStatus(worker[w].job, "transcribing") /\ Goto(w, "transcribe")
       ELSE UNCHANGED jobs /\ Goto(w, "raised")
    /\ UNCHANGED <<trs, request, nextJob, nextTr, stranded, counters>>

\* The provider chain rents a Vast instance: a callback session records it.
RecordInstanceCreated(w) ==
    /\ worker[w].at = "transcribe"
    /\ CanCommit(w) /\ Row(w) /\ ~jobs[worker[w].job].rented
    /\ jobs' = [jobs EXCEPT ![worker[w].job].rented = TRUE]
    /\ UNCHANGED <<trs, worker, request, nextJob, nextTr, stranded, counters>>

\* transcripts.job_id is unique and references a job row.
MayOwn(j, t) == Exists(j) /\ \A u \in TrId \ {t} : trs[u].job # j

SaveTranscript(w) ==
    /\ worker[w].at = "transcribe"
    /\ nextTr \in TrId
    /\ LET j == worker[w].job
       IN  IF MayOwn(j, nextTr)
           THEN /\ trs' = [trs EXCEPT ![nextTr] =
                        [job |-> j, video |-> VideoOf(jobs[j].video), summary |-> None]]
                /\ worker' = [worker EXCEPT ![w] =
                        [@ EXCEPT !.at = "saved", !.tr = nextTr, !.owner = j]]
                /\ nextTr' = nextTr + 1
           ELSE UNCHANGED <<trs, nextTr>> /\ Goto(w, "raised")
    /\ UNCHANGED <<jobs, request, nextJob, stranded, counters>>

\* The commit that moves the job on also lands "partial.job_id = job.id": it
\* fails when the partial was deleted meanwhile, or the job owns another one.
Repointed(w) == worker[w].owner # worker[w].job
CanRepoint(w) ==
    /\ Row(w)
    /\ Repointed(w) => TrExists(worker[w].tr) /\ MayOwn(worker[w].job, worker[w].tr)
Repoint(w) ==
    trs' = IF Repointed(w) THEN [trs EXCEPT ![worker[w].tr].job = worker[w].job] ELSE trs

StartSummarizing(w) ==
    /\ worker[w].at \in {"resume", "saved"}
    /\ CanCommit(w)
    /\ Row(w) => jobs[worker[w].job].summarize
    /\ IF CanRepoint(w)
       THEN SetStatus(worker[w].job, "summarizing") /\ Repoint(w) /\ Goto(w, "summarize")
       ELSE UNCHANGED <<jobs, trs>> /\ Goto(w, "raised")
    /\ UNCHANGED <<request, nextJob, nextTr, stranded, counters>>

\* A job that reached its end: the webhook, when there is one to deliver.
Finish(w) ==
    worker' = [worker EXCEPT ![w] =
        IF jobs[@.job].hook = "on" THEN [@ EXCEPT !.at = "webhook"] ELSE Idle]

FinishWithoutSummary(w) ==
    /\ worker[w].at \in {"resume", "saved"}
    /\ CanCommit(w)
    /\ Row(w) /\ ~jobs[worker[w].job].summarize
    /\ IF CanRepoint(w)
       THEN SetStatus(worker[w].job, "done") /\ Repoint(w) /\ Finish(w)
       ELSE UNCHANGED <<jobs, trs>> /\ Goto(w, "raised")
    /\ UNCHANGED <<request, nextJob, nextTr, stranded, counters>>

WriteBack_Clobbers(t, text) == text
\* Under the row lock: a summary that is already there is adopted.
WriteBack(t, text) == IF trs[t].summary = None THEN text ELSE trs[t].summary

FinishWithSummary(w) ==
    /\ worker[w].at = "summarize"
    /\ CanCommit(w)
    /\ IF Row(w) /\ TrExists(worker[w].tr)
       THEN /\ \E text \in Text :
                trs' = [trs EXCEPT ![worker[w].tr].summary = WriteBack(worker[w].tr, text)]
            /\ SetStatus(worker[w].job, "done")
            /\ Finish(w)
       ELSE UNCHANGED <<jobs, trs>> /\ Goto(w, "raised")
    /\ UNCHANGED <<request, nextJob, nextTr, stranded, counters>>

FinishDeduplicated(w) ==
    /\ worker[w].at = "deduplicated"
    /\ CanCommit(w)
    /\ IF Row(w)
       THEN SetStatus(worker[w].job, "done") /\ Finish(w)
       ELSE UNCHANGED jobs /\ Goto(w, "raised")
    /\ UNCHANGED <<trs, request, nextJob, nextTr, stranded, counters>>

\* Delivered, or given up after the retries.
DeliverWebhook(w) ==
    /\ worker[w].at = "webhook"
    /\ worker' = [worker EXCEPT ![w] = Idle]
    /\ UNCHANGED <<rows, request, stranded, counters>>

\* yt-dlp, ffmpeg, every transcription and summary provider, the webhook (on an
\* error its handlers do not name) and any database statement can fail.
Raise(w) ==
    /\ worker[w].at \notin {"idle", "raised"}
    /\ Goto(w, "raised")
    /\ UNCHANGED <<rows, request, stranded, counters>>

HandleException_Forgets(w) ==
    /\ worker[w].at = "raised"
    /\ worker' = [worker EXCEPT ![w] = Idle]
    /\ UNCHANGED <<rows, request, stranded, counters>>

HandleException(w) ==
    /\ worker[w].at = "raised"
    /\ CanCommit(w)
    /\ jobs' = IF Row(w)
               THEN [jobs EXCEPT ![worker[w].job].status = "failed",
                                 ![worker[w].job].error = TRUE]
               ELSE jobs
    /\ worker' = [worker EXCEPT ![w] = Idle]
    /\ UNCHANGED <<trs, request, nextJob, nextTr, stranded, counters>>

\* The database is away when the handler runs: run_worker logs the error and goes
\* on to the next job; the row keeps its status.
HandlerFails(w) ==
    /\ worker[w].at = "raised"
    /\ faults < MaxFaults
    /\ faults' = faults + 1
    /\ stranded' = stranded \cup {worker[w].job}
    /\ worker' = [worker EXCEPT ![w] = Idle]
    /\ UNCHANGED <<rows, request, restarts, cancels, deletes>>

WorkerStep(w) ==
    \/ ClaimNextJob(w) \/ FindPartial(w) \/ Download(w) \/ DedupAfterExtraction(w)
    \/ FindPartialAgain(w) \/ StartTranscribing(w) \/ SaveTranscript(w)
    \/ StartSummarizing(w) \/ FinishWithoutSummary(w) \/ FinishWithSummary(w)
    \/ FinishDeduplicated(w) \/ DeliverWebhook(w) \/ Raise(w) \/ HandleException(w)

--------------------------------------------------------------------------------
(* API handlers *)

\* Room for one more insert, counting those under way (bound MaxJobs).
CanInsert ==
    nextJob + Cardinality({r \in Request : request[r].op \in {"post", "retry"}}) \in JobId

\* POST /jobs: neither a finished transcript nor an active job was found.  The
\* insert is a later statement, and no lock covers the two.
CheckPost(r, k) ==
    /\ request[r] = NoRequest
    /\ CanInsert
    /\ Finished(k) = {} /\ ActiveJobs(k) = {}
    /\ request' = [request EXCEPT ![r] = [@ EXCEPT !.op = "post", !.video = k]]
    /\ UNCHANGED <<rows, worker, stranded, counters>>

InsertPost(r) ==
    /\ request[r].op = "post"
    /\ nextJob \in JobId
    /\ \E s \in SummarizeFlag, h \in Webhook :
        jobs' = [jobs EXCEPT ![nextJob] = InsertJob(request[r].video, s, h)]
    /\ nextJob' = nextJob + 1
    /\ request' = [request EXCEPT ![r] = NoRequest]
    /\ UNCHANGED <<trs, worker, nextTr, stranded, counters>>

\* POST /admin/jobs/{id}/retry: terminal, and nothing else active for the video.
CheckRetry(r, j) ==
    /\ request[r] = NoRequest
    /\ CanInsert
    /\ jobs[j].status \in Terminal /\ ~Locked(j)
    /\ ActiveJobs(jobs[j].video) = {}
    /\ request' = [request EXCEPT ![r] = [@ EXCEPT !.op = "retry", !.job = j]]
    /\ UNCHANGED <<rows, worker, stranded, counters>>

\* The new row copies the callback but not the summarize and notify flags.
RetriedHook(h) == IF h = "none" THEN "none" ELSE "on"

InsertRetry(r) ==
    /\ request[r].op = "retry"
    /\ nextJob \in JobId
    /\ LET j == request[r].job
       IN  jobs' = [jobs EXCEPT
               ![nextJob] = InsertJob(jobs[j].video, TRUE, RetriedHook(jobs[j].hook)),
               ![j].error = (jobs[j].error \/ jobs[j].status = "failed")]
    /\ nextJob' = nextJob + 1
    /\ request' = [request EXCEPT ![r] = NoRequest]
    /\ UNCHANGED <<trs, worker, nextTr, stranded, counters>>

\* POST /transcripts/{id}/resummarize: an advisory lock per transcript, and no
\* active job for its video; the summary read now is compared at the end.
StartResummarize(r, t) ==
    /\ request[r] = NoRequest
    /\ TrExists(t)
    /\ \A q \in Request : request[q].op = "resummarize" => request[q].tr # t
    /\ ActiveJobs(trs[t].video) = {}
    /\ request' = [request EXCEPT ![r] =
           [@ EXCEPT !.op = "resummarize", !.tr = t, !.read = trs[t].summary]]
    /\ UNCHANGED <<rows, worker, stranded, counters>>

\* A partial that is complete by now is adopted; a summary that changed is kept.
Unchanged(r) == trs[request[r].tr].summary = request[r].read

\* Completing a partial promotes its owner from failed to done.
Promotes(r) ==
    /\ request[r].read = None
    /\ jobs[trs[request[r].tr].job].status = "failed"

FinishResummarize(r) ==
    /\ request[r].op = "resummarize"
    /\ LET t == request[r].tr
           j == trs[t].job
       IN  IF TrExists(t) /\ Unchanged(r)
           THEN /\ Promotes(r) => ~Locked(j)
                /\ \E text \in Text : trs' = [trs EXCEPT ![t].summary = text]
                /\ jobs' = IF Promotes(r)
                           THEN [jobs EXCEPT ![j].status = "done", ![j].error = FALSE]
                           ELSE jobs
           ELSE UNCHANGED <<jobs, trs>>
    /\ request' = [request EXCEPT ![r] = NoRequest]
    /\ UNCHANGED <<worker, nextJob, nextTr, stranded, counters>>

ResummarizeFails(r) ==
    /\ request[r].op = "resummarize"
    /\ request' = [request EXCEPT ![r] = NoRequest]
    /\ UNCHANGED <<rows, worker, stranded, counters>>

CancelJob(j) ==
    /\ cancels < MaxCancels
    /\ jobs[j].status \in Active
    /\ jobs' = [jobs EXCEPT ![j].status = "failed", ![j].error = TRUE]
    /\ cancels' = cancels + 1
    /\ UNCHANGED <<trs, worker, request, nextJob, nextTr, stranded, restarts, deletes, faults>>

RemoveJob(j) ==
    /\ deletes < MaxDeletes
    /\ Exists(j) /\ jobs[j].status \notin Active /\ ~Locked(j)
    /\ jobs' = [jobs EXCEPT ![j] = [NoJobRow EXCEPT !.status = "deleted"]]
    /\ trs' = Cascade(j)
    /\ deletes' = deletes + 1
    /\ UNCHANGED <<worker, request, nextJob, nextTr, stranded, restarts, cancels, faults>>

DeleteJob(j) == RemoveJob(j)
DeleteTranscript(t) == TrExists(t) /\ RemoveJob(trs[t].job)

RequestStep(r) ==
    InsertPost(r) \/ InsertRetry(r) \/ FinishResummarize(r) \/ ResummarizeFails(r)

--------------------------------------------------------------------------------
(* The process dies and starts again: recover_interrupted_jobs runs before the  *)
(* workers and the API do.                                                      *)

\* _INTERRUPTED_ON_STARTUP, for the statuses a URL job can have
InterruptedStatuses_NoSummarizing == MidStage \ {"summarizing"}
InterruptedStatuses_AndFailed == MidStage \cup {"failed"}
InterruptedStatuses == MidStage

Interrupted == {j \in JobId : jobs[j].status \in InterruptedStatuses}

\* Recovery commits row by row in the order of ids.  An error ends it at some row
\* "upTo", is logged, and the workers start all the same.
Restart ==
    /\ restarts < MaxRestarts
    /\ \E upTo \in 1 .. MaxJobs + 1 :
        LET reached == {j \in Interrupted : j < upTo}
            missed == Interrupted \ reached
        IN  /\ missed = {} \/ faults < MaxFaults
            /\ faults' = IF missed = {} THEN faults ELSE faults + 1
            /\ stranded' = missed
            /\ \E stuck \in SUBSET {j \in reached : jobs[j].rented} :
                jobs' = [j \in JobId |->
                    IF j \in stuck THEN [jobs[j] EXCEPT !.status = "failed"]
                    ELSE IF j \in reached THEN [jobs[j] EXCEPT !.status = "queued"]
                    ELSE jobs[j]]
    /\ worker' = [w \in Worker |-> Idle]
    /\ request' = [r \in Request |-> NoRequest]
    /\ restarts' = restarts + 1
    /\ UNCHANGED <<trs, nextJob, nextTr, cancels, deletes>>

Next ==
    \/ \E w \in Worker : WorkerStep(w) \/ RecordInstanceCreated(w) \/ HandlerFails(w)
    \/ \E r \in Request :
        \/ RequestStep(r)
        \/ \E k \in Key : CheckPost(r, k)
        \/ \E j \in JobId : CheckRetry(r, j)
        \/ \E t \in TrId : StartResummarize(r, t)
    \/ \E j \in JobId : CancelJob(j) \/ DeleteJob(j)
    \/ \E t \in TrId : DeleteTranscript(t)
    \/ Restart

Spec == Init /\ [][Next]_vars

\* Worker threads loop for as long as the process lives, and every call a stage
\* makes is bounded by a timeout; a handler that checked goes on to its insert.
Fairness ==
    /\ \A w \in Worker : WF_vars(WorkerStep(w))
    /\ \A r \in Request : WF_vars(RequestStep(r))

FairSpec == Spec /\ Fairness

--------------------------------------------------------------------------------
(* Properties *)

TypeOK ==
    /\ jobs \in [JobId -> Job]
    /\ trs \in [TrId -> Transcript]
    /\ worker \in [Worker -> WorkerState]
    /\ request \in [Request -> RequestState]
    /\ nextJob \in Nat /\ nextTr \in Nat
    /\ stranded \in SUBSET JobId
    /\ restarts \in Nat /\ cancels \in Nat /\ deletes \in Nat /\ faults \in Nat

\* Two threads never run the pipeline for one job, whatever operators do to the
\* row while they run (_claim_next_job, FOR UPDATE SKIP LOCKED).
ClaimExclusive ==
    \A v, w \in Worker : worker[v].job = worker[w].job /\ worker[v].job # None => v = w

\* A job in the middle of the pipeline has a thread that will finish it, also right
\* after a restart: recover_interrupted_jobs forgets no stage, and no path through
\* process_job leaves a stage without a status that ends it.  The exceptions are
\* the jobs whose failure handler, or whose recovery, met a database outage.
MidStageHasWorker ==
    \A j \in JobId :
        jobs[j].status \in MidStage =>
            j \in stranded \/ \E w \in Worker : worker[w].job = j

\* A queued job is in nobody's hands: a worker that is still running a cancelled
\* job never meets a second worker on it.
QueuedIsFree ==
    \A j \in Queued : \A w \in Worker : worker[w].job # j

\* What the inductive proofs need beyond the above: which threads hold a row, that
\* ids not handed out yet have no row, that every row has a key, and that a job
\* whose webhook is going out, or whose retry is under way, has settled.
Bookkeeping ==
    /\ \A w \in Worker : worker[w].at = "idle" <=> worker[w].job = None
    /\ \A w \in Worker :
        worker[w].at \in {"resume", "saved", "summarize"} =>
            worker[w].tr # None /\ worker[w].owner # None
    /\ \A w \in Worker : worker[w].at = "webhook" => jobs[worker[w].job].status \notin MidStage
    /\ \A j \in JobId : jobs[j].status = "unborn" <=> j >= nextJob
    /\ \A j \in JobId : Exists(j) => jobs[j].video \in Key
    /\ \A w \in Worker : worker[w].job # None => jobs[worker[w].job].status # "unborn"
    /\ \A r \in Request : request[r].op = "post" => request[r].video \in Key
    /\ \A r \in Request : request[r].op = "resummarize" => request[r].tr # None
    /\ \A r \in Request : request[r].op = "retry" =>
        request[r].job # None /\ jobs[request[r].job].status \in Terminal

IInv == TypeOK /\ ClaimExclusive /\ MidStageHasWorker /\ QueuedIsFree /\ Bookkeeping

\* A summary is only ever replaced by a regeneration that started from that very
\* summary; workers resuming one partial, and a regeneration racing them, keep
\* whatever landed first (the compare-and-set of _summarize_and_finalize and of
\* resummarize).
SummaryKept ==
    [][\A t \in TrId :
        /\ TrExists(t) /\ TrExists(t)'
        /\ trs[t].summary # None
        /\ trs'[t].summary # trs[t].summary
        => \E r \in Request :
            /\ request[r].op = "resummarize"
            /\ request[r].tr = t
            /\ request[r].read = trs[t].summary]_vars

\* While nothing was deleted, a done job that asked for a summary has a finished
\* transcript of its video, although others may own, resume or regenerate it.
DoneMeansSummarized ==
    deletes = 0 =>
        \A j \in JobId :
            jobs[j].status = "done" /\ jobs[j].summarize => Finished(jobs[j].video) # {}

\* The transcript a job owns is of the job's video, also when the video was known
\* only after the download and when the transcript changed hands since.
OwnerHasSameVideo ==
    \A t \in TrId : TrExists(t) =>
        Exists(trs[t].job) /\ jobs[trs[t].job].video = trs[t].video

\* Every active job reaches a terminal status or is deleted, or it is one of those
\* that wait for the next restart because of a database outage.
EveryJobSettles ==
    \A j \in JobId :
        jobs[j].status \in Active ~>
            jobs[j].status \in Terminal \cup {"deleted"} \/ j \in stranded

\* The pipeline is a work queue: a job is handed out once, unless the process
\* restarted while a worker held it.
Queue == INSTANCE WorkQueue WITH
    Item <- JobId, Taker <- Worker, Nothing <- None,
    unseen <- {j \in JobId : jobs[j].status = "unborn"},
    pending <- Queued,
    held <- [w \in Worker |-> worker[w].job],
    lost <- stranded

QueueSafety == Queue!QueueInit /\ [][Queue!QueueNext]_Queue!queueVars
HandedOutOnce == Queue!QueueSpec

--------------------------------------------------------------------------------
(* What the repository says of the pipeline, and the code does not do *)

\* routes.py:2017, admin_cancel_job: "Mark an in-flight job failed so workers and
\* queue polling stop tracking it."
CancelStops ==
    [][\A j \in JobId : jobs[j].status = "failed" => jobs'[j].status \notin MidStage]_vars

\* loop.py:103, _deliver_webhook: "Never raises".  A job whose end is committed
\* before its webhook is sent then stays done.
DoneIsFinal ==
    [][\A j \in JobId : jobs[j].status = "done" => jobs'[j].status # "failed"]_vars

\* routes.py:1996: the owner of a summarized transcript must not report failed.
\* "without this, dedup returns done while the job_id still reports failed".
OwnerOfSummaryNotFailed ==
    \A t \in TrId : TrExists(t) /\ trs[t].summary # None => jobs[trs[t].job].status # "failed"

\* loop.py:380, recover_interrupted_jobs: a requeued job resumes, and does not pay
\* for a second transcription of a video whose transcript it already owns.
PaidOnce ==
    \A w \in Worker :
        worker[w].at = "transcribe" => \A t \in TrId : trs[t].job # worker[w].job
================================================================================
