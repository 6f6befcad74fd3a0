-------------------------- MODULE JobPipelineSummaries --------------------------
(***************************************************************************)
(* What the two tables say about videos and summaries.                     *)
(*                                                                         *)
(* A summary once stored is never clobbered: the compare-and-set of the    *)
(* workers and of the regeneration protects rows that exist; that a worker *)
(* saving a new transcript never hits an existing row needs one more       *)
(* invariant, about the id sequence of the transcripts table.              *)
(*                                                                         *)
(* The owner of a transcript has its video, and a done job has a summary:  *)
(* both rest on what a thread that carries a transcript id over the        *)
(* commits of others may still believe.                                    *)
(***************************************************************************)
EXTENDS JobPipelineProofs

\* Ids not handed out yet have no transcript.
FreshIds == \A t \in TrId : TrExists(t) => t < nextTr

\* What one step may do to the transcript row t.
Kept(t) == trs'[t].summary = trs[t].summary /\ (TrExists(t)' => TrExists(t))
Gone(t) == ~TrExists(t)'
Saved(t) == t = nextTr /\ nextTr' = nextTr + 1
Completed(t) == TrExists(t) /\ trs[t].summary = None
Regenerated(t) ==
    /\ TrExists(t)
    /\ \E r \in Request :
        /\ request[r].op = "resummarize" /\ request[r].tr = t
        /\ request[r].read = trs[t].summary
RowStep(t) == Kept(t) \/ Gone(t) \/ Saved(t) \/ Completed(t) \/ Regenerated(t)

TrsEffect == nextTr' \in {nextTr, nextTr + 1} /\ \A t \in TrId : RowStep(t)

LEMMA UntouchedRows == UNCHANGED <<trs, nextTr>> => TrsEffect
BY DEF TrsEffect, RowStep, Kept, TrExists

LEMMA RepointRows ==
    ASSUME IInv, NEW w \in Worker, worker[w].tr \in TrId, worker[w].job \in JobId,
           CanRepoint(w), Repoint(w), UNCHANGED nextTr
    PROVE  TrsEffect
<1> DEFINE u == worker[w].tr
           x == [trs[u] EXCEPT !.job = worker[w].job]
<1>1. CASE ~Repointed(w)
    BY <1>1, UntouchedRows DEF Repoint
<1>2. CASE Repointed(w)
  <2>1. TrExists(u) /\ trs' = [trs EXCEPT ![u] = x]
      BY <1>2 DEF CanRepoint, Repoint
  <2>2. x.summary = trs[u].summary
      BY DEF IInv, TypeOK, Transcript
  <2> HIDE DEF x
  <2>3. ASSUME NEW t \in TrId PROVE Kept(t)
      BY <2>1, <2>2 DEF Kept, TrExists, IInv, TypeOK
  <2> QED
      BY <2>3 DEF TrsEffect, RowStep
<1> QED
    BY <1>1, <1>2

LEMMA WorkerRows ==
    ASSUME IInv, NEW w \in Worker,
           WorkerStep(w) \/ RecordInstanceCreated(w) \/ HandlerFails(w)
    PROVE  TrsEffect
<1>1. CASE StartSummarizing(w) \/ FinishWithoutSummary(w)
  <2>1. CASE CanRepoint(w)
      BY <1>1, <2>1, Holding, RepointRows DEF StartSummarizing, FinishWithoutSummary
  <2>2. CASE ~CanRepoint(w)
      BY <1>1, <2>2, UntouchedRows DEF StartSummarizing, FinishWithoutSummary
  <2> QED
      BY <2>1, <2>2
<1>2. CASE SaveTranscript(w)
  <2>1. CASE MayOwn(worker[w].job, nextTr)
    <3>1. /\ nextTr' = nextTr + 1 /\ nextTr \in TrId
          /\ \A t \in TrId : t # nextTr => trs'[t] = trs[t]
        BY <1>2, <2>1 DEF SaveTranscript, IInv, TypeOK
    <3> QED
        BY <3>1 DEF TrsEffect, RowStep, Kept, Saved, TrExists
  <2>2. CASE ~MayOwn(worker[w].job, nextTr)
      BY <1>2, <2>2, UntouchedRows DEF SaveTranscript
  <2> QED
      BY <2>1, <2>2
<1>3. CASE FinishWithSummary(w)
  <2> DEFINE u == worker[w].tr
  <2>1. CASE Row(w) /\ TrExists(u)
    <3>1. PICK text \in Text : trs' = [trs EXCEPT ![u].summary = WriteBack(u, text)]
        BY <1>3, <2>1 DEF FinishWithSummary
    <3> DEFINE x == [trs[u] EXCEPT !.summary = WriteBack(u, text)]
    <3>2. u \in TrId /\ trs[u] \in Transcript
        BY <1>3, Holding DEF FinishWithSummary, IInv, TypeOK
    <3>3. trs[u].summary # None => x.summary = trs[u].summary
        BY <3>2 DEF WriteBack, Transcript
    <3>4. trs' = [trs EXCEPT ![u] = x] /\ nextTr' = nextTr
        BY <1>3, <3>1 DEF FinishWithSummary
    <3> HIDE DEF x
    <3>5. \A t \in TrId : t # u => trs'[t] = trs[t]
        BY <3>4 DEF IInv, TypeOK
    <3>6. trs'[u] = x
        BY <3>2, <3>4 DEF IInv, TypeOK
    <3> QED
        BY <2>1, <3>3, <3>4, <3>5, <3>6 DEF TrsEffect, RowStep, Kept, Completed, TrExists
  <2>2. CASE ~(Row(w) /\ TrExists(u))
      BY <1>3, <2>2, UntouchedRows DEF FinishWithSummary
  <2> QED
      BY <2>1, <2>2
<1>4. CASE ClaimNextJob(w) \/ FindPartial(w) \/ FindPartialAgain(w) \/ DedupAfterExtraction(w)
           \/ Raise(w) \/ DeliverWebhook(w) \/ HandlerFails(w)
    BY <1>4, UntouchedRows
    DEF ClaimNextJob, FindPartial, FindPartialAgain, DedupAfterExtraction, Raise,
        DeliverWebhook, HandlerFails, rows
<1>5. CASE Download(w) \/ StartTranscribing(w) \/ RecordInstanceCreated(w)
           \/ FinishDeduplicated(w) \/ HandleException(w)
    BY <1>5, UntouchedRows
    DEF Download, StartTranscribing, RecordInstanceCreated, FinishDeduplicated, HandleException
<1> QED
    BY <1>1, <1>2, <1>3, <1>4, <1>5 DEF WorkerStep

LEMMA ResummarizeRows ==
    ASSUME IInv, NEW r \in Request, FinishResummarize(r) PROVE TrsEffect
<1> DEFINE u == request[r].tr
<1>1. CASE TrExists(u) /\ Unchanged(r)
  <2>1. /\ nextTr' = nextTr
        /\ \A t \in TrId : t # u => trs'[t] = trs[t]
      BY <1>1 DEF FinishResummarize, IInv, TypeOK
  <2>2. Regenerated(u)
      BY <1>1 DEF Regenerated, Unchanged, FinishResummarize
  <2> QED
      BY <2>1, <2>2 DEF TrsEffect, RowStep, Kept, TrExists
<1>2. CASE ~(TrExists(u) /\ Unchanged(r))
    BY <1>2, UntouchedRows DEF FinishResummarize
<1> QED
    BY <1>1, <1>2

LEMMA StepRows == ASSUME IInv, [Next]_vars PROVE TrsEffect
<1>1. ASSUME NEW r \in Request,
             \/ InsertPost(r) \/ InsertRetry(r) \/ ResummarizeFails(r)
             \/ \E k \in Key : CheckPost(r, k)
             \/ \E j \in JobId : CheckRetry(r, j)
             \/ \E t \in TrId : StartResummarize(r, t)
      PROVE  TrsEffect
  <2>1. UNCHANGED <<trs, nextTr>>
      BY <1>1
      DEF InsertPost, InsertRetry, ResummarizeFails, CheckPost, CheckRetry, StartResummarize,
          rows
  <2> QED
      BY <2>1, UntouchedRows
<1>2. ASSUME NEW j, RemoveJob(j) PROVE TrsEffect
  <2>1. nextTr' = nextTr /\ \A t \in TrId : trs'[t] = trs[t] \/ trs'[t] = NoTrRow
      BY <1>2 DEF RemoveJob, Cascade
  <2> QED
      BY <2>1 DEF TrsEffect, RowStep, Kept, Gone, TrExists, NoTrRow
<1>3. CASE UNCHANGED vars \/ Restart \/ \E j \in JobId : CancelJob(j)
    BY <1>3, UntouchedRows DEF vars, Restart, CancelJob
<1> QED
    BY <1>1, <1>2, <1>3, WorkerRows, ResummarizeRows
    DEF Next, RequestStep, DeleteJob, DeleteTranscript

LEMMA StepKeepsFreshIds == ASSUME IInv, FreshIds, [Next]_vars PROVE FreshIds'
<1>1. nextTr \in Nat /\ TrId \subseteq Nat
    BY DEF IInv, TypeOK, TrId
<1>2. TrsEffect
    BY StepRows
<1> QED
    BY <1>1, <1>2
    DEF FreshIds, TrsEffect, RowStep, Kept, Gone, Saved, Completed, Regenerated

LEMMA StepKeepsSummaries ==
    ASSUME IInv, FreshIds, [Next]_vars,
           NEW t \in TrId, TrExists(t), TrExists(t)', trs[t].summary # None,
           trs'[t].summary # trs[t].summary
    PROVE  \E r \in Request :
               /\ request[r].op = "resummarize"
               /\ request[r].tr = t
               /\ request[r].read = trs[t].summary
<1>1. nextTr \in Nat /\ t \in Nat
    BY DEF IInv, TypeOK, TrId
<1>2. RowStep(t)
    BY StepRows DEF TrsEffect
<1> QED
    BY <1>1, <1>2 DEF FreshIds, RowStep, Kept, Gone, Saved, Completed, Regenerated

--------------------------------------------------------------------------------

\* Ids of the transcripts table are handed out once.
THEOREM IdsAreFresh == Spec => []FreshIds
<1>1. Init => FreshIds
    BY DEF Init, FreshIds, TrExists, NoTrRow
<1>2. IInv /\ FreshIds /\ [Next]_vars => FreshIds'
    BY StepKeepsFreshIds
<1> QED
    BY <1>1, <1>2, InductiveInvariant, PTL DEF Spec

\* Any number of workers resuming a partial, regenerations, restarts and deletions
\* may race: a stored summary gives way only to a regeneration that had read it
\* (the row lock in _summarize_and_finalize, the comparison in resummarize).
THEOREM SummariesAreKept == Spec => SummaryKept
<1> DEFINE A == \A t \in TrId :
        /\ TrExists(t) /\ TrExists(t)'
        /\ trs[t].summary # None
        /\ trs'[t].summary # trs[t].summary
        => \E r \in Request :
            /\ request[r].op = "resummarize"
            /\ request[r].tr = t
            /\ request[r].read = trs[t].summary
<1>1. IInv /\ FreshIds /\ [Next]_vars => A
    BY StepKeepsSummaries
<1> HIDE DEF A
<1>2. Spec => [][A]_vars
    BY <1>1, InductiveInvariant, IdsAreFresh, PTL DEF Spec
<1> QED
    BY <1>2 DEF A, SummaryKept

--------------------------------------------------------------------------------
(* Which video a job, its transcript and the thread between them are about.  A  *)
(* thread carries a transcript id over commits of others: the row may go, but   *)
(* ids are fresh, so what it finds under that id is of the job's video.         *)

Carrying == {"resume", "saved", "summarize"}
Named == {"dedup", "probe", "convert", "transcribe"}

Owned(t) ==
    TrExists(t) =>
        /\ trs[t].video \in Video
        /\ Exists(trs[t].job) /\ jobs[trs[t].job].video = trs[t].video
Carries(w) ==
    worker[w].at \in Carrying =>
        /\ worker[w].tr < nextTr
        /\ Row(w) /\ TrExists(worker[w].tr) =>
               trs[worker[w].tr].video = jobs[worker[w].job].video
Knows(w) == worker[w].at \in Named /\ Row(w) => jobs[worker[w].job].video \in Video

VideoInv == /\ \A t \in TrId : Owned(t)
            /\ \A w \in Worker : Carries(w) /\ Knows(w)

\* A thread that answered by an older transcript has not finished its job yet.
Answered(w) ==
    worker[w].at = "deduplicated" /\ Row(w) => Finished(jobs[worker[w].job].video) # {}
Summarized(j) ==
    jobs[j].status = "done" /\ jobs[j].summarize => Finished(jobs[j].video) # {}

SummaryInv ==
    deletes = 0 =>
        /\ \A j \in JobId : Summarized(j)
        /\ \A w \in Worker : Answered(w)

\* What most steps do to a job row, a transcript row and a thread.
JobSteady(j) ==
    jobs[j].status # "unborn" /\ Exists(j)' =>
        /\ Exists(j)
        /\ jobs'[j].video = jobs[j].video /\ jobs'[j].summarize = jobs[j].summarize
TrSame(t) == TrExists(t)' => TrExists(t) /\ trs'[t].video = trs[t].video
TrSteady(t) ==
    TrSame(t) /\ (TrExists(t)' => trs'[t].job = trs[t].job /\ Exists(trs[t].job)')
TrGrows(t) ==
    TrExists(t) /\ trs[t].summary # None =>
        TrExists(t)' /\ trs'[t].video = trs[t].video /\ trs'[t].summary # None
ThreadSteady(w) ==
    \/ worker'[w].at \notin Carrying \cup Named
    \/ /\ worker'[w].job = worker[w].job /\ worker'[w].tr = worker[w].tr
       /\ \/ worker[w].at \in Carrying /\ worker'[w].at \in Carrying
          \/ worker[w].at \in Named /\ worker'[w].at \in Named

LEMMA SteadyVideos ==
    ASSUME IInv, VideoInv, nextTr' \in Nat, nextTr' >= nextTr,
           \A j \in JobId : JobSteady(j),
           \A t \in TrId : TrSteady(t) \/ Owned(t)',
           \A t \in TrId : t < nextTr => TrSame(t),
           \A w \in Worker : ThreadSteady(w) \/ (Carries(w)' /\ Knows(w)')
    PROVE  VideoInv'
<1>1. ASSUME NEW t \in TrId PROVE Owned(t)'
  <2>1. CASE TrExists(t)' /\ TrSteady(t)
    <3> DEFINE j == trs[t].job
    <3>1. /\ TrExists(t) /\ Exists(j)' /\ j \in JobId
          /\ trs'[t].video = trs[t].video /\ trs'[t].job = j
        BY <2>1 DEF TrSteady, TrSame, TrExists, IInv, TypeOK, Transcript
    <3>2. Exists(j) /\ jobs[j].video = trs[t].video /\ trs[t].video \in Video
        BY <3>1 DEF VideoInv, Owned
    <3>3. jobs'[j].video = jobs[j].video
        BY <3>1, <3>2 DEF JobSteady, Exists, Absent
    <3> QED
        BY <3>1, <3>2, <3>3 DEF Owned, Exists
  <2> QED
      BY <2>1 DEF Owned
<1>2. ASSUME NEW w \in Worker, worker'[w].at \in Carrying \cup Named, ThreadSteady(w)
      PROVE  Carries(w)' /\ Knows(w)'
  <2> DEFINE j == worker[w].job
             t == worker[w].tr
  <2>1. /\ worker'[w].job = j /\ worker'[w].tr = t
        /\ \/ worker[w].at \in Carrying /\ worker'[w].at \in Carrying
           \/ worker[w].at \in Named /\ worker'[w].at \in Named
      BY <1>2 DEF ThreadSteady
  <2>2. worker[w].at # "idle" /\ Carrying \cap Named = {}
      BY <2>1 DEF Carrying, Named
  <2>3. /\ j \in JobId /\ jobs[j].status # "unborn"
        /\ worker[w].at \in Carrying => t \in TrId
      BY <2>2, Holding DEF IInv, Bookkeeping, Carrying
  <2>4. jobs'[j].status \notin Absent => Exists(j) /\ jobs'[j].video = jobs[j].video
      BY <2>3 DEF JobSteady, Exists
  <2>5. CASE worker[w].at \in Named
      BY <2>1, <2>2, <2>4, <2>5 DEF VideoInv, Knows, Carries, Row, Exists
  <2>6. CASE worker[w].at \in Carrying
    <3>1. trs'[t].job # None => TrExists(t) /\ trs'[t].video = trs[t].video
        BY <2>3, <2>6 DEF VideoInv, Carries, TrSame, TrExists
    <3>2. t < nextTr'
        BY <2>3, <2>6 DEF VideoInv, Carries, IInv, TypeOK, TrId
    <3> QED
        BY <2>1, <2>2, <2>4, <2>6, <3>1, <3>2
        DEF VideoInv, Knows, Carries, Row, Exists, TrExists
  <2> QED
      BY <2>1, <2>5, <2>6
<1>3. \A w \in Worker : Carries(w)' /\ Knows(w)'
    BY <1>2 DEF Carries, Knows
<1> QED
    BY <1>1, <1>3 DEF VideoInv

\* The finished transcripts of v after the step.
Later(v) == {t \in TrId : trs'[t].job # None /\ trs'[t].video = v /\ trs'[t].summary # None}

LEMMA FinishedGrows ==
    ASSUME \A t \in TrId : TrGrows(t), NEW v, Finished(v) # {}
    PROVE  Later(v) # {}
BY DEF TrGrows, Finished, Later, TrExists

LEMMA SteadySummaries ==
    ASSUME IInv, IInv', SummaryInv,
           deletes' = 0 => deletes = 0 /\ \A t \in TrId : TrGrows(t),
           \A j \in JobId : JobSteady(j),
           deletes' = 0 => \A j \in JobId :
               jobs'[j].status = "done" /\ jobs'[j].summarize /\ jobs[j].status # "done" =>
                   Later(jobs'[j].video) # {},
           deletes' = 0 => \A w \in Worker :
               worker'[w].at = "deduplicated" /\ Row(w)' =>
                   \/ worker[w].at = "deduplicated" /\ worker'[w].job = worker[w].job
                   \/ Later(jobs'[worker'[w].job].video) # {}
    PROVE  SummaryInv'
<1> SUFFICES ASSUME deletes' = 0
             PROVE  /\ \A j \in JobId : Summarized(j)'
                    /\ \A w \in Worker : Answered(w)'
    BY DEF SummaryInv
<1>1. \A v : Finished(v) # {} => Later(v) # {}
    BY FinishedGrows
<1>2. ASSUME NEW j \in JobId, jobs'[j].status = "done", jobs'[j].summarize
      PROVE  Later(jobs'[j].video) # {}
  <2>1. CASE jobs[j].status = "done"
    <3>1. jobs'[j].video = jobs[j].video /\ jobs[j].summarize
        BY <1>2, <2>1 DEF JobSteady, Exists, Absent
    <3>2. Finished(jobs[j].video) # {}
        BY <2>1, <3>1 DEF SummaryInv, Summarized
    <3> QED
        BY <1>1, <3>1, <3>2
  <2> QED
      BY <1>2, <2>1
<1>3. ASSUME NEW w \in Worker, worker'[w].at = "deduplicated", Row(w)'
      PROVE  Later(jobs'[worker'[w].job].video) # {}
  <2>1. CASE worker[w].at = "deduplicated" /\ worker'[w].job = worker[w].job
    <3> DEFINE j == worker[w].job
    <3>1. j \in JobId /\ jobs[j].status # "unborn"
        BY <2>1, Holding DEF IInv, Bookkeeping
    <3>2. Exists(j) /\ jobs'[j].video = jobs[j].video
        BY <1>3, <2>1, <3>1 DEF JobSteady, Row, Exists
    <3>3. Finished(jobs[j].video) # {}
        BY <2>1, <3>2 DEF SummaryInv, Answered, Row
    <3> QED
        BY <1>1, <2>1, <3>2, <3>3
  <2> QED
      BY <1>3, <2>1
<1> QED
    BY <1>2, <1>3 DEF Summarized, Answered, Row, Exists, Finished, Later, TrExists

--------------------------------------------------------------------------------
(* The steps. *)

\* A commit that writes the status of a row, and perhaps its error.
StatusSet(j, s) ==
    \/ SetStatus(j, s)
    \/ \E e \in BOOLEAN : jobs' = [jobs EXCEPT ![j].status = s, ![j].error = e]

LEMMA StatusSetEffect ==
    ASSUME IInv, NEW j \in JobId, NEW s \in MidStage \cup Terminal, Exists(j), StatusSet(j, s)
    PROVE  /\ jobs'[j].status = s
           /\ jobs'[j].video = jobs[j].video /\ jobs'[j].summarize = jobs[j].summarize
           /\ \A i \in JobId : i # j => jobs'[i] = jobs[i]
           /\ \A i \in JobId : JobSteady(i) /\ (Exists(i) => Exists(i)')
<1>1. PICK e : jobs' = [jobs EXCEPT ![j] = [jobs[j] EXCEPT !.status = s, !.error = e]]
  <2>1. CASE SetStatus(j, s)
    <3>1. jobs[j] \in Job
        BY DEF IInv, TypeOK
    <3>2. [jobs[j] EXCEPT !.status = s] = [jobs[j] EXCEPT !.status = s, !.error = jobs[j].error]
        BY <3>1 DEF Job
    <3>3. jobs' = [jobs EXCEPT ![j] = [jobs[j] EXCEPT !.status = s]]
        BY <2>1 DEF SetStatus
    <3> QED
        BY <3>2, <3>3
  <2>2. ASSUME NEW e \in BOOLEAN, jobs' = [jobs EXCEPT ![j].status = s, ![j].error = e]
        PROVE  \E d : jobs' = [jobs EXCEPT ![j] = [jobs[j] EXCEPT !.status = s, !.error = d]]
      BY <2>2 DEF IInv, TypeOK
  <2> QED
      BY <2>1, <2>2 DEF StatusSet
<1> DEFINE x == [jobs[j] EXCEPT !.status = s, !.error = e]
<1>2. x.status = s /\ x.video = jobs[j].video /\ x.summarize = jobs[j].summarize
    BY DEF IInv, TypeOK, Job
<1>3. jobs' = [jobs EXCEPT ![j] = x]
    BY <1>1
<1> HIDE DEF x
<1>4. jobs'[j] = x /\ \A i \in JobId : i # j => jobs'[i] = jobs[i]
    BY <1>3 DEF IInv, TypeOK
<1>5. s \notin Absent
    BY DEF MidStage, Terminal, Absent
<1> QED
    BY <1>2, <1>4, <1>5 DEF JobSteady, Exists

LEMMA SameTrs ==
    ASSUME IInv, VideoInv, UNCHANGED trs, \A i \in JobId : Exists(i) => Exists(i)',
           NEW t \in TrId
    PROVE  TrSteady(t) /\ TrSame(t) /\ TrGrows(t)
<1>1. ASSUME TrExists(t) PROVE jobs'[trs[t].job].status \notin Absent
  <2>1. trs[t].job \in JobId
      BY <1>1 DEF TrExists, IInv, TypeOK, Transcript
  <2> QED
      BY <1>1, <2>1 DEF VideoInv, Owned, Exists
<1> QED
    BY <1>1 DEF TrSteady, TrSame, TrGrows, TrExists, Exists

LEMMA SameThread == ASSUME NEW w \in Worker, worker'[w] = worker[w] PROVE ThreadSteady(w)
BY DEF ThreadSteady

\* A step that leaves the transcripts alone and neither renames nor removes a job.
LEMMA CalmStep ==
    ASSUME IInv, IInv', VideoInv, SummaryInv, UNCHANGED <<trs, nextTr, deletes>>,
           \A j \in JobId : JobSteady(j) /\ (Exists(j) => Exists(j)'),
           deletes = 0 => \A j \in JobId :
               jobs'[j].status = "done" /\ jobs'[j].summarize /\ jobs[j].status # "done" =>
                   Finished(jobs'[j].video) # {},
           \A w \in Worker : ThreadSteady(w) \/ (Carries(w)' /\ Knows(w)'),
           deletes = 0 => \A w \in Worker :
               worker'[w].at = "deduplicated" /\ Row(w)' =>
                   \/ worker[w].at = "deduplicated" /\ worker'[w].job = worker[w].job
                   \/ Finished(jobs'[worker'[w].job].video) # {}
    PROVE  VideoInv' /\ SummaryInv'
<1>1. \A t \in TrId : TrSteady(t) /\ TrSame(t) /\ TrGrows(t)
    BY SameTrs
<1>2. \A v : Finished(v) = Later(v)
    BY DEF Finished, Later, TrExists
<1>3. VideoInv'
    BY <1>1, SteadyVideos DEF IInv, TypeOK
<1>4. SummaryInv'
    BY <1>1, <1>2, SteadySummaries
<1> QED
    BY <1>3, <1>4

\* A thread that reads, and acts on no row.
LEMMA ThreadStep ==
    ASSUME IInv, IInv', VideoInv, SummaryInv, UNCHANGED <<jobs, trs, nextTr, deletes>>,
           NEW w \in Worker, \A v \in Worker : v # w => worker'[v] = worker[v],
           ThreadSteady(w) \/ (Carries(w)' /\ Knows(w)'),
           worker'[w].at = "deduplicated" => Finished(jobs[worker'[w].job].video) # {}
    PROVE  VideoInv' /\ SummaryInv'
<1>1. \A j \in JobId : JobSteady(j) /\ (Exists(j) => Exists(j)')
    BY DEF JobSteady, Exists
<1>2. \A v \in Worker : ThreadSteady(v) \/ (Carries(v)' /\ Knows(v)')
    BY SameThread
<1>3. \A v \in Worker :
          worker'[v].at = "deduplicated" =>
              \/ worker[v].at = "deduplicated" /\ worker'[v].job = worker[v].job
              \/ Finished(jobs'[worker'[v].job].video) # {}
    OBVIOUS
<1> QED
    BY <1>1, <1>2, <1>3, CalmStep

LEMMA RaisedStep ==
    ASSUME IInv, IInv', VideoInv, SummaryInv, UNCHANGED <<jobs, trs, nextTr, deletes>>,
           NEW w \in Worker, Goto(w, "raised")
    PROVE  VideoInv' /\ SummaryInv'
<1>1. worker'[w].at = "raised" /\ \A v \in Worker : v # w => worker'[v] = worker[v]
    BY GotoEffect DEF IInv, Stage
<1>2. ThreadSteady(w)
    BY <1>1 DEF ThreadSteady, Carrying, Named
<1> QED
    BY <1>1, <1>2, ThreadStep

LEMMA LookupVideos ==
    ASSUME IInv, IInv', FreshIds, VideoInv, SummaryInv,
           UNCHANGED <<jobs, trs, nextTr, deletes>>,
           NEW w \in Worker, Row(w),
           \/ worker[w].at = "claimed" /\ LookupPartial(w, "download")
           \/ worker[w].at = "probe" /\ LookupPartial(w, "convert")
    PROVE  VideoInv' /\ SummaryInv'
<1> DEFINE j == worker[w].job
<1>0. j \in JobId /\ worker[w].at # "idle"
    BY Holding
<1>1. ASSUME NEW at \in {"download", "convert"}, Goto(w, at),
             at = "convert" => worker[w].at = "probe"
      PROVE  VideoInv' /\ SummaryInv'
  <2>1. /\ worker'[w].at = at /\ worker'[w].job = worker[w].job
        /\ worker'[w].tr = worker[w].tr
        /\ \A v \in Worker : v # w => worker'[v] = worker[v]
      BY <1>1, GotoEffect DEF IInv, Stage
  <2>2. ThreadSteady(w)
      BY <1>1, <2>1 DEF ThreadSteady, Carrying, Named
  <2> QED
      BY <2>1, <2>2, ThreadStep
<1>2. ASSUME NEW t \in Partials(jobs[j].video),
             worker' = [worker EXCEPT ![w] =
                 [@ EXCEPT !.at = "resume", !.tr = t, !.owner = trs[t].job]]
      PROVE  VideoInv' /\ SummaryInv'
  <2> DEFINE x == [worker[w] EXCEPT !.at = "resume", !.tr = t, !.owner = trs[t].job]
  <2>1. t \in TrId /\ TrExists(t) /\ trs[t].video = jobs[j].video /\ t < nextTr
      BY <1>2 DEF Partials, FreshIds
  <2>2. x.at = "resume" /\ x.tr = t /\ x.job = j
      BY Holding, <1>0 DEF WorkerState
  <2>3. worker' = [worker EXCEPT ![w] = x]
      BY <1>2
  <2> HIDE DEF x
  <2>4. worker'[w] = x /\ \A v \in Worker : v # w => worker'[v] = worker[v]
      BY <2>3 DEF IInv, TypeOK
  <2>5. Carries(w)' /\ Knows(w)'
      BY <2>1, <2>2, <2>4 DEF Carries, Knows, Row, Exists, TrExists, Named
  <2> QED
      BY <2>2, <2>4, <2>5, ThreadStep
<1> QED
    BY <1>1, <1>2 DEF LookupPartial

LEMMA ReadVideos ==
    ASSUME IInv, IInv', FreshIds, VideoInv, SummaryInv, NEW w \in Worker,
           \/ FindPartial(w) \/ DedupAfterExtraction(w) \/ FindPartialAgain(w)
           \/ Raise(w) \/ DeliverWebhook(w) \/ HandlerFails(w)
    PROVE  VideoInv' /\ SummaryInv'
<1>1. CASE FindPartial(w)
    BY <1>1, LookupVideos, RaisedStep DEF FindPartial, rows, counters
<1>2. CASE FindPartialAgain(w)
    BY <1>2, LookupVideos, RaisedStep DEF FindPartialAgain, rows, counters
<1>3. CASE Raise(w)
    BY <1>3, RaisedStep DEF Raise, rows, counters
<1>4. CASE DeliverWebhook(w) \/ HandlerFails(w)
  <2>1. /\ worker'[w] = Idle /\ \A v \in Worker : v # w => worker'[v] = worker[v]
        /\ UNCHANGED <<jobs, trs, nextTr, deletes>>
      BY <1>4, SetEffect, IdleTyped DEF DeliverWebhook, HandlerFails, rows, counters, IInv
  <2>2. ThreadSteady(w) /\ worker'[w].at = "idle"
      BY <2>1 DEF ThreadSteady, Idle, Carrying, Named
  <2> QED
      BY <2>1, <2>2, ThreadStep
<1>5. CASE DedupAfterExtraction(w)
  <2>1. PICK at \in {"deduplicated", "probe"} :
            /\ Goto(w, at)
            /\ at = "deduplicated" => Row(w) /\ Finished(jobs[worker[w].job].video) # {}
      BY <1>5 DEF DedupAfterExtraction, DedupHit
  <2>2. /\ worker'[w].at = at /\ worker'[w].job = worker[w].job
        /\ worker'[w].tr = worker[w].tr
        /\ \A v \in Worker : v # w => worker'[v] = worker[v]
      BY <2>1, GotoEffect DEF IInv, Stage
  <2>3. worker[w].at = "dedup" /\ UNCHANGED <<jobs, trs, nextTr, deletes>>
      BY <1>5 DEF DedupAfterExtraction, rows, counters
  <2>4. ThreadSteady(w)
      BY <2>2, <2>3 DEF ThreadSteady, Carrying, Named
  <2> QED
      BY <2>1, <2>2, <2>3, <2>4, ThreadStep
<1> QED
    BY <1>1, <1>2, <1>3, <1>4, <1>5

\* A commit of a status, and of nothing the invariants speak of beside it.
LEMMA StatusStep ==
    ASSUME IInv, IInv', VideoInv, SummaryInv, UNCHANGED <<trs, nextTr, deletes>>,
           NEW j \in JobId, NEW s \in MidStage \cup Terminal, Exists(j), StatusSet(j, s),
           s = "done" /\ jobs[j].summarize /\ deletes = 0 => Finished(jobs[j].video) # {},
           \A w \in Worker :
               \/ worker'[w] = worker[w]
               \/ ThreadSteady(w) /\ worker'[w].at # "deduplicated"
    PROVE  VideoInv' /\ SummaryInv'
<1>1. /\ jobs'[j].status = s
      /\ jobs'[j].video = jobs[j].video /\ jobs'[j].summarize = jobs[j].summarize
      /\ \A i \in JobId : i # j => jobs'[i] = jobs[i]
      /\ \A i \in JobId : JobSteady(i) /\ (Exists(i) => Exists(i)')
    BY StatusSetEffect
<1>2. \A w \in Worker : ThreadSteady(w)
    BY SameThread
<1> QED
    BY <1>1, <1>2, CalmStep

LEMMA WorkerStatus ==
    ASSUME IInv, IInv', VideoInv, SummaryInv, NEW w \in Worker,
           \/ ClaimNextJob(w) \/ StartTranscribing(w) \/ FinishDeduplicated(w)
           \/ HandleException(w)
    PROVE  VideoInv' /\ SummaryInv'
<1> DEFINE j == worker[w].job
<1>1. CASE ClaimNextJob(w)
  <2>1. PICK i \in JobId :
            /\ Claimable(i) /\ SetStatus(i, "downloading")
            /\ worker' = [worker EXCEPT ![w] = [Idle EXCEPT !.at = "claimed", !.job = i]]
      BY <1>1 DEF ClaimNextJob
  <2>2. Exists(i) /\ StatusSet(i, "downloading")
      BY <2>1 DEF Claimable, Queued, Exists, Absent, StatusSet
  <2> DEFINE x == [Idle EXCEPT !.at = "claimed", !.job = i]
  <2>3. x.at = "claimed"
      BY DEF Idle
  <2>4. worker' = [worker EXCEPT ![w] = x]
      BY <2>1
  <2> HIDE DEF x
  <2>5. worker'[w].at = "claimed" /\ \A v \in Worker : v # w => worker'[v] = worker[v]
      BY <2>3, <2>4 DEF IInv, TypeOK
  <2>6. \A v \in Worker :
            \/ worker'[v] = worker[v]
            \/ ThreadSteady(v) /\ worker'[v].at # "deduplicated"
      BY <2>5 DEF ThreadSteady, Carrying, Named
  <2>7. UNCHANGED <<trs, nextTr, deletes>>
      BY <1>1 DEF ClaimNextJob, counters
  <2> QED
      BY <2>2, <2>6, <2>7, StatusStep DEF MidStage
<1>2. CASE StartTranscribing(w) /\ Row(w)
  <2>1. /\ j \in JobId /\ Exists(j) /\ StatusSet(j, "transcribing") /\ Goto(w, "transcribe")
        /\ UNCHANGED <<trs, nextTr, deletes>> /\ worker[w].at = "convert"
      BY <1>2, Holding DEF StartTranscribing, StatusSet, Row, counters
  <2>2. /\ worker'[w].at = "transcribe" /\ worker'[w].job = j /\ worker'[w].tr = worker[w].tr
        /\ \A v \in Worker : v # w => worker'[v] = worker[v]
      BY <2>1, GotoEffect DEF IInv, Stage
  <2>3. ThreadSteady(w)
      BY <2>1, <2>2 DEF ThreadSteady, Carrying, Named
  <2> HIDE DEF j
  <2> QED
      BY <2>1, <2>2, <2>3, StatusStep DEF MidStage
<1>3. CASE FinishDeduplicated(w) /\ Row(w)
  <2>1. /\ j \in JobId /\ Exists(j) /\ StatusSet(j, "done") /\ Finish(w)
        /\ UNCHANGED <<trs, nextTr, deletes>> /\ worker[w].at = "deduplicated"
      BY <1>3, Holding DEF FinishDeduplicated, StatusSet, Row, counters
  <2>2. /\ worker'[w].at \in {"idle", "webhook"}
        /\ \A v \in Worker : v # w => worker'[v] = worker[v]
      BY <2>1, FinishEffect DEF IInv, Idle
  <2>3. ThreadSteady(w)
      BY <2>2 DEF ThreadSteady, Carrying, Named
  <2>4. deletes = 0 => Finished(jobs[j].video) # {}
      BY <1>3, <2>1 DEF SummaryInv, Answered
  <2> HIDE DEF j
  <2> QED
      BY <2>1, <2>2, <2>3, <2>4, StatusStep DEF Terminal
<1>4. CASE HandleException(w)
  <2>1. /\ worker'[w] = Idle /\ \A v \in Worker : v # w => worker'[v] = worker[v]
        /\ UNCHANGED <<trs, nextTr, deletes>> /\ j \in JobId
      BY <1>4, SetEffect, IdleTyped, Holding DEF HandleException, counters, IInv
  <2>2. ThreadSteady(w) /\ worker'[w].at = "idle"
      BY <2>1 DEF ThreadSteady, Idle, Carrying, Named
  <2>3. CASE Row(w)
    <3>1. Exists(j) /\ StatusSet(j, "failed")
        BY <1>4, <2>3 DEF HandleException, StatusSet, Row
    <3> HIDE DEF j
    <3> QED
        BY <2>1, <2>2, <3>1, StatusStep DEF Terminal
  <2>4. CASE ~Row(w)
      BY <1>4, <2>1, <2>2, <2>4, ThreadStep DEF HandleException
  <2> QED
      BY <2>3, <2>4
<1>5. CASE (StartTranscribing(w) \/ FinishDeduplicated(w)) /\ ~Row(w)
    BY <1>5, RaisedStep DEF StartTranscribing, FinishDeduplicated, counters
<1> QED
    BY <1>1, <1>2, <1>3, <1>4, <1>5

LEMMA RecordVideos ==
    ASSUME IInv, IInv', VideoInv, SummaryInv, NEW w \in Worker, RecordInstanceCreated(w)
    PROVE  VideoInv' /\ SummaryInv'
<1> DEFINE j == worker[w].job
           x == [jobs[j] EXCEPT !.rented = TRUE]
<1>1. j \in JobId /\ jobs[j] \in Job
    BY Holding DEF RecordInstanceCreated
<1>2. /\ x.status = jobs[j].status /\ x.video = jobs[j].video
      /\ x.summarize = jobs[j].summarize
    BY <1>1 DEF Job
<1>3. jobs' = [jobs EXCEPT ![j] = x]
    BY DEF RecordInstanceCreated
<1> HIDE DEF x
<1>4. \A i \in JobId : jobs'[i].status = jobs[i].status /\ jobs'[i].video = jobs[i].video
                       /\ jobs'[i].summarize = jobs[i].summarize
    BY <1>1, <1>2, <1>3 DEF IInv, TypeOK
<1>5. \A i \in JobId : JobSteady(i) /\ (Exists(i) => Exists(i)')
    BY <1>4 DEF JobSteady, Exists
<1>6. UNCHANGED <<worker, trs, nextTr, deletes>>
    BY DEF RecordInstanceCreated, counters
<1> QED
    BY <1>4, <1>5, <1>6, SameThread, CalmStep

\* The only step that renames a job.  No transcript names a pending key, so a job
\* that is renamed neither owns one nor counts as summarized.
LEMMA DownloadVideos ==
    ASSUME IInv, IInv', VideoInv, SummaryInv, NEW w \in Worker, Download(w)
    PROVE  VideoInv' /\ SummaryInv'
<1>1. CASE Row(w)
  <2>0. PICK j \in JobId : j = worker[w].job
      BY Holding DEF Download
  <2> DEFINE k == VideoOf(jobs[j].video)
  <2>1. /\ jobs[j] \in Job /\ jobs[j].video \in Key /\ worker[w].at = "download"
        /\ jobs' = Renamed(j) /\ UNCHANGED <<trs, nextTr, deletes>>
      BY <1>1, <2>0, Holding DEF Download, counters
  <2>2. k \in Video /\ (jobs[j].video \in Video => k = jobs[j].video)
      BY <2>1, ResolvedIsVideo, PipelineAssumption DEF VideoOf
  <2> DEFINE x == [jobs[j] EXCEPT !.video = k]
  <2>3. x.video = k /\ x.status = jobs[j].status /\ x.summarize = jobs[j].summarize
      BY <2>1 DEF Job
  <2>4. jobs' = [jobs EXCEPT ![j] = x]
      BY <2>1 DEF Renamed
  <2> HIDE DEF x
  <2>5. jobs'[j] = x /\ \A i \in JobId : i # j => jobs'[i] = jobs[i]
      BY <2>1, <2>4 DEF IInv, TypeOK
  <2>6. PICK at \in {"dedup", "probe"} : Goto(w, at)
      BY <1>1 DEF Download
  <2>7. /\ worker'[w].at = at /\ worker'[w].job = j
        /\ \A v \in Worker : v # w => worker'[v] = worker[v]
      BY <2>0, <2>6, GotoEffect DEF IInv, Stage
  <2>8. \A v \in Worker : v # w => worker[v].job # j
      BY <2>0, NoneIsNoId DEF IInv, ClaimExclusive
  <2> HIDE DEF k
  <2>9. ASSUME NEW t \in TrId PROVE Owned(t)'
    <3>1. CASE TrExists(t)
      <4>1. /\ trs[t].job \in JobId /\ trs[t].video \in Video
            /\ Exists(trs[t].job) /\ jobs[trs[t].job].video = trs[t].video
          BY <3>1 DEF VideoInv, Owned, IInv, TypeOK, Transcript, TrExists
      <4>2. /\ jobs'[trs[t].job].status = jobs[trs[t].job].status
            /\ jobs'[trs[t].job].video = jobs[trs[t].job].video
          BY <4>1, <2>2, <2>3, <2>5
      <4> QED
          BY <2>1, <4>1, <4>2 DEF Owned, Exists
    <3> QED
        BY <2>1, <3>1 DEF Owned, TrExists
  <2>10. ASSUME NEW v \in Worker PROVE Carries(v)' /\ Knows(v)'
    <3>1. CASE v = w
        BY <3>1, <2>2, <2>3, <2>5, <2>6, <2>7 DEF Carries, Knows, Carrying, Named
    <3>2. CASE v # w
      <4>1. worker'[v] = worker[v] /\ Carries(v) /\ Knows(v)
          BY <3>2, <2>7 DEF VideoInv
      <4>2. worker[v].at \in Carrying \cup Named => worker[v].job \in JobId
          BY Holding DEF Carrying, Named
      <4>3. worker[v].job \in JobId => jobs'[worker[v].job] = jobs[worker[v].job]
          BY <3>2, <2>5, <2>8
      <4> QED
          BY <2>1, <4>1, <4>2, <4>3 DEF Carries, Knows, Row, Exists, TrExists
    <3> QED
        BY <3>1, <3>2
  <2>11. SummaryInv'
    <3> SUFFICES ASSUME deletes = 0
                 PROVE  /\ \A i \in JobId : Summarized(i)'
                        /\ \A v \in Worker : Answered(v)'
        BY <2>1 DEF SummaryInv
    <3>1. Summarized(j)'
      <4>1. CASE jobs[j].video \in Video
        <5>1. /\ jobs'[j].status = jobs[j].status /\ jobs'[j].video = jobs[j].video
              /\ jobs'[j].summarize = jobs[j].summarize /\ trs' = trs
            BY <2>1, <2>2, <2>3, <2>5, <4>1
        <5>2. Summarized(j)
            BY DEF SummaryInv
        <5> QED
            BY <5>1, <5>2 DEF Summarized, Finished, TrExists
      <4>2. CASE jobs[j].video \notin Video
        <5>1. Finished(jobs[j].video) = {}
            BY <4>2 DEF Finished, VideoInv, Owned
        <5> QED
            BY <2>1, <2>3, <2>5, <5>1 DEF SummaryInv, Summarized
      <4> QED
          BY <4>1, <4>2
    <3>2. \A i \in JobId : i # j => Summarized(i)'
        BY <2>1, <2>5 DEF SummaryInv, Summarized, Finished, TrExists
    <3>3. ASSUME NEW v \in Worker PROVE Answered(v)'
      <4>1. CASE v = w
          BY <4>1, <2>7 DEF Answered
      <4>2. CASE v # w /\ worker[v].at = "deduplicated"
        <5>1. worker'[v] = worker[v] /\ worker[v].job \in JobId
            BY <4>2, <2>7, Holding
        <5>2. jobs'[worker[v].job] = jobs[worker[v].job]
            BY <4>2, <5>1, <2>5, <2>8
        <5> QED
            BY <4>2, <5>1, <5>2, <2>1
            DEF SummaryInv, Answered, Row, Exists, Finished, TrExists
      <4>3. CASE v # w /\ worker[v].at # "deduplicated"
          BY <4>3, <2>7 DEF Answered
      <4> QED
          BY <4>1, <4>2, <4>3
    <3> QED
        BY <3>1, <3>2, <3>3
  <2> QED
      BY <2>9, <2>10, <2>11 DEF VideoInv
<1>2. CASE ~Row(w)
    BY <1>2, RaisedStep DEF Download, counters
<1> QED
    BY <1>1, <1>2

LEMMA SaveVideos ==
    ASSUME IInv, IInv', FreshIds, VideoInv, SummaryInv, NEW w \in Worker, SaveTranscript(w)
    PROVE  VideoInv' /\ SummaryInv'
<1>1. CASE MayOwn(worker[w].job, nextTr)
  <2>1. PICK j \in JobId, n \in TrId : j = worker[w].job /\ n = nextTr
      BY <1>1, Holding DEF SaveTranscript
  <2> DEFINE v == VideoOf(jobs[j].video)
             x == [worker[w] EXCEPT !.at = "saved", !.tr = nextTr, !.owner = j]
             y == [job |-> j, video |-> v, summary |-> None]
  <2>2. /\ Exists(j) /\ n \in Nat /\ nextTr' = n + 1
        /\ worker' = [worker EXCEPT ![w] = x] /\ trs' = [trs EXCEPT ![n] = y]
        /\ UNCHANGED <<jobs, deletes>>
      BY <1>1, <2>1 DEF SaveTranscript, MayOwn, counters, TrId
  <2>3. v = jobs[j].video /\ v \in Video
      BY <2>1, <2>2, PipelineAssumption DEF SaveTranscript, VideoInv, Knows, Named, Row, VideoOf
  <2>4. x.at = "saved" /\ x.tr = n /\ x.job = j
      BY <2>1, Holding DEF SaveTranscript, WorkerState
  <2>5. y.job = j /\ y.video = v /\ y.summary = None /\ j # None
      BY NoneIsNoId
  <2> HIDE DEF x, y, v
  <2>6. worker'[w] = x /\ \A u \in Worker : u # w => worker'[u] = worker[u]
      BY <2>2 DEF IInv, TypeOK
  <2>7. trs'[n] = y /\ \A t \in TrId : t # n => trs'[t] = trs[t]
      BY <2>2 DEF IInv, TypeOK
  <2>8. \A i \in JobId : JobSteady(i)
      BY <2>2 DEF JobSteady, Exists
  <2>9. ASSUME NEW t \in TrId, t # n PROVE TrSteady(t) /\ TrSame(t) /\ TrGrows(t)
    <3>1. trs'[t] = trs[t] /\ jobs' = jobs
        BY <2>2, <2>7, <2>9
    <3>2. TrExists(t) => jobs[trs[t].job].status \notin Absent
        BY DEF VideoInv, Owned, Exists
    <3> QED
        BY <3>1, <3>2 DEF TrSteady, TrSame, TrGrows, TrExists, Exists
  <2>10. ASSUME NEW t \in TrId, t = n PROVE Owned(t)' /\ TrGrows(t)
    <3>1. ~TrExists(t)
        BY <2>1, <2>2, <2>10 DEF FreshIds
    <3> QED
        BY <2>2, <2>3, <2>5, <2>7, <2>10, <3>1 DEF Owned, Exists, TrGrows
  <2>11. Carries(w)' /\ Knows(w)'
      BY <2>2, <2>3, <2>4, <2>5, <2>6, <2>7 DEF Carries, Knows, Named, Row, Exists, TrExists
  <2>12. \A u \in Worker : ThreadSteady(u) \/ (Carries(u)' /\ Knows(u)')
      BY <2>6, <2>11, SameThread
  <2>13. VideoInv'
      BY <2>1, <2>2, <2>8, <2>9, <2>10, <2>12, SteadyVideos DEF TrId
  <2>14. SummaryInv'
      BY <2>2, <2>4, <2>6, <2>8, <2>9, <2>10, SteadySummaries
  <2> QED
      BY <2>13, <2>14
<1>2. CASE ~MayOwn(worker[w].job, nextTr)
    BY <1>2, RaisedStep DEF SaveTranscript, counters
<1> QED
    BY <1>1, <1>2

\* The commit that moves a job on with its transcript, re-pointed when it had
\* another owner; or that finishes the job with a summary.
LEMMA RepointVideos ==
    ASSUME IInv, IInv', VideoInv, SummaryInv, NEW w \in Worker,
           StartSummarizing(w) \/ FinishWithoutSummary(w)
    PROVE  VideoInv' /\ SummaryInv'
<1>1. CASE CanRepoint(w)
  <2>1. PICK j \in JobId, u \in TrId : j = worker[w].job /\ u = worker[w].tr
      BY Holding DEF StartSummarizing, FinishWithoutSummary
  <2>2. /\ worker[w].at \in Carrying /\ Exists(j) /\ Repoint(w)
        /\ UNCHANGED <<nextTr, deletes>>
      BY <1>1, <2>1
      DEF StartSummarizing, FinishWithoutSummary, Carrying, CanRepoint, Row, counters
  <2>3. PICK s \in {"summarizing", "done"} :
            SetStatus(j, s) /\ (s = "done" => ~jobs[j].summarize)
      BY <1>1, <2>1 DEF StartSummarizing, FinishWithoutSummary
  <2>4. /\ jobs'[j].status = s
        /\ jobs'[j].video = jobs[j].video /\ jobs'[j].summarize = jobs[j].summarize
        /\ \A i \in JobId : i # j => jobs'[i] = jobs[i]
        /\ \A i \in JobId : JobSteady(i) /\ (Exists(i) => Exists(i)')
      BY <2>2, <2>3, StatusSetEffect DEF StatusSet, MidStage, Terminal
  <2>5. /\ worker'[w].at \in {"summarize", "webhook", "idle"}
        /\ worker'[w].at = "summarize" =>
               worker'[w].job = worker[w].job /\ worker'[w].tr = worker[w].tr
        /\ \A v \in Worker : v # w => worker'[v] = worker[v]
    <3>1. CASE StartSummarizing(w)
        BY <1>1, <3>1, GotoEffect DEF StartSummarizing, IInv, Stage
    <3>2. CASE FinishWithoutSummary(w)
        BY <1>1, <3>2, FinishEffect DEF FinishWithoutSummary, IInv, Idle
    <3> QED
        BY <3>1, <3>2
  <2>6. \A v \in Worker : ThreadSteady(v)
      BY <2>2, <2>5, SameThread DEF ThreadSteady, Carrying, Named
  <2>7. CASE ~Repointed(w)
    <3>1. UNCHANGED trs
        BY <2>2, <2>7 DEF Repoint
    <3> QED
        BY <2>2, <2>3, <2>4, <2>5, <2>6, <3>1, CalmStep
  <2>8. CASE Repointed(w)
    <3> DEFINE x == [trs[u] EXCEPT !.job = j]
    <3>1. TrExists(u) /\ trs' = [trs EXCEPT ![u] = x]
        BY <1>1, <2>1, <2>2, <2>8 DEF CanRepoint, Repoint
    <3>2. x.job = j /\ x.video = trs[u].video /\ x.summary = trs[u].summary
        BY DEF IInv, TypeOK, Transcript
    <3> HIDE DEF x
    <3>3. trs'[u] = x /\ \A t \in TrId : t # u => trs'[t] = trs[t]
        BY <3>1 DEF IInv, TypeOK
    <3>4. trs[u].video = jobs[j].video /\ trs[u].video \in Video
        BY <2>1, <2>2, <3>1 DEF VideoInv, Carries, Owned, Row
    <3>5. ASSUME NEW t \in TrId, t # u PROVE TrSteady(t) /\ TrSame(t) /\ TrGrows(t)
      <4>1. trs'[t] = trs[t]
          BY <3>3, <3>5
      <4>2. TrExists(t) => trs[t].job \in JobId /\ jobs[trs[t].job].status \notin Absent
          BY DEF VideoInv, Owned, Exists, TrExists, IInv, TypeOK, Transcript
      <4> QED
          BY <2>4, <4>1, <4>2 DEF TrSteady, TrSame, TrGrows, TrExists, Exists
    <3>6. ASSUME NEW t \in TrId, t = u PROVE Owned(t)' /\ TrSame(t) /\ TrGrows(t)
      <4>1. jobs'[j].status \notin Absent
          BY <2>3, <2>4 DEF Absent
      <4> QED
          BY <2>4, <3>1, <3>2, <3>3, <3>4, <3>6, <4>1, NoneIsNoId
          DEF Owned, TrSame, TrGrows, TrExists, Exists
    <3>7. VideoInv'
        BY <2>2, <2>4, <2>6, <3>5, <3>6, SteadyVideos DEF IInv, TypeOK
    <3>8. SummaryInv'
        BY <2>2, <2>3, <2>4, <2>5, <3>5, <3>6, SteadySummaries
    <3> QED
        BY <3>7, <3>8
  <2> QED
      BY <2>7, <2>8
<1>2. CASE ~CanRepoint(w)
    BY <1>2, RaisedStep DEF StartSummarizing, FinishWithoutSummary, counters
<1> QED
    BY <1>1, <1>2

LEMMA SummaryVideos ==
    ASSUME IInv, IInv', VideoInv, SummaryInv, NEW w \in Worker, FinishWithSummary(w)
    PROVE  VideoInv' /\ SummaryInv'
<1>1. CASE Row(w) /\ TrExists(worker[w].tr)
  <2>1. PICK j \in JobId, u \in TrId : j = worker[w].job /\ u = worker[w].tr
      BY Holding DEF FinishWithSummary
  <2>2. /\ worker[w].at = "summarize" /\ Exists(j) /\ SetStatus(j, "done") /\ Finish(w)
        /\ TrExists(u) /\ UNCHANGED <<nextTr, deletes>>
      BY <1>1, <2>1 DEF FinishWithSummary, Row, counters
  <2>3. PICK text \in Text : trs' = [trs EXCEPT ![u].summary = WriteBack(u, text)]
      BY <1>1, <2>1 DEF FinishWithSummary
  <2>4. WriteBack(u, text) # None
      BY PipelineAssumption DEF WriteBack
  <2> DEFINE new == WriteBack(u, text)
             x == [trs[u] EXCEPT !.summary = new]
  <2> HIDE DEF new
  <2>5. x.job = trs[u].job /\ x.video = trs[u].video /\ x.summary # None
      BY <2>4 DEF IInv, TypeOK, Transcript, new
  <2>6. trs' = [trs EXCEPT ![u] = x]
      BY <2>3 DEF new
  <2> HIDE DEF x
  <2>7. trs'[u] = x /\ \A t \in TrId : t # u => trs'[t] = trs[t]
      BY <2>6 DEF IInv, TypeOK
  <2>8. /\ jobs'[j].status = "done" /\ jobs'[j].video = jobs[j].video
        /\ \A i \in JobId : i # j => jobs'[i] = jobs[i]
        /\ \A i \in JobId : JobSteady(i) /\ (Exists(i) => Exists(i)')
      BY <2>2, StatusSetEffect DEF StatusSet, Terminal
  <2>9. /\ worker'[w].at \in {"webhook", "idle"}
        /\ \A v \in Worker : v # w => worker'[v] = worker[v]
      BY <2>2, FinishEffect DEF IInv, Idle
  <2>10. \A v \in Worker : ThreadSteady(v)
      BY <2>9, SameThread DEF ThreadSteady, Carrying, Named
  <2>11. ASSUME NEW t \in TrId PROVE TrSteady(t) /\ TrSame(t) /\ TrGrows(t)
    <3>1. trs'[t].job = trs[t].job /\ trs'[t].video = trs[t].video
        BY <2>5, <2>7
    <3>2. trs[t].summary # None => trs'[t].summary # None
        BY <2>5, <2>7
    <3>3. TrExists(t) => trs[t].job \in JobId /\ jobs[trs[t].job].status \notin Absent
        BY DEF VideoInv, Owned, Exists, TrExists, IInv, TypeOK, Transcript
    <3> QED
        BY <2>8, <3>1, <3>2, <3>3 DEF TrSteady, TrSame, TrGrows, TrExists, Exists
  <2>12. VideoInv'
      BY <2>2, <2>8, <2>10, <2>11, SteadyVideos DEF IInv, TypeOK
  <2>13. u \in Later(jobs'[j].video)
      BY <2>1, <2>2, <2>5, <2>7, <2>8
      DEF Later, VideoInv, Carries, Carrying, Row, TrExists
  <2>14. SummaryInv'
      BY <2>2, <2>8, <2>9, <2>11, <2>13, SteadySummaries
  <2> QED
      BY <2>12, <2>14
<1>2. CASE ~(Row(w) /\ TrExists(worker[w].tr))
    BY <1>2, RaisedStep DEF FinishWithSummary, counters
<1> QED
    BY <1>1, <1>2

LEMMA ResummarizeVideos ==
    ASSUME IInv, IInv', VideoInv, SummaryInv, NEW r \in Request, FinishResummarize(r)
    PROVE  VideoInv' /\ SummaryInv'
<1> DEFINE u == request[r].tr
<1>0. UNCHANGED <<worker, nextTr, deletes>> /\ u \in TrId
    BY DEF FinishResummarize, counters, IInv, TypeOK, RequestState, Bookkeeping
<1>1. CASE TrExists(u) /\ Unchanged(r)
  <2>1. PICK n \in TrId, j \in JobId :
            n = u /\ j = trs[n].job /\ TrExists(n) /\ Exists(j) /\ jobs[j].video = trs[n].video
      BY <1>0, <1>1 DEF TrExists, VideoInv, Owned, IInv, TypeOK, Transcript
  <2>2. PICK text \in Text : trs' = [trs EXCEPT ![n].summary = text]
      BY <1>1, <2>1 DEF FinishResummarize
  <2> DEFINE x == [trs[n] EXCEPT !.summary = text]
  <2>3. x.job = trs[n].job /\ x.video = trs[n].video /\ x.summary # None
      BY PipelineAssumption DEF IInv, TypeOK, Transcript
  <2>4. trs' = [trs EXCEPT ![n] = x]
      BY <2>2
  <2> HIDE DEF x
  <2>5. trs'[n] = x /\ \A t \in TrId : t # n => trs'[t] = trs[t]
      BY <2>4 DEF IInv, TypeOK
  <2>6. UNCHANGED jobs \/ StatusSet(j, "done")
      BY <1>1, <2>1 DEF FinishResummarize, StatusSet
  <2>7. /\ \A i \in JobId : i # j => jobs'[i] = jobs[i]
        /\ \A i \in JobId : JobSteady(i) /\ (Exists(i) => Exists(i)')
        /\ jobs'[j].video = jobs[j].video
    <3>1. CASE UNCHANGED jobs
        BY <3>1 DEF JobSteady, Exists
    <3>2. CASE StatusSet(j, "done")
        BY <2>1, <3>2, StatusSetEffect DEF Terminal
    <3> QED
        BY <2>6, <3>1, <3>2
  <2>8. ASSUME NEW t \in TrId PROVE TrSteady(t) /\ TrSame(t) /\ TrGrows(t)
    <3>1. trs'[t].job = trs[t].job /\ trs'[t].video = trs[t].video
        BY <2>3, <2>5
    <3>2. trs[t].summary # None => trs'[t].summary # None
        BY <2>3, <2>5
    <3>3. TrExists(t) => trs[t].job \in JobId /\ jobs[trs[t].job].status \notin Absent
        BY DEF VideoInv, Owned, Exists, TrExists, IInv, TypeOK, Transcript
    <3> QED
        BY <2>7, <3>1, <3>2, <3>3 DEF TrSteady, TrSame, TrGrows, TrExists, Exists
  <2>9. \A v \in Worker : ThreadSteady(v)
      BY <1>0, SameThread
  <2>10. VideoInv'
      BY <1>0, <2>7, <2>8, <2>9, SteadyVideos DEF IInv, TypeOK
  <2>11. n \in Later(jobs'[j].video)
      BY <2>1, <2>3, <2>5, <2>7 DEF Later, TrExists
  <2> HIDE DEF u
  <2>12. SummaryInv'
      BY <1>0, <2>7, <2>8, <2>11, SteadySummaries
  <2> QED
      BY <2>10, <2>12
<1>2. CASE ~(TrExists(u) /\ Unchanged(r))
  <2>1. UNCHANGED <<jobs, trs>>
      BY <1>2 DEF FinishResummarize
  <2>2. \A j \in JobId : JobSteady(j) /\ (Exists(j) => Exists(j)')
      BY <2>1 DEF JobSteady, Exists
  <2> HIDE DEF u
  <2> QED
      BY <1>0, <2>1, <2>2, SameThread, CalmStep
<1> QED
    BY <1>1, <1>2

LEMMA InsertVideos ==
    ASSUME IInv, IInv', VideoInv, SummaryInv, NEW r \in Request, InsertPost(r) \/ InsertRetry(r)
    PROVE  VideoInv' /\ SummaryInv'
<1>1. UNCHANGED <<worker, trs, nextTr, deletes>> /\ nextJob \in JobId
    BY Zenon DEF InsertPost, InsertRetry, counters
<1>2. jobs[nextJob].status = "unborn"
    BY <1>1 DEF IInv, Bookkeeping, JobId
<1>3. InsertEffect
    BY InsertPostStep, InsertRetryStep
<1>4. ASSUME NEW i \in JobId, i # nextJob PROVE jobs'[i].summarize = jobs[i].summarize
  <2>1. CASE InsertPost(r)
      BY <1>4, <2>1 DEF InsertPost, IInv, TypeOK
  <2>2. CASE InsertRetry(r)
    <3> DEFINE j == request[r].job
               e == (jobs[j].error \/ jobs[j].status = "failed")
               x == InsertJob(jobs[j].video, TRUE, RetriedHook(jobs[j].hook))
               f == [jobs EXCEPT ![nextJob] = x]
    <3>1. jobs' = [f EXCEPT ![j].error = e]
        BY <2>2 DEF InsertRetry
    <3> HIDE DEF e, x, j
    <3>2. f[i] = jobs[i] /\ f \in [JobId -> {f[k] : k \in JobId}]
        BY <1>4 DEF IInv, TypeOK
    <3> HIDE DEF f
    <3>3. CASE i = j
      <4>1. jobs'[i] = [f[i] EXCEPT !.error = e]
          BY <3>1, <3>2, <3>3
      <4> QED
          BY <3>2, <4>1 DEF IInv, TypeOK, Job
    <3>4. CASE i # j
        BY <3>1, <3>2, <3>4
    <3> QED
        BY <3>3, <3>4
  <2> QED
      BY <2>1, <2>2
<1>5. \A i \in JobId : JobSteady(i) /\ (Exists(i) => Exists(i)')
    BY <1>2, <1>3, <1>4 DEF InsertEffect, JobSteady, Exists, Absent
<1>6. \A w \in Worker : ThreadSteady(w)
    BY <1>1, SameThread
<1> QED
    BY <1>1, <1>3, <1>5, <1>6, CalmStep DEF InsertEffect

LEMMA RemoveVideos ==
    ASSUME IInv, IInv', VideoInv, SummaryInv, NEW j \in JobId, RemoveJob(j)
    PROVE  VideoInv' /\ SummaryInv'
<1>1. /\ UNCHANGED <<worker, nextTr>> /\ deletes' = deletes + 1
      /\ \A t \in TrId : trs'[t] = IF trs[t].job = j THEN NoTrRow ELSE trs[t]
    BY DEF RemoveJob, Cascade
<1>2. /\ jobs'[j].status = "deleted"
      /\ \A i \in JobId : i # j => jobs'[i] = jobs[i]
    BY DEF RemoveJob, NoJobRow, IInv, TypeOK
<1>3. \A i \in JobId : JobSteady(i)
    BY <1>2 DEF JobSteady, Exists, Absent
<1>4. ASSUME NEW t \in TrId PROVE TrSteady(t) /\ TrSame(t)
  <2>1. TrExists(t) => trs[t].job \in JobId /\ jobs[trs[t].job].status \notin Absent
      BY DEF VideoInv, Owned, Exists, TrExists, IInv, TypeOK, Transcript
  <2>2. CASE trs[t].job = j
      BY <1>1, <2>2 DEF TrSteady, TrSame, TrExists, NoTrRow
  <2>3. CASE trs[t].job # j
      BY <1>1, <1>2, <2>1, <2>3 DEF TrSteady, TrSame, TrExists, Exists
  <2> QED
      BY <2>2, <2>3
<1>5. VideoInv'
    BY <1>1, <1>3, <1>4, SameThread, SteadyVideos DEF IInv, TypeOK
<1>6. SummaryInv'
    BY <1>1 DEF SummaryInv, IInv, TypeOK
<1> QED
    BY <1>5, <1>6

LEMMA RestartVideos ==
    ASSUME IInv, IInv', VideoInv, SummaryInv, Restart PROVE VideoInv' /\ SummaryInv'
<1>0. PICK upTo \in 1 .. MaxJobs + 1 :
          LET reached == {j \in Interrupted : j < upTo}
          IN  \E stuck \in SUBSET {j \in reached : jobs[j].rented} :
                  jobs' = [j \in JobId |->
                      IF j \in stuck THEN [jobs[j] EXCEPT !.status = "failed"]
                      ELSE IF j \in reached THEN [jobs[j] EXCEPT !.status = "queued"]
                      ELSE jobs[j]]
    BY Zenon DEF Restart
<1>1. PICK stuck \in SUBSET Interrupted, reached \in SUBSET Interrupted :
          jobs' = [j \in JobId |->
              IF j \in stuck THEN [jobs[j] EXCEPT !.status = "failed"]
              ELSE IF j \in reached THEN [jobs[j] EXCEPT !.status = "queued"]
              ELSE jobs[j]]
  <2> DEFINE reached == {j \in Interrupted : j < upTo}
  <2>1. PICK stuck \in SUBSET {j \in reached : jobs[j].rented} :
            jobs' = [j \in JobId |->
                IF j \in stuck THEN [jobs[j] EXCEPT !.status = "failed"]
                ELSE IF j \in reached THEN [jobs[j] EXCEPT !.status = "queued"]
                ELSE jobs[j]]
      BY <1>0
  <2>2. stuck \in SUBSET Interrupted /\ reached \in SUBSET Interrupted
      OBVIOUS
  <2> HIDE DEF reached
  <2> QED
      BY <2>1, <2>2
<1>2. ASSUME NEW j \in JobId
      PROVE  /\ jobs'[j].video = jobs[j].video /\ jobs'[j].summarize = jobs[j].summarize
             /\ \/ jobs'[j].status = jobs[j].status
                \/ jobs'[j].status \in {"failed", "queued"} /\ jobs[j].status \in MidStage
  <2>1. jobs[j] \in Job /\ (j \in Interrupted => jobs[j].status \in MidStage)
      BY DEF IInv, TypeOK, Interrupted, InterruptedStatuses
  <2>2. CASE j \in stuck
    <3>1. jobs'[j] = [jobs[j] EXCEPT !.status = "failed"]
        BY <1>1, <2>2
    <3> QED
        BY <1>1, <2>1, <2>2, <3>1 DEF Job
  <2>3. CASE j \notin stuck /\ j \in reached
    <3>1. jobs'[j] = [jobs[j] EXCEPT !.status = "queued"]
        BY <1>1, <2>3
    <3> QED
        BY <1>1, <2>1, <2>3, <3>1 DEF Job
  <2>4. CASE j \notin stuck /\ j \notin reached
      BY <1>1, <2>4
  <2> QED
      BY <2>2, <2>3, <2>4
<1>3. \A j \in JobId : JobSteady(j) /\ (Exists(j) => Exists(j)')
    BY <1>2 DEF JobSteady, Exists, Absent, MidStage
<1>4. UNCHANGED <<trs, nextTr, deletes>> /\ \A w \in Worker : worker'[w].at = "idle"
    BY DEF Restart, Idle
<1>5. \A w \in Worker : ThreadSteady(w)
    BY <1>4 DEF ThreadSteady, Carrying, Named
<1> QED
    BY <1>2, <1>3, <1>4, <1>5, CalmStep

LEMMA StepKeepsVideos ==
    ASSUME IInv, FreshIds, VideoInv, SummaryInv, [Next]_vars
    PROVE  VideoInv' /\ SummaryInv'
<1>0. IInv'
    BY StepKeepsIInv
<1>1. ASSUME NEW w \in Worker, WorkerStep(w) \/ RecordInstanceCreated(w) \/ HandlerFails(w)
      PROVE  VideoInv' /\ SummaryInv'
    BY <1>0, <1>1, ReadVideos, WorkerStatus, RecordVideos, DownloadVideos, SaveVideos,
       RepointVideos, SummaryVideos
    DEF WorkerStep
<1>2. ASSUME NEW r \in Request, RequestStep(r), ~ResummarizeFails(r)
      PROVE  VideoInv' /\ SummaryInv'
    BY <1>0, <1>2, InsertVideos, ResummarizeVideos DEF RequestStep
<1>3. ASSUME NEW j \in JobId, CancelJob(j) PROVE VideoInv' /\ SummaryInv'
  <2>1. Exists(j) /\ StatusSet(j, "failed") /\ UNCHANGED <<worker, trs, nextTr, deletes>>
      BY <1>3 DEF CancelJob, StatusSet, Exists, Active, Absent
  <2> QED
      BY <1>0, <2>1, StatusStep DEF Terminal
<1>4. ASSUME NEW t \in TrId, DeleteTranscript(t) PROVE VideoInv' /\ SummaryInv'
  <2>1. trs[t].job \in JobId
      BY <1>4 DEF DeleteTranscript, TrExists, IInv, TypeOK, Transcript
  <2> QED
      BY <1>0, <1>4, <2>1, RemoveVideos DEF DeleteTranscript
<1>5. CASE \/ UNCHANGED vars
           \/ \E r \in Request :
                  \/ ResummarizeFails(r) \/ \E k \in Key : CheckPost(r, k)
                  \/ \E j \in JobId : CheckRetry(r, j)
                  \/ \E t \in TrId : StartResummarize(r, t)
  <2>1. UNCHANGED <<jobs, trs, worker, nextTr, deletes>>
      BY <1>5
      DEF vars, ResummarizeFails, CheckPost, CheckRetry, StartResummarize, rows, counters
  <2>2. \A j \in JobId : JobSteady(j) /\ (Exists(j) => Exists(j)')
      BY <2>1 DEF JobSteady, Exists
  <2> QED
      BY <1>0, <2>1, <2>2, SameThread, CalmStep
<1> QED
    BY <1>0, <1>1, <1>2, <1>3, <1>4, <1>5, RemoveVideos, RestartVideos DEF Next, DeleteJob

--------------------------------------------------------------------------------

\* The two invariants about videos and summaries, for any number of jobs, threads,
\* handlers, restarts and deletions.
THEOREM VideosAgree == Spec => [](VideoInv /\ SummaryInv)
<1>1. Init => VideoInv /\ SummaryInv
    BY DEF Init, VideoInv, SummaryInv, Owned, Carries, Knows, Answered, Summarized,
           TrExists, NoTrRow, NoJobRow, Idle, Carrying, Named
<1>2. IInv /\ FreshIds /\ VideoInv /\ SummaryInv /\ [Next]_vars => VideoInv' /\ SummaryInv'
    BY StepKeepsVideos
<1> QED
    BY <1>1, <1>2, InductiveInvariant, IdsAreFresh, PTL DEF Spec

\* The transcript a job owns is of the job's video: renaming a job after its download,
\* handing a partial over to a later job and deletions in between keep the two rows
\* in step (process_job, _summarize_and_finalize).
THEOREM OwnersHaveTheSameVideo == Spec => []OwnerHasSameVideo
<1>1. VideoInv => OwnerHasSameVideo
    BY DEF VideoInv, Owned, OwnerHasSameVideo
<1> QED
    BY <1>1, VideosAgree, PTL

\* While nothing was deleted, every done job that asked for a summary has one of its
\* video: its own, one it resumed, or the one deduplication found.
THEOREM DoneJobsAreSummarized == Spec => []DoneMeansSummarized
<1>1. SummaryInv => DoneMeansSummarized
    BY DEF SummaryInv, Summarized, DoneMeansSummarized
<1> QED
    BY <1>1, VideosAgree, PTL
================================================================================
