-------------------------- MODULE JobPipelineProofs --------------------------
(***************************************************************************)
(* Proofs about JobPipeline, for any number of workers, handlers, videos,  *)
(* jobs and faults.                                                        *)
(*                                                                         *)
(* Every step a worker takes on the job it holds has the same shape,       *)
(* WorkerEffect: it touches its own state and its own job row, never       *)
(* queues that row, and lets go of it only when the row has settled or was *)
(* stranded.  The inductive invariant and the refinement of WorkQueue are  *)
(* both proved from that shape, so each action is expanded once.           *)
(***************************************************************************)
EXTENDS JobPipeline, TLAPS

WorkerEffect(w) ==
    /\ worker[w].at # "idle"
    /\ \A v \in Worker : v # w => worker'[v] = worker[v]
    /\ \/ worker'[w].job = worker[w].job /\ worker'[w].at # "idle"
       \/ worker'[w] = Idle
    /\ worker'[w].at \in {"resume", "saved", "summarize"} =>
           worker'[w].tr # None /\ worker'[w].owner # None
    /\ \A j \in JobId : j # worker[w].job => jobs'[j] = jobs[j]
    /\ LET j == worker[w].job
       IN  /\ \/ jobs'[j] = jobs[j]
              \/ /\ Exists(j) /\ ~Locked(j)
                 /\ jobs'[j].status \in MidStage \cup Terminal
                 /\ jobs'[j].video \in Key
           /\ worker'[w].at = "webhook" => jobs'[j].status \notin MidStage
           /\ worker'[w] = Idle => jobs'[j].status \notin MidStage \/ j \in stranded'
    /\ \/ stranded' = stranded
       \/ worker'[w] = Idle /\ stranded' = stranded \cup {worker[w].job}
    /\ UNCHANGED <<request, nextJob>>

LEMMA NoneIsNoId == None \notin JobId /\ None \notin TrId
BY PipelineAssumption DEF JobId, TrId

LEMMA InitIInv == Init => IInv
<1> SUFFICES ASSUME Init PROVE IInv
    OBVIOUS
<1> USE DEF Init, Idle, NoJobRow, NoTrRow, NoRequest
<1>1. TypeOK
    BY DEF TypeOK, Job, Transcript, WorkerState, RequestState, Absent, Hook, Stage
<1>2. ClaimExclusive /\ QueuedIsFree /\ MidStageHasWorker
    BY DEF ClaimExclusive, QueuedIsFree, MidStageHasWorker, Queued, MidStage
<1>3. Bookkeeping
    BY DEF Bookkeeping, Exists, Absent, JobId
<1> QED
    BY <1>1, <1>2, <1>3 DEF IInv

LEMMA WorkerEffectKeepsIInv ==
    ASSUME IInv, TypeOK', NEW w \in Worker, WorkerEffect(w)
    PROVE  IInv'
<1> DEFINE j == worker[w].job
<1> USE NoneIsNoId
<1>1. j \in JobId
    BY DEF IInv, TypeOK, Bookkeeping, WorkerState, WorkerEffect
<1>2. worker'[w].job \in {j, None}
    BY DEF WorkerEffect, Idle
<1>3. ClaimExclusive'
    BY <1>1, <1>2 DEF IInv, ClaimExclusive, WorkerEffect
<1>4. QueuedIsFree'
  <2>1. j \notin Queued /\ j \notin Queued'
    BY <1>1 DEF IInv, QueuedIsFree, Queued, WorkerEffect, MidStage, Terminal
  <2>2. \A i \in JobId : i # j => (i \in Queued' => i \in Queued)
    BY DEF Queued, WorkerEffect
  <2> QED
    BY <1>2, <2>1, <2>2 DEF IInv, QueuedIsFree, WorkerEffect, Queued
<1>5. MidStageHasWorker'
  <2> SUFFICES ASSUME NEW i \in JobId, jobs'[i].status \in MidStage, i \notin stranded'
               PROVE  \E v \in Worker : worker'[v].job = i
    BY DEF MidStageHasWorker
  <2>1. CASE i = j
    BY <2>1, <1>2 DEF WorkerEffect
  <2>2. CASE i # j
    BY <2>2 DEF IInv, MidStageHasWorker, WorkerEffect
  <2> QED
    BY <2>1, <2>2
<1>6. Bookkeeping'
  <2> USE DEF IInv
  <2>1. \A v \in Worker : worker'[v].at = "idle" <=> worker'[v].job = None
    BY <1>1 DEF Bookkeeping, WorkerEffect, Idle
  <2>2. \A v \in Worker :
            worker'[v].at \in {"resume", "saved", "summarize"} =>
                worker'[v].tr # None /\ worker'[v].owner # None
    BY DEF Bookkeeping, WorkerEffect
  <2>3. \A v \in Worker :
            worker'[v].at = "webhook" => jobs'[worker'[v].job].status \notin MidStage
    <3> SUFFICES ASSUME NEW v \in Worker, worker'[v].at = "webhook"
                 PROVE  jobs'[worker'[v].job].status \notin MidStage
        OBVIOUS
    <3>1. CASE v = w
        BY <3>1 DEF WorkerEffect, Idle
    <3>2. CASE v # w
      <4>1. worker'[v] = worker[v]
        BY <3>2 DEF WorkerEffect
      <4>2. worker[v].job # None /\ worker[v].job # j /\ worker[v].job \in JobId
        BY <3>2, <4>1, <1>1 DEF Bookkeeping, ClaimExclusive, TypeOK, WorkerState
      <4> QED
        BY <4>1, <4>2 DEF Bookkeeping, WorkerEffect
    <3> QED
        BY <3>1, <3>2
  <2>4. \A i \in JobId : jobs'[i].status = "unborn" <=> i >= nextJob'
    BY <1>1 DEF Bookkeeping, WorkerEffect, Exists, Absent, MidStage, Terminal
  <2>5. \A i \in JobId : Exists(i)' => jobs'[i].video \in Key
    BY <1>1 DEF Bookkeeping, WorkerEffect, Exists
  <2>6. \A v \in Worker : worker'[v].job # None => jobs'[worker'[v].job].status # "unborn"
    BY <1>1, <1>2 DEF Bookkeeping, WorkerEffect, TypeOK, WorkerState, MidStage, Terminal
  <2>7. \A r \in Request : request'[r].op = "retry" =>
            request'[r].job # None /\ jobs'[request'[r].job].status \in Terminal
    BY <1>1 DEF Bookkeeping, WorkerEffect, Locked, TypeOK, RequestState
  <2> QED
    BY <2>1, <2>2, <2>3, <2>4, <2>5, <2>6, <2>7 DEF Bookkeeping, WorkerEffect
<1> QED
    BY <1>3, <1>4, <1>5, <1>6 DEF IInv

--------------------------------------------------------------------------------
(* Each worker action but the claim has that effect, and keeps the types. *)

\* The facts about the acting worker that every case below needs.
LEMMA Holding ==
    ASSUME IInv, NEW w \in Worker, worker[w].at # "idle"
    PROVE  /\ worker[w] \in WorkerState /\ worker[w].job \in JobId
           /\ jobs[worker[w].job] \in Job
           /\ worker[w].at \in {"resume", "saved", "summarize"} =>
                  worker[w].tr \in TrId /\ worker[w].owner \in JobId
           /\ Row(w) => jobs[worker[w].job].video \in Key
BY DEF IInv, TypeOK, Bookkeeping, WorkerState, Row

LEMMA HeldIsNotQueued ==
    ASSUME IInv, NEW w \in Worker, worker[w].at # "idle", Row(w)
    PROVE  jobs[worker[w].job].status \in MidStage \cup Terminal
BY Holding DEF IInv, QueuedIsFree, Queued, Row, Exists, Job, Active, MidStage, Terminal, Absent

LEMMA ResolvedIsVideo == ASSUME NEW k \in Key PROVE VideoOf(k) \in Video
BY PipelineAssumption DEF Key, VideoOf

USE NoneIsNoId

LEMMA GotoEffect ==
    ASSUME TypeOK, NEW w \in Worker, NEW at \in Stage, Goto(w, at)
    PROVE  /\ worker' \in [Worker -> WorkerState]
           /\ worker'[w].at = at
           /\ worker'[w].job = worker[w].job
           /\ worker'[w].tr = worker[w].tr
           /\ worker'[w].owner = worker[w].owner
           /\ \A v \in Worker : v # w => worker'[v] = worker[v]
<1>1. worker \in [Worker -> WorkerState]
    BY DEF TypeOK
<1> QED
    BY <1>1 DEF Goto, WorkerState

LEMMA SetEffect ==
    ASSUME TypeOK, NEW w \in Worker, NEW x \in WorkerState, worker' = [worker EXCEPT ![w] = x]
    PROVE  /\ worker' \in [Worker -> WorkerState]
           /\ worker'[w] = x
           /\ \A v \in Worker : v # w => worker'[v] = worker[v]
BY DEF TypeOK

LEMMA RowReplaced ==
    ASSUME jobs \in [JobId -> Job], NEW j \in JobId, NEW x \in Job,
           jobs' = [jobs EXCEPT ![j] = x]
    PROVE  /\ jobs' \in [JobId -> Job]
           /\ jobs'[j] = x
           /\ \A i \in JobId : i # j => jobs'[i] = jobs[i]
OBVIOUS

LEMMA IdleTyped == Idle \in WorkerState
BY DEF Idle, WorkerState

LEMMA SetStatusEffect ==
    ASSUME TypeOK, NEW j \in JobId, NEW s \in MidStage \cup Terminal, SetStatus(j, s)
    PROVE  /\ jobs' \in [JobId -> Job]
           /\ jobs'[j].status = s /\ jobs'[j].video = jobs[j].video
           /\ \A i \in JobId : i # j => jobs'[i] = jobs[i]
<1>1. jobs \in [JobId -> Job] /\ s \in Active \cup Terminal \cup Absent
    BY DEF TypeOK, MidStage, Active
<1> QED
    BY <1>1 DEF SetStatus, Job

\* A step that only moves the thread on, to a point where it has promised nothing.
LEMMA LocalStep ==
    ASSUME IInv, NEW w \in Worker, worker[w].at # "idle",
           NEW at \in Stage \ {"resume", "saved", "summarize", "webhook"}, Goto(w, at),
           UNCHANGED <<jobs, trs, nextJob, nextTr, request, stranded, counters>>
    PROVE  TypeOK' /\ WorkerEffect(w)
BY GotoEffect, Holding DEF IInv, TypeOK, Stage, WorkerEffect, Idle, counters

\* The failing branch of a step.
LEMMA RaiseStep ==
    ASSUME IInv, NEW w \in Worker, worker[w].at # "idle", Goto(w, "raised"),
           UNCHANGED <<jobs, trs, nextJob, nextTr, request, stranded, counters>>
    PROVE  TypeOK' /\ WorkerEffect(w)
BY LocalStep DEF Stage

LEMMA LookupStep ==
    ASSUME IInv, NEW w \in Worker, worker[w].at # "idle", NEW at \in {"download", "convert"},
           LookupPartial(w, at) \/ Goto(w, "raised"),
           UNCHANGED <<rows, request, stranded, counters>>
    PROVE  TypeOK' /\ WorkerEffect(w)
<1>1. CASE Goto(w, at) \/ Goto(w, "raised")
    BY <1>1, LocalStep, RaiseStep DEF rows, Stage
<1>2. ASSUME NEW t \in TrId, TrExists(t),
             worker' = [worker EXCEPT ![w] =
                 [@ EXCEPT !.at = "resume", !.tr = t, !.owner = trs[t].job]]
      PROVE  TypeOK' /\ WorkerEffect(w)
  <2> DEFINE x == [worker[w] EXCEPT !.at = "resume", !.tr = t, !.owner = trs[t].job]
  <2>1. trs[t].job \in JobId
    BY <1>2 DEF IInv, TypeOK, Transcript, TrExists
  <2>2. /\ x \in WorkerState /\ x.at = "resume" /\ x.tr = t /\ x.owner = trs[t].job
        /\ x.job = worker[w].job
    BY <2>1, Holding DEF WorkerState, Stage
  <2>3. worker' = [worker EXCEPT ![w] = x]
    BY <1>2
  <2> HIDE DEF x
  <2> QED
    BY <2>1, <2>2, <2>3, SetEffect, Holding
    DEF IInv, TypeOK, WorkerEffect, Idle, rows, counters
<1> QED
    BY <1>1, <1>2 DEF LookupPartial, Partials

\* Actions that leave every row alone.
LEMMA ReadStep ==
    ASSUME IInv, NEW w \in Worker,
           \/ FindPartial(w) \/ DedupAfterExtraction(w) \/ FindPartialAgain(w)
           \/ Raise(w) \/ DeliverWebhook(w) \/ HandlerFails(w)
    PROVE  TypeOK' /\ WorkerEffect(w)
<1>1. CASE FindPartial(w)
    BY <1>1, LookupStep DEF FindPartial
<1>2. CASE FindPartialAgain(w)
    BY <1>2, LookupStep DEF FindPartialAgain
<1>3. CASE DedupAfterExtraction(w)
    BY <1>3, LocalStep DEF DedupAfterExtraction, Stage, rows
<1>4. CASE Raise(w)
    BY <1>4, RaiseStep DEF Raise, rows
<1>5. CASE DeliverWebhook(w)
    BY <1>5, Holding, SetEffect, IdleTyped
    DEF DeliverWebhook, IInv, TypeOK, Bookkeeping, Idle, WorkerEffect, rows, counters
<1>6. CASE HandlerFails(w)
    BY <1>6, Holding, SetEffect, IdleTyped
    DEF HandlerFails, IInv, TypeOK, Idle, WorkerEffect, rows, counters
<1> QED
    BY <1>1, <1>2, <1>3, <1>4, <1>5, <1>6

LEMMA RenamedEffect ==
    ASSUME TypeOK, NEW j \in JobId, VideoOf(jobs[j].video) \in Key, jobs' = Renamed(j)
    PROVE  /\ jobs' \in [JobId -> Job]
           /\ jobs'[j].status = jobs[j].status /\ jobs'[j].video \in Key
           /\ \A i \in JobId : i # j => jobs'[i] = jobs[i]
<1> DEFINE k == VideoOf(jobs[j].video)
           x == [jobs[j] EXCEPT !.video = k]
<1>1. jobs \in [JobId -> Job]
    BY DEF TypeOK
<1>2. jobs' = [jobs EXCEPT ![j] = x]
    BY DEF Renamed
<1> HIDE DEF k
<1>3. x \in Job /\ x.status = jobs[j].status /\ x.video = k
    BY <1>1 DEF Job, k
<1> HIDE DEF x
<1> QED
    BY <1>1, <1>2, <1>3 DEF k

LEMMA DownloadStep ==
    ASSUME IInv, NEW w \in Worker, Download(w) PROVE TypeOK' /\ WorkerEffect(w)
<1> DEFINE j == worker[w].job
<1>1. CASE Row(w)
  <2>1. VideoOf(jobs[j].video) \in Key
    BY <1>1, Holding, ResolvedIsVideo DEF Download, Key
  <2>2. /\ jobs' \in [JobId -> Job]
        /\ jobs'[j].video \in Key /\ jobs'[j].status = jobs[j].status
        /\ \A i \in JobId : i # j => jobs'[i] = jobs[i]
    BY <1>1, <2>1, Holding, RenamedEffect DEF Download, IInv
  <2>3. \E at \in {"dedup", "probe"} : Goto(w, at)
    BY <1>1 DEF Download
  <2>4. jobs[j].status \in MidStage \cup Terminal
    BY <1>1, HeldIsNotQueued DEF Download
  <2>5. /\ worker' \in [Worker -> WorkerState]
        /\ worker'[w].job = j /\ worker'[w].at \in {"dedup", "probe"}
        /\ \A v \in Worker : v # w => worker'[v] = worker[v]
    BY <2>3, GotoEffect, Holding DEF Download, IInv, Stage, Idle
  <2>6. UNCHANGED <<trs, request, nextJob, nextTr, stranded, counters>>
    BY DEF Download
  <2>7. TypeOK'
    BY <2>2, <2>5, <2>6 DEF IInv, TypeOK, counters
  <2>8. worker[w].at # "idle" /\ Exists(j) /\ ~Locked(j)
    BY <1>1 DEF Download, Row, CanCommit
  <2>9. WorkerEffect(w)
    BY <2>2, <2>4, <2>5, <2>6, <2>8 DEF WorkerEffect, Idle
  <2> QED
    BY <2>7, <2>9
<1>2. CASE ~Row(w)
    BY <1>2, RaiseStep DEF Download
<1> QED
    BY <1>1, <1>2
LEMMA StageStep ==
    ASSUME IInv, NEW w \in Worker, worker[w].at # "idle", Row(w), CanCommit(w),
           NEW s \in MidStage, SetStatus(worker[w].job, s),
           NEW at \in Stage \ {"resume", "saved", "webhook"}, Goto(w, at),
           at = "summarize" => worker[w].tr # None /\ worker[w].owner # None,
           trs' \in [TrId -> Transcript],
           UNCHANGED <<request, nextJob, nextTr, stranded, counters>>
    PROVE  TypeOK' /\ WorkerEffect(w)
<1> DEFINE j == worker[w].job
<1>1. /\ jobs' \in [JobId -> Job]
      /\ jobs'[j].status = s /\ jobs'[j].video \in Key
      /\ \A i \in JobId : i # j => jobs'[i] = jobs[i]
    BY Holding, SetStatusEffect DEF IInv
<1> QED
    BY <1>1, GotoEffect, Holding
    DEF IInv, TypeOK, Stage, Idle, Row, CanCommit, WorkerEffect, counters

LEMMA FinishEffect ==
    ASSUME TypeOK, NEW w \in Worker, Finish(w)
    PROVE  /\ worker' \in [Worker -> WorkerState]
           /\ \/ worker'[w] = Idle
              \/ worker'[w].at = "webhook" /\ worker'[w].job = worker[w].job
           /\ \A v \in Worker : v # w => worker'[v] = worker[v]
<1> DEFINE x == [worker[w] EXCEPT !.at = "webhook"]
<1>1. worker[w] \in WorkerState
    BY DEF TypeOK
<1>2. x \in WorkerState /\ x.at = "webhook" /\ x.job = worker[w].job
    BY <1>1 DEF WorkerState, Stage
<1>3. worker' = [worker EXCEPT ![w] = x] \/ worker' = [worker EXCEPT ![w] = Idle]
    BY DEF Finish
<1> HIDE DEF x
<1> QED
    BY <1>2, <1>3, SetEffect, IdleTyped

LEMMA DoneStep ==
    ASSUME IInv, NEW w \in Worker, worker[w].at # "idle", Row(w), CanCommit(w),
           SetStatus(worker[w].job, "done"), Finish(w),
           trs' \in [TrId -> Transcript],
           UNCHANGED <<request, nextJob, nextTr, stranded, counters>>
    PROVE  TypeOK' /\ WorkerEffect(w)
<1> DEFINE j == worker[w].job
<1>1. /\ jobs' \in [JobId -> Job]
      /\ jobs'[j].status = "done" /\ jobs'[j].video \in Key
      /\ \A i \in JobId : i # j => jobs'[i] = jobs[i]
    BY Holding, SetStatusEffect DEF IInv, Terminal
<1> QED
    BY <1>1, FinishEffect, Holding
    DEF IInv, TypeOK, Idle, Row, CanCommit, MidStage, Terminal, WorkerEffect, counters

LEMMA RepointTyped ==
    ASSUME TypeOK, NEW w \in Worker, worker[w].job \in JobId, worker[w].tr \in TrId,
           CanRepoint(w), Repoint(w)
    PROVE  trs' \in [TrId -> Transcript]
<1> DEFINE t == worker[w].tr
           x == [trs[t] EXCEPT !.job = worker[w].job]
<1>1. trs \in [TrId -> Transcript]
    BY DEF TypeOK
<1>2. x \in Transcript
    BY <1>1 DEF Transcript
<1>3. trs' = [trs EXCEPT ![t] = x] \/ trs' = trs
    BY DEF Repoint
<1> HIDE DEF x
<1> QED
    BY <1>1, <1>2, <1>3

LEMMA PipelineStep ==
    ASSUME IInv, NEW w \in Worker,
           \/ StartTranscribing(w) \/ StartSummarizing(w) \/ FinishWithoutSummary(w)
           \/ FinishDeduplicated(w)
    PROVE  TypeOK' /\ WorkerEffect(w)
<1>1. CASE StartTranscribing(w)
  <2>1. CASE Row(w)
      BY <1>1, <2>1, StageStep DEF StartTranscribing, MidStage, Stage, IInv, TypeOK
  <2>2. CASE ~Row(w)
      BY <1>1, <2>2, RaiseStep DEF StartTranscribing
  <2> QED
      BY <2>1, <2>2
<1>2. CASE StartSummarizing(w)
  <2>1. CASE CanRepoint(w)
    <3>1. trs' \in [TrId -> Transcript]
      BY <1>2, <2>1, Holding, RepointTyped DEF StartSummarizing, IInv
    <3> QED
      BY <1>2, <2>1, <3>1, Holding, StageStep
      DEF StartSummarizing, MidStage, Stage, CanRepoint
  <2>2. CASE ~CanRepoint(w)
      BY <1>2, <2>2, RaiseStep DEF StartSummarizing
  <2> QED
      BY <2>1, <2>2
<1>3. CASE FinishWithoutSummary(w)
  <2>1. CASE CanRepoint(w)
    <3>1. trs' \in [TrId -> Transcript]
      BY <1>3, <2>1, Holding, RepointTyped DEF FinishWithoutSummary, IInv
    <3> QED
      BY <1>3, <2>1, <3>1, DoneStep DEF FinishWithoutSummary
  <2>2. CASE ~CanRepoint(w)
      BY <1>3, <2>2, RaiseStep DEF FinishWithoutSummary
  <2> QED
      BY <2>1, <2>2
<1>4. CASE FinishDeduplicated(w)
  <2>1. CASE Row(w)
      BY <1>4, <2>1, DoneStep DEF FinishDeduplicated, IInv, TypeOK
  <2>2. CASE ~Row(w)
      BY <1>4, <2>2, RaiseStep DEF FinishDeduplicated
  <2> QED
      BY <2>1, <2>2
<1> QED
    BY <1>1, <1>2, <1>3, <1>4

LEMMA RecordInstanceCreatedStep ==
    ASSUME IInv, NEW w \in Worker, RecordInstanceCreated(w)
    PROVE  TypeOK' /\ WorkerEffect(w)
<1> DEFINE j == worker[w].job
           x == [jobs[j] EXCEPT !.rented = TRUE]
<1>1. j \in JobId /\ jobs[j] \in Job /\ jobs[j].video \in Key
    BY Holding DEF RecordInstanceCreated
<1>2. x \in Job /\ x.status = jobs[j].status /\ x.video = jobs[j].video
    BY <1>1 DEF Job
<1>3. jobs' = [jobs EXCEPT ![j] = x]
    BY DEF RecordInstanceCreated
<1> HIDE DEF x
<1>4. /\ jobs' \in [JobId -> Job] /\ jobs'[j] = x
      /\ \A i \in JobId : i # j => jobs'[i] = jobs[i]
    BY <1>1, <1>2, <1>3 DEF IInv, TypeOK
<1>5. jobs[j].status \in MidStage \cup Terminal
    BY HeldIsNotQueued DEF RecordInstanceCreated
<1> QED
    BY <1>1, <1>2, <1>4, <1>5
    DEF RecordInstanceCreated, IInv, TypeOK, Idle, Row, CanCommit, WorkerEffect, counters

LEMMA SaveTranscriptStep ==
    ASSUME IInv, NEW w \in Worker, SaveTranscript(w)
    PROVE  TypeOK' /\ WorkerEffect(w)
<1> DEFINE j == worker[w].job
<1>1. CASE MayOwn(j, nextTr)
  <2> DEFINE x == [worker[w] EXCEPT !.at = "saved", !.tr = nextTr, !.owner = j]
             y == [job |-> j, video |-> VideoOf(jobs[j].video), summary |-> None]
  <2>1. y \in Transcript
      BY <1>1, Holding, ResolvedIsVideo DEF SaveTranscript, MayOwn, Transcript, Row
  <2>2. nextTr \in TrId /\ j \in JobId
      BY Holding DEF SaveTranscript
  <2>3. /\ x \in WorkerState /\ x.at = "saved" /\ x.job = j
        /\ x.tr = nextTr /\ x.owner = j
      BY <2>2, Holding DEF SaveTranscript, WorkerState, Stage
  <2>4. worker' = [worker EXCEPT ![w] = x] /\ trs' = [trs EXCEPT ![nextTr] = y]
      BY <1>1 DEF SaveTranscript
  <2>5. nextTr' \in Nat /\ UNCHANGED <<jobs, request, nextJob, stranded, counters>>
      BY <1>1 DEF SaveTranscript, IInv, TypeOK
  <2> HIDE DEF x, y
  <2>6. trs' \in [TrId -> Transcript]
      BY <2>1, <2>2, <2>4 DEF IInv, TypeOK
  <2> QED
      BY <2>2, <2>3, <2>4, <2>5, <2>6, SetEffect
      DEF SaveTranscript, IInv, TypeOK, Idle, WorkerEffect, counters
<1>2. CASE ~MayOwn(j, nextTr)
    BY <1>2, RaiseStep DEF SaveTranscript
<1> QED
    BY <1>1, <1>2

LEMMA FinishWithSummaryStep ==
    ASSUME IInv, NEW w \in Worker, FinishWithSummary(w)
    PROVE  TypeOK' /\ WorkerEffect(w)
<1> DEFINE t == worker[w].tr
<1>1. CASE Row(w) /\ TrExists(t)
  <2>1. PICK text \in Text : trs' = [trs EXCEPT ![t].summary = WriteBack(t, text)]
      BY <1>1 DEF FinishWithSummary
  <2> DEFINE new == WriteBack(t, text)
             x == [trs[t] EXCEPT !.summary = new]
  <2>2. t \in TrId /\ trs[t] \in Transcript
      BY Holding DEF FinishWithSummary, IInv, TypeOK
  <2>3. new \in Text \cup {None}
      BY <2>2 DEF WriteBack, Transcript
  <2>4. trs' = [trs EXCEPT ![t] = x]
      BY <2>1
  <2> HIDE DEF new
  <2>5. x \in Transcript
      BY <2>2, <2>3 DEF Transcript
  <2> HIDE DEF x
  <2>6. trs' \in [TrId -> Transcript]
      BY <2>4, <2>5 DEF IInv, TypeOK
  <2> QED
      BY <1>1, <2>6, DoneStep DEF FinishWithSummary
<1>2. CASE ~(Row(w) /\ TrExists(t))
    BY <1>2, RaiseStep DEF FinishWithSummary
<1> QED
    BY <1>1, <1>2

LEMMA FailedEffect ==
    ASSUME TypeOK, NEW j \in JobId, NEW e \in BOOLEAN, NEW s \in {"failed", "done"},
           jobs' = [jobs EXCEPT ![j].status = s, ![j].error = e]
    PROVE  /\ jobs' \in [JobId -> Job]
           /\ jobs'[j].status = s /\ jobs'[j].video = jobs[j].video
           /\ \A i \in JobId : i # j => jobs'[i] = jobs[i]
<1> DEFINE x == [jobs[j] EXCEPT !.status = s, !.error = e]
<1>1. jobs \in [JobId -> Job]
    BY DEF TypeOK
<1>2. x \in Job /\ x.status = s /\ x.video = jobs[j].video
    BY <1>1 DEF Job, Terminal
<1>3. jobs' = [jobs EXCEPT ![j] = x]
    BY <1>1
<1> HIDE DEF x
<1> QED
    BY <1>1, <1>2, <1>3, RowReplaced

LEMMA HandleExceptionStep ==
    ASSUME IInv, NEW w \in Worker, HandleException(w)
    PROVE  TypeOK' /\ WorkerEffect(w)
<1> DEFINE j == worker[w].job
<1>1. /\ worker' \in [Worker -> WorkerState] /\ worker'[w] = Idle
      /\ \A v \in Worker : v # w => worker'[v] = worker[v]
    BY SetEffect, IdleTyped DEF HandleException, IInv
<1>2. CASE Row(w)
  <2>1. /\ jobs' \in [JobId -> Job]
        /\ jobs'[j].status = "failed" /\ jobs'[j].video = jobs[j].video
        /\ \A i \in JobId : i # j => jobs'[i] = jobs[i]
      BY <1>2, Holding, FailedEffect DEF HandleException, IInv
  <2> QED
      BY <1>1, <1>2, <2>1, Holding
      DEF HandleException, IInv, TypeOK, Idle, Row, CanCommit, MidStage, Terminal,
          WorkerEffect, counters
<1>3. CASE ~Row(w)
    BY <1>1, <1>3, Holding
    DEF HandleException, IInv, TypeOK, Idle, Row, Exists, Absent, MidStage, WorkerEffect,
        counters
<1> QED
    BY <1>2, <1>3

LEMMA WorkerActions ==
    ASSUME IInv, NEW w \in Worker,
           WorkerStep(w) \/ RecordInstanceCreated(w) \/ HandlerFails(w), ~ClaimNextJob(w)
    PROVE  TypeOK' /\ WorkerEffect(w)
BY ReadStep, DownloadStep, PipelineStep, RecordInstanceCreatedStep, SaveTranscriptStep,
   FinishWithSummaryStep, HandleExceptionStep DEF WorkerStep

--------------------------------------------------------------------------------
(* The claim, the API handlers and the restart keep the invariant. *)

\* The claim hands one queued job to an idle worker.
ClaimEffect(w, j) ==
    /\ jobs[j].status = "queued"
    /\ jobs'[j].status = "downloading" /\ jobs'[j].video = jobs[j].video
    /\ \A i \in JobId : i # j => jobs'[i] = jobs[i]
    /\ worker[w].job = None
    /\ worker'[w].at = "claimed" /\ worker'[w].job = j
    /\ \A v \in Worker : v # w => worker'[v] = worker[v]
    /\ UNCHANGED <<request, nextJob, stranded>>

LEMMA ClaimShape ==
    ASSUME IInv, NEW w \in Worker, ClaimNextJob(w)
    PROVE  TypeOK' /\ \E j \in JobId : ClaimEffect(w, j)
<1>1. PICK j \in JobId :
          /\ Claimable(j) /\ SetStatus(j, "downloading")
          /\ worker' = [worker EXCEPT ![w] = [Idle EXCEPT !.at = "claimed", !.job = j]]
    BY DEF ClaimNextJob
<1> DEFINE x == [Idle EXCEPT !.at = "claimed", !.job = j]
<1>2. x \in WorkerState /\ x.at = "claimed" /\ x.job = j
    BY DEF Idle, WorkerState, Stage
<1>3. worker' = [worker EXCEPT ![w] = x]
    BY <1>1
<1>4. jobs[j].status = "queued"
    BY <1>1 DEF Claimable, Queued
<1>5. /\ worker[w].job = None
      /\ UNCHANGED <<trs, request, nextJob, nextTr, stranded, counters>>
    BY DEF ClaimNextJob, IInv, Bookkeeping
<1> HIDE DEF x
<1>6. TypeOK' /\ ClaimEffect(w, j)
    BY <1>1, <1>2, <1>3, <1>4, <1>5, SetEffect, SetStatusEffect
    DEF IInv, MidStage, TypeOK, counters, ClaimEffect
<1> QED
    BY <1>6

LEMMA ClaimKeepsIInv == ASSUME IInv, NEW w \in Worker, ClaimNextJob(w) PROVE IInv'
<1>1. TypeOK'
    BY ClaimShape
<1>2. PICK j \in JobId : ClaimEffect(w, j)
    BY ClaimShape
<1> USE <1>2 DEF ClaimEffect
<1>3. \A v \in Worker : worker[v].job # j
    BY DEF IInv, QueuedIsFree, Queued
<1>4. ClaimExclusive' /\ QueuedIsFree'
    BY <1>3 DEF IInv, ClaimExclusive, QueuedIsFree, Queued
<1>5. MidStageHasWorker'
    BY DEF IInv, MidStageHasWorker
<1>6. Bookkeeping'
  <2> USE DEF IInv, Bookkeeping
  <2>1. \A v \in Worker :
            /\ worker'[v].at = "idle" <=> worker'[v].job = None
            /\ worker'[v].at \in {"resume", "saved", "summarize"} =>
                   worker'[v].tr # None /\ worker'[v].owner # None
      OBVIOUS
  <2>2. \A v \in Worker : worker'[v].job # None => jobs'[worker'[v].job].status # "unborn"
      BY <1>3 DEF TypeOK, WorkerState
  <2>3. \A v \in Worker :
            worker'[v].at = "webhook" => jobs'[worker'[v].job].status \notin MidStage
      BY <1>3 DEF TypeOK, WorkerState
  <2>4. \A i \in JobId : jobs'[i].status = "unborn" <=> i >= nextJob'
      OBVIOUS
  <2>5. \A i \in JobId : Exists(i)' => jobs'[i].video \in Key
      BY DEF Exists, Absent
  <2>6. \A r \in Request : request'[r].op = "retry" =>
            request'[r].job # None /\ jobs'[request'[r].job].status \in Terminal
      BY DEF TypeOK, RequestState, Terminal
  <2> QED
      BY <2>1, <2>2, <2>3, <2>4, <2>5, <2>6
<1> QED
    BY <1>1, <1>4, <1>5, <1>6 DEF IInv

\* A handler only reads, and enters or leaves its state of flight.
ReadEffect(r) ==
    /\ UNCHANGED <<jobs, worker, nextJob, stranded>>
    /\ \A q \in Request : q # r => request'[q] = request[q]
    /\ request'[r].op = "post" => request'[r].video \in Key
    /\ request'[r].op = "resummarize" => request'[r].tr # None
    /\ request'[r].op = "retry" =>
           request'[r].job # None /\ jobs[request'[r].job].status \in Terminal

LEMMA ReadEffectKeepsIInv ==
    ASSUME IInv, TypeOK', NEW r \in Request, ReadEffect(r) PROVE IInv'
BY DEF IInv, ReadEffect, ClaimExclusive, MidStageHasWorker, QueuedIsFree, Queued, Exists,
       Bookkeeping

\* A row settles, or goes; nobody queues it.
SettleEffect(j) ==
    /\ UNCHANGED <<worker, nextJob, stranded>>
    /\ \A i \in JobId : i # j => jobs'[i] = jobs[i]
    /\ Exists(j)
    /\ \/ jobs'[j].status \in Terminal
       \/ jobs'[j].status = "deleted" /\ ~Locked(j)
    /\ Exists(j)' => jobs'[j].video = jobs[j].video
    /\ \A r \in Request : request'[r] = request[r] \/ request'[r] = NoRequest

LEMMA SettleEffectKeepsIInv ==
    ASSUME IInv, TypeOK', NEW j \in JobId, SettleEffect(j) PROVE IInv'
<1> USE DEF SettleEffect
<1>1. jobs'[j].status \notin Active \cup {"unborn"} /\ jobs[j].status # "unborn"
    BY DEF Terminal, Active, Exists, Absent
<1>2. ClaimExclusive' /\ QueuedIsFree' /\ MidStageHasWorker'
    BY <1>1 DEF IInv, ClaimExclusive, QueuedIsFree, Queued, MidStageHasWorker, MidStage, Active
<1>3. Bookkeeping'
  <2> USE DEF IInv, Bookkeeping
  <2>1. \A v \in Worker :
            /\ worker'[v].at = "webhook" => jobs'[worker'[v].job].status \notin MidStage
            /\ worker'[v].job # None => jobs'[worker'[v].job].status # "unborn"
      BY <1>1 DEF TypeOK, WorkerState, MidStage, Active
  <2>2. \A i \in JobId : jobs'[i].status = "unborn" <=> i >= nextJob'
      BY <1>1
  <2>3. \A i \in JobId : Exists(i)' => jobs'[i].video \in Key
      BY DEF Exists
  <2>4. \A r \in Request : request'[r].op = "retry" =>
            request'[r].job # None /\ jobs'[request'[r].job].status \in Terminal
    <3> SUFFICES ASSUME NEW r \in Request, request'[r].op = "retry"
                 PROVE  request'[r].job # None /\ jobs'[request'[r].job].status \in Terminal
        OBVIOUS
    <3>1. request'[r] = request[r]
        BY DEF NoRequest
    <3>2. /\ request[r].job \in JobId /\ request[r].job # None
          /\ jobs[request[r].job].status \in Terminal
        BY <3>1 DEF TypeOK, RequestState
    <3>3. CASE request[r].job = j
      <4>1. Locked(j)
          BY <3>1, <3>3 DEF Locked
      <4> QED
          BY <3>1, <3>2, <3>3, <4>1
    <3>4. CASE request[r].job # j
        BY <3>1, <3>2, <3>4
    <3> QED
        BY <3>3, <3>4
  <2> QED
      BY <2>1, <2>2, <2>3, <2>4 DEF NoRequest
<1> QED
    BY <1>2, <1>3 DEF IInv

\* A new row is queued; of the others, status and video stay.
InsertEffect ==
    /\ UNCHANGED <<worker, stranded>>
    /\ nextJob \in JobId /\ nextJob' = nextJob + 1
    /\ jobs'[nextJob].status = "queued" /\ jobs'[nextJob].video \in Key
    /\ \A i \in JobId : i # nextJob =>
           jobs'[i].status = jobs[i].status /\ jobs'[i].video = jobs[i].video
    /\ \A r \in Request : request'[r] = request[r] \/ request'[r] = NoRequest

LEMMA InsertEffectKeepsIInv ==
    ASSUME IInv, TypeOK', InsertEffect PROVE IInv'
<1> USE DEF InsertEffect
<1>1. jobs[nextJob].status = "unborn"
    BY DEF IInv, Bookkeeping, JobId
<1>2. \A v \in Worker : worker[v].job # nextJob
    BY <1>1 DEF IInv, Bookkeeping
<1>3. ClaimExclusive' /\ QueuedIsFree' /\ MidStageHasWorker'
    BY <1>2 DEF IInv, ClaimExclusive, QueuedIsFree, Queued, MidStageHasWorker, MidStage
<1>4. Bookkeeping'
  <2> USE DEF IInv, Bookkeeping
  <2>1. \A v \in Worker :
            /\ worker'[v].at = "webhook" => jobs'[worker'[v].job].status \notin MidStage
            /\ worker'[v].job # None => jobs'[worker'[v].job].status # "unborn"
      BY <1>2 DEF TypeOK, WorkerState
  <2>2. \A i \in JobId : jobs'[i].status = "unborn" <=> i >= nextJob'
      BY <1>1 DEF JobId
  <2>3. \A i \in JobId : Exists(i)' => jobs'[i].video \in Key
      BY DEF Exists
  <2>4. \A r \in Request : request'[r].op = "retry" =>
            request'[r].job # None /\ jobs'[request'[r].job].status \in Terminal
    <3> SUFFICES ASSUME NEW r \in Request, request'[r].op = "retry"
                 PROVE  request'[r].job # None /\ jobs'[request'[r].job].status \in Terminal
        OBVIOUS
    <3>1. request'[r] = request[r]
        BY DEF NoRequest
    <3>2. request[r].job \in JobId /\ jobs[request[r].job].status \in Terminal
        BY <3>1 DEF TypeOK, RequestState
    <3> QED
        BY <1>1, <3>1, <3>2 DEF Terminal
  <2> QED
      BY <2>1, <2>2, <2>3, <2>4 DEF NoRequest
<1> QED
    BY <1>3, <1>4 DEF IInv

LEMMA RequestTyped ==
    ASSUME TypeOK, NEW r \in Request, NEW x \in RequestState,
           request' = [request EXCEPT ![r] = x]
    PROVE  /\ request' \in [Request -> RequestState]
           /\ request'[r] = x
           /\ \A q \in Request : q # r => request'[q] = request[q]
BY DEF TypeOK

LEMMA NoRequestTyped == NoRequest \in RequestState
BY DEF NoRequest, RequestState

LEMMA HandlerReads ==
    ASSUME IInv, NEW r \in Request,
           \/ \E k \in Key : CheckPost(r, k)
           \/ \E j \in JobId : CheckRetry(r, j)
           \/ \E t \in TrId : StartResummarize(r, t)
           \/ ResummarizeFails(r)
    PROVE  IInv' /\ UNCHANGED <<jobs, worker, stranded>>
<1>1. ASSUME NEW k \in Key, CheckPost(r, k)
      PROVE  TypeOK' /\ ReadEffect(r)
  <2> DEFINE x == [request[r] EXCEPT !.op = "post", !.video = k]
  <2>1. x \in RequestState /\ x.op = "post" /\ x.video = k
      BY DEF IInv, TypeOK, RequestState
  <2>2. request' = [request EXCEPT ![r] = x]
      BY <1>1 DEF CheckPost
  <2> HIDE DEF x
  <2> QED
      BY <1>1, <2>1, <2>2, RequestTyped DEF CheckPost, IInv, TypeOK, rows, counters, ReadEffect
<1>2. ASSUME NEW j \in JobId, CheckRetry(r, j)
      PROVE  TypeOK' /\ ReadEffect(r)
  <2> DEFINE x == [request[r] EXCEPT !.op = "retry", !.job = j]
  <2>1. x \in RequestState /\ x.op = "retry" /\ x.job = j
      BY DEF IInv, TypeOK, RequestState
  <2>2. request' = [request EXCEPT ![r] = x]
      BY <1>2 DEF CheckRetry
  <2> HIDE DEF x
  <2> QED
      BY <1>2, <2>1, <2>2, RequestTyped DEF CheckRetry, IInv, TypeOK, rows, counters, ReadEffect
<1>3. ASSUME NEW t \in TrId, StartResummarize(r, t)
      PROVE  TypeOK' /\ ReadEffect(r)
  <2> DEFINE x == [request[r] EXCEPT !.op = "resummarize", !.tr = t, !.read = trs[t].summary]
  <2>1. x \in RequestState /\ x.op = "resummarize" /\ x.tr = t
      BY DEF IInv, TypeOK, RequestState, Transcript
  <2>2. request' = [request EXCEPT ![r] = x]
      BY <1>3 DEF StartResummarize
  <2> HIDE DEF x
  <2> QED
      BY <1>3, <2>1, <2>2, RequestTyped
      DEF StartResummarize, IInv, TypeOK, rows, counters, ReadEffect
<1>4. ASSUME ResummarizeFails(r)
      PROVE  TypeOK' /\ ReadEffect(r)
    BY <1>4, RequestTyped, NoRequestTyped
    DEF ResummarizeFails, IInv, TypeOK, rows, counters, ReadEffect, NoRequest
<1> QED
    BY <1>1, <1>2, <1>3, <1>4, ReadEffectKeepsIInv DEF ReadEffect

LEMMA InsertTyped ==
    ASSUME NEW k \in Key, NEW f \in BOOLEAN, NEW h \in Hook
    PROVE  /\ InsertJob(k, f, h) \in Job
           /\ InsertJob(k, f, h).status = "queued" /\ InsertJob(k, f, h).video = k
BY DEF InsertJob, NoJobRow, Job, Absent, Active, Hook

LEMMA InsertPostStep ==
    ASSUME IInv, NEW r \in Request, InsertPost(r) PROVE IInv' /\ InsertEffect
<1>1. PICK f \in SummarizeFlag, h \in Webhook :
          jobs' = [jobs EXCEPT ![nextJob] = InsertJob(request[r].video, f, h)]
    BY DEF InsertPost
<1> DEFINE x == InsertJob(request[r].video, f, h)
<1>2. x \in Job /\ x.status = "queued" /\ x.video \in Key
    BY InsertTyped, PipelineAssumption DEF InsertPost, IInv, Bookkeeping
<1>3. jobs' = [jobs EXCEPT ![nextJob] = x]
    BY <1>1
<1> HIDE DEF x
<1>4. TypeOK' /\ InsertEffect
    BY <1>2, <1>3, RequestTyped, NoRequestTyped
    DEF InsertPost, IInv, TypeOK, counters, InsertEffect, JobId
<1> QED
    BY <1>4, InsertEffectKeepsIInv

LEMMA InsertRetryStep ==
    ASSUME IInv, NEW r \in Request, InsertRetry(r) PROVE IInv' /\ InsertEffect
<1> DEFINE j == request[r].job
           e == (jobs[j].error \/ jobs[j].status = "failed")
           x == InsertJob(jobs[j].video, TRUE, RetriedHook(jobs[j].hook))
           y == [jobs[j] EXCEPT !.error = e]
<1>1. j \in JobId /\ jobs[j] \in Job /\ jobs[j].status \in Terminal
    BY DEF InsertRetry, IInv, TypeOK, RequestState, Bookkeeping
<1>2. jobs[j].video \in Key /\ j # nextJob /\ nextJob \in JobId
    BY <1>1 DEF InsertRetry, IInv, Bookkeeping, Exists, Terminal, Absent, JobId
<1>3. x \in Job /\ x.status = "queued" /\ x.video \in Key
    BY <1>2, InsertTyped DEF RetriedHook, Hook
<1>4. jobs' = [jobs EXCEPT ![nextJob] = x, ![j].error = e]
    BY DEF InsertRetry
<1> HIDE DEF x
<1>5. e \in BOOLEAN
    BY <1>1 DEF Job
<1> HIDE DEF e
<1>6. y \in Job /\ y.status = jobs[j].status /\ y.video = jobs[j].video
    BY <1>1, <1>5 DEF Job
<1>7. jobs' = [jobs EXCEPT ![nextJob] = x, ![j] = y]
  <2> DEFINE f == [jobs EXCEPT ![nextJob] = x]
  <2>1. f[j] = jobs[j]
      BY <1>1, <1>2 DEF IInv, TypeOK
  <2>2. jobs' = [f EXCEPT ![j].error = e]
      BY <1>4
  <2> HIDE DEF f, j, e
  <2>3. jobs' = [f EXCEPT ![j] = [f[j] EXCEPT !.error = e]]
      BY <2>2
  <2>4. jobs' = [f EXCEPT ![j] = y]
      BY <2>1, <2>3
  <2> QED
      BY <2>4 DEF f
<1> HIDE DEF y, j
<1>8. /\ jobs' \in [JobId -> Job] /\ jobs'[nextJob] = x /\ jobs'[j] = y
      /\ \A i \in JobId : i \notin {j, nextJob} => jobs'[i] = jobs[i]
    BY <1>1, <1>2, <1>3, <1>6, <1>7 DEF IInv, TypeOK
<1>9. /\ request' = [request EXCEPT ![r] = NoRequest] /\ nextJob' = nextJob + 1
      /\ UNCHANGED <<trs, worker, nextTr, stranded, counters>>
    BY DEF InsertRetry
<1>10. /\ request' \in [Request -> RequestState]
       /\ \A q \in Request : request'[q] = request[q] \/ request'[q] = NoRequest
    BY <1>9, RequestTyped, NoRequestTyped DEF IInv
<1>11. TypeOK' /\ InsertEffect
    BY <1>2, <1>3, <1>6, <1>8, <1>9, <1>10 DEF IInv, TypeOK, counters, InsertEffect, JobId
<1> QED
    BY <1>11, InsertEffectKeepsIInv

LEMMA FinishResummarizeStep ==
    ASSUME IInv, NEW r \in Request, FinishResummarize(r)
    PROVE  /\ IInv'
           /\ UNCHANGED <<jobs, worker, nextJob, stranded>> \/
              \E j \in JobId : SettleEffect(j) /\ jobs[j].status = "failed"
<1> DEFINE t == request[r].tr
           j == trs[t].job
<1>1. t \in TrId
    BY DEF FinishResummarize, IInv, TypeOK, RequestState, Bookkeeping
<1>2. /\ request' \in [Request -> RequestState] /\ request'[r] = NoRequest
      /\ \A q \in Request : q # r => request'[q] = request[q]
      /\ UNCHANGED <<worker, nextJob, nextTr, stranded, counters>>
    BY RequestTyped, NoRequestTyped DEF FinishResummarize, IInv
<1>3. trs' \in [TrId -> Transcript]
  <2>1. CASE UNCHANGED trs
      BY <2>1 DEF IInv, TypeOK
  <2>2. ASSUME NEW text \in Text, trs' = [trs EXCEPT ![t].summary = text]
        PROVE  trs' \in [TrId -> Transcript]
    <3> DEFINE x == [trs[t] EXCEPT !.summary = text]
    <3>1. x \in Transcript
        BY <1>1 DEF IInv, TypeOK, Transcript
    <3>2. trs' = [trs EXCEPT ![t] = x]
        BY <2>2
    <3> HIDE DEF x
    <3> QED
        BY <3>1, <3>2 DEF IInv, TypeOK
  <2> QED
      BY <2>1, <2>2 DEF FinishResummarize
<1>4. CASE UNCHANGED jobs
  <2>1. TypeOK' /\ ReadEffect(r)
      BY <1>2, <1>3, <1>4 DEF IInv, TypeOK, counters, ReadEffect, NoRequest
  <2> QED
      BY <1>2, <1>4, <2>1, ReadEffectKeepsIInv
<1>5. CASE TrExists(t) /\ Promotes(r)
           /\ jobs' = [jobs EXCEPT ![j].status = "done", ![j].error = FALSE]
  <2>1. j \in JobId /\ jobs[j].status = "failed"
      BY <1>1, <1>5 DEF TrExists, Promotes, IInv, TypeOK, Transcript
  <2>2. /\ jobs' \in [JobId -> Job]
        /\ jobs'[j].status = "done" /\ jobs'[j].video = jobs[j].video
        /\ \A i \in JobId : i # j => jobs'[i] = jobs[i]
      BY <1>5, <2>1, FailedEffect DEF IInv
  <2> HIDE DEF j
  <2>3. TypeOK'
      BY <1>2, <1>3, <2>2 DEF IInv, TypeOK, counters
  <2>4. SettleEffect(j)
      BY <1>2, <2>1, <2>2 DEF SettleEffect, Exists, Absent, Terminal
  <2> QED
      BY <2>1, <2>3, <2>4, SettleEffectKeepsIInv
<1>6. \/ UNCHANGED jobs
      \/ /\ TrExists(t) /\ Promotes(r)
         /\ jobs' = [jobs EXCEPT ![j].status = "done", ![j].error = FALSE]
    BY Zenon DEF FinishResummarize
<1> QED
    BY <1>4, <1>5, <1>6

LEMMA CancelStep ==
    ASSUME IInv, NEW j \in JobId, CancelJob(j)
    PROVE  IInv' /\ SettleEffect(j) /\ jobs[j].status \in Active
<1>1. /\ jobs' \in [JobId -> Job]
      /\ jobs'[j].status = "failed" /\ jobs'[j].video = jobs[j].video
      /\ \A i \in JobId : i # j => jobs'[i] = jobs[i]
    BY FailedEffect DEF CancelJob, IInv
<1>2. TypeOK' /\ SettleEffect(j)
    BY <1>1
    DEF CancelJob, IInv, TypeOK, SettleEffect, Exists, Active, Absent, Terminal
<1> QED
    BY <1>2, SettleEffectKeepsIInv DEF CancelJob

LEMMA RemoveStep ==
    ASSUME IInv, NEW j \in JobId, RemoveJob(j)
    PROVE  IInv' /\ SettleEffect(j) /\ jobs[j].status \notin Active
<1> DEFINE x == [NoJobRow EXCEPT !.status = "deleted"]
<1>1. x \in Job /\ x.status = "deleted"
    BY DEF NoJobRow, Job, Absent, Hook
<1>2. jobs' = [jobs EXCEPT ![j] = x]
    BY DEF RemoveJob
<1> HIDE DEF x
<1>3. /\ jobs' \in [JobId -> Job] /\ jobs'[j].status = "deleted"
      /\ \A i \in JobId : i # j => jobs'[i] = jobs[i]
    BY <1>1, <1>2 DEF IInv, TypeOK
<1>4. trs' \in [TrId -> Transcript]
    BY DEF RemoveJob, Cascade, NoTrRow, Transcript, IInv, TypeOK
<1>5. /\ UNCHANGED <<worker, request, nextJob, nextTr, stranded, restarts, cancels, faults>>
      /\ deletes' = deletes + 1
      /\ Exists(j) /\ jobs[j].status \notin Active /\ ~Locked(j)
    BY DEF RemoveJob
<1>6. TypeOK' /\ SettleEffect(j)
    BY <1>3, <1>4, <1>5 DEF IInv, TypeOK, SettleEffect, Exists, Absent
<1> QED
    BY <1>5, <1>6, SettleEffectKeepsIInv

\* Recovery queues "again", leaves "missed" to the next restart, and settles the rest.
RestartEffect(again, missed) ==
    /\ again \subseteq Interrupted /\ missed \subseteq Interrupted
    /\ worker' = [w \in Worker |-> Idle] /\ request' = [r \in Request |-> NoRequest]
    /\ nextJob' = nextJob /\ stranded' = missed
    /\ \A j \in JobId :
        /\ jobs'[j].video = jobs[j].video
        /\ j \in again => jobs'[j].status = "queued"
        /\ j \in Interrupted \ (again \cup missed) => jobs'[j].status = "failed"
        /\ j \notin Interrupted \/ j \in missed => jobs'[j].status = jobs[j].status

LEMMA RestartShape ==
    ASSUME IInv, Restart
    PROVE  TypeOK' /\ \E again, missed \in SUBSET JobId : RestartEffect(again, missed)
<1>1. PICK upTo \in 1 .. MaxJobs + 1 :
          LET reached == {j \in Interrupted : j < upTo}
              missed == Interrupted \ reached
          IN  /\ faults' = IF missed = {} THEN faults ELSE faults + 1
              /\ stranded' = missed
              /\ \E stuck \in SUBSET {j \in reached : jobs[j].rented} :
                  jobs' = [j \in JobId |->
                      IF j \in stuck THEN [jobs[j] EXCEPT !.status = "failed"]
                      ELSE IF j \in reached THEN [jobs[j] EXCEPT !.status = "queued"]
                      ELSE jobs[j]]
    BY Zenon DEF Restart
<1> DEFINE reached == {j \in Interrupted : j < upTo}
           missed == Interrupted \ reached
<1>2. PICK stuck \in SUBSET {j \in reached : jobs[j].rented} :
          jobs' = [j \in JobId |->
              IF j \in stuck THEN [jobs[j] EXCEPT !.status = "failed"]
              ELSE IF j \in reached THEN [jobs[j] EXCEPT !.status = "queued"]
              ELSE jobs[j]]
    BY <1>1
<1> DEFINE again == reached \ stuck
<1>3. /\ stranded' = missed /\ faults' \in Nat
      /\ worker' = [w \in Worker |-> Idle] /\ request' = [r \in Request |-> NoRequest]
      /\ restarts' = restarts + 1
      /\ UNCHANGED <<trs, nextJob, nextTr, cancels, deletes>>
    BY <1>1 DEF Restart, IInv, TypeOK
<1>4. stuck \subseteq reached /\ reached \subseteq Interrupted /\ Interrupted \subseteq JobId
    BY DEF Interrupted
<1> HIDE DEF reached
<1>5. ASSUME NEW j \in JobId
      PROVE  /\ jobs'[j] \in Job /\ jobs'[j].video = jobs[j].video
             /\ j \in again => jobs'[j].status = "queued"
             /\ j \in stuck => jobs'[j].status = "failed"
             /\ j \notin reached => jobs'[j] = jobs[j]
  <2>1. jobs[j] \in Job
      BY DEF IInv, TypeOK
  <2>2. CASE j \in stuck
    <3>1. jobs'[j] = [jobs[j] EXCEPT !.status = "failed"]
        BY <1>2, <2>2
    <3> QED
        BY <1>4, <2>1, <2>2, <3>1 DEF Job, Terminal
  <2>3. CASE j \in again
    <3>1. jobs'[j] = [jobs[j] EXCEPT !.status = "queued"]
        BY <1>2, <2>3
    <3> QED
        BY <1>4, <2>1, <2>3, <3>1 DEF Job, Active
  <2>4. CASE j \notin reached
      BY <1>2, <1>4, <2>1, <2>4
  <2> QED
      BY <2>2, <2>3, <2>4
<1>6. RestartEffect(again, missed)
    BY <1>3, <1>4, <1>5 DEF RestartEffect
<1>7. jobs' \in [JobId -> Job]
    BY <1>2, <1>5
<1>8. TypeOK'
    BY <1>3, <1>4, <1>7, IdleTyped, NoRequestTyped DEF IInv, TypeOK
<1> QED
    BY <1>4, <1>6, <1>8

LEMMA RestartKeepsIInv == ASSUME IInv, Restart PROVE IInv'
<1>1. TypeOK'
    BY RestartShape
<1>2. PICK again \in SUBSET JobId, missed \in SUBSET JobId : RestartEffect(again, missed)
    BY RestartShape
<1> USE <1>2 DEF RestartEffect
<1>3. \A w \in Worker : worker'[w] = Idle
    OBVIOUS
<1>4. ClaimExclusive' /\ QueuedIsFree'
    BY <1>3 DEF ClaimExclusive, QueuedIsFree, Queued, Idle
<1>5. MidStageHasWorker'
    BY DEF MidStageHasWorker, Interrupted, InterruptedStatuses, MidStage
<1>6. \A j \in JobId : jobs'[j].status = "unborn" <=> jobs[j].status = "unborn"
    BY DEF Interrupted, InterruptedStatuses, MidStage
<1>7. \A j \in JobId : Exists(j)' => Exists(j)
    BY DEF Interrupted, InterruptedStatuses, MidStage, Exists, Absent
<1>8. Bookkeeping'
    BY <1>3, <1>6, <1>7 DEF IInv, Bookkeeping, Idle, NoRequest
<1> QED
    BY <1>1, <1>4, <1>5, <1>8 DEF IInv

LEMMA StepKeepsIInv == IInv /\ [Next]_vars => IInv'
<1> SUFFICES ASSUME IInv, [Next]_vars PROVE IInv'
    OBVIOUS
<1>1. ASSUME NEW w \in Worker, WorkerStep(w) \/ RecordInstanceCreated(w) \/ HandlerFails(w)
      PROVE  IInv'
    BY <1>1, ClaimKeepsIInv, WorkerActions, WorkerEffectKeepsIInv
<1>2. ASSUME NEW r \in Request, RequestStep(r) PROVE IInv'
    BY <1>2, InsertPostStep, InsertRetryStep, FinishResummarizeStep, HandlerReads
    DEF RequestStep
<1>3. ASSUME NEW j \in JobId, CancelJob(j) \/ DeleteJob(j) PROVE IInv'
    BY <1>3, CancelStep, RemoveStep DEF DeleteJob
<1>4. ASSUME NEW t \in TrId, DeleteTranscript(t) PROVE IInv'
  <2>1. trs[t].job \in JobId
      BY <1>4 DEF DeleteTranscript, TrExists, IInv, TypeOK, Transcript
  <2> QED
      BY <1>4, <2>1, RemoveStep DEF DeleteTranscript
<1>5. CASE UNCHANGED vars
    BY <1>5 DEF vars, counters, IInv, TypeOK, ClaimExclusive, MidStageHasWorker, QueuedIsFree,
                Queued, Exists, Bookkeeping
<1> QED
    BY <1>1, <1>2, <1>3, <1>4, <1>5, HandlerReads, RestartKeepsIInv DEF Next

--------------------------------------------------------------------------------
(* Theorems *)

\* The inductive invariant of the pipeline: types, exclusive claims, no job left
\* mid-stage, queued jobs in nobody's hands, and the bookkeeping between them.
THEOREM InductiveInvariant == Spec => []IInv
BY InitIInv, StepKeepsIInv, PTL DEF Spec

\* Rows, threads and handlers keep their types.
THEOREM TypeCorrect == Spec => []TypeOK
<1>1. IInv => TypeOK
    BY DEF IInv
<1> QED
    BY <1>1, InductiveInvariant, PTL

\* However many workers claim, cancel, retry and restart, no two of them ever run
\* the pipeline for one job (_claim_next_job).
THEOREM NeverTwoWorkersOnAJob == Spec => []ClaimExclusive
<1>1. IInv => ClaimExclusive
    BY DEF IInv
<1> QED
    BY <1>1, InductiveInvariant, PTL

\* No path through process_job, the handlers and recover_interrupted_jobs leaves a
\* job mid-stage without a worker, database outages excepted.
THEOREM NoJobIsForgotten == Spec => []MidStageHasWorker
<1>1. IInv => MidStageHasWorker
    BY DEF IInv
<1> QED
    BY <1>1, InductiveInvariant, PTL

--------------------------------------------------------------------------------
(* The refinement of WorkQueue *)

\* Under the mapping Queue each step of the pipeline takes, settles, loses, puts or withdraws
\* one job, restarts the queue, or leaves it alone.
Stutter == UNCHANGED Queue!queueVars

LEMMA InitRefines == Init => Queue!QueueInit
<1> SUFFICES ASSUME Init PROVE Queue!QueueInit
    OBVIOUS
<1> QED
    BY DEF Init, Idle, NoJobRow, Queued, Queue!QueueInit

\* A worker that lets go of its job settles it or loses it; otherwise the queue
\* does not see the step.
LEMMA WorkerEffectRefines ==
    ASSUME IInv, NEW w \in Worker, WorkerEffect(w)
    PROVE  Queue!Settle(w) \/ Queue!Lose(w) \/ Stutter
<1> DEFINE j == worker[w].job
<1>1. j \in JobId
    BY Holding DEF WorkerEffect
<1>2. jobs[j].status # "queued" /\ jobs[j].status # "unborn"
    BY <1>1 DEF IInv, QueuedIsFree, Queued, Bookkeeping
<1>3. jobs'[j].status # "queued" /\ jobs'[j].status # "unborn"
    BY <1>2 DEF WorkerEffect, MidStage, Terminal
<1>4. Queued' = Queued
    BY <1>2, <1>3 DEF WorkerEffect, Queued
<1>5. {i \in JobId : jobs'[i].status = "unborn"} = {i \in JobId : jobs[i].status = "unborn"}
    BY <1>2, <1>3 DEF WorkerEffect
<1>6. CASE worker'[w] = Idle
  <2>1. worker'[w].job = None /\ \A v \in Worker : v # w => worker'[v] = worker[v]
      BY <1>6 DEF WorkerEffect, Idle
  <2>2. [v \in Worker |-> worker'[v].job] = [[v \in Worker |-> worker[v].job] EXCEPT ![w] = None]
      BY <2>1
  <2>3. worker[w].job # None
      BY <1>1
  <2> QED
      BY <1>4, <1>5, <2>2, <2>3 DEF WorkerEffect, Queue!Settle, Queue!Lose
<1>7. CASE worker'[w] # Idle
  <2>1. [v \in Worker |-> worker'[v].job] = [v \in Worker |-> worker[v].job]
      BY <1>7 DEF WorkerEffect
  <2> QED
      BY <1>4, <1>5, <1>7, <2>1 DEF WorkerEffect, Stutter, Queue!queueVars
<1> QED
    BY <1>6, <1>7

LEMMA ClaimRefines ==
    ASSUME IInv, NEW w \in Worker, ClaimNextJob(w)
    PROVE  \E j \in JobId : Queue!Take(w, j)
<1>1. PICK j \in JobId : ClaimEffect(w, j)
    BY ClaimShape
<1> USE <1>1 DEF ClaimEffect
<1>2. Queued' = Queued \ {j} /\ j \in Queued
    BY DEF Queued
<1>3. {i \in JobId : jobs'[i].status = "unborn"} = {i \in JobId : jobs[i].status = "unborn"}
    OBVIOUS
<1>4. [v \in Worker |-> worker'[v].job] = [[v \in Worker |-> worker[v].job] EXCEPT ![w] = j]
    OBVIOUS
<1> QED
    BY <1>2, <1>3, <1>4 DEF Queue!Take

LEMMA InsertRefines ==
    ASSUME IInv, InsertEffect PROVE \E j \in JobId : Queue!Put(j)
<1>1. jobs[nextJob].status = "unborn" /\ nextJob \in JobId
    BY DEF IInv, Bookkeeping, InsertEffect, JobId
<1>2. Queued' = Queued \cup {nextJob}
    BY <1>1 DEF InsertEffect, Queued
<1>3. {i \in JobId : jobs'[i].status = "unborn"} =
          {i \in JobId : jobs[i].status = "unborn"} \ {nextJob}
    BY <1>1 DEF InsertEffect
<1> QED
    BY <1>1, <1>2, <1>3 DEF InsertEffect, Queue!Put

LEMMA SettleRefines ==
    ASSUME IInv, NEW j \in JobId, SettleEffect(j) PROVE Queue!Withdraw(j) \/ Stutter
<1>1. Queued' = Queued \ {j}
    BY DEF SettleEffect, Queued, Terminal
<1>2. {i \in JobId : jobs'[i].status = "unborn"} = {i \in JobId : jobs[i].status = "unborn"}
    BY DEF SettleEffect, Terminal, Exists, Absent
<1>3. CASE j \in Queued
    BY <1>1, <1>2, <1>3 DEF SettleEffect, Queue!Withdraw
<1>4. CASE j \notin Queued
    BY <1>1, <1>2, <1>4 DEF SettleEffect, Stutter, Queue!queueVars
<1> QED
    BY <1>3, <1>4

LEMMA RestartRefines == ASSUME IInv, Restart PROVE Queue!Restart
<1>1. PICK again \in SUBSET JobId, missed \in SUBSET JobId : RestartEffect(again, missed)
    BY RestartShape
<1> USE <1>1 DEF RestartEffect
<1>2. Interrupted \subseteq Queue!Held \cup stranded
  <2> SUFFICES ASSUME NEW j \in Interrupted PROVE j \in Queue!Held \cup stranded
      OBVIOUS
  <2>1. j \in JobId /\ (j \in stranded \/ \E w \in Worker : worker[w].job = j)
      BY DEF IInv, MidStageHasWorker, Interrupted, InterruptedStatuses
  <2> QED
      BY <2>1 DEF Queue!Held
<1>3. again \in SUBSET (Queue!Held \cup stranded) /\ missed \in SUBSET (Queue!Held \cup stranded)
    BY <1>2
<1>4. [w \in Worker |-> worker'[w].job] = [w \in Worker |-> None]
    BY DEF Idle
<1>5. Queued' = Queued \cup again
    BY DEF Queued, Interrupted, InterruptedStatuses, MidStage
<1>6. {i \in JobId : jobs'[i].status = "unborn"} = {i \in JobId : jobs[i].status = "unborn"}
    BY DEF Interrupted, InterruptedStatuses, MidStage
<1> QED
    BY <1>3, <1>4, <1>5, <1>6 DEF Queue!Restart

LEMMA StepRefines == IInv /\ [Next]_vars => [Queue!QueueNext]_Queue!queueVars
<1> SUFFICES ASSUME IInv, [Next]_vars PROVE Queue!QueueNext \/ Stutter
    BY DEF Stutter
<1>1. ASSUME NEW w \in Worker, WorkerStep(w) \/ RecordInstanceCreated(w) \/ HandlerFails(w)
      PROVE  Queue!QueueNext \/ Stutter
    BY <1>1, ClaimRefines, WorkerActions, WorkerEffectRefines DEF Queue!QueueNext
<1>2. ASSUME NEW r \in Request, RequestStep(r) PROVE Queue!QueueNext \/ Stutter
  <2>1. CASE InsertPost(r) \/ InsertRetry(r)
      BY <2>1, InsertPostStep, InsertRetryStep, InsertRefines DEF Queue!QueueNext
  <2>2. CASE FinishResummarize(r)
    <3>1. CASE UNCHANGED <<jobs, worker, nextJob, stranded>>
        BY <3>1 DEF Stutter, Queue!queueVars, Queued
    <3>2. CASE \E j \in JobId : SettleEffect(j)
        BY <3>2, SettleRefines DEF Queue!QueueNext
    <3> QED
        BY <2>2, <3>1, <3>2, FinishResummarizeStep
  <2>3. CASE ResummarizeFails(r)
      BY <2>3, HandlerReads DEF Stutter, Queue!queueVars, Queued
  <2> QED
      BY <1>2, <2>1, <2>2, <2>3 DEF RequestStep
<1>3. ASSUME NEW r \in Request,
             \/ \E k \in Key : CheckPost(r, k)
             \/ \E j \in JobId : CheckRetry(r, j)
             \/ \E t \in TrId : StartResummarize(r, t)
      PROVE  Queue!QueueNext \/ Stutter
    BY <1>3, HandlerReads DEF Stutter, Queue!queueVars, Queued
<1>4. ASSUME NEW j \in JobId, CancelJob(j) \/ DeleteJob(j) PROVE Queue!QueueNext \/ Stutter
    BY <1>4, CancelStep, RemoveStep, SettleRefines DEF DeleteJob, Queue!QueueNext
<1>5. ASSUME NEW t \in TrId, DeleteTranscript(t) PROVE Queue!QueueNext \/ Stutter
  <2>1. trs[t].job \in JobId
      BY <1>5 DEF DeleteTranscript, TrExists, IInv, TypeOK, Transcript
  <2> QED
      BY <1>5, <2>1, RemoveStep, SettleRefines DEF DeleteTranscript, Queue!QueueNext
<1>6. CASE UNCHANGED vars
    BY <1>6 DEF vars, Stutter, Queue!queueVars, Queued
<1>7. CASE Restart
    BY <1>7, RestartRefines DEF Queue!QueueNext
<1> QED
    BY <1>1, <1>2, <1>3, <1>4, <1>5, <1>6, <1>7 DEF Next

\* The pipeline is a work queue, whatever the workers, operators, outages and
\* restarts: no job is handed out twice without a restart in between, and a restart
\* queues again only jobs a worker held or an outage had stranded.
THEOREM PipelineIsAWorkQueue == Spec => QueueSafety
<1>1. Init => Queue!QueueInit
    BY InitRefines
<1>2. []IInv /\ [][Next]_vars => [][Queue!QueueNext]_Queue!queueVars
    BY StepRefines, PTL
<1> QED
    BY <1>1, <1>2, InductiveInvariant, PTL DEF Spec, QueueSafety
================================================================================
