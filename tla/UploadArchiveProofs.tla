-------------------------- MODULE UploadArchiveProofs --------------------------
(***************************************************************************)
(* The source of an upload is there for as long as its copy is to be made, *)
(* and no longer than it has a use, for any number of jobs, workers,       *)
(* restarts and orders.                                                    *)
(*                                                                         *)
(* A worker relies on what every other step leaves to it: nobody gives its *)
(* job a transcript or requeues it, a file that goes is noted in bereft,   *)
(* and a row that loses its use is noted in leaked.  Keeps states that of  *)
(* a step of the system; OthersKeep shows that the invariant of a worker   *)
(* which does not move follows from it.                                    *)
(***************************************************************************)
EXTENDS UploadArchive, FiniteSetTheorems, SequenceTheorems, TLAPS

--------------------------------------------------------------------------------
(* The inductive invariant *)

Typed ==
    /\ jobs \in [JobId -> Job] /\ trs \in [TrId -> Transcript]
    /\ source \in [JobId -> BOOLEAN] /\ configured \in BOOLEAN
    /\ upload \in [content : Content \cup {Nothing}, job : JobId \cup {0}]
    /\ worker \in [Worker -> WorkerState]
    /\ faults \in 0 .. MaxFaults /\ orders \in 0 .. MaxOrders
    /\ bereft \subseteq JobId /\ leaked \subseteq JobId

Numbered ==
    /\ UsedJobs = 1 .. Cardinality(UsedJobs)
    /\ UsedTrs = 1 .. Cardinality(UsedTrs)

\* Foreign key, unique owner, and the row of a request under way.
Tables ==
    /\ \A j \in JobId : Exists(j) => jobs[j].content \in Content
    /\ \A t \in TrId : TrExists(t) => Exists(trs[t].job) /\ trs[t].content # Nothing
    /\ \A t, u \in TrId : TrExists(t) /\ trs[t].job = trs[u].job => t = u
    /\ upload.job # 0 => upload.content # Nothing /\ jobs[upload.job].status = "deleted"

\* A transcript without its copy has the source, whatever its error says.
CopyOrSource ==
    \A t \in TrId : TrExists(t) /\ ~trs[t].key => source[trs[t].job] \/ trs[t].job \in bereft

\* A source that nobody runs a job for is needed all the same, or its leak is a named event.
Needed(j) ==
    \/ j \in leaked
    \/ \E t \in TrId : Waiting(t) /\ trs[t].job = j
    \/ \E w \in Worker : worker[w].at = "stored" /\ Head(worker[w].todo).job = j

OneThread ==
    \A w, x \in Worker : Runs(w) /\ Runs(x) /\ worker[w].job = worker[x].job => w = x

\* A sweep's rows are rows of transcripts; the one it has stored has its copy, or is gone.
SweepInv(w) ==
    /\ worker[w].at \in SweepPc => worker[w].todo # <<>>
    /\ \A i \in DOMAIN worker[w].todo : trs[worker[w].todo[i].tr].content # Nothing
    /\ worker[w].at = "stored" =>
        LET t == Head(worker[w].todo).tr IN trs[t].key \/ ~TrExists(t)

HasTr == {"text", "summarize", "archive", "copied", "finish"}

\* The thread of job j, which has loaded, saved or taken over the transcript t.
ThreadInv(w, j, t) ==
    /\ j \in JobId /\ j # upload.job /\ jobs[j].status \notin {"unborn", "queued"}
    /\ worker[w].file => worker[w].at \in {"finish", "discard"} \/ source[j] \/ j \in bereft
    /\ worker[w].file \/ ~source[j]
    /\ worker[w].at \in {"probed", "transcribe"} => worker[w].file
    /\ worker[w].takes => worker[w].at = "text"
    /\ worker[w].at \in HasTr => t \in TrId /\ trs[t].content # Nothing
    /\ worker[w].at \in HasTr /\ ~worker[w].takes => \A u \in TrId : trs[u].job = j => u = t
    /\ worker[w].at = "copied" /\ trs[t].job = j => trs[t].key
    /\ worker[w].at \in {"text", "summarize"} /\ ~worker[w].takes /\ source[j] /\ Exists(j)
        => trs[t].job = j \/ j \in leaked
    /\ worker[w].at = "finish" /\ source[j] /\ Exists(j) => Needed(j)

WorkerInv(w) == SweepInv(w) /\ (Runs(w) => ThreadInv(w, worker[w].job, worker[w].tr))

IInv ==
    /\ Typed /\ Numbered /\ Tables /\ CopyOrSource /\ SourcesAreNeeded /\ OneThread
    /\ \A w \in Worker : WorkerInv(w)

--------------------------------------------------------------------------------
(* What a step leaves to the workers that do not take it *)

\* A thread's job has been claimed, and its request is over.
Taken(j) == jobs[j].status \notin {"unborn", "queued"} /\ j # upload.job

KeepsJobs(own) ==
    \A j \in JobId \ own : Taken(j) /\ Held(j) =>
        /\ Taken(j)' /\ (Exists(j)' => Exists(j))
        /\ source'[j] => source[j]
        /\ source[j] => source'[j] \/ j \in bereft'
        /\ \A t \in TrId : trs'[t].job = j => trs[t].job = j
        /\ \A t \in TrId : trs[t].job = j /\ source'[j] /\ Exists(j)'
                            => trs'[t].job = j \/ j \in leaked'
KeepsRows ==
    \A t \in TrId : trs[t].content # Nothing =>
        /\ trs'[t].content # Nothing
        /\ trs[t].key \/ ~TrExists(t) => trs'[t].key \/ ~TrExists(t)'
KeepsGhosts == bereft \subseteq bereft' /\ leaked \subseteq leaked'
KeepsNeeded(own) ==
    \A j \in JobId : Needed(j) /\ source'[j]
        => Needed(j)' \/ (Held(j)' /\ (j \in own \/ ~Exists(j)'))

\* Somebody looks after the job: a request, a status that a restart goes through, a thread.
Busy(j) == j = upload.job \/ jobs[j].status \in Active \cup {"archiving"} \/ Held(j)
KeepsBusy ==
    \A j \in JobId : source'[j] /\ (source[j] => Busy(j)) => Busy(j)' \/ Needed(j)'

Keeps(own) == KeepsJobs(own) /\ KeepsRows /\ KeepsGhosts /\ KeepsNeeded(own) /\ KeepsBusy

LEMMA OthersKeep ==
    ASSUME Typed, NEW own, Keeps(own), NEW x \in Worker, WorkerInv(x), worker'[x] = worker[x],
           Runs(x) => worker[x].job \notin own
    PROVE  WorkerInv(x)'
<1> DEFINE s == worker[x]
           j == worker[x].job
           t == worker[x].tr
<1>0. s \in WorkerState
    BY DEF Typed
<1>1. SweepInv(x)'
    <2>1. \A i \in DOMAIN s.todo : s.todo[i] \in Row
        BY <1>0 DEF WorkerState
    <2>2. \A i \in DOMAIN s.todo : trs'[s.todo[i].tr].content # Nothing
        BY <2>1 DEF WorkerInv, SweepInv, Keeps, KeepsRows, Row
    <2>3. ASSUME s.at = "stored"
          PROVE  trs'[Head(s.todo).tr].key \/ ~TrExists(Head(s.todo).tr)'
        <3>1. s.todo # <<>> /\ s.todo \in Seq(Row)
            BY <1>0, <2>3 DEF WorkerInv, SweepInv, SweepPc, WorkerState
        <3>2. 1 \in DOMAIN s.todo /\ Head(s.todo) = s.todo[1]
            BY <3>1
        <3>3. QED
            BY <2>1, <2>3, <3>2 DEF WorkerInv, SweepInv, Keeps, KeepsRows, Row
    <2>4. QED
        BY <2>2, <2>3 DEF WorkerInv, SweepInv
<1>2. ASSUME Runs(x)
      PROVE  ThreadInv(x, j, t)'
    <2>1. ThreadInv(x, j, t) /\ j \in JobId \ own /\ Taken(j) /\ Held(j)
        BY <1>2 DEF WorkerInv, ThreadInv, Taken, Held
    <2>2. Taken(j)' /\ (Exists(j)' => Exists(j)) /\ (source'[j] => source[j])
          /\ (source[j] => source'[j] \/ j \in bereft')
        BY <2>1 DEF Keeps, KeepsJobs
    <2>3. \A u \in TrId : trs'[u].job = j => trs[u].job = j
        BY <2>1 DEF Keeps, KeepsJobs
    <2>4. \A u \in TrId : trs[u].job = j /\ source'[j] /\ Exists(j)' => trs'[u].job = j \/ j \in leaked'
        BY <2>1 DEF Keeps, KeepsJobs
    <2>5. bereft \subseteq bereft' /\ leaked \subseteq leaked' /\ source \in [JobId -> BOOLEAN]
        BY DEF Keeps, KeepsGhosts, Typed
    <2>6. ASSUME s.at \in HasTr
          PROVE  t \in TrId /\ trs'[t].content # Nothing
                 /\ (trs[t].key \/ ~TrExists(t) => trs'[t].key \/ ~TrExists(t)')
        BY <2>1, <2>6 DEF ThreadInv, Keeps, KeepsRows
    <2>7. ASSUME s.at = "copied", trs'[t].job = j
          PROVE  trs'[t].key
        BY <2>1, <2>3, <2>6, <2>7 DEF ThreadInv, HasTr, TrExists, JobId
    <2>8. ASSUME s.at = "finish", source'[j], Exists(j)'
          PROVE  Needed(j)'
        BY <2>1, <2>2, <2>8 DEF ThreadInv, Keeps, KeepsNeeded
    <2>9. ASSUME s.at \in {"text", "summarize"}, ~s.takes, source'[j], Exists(j)'
          PROVE  trs'[t].job = j \/ j \in leaked'
        BY <2>1, <2>2, <2>4, <2>5, <2>6, <2>9 DEF ThreadInv, HasTr
    <2>10. j # upload'.job /\ jobs'[j].status \notin {"unborn", "queued"}
        BY <2>2 DEF Taken
    <2>11. s.file => s.at \in {"finish", "discard"} \/ source'[j] \/ j \in bereft'
        BY <2>1, <2>2, <2>5 DEF ThreadInv
    <2>12. s.file \/ ~source'[j]
        BY <2>1, <2>2 DEF ThreadInv
    <2>13. s.at \in HasTr /\ ~s.takes => \A u \in TrId : trs'[u].job = j => u = t
        BY <2>1, <2>3 DEF ThreadInv
    <2>14. QED
        BY <2>1, <2>6, <2>7, <2>8, <2>9, <2>10, <2>11, <2>12, <2>13 DEF ThreadInv
<1>3. QED
    BY <1>1, <1>2 DEF WorkerInv, Runs

--------------------------------------------------------------------------------
(* Frames *)

\* The job whose thread w is.
Own(w) == IF Runs(w) THEN {worker[w].job} ELSE {}

LEMMA IdleTyped ==
    /\ Idle \in WorkerState /\ Idle.at = "idle" /\ Idle.todo = <<>> /\ "idle" \notin JobPc \cup SweepPc
    /\ "claim" \notin JobPc \cup SweepPc /\ JobPc \cap SweepPc = {} /\ 0 \notin JobId
BY DEF Idle, WorkerState, JobPc, SweepPc, JobId

\* A step of worker w keeps the invariant when it keeps the tables, what the others rely on,
\* and its own part.
LEMMA WorkerKeeps ==
    ASSUME IInv, NEW w \in Worker, NEW s \in WorkerState, worker' = [worker EXCEPT ![w] = s],
           Typed', Numbered', Tables', CopyOrSource', Keeps(Own(w)), WorkerInv(w)',
           s.at \in JobPc => \/ Runs(w) /\ s.job = worker[w].job
                             \/ s.job \in JobId /\ jobs[s.job].status = "queued"
    PROVE  IInv'
<1>1. \A x \in Worker \ {w} : worker'[x] = worker[x] /\ (Runs(x)' <=> Runs(x))
    BY DEF IInv, Typed, Runs
<1>2. worker'[w] = s /\ (Runs(w)' <=> s.at \in JobPc)
    BY DEF IInv, Typed, Runs
<1>3. ASSUME NEW x \in Worker \ {w}
      PROVE  WorkerInv(x)'
    <2>1. Runs(x) => worker[x].job \notin Own(w)
        BY DEF IInv, OneThread, Own
    <2>2. QED
        BY <1>1, <2>1, OthersKeep DEF IInv
<1>4. ASSUME NEW x \in Worker \ {w}, Runs(x), s.at \in JobPc, s.job = worker[x].job
      PROVE  FALSE
    BY <1>4 DEF IInv, OneThread, WorkerInv, ThreadInv
<1>5. OneThread'
    BY <1>1, <1>2, <1>4 DEF IInv, OneThread
<1>6. SourcesAreNeeded'
    <2>1. SUFFICES ASSUME NEW j \in JobId, source'[j]
                   PROVE  Busy(j)' \/ Needed(j)'
        BY DEF SourcesAreNeeded, Busy, Needed
    <2>2. source[j] => Busy(j) \/ Needed(j)
        BY DEF IInv, SourcesAreNeeded, Busy, Needed
    <2>3. QED
        BY <2>1, <2>2 DEF Keeps, KeepsBusy, KeepsNeeded, Busy
<1>7. QED
    BY <1>3, <1>5, <1>6 DEF IInv

\* Ids stay used.
LEMMA NumbersKept ==
    ASSUME Numbered,
           \A j \in JobId : jobs'[j].status = "unborn" <=> jobs[j].status = "unborn",
           \A t \in TrId : trs'[t].content = Nothing <=> trs[t].content = Nothing
    PROVE  Numbered'
<1>1. UsedJobs' = UsedJobs /\ UsedTrs' = UsedTrs
    BY DEF UsedJobs, UsedTrs
<1>2. QED
    BY <1>1 DEF Numbered

\* A transcript that waits keeps its job's source needed, unless it changes.
LEMMA NeededKept ==
    ASSUME NEW w \in Worker, NEW s, worker \in [Worker -> WorkerState],
           worker' = [worker EXCEPT ![w] = s], worker[w].at # "stored", leaked \subseteq leaked',
           \A t \in TrId : Waiting(t) /\ source'[trs[t].job]
                => (Waiting(t)' /\ trs'[t].job = trs[t].job) \/ trs[t].job \in leaked'
                    \/ (s.at = "stored" /\ Head(s.todo).job = trs[t].job)
                    \/ (trs[t].job \in Own(w) /\ s.at \in JobPc /\ s.job = trs[t].job)
    PROVE  KeepsNeeded(Own(w))
<1>1. SUFFICES ASSUME NEW j \in JobId, Needed(j), source'[j]
               PROVE  Needed(j)' \/ (Held(j)' /\ j \in Own(w))
    BY DEF KeepsNeeded
<1>2. CASE j \in leaked
    BY <1>2 DEF Needed
<1>3. CASE \E t \in TrId : Waiting(t) /\ trs[t].job = j
    <2>1. PICK t \in TrId : Waiting(t) /\ trs[t].job = j
        BY <1>3
    <2>2. worker'[w] = s
        OBVIOUS
    <2>3. s.at \in JobPc /\ s.job = j => Held(j)'
        BY <2>2 DEF Held, Runs
    <2>4. QED
        BY <1>1, <2>1, <2>2, <2>3 DEF Needed
<1>4. CASE \E x \in Worker : worker[x].at = "stored" /\ Head(worker[x].todo).job = j
    <2>1. PICK x \in Worker : worker[x].at = "stored" /\ Head(worker[x].todo).job = j
        BY <1>4
    <2>2. worker'[x] = worker[x]
        BY <2>1
    <2>3. QED
        BY <2>1, <2>2 DEF Needed
<1>5. QED
    BY <1>1, <1>2, <1>3, <1>4 DEF Needed

\* What is looked after still is, except for the job of a thread that stops.
LEMMA BusyKept ==
    ASSUME NEW w \in Worker, NEW s, worker \in [Worker -> WorkerState],
           worker' = [worker EXCEPT ![w] = s], upload' = upload,
           \A j \in JobId : source'[j] => source[j],
           \A j \in JobId \ Own(w) : jobs'[j].status = jobs[j].status,
           \A j \in Own(w) : \/ s.at \in JobPc /\ s.job = j
                             \/ source'[j] => Busy(j)' \/ Needed(j)'
    PROVE  KeepsBusy
<1>1. SUFFICES ASSUME NEW j \in JobId, source'[j], Busy(j)
               PROVE  Busy(j)' \/ Needed(j)'
    BY DEF KeepsBusy
<1>2. CASE Runs(w) /\ j = worker[w].job
    <2>1. worker'[w] = s
        OBVIOUS
    <2>2. s.at \in JobPc /\ s.job = j => Held(j)'
        BY <2>1 DEF Held, Runs
    <2>3. j \in Own(w)
        BY <1>2 DEF Own
    <2>4. QED
        BY <1>1, <2>2, <2>3 DEF Busy
<1>3. CASE ~(Runs(w) /\ j = worker[w].job)
    <2>1. jobs'[j].status = jobs[j].status
        BY <1>3 DEF Own
    <2>2. ASSUME NEW x \in Worker, Runs(x), worker[x].job = j
          PROVE  Held(j)'
        BY <1>3, <2>2 DEF Held, Runs
    <2>3. QED
        BY <1>1, <2>1, <2>2 DEF Busy, Held
<1>4. QED
    BY <1>2, <1>3

\* A step in which w only moves, and stays with its job if it has one.
LEMMA MovesAlone ==
    ASSUME IInv, NEW w \in Worker, NEW s \in WorkerState, worker' = [worker EXCEPT ![w] = s],
           UNCHANGED <<jobs, trs, source, configured, upload, orders, bereft>>,
           leaked \subseteq leaked', leaked' \subseteq JobId,
           faults' \in 0 .. MaxFaults, worker[w].at # "stored", WorkerInv(w)',
           \A j \in Own(w) : \/ s.at \in JobPc /\ s.job = j
                             \/ source'[j] => Busy(j)' \/ Needed(j)',
           s.at \in JobPc => Runs(w) /\ s.job = worker[w].job
    PROVE  IInv'
<1>1. Typed'
    BY DEF IInv, Typed
<1>2. Numbered'
    BY NumbersKept DEF IInv
<1>3. Tables' /\ CopyOrSource'
    BY DEF IInv, Tables, CopyOrSource, Exists, TrExists
<1>4. KeepsNeeded(Own(w))
    BY NeededKept DEF IInv, Typed, Waiting, TrExists
<1>5. KeepsBusy
    BY BusyKept DEF IInv, Typed
<1>6. KeepsJobs(Own(w)) /\ KeepsRows /\ KeepsGhosts
    BY DEF KeepsJobs, KeepsRows, KeepsGhosts, Taken, Exists, TrExists
<1>7. QED
    BY <1>1, <1>2, <1>3, <1>4, <1>5, <1>6, WorkerKeeps DEF Keeps

\* A step in which w moves and writes to one row, whose owner it leaves alone.
LEMMA RowAlone ==
    ASSUME IInv, NEW w \in Worker, NEW s \in WorkerState, worker' = [worker EXCEPT ![w] = s],
           UNCHANGED <<jobs, source, configured, upload, bounds, bereft>>,
           leaked \subseteq leaked', leaked' \subseteq JobId,
           NEW t \in TrId, NEW row \in Transcript, trs' = [trs EXCEPT ![t] = row], TrExists(t),
           row.job = trs[t].job, row.content = trs[t].content, trs[t].key => row.key,
           Waiting(t) /\ source[trs[t].job] =>
                \/ Waiting(t)' \/ trs[t].job \in leaked'
                \/ s.at = "stored" /\ Head(s.todo).job = trs[t].job
                \/ trs[t].job \in Own(w) /\ s.at \in JobPc /\ s.job = trs[t].job,
           worker[w].at # "stored", WorkerInv(w)',
           \A j \in Own(w) : s.at \in JobPc /\ s.job = j,
           s.at \in JobPc => Runs(w) /\ s.job = worker[w].job
    PROVE  IInv'
<1>1. /\ trs'[t] = row /\ \A u \in TrId \ {t} : trs'[u] = trs[u]
      /\ \A u \in TrId : trs'[u].job = trs[u].job /\ trs'[u].content = trs[u].content
      /\ \A u \in TrId : trs[u].key => trs'[u].key
    BY DEF IInv, Typed
<1>2. Typed'
    BY DEF IInv, Typed, bounds
<1>3. Numbered'
    BY <1>1, NumbersKept DEF IInv
<1>4. Tables' /\ CopyOrSource'
    BY <1>1 DEF IInv, Tables, CopyOrSource, Exists, TrExists
<1>5. KeepsNeeded(Own(w))
    <2>1. \A u \in TrId \ {t} : Waiting(u) => Waiting(u)'
        BY <1>1 DEF Waiting, TrExists
    <2>2. worker \in [Worker -> WorkerState] /\ source' = source
        BY DEF IInv, Typed
    <2>3. \A u \in TrId : Waiting(u) /\ source'[trs[u].job]
            => (Waiting(u)' /\ trs'[u].job = trs[u].job) \/ trs[u].job \in leaked'
                \/ (s.at = "stored" /\ Head(s.todo).job = trs[u].job)
                \/ (trs[u].job \in Own(w) /\ s.at \in JobPc /\ s.job = trs[u].job)
        BY <1>1, <2>1, <2>2
    <2>4. QED
        BY <2>2, <2>3, NeededKept
<1>6. KeepsBusy
    BY BusyKept DEF IInv, Typed
<1>7. KeepsJobs(Own(w)) /\ KeepsRows /\ KeepsGhosts
    BY <1>1 DEF KeepsJobs, KeepsRows, KeepsGhosts, Taken, Exists, TrExists
<1>8. QED
    BY <1>2, <1>3, <1>4, <1>5, <1>6, <1>7, WorkerKeeps DEF Keeps

--------------------------------------------------------------------------------
(* retry_pending_archives *)

\* A sweep's rows are rows of transcripts, and the first is a job's.
LEMMA RowsTyped ==
    ASSUME IInv, NEW w \in Worker, worker[w].at \in SweepPc
    PROVE  /\ Head(worker[w].todo) \in Row /\ Tail(worker[w].todo) \in Seq(Row)
           /\ worker[w].todo # <<>> /\ worker[w].todo \in Seq(Row) /\ ~Runs(w) /\ Own(w) = {}
           /\ Head(worker[w].todo).tr \in TrId /\ Head(worker[w].todo).job \in JobId
           /\ trs[Head(worker[w].todo).tr].content # Nothing
           /\ \A i \in DOMAIN Tail(worker[w].todo) :
                trs[Tail(worker[w].todo)[i].tr].content # Nothing
<1> DEFINE q == worker[w].todo
<1>1. q \in Seq(Row) /\ q # <<>>
    BY DEF IInv, WorkerInv, SweepInv, Typed, WorkerState
<1>2. ~Runs(w) /\ Own(w) = {}
    BY IdleTyped DEF Runs, Own
<1>3. Head(q) \in Row /\ Tail(q) \in Seq(Row) /\ 1 \in DOMAIN q /\ Head(q) = q[1]
    BY <1>1
<1>4. \A i \in DOMAIN Tail(q) : i + 1 \in DOMAIN q /\ Tail(q)[i] = q[i + 1]
    BY <1>1
<1>5. \A i \in DOMAIN q : trs[q[i].tr].content # Nothing
    BY DEF IInv, WorkerInv, SweepInv
<1>6. QED
    BY <1>1, <1>2, <1>3, <1>4, <1>5 DEF Row

\* The thread on its way to the next row.
Next1(w) == [Idle EXCEPT !.todo = Tail(worker[w].todo),
                         !.at = IF Tail(worker[w].todo) = <<>> THEN "claim" ELSE "sweep"]

LEMMA MovesKeeps ==
    ASSUME IInv, NEW w \in Worker, worker[w].at \in SweepPc, Moves(w), KeepsRows
    PROVE  /\ Next1(w) \in WorkerState /\ worker' = [worker EXCEPT ![w] = Next1(w)]
           /\ Next1(w).at \notin JobPc \cup {"stored"} /\ WorkerInv(w)'
<1> DEFINE q == Tail(worker[w].todo)
<1>1. q \in Seq(Row) /\ \A i \in DOMAIN q : trs[q[i].tr].content # Nothing
    BY RowsTyped
<1>2. /\ Next1(w) \in WorkerState /\ Next1(w).todo = q
      /\ Next1(w).at = IF q = <<>> THEN "claim" ELSE "sweep"
    BY <1>1 DEF Next1, Idle, WorkerState, SweepPc, JobId, TrId
<1>3. worker' = [worker EXCEPT ![w] = Next1(w)] /\ worker'[w] = Next1(w)
    BY DEF Moves, Next1, IInv, Typed
<1>4. ~Runs(w)'
    BY <1>2, <1>3 DEF Runs, JobPc
<1>5. \A i \in DOMAIN q : trs'[q[i].tr].content # Nothing
    <2>1. \A i \in DOMAIN q : q[i] \in Row
        BY <1>1
    <2>2. QED
        BY <1>1, <2>1 DEF KeepsRows, Row
<1>6. SweepInv(w)'
    BY <1>2, <1>3, <1>5 DEF SweepInv, SweepPc
<1>7. QED
    BY <1>2, <1>3, <1>4, <1>6 DEF WorkerInv, JobPc

LEMMA LeavesKeeps ==
    ASSUME IInv, NEW w \in Worker, Leaves(w)
    PROVE  /\ Idle \in WorkerState /\ worker' = [worker EXCEPT ![w] = Idle]
           /\ Idle.at \notin JobPc \cup {"stored"} /\ WorkerInv(w)'
<1>1. worker'[w] = Idle
    BY DEF Leaves, IInv, Typed
<1>2. SweepInv(w)' /\ ~Runs(w)'
    BY <1>1 DEF SweepInv, Runs, Idle, SweepPc, JobPc
<1>3. QED
    BY <1>2, IdleTyped DEF Leaves, WorkerInv, SweepPc

\* A thread without a job: its rows are rows of transcripts.
LEMMA SweeperInv ==
    ASSUME NEW w \in Worker, NEW s \in WorkerState, worker'[w] = s, s.at \notin JobPc \cup {"stored"},
           s.at \in SweepPc => s.todo # <<>>,
           \A i \in DOMAIN s.todo : trs'[s.todo[i].tr].content # Nothing
    PROVE  WorkerInv(w)'
BY DEF WorkerInv, SweepInv, Runs

LEMMA AtTyped ==
    ASSUME NEW at \in {"idle", "claim"} \cup SweepPc \cup JobPc, NEW s \in WorkerState
    PROVE  /\ [s EXCEPT !.at = at] \in WorkerState /\ [s EXCEPT !.at = at].at = at
           /\ [s EXCEPT !.at = at].todo = s.todo
BY DEF WorkerState

LEMMA SameRows ==
    ASSUME UNCHANGED trs
    PROVE  KeepsRows
BY DEF KeepsRows, TrExists

\* Leaking more is no harm.
LEMMA LeaksMore ==
    ASSUME IInv, NEW js, Leaks(js)
    PROVE  leaked \subseteq leaked' /\ leaked' \subseteq JobId
BY DEF Leaks, IInv, Typed

LEMMA BeginSweepKeeps ==
    ASSUME IInv, NEW w \in Worker, BeginSweep(w)
    PROVE  IInv'
<1>1. worker[w].at = "idle" /\ ~Runs(w) /\ Own(w) = {} /\ faults' = faults /\ leaked' = leaked
      /\ worker \in [Worker -> WorkerState]
    BY IdleTyped DEF BeginSweep, Runs, Own, bounds, IInv, Typed
<1>2. CASE configured /\ Batch(w) # {}
    <2>1. PICK batch \in [1 .. Cardinality(Batch(w)) -> Batch(w)] :
            worker' = [worker EXCEPT ![w] = [Idle EXCEPT !.at = "sweep", !.holds = Batch(w),
                           !.todo = [i \in DOMAIN batch |-> [tr |-> batch[i], job |-> trs[batch[i]].job]]]]
        BY <1>2 DEF BeginSweep
    <2> DEFINE q == [i \in DOMAIN batch |-> [tr |-> batch[i], job |-> trs[batch[i]].job]]
               s == [Idle EXCEPT !.at = "sweep", !.holds = Batch(w), !.todo = q]
    <2>2. /\ Batch(w) \subseteq TrId
          /\ \A t \in Batch(w) : trs[t].job \in JobId /\ trs[t].content # Nothing
        BY DEF Batch, Due, Waiting, TrExists, IInv, Tables, Typed, Transcript
    <2>3. Cardinality(Batch(w)) \in Nat /\ Cardinality(Batch(w)) # 0
        <3>1. IsFiniteSet(TrId)
            BY ArchiveAssumption, FS_Interval DEF TrId
        <3>2. IsFiniteSet(Batch(w))
            BY <2>2, <3>1, FS_Subset
        <3>3. QED
            BY <1>2, <3>2, FS_CardinalityType, FS_EmptySet
    <2>4. q \in Seq(Row) /\ q # <<>> /\ \A i \in DOMAIN q : trs[q[i].tr].content # Nothing
        <3>1. \A i \in 1 .. Cardinality(Batch(w)) : batch[i] \in Batch(w) /\ q[i] \in Row
            BY <2>2 DEF Row
        <3>2. DOMAIN q = 1 .. Cardinality(Batch(w))
            OBVIOUS
        <3>3. q \in [1 .. Cardinality(Batch(w)) -> Row]
            BY <3>1
        <3>4. q \in Seq(Row) /\ Len(q) = Cardinality(Batch(w))
            BY <2>3, <3>3
        <3>5. q # <<>>
            BY <2>3, <3>4
        <3>6. QED
            BY <2>2, <3>1, <3>4, <3>5
    <2>5. s \in WorkerState /\ s.at = "sweep" /\ s.todo = q
        <3>1. "sweep" \in SweepPc /\ Batch(w) \in SUBSET TrId
            BY <2>2 DEF SweepPc
        <3>2. Idle \in WorkerState /\ q \in Seq(Row)
            BY <2>4, IdleTyped
        <3> HIDE DEF q
        <3>3. [Idle EXCEPT !.at = "sweep", !.holds = Batch(w), !.todo = q] \in WorkerState
            BY <3>1, <3>2 DEF WorkerState
        <3>4. [Idle EXCEPT !.at = "sweep", !.holds = Batch(w), !.todo = q].at = "sweep"
            BY <3>2 DEF WorkerState
        <3>5. [Idle EXCEPT !.at = "sweep", !.holds = Batch(w), !.todo = q].todo = q
            BY <3>2 DEF WorkerState
        <3>6. QED
            BY <3>3, <3>4, <3>5
    <2>6. worker'[w] = s /\ worker' = [worker EXCEPT ![w] = s]
        BY <1>1, <2>1
    <2>7. WorkerInv(w)'
        <3>1. trs' = trs
            BY DEF BeginSweep
        <3> HIDE DEF s
        <3>2. \A i \in DOMAIN s.todo : trs'[s.todo[i].tr].content # Nothing
            BY <2>4, <2>5, <3>1
        <3>3. s.at \notin JobPc \cup {"stored"} /\ s.todo # <<>>
            BY <2>4, <2>5, IdleTyped DEF JobPc
        <3>4. QED
            BY <2>5, <2>6, <3>2, <3>3, SweeperInv
    <2>8. QED
        BY <1>1, <2>5, <2>6, <2>7, MovesAlone DEF BeginSweep, JobPc, IInv, Typed, bounds
<1>3. CASE ~(configured /\ Batch(w) # {})
    <2> DEFINE s == [Idle EXCEPT !.at = "claim"]
    <2>1. s \in WorkerState /\ s.at = "claim" /\ s.todo = <<>> /\ s.at \notin JobPc
        <3>1. s \in WorkerState /\ s.at = "claim" /\ s.todo = Idle.todo
            BY AtTyped, IdleTyped
        <3>2. QED
            BY <3>1, IdleTyped
    <2>2. worker' = [worker EXCEPT ![w] = s] /\ worker'[w] = s
        BY <1>1, <1>3 DEF BeginSweep
    <2>3. WorkerInv(w)'
        <3> HIDE DEF s
        <3>1. QED
            BY <2>1, <2>2, SweeperInv DEF SweepPc
    <2>4. QED
        BY <1>1, <2>1, <2>2, <2>3, MovesAlone DEF BeginSweep, JobPc, IInv, Typed, bounds
<1>4. QED
    BY <1>2, <1>3

\* Writes to the columns about the copy.
LEMMA ErrorTyped ==
    ASSUME NEW row \in Transcript, NEW error \in {"none", "retry", "permanent"}
    PROVE  /\ [row EXCEPT !.error = error] \in Transcript
           /\ [row EXCEPT !.error = error].error = error
           /\ [row EXCEPT !.error = error].key = row.key
           /\ [row EXCEPT !.error = error].job = row.job
           /\ [row EXCEPT !.error = error].content = row.content
BY DEF Transcript

LEMMA CopyTyped ==
    ASSUME NEW row \in Transcript, NEW error \in {"none", "retry", "permanent"}
    PROVE  /\ [row EXCEPT !.key = TRUE, !.error = error] \in Transcript
           /\ [row EXCEPT !.key = TRUE, !.error = error].key = TRUE
           /\ [row EXCEPT !.key = TRUE, !.error = error].error = error
           /\ [row EXCEPT !.key = TRUE, !.error = error].job = row.job
           /\ [row EXCEPT !.key = TRUE, !.error = error].content = row.content
BY DEF Transcript

\* A sweep notes an error on its row, or finds the row gone.
LEMMA SweepNotesError ==
    ASSUME IInv, NEW w \in Worker, worker[w].at \in {"sweep", "transcode"},
           NEW error \in {"retry", "permanent"}, NEW t, t = Head(worker[w].todo).tr, TrExists(t),
           trs' = [trs EXCEPT ![t].error = error], Moves(w),
           UNCHANGED <<jobs, source, configured, upload, bounds, bereft>>,
           leaked \subseteq leaked', leaked' \subseteq JobId,
           error = "permanent" /\ source[trs[t].job] => trs[t].job \in leaked'
    PROVE  IInv'
<1> DEFINE row == [trs[t] EXCEPT !.error = error]
<1>1. worker[w].at \in SweepPc /\ worker[w].at # "stored"
    BY DEF SweepPc
<1>2. t \in TrId /\ Own(w) = {}
    BY <1>1, RowsTyped
<1>3. trs \in [TrId -> Transcript] /\ trs[t] \in Transcript
    BY <1>2 DEF IInv, Typed
<1>4. /\ row \in Transcript /\ row.error = error /\ row.key = trs[t].key /\ row.job = trs[t].job
      /\ row.content = trs[t].content
    BY <1>3, ErrorTyped, error \in {"none", "retry", "permanent"}
<1>5. trs' = [trs EXCEPT ![t] = row] /\ trs'[t] = row
    BY <1>2, <1>3
<1> HIDE DEF row
<1>6. KeepsRows
    BY <1>3, <1>4, <1>5 DEF KeepsRows, TrExists
<1>7. /\ Next1(w) \in WorkerState /\ worker' = [worker EXCEPT ![w] = Next1(w)]
      /\ Next1(w).at \notin JobPc \cup {"stored"} /\ WorkerInv(w)'
    BY <1>1, <1>6, MovesKeeps
<1>8. Waiting(t) /\ source[trs[t].job] => Waiting(t)' \/ trs[t].job \in leaked'
    BY <1>4, <1>5 DEF Waiting, TrExists
<1>9. QED
    BY <1>1, <1>2, <1>4, <1>5, <1>7, <1>8, RowAlone

LEMMA SweeperMoves ==
    ASSUME IInv, NEW w \in Worker, worker[w].at \in {"sweep", "transcode"}, Moves(w) \/ Leaves(w),
           UNCHANGED <<jobs, trs, source, configured, upload, orders, bereft>>,
           faults' \in 0 .. MaxFaults, leaked \subseteq leaked', leaked' \subseteq JobId
    PROVE  IInv'
<1>1. worker[w].at \in SweepPc /\ worker[w].at # "stored"
    BY DEF SweepPc
<1>2. Own(w) = {} /\ KeepsRows
    BY <1>1, RowsTyped, SameRows
<1>3. CASE Moves(w)
    BY <1>1, <1>2, <1>3, MovesKeeps, MovesAlone
<1>4. CASE Leaves(w)
    BY <1>1, <1>2, <1>4, LeavesKeeps, MovesAlone
<1>5. QED
    BY <1>3, <1>4

LEMMA SweepLooksKeeps ==
    ASSUME IInv, NEW w \in Worker, SweepLooks(w)
    PROVE  IInv'
<1> DEFINE r == Head(worker[w].todo)
<1>1. worker[w].at = "sweep" /\ worker[w].at \in SweepPc /\ UNCHANGED bounds /\ faults' \in 0 .. MaxFaults
    BY DEF SweepLooks, SweepPc, bounds, IInv, Typed
<1>2. r \in Row /\ r.tr \in TrId /\ r.job \in JobId /\ ~Runs(w) /\ Own(w) = {}
    BY <1>1, RowsTyped
<1>3. CASE ~source[r.job]
    <2>1. leaked \subseteq leaked' /\ leaked' \subseteq JobId /\ LeaksMoved(r)
        BY <1>3, LeaksMore DEF SweepLooks, LeaksMoved
    <2>2. CASE TrExists(r.tr)
        <3>1. trs[r.tr].job \in JobId
            BY <1>2, <2>2 DEF TrExists, IInv, Typed, Transcript
        <3>2. source[trs[r.tr].job] => trs[r.tr].job \in leaked'
            BY <1>3, <2>1, <3>1 DEF LeaksMoved, Leaks
        <3>3. QED
            BY <1>1, <1>3, <2>1, <2>2, <3>2, SweepNotesError DEF SweepLooks
    <2>3. CASE ~TrExists(r.tr)
        BY <1>1, <1>3, <2>1, <2>3, SweeperMoves DEF SweepLooks, bounds
    <2>4. QED
        BY <2>2, <2>3
<1>4. CASE source[r.job]
    <2>1. leaked \subseteq leaked' /\ leaked' \subseteq JobId /\ UNCHANGED trs
        BY <1>4 DEF SweepLooks, IInv, Typed
    <2>2. CASE Exists(r.job)
        <3> DEFINE s == [worker[w] EXCEPT !.at = "transcode"]
        <3>1. worker[w] \in WorkerState /\ worker \in [Worker -> WorkerState]
            BY DEF IInv, Typed
        <3>2. s \in WorkerState /\ s.at = "transcode" /\ s.todo = worker[w].todo
            BY <3>1, AtTyped DEF SweepPc
        <3>3. worker' = [worker EXCEPT ![w] = s] /\ worker'[w] = s
            BY <1>4, <2>2, <3>1 DEF SweepLooks
        <3>4. s.at \notin JobPc \cup {"stored"} /\ s.todo # <<>>
            BY <1>1, <3>2, RowsTyped DEF JobPc
        <3>5. \A i \in DOMAIN s.todo : trs'[s.todo[i].tr].content # Nothing
            BY <2>1, <3>2 DEF IInv, WorkerInv, SweepInv
        <3> HIDE DEF s
        <3>6. WorkerInv(w)'
            BY <3>2, <3>3, <3>4, <3>5, SweeperInv
        <3>7. QED
            BY <1>1, <1>2, <2>1, <3>2, <3>3, <3>4, <3>6, MovesAlone DEF SweepLooks, bounds
    <2>3. CASE ~Exists(r.job)
        BY <1>1, <1>4, <2>1, <2>3, SweeperMoves DEF SweepLooks, bounds
    <2>4. QED
        BY <2>2, <2>3
<1>5. QED
    BY <1>3, <1>4

LEMMA SweepFailsKeeps ==
    ASSUME IInv, NEW w \in Worker, SweepFails(w)
    PROVE  IInv'
<1> DEFINE t == Head(worker[w].todo).tr
<1>1. /\ worker[w].at = "transcode" /\ UNCHANGED bounds /\ faults' \in 0 .. MaxFaults
      /\ leaked \subseteq leaked' /\ leaked' \subseteq JobId /\ UNCHANGED <<jobs, source, configured, upload, bereft>>
    BY DEF SweepFails, bounds, IInv, Typed
<1>2. CASE UNCHANGED trs /\ (Moves(w) \/ Leaves(w))
    BY <1>1, <1>2, SweeperMoves DEF bounds
<1>3. CASE TrExists(t) /\ trs' = [trs EXCEPT ![t].error = "retry"] /\ Moves(w)
    BY <1>1, <1>3, SweepNotesError
<1>4. QED
    BY <1>2, <1>3 DEF SweepFails

LEMMA SweepSucceedsKeeps ==
    ASSUME IInv, NEW w \in Worker, SweepSucceeds(w)
    PROVE  IInv'
<1> DEFINE r == Head(worker[w].todo)
<1>1. /\ worker[w].at = "transcode" /\ worker[w].at \in SweepPc /\ LeaksMoved(r)
      /\ UNCHANGED <<jobs, source, configured, upload, bounds, bereft>>
    BY DEF SweepSucceeds, SweepPc
<1>2. /\ r \in Row /\ r.tr \in TrId /\ r.job \in JobId /\ ~Runs(w) /\ Own(w) = {}
      /\ worker[w].todo # <<>> /\ worker[w] \in WorkerState
    BY <1>1, RowsTyped DEF IInv, Typed
<1>3. leaked \subseteq leaked' /\ leaked' \subseteq JobId /\ faults' \in 0 .. MaxFaults
    BY <1>1, LeaksMore DEF LeaksMoved, IInv, Typed, bounds
<1>4. CASE ~TrExists(r.tr)
    BY <1>1, <1>3, <1>4, SweeperMoves DEF SweepSucceeds, bounds
<1>5. CASE TrExists(r.tr)
    <2> DEFINE s == [worker[w] EXCEPT !.at = "stored", !.holds = {}]
               row == [trs[r.tr] EXCEPT !.key = TRUE, !.error = "none"]
    <2>1. /\ trs[r.tr] \in Transcript /\ trs \in [TrId -> Transcript]
          /\ worker \in [Worker -> WorkerState]
        BY <1>2 DEF IInv, Typed
    <2>2. s \in WorkerState /\ s.at = "stored" /\ s.todo = worker[w].todo
        BY <1>2 DEF WorkerState, SweepPc
    <2>3. worker' = [worker EXCEPT ![w] = s] /\ worker'[w] = s
        BY <1>5, <2>1 DEF SweepSucceeds
    <2>4. /\ row \in Transcript /\ row.key = TRUE /\ row.job = trs[r.tr].job
          /\ row.content = trs[r.tr].content
        BY <2>1, CopyTyped
    <2>5. trs' = [trs EXCEPT ![r.tr] = row] /\ trs'[r.tr] = row
        BY <1>2, <1>5, <2>1 DEF SweepSucceeds, Copied
    <2> HIDE DEF s, row
    <2>6. s.at \notin JobPc
        BY <2>2 DEF JobPc
    <2>7. \A u \in TrId : trs'[u].content = trs[u].content
        BY <2>1, <2>4, <2>5
    <2>8. WorkerInv(w)'
        <3>1. \A i \in DOMAIN s.todo : s.todo[i] \in Row /\ trs[s.todo[i].tr].content # Nothing
            BY <2>2, RowsTyped DEF IInv, WorkerInv, SweepInv, WorkerState
        <3>2. \A i \in DOMAIN s.todo : trs'[s.todo[i].tr].content # Nothing
            BY <2>7, <3>1 DEF Row
        <3>3. QED
            BY <1>2, <2>2, <2>3, <2>4, <2>5, <2>6, <3>2 DEF WorkerInv, SweepInv, Runs
    <2>9. source[trs[r.tr].job] => trs[r.tr].job \in leaked' \/ Head(s.todo).job = trs[r.tr].job
        <3>1. trs[r.tr].job \in JobId
            BY <1>5, <2>1 DEF TrExists, Transcript
        <3>2. QED
            BY <1>1, <2>2, <3>1 DEF LeaksMoved, Leaks
    <2>10. QED
        BY <1>1, <1>2, <1>3, <1>5, <2>2, <2>3, <2>4, <2>5, <2>6, <2>8, <2>9, RowAlone
<1>6. QED
    BY <1>4, <1>5

\* A file that goes although a thread runs its job is in bereft.
LEMMA SweepCleansKeeps ==
    ASSUME IInv, NEW w \in Worker, SweepCleans(w)
    PROVE  IInv'
<1> DEFINE r == Head(worker[w].todo)
           s == Next1(w)
<1>1. /\ worker[w].at = "stored" /\ worker[w].at \in SweepPc /\ Moves(w)
      /\ UNCHANGED <<jobs, trs, configured, upload, bounds, leaked>>
      /\ source' = [source EXCEPT ![r.job] = FALSE]
    BY DEF SweepCleans, SweepPc
<1>2. r \in Row /\ r.tr \in TrId /\ r.job \in JobId /\ ~Runs(w) /\ Own(w) = {}
    BY <1>1, RowsTyped
<1>3. /\ bereft \subseteq bereft' /\ bereft' \subseteq JobId
      /\ trs[r.tr].job # r.job \/ Held(r.job) => r.job \in bereft'
    BY <1>2 DEF SweepCleans, IInv, Typed
<1>4. KeepsRows
    BY <1>1, SameRows
<1>5. /\ s \in WorkerState /\ worker' = [worker EXCEPT ![w] = s]
      /\ s.at \notin JobPc \cup {"stored"} /\ WorkerInv(w)'
    BY <1>1, <1>4, MovesKeeps
<1> HIDE DEF s
<1>6. /\ source' \in [JobId -> BOOLEAN] /\ ~source'[r.job]
      /\ \A j \in JobId \ {r.job} : source'[j] = source[j]
    BY <1>1, <1>2 DEF IInv, Typed
<1>7. Typed'
    BY <1>1, <1>3, <1>5, <1>6 DEF IInv, Typed, bounds
<1>8. Numbered'
    BY <1>1, NumbersKept DEF IInv
<1>9. Tables'
    BY <1>1 DEF IInv, Tables, Exists, TrExists
<1>10. CopyOrSource'
    <2>1. ASSUME NEW t \in TrId, TrExists(t), ~trs[t].key, trs[t].job = r.job
          PROVE  r.job \in bereft'
        <3>1. CASE trs[r.tr].job = r.job
            <4>1. TrExists(r.tr) /\ trs[r.tr].key
                BY <1>1, <3>1, <2>1 DEF IInv, WorkerInv, SweepInv, TrExists
            <4>2. t = r.tr
                BY <1>2, <2>1, <3>1 DEF IInv, Tables
            <4>3. QED
                BY <2>1, <4>1, <4>2
        <3>2. QED
            BY <1>3, <3>1
    <2>2. \A t \in TrId : TrExists(t) => trs[t].job \in JobId
        BY DEF IInv, Typed, TrExists, Transcript
    <2>3. QED
        BY <1>1, <1>3, <1>6, <2>1, <2>2 DEF IInv, CopyOrSource, TrExists
<1>11. KeepsNeeded(Own(w))
    <2>1. SUFFICES ASSUME NEW j \in JobId, Needed(j), source'[j]
                   PROVE  Needed(j)'
        BY DEF KeepsNeeded
    <2>2. j # r.job
        BY <1>6, <2>1
    <2>3. ASSUME NEW x \in Worker, worker[x].at = "stored", Head(worker[x].todo).job = j
          PROVE  worker'[x] = worker[x]
        BY <1>5, <2>2, <2>3 DEF IInv, Typed
    <2>4. QED
        BY <1>1, <2>1, <2>3 DEF Needed, Waiting, TrExists
<1>12. KeepsBusy
    BY <1>1, <1>2, <1>5, <1>6, BusyKept DEF IInv, Typed
<1>13. KeepsJobs(Own(w)) /\ KeepsGhosts
    BY <1>1, <1>3, <1>6 DEF KeepsJobs, KeepsGhosts, Taken, Exists, TrExists
<1>14. QED
    BY <1>4, <1>5, <1>7, <1>8, <1>9, <1>10, <1>11, <1>12, <1>13, WorkerKeeps DEF Keeps

LEMMA SweepBreaksKeeps ==
    ASSUME IInv, NEW w \in Worker, SweepBreaks(w)
    PROVE  IInv'
<1>1. faults' \in 0 .. MaxFaults
    BY ArchiveAssumption DEF SweepBreaks, IInv, Typed
<1>2. leaked \subseteq leaked' /\ leaked' \subseteq JobId
    BY DEF SweepBreaks, IInv, Typed
<1>3. QED
    BY <1>1, <1>2, SweeperMoves DEF SweepBreaks

\* A run of the sweep keeps the invariant.
LEMMA SweepKeeps ==
    ASSUME IInv, NEW w \in Worker, Sweep(w)
    PROVE  IInv'
BY BeginSweepKeeps, SweepLooksKeeps, SweepFailsKeeps, SweepSucceedsKeeps, SweepCleansKeeps DEF Sweep

--------------------------------------------------------------------------------
(* process_job *)

LEMMA ThreadFacts ==
    ASSUME IInv, NEW w \in Worker, Runs(w)
    PROVE  /\ ThreadInv(w, worker[w].job, worker[w].tr) /\ SweepInv(w)
           /\ worker[w].job \in JobId /\ Own(w) = {worker[w].job} /\ Held(worker[w].job)
           /\ worker[w] \in WorkerState /\ worker \in [Worker -> WorkerState]
           /\ worker[w].at \in JobPc /\ worker[w].at # "stored"
           /\ jobs \in [JobId -> Job] /\ trs \in [TrId -> Transcript] /\ source \in [JobId -> BOOLEAN]
           /\ worker[w].tr \in TrId \cup {0}
BY DEF IInv, WorkerInv, ThreadInv, Own, Held, Runs, Typed, JobPc, WorkerState

\* The rows that a sweep left behind in a thread stay rows of transcripts.
LEMMA ThreadSweepInv ==
    ASSUME IInv, NEW w \in Worker, NEW s, worker'[w] = s, s.at \in JobPc,
           s.todo = worker[w].todo \/ s.todo = <<>>, KeepsRows
    PROVE  SweepInv(w)'
<1>1. \A i \in DOMAIN worker[w].todo :
        worker[w].todo[i] \in Row /\ trs[worker[w].todo[i].tr].content # Nothing
    BY DEF IInv, Typed, WorkerState, WorkerInv, SweepInv
<1>2. \A i \in DOMAIN worker[w].todo : trs'[worker[w].todo[i].tr].content # Nothing
    BY <1>1 DEF KeepsRows, Row
<1>3. \A i \in DOMAIN s.todo : trs'[s.todo[i].tr].content # Nothing
    BY <1>2
<1>4. s.at \notin SweepPc /\ s.at # "stored"
    BY DEF JobPc, SweepPc
<1>5. QED
    BY <1>3, <1>4 DEF SweepInv

\* The thread at its next step, without an assignment to commit.
Gone(w, at) == [worker[w] EXCEPT !.at = at, !.takes = FALSE]

LEMMA GotoIs ==
    ASSUME IInv, NEW w \in Worker, Runs(w), NEW at \in JobPc
    PROVE  /\ Gone(w, at) \in WorkerState /\ Gone(w, at).at = at /\ Gone(w, at).takes = FALSE
           /\ Gone(w, at).todo = worker[w].todo /\ Gone(w, at).job = worker[w].job
           /\ Gone(w, at).tr = worker[w].tr /\ Gone(w, at).file = worker[w].file
           /\ Gone(w, at).error = worker[w].error
           /\ Goto(w, at) => worker' = [worker EXCEPT ![w] = Gone(w, at)] /\ worker'[w] = Gone(w, at)
<1>1. worker[w] \in WorkerState /\ worker \in [Worker -> WorkerState]
    BY DEF IInv, Typed
<1>2. Gone(w, at) \in WorkerState
    BY <1>1 DEF WorkerState, Gone
<1>3. /\ Gone(w, at).at = at /\ Gone(w, at).takes = FALSE
      /\ Gone(w, at).todo = worker[w].todo /\ Gone(w, at).job = worker[w].job
      /\ Gone(w, at).tr = worker[w].tr /\ Gone(w, at).file = worker[w].file
      /\ Gone(w, at).error = worker[w].error
    BY <1>1 DEF WorkerState, Gone
<1>4. QED
    BY <1>1, <1>2, <1>3 DEF Goto, Gone

LEMMA ClaimTyped ==
    ASSUME NEW j \in JobId, NEW file \in BOOLEAN
    PROVE  LET s == [Idle EXCEPT !.at = "begin", !.job = j, !.file = file]
           IN  /\ s \in WorkerState /\ s.at = "begin" /\ s.job = j /\ s.file = file /\ s.takes = FALSE
               /\ s.todo = <<>>
<1>1. Idle \in WorkerState /\ Idle.takes = FALSE /\ Idle.todo = <<>>
    BY IdleTyped DEF Idle
<1>2. QED
    BY <1>1 DEF WorkerState, JobPc

LEMMA ClaimKeeps ==
    ASSUME IInv, NEW w \in Worker, Claim(w)
    PROVE  IInv'
<1>1. /\ worker[w].at = "claim" /\ ~Runs(w) /\ Own(w) = {} /\ worker \in [Worker -> WorkerState]
      /\ UNCHANGED <<trs, source, configured, upload, bounds, bereft, leaked>>
      /\ jobs \in [JobId -> Job] /\ source \in [JobId -> BOOLEAN]
    BY IdleTyped DEF Claim, Runs, Own, IInv, Typed
<1>2. CASE Leaves(w) /\ UNCHANGED jobs
    <2>1. leaked \subseteq leaked' /\ leaked' \subseteq JobId /\ faults' \in 0 .. MaxFaults
        BY <1>1 DEF IInv, Typed, bounds
    <2>2. QED
        BY <1>1, <1>2, <2>1, LeavesKeeps, MovesAlone DEF bounds
<1>3. ASSUME NEW j \in JobId, jobs[j].status = "queued",
             jobs' = [jobs EXCEPT ![j].status = "midstage"],
             worker' = [worker EXCEPT ![w] = [Idle EXCEPT !.at = "begin", !.job = j, !.file = source[j]]]
      PROVE  IInv'
    <2> DEFINE s == [Idle EXCEPT !.at = "begin", !.job = j, !.file = source[j]]
    <2>1. /\ s \in WorkerState /\ s.at = "begin" /\ s.job = j /\ s.file = source[j] /\ s.takes = FALSE
          /\ s.todo = <<>>
        <3>1. source[j] \in BOOLEAN
            BY <1>1
        <3>2. QED
            BY <3>1, ClaimTyped
    <2>2. worker' = [worker EXCEPT ![w] = s] /\ worker'[w] = s
        BY <1>1, <1>3
    <2> HIDE DEF s
    <2>3. /\ jobs' \in [JobId -> Job] /\ jobs'[j].status = "midstage"
          /\ \A i \in JobId : jobs'[i].content = jobs[i].content
          /\ \A i \in JobId \ {j} : jobs'[i] = jobs[i]
        BY <1>1, <1>3 DEF Job, Active
    <2>4. Typed'
        BY <1>1, <2>1, <2>2, <2>3 DEF IInv, Typed, bounds
    <2>5. Numbered'
        BY <1>1, <1>3, <2>3, NumbersKept DEF IInv
    <2>6. \A i \in JobId : Exists(i)' <=> Exists(i)
        BY <1>3, <2>3 DEF Exists
    <2>7. \A t \in TrId : TrExists(t) => trs[t].job \in JobId
        BY DEF IInv, Typed, TrExists, Transcript
    <2>8. j # upload.job
        BY <1>3 DEF IInv, Tables, JobId
    <2>9. Tables' /\ CopyOrSource'
        <3>1. upload.job \in JobId \cup {0} /\ upload' = upload /\ trs' = trs /\ source' = source
              /\ bereft' = bereft
            BY <1>1 DEF IInv, Typed
        <3>2. Tables'
            BY <2>3, <2>6, <2>7, <2>8, <3>1 DEF IInv, Tables, TrExists
        <3>3. CopyOrSource'
            BY <3>1 DEF IInv, CopyOrSource, TrExists
        <3>4. QED
            BY <3>2, <3>3
    <2>10. KeepsRows
        BY <1>1, SameRows
    <2>11. WorkerInv(w)'
        <3>1. SweepInv(w)'
            BY <2>1, <2>2, <2>10, ThreadSweepInv DEF JobPc
        <3>2. ThreadInv(w, worker[w].job, worker[w].tr)'
            BY <1>1, <2>1, <2>2, <2>3, <2>8 DEF ThreadInv, HasTr
        <3>3. QED
            BY <2>1, <2>2, <3>1, <3>2 DEF WorkerInv
    <2>12. KeepsNeeded(Own(w))
        BY <1>1, <2>1, <2>2, NeededKept DEF Waiting, TrExists
    <2>13. KeepsBusy
        <3>1. SUFFICES ASSUME NEW i \in JobId, source'[i], Busy(i)
                       PROVE  Busy(i)'
            BY <1>1 DEF KeepsBusy
        <3>2. CASE i = j
            BY <2>3, <3>2 DEF Busy, Active
        <3>3. CASE i # j
            <4>1. \A x \in Worker : Runs(x) => worker'[x] = worker[x]
                BY <1>1, <2>2
            <4>2. Held(i) => Held(i)'
                BY <4>1 DEF Held, Runs
            <4>3. QED
                BY <1>1, <2>3, <3>1, <3>3, <4>2 DEF Busy
        <3>4. QED
            BY <3>2, <3>3
    <2>14. KeepsJobs(Own(w)) /\ KeepsGhosts
        BY <1>1, <1>3, <2>3, <2>6 DEF KeepsJobs, KeepsGhosts, Taken
    <2>15. QED
        BY <1>3, <2>1, <2>2, <2>4, <2>5, <2>9, <2>10, <2>11, <2>12, <2>13, <2>14, WorkerKeeps DEF Keeps
<1>4. QED
    BY <1>2, <1>3 DEF Claim

LEMMA FindPartialKeeps ==
    ASSUME IInv, NEW w \in Worker, FindPartial(w)
    PROVE  IInv'
<1> DEFINE j == worker[w].job
<1>1. /\ worker[w].at \in {"begin", "probed"} /\ Runs(w) /\ worker[w].takes = FALSE
      /\ UNCHANGED <<jobs, trs, source, configured, upload, bounds, bereft, leaked>>
    <2>1. worker[w].at \in {"begin", "probed"} /\ Runs(w)
        BY DEF FindPartial, Runs, JobPc
    <2>2. QED
        BY <2>1, ThreadFacts DEF FindPartial, ThreadInv, WorkerState
<1>2. ThreadInv(w, j, worker[w].tr) /\ Own(w) = {j} /\ worker[w] \in WorkerState
      /\ worker \in [Worker -> WorkerState] /\ trs \in [TrId -> Transcript]
    BY <1>1, ThreadFacts
<1>3. KeepsRows /\ faults' \in 0 .. MaxFaults /\ leaked \subseteq leaked' /\ leaked' \subseteq JobId
    BY <1>1, SameRows DEF IInv, Typed, bounds
<1>4. ASSUME NEW t \in TrId, TrExists(t),
             worker' = [worker EXCEPT ![w] = [@ EXCEPT !.at = "text", !.tr = t,
                            !.takes = trs[t].job # j, !.error = trs[t].error # "none"]]
      PROVE  IInv'
    <2> DEFINE s == [worker[w] EXCEPT !.at = "text", !.tr = t, !.takes = trs[t].job # j,
                                      !.error = trs[t].error # "none"]
    <2>1. /\ s \in WorkerState /\ s.at = "text" /\ s.tr = t /\ s.takes = (trs[t].job # j)
          /\ s.job = j /\ s.file = worker[w].file /\ s.todo = worker[w].todo
        BY <1>2 DEF WorkerState, JobPc
    <2>2. worker' = [worker EXCEPT ![w] = s] /\ worker'[w] = s
        BY <1>2, <1>4
    <2> HIDE DEF s
    <2>3. s.at \in JobPc /\ s.at # "stored"
        BY <2>1 DEF JobPc
    <2>4. SweepInv(w)'
        BY <1>3, <2>1, <2>2, <2>3, ThreadSweepInv
    <2>5. trs[t].content # Nothing /\ \A u \in TrId : trs[t].job = trs[u].job => t = u
        BY <1>4 DEF IInv, Tables
    <2>6. ThreadInv(w, worker[w].job, worker[w].tr)'
        BY <1>1, <1>2, <2>1, <2>2, <2>5 DEF ThreadInv, HasTr
    <2>7. WorkerInv(w)'
        BY <2>1, <2>2, <2>4, <2>6 DEF WorkerInv
    <2>8. QED
        BY <1>1, <1>2, <1>3, <2>1, <2>2, <2>3, <2>7, MovesAlone DEF bounds
<1>5. ASSUME worker[w].at = "begin", worker[w].file, worker' = [worker EXCEPT ![w].at = "probed"]
      PROVE  IInv'
    <2> DEFINE s == [worker[w] EXCEPT !.at = "probed"]
    <2>1. /\ s \in WorkerState /\ s.at = "probed" /\ s.takes = worker[w].takes
          /\ s.job = j /\ s.file = worker[w].file /\ s.todo = worker[w].todo
        BY <1>2 DEF WorkerState, JobPc
    <2>2. worker' = [worker EXCEPT ![w] = s] /\ worker'[w] = s
        BY <1>2, <1>5
    <2> HIDE DEF s
    <2>3. s.at \in JobPc /\ s.at # "stored"
        BY <2>1 DEF JobPc
    <2>4. SweepInv(w)'
        BY <1>3, <2>1, <2>2, <2>3, ThreadSweepInv
    <2>5. ThreadInv(w, worker[w].job, worker[w].tr)'
        BY <1>1, <1>2, <1>5, <2>1, <2>2 DEF ThreadInv, HasTr
    <2>6. WorkerInv(w)'
        BY <2>1, <2>2, <2>4, <2>5 DEF WorkerInv
    <2>7. QED
        BY <1>1, <1>2, <1>3, <2>1, <2>2, <2>3, <2>6, MovesAlone DEF bounds
<1>6. QED
    BY <1>4, <1>5 DEF FindPartial, Partials

\* A step in which the thread w moves and sets the status of its job.
LEMMA StatusAlone ==
    ASSUME IInv, NEW w \in Worker, Runs(w), Exists(worker[w].job),
           NEW status \in {"midstage", "done", "failed"},
           jobs' = [jobs EXCEPT ![worker[w].job].status = status],
           NEW s \in WorkerState, worker' = [worker EXCEPT ![w] = s],
           UNCHANGED <<trs, source, configured, upload, orders, bereft, leaked>>,
           faults' \in 0 .. MaxFaults, WorkerInv(w)', s.at \in JobPc => s.job = worker[w].job,
           s.at \in JobPc \/ \A j \in Own(w) : source[j] => Needed(j)'
    PROVE  IInv'
<1>1. PICK j \in JobId : /\ j = worker[w].job /\ Own(w) = {j} /\ worker \in [Worker -> WorkerState]
                         /\ jobs \in [JobId -> Job] /\ worker[w].at # "stored" /\ j # upload.job
    BY ThreadFacts DEF ThreadInv
<1>2. /\ jobs' \in [JobId -> Job] /\ jobs'[j].status = status
      /\ \A i \in JobId : jobs'[i].content = jobs[i].content
      /\ \A i \in JobId \ {j} : jobs'[i] = jobs[i]
    BY <1>1 DEF Job, Active
<1>3. \A i \in JobId : /\ Exists(i)' <=> Exists(i)
                       /\ jobs'[i].status = "unborn" <=> jobs[i].status = "unborn"
    BY <1>1, <1>2 DEF Exists
<1>4. Typed'
    BY <1>2 DEF IInv, Typed
<1>5. Numbered'
    BY <1>3, NumbersKept DEF IInv
<1>6. \A t \in TrId : TrExists(t) => trs[t].job \in JobId
    BY DEF IInv, Typed, TrExists, Transcript
<1>7. Tables' /\ CopyOrSource'
    <2>1. upload.job \in JobId \cup {0} /\ upload' = upload
        BY DEF IInv, Typed
    <2>2. Tables'
        BY <1>1, <1>2, <1>3, <1>6, <2>1 DEF IInv, Tables, TrExists
    <2>3. CopyOrSource'
        BY DEF IInv, CopyOrSource, TrExists
    <2>4. QED
        BY <2>2, <2>3
<1>8. KeepsNeeded(Own(w))
    BY <1>1, NeededKept DEF Waiting, TrExists
<1>9. KeepsBusy
    <2>1. \A i \in Own(w) : (s.at \in JobPc /\ s.job = i) \/ (source'[i] => Busy(i)' \/ Needed(i)')
        BY <1>1
    <2>2. QED
        BY <1>1, <1>2, <2>1, BusyKept
<1>10. KeepsJobs(Own(w)) /\ KeepsRows /\ KeepsGhosts
    BY <1>1, <1>2, <1>3 DEF KeepsJobs, KeepsRows, KeepsGhosts, Taken, TrExists
<1>11. QED
    BY <1>4, <1>5, <1>7, <1>8, <1>9, <1>10, WorkerKeeps DEF Keeps

LEMMA StartTranscribingKeeps ==
    ASSUME IInv, NEW w \in Worker, StartTranscribing(w)
    PROVE  IInv'
<1> DEFINE s == [worker[w] EXCEPT !.at = "transcribe"]
<1>1. Runs(w) /\ worker[w].at = "probed" /\ Exists(worker[w].job)
      /\ jobs' = [jobs EXCEPT ![worker[w].job].status = "midstage"]
      /\ UNCHANGED <<trs, source, configured, upload, bounds, bereft, leaked>>
    BY DEF StartTranscribing, Runs, JobPc
<1>2. ThreadInv(w, worker[w].job, worker[w].tr) /\ worker[w] \in WorkerState
      /\ worker \in [Worker -> WorkerState] /\ worker[w].job \in JobId /\ jobs \in [JobId -> Job]
    BY <1>1, ThreadFacts
<1>3. /\ s \in WorkerState /\ s.at = "transcribe" /\ s.takes = worker[w].takes
      /\ s.job = worker[w].job /\ s.file = worker[w].file /\ s.todo = worker[w].todo
    BY <1>2 DEF WorkerState, JobPc
<1>4. worker' = [worker EXCEPT ![w] = s] /\ worker'[w] = s
    BY <1>2 DEF StartTranscribing
<1> HIDE DEF s
<1>5. s.at \in JobPc
    BY <1>3 DEF JobPc
<1>6. jobs'[worker[w].job].status = "midstage"
    BY <1>1, <1>2 DEF Job
<1>7. WorkerInv(w)'
    <2>1. SweepInv(w)'
        BY <1>1, <1>3, <1>4, <1>5, SameRows, ThreadSweepInv
    <2>2. ThreadInv(w, worker[w].job, worker[w].tr)'
        BY <1>1, <1>2, <1>3, <1>4, <1>6 DEF ThreadInv, HasTr
    <2>3. QED
        BY <2>1, <2>2 DEF WorkerInv
<1>8. faults' \in 0 .. MaxFaults
    BY <1>1 DEF IInv, Typed, bounds
<1>9. QED
    BY <1>1, <1>3, <1>4, <1>5, <1>7, <1>8, StatusAlone DEF bounds

LEMMA FinishKeeps ==
    ASSUME IInv, NEW w \in Worker, Finish(w)
    PROVE  IInv'
<1>1. /\ Runs(w) /\ worker[w].at = "finish" /\ Exists(worker[w].job) /\ Leaves(w)
      /\ jobs' = [jobs EXCEPT ![worker[w].job].status = "done"]
      /\ UNCHANGED <<trs, source, configured, upload, bounds, bereft, leaked>>
    BY DEF Finish, Runs, JobPc
<1>2. PICK j \in JobId : j = worker[w].job /\ Own(w) = {j} /\ Exists(j)
    BY <1>1, ThreadFacts
<1>3. /\ Idle \in WorkerState /\ worker' = [worker EXCEPT ![w] = Idle]
      /\ Idle.at \notin JobPc /\ WorkerInv(w)' /\ worker \in [Worker -> WorkerState]
    BY <1>1, LeavesKeeps, ThreadFacts
<1>4. source[j] => Needed(j)
    BY <1>1, <1>2, ThreadFacts DEF ThreadInv
<1>5. Needed(j) => Needed(j)'
    <2>1. \A x \in Worker : worker[x].at = "stored" => worker'[x] = worker[x]
        BY <1>1, <1>3
    <2>2. QED
        BY <1>1, <2>1 DEF Needed, Waiting, TrExists
<1>6. \A i \in Own(w) : source[i] => Needed(i)'
    BY <1>2, <1>4, <1>5
<1>7. faults' \in 0 .. MaxFaults
    BY <1>1 DEF IInv, Typed, bounds
<1>8. QED
    BY <1>1, <1>3, <1>6, <1>7, StatusAlone DEF bounds

LEMMA HandleExceptionKeeps ==
    ASSUME IInv, NEW w \in Worker, HandleException(w)
    PROVE  IInv'
<1> DEFINE s == Gone(w, "discard")
<1>1. Runs(w) /\ "discard" \in JobPc
    BY DEF HandleException, MayRaise, Faulty, Runs, JobPc
<1>2. /\ s \in WorkerState /\ s.at = "discard" /\ s.takes = FALSE /\ s.job = worker[w].job
      /\ s.file = worker[w].file /\ s.todo = worker[w].todo
      /\ worker' = [worker EXCEPT ![w] = s] /\ worker'[w] = s
    BY <1>1, GotoIs DEF HandleException
<1> HIDE DEF s
<1>3. ThreadInv(w, worker[w].job, worker[w].tr) /\ Own(w) = {worker[w].job}
      /\ worker[w].job \in JobId /\ jobs \in [JobId -> Job] /\ worker[w].at # "stored"
    BY <1>1, ThreadFacts
<1>4. UNCHANGED <<trs, source, configured, upload, orders, bereft, leaked>> /\ KeepsRows
    BY SameRows DEF HandleException
<1>5. faults' \in 0 .. MaxFaults
    BY ArchiveAssumption DEF HandleException, Faulty, IInv, Typed
<1>6. jobs'[worker[w].job].status \notin {"unborn", "queued"}
    BY <1>3 DEF HandleException, ThreadInv, Job
<1>7. WorkerInv(w)'
    <2>1. SweepInv(w)'
        BY <1>1, <1>2, <1>4, ThreadSweepInv
    <2>2. ThreadInv(w, worker[w].job, worker[w].tr)'
        BY <1>2, <1>3, <1>4, <1>6 DEF ThreadInv, HasTr
    <2>3. QED
        BY <2>1, <2>2 DEF WorkerInv
<1>8. CASE Exists(worker[w].job)
    BY <1>1, <1>2, <1>4, <1>5, <1>7, <1>8, StatusAlone DEF HandleException
<1>9. CASE ~Exists(worker[w].job)
    <2>1. jobs' = jobs /\ leaked \subseteq leaked' /\ leaked' \subseteq JobId
        BY <1>4, <1>9 DEF HandleException, IInv, Typed
    <2>2. QED
        BY <1>1, <1>2, <1>3, <1>4, <1>5, <1>7, <2>1, MovesAlone
<1>10. QED
    BY <1>8, <1>9

\* A step in which the file of the job goes, which no transcript waits for.
LEMMA SourceGoes ==
    ASSUME IInv, NEW w \in Worker, Runs(w), NEW s \in WorkerState,
           worker' = [worker EXCEPT ![w] = s], WorkerInv(w)', s.at \in JobPc => s.job = worker[w].job,
           UNCHANGED <<jobs, trs, configured, upload, bounds, leaked>>,
           source' = [source EXCEPT ![worker[w].job] = FALSE],
           bereft \subseteq bereft', bereft' \subseteq JobId,
           \A t \in TrId : trs[t].job = worker[w].job => trs[t].key \/ worker[w].job \in bereft'
    PROVE  IInv'
<1>1. PICK j \in JobId : /\ j = worker[w].job /\ Own(w) = {j} /\ worker \in [Worker -> WorkerState]
                         /\ worker[w].at # "stored" /\ source \in [JobId -> BOOLEAN]
    BY ThreadFacts
<1>2. source' \in [JobId -> BOOLEAN] /\ ~source'[j] /\ \A i \in JobId \ {j} : source'[i] = source[i]
    BY <1>1
<1>3. Typed'
    BY <1>2 DEF IInv, Typed, bounds
<1>4. Numbered' /\ KeepsRows
    BY NumbersKept, SameRows DEF IInv
<1>5. Tables'
    BY DEF IInv, Tables, Exists, TrExists
<1>6. \A t \in TrId : TrExists(t) => trs[t].job \in JobId
    BY DEF IInv, Typed, TrExists, Transcript
<1>7. CopyOrSource'
    BY <1>1, <1>2, <1>6 DEF IInv, CopyOrSource, TrExists
<1>8. KeepsNeeded(Own(w))
    BY <1>1, NeededKept DEF Waiting, TrExists
<1>9. \A i \in JobId : source'[i] => source[i]
    BY <1>2
<1>10. KeepsBusy
    <2>1. \A i \in Own(w) : ~source'[i]
        BY <1>1, <1>2
    <2>2. \A i \in JobId \ Own(w) : jobs'[i].status = jobs[i].status
        OBVIOUS
    <2>3. QED
        BY <1>1, <1>9, <2>1, <2>2, BusyKept
<1>11. KeepsJobs(Own(w)) /\ KeepsGhosts
    BY <1>1, <1>2 DEF KeepsJobs, KeepsGhosts, Taken, Exists
<1>12. QED
    BY <1>3, <1>4, <1>5, <1>7, <1>8, <1>10, <1>11, WorkerKeeps DEF Keeps

LEMMA RemoveSourceKeeps ==
    ASSUME IInv, NEW w \in Worker, RemoveSource(w)
    PROVE  IInv'
<1> DEFINE s == Gone(w, "finish")
<1>1. /\ Runs(w) /\ "finish" \in JobPc /\ worker[w].at = "copied" /\ Goto(w, "finish")
      /\ UNCHANGED <<jobs, trs, configured, upload, bounds, bereft, leaked>>
      /\ source' = [source EXCEPT ![worker[w].job] = FALSE]
    BY DEF RemoveSource, Runs, JobPc
<1>2. /\ s \in WorkerState /\ s.at = "finish" /\ s.takes = FALSE /\ s.job = worker[w].job
      /\ s.file = worker[w].file /\ s.todo = worker[w].todo /\ s.tr = worker[w].tr
      /\ worker' = [worker EXCEPT ![w] = s] /\ worker'[w] = s
    BY <1>1, GotoIs
<1> HIDE DEF s
<1>3. ThreadInv(w, worker[w].job, worker[w].tr) /\ worker[w].job \in JobId
      /\ source \in [JobId -> BOOLEAN]
    BY <1>1, ThreadFacts
<1>4. WorkerInv(w)'
    <2>1. SweepInv(w)'
        BY <1>1, <1>2, SameRows, ThreadSweepInv
    <2>2. ~source'[worker[w].job]
        BY <1>1, <1>3
    <2>3. ThreadInv(w, worker[w].job, worker[w].tr)'
        BY <1>1, <1>2, <1>3, <2>2 DEF ThreadInv, HasTr
    <2>4. QED
        BY <2>1, <2>3 DEF WorkerInv
<1>5. \A t \in TrId : trs[t].job = worker[w].job => trs[t].key
    BY <1>1, <1>3 DEF ThreadInv, HasTr
<1>6. bereft \subseteq bereft' /\ bereft' \subseteq JobId
    BY <1>1 DEF IInv, Typed
<1>7. QED
    BY <1>1, <1>2, <1>4, <1>5, <1>6, SourceGoes

LEMMA DiscardKeeps ==
    ASSUME IInv, NEW w \in Worker, Discard(w)
    PROVE  IInv'
<1>1. /\ Runs(w) /\ Leaves(w) /\ UNCHANGED <<jobs, trs, configured, upload, bounds, leaked>>
      /\ source' = [source EXCEPT ![worker[w].job] = FALSE]
      /\ bereft' = bereft \cup {worker[w].job}
    BY DEF Discard, Runs, JobPc
<1>2. bereft' \subseteq JobId
    BY <1>1, ThreadFacts DEF IInv, Typed
<1>3. /\ Idle \in WorkerState /\ worker' = [worker EXCEPT ![w] = Idle]
      /\ Idle.at \notin JobPc /\ WorkerInv(w)'
    BY <1>1, LeavesKeeps
<1>4. QED
    BY <1>1, <1>2, <1>3, SourceGoes

LEMMA HandlerTripsKeeps ==
    ASSUME IInv, NEW w \in Worker, HandlerTrips(w)
    PROVE  IInv'
<1>1. /\ Runs(w) /\ Leaves(w) /\ UNCHANGED <<jobs, trs, source, configured, upload, bounds, bereft>>
      /\ Leaks({worker[w].job})
    BY DEF HandlerTrips, Runs, JobPc
<1>2. /\ leaked \subseteq leaked' /\ leaked' \subseteq JobId /\ faults' \in 0 .. MaxFaults
      /\ worker[w].at # "stored"
    BY <1>1, LeaksMore, ThreadFacts DEF IInv, Typed, bounds
<1>3. \A j \in Own(w) : source'[j] => Needed(j)'
    BY <1>1, ThreadFacts DEF Leaks, Needed
<1>4. QED
    BY <1>1, <1>2, <1>3, LeavesKeeps, MovesAlone DEF bounds

LEMMA HandlerFailsKeeps ==
    ASSUME IInv, NEW w \in Worker, HandlerFails(w)
    PROVE  IInv'
<1>1. /\ Runs(w) /\ Leaves(w) /\ UNCHANGED <<jobs, trs, source, configured, upload, orders, bereft>>
    BY DEF HandlerFails
<1>2. /\ leaked \subseteq leaked' /\ leaked' \subseteq JobId /\ worker[w].at # "stored"
    BY <1>1, LeaksMore, ThreadFacts DEF HandlerFails
<1>3. faults' \in 0 .. MaxFaults
    BY ArchiveAssumption DEF HandlerFails, IInv, Typed
<1>4. \A j \in Own(w) : source'[j] => Busy(j)' \/ Needed(j)'
    <2>1. PICK j \in JobId : j = worker[w].job /\ Own(w) = {j}
        BY <1>1, ThreadFacts
    <2>2. CASE jobs[j].status \in Active \cup {"archiving"}
        BY <1>1, <2>1, <2>2 DEF Busy
    <2>3. CASE jobs[j].status \notin Active \cup {"archiving"}
        BY <1>1, <2>1, <2>3 DEF HandlerFails, Leaks, Needed
    <2>4. QED
        BY <2>1, <2>2, <2>3
<1>5. QED
    BY <1>1, <1>2, <1>3, <1>4, LeavesKeeps, MovesAlone

\* The first id never used follows those that are.
LEMMA FreshIsNext ==
    ASSUME NEW n \in Nat, NEW used \in SUBSET (1 .. n), used = 1 .. Cardinality(used),
           NEW i \in Fresh(1 .. n, used)
    PROVE  used \cup {i} = 1 .. Cardinality(used \cup {i})
<1> DEFINE c == Cardinality(used)
<1>1. c \in Nat
    <2>1. IsFiniteSet(1 .. n)
        BY FS_Interval
    <2>2. IsFiniteSet(used)
        BY <2>1, FS_Subset
    <2>3. QED
        BY <2>2, FS_CardinalityType
<1>2. i \in 1 .. n /\ i \notin 1 .. c /\ 1 .. (i - 1) \subseteq 1 .. c
    BY DEF Fresh
<1> HIDE DEF c
<1>3. i = c + 1
    BY <1>1, <1>2
<1>4. used \cup {i} = 1 .. (c + 1)
    BY <1>1, <1>3 DEF c
<1>5. Cardinality(1 .. (c + 1)) = c + 1
    BY <1>1, FS_Interval
<1>6. QED
    BY <1>4, <1>5

LEMMA NewTranscriptIs ==
    ASSUME NEW j \in JobId, NEW c \in Content
    PROVE  LET row == [NoTranscript EXCEPT !.job = j, !.content = c]
           IN  row \in Transcript /\ row.job = j /\ row.content = c /\ row.key = FALSE
BY DEF NoTranscript, Transcript

LEMMA SaveTranscriptKeeps ==
    ASSUME IInv, NEW w \in Worker, SaveTranscript(w)
    PROVE  IInv'
<1>1. /\ Runs(w) /\ worker[w].at = "transcribe" /\ "text" \in JobPc
      /\ UNCHANGED <<jobs, source, configured, upload, bounds, bereft, leaked>>
    BY DEF SaveTranscript, Runs, JobPc
<1>2. PICK j \in JobId : /\ j = worker[w].job /\ Own(w) = {j} /\ worker \in [Worker -> WorkerState]
                         /\ worker[w] \in WorkerState /\ worker[w].at # "stored"
                         /\ jobs \in [JobId -> Job] /\ trs \in [TrId -> Transcript]
                         /\ ThreadInv(w, j, worker[w].tr)
    BY <1>1, ThreadFacts
<1>3. PICK t \in NewTr : /\ MayOwn(j, t)
                         /\ trs' = [trs EXCEPT ![t] = [NoTranscript EXCEPT !.job = j, !.content = jobs[j].content]]
                         /\ worker' = [worker EXCEPT ![w] = [@ EXCEPT !.at = "text", !.tr = t]]
    BY <1>2 DEF SaveTranscript
<1> DEFINE row == [NoTranscript EXCEPT !.job = j, !.content = jobs[j].content]
           s == [worker[w] EXCEPT !.at = "text", !.tr = t]
<1>4. t \in TrId /\ trs[t].content = Nothing /\ ~TrExists(t)
    BY <1>3 DEF NewTr, Fresh, UsedTrs, IInv, Tables
<1>5. jobs[j].content \in Content /\ jobs[j].content # Nothing
    BY <1>3, ArchiveAssumption DEF MayOwn, IInv, Tables
<1>6. row \in Transcript /\ row.job = j /\ row.content # Nothing /\ row.key = FALSE
    <2>1. row \in Transcript /\ row.job = j /\ row.content = jobs[j].content /\ row.key = FALSE
        BY <1>5, NewTranscriptIs
    <2>2. QED
        BY <1>5, <2>1
<1>7. /\ s \in WorkerState /\ s.at = "text" /\ s.tr = t /\ s.job = j /\ s.file = worker[w].file
      /\ s.takes = worker[w].takes /\ s.todo = worker[w].todo
    BY <1>1, <1>2, <1>4 DEF WorkerState
<1>8. worker' = [worker EXCEPT ![w] = s] /\ worker'[w] = s
    BY <1>2, <1>3
<1> HIDE DEF s, row
<1>9. trs'[t] = row /\ \A u \in TrId \ {t} : trs'[u] = trs[u]
    BY <1>2, <1>3, <1>4 DEF row
<1>10. trs' \in [TrId -> Transcript]
    BY <1>2, <1>3, <1>6 DEF row
<1>11. \A u \in TrId \ {t} : trs[u].job # j
    BY <1>3 DEF MayOwn
<1>12. Typed'
    BY <1>1, <1>7, <1>8, <1>10 DEF IInv, Typed, bounds
<1>13. Numbered'
    <2>1. UsedTrs' = UsedTrs \cup {t}
        BY <1>4, <1>6, <1>9 DEF UsedTrs
    <2>2. UsedTrs' = 1 .. Cardinality(UsedTrs')
        <3>1. MaxTranscripts \in Nat /\ UsedTrs \in SUBSET (1 .. MaxTranscripts)
            BY ArchiveAssumption DEF UsedTrs, TrId
        <3>2. UsedTrs = 1 .. Cardinality(UsedTrs) /\ t \in Fresh(1 .. MaxTranscripts, UsedTrs)
            BY DEF NewTr, TrId, IInv, Numbered
        <3>3. UsedTrs \cup {t} = 1 .. Cardinality(UsedTrs \cup {t})
            BY <3>1, <3>2, FreshIsNext
        <3>4. QED
            BY <2>1, <3>3
    <2>3. UsedJobs' = UsedJobs
        BY <1>1 DEF UsedJobs
    <2>4. QED
        BY <2>2, <2>3 DEF IInv, Numbered
<1>14. Tables'
    <2>1. \A u \in TrId : TrExists(u)' => Exists(trs[u].job)' /\ trs'[u].content # Nothing
        BY <1>1, <1>3, <1>4, <1>6, <1>9 DEF IInv, Tables, TrExists, Exists, MayOwn
    <2>2. \A u, v \in TrId : TrExists(u)' /\ trs'[u].job = trs'[v].job => u = v
        BY <1>6, <1>9, <1>11 DEF IInv, Tables, TrExists
    <2>3. QED
        BY <1>1, <2>1, <2>2 DEF IInv, Tables, Exists
<1>15. CopyOrSource'
    <2>1. source[j] \/ j \in bereft
        BY <1>1, <1>2 DEF ThreadInv
    <2>2. QED
        BY <1>1, <1>6, <1>9, <2>1 DEF IInv, CopyOrSource, TrExists
<1>16. KeepsNeeded(Own(w))
    <2>1. \A u \in TrId : Waiting(u) => Waiting(u)' /\ trs'[u].job = trs[u].job
        BY <1>4, <1>9 DEF Waiting, TrExists
    <2>2. leaked \subseteq leaked'
        BY <1>1
    <2>3. QED
        BY <1>2, <1>8, <2>1, <2>2, NeededKept
<1>17. KeepsBusy
    BY <1>1, <1>2, <1>7, <1>8, BusyKept
<1>18. KeepsRows
    BY <1>4, <1>9 DEF KeepsRows, TrExists
<1>19. KeepsJobs(Own(w)) /\ KeepsGhosts
    BY <1>1, <1>2, <1>4, <1>6, <1>9 DEF KeepsJobs, KeepsGhosts, Taken, Exists, TrExists, JobId
<1>20. WorkerInv(w)'
    <2>1. SweepInv(w)'
        BY <1>1, <1>7, <1>8, <1>18, ThreadSweepInv
    <2>2. \A u \in TrId : trs'[u].job = j => u = t
        BY <1>9, <1>11
    <2>3. ThreadInv(w, worker[w].job, worker[w].tr)'
        BY <1>1, <1>2, <1>4, <1>6, <1>7, <1>8, <1>9, <2>2 DEF ThreadInv, HasTr
    <2>4. QED
        BY <2>1, <2>3 DEF WorkerInv
<1>21. QED
    BY <1>1, <1>2, <1>7, <1>8, <1>12, <1>13, <1>14, <1>15, <1>16, <1>17, <1>18, <1>19, <1>20, WorkerKeeps
    DEF Keeps

\* A thread commits: what it assigned to its job and its row lands, at once.
LEMMA CommitKeeps ==
    ASSUME IInv, NEW w \in Worker, Runs(w), worker[w].at \in HasTr,
           NEW status, NEW row \in Transcript, NEW useless \in BOOLEAN,
           status \in {"midstage", "archiving", "done"} \/ status = jobs[worker[w].job].status,
           row.job = trs[worker[w].tr].job, row.content = trs[worker[w].tr].content,
           row.key = trs[worker[w].tr].key,
           row.error = trs[worker[w].tr].error \/ row.error = "retry",
           Commit(w, status, row, useless),
           NEW s \in WorkerState, worker' = [worker EXCEPT ![w] = s],
           s.at \in JobPc => s.job = worker[w].job, s.at \in JobPc \/ ~worker[w].file,
           WorkerInv(w)'
    PROVE  IInv'
<1>1. PICK j \in JobId : /\ j = worker[w].job /\ Own(w) = {j} /\ worker \in [Worker -> WorkerState]
                         /\ worker[w].at # "stored" /\ worker[w] \in WorkerState
                         /\ jobs \in [JobId -> Job] /\ trs \in [TrId -> Transcript]
                         /\ source \in [JobId -> BOOLEAN]
                         /\ ThreadInv(w, j, worker[w].tr)
    BY ThreadFacts
<1>2. PICK t \in TrId : t = worker[w].tr /\ trs[t].content # Nothing
    BY <1>1 DEF ThreadInv
<1> DEFINE takes == worker[w].takes
<1>3. /\ Exists(j) /\ (takes => TrExists(t) /\ MayOwn(j, t))
      /\ jobs' = [jobs EXCEPT ![j].status = status]
      /\ trs' = [trs EXCEPT ![t] = IF takes THEN [row EXCEPT !.job = j] ELSE row]
      /\ bereft' = bereft \cup (IF takes /\ ~worker[w].file THEN {j} ELSE {})
      /\ Leaks((IF takes THEN {trs[t].job} ELSE {}) \cup (IF useless THEN {j} ELSE {}))
      /\ UNCHANGED <<source, configured, upload, bounds>>
    BY <1>1, <1>2 DEF Commit, CanCommit
<1>4. status \in {"midstage", "archiving", "done", "failed"} /\ status \notin {"unborn", "queued", "deleted"}
    BY <1>1, <1>3 DEF ThreadInv, Exists, Job, Active
<1>5. /\ jobs' \in [JobId -> Job] /\ jobs'[j].status = status
      /\ \A i \in JobId : jobs'[i].content = jobs[i].content
      /\ \A i \in JobId \ {j} : jobs'[i] = jobs[i]
    BY <1>1, <1>3, <1>4 DEF Job, Active
<1>6. /\ trs' \in [TrId -> Transcript] /\ trs'[t].job = IF takes THEN j ELSE trs[t].job
      /\ trs'[t].content = trs[t].content /\ trs'[t].key = trs[t].key
      /\ trs'[t].error = row.error
      /\ \A u \in TrId \ {t} : trs'[u] = trs[u]
    BY <1>1, <1>2, <1>3 DEF Transcript
<1>7. \A i \in JobId : /\ Exists(i)' <=> Exists(i)
                       /\ jobs'[i].status = "unborn" <=> jobs[i].status = "unborn"
    BY <1>3, <1>4, <1>5 DEF Exists
<1>8. \A u \in TrId : TrExists(u) => trs[u].job \in JobId
    BY DEF IInv, Typed, TrExists, Transcript
<1>9. leaked \subseteq leaked' /\ leaked' \subseteq JobId /\ bereft \subseteq bereft' /\ bereft' \subseteq JobId
    BY <1>3, LeaksMore DEF IInv, Typed
<1>10. takes => \A u \in TrId \ {t} : trs[u].job # j
    BY <1>3 DEF MayOwn
<1>11. takes => TrExists(t) /\ (source[trs[t].job] => trs[t].job \in leaked')
    BY <1>3, <1>8 DEF Leaks
<1>12. worker[w].takes \in BOOLEAN /\ j # 0
    BY <1>1 DEF WorkerState, JobId
<1> HIDE DEF takes
<1>13. Typed'
    BY <1>3, <1>5, <1>6, <1>9 DEF IInv, Typed, bounds
<1>14. Numbered'
    BY <1>6, <1>7, NumbersKept DEF IInv
<1>15. Tables'
    <2>1. \A i \in JobId : Exists(i)' => jobs'[i].content \in Content
        BY <1>5, <1>7 DEF IInv, Tables
    <2>2. \A u \in TrId : TrExists(u)' => Exists(trs[u].job)' /\ trs'[u].content # Nothing
        BY <1>2, <1>3, <1>6, <1>7, <1>8 DEF IInv, Tables, TrExists
    <2>3. \A u, v \in TrId : TrExists(u)' /\ trs'[u].job = trs'[v].job => u = v
        BY <1>6, <1>10 DEF IInv, Tables, TrExists
    <2>4. upload.job \in JobId \cup {0}
        BY DEF IInv, Typed
    <2>5. upload'.job # 0 => upload'.content # Nothing /\ jobs'[upload'.job].status = "deleted"
        BY <1>1, <1>3, <1>5, <2>4 DEF IInv, Tables, ThreadInv
    <2>6. QED
        BY <2>1, <2>2, <2>3, <2>5 DEF Tables
<1>16. CopyOrSource'
    <2>1. takes => source[j] \/ j \in bereft'
        BY <1>1, <1>3, <1>9 DEF ThreadInv, takes
    <2>2. QED
        BY <1>3, <1>6, <1>9, <1>11, <2>1 DEF IInv, CopyOrSource, TrExists
<1>17. KeepsNeeded(Own(w))
    <2>1. \A u \in TrId : Waiting(u) /\ source'[trs[u].job]
            => (Waiting(u)' /\ trs'[u].job = trs[u].job) \/ trs[u].job \in leaked'
        BY <1>2, <1>3, <1>6, <1>11 DEF Waiting, TrExists
    <2>2. QED
        BY <1>1, <1>9, <2>1, NeededKept
<1>18. KeepsBusy
    <2>1. \A i \in JobId : source'[i] => source[i]
        BY <1>3
    <2>2. \A i \in Own(w) : (s.at \in JobPc /\ s.job = i) \/ ~source'[i]
        BY <1>1, <1>3 DEF ThreadInv
    <2>3. \A i \in JobId \ Own(w) : jobs'[i].status = jobs[i].status
        BY <1>1, <1>5
    <2>4. QED
        BY <1>1, <1>3, <2>1, <2>2, <2>3, BusyKept
<1>19. KeepsJobs(Own(w))
    <2>1. SUFFICES ASSUME NEW k \in JobId \ Own(w), Taken(k)
                   PROVE  /\ Taken(k)' /\ (Exists(k)' => Exists(k)) /\ source'[k] = source[k]
                          /\ \A u \in TrId : trs'[u].job = k => trs[u].job = k
                          /\ \A u \in TrId : trs[u].job = k /\ source'[k]
                                => trs'[u].job = k \/ k \in leaked'
        BY DEF KeepsJobs
    <2>2. Taken(k)' /\ (Exists(k)' => Exists(k)) /\ source'[k] = source[k] /\ k # j
        BY <1>1, <1>3, <1>5, <1>7, <2>1 DEF Taken
    <2>3. QED
        BY <1>3, <1>6, <1>11, <2>2
<1>20. KeepsRows /\ KeepsGhosts
    BY <1>6, <1>9, <1>11 DEF KeepsRows, KeepsGhosts, TrExists
<1>21. QED
    BY <1>13, <1>14, <1>15, <1>16, <1>17, <1>18, <1>19, <1>20, WorkerKeeps DEF Keeps

\* A thread that has committed knows its row, and leaves nothing behind in its directory.
LEMMA CommitGoes ==
    ASSUME IInv, NEW w \in Worker, Runs(w), worker[w].at \in {"text", "summarize"},
           NEW status, NEW row \in Transcript, NEW useless \in BOOLEAN,
           status \in {"midstage", "archiving", "done"} \/ status = jobs[worker[w].job].status,
           row.job = trs[worker[w].tr].job, row.content = trs[worker[w].tr].content,
           row.key = trs[worker[w].tr].key, Commit(w, status, row, useless),
           NEW s \in WorkerState, worker'[w] = s, s.at \in {"summarize", "archive", "finish"},
           s.takes = FALSE, s.job = worker[w].job, s.file = worker[w].file,
           s.tr = worker[w].tr, s.todo = worker[w].todo,
           s.at = "finish" =>
                useless \/ (~row.key /\ row.error = "retry" /\ TrExists(worker[w].tr))
    PROVE  WorkerInv(w)'
<1>1. PICK j \in JobId : /\ j = worker[w].job /\ worker[w] \in WorkerState
                         /\ jobs \in [JobId -> Job] /\ trs \in [TrId -> Transcript]
                         /\ ThreadInv(w, j, worker[w].tr)
    BY ThreadFacts
<1>2. PICK t \in TrId : t = worker[w].tr /\ trs[t].content # Nothing
    BY <1>1 DEF ThreadInv, HasTr
<1> DEFINE takes == worker[w].takes
<1>3. /\ Exists(j) /\ (takes => MayOwn(j, t))
      /\ jobs' = [jobs EXCEPT ![j].status = status]
      /\ trs' = [trs EXCEPT ![t] = IF takes THEN [row EXCEPT !.job = j] ELSE row]
      /\ bereft \subseteq bereft' /\ leaked \subseteq leaked'
      /\ Leaks((IF takes THEN {trs[t].job} ELSE {}) \cup (IF useless THEN {j} ELSE {}))
      /\ UNCHANGED <<source, configured, upload, bounds>>
    BY <1>1, <1>2 DEF Commit, CanCommit, Leaks
<1>4. jobs'[j].status \notin {"unborn", "queued"}
    BY <1>1, <1>3 DEF ThreadInv, Job, Active
<1>5. /\ trs'[t].job = IF takes THEN j ELSE trs[t].job
      /\ trs'[t].content = trs[t].content /\ trs'[t].key = row.key /\ trs'[t].error = row.error
      /\ \A u \in TrId \ {t} : trs'[u] = trs[u]
    BY <1>1, <1>2, <1>3 DEF Transcript
<1>6. \A u \in TrId : trs'[u].job = j => u = t
    BY <1>1, <1>2, <1>3, <1>5 DEF MayOwn, ThreadInv, HasTr
<1>7. KeepsRows
    BY <1>2, <1>3, <1>5 DEF KeepsRows, TrExists, Commit, CanCommit
<1>8. SweepInv(w)'
    BY <1>7, ThreadSweepInv DEF JobPc
<1>9. source[j] => trs'[t].job = j \/ j \in leaked'
    BY <1>1, <1>2, <1>3, <1>5 DEF ThreadInv
<1>10. ASSUME s.at = "finish", source[j]
       PROVE  Needed(j)'
    <2>1. CASE useless
        BY <1>3, <1>10, <2>1 DEF Leaks, Needed
    <2>2. CASE ~useless
        <3>1. Waiting(t)'
            BY <1>1, <1>2, <1>5, <1>10, <2>2 DEF Waiting, TrExists, JobId
        <3>2. QED
            BY <1>9, <1>10, <3>1 DEF Needed
    <2>3. QED
        BY <2>1, <2>2
<1>11. ThreadInv(w, worker[w].job, worker[w].tr)'
    <2>1. /\ j \in JobId /\ j # upload'.job /\ jobs'[j].status \notin {"unborn", "queued"}
          /\ (s.file => source'[j] \/ j \in bereft') /\ (s.file \/ ~source'[j])
        BY <1>1, <1>3, <1>4 DEF ThreadInv
    <2>2. /\ t \in TrId /\ trs'[t].content # Nothing /\ source' = source
        BY <1>2, <1>3, <1>5
    <2>3. worker'[w].job = j /\ worker'[w].tr = t /\ worker'[w].at = s.at /\ worker'[w].file = s.file
          /\ worker'[w].takes = FALSE
        BY <1>1, <1>2
    <2>4. QED
        BY <1>6, <1>9, <1>10, <2>1, <2>2, <2>3 DEF ThreadInv, HasTr
<1>12. QED
    BY <1>8, <1>11 DEF WorkerInv

LEMMA StartSummarizingKeeps ==
    ASSUME IInv, NEW w \in Worker, StartSummarizing(w)
    PROVE  IInv'
<1> DEFINE s == Gone(w, "summarize")
<1>1. /\ Runs(w) /\ worker[w].at = "text" /\ worker[w].at \in HasTr /\ "summarize" \in JobPc
      /\ Commit(w, "midstage", trs[worker[w].tr], FALSE)
    BY DEF StartSummarizing, Runs, JobPc, HasTr
<1>2. /\ s \in WorkerState /\ s.at = "summarize" /\ s.takes = FALSE /\ s.job = worker[w].job
      /\ s.file = worker[w].file /\ s.todo = worker[w].todo /\ s.tr = worker[w].tr
      /\ worker' = [worker EXCEPT ![w] = s] /\ worker'[w] = s
    BY <1>1, GotoIs DEF StartSummarizing
<1> HIDE DEF s
<1>3. trs[worker[w].tr] \in Transcript
    BY <1>1, ThreadFacts DEF ThreadInv
<1>4. WorkerInv(w)'
    BY <1>1, <1>2, <1>3, CommitGoes
<1>5. QED
    BY <1>1, <1>2, <1>3, <1>4, CommitKeeps

LEMMA SummaryLands ==
    ASSUME NEW row \in Transcript
    PROVE  /\ [row EXCEPT !.summary = TRUE] \in Transcript
           /\ [row EXCEPT !.summary = TRUE].job = row.job
           /\ [row EXCEPT !.summary = TRUE].content = row.content
           /\ [row EXCEPT !.summary = TRUE].key = row.key
           /\ [row EXCEPT !.summary = TRUE].error = row.error
BY DEF Transcript

LEMMA CompleteKeeps ==
    ASSUME IInv, NEW w \in Worker, Complete(w)
    PROVE  IInv'
<1> DEFINE t == worker[w].tr
           row == IF worker[w].at = "summarize" THEN [trs[t] EXCEPT !.summary = TRUE] ELSE trs[t]
           loaded == IF worker[w].at = "summarize" THEN trs[t].error # "none" ELSE worker[w].error
<1>1. /\ Runs(w) /\ worker[w].at \in {"text", "summarize"} /\ worker[w].at \in HasTr
      /\ "finish" \in JobPc /\ "archive" \in JobPc /\ "archive" # "finish"
    BY DEF Complete, Runs, JobPc, HasTr
<1>2. /\ trs[t] \in Transcript /\ worker[w] \in WorkerState /\ worker \in [Worker -> WorkerState]
      /\ worker[w].job \in JobId
    BY <1>1, ThreadFacts DEF ThreadInv
<1>3. /\ row \in Transcript /\ row.job = trs[t].job /\ row.content = trs[t].content
      /\ row.key = trs[t].key /\ row.error = trs[t].error
    BY <1>2, SummaryLands
<1>4. \/ /\ ~worker[w].file
         /\ Commit(w, "done", row, FALSE) /\ worker' = [worker EXCEPT ![w] = Idle]
      \/ /\ worker[w].file /\ TrExists(t)
         /\ \E error \in {"retry"} \cup (IF loaded THEN {row.error} ELSE {}) :
                Commit(w, jobs[worker[w].job].status, [row EXCEPT !.error = error],
                       row.key \/ error # "retry")
         /\ Goto(w, "finish")
      \/ /\ worker[w].file
         /\ Commit(w, "archiving", row, FALSE)
         /\ worker' = [worker EXCEPT ![w] =
                [@ EXCEPT !.at = "archive", !.takes = FALSE, !.error = loaded]]
    BY DEF Complete
<1> HIDE DEF row
<1>5. CASE /\ ~worker[w].file /\ Commit(w, "done", row, FALSE)
           /\ worker' = [worker EXCEPT ![w] = Idle]
    <2>1. Idle \in WorkerState /\ Idle.at \notin JobPc /\ WorkerInv(w)'
        BY <1>5, LeavesKeeps DEF Leaves
    <2>2. QED
        BY <1>1, <1>3, <1>5, <2>1, CommitKeeps
<1>6. ASSUME worker[w].file, TrExists(t), Goto(w, "finish"), NEW error \in {"retry", row.error},
             Commit(w, jobs[worker[w].job].status, [row EXCEPT !.error = error],
                    row.key \/ error # "retry")
      PROVE  IInv'
    <2> DEFINE new == [row EXCEPT !.error = error]
               s == Gone(w, "finish")
               useless == row.key \/ error # "retry"
    <2>1. /\ s \in WorkerState /\ s.at = "finish" /\ s.takes = FALSE /\ s.job = worker[w].job
          /\ s.file = worker[w].file /\ s.todo = worker[w].todo /\ s.tr = worker[w].tr
          /\ worker' = [worker EXCEPT ![w] = s] /\ worker'[w] = s
        BY <1>1, <1>6, GotoIs
    <2>2. error \in {"none", "retry", "permanent"}
        BY <1>3, <1>6 DEF Transcript
    <2>3. /\ new \in Transcript /\ new.job = trs[t].job /\ new.content = trs[t].content
          /\ new.key = trs[t].key /\ new.error = error
        BY <1>3, <2>2, ErrorTyped
    <2>4. useless \in BOOLEAN
        OBVIOUS
    <2>5. Commit(w, jobs[worker[w].job].status, new, useless)
        BY <1>6
    <2>6. useless \/ (~new.key /\ new.error = "retry" /\ TrExists(worker[w].tr))
        BY <1>3, <1>6, <2>3
    <2>7. new.error = trs[t].error \/ new.error = "retry"
        BY <1>3, <1>6, <2>3
    <2> HIDE DEF new, s, useless
    <2>8. WorkerInv(w)'
        BY <1>1, <2>1, <2>3, <2>4, <2>5, <2>6, CommitGoes
    <2>9. QED
        BY <1>1, <2>1, <2>3, <2>4, <2>5, <2>7, <2>8, CommitKeeps
<1>7. CASE /\ worker[w].file /\ Commit(w, "archiving", row, FALSE)
           /\ worker' = [worker EXCEPT ![w] =
                [@ EXCEPT !.at = "archive", !.takes = FALSE, !.error = loaded]]
    <2> DEFINE s == [worker[w] EXCEPT !.at = "archive", !.takes = FALSE, !.error = loaded]
    <2>1. loaded \in BOOLEAN
        BY <1>2 DEF WorkerState
    <2> HIDE DEF loaded
    <2>2. /\ s \in WorkerState /\ s.at = "archive" /\ s.takes = FALSE /\ s.job = worker[w].job
          /\ s.file = worker[w].file /\ s.todo = worker[w].todo /\ s.tr = worker[w].tr
        BY <1>1, <1>2, <2>1 DEF WorkerState
    <2>3. worker' = [worker EXCEPT ![w] = s] /\ worker'[w] = s
        BY <1>2, <1>7
    <2> HIDE DEF s
    <2>4. WorkerInv(w)'
        BY <1>1, <1>3, <1>7, <2>2, <2>3, CommitGoes
    <2>5. QED
        BY <1>1, <1>3, <1>7, <2>2, <2>3, <2>4, CommitKeeps
<1>8. QED
    BY <1>4, <1>5, <1>6, <1>7

LEMMA ArchiveFailsKeeps ==
    ASSUME IInv, NEW w \in Worker, ArchiveFails(w)
    PROVE  IInv'
<1> DEFINE s == Gone(w, "finish")
<1>1. /\ Runs(w) /\ worker[w].at = "archive" /\ "finish" \in JobPc /\ Goto(w, "finish")
      /\ UNCHANGED <<jobs, source, configured, upload, bounds, bereft>>
    BY DEF ArchiveFails, Runs, JobPc
<1>2. /\ s \in WorkerState /\ s.at = "finish" /\ s.takes = FALSE /\ s.job = worker[w].job
      /\ s.file = worker[w].file /\ s.todo = worker[w].todo /\ s.tr = worker[w].tr
      /\ worker' = [worker EXCEPT ![w] = s] /\ worker'[w] = s
    BY <1>1, GotoIs
<1> HIDE DEF s
<1>3. PICK j \in JobId : /\ j = worker[w].job /\ Own(w) = {j} /\ worker[w].at # "stored"
                         /\ trs \in [TrId -> Transcript] /\ ThreadInv(w, j, worker[w].tr)
    BY <1>1, ThreadFacts
<1>4. PICK t \in TrId : t = worker[w].tr /\ trs[t] \in Transcript /\ TrExists(t)
    BY <1>1, <1>3 DEF ThreadInv, HasTr, ArchiveFails
<1>5. PICK error \in {trs[t].error, "retry"} :
        /\ trs' = [trs EXCEPT ![t] = [trs[t] EXCEPT !.error = error]]
        /\ error # "retry" => trs' = trs
    <2>1. CASE trs' = [trs EXCEPT ![t].error = "retry"]
        BY <1>3, <2>1
    <2>2. CASE trs' = trs
        <3>1. [trs[t] EXCEPT !.error = trs[t].error] = trs[t]
            BY <1>4 DEF Transcript
        <3>2. QED
            BY <1>3, <2>2, <3>1
    <2>3. QED
        BY <1>4, <2>1, <2>2 DEF ArchiveFails
<1> DEFINE row == [trs[t] EXCEPT !.error = error]
<1>6. /\ row \in Transcript /\ row.error = error /\ row.key = trs[t].key /\ row.job = trs[t].job
      /\ row.content = trs[t].content
    <2>1. error \in {"none", "retry", "permanent"}
        BY <1>4, <1>5 DEF Transcript
    <2>2. QED
        BY <1>4, <2>1, ErrorTyped
<1>7. trs' = [trs EXCEPT ![t] = row] /\ trs'[t] = row
    BY <1>3, <1>5
<1> HIDE DEF row
<1>8. /\ leaked \subseteq leaked' /\ leaked' \subseteq JobId /\ faults' \in 0 .. MaxFaults
      /\ source[j] => j \in leaked' \/ (~row.key /\ row.job = j /\ row.error = "retry")
    <2>1. Leaks(IF row.key \/ row.job # j \/ row.error # "retry" THEN {j} ELSE {})
        BY <1>3, <1>4, <1>7 DEF ArchiveFails
    <2>2. QED
        BY <1>1, <2>1, LeaksMore DEF Leaks, IInv, Typed, bounds
<1>9. /\ \A u \in TrId \ {t} : trs'[u] = trs[u]
      /\ \A u \in TrId : trs'[u].job = trs[u].job /\ trs'[u].content = trs[u].content
      /\ \A u \in TrId : trs'[u].key = trs[u].key
    BY <1>3, <1>6, <1>7
<1>10. Waiting(t) => Waiting(t)'
    BY <1>5, <1>6, <1>7 DEF Waiting, TrExists
<1>11. source[j] => Needed(j)'
    BY <1>4, <1>6, <1>7, <1>8 DEF Needed, Waiting, TrExists
<1>12. WorkerInv(w)'
    <2>1. KeepsRows
        BY <1>9 DEF KeepsRows, TrExists
    <2>2. SweepInv(w)'
        BY <1>1, <1>2, <2>1, ThreadSweepInv
    <2>3. worker'[w].job = j /\ worker'[w].tr = t
        BY <1>2, <1>3, <1>4
    <2>4. ThreadInv(w, worker[w].job, worker[w].tr)'
        BY <1>1, <1>2, <1>3, <1>4, <1>9, <1>11, <2>3 DEF ThreadInv, HasTr
    <2>5. QED
        BY <2>2, <2>4 DEF WorkerInv
<1>13. QED
    BY <1>1, <1>2, <1>3, <1>4, <1>6, <1>7, <1>8, <1>10, <1>12, RowAlone

LEMMA ArchiveSucceedsKeeps ==
    ASSUME IInv, NEW w \in Worker, ArchiveSucceeds(w)
    PROVE  IInv'
<1> DEFINE s == Gone(w, "copied")
<1>1. /\ Runs(w) /\ worker[w].at = "archive" /\ "copied" \in JobPc /\ Goto(w, "copied")
      /\ UNCHANGED <<jobs, source, configured, upload, bounds, bereft>>
    BY DEF ArchiveSucceeds, Runs, JobPc
<1>2. /\ s \in WorkerState /\ s.at = "copied" /\ s.takes = FALSE /\ s.job = worker[w].job
      /\ s.file = worker[w].file /\ s.todo = worker[w].todo /\ s.tr = worker[w].tr
      /\ worker' = [worker EXCEPT ![w] = s] /\ worker'[w] = s
    BY <1>1, GotoIs
<1> HIDE DEF s
<1>3. PICK j \in JobId : /\ j = worker[w].job /\ Own(w) = {j} /\ worker[w].at # "stored"
                         /\ trs \in [TrId -> Transcript] /\ ThreadInv(w, j, worker[w].tr)
    BY <1>1, ThreadFacts
<1>4. PICK t \in TrId : t = worker[w].tr /\ trs[t] \in Transcript /\ TrExists(t)
    BY <1>1, <1>3 DEF ThreadInv, HasTr, ArchiveSucceeds
<1> DEFINE error == IF worker[w].error THEN "none" ELSE trs[t].error
           row == [trs[t] EXCEPT !.key = TRUE, !.error = error]
<1>5. error \in {"none", "retry", "permanent"}
    BY <1>4 DEF Transcript
<1>6. trs' = [trs EXCEPT ![t] = row] /\ trs'[t] = row
    BY <1>3, <1>4 DEF ArchiveSucceeds
<1> HIDE DEF error
<1>7. /\ row \in Transcript /\ row.key = TRUE /\ row.job = trs[t].job /\ row.content = trs[t].content
    BY <1>4, <1>5, CopyTyped
<1> HIDE DEF row
<1>8. /\ leaked \subseteq leaked' /\ leaked' \subseteq JobId /\ faults' \in 0 .. MaxFaults
      /\ source[trs[t].job] => trs[t].job \in leaked' \/ trs[t].job = j
    <2>1. Leaks({trs[t].job} \ {j})
        BY <1>3, <1>4 DEF ArchiveSucceeds
    <2>2. trs[t].job \in JobId
        BY <1>4 DEF TrExists, Transcript
    <2>3. QED
        BY <1>1, <2>1, <2>2, LeaksMore DEF Leaks, IInv, Typed, bounds
<1>9. /\ \A u \in TrId \ {t} : trs'[u] = trs[u]
      /\ \A u \in TrId : trs'[u].job = trs[u].job /\ trs'[u].content = trs[u].content
      /\ \A u \in TrId : trs[u].key => trs'[u].key
    BY <1>3, <1>6, <1>7
<1>10. WorkerInv(w)'
    <2>1. KeepsRows
        BY <1>9 DEF KeepsRows, TrExists
    <2>2. SweepInv(w)'
        BY <1>1, <1>2, <2>1, ThreadSweepInv
    <2>3. worker'[w].job = j /\ worker'[w].tr = t
        BY <1>2, <1>3, <1>4
    <2>4. ThreadInv(w, worker[w].job, worker[w].tr)'
        BY <1>1, <1>2, <1>3, <1>4, <1>6, <1>7, <1>9, <2>3 DEF ThreadInv, HasTr
    <2>5. QED
        BY <2>2, <2>4 DEF WorkerInv
<1>11. QED
    BY <1>1, <1>2, <1>3, <1>4, <1>6, <1>7, <1>8, <1>10, RowAlone

\* A step of the thread that runs a job keeps the invariant.
LEMMA ProcessKeeps ==
    ASSUME IInv, NEW w \in Worker, Process(w)
    PROVE  IInv'
BY ClaimKeeps, FindPartialKeeps, StartTranscribingKeeps, SaveTranscriptKeeps,
   StartSummarizingKeeps, CompleteKeeps, ArchiveFailsKeeps, ArchiveSucceedsKeeps,
   RemoveSourceKeeps, FinishKeeps DEF Process

LEMMA FailsKeeps ==
    ASSUME IInv, NEW w \in Worker, Fails(w) \/ Outage(w)
    PROVE  IInv'
BY HandleExceptionKeeps, DiscardKeeps, HandlerTripsKeeps, HandlerFailsKeeps, SweepBreaksKeeps
DEF Fails, Outage

--------------------------------------------------------------------------------
(* Requests *)

\* A request keeps the invariant when it keeps the tables and what all the workers rely on.
LEMMA RequestKeeps ==
    ASSUME IInv, worker' = worker, Typed', Numbered', Tables', CopyOrSource', Keeps({})
    PROVE  IInv'
<1>1. \A x \in Worker : WorkerInv(x)'
    BY OthersKeep DEF IInv
<1>2. OneThread'
    BY DEF IInv, OneThread, Runs
<1>3. SourcesAreNeeded'
    BY DEF IInv, SourcesAreNeeded, Busy, Needed, Keeps, KeepsBusy, KeepsNeeded
<1>4. QED
    BY <1>1, <1>2, <1>3 DEF IInv

\* Nothing that the workers look at changes, except for the jobs of nobody.
LEMMA JobsKept ==
    ASSUME Typed, UNCHANGED <<trs, worker>>, bereft \subseteq bereft', leaked \subseteq leaked',
           \A j \in JobId : Taken(j) /\ Held(j) =>
                Taken(j)' /\ (Exists(j)' => Exists(j)) /\ source'[j] = source[j],
           \A j \in JobId : source'[j] /\ (source[j] => Busy(j)) => Busy(j)' \/ j \in leaked'
    PROVE  Keeps({})
<1>1. KeepsJobs({}) /\ KeepsRows /\ KeepsGhosts
    BY DEF KeepsJobs, KeepsRows, KeepsGhosts, TrExists
<1>2. KeepsNeeded({})
    BY DEF KeepsNeeded, Needed, Waiting, TrExists
<1>3. KeepsBusy
    BY DEF KeepsBusy, Needed
<1>4. QED
    BY <1>1, <1>2, <1>3 DEF Keeps

LEMMA StageKeeps ==
    ASSUME IInv, NEW c \in Content, Stage(c)
    PROVE  IInv'
<1>1. /\ upload.content = Nothing /\ upload' = [content |-> c, job |-> 0] /\ upload.job = 0
      /\ UNCHANGED <<jobs, trs, source, configured, worker, bounds, bereft, leaked>>
    BY DEF Stage, IInv, Tables
<1>2. Typed'
    BY <1>1 DEF IInv, Typed, bounds
<1>3. Numbered'
    BY <1>1, NumbersKept DEF IInv
<1>4. Tables' /\ CopyOrSource'
    BY <1>1 DEF IInv, Tables, CopyOrSource, Exists, TrExists
<1>5. Keeps({})
    BY <1>1, JobsKept DEF IInv, Taken, Exists, Busy, Held, Runs
<1>6. QED
    BY <1>1, <1>2, <1>3, <1>4, <1>5, RequestKeeps

LEMMA PromoteKeeps ==
    ASSUME IInv, Promote
    PROVE  IInv'
<1>1. PICK j \in NewJob : /\ jobs' = [jobs EXCEPT ![j].status = "deleted"]
                          /\ source' = [source EXCEPT ![j] = TRUE]
                          /\ upload' = [upload EXCEPT !.job = j]
    BY DEF Promote
<1>2. /\ upload.content # Nothing /\ upload.job = 0
      /\ UNCHANGED <<trs, configured, worker, bounds, bereft, leaked>>
      /\ j \in JobId /\ jobs[j].status = "unborn"
    BY DEF Promote, NewJob, Fresh, UsedJobs
<1>3. /\ jobs \in [JobId -> Job] /\ source \in [JobId -> BOOLEAN]
      /\ upload \in [content : Content \cup {Nothing}, job : JobId \cup {0}]
    BY DEF IInv, Typed
<1>4. /\ jobs' \in [JobId -> Job] /\ jobs'[j].status = "deleted"
      /\ \A i \in JobId \ {j} : jobs'[i] = jobs[i]
    BY <1>1, <1>2, <1>3 DEF Job
<1>5. source' \in [JobId -> BOOLEAN] /\ source'[j] /\ \A i \in JobId \ {j} : source'[i] = source[i]
    BY <1>1, <1>2, <1>3
<1>6. /\ upload' \in [content : Content \cup {Nothing}, job : JobId \cup {0}]
      /\ upload'.job = j /\ upload'.content = upload.content
    BY <1>1, <1>2, <1>3
<1>7. \A i \in JobId : Exists(i)' <=> Exists(i)
    BY <1>2, <1>4 DEF Exists
<1>8. \A t \in TrId : TrExists(t) => trs[t].job \in JobId
    BY DEF IInv, Typed, TrExists, Transcript
<1>9. Typed'
    BY <1>2, <1>4, <1>5, <1>6 DEF IInv, Typed, bounds
<1>10. Numbered'
    <2>1. UsedJobs' = UsedJobs \cup {j}
        BY <1>2, <1>4 DEF UsedJobs
    <2>2. MaxJobs \in Nat /\ UsedJobs \in SUBSET (1 .. MaxJobs)
        BY ArchiveAssumption DEF UsedJobs, JobId
    <2>3. UsedJobs = 1 .. Cardinality(UsedJobs) /\ j \in Fresh(1 .. MaxJobs, UsedJobs)
        BY DEF NewJob, JobId, IInv, Numbered
    <2>4. UsedJobs \cup {j} = 1 .. Cardinality(UsedJobs \cup {j})
        BY <2>2, <2>3, FreshIsNext
    <2>5. UsedTrs' = UsedTrs
        BY <1>2 DEF UsedTrs
    <2>6. QED
        BY <2>1, <2>4, <2>5 DEF IInv, Numbered
<1>11. Tables'
    <2>1. \A i \in JobId : Exists(i)' => jobs'[i].content \in Content
        BY <1>4, <1>7 DEF IInv, Tables, Exists
    <2>2. \A t \in TrId : TrExists(t) => jobs'[trs[t].job].status \notin {"unborn", "deleted"}
        BY <1>7, <1>8 DEF IInv, Tables, Exists
    <2>3. QED
        BY <1>2, <1>4, <1>6, <2>1, <2>2 DEF IInv, Tables, TrExists, Exists
<1>12. CopyOrSource'
    BY <1>2, <1>5, <1>8 DEF IInv, CopyOrSource, TrExists
<1>13. \A i \in JobId : source'[i] /\ (source[i] => Busy(i)) => Busy(i)'
    BY <1>2, <1>4, <1>5, <1>6 DEF Busy, Held, Runs, JobId
<1>14. \A i \in JobId : Taken(i) => Taken(i)' /\ (Exists(i)' => Exists(i)) /\ source'[i] = source[i]
    BY <1>2, <1>4, <1>5, <1>6, <1>7 DEF Taken
<1>15. Keeps({})
    BY <1>2, <1>13, <1>14, JobsKept DEF IInv
<1>16. QED
    BY <1>2, <1>9, <1>10, <1>11, <1>12, <1>15, RequestKeeps

LEMMA AcceptKeeps ==
    ASSUME IInv, Accept
    PROVE  IInv'
<1>1. PICK summarize \in BOOLEAN :
        jobs' = [jobs EXCEPT ![upload.job] =
            [status |-> "queued", content |-> upload.content, summarize |-> summarize]]
    BY DEF Accept
<1>2. PICK j \in JobId : j = upload.job
    BY DEF Accept, IInv, Typed
<1>3. /\ upload' = [content |-> Nothing, job |-> 0] /\ jobs \in [JobId -> Job]
      /\ UNCHANGED <<trs, source, configured, worker, bounds, bereft, leaked>>
      /\ upload.content \in Content /\ jobs[j].status = "deleted"
    BY <1>2 DEF Accept, IInv, Typed, Tables, JobId
<1>4. /\ jobs' \in [JobId -> Job] /\ jobs'[j].status = "queued" /\ jobs'[j].content = upload.content
      /\ \A i \in JobId \ {j} : jobs'[i] = jobs[i]
    BY <1>1, <1>2, <1>3 DEF Job, Active
<1>5. Typed'
    BY <1>3, <1>4 DEF IInv, Typed, bounds
<1>6. Numbered'
    BY <1>3, <1>4, NumbersKept DEF IInv
<1>7. \A t \in TrId : TrExists(t) => trs[t].job \in JobId \ {j}
    BY <1>3 DEF IInv, Typed, Tables, Exists, TrExists, Transcript
<1>8. Tables' /\ CopyOrSource'
    BY <1>3, <1>4, <1>7 DEF IInv, Tables, CopyOrSource, Exists, TrExists
<1>9. \A i \in JobId : source'[i] /\ (source[i] => Busy(i)) => Busy(i)'
    BY <1>2, <1>3, <1>4 DEF Busy, Active, Held, Runs
<1>10. \A i \in JobId : Taken(i) => Taken(i)' /\ (Exists(i)' => Exists(i)) /\ source'[i] = source[i]
    BY <1>2, <1>3, <1>4 DEF Taken, Exists, JobId
<1>11. Keeps({})
    BY <1>3, <1>9, <1>10, JobsKept DEF IInv
<1>12. QED
    BY <1>3, <1>5, <1>6, <1>8, <1>11, RequestKeeps

LEMMA RejectKeeps ==
    ASSUME IInv, Reject
    PROVE  IInv'
<1>1. PICK j \in JobId : j = upload.job
    BY DEF Reject, IInv, Typed
<1>2. /\ upload' = [content |-> Nothing, job |-> 0] /\ source \in [JobId -> BOOLEAN]
      /\ source' = [source EXCEPT ![j] = FALSE] /\ jobs[j].status = "deleted"
      /\ UNCHANGED <<jobs, trs, configured, worker, bounds, bereft, leaked>>
    BY <1>1 DEF Reject, Withdrawn, IInv, Typed, Tables, JobId
<1>3. source' \in [JobId -> BOOLEAN] /\ ~source'[j] /\ \A i \in JobId \ {j} : source'[i] = source[i]
    BY <1>2
<1>4. Typed'
    BY <1>2, <1>3 DEF IInv, Typed, bounds
<1>5. Numbered'
    BY <1>2, NumbersKept DEF IInv
<1>6. \A t \in TrId : TrExists(t) => trs[t].job \in JobId \ {j}
    BY <1>2 DEF IInv, Typed, Tables, Exists, TrExists, Transcript
<1>7. Tables' /\ CopyOrSource'
    BY <1>2, <1>3, <1>6 DEF IInv, Tables, CopyOrSource, Exists, TrExists
<1>8. \A i \in JobId : source'[i] /\ (source[i] => Busy(i)) => Busy(i)'
    BY <1>1, <1>2, <1>3 DEF Busy, Held, Runs
<1>9. \A i \in JobId : Taken(i) => Taken(i)' /\ (Exists(i)' => Exists(i)) /\ source'[i] = source[i]
    BY <1>1, <1>2, <1>3 DEF Taken, Exists, JobId
<1>10. Keeps({})
    BY <1>2, <1>8, <1>9, JobsKept DEF IInv
<1>11. QED
    BY <1>2, <1>4, <1>5, <1>7, <1>10, RequestKeeps

LEMMA CancelKeeps ==
    ASSUME IInv, NEW j \in JobId, Cancel(j)
    PROVE  IInv'
<1>1. /\ jobs[j].status \in Active \cup {"archiving"} /\ jobs \in [JobId -> Job]
      /\ jobs' = [jobs EXCEPT ![j].status = "failed"] /\ Leaks(IF Held(j) THEN {} ELSE {j})
      /\ UNCHANGED <<trs, source, configured, upload, worker, faults, bereft>>
    BY DEF Cancel, IInv, Typed
<1>2. orders' \in 0 .. MaxOrders
    BY ArchiveAssumption DEF Cancel, Orders, IInv, Typed
<1>3. /\ jobs' \in [JobId -> Job] /\ jobs'[j].status = "failed" /\ jobs'[j].content = jobs[j].content
      /\ \A i \in JobId \ {j} : jobs'[i] = jobs[i]
    BY <1>1 DEF Job
<1>4. leaked \subseteq leaked' /\ leaked' \subseteq JobId
    BY <1>1, LeaksMore
<1>5. \A i \in JobId : /\ Exists(i)' <=> Exists(i)
                       /\ jobs'[i].status = "unborn" <=> jobs[i].status = "unborn"
    BY <1>1, <1>3 DEF Exists, Active
<1>6. Typed'
    BY <1>1, <1>2, <1>3, <1>4 DEF IInv, Typed
<1>7. Numbered'
    BY <1>1, <1>5, NumbersKept DEF IInv
<1>8. \A t \in TrId : TrExists(t) => trs[t].job \in JobId
    BY DEF IInv, Typed, TrExists, Transcript
<1>9. Tables' /\ CopyOrSource'
    <2>1. upload.job \in JobId \cup {0} /\ upload.job # j
        BY <1>1 DEF IInv, Typed, Tables, Active, JobId
    <2>2. Tables'
        BY <1>1, <1>3, <1>5, <1>8, <2>1 DEF IInv, Tables, TrExists
    <2>3. CopyOrSource'
        BY <1>1 DEF IInv, CopyOrSource, TrExists
    <2>4. QED
        BY <2>2, <2>3
<1>10. \A i \in JobId : source'[i] /\ (source[i] => Busy(i)) => Busy(i)' \/ i \in leaked'
    BY <1>1, <1>3 DEF Busy, Held, Runs, Leaks
<1>11. \A i \in JobId : Taken(i) => Taken(i)' /\ (Exists(i)' => Exists(i)) /\ source'[i] = source[i]
    BY <1>1, <1>3, <1>5 DEF Taken
<1>12. Keeps({})
    BY <1>1, <1>4, <1>10, <1>11, JobsKept DEF IInv
<1>13. QED
    BY <1>1, <1>6, <1>7, <1>9, <1>12, RequestKeeps

LEMMA RetryKeeps ==
    ASSUME IInv, NEW j \in JobId, Retry(j)
    PROVE  IInv'
<1>1. PICK i \in NewJob : jobs' = [jobs EXCEPT ![i] =
            [status |-> "queued", content |-> jobs[j].content, summarize |-> TRUE]]
    BY DEF Retry
<1>2. /\ UNCHANGED <<trs, source, configured, upload, worker, faults, bereft, leaked>>
      /\ i \in JobId /\ jobs[i].status = "unborn" /\ jobs \in [JobId -> Job]
      /\ jobs[j].content \in Content
    BY DEF Retry, NewJob, Fresh, UsedJobs, IInv, Typed, Tables, Exists
<1>3. orders' \in 0 .. MaxOrders
    BY ArchiveAssumption DEF Retry, Orders, IInv, Typed
<1>4. /\ jobs' \in [JobId -> Job] /\ jobs'[i].status = "queued" /\ jobs'[i].content = jobs[j].content
      /\ \A k \in JobId \ {i} : jobs'[k] = jobs[k]
    BY <1>1, <1>2 DEF Job, Active
<1>5. Typed'
    BY <1>2, <1>3, <1>4 DEF IInv, Typed
<1>6. Numbered'
    <2>1. UsedJobs' = UsedJobs \cup {i}
        BY <1>2, <1>4 DEF UsedJobs
    <2>2. MaxJobs \in Nat /\ UsedJobs \in SUBSET (1 .. MaxJobs)
        BY ArchiveAssumption DEF UsedJobs, JobId
    <2>3. UsedJobs = 1 .. Cardinality(UsedJobs) /\ i \in Fresh(1 .. MaxJobs, UsedJobs)
        BY DEF NewJob, JobId, IInv, Numbered
    <2>4. UsedJobs \cup {i} = 1 .. Cardinality(UsedJobs \cup {i})
        BY <2>2, <2>3, FreshIsNext
    <2>5. UsedTrs' = UsedTrs
        BY <1>2 DEF UsedTrs
    <2>6. QED
        BY <2>1, <2>4, <2>5 DEF IInv, Numbered
<1>7. \A t \in TrId : TrExists(t) => trs[t].job \in JobId \ {i}
    BY <1>2 DEF IInv, Typed, Tables, Exists, TrExists, Transcript
<1>8. Tables' /\ CopyOrSource'
    <2>1. upload.job \in JobId \cup {0} /\ upload.job # i
        BY <1>2 DEF IInv, Typed, Tables, JobId
    <2>2. QED
        BY <1>2, <1>4, <1>7, <2>1 DEF IInv, Tables, CopyOrSource, Exists, TrExists
<1>9. \A k \in JobId : source'[k] /\ (source[k] => Busy(k)) => Busy(k)'
    BY <1>2, <1>4 DEF Busy, Active, Held, Runs
<1>10. \A k \in JobId : Taken(k) => Taken(k)' /\ (Exists(k)' => Exists(k)) /\ source'[k] = source[k]
    BY <1>2, <1>4 DEF Taken, Exists
<1>11. Keeps({})
    BY <1>2, <1>9, <1>10, JobsKept DEF IInv
<1>12. QED
    BY <1>2, <1>5, <1>6, <1>8, <1>11, RequestKeeps

\* A deleted transcript keeps its number.
LEMMA DeletedRow ==
    ASSUME NEW c \in Content \cup {Nothing}
    PROVE  LET row == [NoTranscript EXCEPT !.content = c]
           IN  row \in Transcript /\ row.job = 0 /\ row.content = c
BY DEF NoTranscript, Transcript

LEMMA DeleteKeeps ==
    ASSUME IInv, NEW j \in JobId, Delete(j)
    PROVE  IInv'
<1>1. /\ jobs[j].status \in {"done", "failed", "archiving"} /\ jobs \in [JobId -> Job]
      /\ jobs' = [jobs EXCEPT ![j].status = "deleted"] /\ Leaks(IF Held(j) THEN {} ELSE {j})
      /\ trs' = [t \in TrId |-> IF trs[t].job = j
                                THEN [NoTranscript EXCEPT !.content = trs[t].content] ELSE trs[t]]
      /\ UNCHANGED <<source, configured, upload, worker, faults, bereft>>
      /\ trs \in [TrId -> Transcript] /\ j # 0
    BY DEF Delete, IInv, Typed, JobId
<1>2. orders' \in 0 .. MaxOrders
    BY ArchiveAssumption DEF Delete, Orders, IInv, Typed
<1>3. /\ jobs' \in [JobId -> Job] /\ jobs'[j].status = "deleted"
      /\ \A i \in JobId \ {j} : jobs'[i] = jobs[i]
    BY <1>1 DEF Job
<1>4. \A t \in TrId : trs[t].content \in Content \cup {Nothing}
    BY <1>1 DEF Transcript
<1>5. \A t \in TrId : /\ trs[t].job = j => trs'[t].job = 0 /\ trs'[t] \in Transcript
                      /\ trs[t].job # j => trs'[t] = trs[t]
                      /\ trs'[t].content = trs[t].content
    BY <1>1, <1>4, DeletedRow
<1>6. trs' \in [TrId -> Transcript]
    BY <1>1, <1>5
<1>7. leaked \subseteq leaked' /\ leaked' \subseteq JobId
    BY <1>1, LeaksMore
<1>8. \A i \in JobId : jobs'[i].status = "unborn" <=> jobs[i].status = "unborn"
    BY <1>1, <1>3
<1>9. \A i \in JobId : /\ Exists(i)' <=> Exists(i) /\ i # j
                       /\ Exists(i)' => jobs'[i] = jobs[i]
    BY <1>1, <1>3 DEF Exists
<1>10. Typed'
    BY <1>1, <1>2, <1>3, <1>6, <1>7 DEF IInv, Typed
<1>11. Numbered'
    BY <1>5, <1>8, NumbersKept DEF IInv
<1>12. \A t \in TrId : TrExists(t) => trs[t].job \in JobId
    BY DEF IInv, Typed, TrExists, Transcript
<1>13. \A t \in TrId : TrExists(t)' => TrExists(t) /\ trs[t].job # j /\ trs'[t] = trs[t]
    BY <1>1, <1>5 DEF TrExists
<1>14. Tables'
    <2>1. upload.job \in JobId \cup {0} /\ (upload.job # 0 => jobs'[upload.job].status = "deleted")
        BY <1>3 DEF IInv, Typed, Tables
    <2>2. \A t \in TrId : TrExists(t)' => Exists(trs[t].job)' /\ trs'[t].content # Nothing
        <3>1. ASSUME NEW t \in TrId, TrExists(t)'
              PROVE  trs'[t].job \in JobId /\ trs'[t].job # j /\ Exists(trs[t].job)
                     /\ trs'[t].content # Nothing
            BY <1>12, <1>13, <3>1 DEF IInv, Tables
        <3>2. QED
            BY <1>9, <1>13, <3>1 DEF Exists
    <2>3. \A t, u \in TrId : TrExists(t)' /\ trs'[t].job = trs'[u].job => t = u
        <3>1. SUFFICES ASSUME NEW t \in TrId, NEW u \in TrId, TrExists(t)', trs'[t].job = trs'[u].job
                       PROVE  t = u
            OBVIOUS
        <3>2. TrExists(u)'
            BY <3>1 DEF TrExists
        <3>3. QED
            BY <1>13, <3>1, <3>2 DEF IInv, Tables
    <2>4. \A i \in JobId : Exists(i)' => jobs'[i].content \in Content
        BY <1>9 DEF IInv, Tables
    <2>5. QED
        BY <1>1, <2>1, <2>2, <2>3, <2>4 DEF IInv, Tables
<1>15. CopyOrSource'
    BY <1>1, <1>13 DEF IInv, CopyOrSource
<1>16. KeepsNeeded({})
    <2>1. SUFFICES ASSUME NEW i \in JobId, Needed(i), source[i]
                   PROVE  Needed(i)' \/ (Held(i)' /\ ~Exists(i)')
        BY <1>1 DEF KeepsNeeded
    <2>2. CASE i # j
        <3>1. \A t \in TrId : Waiting(t) /\ trs[t].job = i => Waiting(t)' /\ trs'[t].job = i
            BY <1>5, <2>2 DEF Waiting, TrExists
        <3>2. QED
            BY <1>1, <1>7, <2>1, <3>1 DEF Needed
    <2>3. CASE i = j
        BY <1>1, <1>9, <2>1, <2>3 DEF Needed, Leaks, Held, Runs
    <2>4. QED
        BY <2>2, <2>3
<1>17. KeepsBusy
    BY <1>1, <1>3 DEF KeepsBusy, Busy, Held, Runs, Leaks, Needed
<1>18. KeepsRows /\ KeepsGhosts
    BY <1>1, <1>5, <1>7 DEF KeepsRows, KeepsGhosts, TrExists
<1>19. KeepsJobs({})
    <2>1. SUFFICES ASSUME NEW k \in JobId, Taken(k)
                   PROVE  /\ Taken(k)' /\ (Exists(k)' => Exists(k)) /\ source'[k] = source[k]
                          /\ \A t \in TrId : trs'[t].job = k => trs[t].job = k
                          /\ \A t \in TrId : trs[t].job = k /\ Exists(k)' => trs'[t].job = k
        BY DEF KeepsJobs
    <2>2. Taken(k)' /\ (Exists(k)' => Exists(k)) /\ source'[k] = source[k]
        BY <1>1, <1>3, <1>9, <2>1 DEF Taken
    <2>3. \A t \in TrId : trs'[t].job = k => trs[t].job = k
        BY <1>5, IdleTyped
    <2>4. \A t \in TrId : trs[t].job = k /\ Exists(k)' => trs'[t].job = k
        BY <1>5, <1>9
    <2>5. QED
        BY <2>2, <2>3, <2>4
<1>20. QED
    BY <1>1, <1>10, <1>11, <1>14, <1>15, <1>16, <1>17, <1>18, <1>19, RequestKeeps DEF Keeps

\* A request keeps the invariant.
LEMMA HandlerKeeps ==
    ASSUME IInv, Handler
    PROVE  IInv'
BY StageKeeps, PromoteKeeps, AcceptKeeps, RejectKeeps, CancelKeeps, RetryKeeps, DeleteKeeps
DEF Handler

--------------------------------------------------------------------------------
(* recover_interrupted_jobs *)

LEMMA RestartKeeps ==
    ASSUME IInv, Restart
    PROVE  IInv'
<1>1. /\ configured' \in BOOLEAN /\ worker' = [w \in Worker |-> Idle]
      /\ upload' = [content |-> Nothing, job |-> 0]
      /\ UNCHANGED <<source, orders, bereft>> /\ Leaks(Abandoned)
      /\ jobs \in [JobId -> Job] /\ trs \in [TrId -> Transcript] /\ source \in [JobId -> BOOLEAN]
    BY DEF Restart, IInv, Typed
<1>2. faults' \in 0 .. MaxFaults
    BY ArchiveAssumption DEF Restart, IInv, Typed
<1>3. \A j \in JobId :
        /\ jobs'[j] \in Job /\ jobs'[j].content = jobs[j].content
        /\ jobs'[j].status = IF \/ jobs[j].status = "midstage"
                                \/ jobs[j].status = "archiving" /\ OwnedBy(j) = {}
                             THEN "queued"
                             ELSE IF jobs[j].status = "archiving" THEN "done" ELSE jobs[j].status
    BY <1>1 DEF Restart, Job, Active
<1>4. jobs' \in [JobId -> Job]
    <2>1. jobs' = [j \in JobId |-> jobs'[j]]
        BY DEF Restart
    <2>2. QED
        BY <1>3, <2>1
<1>5. \A t \in TrId :
        /\ trs'[t] \in Transcript /\ trs'[t].job = trs[t].job /\ trs'[t].content = trs[t].content
        /\ trs'[t].key = trs[t].key
        /\ trs'[t].error = IF trs[t].job \in Interrupted THEN RecoveredError(trs[t].job)
                                                         ELSE trs[t].error
    BY <1>1 DEF Restart, Transcript, RecoveredError
<1>6. trs' \in [TrId -> Transcript]
    <2>1. trs' = [t \in TrId |-> trs'[t]]
        BY DEF Restart
    <2>2. QED
        BY <1>5, <2>1
<1>7. leaked \subseteq leaked' /\ leaked' \subseteq JobId
    BY <1>1, LeaksMore
<1>8. \A j \in JobId : /\ Exists(j)' <=> Exists(j)
                       /\ jobs'[j].status = "unborn" <=> jobs[j].status = "unborn"
    BY <1>3 DEF Exists
<1>9. \A w \in Worker : worker'[w] = Idle
    BY <1>1
<1>10. Typed'
    BY <1>1, <1>2, <1>4, <1>6, <1>7, IdleTyped DEF IInv, Typed
<1>11. Numbered'
    BY <1>5, <1>8, NumbersKept DEF IInv
<1>12. Tables'
    <2>1. \A j \in JobId : Exists(j)' => jobs'[j].content \in Content
        BY <1>3, <1>8 DEF IInv, Tables
    <2>2. \A t \in TrId : TrExists(t) => trs[t].job \in JobId
        BY DEF IInv, Typed, TrExists, Transcript
    <2>3. \A t \in TrId : TrExists(t)' => Exists(trs[t].job)' /\ trs'[t].content # Nothing
        <3>1. \A t \in TrId : TrExists(t)' => TrExists(t)
            BY <1>5 DEF TrExists
        <3>2. \A t \in TrId : TrExists(t) => jobs'[trs[t].job].status \notin {"unborn", "deleted"}
            BY <1>8, <2>2 DEF IInv, Tables, Exists
        <3>3. QED
            BY <1>5, <3>1, <3>2 DEF IInv, Tables, Exists
    <2>4. \A t, u \in TrId : TrExists(t)' /\ trs'[t].job = trs'[u].job => t = u
        BY <1>5 DEF IInv, Tables, TrExists
    <2>5. QED
        BY <1>1, <2>1, <2>3, <2>4 DEF Tables
<1>13. CopyOrSource'
    BY <1>1, <1>5 DEF IInv, CopyOrSource, TrExists
<1>14. OneThread' /\ \A w \in Worker : WorkerInv(w)'
    BY <1>9, IdleTyped DEF OneThread, WorkerInv, SweepInv, Runs, SweepPc
<1>15. SourcesAreNeeded'
    <2>1. SUFFICES ASSUME NEW j \in JobId, source[j], j \notin leaked'
                   PROVE  \/ jobs'[j].status \in Active \cup {"archiving"}
                          \/ \E t \in TrId : Waiting(t)' /\ trs'[t].job = j
        BY <1>1 DEF SourcesAreNeeded
    <2>2. j \notin Abandoned /\ j \notin leaked
        BY <1>1, <1>7, <2>1 DEF Leaks
    <2>3. CASE jobs[j].status \in Active
        BY <1>3, <2>3 DEF Active
    <2>4. CASE jobs[j].status = "archiving"
        <3>1. CASE OwnedBy(j) = {}
            BY <1>3, <2>4, <3>1 DEF Active
        <3>2. CASE OwnedBy(j) # {}
            <4>1. PICK t \in TrId : trs[t].job = j
                BY <3>2 DEF OwnedBy
            <4>2. ~trs[t].key
                BY <2>2, <2>4, <4>1 DEF Abandoned, Interrupted, OwnedBy
            <4>3. trs'[t].error = "retry"
                BY <1>5, <2>1, <2>4, <4>1 DEF Interrupted, RecoveredError
            <4>4. QED
                BY <1>5, <4>1, <4>2, <4>3, IdleTyped DEF Waiting, TrExists
        <3>3. QED
            BY <3>1, <3>2
    <2>5. CASE \E t \in TrId : Waiting(t) /\ trs[t].job = j
        <3>1. PICK t \in TrId : Waiting(t) /\ trs[t].job = j
            BY <2>5
        <3>2. trs'[t].error = "retry"
            BY <1>5, <2>1, <3>1 DEF Waiting, RecoveredError
        <3>3. QED
            BY <1>5, <3>1, <3>2 DEF Waiting, TrExists
    <2>6. j # upload.job /\ ~\E w \in Worker : worker[w].at = "stored" /\ Head(worker[w].todo).job = j
        BY <2>2 DEF Abandoned
    <2>7. Held(j) => jobs[j].status \in Active \cup {"archiving"}
        BY <2>2 DEF Abandoned
    <2>8. QED
        BY <2>1, <2>2, <2>3, <2>4, <2>5, <2>6, <2>7 DEF IInv, SourcesAreNeeded
<1>16. QED
    BY <1>10, <1>11, <1>12, <1>13, <1>14, <1>15 DEF IInv

--------------------------------------------------------------------------------
(* The theorems *)

LEMMA ArchiveInitHolds == ArchiveInit => IInv
<1>1. SUFFICES ASSUME ArchiveInit PROVE IInv
    OBVIOUS
<1>2. /\ jobs = [j \in JobId |-> NoJob] /\ trs = [t \in TrId |-> NoTranscript]
      /\ source = [j \in JobId |-> FALSE] /\ worker = [w \in Worker |-> Idle]
      /\ configured = TRUE /\ upload = [content |-> Nothing, job |-> 0]
      /\ faults = 0 /\ orders = 0 /\ bereft = {} /\ leaked = {}
    BY <1>1 DEF ArchiveInit
<1>3. Typed
    <2>1. NoJob \in Job /\ NoTranscript \in Transcript
        BY DEF NoJob, Job, NoTranscript, Transcript
    <2>2. faults \in 0 .. MaxFaults /\ orders \in 0 .. MaxOrders
        BY <1>2, ArchiveAssumption
    <2>3. upload \in [content : Content \cup {Nothing}, job : JobId \cup {0}]
        BY <1>2
    <2>4. QED
        BY <1>2, <2>1, <2>2, <2>3, IdleTyped DEF Typed
<1>4. Numbered
    <2>1. UsedJobs = {} /\ UsedTrs = {}
        BY <1>2 DEF UsedJobs, UsedTrs, NoJob, NoTranscript
    <2>2. QED
        BY <2>1, FS_EmptySet DEF Numbered
<1>5. Tables /\ CopyOrSource /\ SourcesAreNeeded
    BY <1>2 DEF Tables, CopyOrSource, SourcesAreNeeded, Exists, TrExists, NoJob, NoTranscript
<1>6. OneThread /\ \A w \in Worker : WorkerInv(w)
    BY <1>2, IdleTyped DEF OneThread, WorkerInv, SweepInv, Runs, SweepPc
<1>7. QED
    BY <1>3, <1>4, <1>5, <1>6 DEF IInv

LEMMA StutterKeeps ==
    ASSUME IInv, UNCHANGED vars
    PROVE  IInv'
<1>1. Typed' /\ Numbered'
    BY NumbersKept DEF vars, IInv, Typed
<1>2. Tables' /\ CopyOrSource'
    BY DEF vars, IInv, Tables, CopyOrSource, Exists, TrExists
<1>3. Keeps({})
    BY JobsKept DEF vars, IInv, Taken, Exists, Busy, Held, Runs
<1>4. QED
    BY <1>1, <1>2, <1>3, RequestKeeps DEF vars

\* The inductive invariant: what the tables, the directories and every thread say of each other.
THEOREM ArchiveInvariant == ArchiveSpec => []IInv
<1>1. IInv /\ [ArchiveNext]_vars => IInv'
    BY HandlerKeeps, RestartKeeps, SweepKeeps, ProcessKeeps, FailsKeeps, StutterKeeps DEF ArchiveNext
<1>2. QED
    BY ArchiveInitHolds, <1>1, PTL DEF ArchiveSpec

\* Every value stays in its domain, and the ids that are used are 1 to their number.
THEOREM ArchiveTypeCorrect == ArchiveSpec => []ArchiveTypeOK
<1>1. IInv => ArchiveTypeOK
    <2>1. SUFFICES ASSUME IInv PROVE ArchiveTypeOK
        OBVIOUS
    <2>2. \A w \in Worker : worker[w] \in WorkerState
        BY <2>1 DEF IInv, Typed
    <2>3. \A w \in Worker : \A i \in DOMAIN worker[w].todo : worker[w].todo[i] \in Row
        BY <2>2 DEF WorkerState
    <2>4. QED
        BY <2>1, <2>2, <2>3 DEF IInv, Typed, Numbered, ArchiveTypeOK, WorkerState
<1>2. QED
    BY ArchiveInvariant, <1>1, PTL

\* A transcript whose copy is still to be made has its source (loop.py keeps the file of a copy
\* that failed, retry_pending_archives and recover_interrupted_jobs look for it).
THEOREM PendingCopiesHaveSources == ArchiveSpec => []PendingHasSource
<1>1. IInv => PendingHasSource
    BY DEF IInv, CopyOrSource, PendingHasSource, Waiting
<1>2. QED
    BY ArchiveInvariant, <1>1, PTL

\* A file that stays in a job's directory has a use, or a named event has leaked it.
THEOREM SourcesHaveAUse == ArchiveSpec => []SourcesAreNeeded
<1>1. IInv => SourcesAreNeeded
    BY DEF IInv
<1>2. QED
    BY ArchiveInvariant, <1>1, PTL
================================================================================
