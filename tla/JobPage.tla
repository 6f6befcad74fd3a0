------------------------------- MODULE JobPage -------------------------------
(***************************************************************************)
(* The page of a job, #/jobs/<id>: the route, the effect of                *)
(* useScribeRuntime that loads and polls GET /jobs/<id>, the log stream    *)
(* that follows it, and the buttons whose answers are written over the     *)
(* polled job.                                                             *)
(*                                                                         *)
(* The jobs of the model are of one video.  Of the server only what it     *)
(* refuses, and what becomes of a job's status, is kept.                   *)
(***************************************************************************)
CONSTANTS
    Job, NoJob,
    Platform        \* is the page the desktop's JobDetail or MobileJobDetail

ASSUME JobPageAssumption == NoJob \notin Job /\ Platform \subseteq {"desktop", "mobile"}

VARIABLES
    platform,
    status,     \* the server's jobs
    route,      \* the job of the route, NoJob on another page
    shown,      \* is the tab shown
    current,    \* currentJob: loading, error, value; ghost "by": who wrote the value
    poll,       \* the effect: is its timer set, how far its request is
    act,        \* the button's request that actionAbortRef holds
    late        \* a retry nobody can abort any more

jobPageVars == <<platform, status, route, shown, current, poll, act, late>>

Live == {"active"}                     \* queued .. summarizing: isInFlight, _ACTIVE
Terminal == {"done", "failed"}
View == [id : Job, status : {"active", "archiving", "done", "failed"}]
NoView == [id |-> NoJob, status |-> "absent"]

\* An answer is a job, or no job: an error, one that is worth another try, a 204, or none yet.
NoBody == [id : {NoJob}, status : {"error", "transient", "empty", "absent"}]
Told(s) == [id |-> NoJob, status |-> s]
Request == [at : {"idle", "sent", "answered"}, id : Job \cup {NoJob}, answer : View \cup NoBody]
Idle == [at |-> "idle", id |-> NoJob, answer |-> NoView]
SentFor(j) == [at |-> "sent", id |-> j, answer |-> NoView]
Kind == {"refresh", "cancel", "retry", "delete"}
Action == [kind : Kind \cup {"none"}, id : Job \cup {NoJob},
           at : {"idle", "sent", "core"}, answer : View \cup {NoView}]
NoAction == [kind |-> "none", id |-> NoJob, at |-> "idle", answer |-> NoView]
Begun(k, j) == [kind |-> k, id |-> j, at |-> "sent", answer |-> NoView]
Blank == [loading |-> FALSE, error |-> FALSE, value |-> NoView, by |-> "poll"]

isInFlight(st) == st \in Live

JobPageInit ==
    /\ platform \in Platform
    /\ status \in [Job -> {"absent", "active", "failed"}]
    /\ route = NoJob /\ shown = TRUE
    /\ current = Blank /\ poll = [timer |-> FALSE, load |-> Idle]
    /\ act = NoAction /\ late = NoAction

--------------------------------------------------------------------------------
(* The log *)

\* The job whose log is streamed: the route's, once that is loaded without an error.  The
\* effect restarts, and empties the log, whenever this changes.
LogOf == IF route # NoJob /\ ~current.loading /\ ~current.error /\ current.value.id = route
         THEN route ELSE NoJob

--------------------------------------------------------------------------------
(* The effect of the job *)

\* A value is kept over a restart only if it is the route's.
Kept_Any(r) == current.value
Kept(r) == IF current.value.id = r THEN current.value ELSE NoView

\* Cleanup (stopped, abort, clearTimeout), then the new run's load(); hidden or not.
EffectRuns(r) ==
    IF r = NoJob
    THEN current' = Blank /\ poll' = [timer |-> FALSE, load |-> Idle]
    ELSE /\ current' = [current EXCEPT !.loading = TRUE, !.error = FALSE, !.value = Kept(r)]
         /\ poll' = [timer |-> FALSE, load |-> SentFor(r)]

LoadAnswers ==
    /\ poll.load.at = "sent"
    /\ \E a \in {Told("error"), Told("transient")} \cup
                (View \cap {[id |-> poll.load.id, status |-> status[poll.load.id]]}) :
          poll' = [poll EXCEPT !.load.at = "answered", !.load.answer = a]
    /\ UNCHANGED <<platform, status, route, shown, current, act, late>>

PollsOn(a) == a.status = "transient" \/ isInFlight(a.status)

LoadDelivers ==
    /\ poll.load.at = "answered"
    /\ LET a == poll.load.answer IN
       /\ current' = IF a.id # NoJob
                     THEN [loading |-> FALSE, error |-> FALSE, value |-> a, by |-> "poll"]
                     ELSE [current EXCEPT !.loading = FALSE, !.error = TRUE]
       /\ poll' = [timer |-> PollsOn(a) /\ shown, load |-> Idle]
    /\ UNCHANGED <<platform, status, route, shown, act, late>>

PollTimer ==
    /\ poll.timer /\ poll' = [timer |-> FALSE, load |-> SentFor(route)]
    /\ UNCHANGED <<platform, status, route, shown, current, act, late>>

\* Hidden clears the timer; a load under way goes on.  Shown loads, unless one is running.
TabHides ==
    /\ shown /\ shown' = FALSE /\ poll' = [poll EXCEPT !.timer = FALSE]
    /\ UNCHANGED <<platform, status, route, current, act, late>>
OnTabShown_Nothing == poll
OnTabShown ==
    IF route # NoJob /\ poll.load.at = "idle" THEN [poll EXCEPT !.load = SentFor(route)] ELSE poll
TabShows ==
    /\ ~shown /\ shown' = TRUE /\ poll' = OnTabShown
    /\ UNCHANGED <<platform, status, route, current, act, late>>

--------------------------------------------------------------------------------
(* Navigation *)

\* The handlers of routes.py: what each refuses, what it does and what it answers.
Refuses(a) ==
    \/ status[a.id] = "gone"
    \/ a.kind = "cancel" /\ status[a.id] \in Terminal
    \/ a.kind = "delete" /\ isInFlight(status[a.id])
    \/ a.kind = "retry" /\ (\/ status[a.id] \notin Terminal
                            \/ \E j \in Job \ {a.id} : isInFlight(status[j]))
Does(a) ==
    LET put(j, st, answer) == [jobs |-> [status EXCEPT ![j] = st], answer |-> answer]
    IN CASE a.kind = "refresh" ->
              {put(a.id, status[a.id], [id |-> a.id, status |-> status[a.id]])}
         [] a.kind = "cancel" -> {put(a.id, "failed", [id |-> a.id, status |-> "failed"])}
         [] a.kind = "delete" -> {put(a.id, "gone", Told("empty"))}
         [] a.kind = "retry" -> {put(n, "active", [id |-> n, status |-> "active"]) :
                                     n \in {j \in Job : status[j] = "absent"}}

\* A request or its answer may also get lost.
Outcomes(a) ==
    {[jobs |-> status, answer |-> Told("error")]} \cup
    IF Refuses(a) THEN {} ELSE Does(a) \cup {[o EXCEPT !.answer = Told("error")] : o \in Does(a)}

\* Aborting drops the answer -- the server may or may not get the request -- but
\* main.jsx's onRetryJob passes no signal on: a retry runs on.
Dropped == status' \in {status} \cup (IF act.at = "sent" THEN {o.jobs : o \in Outcomes(act)} ELSE {})
Abandon ==
    IF act.kind = "retry" THEN late' = act /\ UNCHANGED status ELSE Dropped /\ UNCHANGED late

\* The desktop's JobDetail stays mounted from one job to another, the mobile page is keyed
\* by its route: unmounting aborts.
Unmounts(r) == r # route /\ (r = NoJob \/ platform = "mobile")

Navigate(r) ==
    /\ route' = r
    /\ IF r = route THEN UNCHANGED <<current, poll>> ELSE EffectRuns(r)

Go(r) ==
    /\ r # route /\ Navigate(r)
    /\ IF Unmounts(r) THEN Abandon /\ act' = NoAction ELSE UNCHANGED <<act, status, late>>
    /\ UNCHANGED <<platform, shown>>

\* The context's value changes under the page, and its effect runs again.  (bound: not
\* between an answer and its delivery, where Go does the same)
JobEffectRunsAgain ==
    /\ route # NoJob /\ poll.load.at # "answered"
    /\ EffectRuns(route)
    /\ UNCHANGED <<platform, status, route, shown, act, late>>

--------------------------------------------------------------------------------
(* Buttons *)

\* What the page offers: on the desktop each button is disabled only by itself, on mobile
\* all of them by any; mobile "in flight" is whatever is neither done nor failed.
Offers(k) ==
    LET st == current.value.status IN
    /\ route # NoJob /\ current.value # NoView /\ ~current.error
    /\ IF platform = "desktop"
       THEN /\ ~current.loading /\ act.kind # k
            /\ \/ k = "refresh"
               \/ k = "cancel" /\ isInFlight(st)
               \/ k = "retry" /\ st = "failed"
               \/ k = "delete" /\ st \in Terminal
       ELSE /\ act = NoAction
            /\ \/ k = "cancel" /\ st \notin Terminal
               \/ k = "retry" /\ st = "failed"

\* runAction aborts whatever was pending, on the desktop.  (bound: no press while a retry
\* runs on from before)
Press(k) ==
    /\ Offers(k) /\ late = NoAction
    /\ Abandon
    /\ act' = Begun(k, current.value.id)
    /\ UNCHANGED <<platform, route, shown, current, poll>>

\* "Copy job JSON" is done at once, and aborts like the others.
CopyJob ==
    /\ platform = "desktop" /\ Offers("refresh") /\ act # NoAction /\ late = NoAction
    /\ Abandon /\ act' = NoAction
    /\ UNCHANGED <<platform, route, shown, current, poll>>

\* The rows of failed jobs on the other pages retry and delete without a signal at all.
RowRetries(j) ==
    /\ route = NoJob /\ status[j] = "failed" /\ late = NoAction
    /\ late' = Begun("retry", j)
    /\ UNCHANGED <<platform, status, route, shown, current, poll, act>>
RowDeletes(j) ==
    /\ route = NoJob /\ status[j] \in Terminal
    /\ status' = [status EXCEPT ![j] = "gone"]
    /\ UNCHANGED <<platform, route, shown, current, poll, act, late>>

\* setCurrentJob with the answer, whatever page it finds.
Overwrites(job) ==
    /\ current' = [loading |-> FALSE, error |-> FALSE, value |-> job, by |-> "action"]
    /\ UNCHANGED <<route, poll>>

\* The server has answered the page's request: a failure is told, a deletion leads to the
\* queue, the others write the job; cancel and retry then wait for refreshCore.  (When the
\* server acts and when its answer arrives is one step: nothing below tells them apart.)
ActDelivers ==
    /\ act.at = "sent"
    /\ \E o \in Outcomes(act) :
         /\ status' = o.jobs
         /\ \/ /\ o.answer.status = "error"
               /\ act' = NoAction /\ UNCHANGED <<route, current, poll>>
            \/ o.answer.status = "empty" /\ act' = NoAction /\ Navigate(NoJob)
            \/ /\ o.answer.id # NoJob /\ Overwrites(o.answer)
               /\ act' = IF act.kind = "refresh" THEN NoAction
                         ELSE [act EXCEPT !.at = "core", !.answer = o.answer]
    /\ UNCHANGED <<platform, shown, late>>
LateDelivers ==
    /\ late.at = "sent"
    /\ \E o \in Outcomes(late) :
         /\ status' = o.jobs
         /\ IF o.answer.id # NoJob
            THEN late' = [late EXCEPT !.at = "core", !.answer = o.answer] /\ Overwrites(o.answer)
            ELSE late' = NoAction /\ UNCHANGED <<route, current, poll>>
    /\ UNCHANGED <<platform, shown, act>>

\* refreshCore never rejects: a retry leads to its new job, wherever the user is by now.
ActEnds ==
    /\ act.at = "core"
    /\ IF act.kind = "retry" THEN Navigate(act.answer.id) ELSE UNCHANGED <<route, current, poll>>
    /\ act' = NoAction
    /\ UNCHANGED <<platform, status, shown, late>>
LateEnds ==
    /\ late.at = "core" /\ Navigate(late.answer.id) /\ late' = NoAction
    /\ IF Unmounts(late.answer.id) THEN Dropped /\ act' = NoAction ELSE UNCHANGED <<act, status>>
    /\ UNCHANGED <<platform, shown>>

--------------------------------------------------------------------------------

\* The worker (_maybe_archive, _summarize_and_finalize): a job archives or not, and settles.
Advances(j) ==
    /\ \/ status[j] = "active" /\ \E s \in {"archiving", "done", "failed"} : status' = [status EXCEPT ![j] = s]
       \/ status[j] = "archiving" /\ \E s \in Terminal : status' = [status EXCEPT ![j] = s]
    /\ UNCHANGED <<platform, route, shown, current, poll, act, late>>

Requests == LoadAnswers \/ LoadDelivers \/ PollTimer
Answers == ActDelivers \/ LateDelivers \/ ActEnds \/ LateEnds
JobPageNext ==
    \/ Requests \/ Answers
    \/ TabHides \/ TabShows \/ JobEffectRunsAgain \/ CopyJob
    \/ \E r \in Job \cup {NoJob} : Go(r)
    \/ \E k \in Kind : Press(k)
    \/ \E j \in Job : RowRetries(j) \/ RowDeletes(j) \/ Advances(j)

\* Timers fire, requests are answered; the user and the worker may do nothing.
JobPageFair == WF_jobPageVars(Requests) /\ WF_jobPageVars(Answers)
JobPageSpec == JobPageInit /\ [][JobPageNext]_jobPageVars /\ JobPageFair

--------------------------------------------------------------------------------
(* Properties *)

JobPageTypeOK ==
    /\ platform \in Platform /\ shown \in BOOLEAN /\ route \in Job \cup {NoJob}
    /\ status \in [Job -> {"absent", "gone"} \cup {v.status : v \in View}]
    /\ current \in [loading : BOOLEAN, error : BOOLEAN, value : View \cup {NoView}, by : {"poll", "action"}]
    /\ poll \in [timer : BOOLEAN, load : Request]
    /\ act \in Action /\ late \in Action

\* The job on the page is the route's, whatever answers come late and however loads cross --
\* unless the answer of a button was the last to write it.
PageShowsRoute ==
    current.value # NoView /\ current.by = "poll" => current.value.id = route

\* A page in view on a job that has settled shows it settled in the end, whatever was
\* hidden, restarted or answered late -- unless a load failed for good, the last poll saw
\* the job archiving (isInFlight knows no such status), or a button wrote over it.
FinishedIsShown ==
    \A j \in Job :
        <>[](route = j /\ shown /\ status[j] \in Terminal /\ current.by = "poll" /\ ~current.error)
            => []<>(current.value = [id |-> j, status |-> status[j]]
                    \/ current.value = [id |-> j, status |-> "archiving"])

\* MobileJobDetail.jsx:28: "the real polling lives in useScribeRuntime (every 2s while in
\* flight)" -- where that page takes a job for in flight that is neither done nor failed.
UnfinishedIsPolled ==
    LogOf # NoJob /\ shown /\ current.value.status \notin Terminal
        => poll.timer \/ poll.load # Idle
=============================================================================
