# A TLA+ model of scribe-service

scribe-service takes the URL of a video (or an uploaded file), downloads it, transcribes it
on a rented GPU or a fallback, summarizes the transcript with a chain of LLM providers, and
tells the submitter by webhook.  It is one process: a FastAPI application, a few worker
threads that take jobs from a PostgreSQL table, and background loops.  Nothing but the
database survives a restart.

Two kinds of clients talk to it: a web application (`web/spa`) and Chrome extensions
(`extension/`).

The project states what the service promises about its jobs, transcripts, providers and
rentals, and what the clients promise about what they show and submit; it checks this with
TLC on small instances and proves the central parts with TLAPS for every size.  Paths below
are relative to the repository; `loop.py` is `src/scribe/worker/loop.py`, `routes.py` is
`src/scribe/api/routes.py`, `app/` is `web/spa/src/design-app/`.

## The system

| Component | State | Operations | What is hard | What makes it correct |
|---|---|---|---|---|
| Job pipeline (`worker/loop.py`, `db/models.py`) | `jobs`, `transcripts`, what each thread has loaded | claim, resume, download, dedup, transcribe, save, summarize, finish, fail; recovery at startup | threads act on rows they loaded minutes ago; a process that dies mid-stage; a database that is away when a failure has to be recorded | one thread per job; every active job settles; no settled job runs again; a finished summary is not lost |
| Job and transcript handlers (`api/routes.py`) | the same tables, what each request has read | create (with dedup), retry, cancel, delete, resummarize | lookups and inserts without a common lock; a summary generated during an await | dedup tells the truth; a transcript belongs to a job of its video |
| Provider chains, circuit breakers (`pipeline/*_providers.py`) | one breaker per provider, shared by all threads | acquire, record, walk the chain | answers to calls from before a trip; exceptions outside the chain's own | one trial at a time; a suspended provider comes back |
| Vast.ai lifecycle (`pipeline/whisper_client.py`, `worker/vast_reaper.py`) | instances, ids on the job row | rent, transfer, destroy, retry the destroy, reap orphans | lost answers, crash between create and record, a timeout that leaves a thread behind | every rented instance is destroyed; none in use is |
| Spend caps (`worker/vast_budget.py`, `routes.py`) | spend columns, alert state | daily cap at submission, monthly cap before a rental, predictive alert | check-then-act, spend recorded late | the cap bounds what is spent |
| Uploads and archive (`pipeline/uploads.py`, `media_store.py`, `loop.py`) | source directories, media columns, status `archiving` | stage, promote, archive, retry sweep, cleanup | soft and hard failures, two sweeps at once, crash between two commits | a source lives as long as it is needed |
| Machine tokens (`api/tokens.py`) | generations in `app_settings`, a cache | load, match, rotate | cache filled by a reader from before the rotation | a revoked token stops working |
| Users (`routes.py`) | roles, disabled flag | add, disable, enable, change role | two administrators at once | somebody can still administrate |
| Cookie jar (`api/cookie_jar.py`) | blobs by job id | stash, take, discard | a job that no worker ever takes | no blob outlives its job |
| Live logs and SSE (`obs/live_logs.py`) | bounded deque and version per job | append, since, discard | reader behind the buffer, discard while a job runs | no line is lost or repeated inside the bound |
| Share links, prompts, runtime configuration | rows, files, settings object | create, revoke, resolve; write, activate; fetch with retry, overlay | expiry, partial writes | a revoked or expired link is dead |
| Summary algorithms (`summary_validator.py`, `summary_map_reduce.py`) | none | split, validate, merge | boundaries of sizes | nothing of the transcript is lost |
| Downloads (`downloader.py`, `telegram.py`, `ffmpeg.py`), ops views, metrics, canary | none that others act on | subprocess and HTTP calls | they fail | seen by the pipeline as a step that succeeds or raises |
| Web client: polling and runtime data (`hooks/pollLoop.ts`, `usePoll.ts`, `app/api.jsx`) | per loop: on, running, timer; requests under way; what the page has | tick, hide, show, refresh by hand, open a transcript | aborted requests that settle later; answers after the route has moved | a hidden tab is quiet; a page in view catches up; what is shown is the route's |
| Web client: signing in (`hooks/useAuth.tsx`, `Loaders.tsx`) | bootstrap attempts, Clerk's script and session, redirect intent and timer | load, retry, redirect, `protectedFetch`, sign out | attempts that go on after their abort; redirects that do not leave | the page knows its session; no spinner and no demand to sign in stays |
| Web client: page of a job (`app/api.jsx`, `job-pages.jsx`, `mobile/MobileJobDetail.jsx`) | route, current job, timer, the action under way | load, poll, retry, cancel, delete | late answers over a restarted effect | the job on the page is the route's; a settled job is shown settled |
| Web client: submitting (`app/command-palette.jsx`, `mobile/CaptureSheet.jsx`) | two forms, requests, recent submissions, timers | open, type, pick a file, submit, close | a form closed and opened again while its request runs | one submission per opening; the list of recents is true |
| Web client: settings and users (`app/settings.jsx`) | draft of the configuration, prompt text box, users table, token | load, edit, save, discard; open, save versions; change users | edits during loads and saves | what is called saved is stored |
| Web client: history (`app/history.jsx`) | page, filter, list, clearing rows | choose, page, refresh, clear | reads by hand that are not aborted | the list is the one asked for |
| Web client: page of a transcript, sharing, Markdown (`app/transcript-detail.jsx`, `mobile/*`) | calls, confirmations, labels, toasts; parsed blocks | copy, download, share, regenerate, delete; parse | a page that stays mounted while the transcript changes; line loops with differing tests | one regeneration at a time; no line of a summary lost |
| Web client: routes and library (`hooks/useRoute.ts`, `main.jsx`, `mobile/MobileLibrary.jsx`) | address, history entries, page, filter, rows | navigate, back, filter, resize | route by event, filter by effect, rows by memo | they agree once the events have come |
| Chrome extension (`extension/chrome`) | two tables in storage, options, permissions, badge, popup | context menu, popup, notification clicks | handlers that overlap at every await; a worker that Chrome stops | no blind submit; offers work; no badge left behind |
| Client capture (`extension/chrome-client-capture-poc`) | offscreen document, parts downloaded | capture, ranged download, upload | a loop that ends by four different signs | what is uploaded is the whole stream |
| Queue, operations and appearance views; design prototypes; deployment, backups | view state; none; link tables | rendering; none; shell | | not modelled, see below |

The components meet in the two tables.  A handler inserts a job with status `queued`; a
worker claims it with `FOR UPDATE SKIP LOCKED`, commits `downloading`, and from then on
works on its loaded copy of the row.  Handlers write to the same row at any time.  Inside
`transcribing` and `summarizing` a worker walks a provider chain, where it meets the other
workers, and the requests that regenerate summaries, at the shared breakers.

The clients meet the service only in HTTP answers, and none of them keeps what another one
reads: each is a component of its own whose server answers what it likes, within what the
handlers can answer.  Inside the web client the pages share the route, the session and the
polled data, but every page's own state machine can be taken alone.

## Modules

| Module | Models |
|---|---|
| `WorkQueue` | what the jobs table and the threads promise together, without saying how |
| `JobPipeline` | `worker/loop.py` and the handlers of `api/routes.py` that change jobs or transcripts; refines `WorkQueue` |
| `MCJobPipeline` | values for TLC |
| `JobPipelineProofs` | type correctness and the inductive invariant of `JobPipeline`; it implements `WorkQueue` (safety) |
| `JobPipelineSummaries` | summaries are never overwritten by late writers; owners have their transcript's video; done jobs have summaries |
| `ProviderChain` | `CircuitBreaker`, `summarize_with_chain`, `transcribe_with_chain` |
| `MCProviderChain`, `ProviderChainProofs` | values for TLC; proofs about the breaker |
| `VastLifecycle` | `TranscribeRunContext`, `transcribe` and `_transcribe_impl`, the Vast bookkeeping and the sweep of `worker/loop.py`, `worker/vast_reaper.py` |
| `MCVastLifecycle`, `VastLifecycleProofs` | values for TLC; proofs about the rentals |
| `UploadArchive`, `MCUploadArchive`, `UploadArchiveProofs` | `create_upload_job`, `uploads.py`, the archive step of a job, `retry_pending_archives` and the recovery of both; values for TLC; proofs |
| `Extension`, `MCExtension`, `ExtensionProofs` | `service_worker.js`, `popup.js`, `options.js`, `preflight.js`, `cookies.js` of the Chrome extension; values; proofs |
| `ClientCapture` | popup, worker and offscreen document of the client-capture extension |
| `Auth`, `AuthProofs` | `AuthProvider`, the gate over the page, `protectedFetch`; proofs |
| `PollLoop` | `createPollLoop` and its two users |
| `JobPage`, `Submit`, `Settings`, `History`, `TranscriptPage`, `Markdown`, `Library` | a page or a part of one of the web client each |
| `MCClient` | `PollLoop`, these seven and `ClientCapture` side by side, with values for TLC |
| `ClientProofs` | proofs about each of the nine, and about all of them together |

### JobPipeline and the code

`jobs` and `trs` are the rows of the two tables, reduced to the columns the control
depends on: status, video key, `summarize`, the callback, whether an error is recorded,
whether a Vast instance is on record; and for a transcript its owner, its video and its
summary.  `worker[w].at` is the point of `process_job` where thread `w` can be overtaken,
with the transcript it has loaded and the owner that row had when it was loaded.
`request[r]` is what a handler has read before its write.

One action is one transaction, or one read that a later transaction depends on.  The
sessions neither expire on commit nor autoflush, which has two consequences the model
keeps: a worker commits its next status whatever the row has become, and
`partial.job_id = job.id` (loop.py:745) lands with the commit of the *next* status, so it
is in `StartSummarizing` and `FinishWithoutSummary` (`Repoint`), where it can violate the
uniqueness of `transcripts.job_id`.  Row locks show where they are held across a model
step: the retry handler's `FOR UPDATE` (`Locked`), and the advisory lock of `resummarize`.

`Raise` takes a thread from any point to the `except` block: each stage calls something
that can fail.  `HandleException` is that block; `HandlerFails` is the same block when the
database is away, which leaves the row where it was (`stranded`) until the next restart.
`Restart` kills everything in memory and runs `recover_interrupted_jobs`, which may itself
stop at some row.  The webhook of a failed job is part of `HandleException`: nothing
changes between its commit and its end.

Left out of this module: owners (one owner submits everything), uploads with the archive
step and its sweep (`UploadArchive`), the rentals and theirs (`VastLifecycle`), the spend caps,
and everything that is formatting.

### ProviderChain and the code

`breaker[p]` is a `CircuitBreaker`.  Its deque of outcomes is reduced to what `record`
reads of it: how many of the newest outcomes are failures that count and are still inside
the window (`streak`, at most the deque's length).  Time is abstract: `CooldownElapses` and
`OutcomeAges` happen when they happen.  `acquire` and `record` hold the breaker's lock and
are one step each; the call lies between them, so an answer can be arbitrarily late.
`Escape` is an exception the chain does not catch.

### VastLifecycle and the code

`row[j]` is what the jobs table keeps of a rental: the one slot `vast_instance_id`, and
`destroy_failed_at` as NULL, younger or older than the retry floor.  Statuses are reduced to
queued, active (the stages recovery reads), settled and deleted.  `run[j]` holds the two
threads of a transcription.  The worker waits in `results.get` and may time out; the helper
runs `_transcribe_impl` and is not stopped by that.  `new`, `ctx` and `taken` say where the
instance id is: a local variable after the create call, the run context, or the hands of the
thread that destroys it.  The context's lock makes `WorkerTakes` and `HelperTakes` atomic.

A call to Vast and the record of its answer are one step: between the two, nobody else
writes the two columns of that row, and a crash or a database error in between is an action
of its own (`RecordCreatedRaises`, `DestroyFails`, `Restart`).  `Create` and `RecordCreated`
are two steps, since a crash between them matters.  A DELETE can be lost, or land and not be
confirmed (`Unconfirmed`).  The reaper lists instances and deletes them later; this is one
step, because what makes an instance reapable never ceases to hold.  `BeginLastChance` reads
the row as it is: `process_job` refreshes it before it marks the job done.

Time is abstract.  `DeadlinePasses` happens when it happens; `Ages` waits until the
instance is in no transcription inside its deadline, since the reaper's ages (15 minutes
loading, 60 in all) exceed the limits of a run (10 minutes to become ready, 30 in all,
config.py).  Nothing orders the deadline and the steps of the helper otherwise.

`vast[i].lost` is history.  It is set where a fault takes an instance out of the books, and
the list of those places is itself a result: a create answer that is lost, a database error
at a record, an exception the loop does not catch, the deletion of a row that notes a failed
destroy, a failed destroy without a row to note it, and a restart while the row of the job
is no longer active.  `NothingForgotten` says that there is no other place.
When the database is away for the last commit of `process_job` too, `Settle` leaves the row
active without a thread, as the loop does (loop.py:978).  The reaper's filter on billable
statuses is left out: an instance that lives here bills.

### UploadArchive and the code

`source[j]` says whether the directory of job `j` holds a file, `trs` has the columns
`media_object_key` and `media_error` next to the transcript's owner and content, and `worker`
what a thread has loaded: in the sweep, its list of rows and the rows its transaction locks; in
a job, whether it found a file when it began, the transcript, and whether that had an error.
An action is one transaction or one access to the file system, so a crash, an operator or the
other worker may come between the copy's columns, the removal of the file and `done`.
`Complete` is the end of `_summarize_and_finalize` up to its next commit, in which the summary,
`partial.job_id` and the status land together.  `Batch` is the sweep's query; `Moves`, which
every commit of the sweep ends in, releases all of its rows.  `HandlerTrips` is an oddity of
the session: when a provider fails outside a transaction, the rollback expires nothing, the
handler writes the row it has in memory, and if that is gone it raises before it comes to the
file.

`leaked` and `bereft` are ghosts.  `leaked` names the events after which a file is of no use
to anybody and stays: a queued job that is cancelled, a deleted job, a crash in the middle of an
upload or before a removal, a transcript taken over by another job, an archive step that fails
for a transcript that has a copy already, a sweep that gives up a row, or makes its copy, after
the row went to another job (`LeaksMoved`; with two jobs the case does not arise, and it was the
proof, for any number of them, that asked for it).  `bereft` names those that leave a pending transcript
without its file: a hard failure, a transcript taken over by a job without a file, a sweep that
clears the directory of a job that runs again.  `SourcesAreNeeded` and `PendingHasSource` say
that there are no others.  Left out: rentals (a job whose instance may live is failed by
recovery, not queued), a recovery that breaks off, the reading and probing of the body.

### PollLoop and the code

`loop` has the two instances of `createPollLoop`: the core's (library, active jobs and the
extras) and that of the route's transcript.  `Tick`, `Schedule`, `Settled` are its functions;
the actions are its events.  A refresh of the core is answered in two steps, because the code
treats them differently: a failure of library or jobs fails the refresh, while each extra
catches its own failure, an abort included, and leaves a blank (`CoreApplies`).
`fetch` keeps apart who asked: the loop, a loop that was stopped and whose request still
settles, a refresh by hand, and the refresh after a sign-in.  `AuthRenders` is a new value of
the authentication context, which restarts the loop's effect although nothing else changed.

### JobPage and the code

The effect of `app/api.jsx` that loads and polls `GET /jobs/<id>`: its timer, its request, the
value it keeps over a restart, and `isInFlight`, which decides whether it polls on.  The
buttons of both pages are one request held in `actionAbortRef`; a retry, which `main.jsx`
sends without the signal, goes on as `late`.  Of the server and the worker the statuses are kept
(active, archiving, done, failed), and what the handlers of `routes.py` refuse.

### Submit, Settings, History, TranscriptPage, Library and the code

Each is the React state of one page with the requests it has under way, one action per
event: a click, an answer, a timer, an effect.  What a render only displays is left out.

* `Submit`: requests carry whether the opening of the form they belong to is still the present
  one.  Recents are compared with a ghost, the list of all answers.  An uploaded file is one of a
  set of videos: the server keys it by its content, so the same file twice has one video.
* `Settings`: a load or a save of the configuration is sent, answered by the server, heard; a
  draft edited meanwhile is replaced, as in the code.  The text box remembers for which
  version its text was loaded.  A change of a user is written, then the table is read again; an
  answer that is lost after the write leaves the chip "error" beside a change that was made.
* `History`: reads of the effect are aborted by the next one, reads by hand are not; the ghost
  `astray` names the two ways in which the code lets one overtake another.
* `TranscriptPage`: the desktop's page stays mounted from one transcript to the next, with its
  calls and confirmations; the phone's is keyed by the route.  Timers of labels and toasts are
  sets, since several can be running.
* `Library`: the hash, the `hashchange` event on its way, the page, the filter set by an effect
  and the rows computed by a memo are five pieces of state that follow each other.

### Markdown and the code

`ParseStep` is one turn of the outer loop of `parseMd`, `parseProse` or `parseFrontmatter`;
its inner loops are the runs of lines that `EndOfRun` and `FirstOf` find.  A line is its
class: what its prefix, or its quotes, make of it.  `BlocksAreLines` compares the blocks with
a definition that has no loop: which line begins a block (`Begins`) and which joins the one
above.  All sequences of up to three lines over ten classes (five for front matter) are tried.

### Extension and the code

A flow is one invocation of an event handler of the service worker; between two awaits it
takes one step.  The two tables in `chrome.storage.local` are read, changed and written back
whole (`ReadTable`, `WriteLink`, `WriteRetryUrl`, `RemoveLink`, `RemoveRetryUrl`), so a flow
carries the copy it read, and a stale copy drops what others have added since.
`OfferLostOnlyToRace` names that write: it is for another notification, and was read before the
entry was there.
`KillWorker` is Chrome stopping the worker at any await.  `Navigate` moves the tab under an
open popup.  `Verdict` is what `classifySubmit` makes of a page, a constant: it is a pure
function of the URL.

### ClientCapture and the code

Three actors: a popup that may close, a worker that may be stopped, and the one offscreen
document, whose loop downloads ranges and uploads a Blob.  A stream is the sequence of its
bytes, so a Blob shows a byte that is missing, doubled or out of order.  `Responses` is what a
server can make of a range request (the whole stream, a body that is short, empty or longer
than the range, or a 416); resolving the stream is a seam the repository leaves
open (`resolve.js`), and so a choice.  `LastChunk` is the loop's end test.

### Auth and the code

`attempt[i]` is one run of the effect that loads the provider, from the configuration to the
listener it leaves with Clerk; aborting it stops only its fetch.  `tag` is the script element
in the document's head, `clerk` what it has defined.  `Commit` is a handler's update together
with the effect on `[authRedirectInFlight, signedIn]` that follows it in the same render.
A `redirect` calls Clerk, may return and give up after its grace period; `timer` is the ninety
seconds.  `request` is a `protectedFetch` with the context value of its render.  Signing out is
two steps, around its await: `SignOut` asks Clerk, whose listener hears that the session ends,
and `SignedOut` clears the page's state.  A session that another tab opens in between is
forgotten by the second one (`leaving = "late"`), until the listener hears the next change.  A behaviour
is one life of the page and may begin with what an earlier life left in `sessionStorage`.

## Runs

| Run | Bounds | Shows |
|---|---|---|
| `pipeline` | 2 workers, 2 requests, 2 jobs, 3 transcripts, one video and one pending key for it, 2 texts, one restart, cancellation and deletion each | all safety properties of the pipeline |
| `pipeline_live` | 2 workers, 1 request, 2 jobs, 4 transcripts, one restart, cancellation, and database outage each | every active job settles; the work queue with its liveness |
| `breaker` | 3 callers, 2 providers, threshold 2, exceptions outside the chain's own from the first, as Vast raises them | safety and liveness of the breaker |
| `vast` | 1 job, 2 instances, 1 sweeper, 2 faults | safety of the rentals; every instance is destroyed; every failed destroy is confirmed |
| `extension` | 3 pages (a video, a list, one of Scribe's own), 2 services, 2 handlers at once, 3 invocations, one death or failed write, one change of the options | safety of the Chrome extension |
| `auth` | 2 attempts, 1 redirect, a poll and a page asking, 1 fault | the page knows its session; nothing that tells to sign in, or to wait, stays |
| `client` | 15 parts, one per behaviour: 2 transcripts, jobs, videos, settings, versions, documents and tags, 1 account, both platforms, streams of 3 and 4 bytes in ranges of 2, 3 lines of Markdown, 3 answers of the palette, 2 calls at once | what every page shows, saves, submits and uploads; a page in view catches up, a settled job is shown settled, downloads end |
| `archive` | 2 contents, 2 jobs, 2 transcripts, 2 workers, 2 rows in a sweep, 1 restart or outage, 2 orders of operators | a pending copy has its source; a source that is kept has a use |
| `webhook_claim`, `sweep_claim`, `trial_claim`, `retry_claim` | the least that shows it | the first four disagreements under *Findings* |

Two jobs are what every race of the pipeline needs: an old and a new job of one video, or two
jobs of one video queued by racing requests.  Two workers and two requests allow each pair of
transactions to overlap; three transcripts let each job save one and one be saved after a
restart.  The cheaper liveness run has the outages, which the safety run leaves out.
A job of `vast` can rent twice: in one run, around a restart, or around a second thread that
is late; its safety properties were also checked with three instances, without the liveness.
Jobs share nothing but the sweep's transaction, two of them exceed nine million states, and
the proofs of safety cover any number.
In `archive` two contents make a batch of two rows, two jobs of one content share or hand over a
transcript, and two orders cancel and then delete a job under its worker.
Two handlers of the extension overlap at every await, and a third invocation can follow one
that is gone.  Two bootstrap attempts are an aborted one and its successor; of the clients'
requests, any two of a kind can overlap.  Streams of three and of four bytes end inside a
range and on its boundary.  Three lines give an inner loop of a parser its first line, one that
it may take and one that may end it.

In `client` the parts do not share a variable, so running them together would multiply states
and add no behaviour: `part` says which one runs, and what the others leave open at first is
fixed.  Most of its properties are conjunctions of properties of the parts; each is named and
stated in the module of its page.

Symmetry is used only in runs without liveness.  The deadlock check is off where a system may
come to rest: when the bounds on jobs, transcripts or instances are used up the service has
nothing left to do, a parser has reached the last line, and nobody has to click or to press.
It stays on for `ProviderChain`.

Every bound is a constant named `Max...` (or `PageSize`, `TopTags`, `Chunk`, which the code
has); `MaxJobs`, `MaxTranscripts` and the number of instances limit what the code itself
would do, the others how often the environment acts, and the guard that uses a bound on
requests under way says so.  The proofs hold for every value of them.

Each property has a mutant: a definition that models code, changed the way a plausible bug
would change it, under which TLC reports the property violated.  For a property that is a
conjunction other mutants were tried as well, one for each further conjunct: the write of an
aborted transcript read (`MayWrite`), a history that is not read again after a deletion
(`ReadsAgain`), recents that keep a twin (`Pushed`), an edit that leaves "Saved" standing
(`EditedChip`), the text of a superseded version that is taken (`HearsOpening`), a change of a
user without a refresh (`AfterChange`), a summary that is not brought up (`BringsUp`), the
timers of earlier toasts kept (`TimersOfToast`), a paragraph that does not stop at a numbered
line (`Stops`), a stale memo of the rows (`RowsOn`), a filter that does not follow the route
(`Follows`).  TLC finds each of them.

### Fairness

Worker threads loop for as long as the process lives and every call a stage makes has a
timeout, so `WF(WorkerStep(w))`; a handler that has checked goes on to write
(`WF(RequestStep(r))`).  Nothing is assumed of operators, restarts, outages or
`HandlerFails`.  `Raise` is inside `WorkerStep`, so no stage is assumed to succeed.  For the breakers: jobs keep coming
(`WF(CallerStep(c))`), and a cooldown ends.  A fallback is asked only when those before it fail,
so `FirstLeftIsProbed` promises a probe to the first provider that still can have one: those
before it wait for trials that are lost (`TrialLost`), and its own trial may be lost too.

For the rentals: the clock runs, recovery goes through its rows, workers sweep and the reaper
loops while the process lives.  A destroy that is repeated for ever is confirmed at some time
(strong fairness of the confirmed case of `SweepTries`), which is the least one has to
believe of Vast.  The threads of a job have no fairness: both liveness properties hold even
if they hang.

For the clients: timers fire and requests settle, as `fetch` and browser promise.  `ClientFair`
assumes it only where the checked progress needs it: the core loop's timer and the answers to
its own requests, the loads of a job's page, and the steps of each capture (the worker may be
stopped, but not the document in the middle of its download); run `client` uses it.  Answers may be failures, up to
the bound on faults.  In `Auth` the attempts, the grace period, the expiry of an intent, the
timer and the answers are fair, and the poll goes on while the page is shown; users, other tabs
and Clerk's sessions have no fairness.  A claim of progress is therefore about a page that
stays in view.

## Proofs

All proofs are for arbitrary constants under the assumptions named in the modules
(`PipelineAssumption`, `ChainAssumption`, `VastAssumption`, `ArchiveAssumption`,
`ExtensionAssumption`, `AuthAssumption`, `PollAssumption`, `JobPageAssumption` and so on): videos
and pending keys are disjoint, `Resolve` maps pending keys to videos, `None` is none of the
values, the bounds are naturals; a chain is a non-empty sequence of providers, the threshold at
least one; the default service is one of the services; a stream has at least a byte, and so has a
chunk.  TLC evaluates the assumptions in the runs.

| Theorem | Says |
|---|---|
| `TypeCorrect`, `InductiveInvariant` | `TypeOK` of the pipeline; its inductive invariant |
| `NeverTwoWorkersOnAJob` | `ClaimExclusive` |
| `NoJobIsForgotten` | `MidStageHasWorker`, over restarts, cancellations, outages |
| `PipelineIsAWorkQueue` | `QueueSafety`: initial states and steps map to those of `WorkQueue` |
| `IdsAreFresh`, `SummariesAreKept` | `SummaryKept`, from a second invariant on transcript ids |
| `VideosAgree`, `OwnersHaveTheSameVideo`, `DoneJobsAreSummarized` | `OwnerHasSameVideo` and `DoneMeansSummarized`, from a third one on the videos |
| `ChainInvariant`, `ChainTypeCorrect`, `OneTrialAtATime`, `ClosedBreakersAreHealthy`, `TrialsHaveOwners` | the breaker's invariant, `TypeOK`, `TrialExclusive`, `ClosedIsHealthy`, `TrialHasOwner` |
| `LostTrialsStayLost` | a provider whose trial was lost is not given back by any step: the safety half of the finding `trial_claim`, for any chain |
| `VastInvariant`, `VastTypeCorrect`, `NoInstanceIsForgotten`, `QueuedJobsHoldNone` | the invariant of the rentals, `TypeOK`, `NothingForgotten`, `QueuedHoldsNone` |
| `SlotIsKept`, `InUseInstancesSurvive` | the action properties `SlotKept`, `InUseSurvives` |
| `ExtensionInvariant`, `ExtensionTypeCorrect`, `OffersAreLostOnlyToRaces`, `NothingIsSubmittedBlindly`, `BadgesAreTended`, `NoticesAreNotReplaced` | the invariant of the extension, `TypeOK`, `NoBlindSubmit`, `BadgeIsTended`, and the action properties `OfferLostOnlyToRace` and `NoticeNotReplaced` |
| `AuthInvariant`, `AuthTypeCorrect`, `PageKnowsItsSession` | the invariant of signing in, `TypeOK`, `SignedInIsSession` |
| `ArchiveInvariant`, `ArchiveTypeCorrect`, `PendingCopiesHaveSources`, `SourcesHaveAUse` | the invariant of uploads and their archive, `ArchiveTypeOK`, `PendingHasSource`, `SourcesAreNeeded` |
| `PollInvariant`, `PollTypeCorrect`, `HiddenTabsAreQuiet`, `TranscriptsAreTheRoutes` | the invariant of the poll loops alone, their types, `HiddenIsQuiet`, `TranscriptIsRoutes` |
| `ClientInvariant`, `ClientTypeCorrect` | the invariants of all nine parts of the clients, composed; `ClientTypeOK` |
| `UploadsAreWhole`, `HiddenClientsAreQuiet`, `PagesShowTheirRoutes`, `SubmissionsAreSound`, `SavedIsTheServers`, `ReadersAreServed` | `UploadIsWhole`, `HiddenIsQuiet`, `ShownIsRoutes`, `SubmitIsSound`, `SettingsAreStored`, `ReaderIsServed`: every safety property of the run `client` |

**Pipeline.**  `ClaimExclusive` is not inductive: a claim takes a queued job, and one must know
that nobody still works on it.  A cancelled job whose worker goes on is such a case, and what
saves it is that no step ever queues an existing row while a thread holds it
(`QueuedIsFree`).  `MidStageHasWorker` needs the converse, that a thread lets go of a job
only when the job has settled.  `Bookkeeping` has the facts in between: ids not handed out
have no row, a thread between two points holds a job, a job under retry is terminal.

The argument is organised around the shape of steps rather than the list of actions.
Each worker action is shown to satisfy `WorkerEffect` (it touches its own job row only,
never queues it, and releases it settled or stranded); handlers satisfy `ReadEffect`,
`SettleEffect` or `InsertEffect`.  The invariant is preserved by the shapes, and the
refinement follows from the same shapes, so every action is expanded once.  `SummaryKept` uses
a shape of its own for the transcripts table (`TrsEffect`).

`OwnerHasSameVideo` and `DoneMeansSummarized` are about what a thread still believes: it
carries a transcript id over the commits of others, and its job may be renamed from a pending
key to a video, cancelled, or answered by an older transcript meanwhile.  `VideoInv` says that
a transcript, its owner and every thread that carries it agree on the video, and that no
transcript names a pending key; `SummaryInv` that a thread which is about to finish a job on
an older transcript still finds a summary there, unless something was deleted.  Both are
invariant together (`VideosAgree`), over the same shapes.

**Breaker.**  The invariant adds that a caller on trial holds the breaker's flag; the late
answers are why: they may trip a half-open breaker, but do not clear the flag.
`TrialsHaveOwners` is the converse, and holds for providers that raise nothing the chain does not
catch.  For the others `LostTrialsStayLost` says what such an exception costs: only `record` lowers
the flag, only the caller on trial would get there, and nobody else becomes one while the flag stands.

**Rentals.**  None of the four safety properties is inductive.  That a rental never
overwrites the record of an instance that bills needs to know that a helper which may still
rent has a free slot (`Books`), which in turn needs that an unconfirmed destroy ends the
helper, and that a second run starts only when recovery has confirmed the destroy.
`Threads` ties the places of the id to the points of the two threads; `Ownership` says
that no two jobs name one instance.  Nearly every action belongs to one job and at most one
contract: `JobStep` says what such a step may do to what others rely on, `JobStepKeeps` proves
once that this is enough, and `PlainStep` is the case in which Vast is not touched.

**Extension.**  What a flow is about must be followed from the page that was shown to the
post: `PopupWaits` and `PopupAsks` say so of the popup, `Judged` of the flows that have not
posted yet.  `RetryUrls` keeps the table of URLs free of anything else in every copy that a
flow carries.  `NotesAreFresh` says that identifiers are drawn upwards and that no two flows
hold one, which is what keeps notifications apart.  `TypeOK` bounds the numbers, which takes an
account (`Counted`): the numbers drawn and the handlers that may still draw one are together at most
the handlers started and the faults, since a start pays for one number, and a second one is drawn
only when the first could not be written to its table.

**Signing in.**  `SignedInIsSession` rests on one fact: whenever Clerk is ready, some attempt
has left its listener (`ReadyListens`), attempts that went on after their abort included.

**Uploads and archive.**  `PendingHasSource` and `SourcesAreNeeded` pull in opposite directions: the
file must not go too early, and must not stay too long.  Each is about a row and a directory that
three kinds of threads touch, over their own loaded copies of the row.  `ThreadInv` says for each
point of `process_job` what its thread may still believe: that it found the file, that its
transcript is the job's only one, that the copy's columns are written when it removes the file.
`SweepInv` says the same of a sweep.  The proof is by rely and guarantee: `Keeps` is what a step may
do to the jobs, rows and files of others, `OthersKeep` shows once that this is enough for every
thread that does not move, and each action is shown to be such a step.  Two facts were not expected:
a transcript without a copy has its file *whatever its error says*, since a permanent error is
written only once the file is gone; and a row may lose its job between a sweep's query and its turn,
which leaves a file behind that no rule of the model named before (`LeaksMoved`).

**Clients, part by part.**  None of the properties is inductive.

* Poll loops: `HiddenIsQuiet` is preserved because every operation on a loop, in a hidden tab,
  leaves it without a timer and starts nothing; `TranscriptIsRoutes` needs that what the
  transcript's loop is reading is what the route wants (`ReadsRoutes`).
* Download: until the server strays, the parts of a capture are a first stretch of the stream
  (`Straight`), and the loop hands over only a stretch that ends where the stream ends, by whichever
  of the four signs it saw.  Stretches are sequences `Bytes(a, b)`, and `StretchesMeet` is the
  lemma that two of them join; the theorem holds for streams and chunks of any length.
* The page of a job: an answer is for the load it answers, a load for the route (`LoadIsRoutes`),
  over actions that outlive their page.
* Settings: a save that nothing overlapped is the last word on what is stored (`ConfigAlone`); the
  latest load of a text under way is that of the version chosen (`LatestIsChosen`); the answer to
  the only call about users is what the server has (`UsersAlone`).
* History: while reads did not cross there is one at most, for the page asked for (`ReadsAlone`).
* Library: the page is mounted by its route (`PageIsRoutes`), and the address is ahead of it only
  while the event is on its way (`RouteIsSynced`).
* The page of a transcript: the page that waits for a summary owns the one call that makes it
  (`WaitsForOne`).
* Submitting: the request that an opening has under way is its only one, and the form says so
  (`FormWaits`).  Recents are, by `RecentsAreLatest`, the answers at certain places of the list of
  all answers, in order, cut at the limit.  `Listed` gives such a list by *ranks*, the number of
  places up to one, so that a new answer at the head shifts ranks and drops at most one, that of its
  twin.
* Markdown: of a document of any length, the lines before the loop's line are cut into their
  blocks, and the loop's line opens what is to come (`CutBefore`, `Opens`).  Where a run of lines
  ends, the inner loop's least line is found by a minimal element of a set of numbers, which needs
  no induction over the data.

**Clients, composed.**  A step of `ClientNext` is a step of one part and leaves the variables of the
others as they are (`PartsMove`, `PartMoves`); so the conjunction of the parts' invariants,
`ClientIInv`, is preserved (`ClientStepKeeps`), and every safety property of the run `client`
follows from it.

**Only model-checked.**  The liveness properties (`EveryJobSettles`, `HandedOutOnce`,
`FirstLeftIsProbed`, `RentalsEnd`, `SignInSettles`, `ClientCatchesUp`), which
like `ENABLED` are beyond the prover.  Every invariant and every action property of a passing run
is proved.  What the clients' proofs take for granted is what the models take: that the inner loops
of the parsers stop at the first line that `EndOfRun` and `FirstOf` name, and that a server of
ranges answers as `Responses` says.

## Findings

* `webhook_claim`: `_deliver_webhook` "never raises" (loop.py:103), but only five kinds of
  exception are caught; any other turns a job that is done into a failed one.
* `sweep_claim`: rows are claimed "so concurrent workers do not race on the same transcript"
  (loop.py:308), but the sweep's first commit (loop.py:330, 344, 352) releases all the rows it
  selected, and another worker archives one of them at the same time.
* `trial_claim`: "the chain skips Vast for the cooldown window" (transcribe_providers.py:13), and
  others "see `skip` until the trial resolves" (summary_providers.py:156).  Vast's timeout is passed
  on to the job, past `record` (transcribe_providers.py:371): when the half-open trial ends so, its
  flag stays, and Vast is skipped until the process restarts.
* `retry_claim`: two submits "racing the cookie gate" must not drop "the first video's retry"
  (service_worker.js:20-23).  Their notifications are distinct, but each handler reads the table
  of URLs, adds its entry and writes the table back, with an await in between
  (service_worker.js:462-464); the later write drops the other's entry.

Each of the following contradicts a text of the repository too.  They are kept as definitions
beside the properties; TLC refutes each within
seconds when it is added to the configuration of `auth`, `client` or `archive` (the last one, in a
minute, with `ArchiveThreadsRun` as the specification, `Limit = 1`, `MaxOrders = 0`, and without
symmetry).

* `Auth!RetrySucceeds`: "Disable the blocker for this site, then retry" (useAuth.tsx:259)
  cannot help: the script element that was blocked stays in the document, and the retry takes it
  for a script that is loaded (useAuth.tsx:133).  Only a reload of the page does.
* `JobPage!UnfinishedIsPolled`: the phone's page of a job counts on polling "every 2s while in
  flight" (MobileJobDetail.jsx:28) and takes `archiving` for in flight; `isInFlight`
  (api.jsx:304) does not, so the page stays at `archiving` until it is hidden and shown again.
* `UploadArchive!ArchivingHasTranscript`: an archiving job without a transcript "should not
  happen" (loop.py:425).  While a job with `summarize=False` archives, the same file may be
  uploaded again, since `archiving` is no active status; the new job takes the transcript over,
  and a restart runs the first one again.
* `UploadArchive!LostMeansNoCopy`: "the archival copy can never be produced" (loop.py:438) is
  written on a transcript whose copy exists, when the process dies between the removal of the
  file and the commit of `done`.
* `UploadArchive!PendingIsTried`: the sweep "just retries the media step when the local source
  still exists" (loop.py:304), but it takes the three oldest rows, and a failed row keeps its
  place: three files that ffmpeg cannot convert keep all later ones from being tried.  (The
  configuration sweeps one row at a time, where one such file is enough.)

Other behaviours that a reader may find surprising, but that no text of the repository
plainly contradicts, are kept as definitions.  Adding one to the configuration of its module's run
reproduces it:

* `JobPipeline!CancelStops`: cancelling a job (routes.py:2017) does not stop its worker, which
  overwrites `failed` with its next stage and may finish the job as `done`.
* `JobPipeline!OwnerOfSummaryNotFailed`: a job can report `failed` while it owns a finished
  transcript, the state `resummarize` takes care to avoid (routes.py:1996).
* `JobPipeline!PaidOnce`: a requeued job whose transcript was finished by another worker pays
  for a second transcription, which it then cannot store (loop.py:379).
* `VastLifecycle!OnlyOrphansReaped`: the reaper destroys any instance above 0.50 an hour, also
  one that a job has just rented under the offer limit of 3.00 an hour.

Others are exempted where a property would meet them, by a ghost or a disjunct that names them:

* The answer of a button overwrites the job on the page, also when the route has moved to
  another one meanwhile (api.jsx:93; `JobPage`, what a button wrote).
* A late answer of an earlier opening of a form changes the present one (CaptureSheet.jsx:148;
  `crossed` in `Submit`).
* Reads of the history by Refresh and Clear have no signal: of two that overlap the later answer
  wins (history.jsx:34; `astray`).
* A popup that has asked for a confirmation submits the page its tab shows by then
  (service_worker.js:216; `moved` in `Extension`).
* A service worker that is stopped, or cannot write its storage, leaves the badge behind
  (service_worker.js:167; `faults` in `BadgeIsTended`).
* Files that a crash or an operator leaves behind are never looked for again (`leaked` in
  `UploadArchive`).
* A sign-out whose await returns to a session opened meanwhile leaves the page signed out, and
  keeps a redirect begun then in flight (useAuth.tsx:511; `leaving = "late"` in `Auth`).

Seen in the web client while reading, below the level of the models: with an empty list the
arrow key of the command palette computes an index modulo zero (command-palette.jsx:145); a
draft of the configuration begun after a failed load is saved with defaults for the rest
(`DraftIsWhole` says from when on it is not); the confirmation of a deletion stays armed when
the page goes on to another transcript; on the desktop, clearing the library's tag and
following the same tag again changes nothing, since the effect sees no new tag; on the phone a
tag in the address is lost if the transcripts load after the page.

## Not modelled

* **Spend caps and the budget monitor**: sums over columns (`vast_budget.py:85`,
  `routes.py:1005`) checked before something is spent that is recorded later.  A model needs
  amounts, which the pipeline and the rentals leave out.
* **Of uploads**: the streaming and probing of the body, signed links to a copy, and what
  becomes of copies in the bucket when their transcript is deleted (nothing removes them).
* **Machine tokens** (tokens.py:102, tokens.py:176), **the last administrator**
  (routes.py:772), **the cookie jar**: a race of two handlers each, over state nothing else
  here uses.
* **Share links, prompts and runtime configuration on the server**: handlers of one row or
  file.  The pages that edit them are in `Settings` and `TranscriptPage`.
* **The unlocked creation of the transcription breakers** (transcribe_providers.py:176): two
  threads can create one each, once in the life of a process.
* **Summary algorithms**: pure functions over text; the pipeline sees a summary that appears
  or a call that raises.
* **Media acquisition, operations views, metrics, alerts, canary**: subprocesses, HTTP and
  counters, without state that another component acts on.
* **Live logs and the SSE stream**: a bounded buffer per job under one lock; `JobPage` has
  which job's log the page follows.
* **Queue, operations and appearance views of the web client**, wording, layout, inline
  formatting, text search and scrolling: they render what the modelled state has.  The design
  prototypes (`design/`, `design-source/`) are not part of the built client, and the visual QA
  script takes screenshots.
* **Deployment, backups, migrations**: shell around external tools.
* Of `JobPipeline`: owners (one owner submits everything).
  Of the rentals: the pinned endpoint (never rented, never destroyed), a key that is taken
  away while instances are on record, and the choice among offers.  `JobPipeline` has of
  `VastLifecycle` only the flag whether an instance is on record; the two are not composed.
* Verification of sessions on the server is a library's.
