------------------------------- MODULE MCClient -------------------------------
(***************************************************************************)
(* The pages of the web client side by side.  They share no variable, so   *)
(* a behaviour is that of one of them: part says of which, and the others  *)
(* stand still.  What the server, the network or the user may do at first  *)
(* is open only for the part that runs.                                    *)
(***************************************************************************)
EXTENDS PollLoop, JobPage, Submit, Settings, History, TranscriptPage, Markdown, Library,
        ClientCapture

CONSTANT Parts      \* the parts that may run
VARIABLE part

ASSUME PartsAssumption ==
    Parts \subseteq {"core", "transcript", "job", "palette", "sheet", "config", "prompt", "users",
                     "session", "history", "desk", "phone", "markdown", "library",
                     "capture"}

clientVars == <<part, pollVars, jobPageVars, submitVars, settingsVars, historyVars,
                transcriptPageVars, markdownVars, libraryVars, captureVars>>

\* What an initial state of a part leaves open is open only for the part that runs.
ClientInit ==
    /\ part \in Parts
    /\ PollInit /\ (part \notin {"core", "transcript"} => tab = "visible")
    /\ JobPageInit
    /\ part # "job" => platform = "desktop" /\ \A j \in Job : status[j] = "absent"
    /\ SubmitInit
    /\ SettingsInit
    /\ part # "config" => \A k \in Key : stored[k] = Default
    /\ part # "prompt" => box.version = OpenActive.version
    /\ part # "users" => accounts = NoRows
    /\ HistoryInit /\ (part # "history" => \A j \in JobNo : jobs[j] = "done")
    /\ TranscriptPageInit /\ (part # "phone" => digest = "ready" /\ phone = Opened("ready"))
    /\ LibraryInit /\ (part # "library" => wide /\ place = [page |-> "other", tag |-> NoTag])
    /\ CaptureInit /\ (part # "capture" => \A n \in Sizes : size <= n)
    /\ MarkdownInit /\ (part # "markdown" => source.dialect = "desktop" /\ source.lines = <<>>)

--------------------------------------------------------------------------------

Polls(A) ==
    /\ part \in {"core", "transcript"} /\ A
    /\ UNCHANGED <<part, jobPageVars, submitVars, settingsVars, historyVars,
                   transcriptPageVars, markdownVars, libraryVars, captureVars>>
Visits(A) ==
    /\ part = "job" /\ A
    /\ UNCHANGED <<part, pollVars, submitVars, settingsVars, historyVars,
                   transcriptPageVars, markdownVars, libraryVars, captureVars>>
Submits(A) ==
    /\ A
    /\ UNCHANGED <<part, pollVars, jobPageVars, settingsVars, historyVars,
                   transcriptPageVars, markdownVars, libraryVars, captureVars>>
Sets(A) ==
    /\ A
    /\ UNCHANGED <<part, pollVars, jobPageVars, submitVars, historyVars,
                   transcriptPageVars, markdownVars, libraryVars, captureVars>>
Reads(A) ==
    /\ A
    /\ UNCHANGED <<part, pollVars, jobPageVars, submitVars, settingsVars, historyVars,
                   markdownVars, libraryVars, captureVars>>
Captures(A) ==
    /\ part = "capture" /\ A
    /\ UNCHANGED <<part, pollVars, jobPageVars, submitVars, settingsVars, historyVars,
                   transcriptPageVars, markdownVars, libraryVars>>

ClientNext ==
    \/ Polls(TabNext)
    \/ part = "core" /\ Polls(CoreNext)
    \/ part = "transcript" /\ Polls(TranscriptNext)
    \/ Visits(JobPageNext)
    \/ part = "palette" /\ Submits(PaletteNext)
    \/ part = "sheet" /\ Submits(SheetNext)
    \/ part = "config" /\ Sets(ConfigNext) /\ UNCHANGED <<promptVars, usersVars, session>>
    \/ part = "prompt" /\ Sets(PromptNext) /\ UNCHANGED <<configVars, usersVars, session>>
    \/ part = "users" /\ Sets(UsersNext) /\ UNCHANGED <<configVars, promptVars, session>>
    \/ part = "session" /\ Sets(SessionNext) /\ UNCHANGED <<configVars, promptVars, usersVars>>
    \/ /\ part = "history" /\ HistoryNext
       /\ UNCHANGED <<part, pollVars, jobPageVars, submitVars, settingsVars,
                      transcriptPageVars, markdownVars, libraryVars, captureVars>>
    \/ part = "desk" /\ Reads(DeskNext) /\ UNCHANGED phoneVars
    \/ part = "phone" /\ Reads(PhoneNext) /\ UNCHANGED deskVars
    \/ /\ part = "markdown" /\ ParseStep
       /\ UNCHANGED <<part, pollVars, jobPageVars, submitVars, settingsVars, historyVars,
                      transcriptPageVars, libraryVars, captureVars>>
    \/ /\ part = "library" /\ LibraryNext
       /\ UNCHANGED <<part, pollVars, jobPageVars, submitVars, settingsVars, historyVars,
                      transcriptPageVars, markdownVars, captureVars>>
    \/ Captures(CaptureNext)

\* Only what the checked progress needs: the core's loop, the loads of the job's page, and
\* each capture; no other request has to be answered.  The other parts stand still, so the
\* variables of the part that runs say whether a step of it was taken.
ClientFair ==
    /\ WF_pollVars(part = "core" /\ CoreTimer) /\ WF_pollVars(part = "core" /\ CoreMoves("loop"))
    /\ WF_jobPageVars(part = "job" /\ Requests)
    /\ \A c \in Capture : WF_captureVars(part = "capture" /\ CaptureStep(c))
ClientSpec == ClientInit /\ [][ClientNext]_clientVars /\ ClientFair

--------------------------------------------------------------------------------
(* The properties of the parts, those of one kind together *)

\* Every part keeps its types.
ClientTypeOK ==
    /\ PollTypeOK /\ JobPageTypeOK /\ SubmitTypeOK /\ SettingsTypeOK
    /\ HistoryTypeOK /\ TranscriptPageTypeOK /\ MarkdownTypeOK
    /\ LibraryTypeOK /\ CaptureTypeOK

\* What a page shows is what its route or its filter names, however late answers arrive.
ShownIsRoutes ==
    /\ TranscriptIsRoutes /\ PageShowsRoute /\ HistoryIsPage
    /\ RouteIsHash /\ FilterIsRoutes /\ RowsAreFresh

\* One opening of a form submits once at a time, and the palette's list of recent
\* submissions is the latest that was answered.
SubmitIsSound == OneSubmit /\ RecentsAreLatest

\* What the settings page calls saved or loaded is what the server has.
SettingsAreStored == SavedIsStored /\ DraftIsWhole /\ TextIsVersions /\ UsersAreServers

\* The reader of a transcript is served: one new summary at a time, a toast that stays, a
\* summary brought up when it is ready, and its blocks the lines it was written in.
ReaderIsServed == OneRegenerate /\ ToastStays /\ SummaryComesUp /\ BlocksAreLines

\* What the client waits for comes, however often it was hidden, aborted or restarted: the
\* server's newest state, the end of a job, the end of a download.
ClientCatchesUp == CoreCatchesUp /\ FinishedIsShown /\ CaptureEnds
=============================================================================
