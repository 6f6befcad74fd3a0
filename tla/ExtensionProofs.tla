--------------------------- MODULE ExtensionProofs ---------------------------
(***************************************************************************)
(* Proofs about Extension for any pages, services, handlers, deaths and    *)
(* changes of the options.  Shape has the types as far as the other proofs *)
(* need them; the rest of TypeOK follows once the numbers are counted.     *)
(***************************************************************************)
EXTENDS Extension, FiniteSetTheorems, TLAPS

Entry == Link \cup Url \cup {None}
Table == [NoteId -> Entry]
FlowState == [kind : Kind, pc : Pc, url : Url, shown : Url \cup {None}, moved : BOOLEAN,
              base : Base, answer : VerdictKind \cup {None}, note : Nat, snap : Table]

Shape ==
    /\ base \in Base
    /\ popup \in Popup /\ (popup = Closed \/ popup.tab \in Url)
    /\ flow \in [FlowId -> FlowState]
    /\ seq \in Nat /\ notice \in [NoteId -> Notice]
    /\ links \in Table /\ retry \in Table
    /\ alarm \in BOOLEAN /\ faults \in Nat

\* The table of retry URLs holds URLs, in every copy that is written back.
RetryUrls ==
    /\ retry \in RetryTable
    /\ \A f \in FlowId : flow[f].pc \in {"gateWrite", "retryWrite"} => flow[f].snap \in RetryTable

\* The popup waits for a submit of its own, which is about its tab.
PopupWaits ==
    popup.flow # None => /\ flow[popup.flow].kind \in Popups
                         /\ flow[popup.flow].pc \in {"preflight", "post"}
                         /\ flow[popup.flow].url = popup.tab \/ popup.moved

\* What it asks the user about is the page in its tab.
PopupAsks == popup.at \in {"confirm", "gate"} => popup.url = popup.tab \/ popup.moved

\* On the way to the post, a flow is about the page that was shown.
Judged ==
    \A f \in FlowId :
        /\ At(f, "preflight") => flow[f].kind \in {"menu", "check"} /\ flow[f].url = flow[f].shown
        /\ At(f, "retryWrite") => flow[f].kind = "retry" /\ flow[f].url = flow[f].shown
        /\ At(f, "config") => /\ flow[f].url = flow[f].shown
                              /\ \/ flow[f].kind = "retry"
                                 \/ /\ flow[f].kind = "menu"
                                    /\ flow[f].answer = None \/ Verdict[flow[f].url] = "submit"

\* Notifications are drawn from seq upwards; a flow that waits for a table has one of its own.
Drawing(f) == flow[f].pc \in {"linkWrite", "gateWrite"}
NotesAreFresh ==
    /\ \A n \in NoteId : n > seq => notice[n] = NoNotice
    /\ \A f \in FlowId : Drawing(f) =>
           /\ flow[f].note <= seq
           /\ flow[f].note \in NoteId => notice[flow[f].note] = NoNotice
           /\ \A g \in FlowId \ {f} : Drawing(g) => flow[g].note # flow[f].note

--------------------------------------------------------------------------------
(* The records *)

LEMMA Blank ==
    /\ Empty \in Table
    /\ NoFlow \in FlowState /\ Closed \in Popup
    /\ NoNotice \in Notice /\ ErrorNotice \in Notice
    /\ None \notin FlowId
<1>1. Empty \in Table
    BY DEF Empty, Table, Entry
<1>2. (CHOOSE u \in Url : TRUE) \in Url
    BY ExtensionAssumption
<1>3. NoFlow \in FlowState
    BY <1>1, <1>2, ExtensionAssumption DEF NoFlow, FlowState, Kind, Pc
<1>4. Closed \in Popup /\ NoNotice \in Notice
    BY ExtensionAssumption DEF Closed, Popup, NoNotice, Notice
<1>5. ErrorNotice \in Notice
    BY <1>4 DEF ErrorNotice, NoNotice, Notice
<1> QED
    BY <1>1, <1>3, <1>4, <1>5, ExtensionAssumption

LEMMA Unused == NoFlow.pc = "unused"
BY DEF NoFlow

LEMMA EntryTyped ==
    ASSUME NEW table \in Table, NEW n, NEW value \in Entry
    PROVE  WithEntry(table, n, value) \in Table
BY DEF WithEntry, Table

\* A flow that moves on, and one that ends.
LEMMA FlowTyped ==
    ASSUME Shape, NEW f \in FlowId, NEW x \in FlowState, flow' = [flow EXCEPT ![f] = x]
    PROVE  flow' \in [FlowId -> FlowState]
BY DEF Shape

LEMMA EndTyped ==
    ASSUME Shape, NEW f \in FlowId, End(f) PROVE flow' \in [FlowId -> FlowState]
BY Blank DEF Shape, End

LEMMA NoticeTyped ==
    ASSUME Shape, NEW n, NEW x \in Notice, notice' = [notice EXCEPT ![n] = x]
    PROVE  notice' \in [NoteId -> Notice]
BY DEF Shape

LEMMA FailureTyped ==
    ASSUME Shape, NEW f \in FlowId, NotifyFailure(f)
    PROVE  flow' \in [FlowId -> FlowState] /\ seq' \in Nat /\ notice' \in [NoteId -> Notice]
<1>1. notice' \in [NoteId -> Notice]
    BY Blank DEF Shape, NotifyFailure
<1>2. flow' \in [FlowId -> FlowState]
    BY EndTyped DEF NotifyFailure
<1> QED
    BY <1>1, <1>2 DEF NotifyFailure, NextNotificationId, Shape

LEMMA ReplyTyped ==
    ASSUME Shape, NEW f \in FlowId, NEW at \in {"confirm", "gate", "receipt", "error"}, Reply(f, at)
    PROVE  popup' \in Popup /\ (popup' = Closed \/ popup'.tab \in Url)
<1>1. CASE popup.flow = f
    <2>1. popup' = [popup EXCEPT !.at = at, !.flow = None, !.url = flow[f].url]
        BY <1>1 DEF Reply
    <2>2. flow[f].url \in Url
        BY DEF Shape, FlowState
    <2>3. popup' \in Popup /\ popup'.tab = popup.tab
        BY <2>1, <2>2 DEF Shape, Popup
    <2> QED
        BY <1>1, <2>3, Blank DEF Shape, Closed
<1>2. CASE popup.flow # f
    BY <1>2 DEF Reply, Shape
<1> QED
    BY <1>1, <1>2

LEMMA BadgeTyped == \A text : Shape /\ SetBadge(text) => alarm' \in BOOLEAN
BY DEF SetBadge

--------------------------------------------------------------------------------
(* Shapes are kept *)

LEMMA InitShape == Init => Shape
<1> SUFFICES ASSUME Init PROVE Shape
    OBVIOUS
<1>1. flow \in [FlowId -> FlowState] /\ notice \in [NoteId -> Notice]
    BY Blank DEF Init
<1>2. links \in Table /\ retry \in Table
    BY Blank DEF Init
<1>3. base \in Base /\ popup \in Popup /\ popup = Closed
    BY Blank, ExtensionAssumption DEF Init
<1> QED
    BY <1>1, <1>2, <1>3 DEF Init, Shape

LEMMA UserShape ==
    ASSUME Shape,
           \/ \E u \in Url : Navigate(u)
           \/ \E b \in Base : SaveOptions(b) \/ SyncOptions(b)
           \/ ToggleYoutubeCookies \/ ClosePopup \/ ClearBadge
           \/ \E n \in NoteId : DismissNotice(n)
    PROVE  Shape'
<1>1. ASSUME NEW u \in Url, Navigate(u) PROVE Shape'
    <2>1. popup' \in Popup /\ popup'.tab \in Url
        BY <1>1 DEF Navigate, Shape, Popup
    <2> QED
        BY <1>1, <2>1 DEF Navigate, Shape, options, tables, toolbar
<1>2. ASSUME \/ \E b \in Base : SaveOptions(b) \/ SyncOptions(b)
             \/ ToggleYoutubeCookies \/ ClosePopup \/ ClearBadge
      PROVE  Shape'
    BY <1>2, Blank DEF SaveOptions, SyncOptions, ToggleYoutubeCookies, ClosePopup, ClearBadge,
                       Shape, options, tables, toolbar
<1>3. ASSUME NEW n \in NoteId, DismissNotice(n) PROVE Shape'
    BY <1>3, Blank, NoticeTyped DEF DismissNotice, Shape, options, tables, toolbar
<1> QED
    BY <1>1, <1>2, <1>3

LEMMA KillShape == Shape /\ KillWorker => Shape'
<1> SUFFICES ASSUME Shape, KillWorker PROVE Shape'
    OBVIOUS
<1>1. popup' \in Popup /\ (popup' = Closed \/ popup'.tab \in Url)
    <2>1. CASE popup.flow = None
        BY <2>1 DEF KillWorker, Shape
    <2>2. CASE popup.flow # None
        <3>1. popup.tab \in Url
            BY <2>2 DEF Shape, Closed
        <3>2. popup' = [popup EXCEPT !.at = "error", !.flow = None]
            BY <2>2 DEF KillWorker
        <3> QED
            BY <3>1, <3>2 DEF Shape, Popup
    <2> QED
        BY <2>1, <2>2
<1> QED
    BY <1>1, Blank DEF KillWorker, Shape, options, tables, toolbar

LEMMA MenuShape ==
    ASSUME Shape, NEW f \in FlowId, NEW u \in Url, ContextMenu(f, u) PROVE Shape'
<1>1. CASE Verdict[u] = "local"
    BY <1>1, Blank, NoticeTyped DEF ContextMenu, NextNotificationId, Shape, options, tables, toolbar
<1>2. CASE Verdict[u] # "local"
    <2>1. [NoFlow EXCEPT !.pc = "preflight", !.url = u, !.shown = u] \in FlowState
        BY Blank DEF FlowState, Pc
    <2>2. flow' \in [FlowId -> FlowState]
        BY <1>2, <2>1, FlowTyped DEF ContextMenu
    <2> QED
        BY <1>2, <2>2 DEF ContextMenu, Shape, options, tables, toolbar
<1> QED
    BY <1>1, <1>2

\* The flow that a submit from the popup starts.
Submitted(f, kind, u, moved) ==
    [NoFlow EXCEPT !.kind = kind, !.url = u, !.base = base, !.moved = moved,
                   !.shown = IF kind = "check" THEN u ELSE popup.url,
                   !.pc = IF SkipsPreflight(kind) THEN "post" ELSE "preflight"]

LEMMA SubmittedTyped ==
    ASSUME Shape, NEW f \in FlowId, NEW kind \in Popups, NEW u \in Url, NEW moved \in BOOLEAN
    PROVE  Submitted(f, kind, u, moved) \in FlowState
<1> DEFINE shown == IF kind = "check" THEN u ELSE popup.url
           pc == IF SkipsPreflight(kind) THEN "post" ELSE "preflight"
<1>1. shown \in Url \cup {None} /\ pc \in Pc
    BY DEF Shape, Popup, Pc
<1>2. kind \in Kind /\ base \in Base
    BY DEF Kind, Popups, Shape
<1>3. Submitted(f, kind, u, moved) =
          [NoFlow EXCEPT !.kind = kind, !.url = u, !.base = base, !.moved = moved,
                         !.shown = shown, !.pc = pc]
    BY DEF Submitted
<1> HIDE DEF shown, pc
<1> QED
    BY <1>1, <1>2, <1>3, Blank DEF FlowState

LEMMA SubmitShape ==
    ASSUME Shape, NEW f \in FlowId, NEW kind \in Popups, NEW u \in Url, NEW moved \in BOOLEAN,
           SubmitActiveTab(f, kind, u, moved)
    PROVE  Shape'
<1>1. CASE Verdict[u] = "local" \/ base \notin permitted
    <2>1. popup' = [Closed EXCEPT !.at = "error", !.tab = u, !.moved = moved]
        BY <1>1 DEF SubmitActiveTab
    <2>2. popup' \in Popup /\ popup'.tab \in Url
        BY <2>1, Blank DEF Popup
    <2> QED
        BY <1>1, <2>2 DEF SubmitActiveTab, Shape, options, tables, toolbar
<1>2. CASE ~(Verdict[u] = "local" \/ base \notin permitted)
    <2>1. popup' = [popup EXCEPT !.at = "waiting", !.tab = u, !.flow = f]
        BY <1>2 DEF SubmitActiveTab
    <2>2. popup' \in Popup /\ popup'.tab \in Url
        BY <2>1 DEF Popup, Shape
    <2>3. flow' = [flow EXCEPT ![f] = Submitted(f, kind, u, moved)]
        BY <1>2 DEF SubmitActiveTab, Submitted
    <2>4. flow' \in [FlowId -> FlowState]
        BY <2>3, SubmittedTyped, FlowTyped
    <2>5. alarm' \in BOOLEAN
        BY <1>2 DEF SubmitActiveTab, SetBadge, toolbar, Shape
    <2> QED
        BY <1>2, <2>2, <2>4, <2>5 DEF SubmitActiveTab, Shape, options, tables
<1> QED
    BY <1>1, <1>2

\* A flow that moves on to another place.
LEMMA MoveTyped ==
    ASSUME Shape, NEW f \in FlowId, NEW pc \in Pc
    PROVE  /\ flow' = [flow EXCEPT ![f].pc = pc] => flow' \in [FlowId -> FlowState]
           /\ \A answer \in VerdictKind \cup {None} :
                  flow' = [flow EXCEPT ![f].pc = pc, ![f].answer = answer]
                      => flow' \in [FlowId -> FlowState]
           /\ \A b \in Base : flow' = [flow EXCEPT ![f].pc = pc, ![f].base = b]
                                  => flow' \in [FlowId -> FlowState]
<1>1. flow[f] \in FlowState
    BY DEF Shape
<1>2. [flow[f] EXCEPT !.pc = pc] \in FlowState
    BY <1>1 DEF FlowState
<1>3. \A answer \in VerdictKind \cup {None} :
          [flow[f] EXCEPT !.pc = pc, !.answer = answer] \in FlowState
    BY <1>1 DEF FlowState
<1>4. \A b \in Base : [flow[f] EXCEPT !.pc = pc, !.base = b] \in FlowState
    BY <1>1 DEF FlowState
<1> QED
    BY <1>2, <1>3, <1>4 DEF Shape

LEMMA PreflightShape ==
    ASSUME Shape, NEW f \in FlowId, Preflight(f) PROVE Shape'
<1>0. PICK answer \in {None, Verdict[flow[f].url]} :
          \/ /\ \E pc \in {"config", "post"} :
                    flow' = [flow EXCEPT ![f].pc = pc, ![f].answer = answer]
             /\ SetBadge("...") /\ UNCHANGED <<popup, seq, notice>>
          \/ NotifyFailure(f) /\ UNCHANGED <<popup, toolbar>>
          \/ /\ \E at \in {"confirm", "error"} : Reply(f, at)
             /\ End(f) /\ UNCHANGED <<seq, notice, toolbar>>
    BY DEF Preflight
<1>1. answer \in VerdictKind \cup {None}
    <2>1. flow[f].url \in Url
        BY DEF Shape, FlowState
    <2> QED
        BY <2>1, ExtensionAssumption
<1>2. /\ flow' \in [FlowId -> FlowState] /\ seq' \in Nat /\ notice' \in [NoteId -> Notice]
      /\ popup' \in Popup /\ (popup' = Closed \/ popup'.tab \in Url) /\ alarm' \in BOOLEAN
    <2>1. "config" \in Pc /\ "post" \in Pc
        BY DEF Pc
    <2>2. CASE /\ \E pc \in {"config", "post"} :
                     flow' = [flow EXCEPT ![f].pc = pc, ![f].answer = answer]
               /\ SetBadge("...") /\ UNCHANGED <<popup, seq, notice>>
        <3>1. flow' \in [FlowId -> FlowState]
            <4>1. PICK pc \in {"config", "post"} :
                      flow' = [flow EXCEPT ![f].pc = pc, ![f].answer = answer]
                BY <2>2
            <4> QED
                BY <1>1, <2>1, <4>1, MoveTyped
        <3> QED
            BY <3>1, <2>2, BadgeTyped DEF Shape
    <2>3. CASE NotifyFailure(f) /\ UNCHANGED <<popup, toolbar>>
        BY <2>3, FailureTyped DEF Shape, toolbar
    <2>4. CASE /\ \E at \in {"confirm", "error"} : Reply(f, at)
               /\ End(f) /\ UNCHANGED <<seq, notice, toolbar>>
        BY <2>4, ReplyTyped, EndTyped DEF Shape, toolbar
    <2> QED
        BY <1>0, <2>2, <2>3, <2>4
<1> QED
    BY <1>2 DEF Preflight, Shape, options, tables

LEMMA ConfigShape ==
    ASSUME Shape, NEW f \in FlowId, GetConfig(f) PROVE Shape'
<1>1. CASE base \in permitted
    <2>1. "post" \in Pc /\ base \in Base
        BY DEF Pc, Shape
    <2>2. flow' = [flow EXCEPT ![f].pc = "post", ![f].base = base]
        BY <1>1 DEF GetConfig
    <2>3. flow' \in [FlowId -> FlowState]
        BY <2>1, <2>2, MoveTyped
    <2> QED
        BY <1>1, <2>3 DEF GetConfig, Shape, options, tables, toolbar
<1>2. CASE base \notin permitted
    BY <1>2, FailureTyped, BadgeTyped DEF GetConfig, Shape, options, tables
<1> QED
    BY <1>1, <1>2

LEMMA CreateShape ==
    ASSUME Shape, NEW f \in FlowId, CreateJob(f) PROVE Shape'
<1>1. \/ /\ End(f) /\ \E at \in {"receipt", "gate", "error"} : Reply(f, at)
         /\ \E text \in {"OK", "ERR"} : SetBadge(text)
         /\ UNCHANGED <<seq, notice>>
      \/ /\ \E pc \in {"gateRead", "linkRead"} : flow' = [flow EXCEPT ![f].pc = pc]
         /\ UNCHANGED <<popup, seq, notice, toolbar>>
      \/ NotifyFailure(f) /\ SetBadge("ERR") /\ UNCHANGED popup
    BY DEF CreateJob
<1>2. /\ flow' \in [FlowId -> FlowState] /\ seq' \in Nat /\ notice' \in [NoteId -> Notice]
      /\ popup' \in Popup /\ (popup' = Closed \/ popup'.tab \in Url) /\ alarm' \in BOOLEAN
    <2>1. "gateRead" \in Pc /\ "linkRead" \in Pc
        BY DEF Pc
    <2>2. CASE /\ End(f) /\ \E at \in {"receipt", "gate", "error"} : Reply(f, at)
               /\ \E text \in {"OK", "ERR"} : SetBadge(text)
               /\ UNCHANGED <<seq, notice>>
        BY <2>2, ReplyTyped, EndTyped, BadgeTyped DEF Shape
    <2>3. CASE /\ \E pc \in {"gateRead", "linkRead"} : flow' = [flow EXCEPT ![f].pc = pc]
               /\ UNCHANGED <<popup, seq, notice, toolbar>>
        <3>1. flow' \in [FlowId -> FlowState]
            <4>1. PICK pc \in {"gateRead", "linkRead"} : flow' = [flow EXCEPT ![f].pc = pc]
                BY <2>3
            <4> QED
                BY <2>1, <4>1, MoveTyped
        <3> QED
            BY <2>3, <3>1 DEF Shape, toolbar
    <2>4. CASE NotifyFailure(f) /\ SetBadge("ERR") /\ UNCHANGED popup
        BY <2>4, FailureTyped, BadgeTyped DEF Shape
    <2> QED
        BY <1>1, <2>2, <2>3, <2>4
<1> QED
    BY <1>2 DEF CreateJob, Shape, options, tables

LEMMA ReadShape ==
    ASSUME Shape, NEW f \in FlowId, ReadTable(f) PROVE Shape'
<1>1. PICK note \in Nat, pc \in Pc, snap \in Table :
          flow' = [flow EXCEPT ![f].note = note, ![f].pc = pc, ![f].snap = snap]
    <2>1. seq + 1 \in Nat
        BY DEF Shape
    <2> QED
        BY <2>1 DEF ReadTable, NextNotificationId, Pc, Shape
<1>2. flow' \in [FlowId -> FlowState]
    <2>1. [flow[f] EXCEPT !.note = note, !.pc = pc, !.snap = snap] \in FlowState
        <3>1. flow[f] \in FlowState
            BY DEF Shape
        <3> QED
            BY <3>1 DEF FlowState
    <2> QED
        BY <1>1, <2>1 DEF Shape
<1> QED
    BY <1>2 DEF ReadTable, NextNotificationId, Shape, options, tables, toolbar

LEMMA WriteShape ==
    ASSUME Shape, NEW f \in FlowId, WriteLink(f) \/ WriteRetryUrl(f) \/ RemoveLink(f) PROVE Shape'
<1>1. flow[f] \in FlowState
    BY DEF Shape
<1>2. JobUrl(f) \in Entry /\ flow[f].url \in Entry /\ None \in Entry
    BY <1>1 DEF JobUrl, Entry, Link, FlowState
<1>3. links' \in Table /\ retry' \in Table
    <2>1. flow[f].snap \in Table
        BY <1>1 DEF FlowState
    <2> QED
        BY <1>2, <2>1, EntryTyped DEF WriteLink, WriteRetryUrl, RemoveLink, Shape
<1>4. notice' \in [NoteId -> Notice]
    <2>1. NoticeOf(f, "job") \in Notice /\ NoticeOf(f, "gate") \in Notice
        BY <1>1 DEF NoticeOf, Notice, FlowState
    <2> QED
        BY <2>1, Blank, NoticeTyped DEF WriteLink, WriteRetryUrl, RemoveLink
<1>5. flow' \in [FlowId -> FlowState] /\ alarm' \in BOOLEAN
    BY EndTyped, BadgeTyped DEF WriteLink, WriteRetryUrl, RemoveLink, Shape, toolbar
<1> QED
    BY <1>3, <1>4, <1>5 DEF WriteLink, WriteRetryUrl, RemoveLink, Shape, options

LEMMA FailShape ==
    ASSUME Shape, NEW f \in FlowId, WriteFails(f) PROVE Shape'
<1>1. CASE NotifyFailure(f) /\ SetBadge("ERR")
    BY <1>1, FailureTyped, BadgeTyped DEF WriteFails, Shape, options, tables
<1>2. CASE End(f) /\ UNCHANGED <<seq, notice, toolbar>>
    BY <1>2, EndTyped DEF WriteFails, Shape, options, tables, toolbar
<1> QED
    BY <1>1, <1>2 DEF WriteFails

LEMMA ClickShape ==
    ASSUME Shape, RetryUrls, NEW f \in FlowId, NEW n \in NoteId, ClickNotice(f, n) \/ ClickRetry(f, n)
    PROVE  Shape'
<1>1. n \in Nat
    BY ExtensionAssumption DEF NoteId
<1>2. CASE ClickNotice(f, n)
    <2>1. [NoFlow EXCEPT !.kind = "open", !.pc = "openWrite", !.note = n, !.snap = links] \in FlowState
        BY <1>1, Blank DEF FlowState, Kind, Pc, Shape
    <2>2. flow' \in [FlowId -> FlowState]
        BY <1>2, <2>1, FlowTyped DEF ClickNotice
    <2> QED
        BY <1>2, <2>2 DEF ClickNotice, Shape, options, tables, toolbar
<1>3. CASE ClickRetry(f, n)
    <2>0. retry[n] \in Url
        BY <1>3 DEF ClickRetry, RetryUrls, RetryTable
    <2>1. [NoFlow EXCEPT !.kind = "retry", !.pc = "retryWrite", !.url = retry[n],
                         !.shown = retry[n], !.note = n, !.snap = retry] \in FlowState
        BY <1>1, <2>0, Blank DEF FlowState, Kind, Pc, Shape
    <2>2. flow' \in [FlowId -> FlowState]
        BY <1>3, <2>1, FlowTyped DEF ClickRetry
    <2> QED
        BY <1>3, <2>2 DEF ClickRetry, Shape, options, tables, toolbar
<1> QED
    BY <1>2, <1>3

LEMMA RemoveRetryShape ==
    ASSUME Shape, NEW f \in FlowId, RemoveRetryUrl(f) PROVE Shape'
<1>1. flow[f] \in FlowState
    BY DEF Shape
<1>2. retry' \in Table
    <2>1. flow[f].snap \in Table /\ None \in Entry
        BY <1>1 DEF FlowState, Entry
    <2> QED
        BY <2>1, EntryTyped DEF RemoveRetryUrl
<1>3. notice' \in [NoteId -> Notice]
    BY Blank, NoticeTyped DEF RemoveRetryUrl
<1>4. flow' \in [FlowId -> FlowState]
    <2>1. [flow[f] EXCEPT !.pc = "config", !.note = 0, !.snap = Empty] \in FlowState
        BY <1>1, Blank DEF FlowState, Pc
    <2> QED
        BY <2>1 DEF RemoveRetryUrl, Shape
<1> QED
    BY <1>2, <1>3, <1>4, BadgeTyped DEF RemoveRetryUrl, Shape, options

LEMMA StepShape == Shape /\ RetryUrls /\ Next => Shape'
<1> SUFFICES ASSUME Shape, RetryUrls, Next PROVE Shape'
    OBVIOUS
<1>1. ASSUME NEW f \in FlowId, WorkerStep(f) \/ WriteFails(f) PROVE Shape'
    BY <1>1, PreflightShape, ConfigShape, CreateShape, ReadShape, WriteShape, RemoveRetryShape,
       FailShape DEF WorkerStep
<1>2. ASSUME NEW f \in FlowId, SubmitAnyway(f) \/ RetryWithoutCookies(f) PROVE Shape'
    <2>1. popup.tab \in Url /\ popup.moved \in BOOLEAN
        BY <1>2 DEF SubmitAnyway, RetryWithoutCookies, Shape, Popup, Closed
    <2>2. PICK kind \in Popups : SubmitActiveTab(f, kind, popup.tab, popup.moved)
        BY <1>2 DEF SubmitAnyway, RetryWithoutCookies, Popups
    <2> QED
        BY <2>1, <2>2, SubmitShape
<1>3. ASSUME NEW f \in FlowId, NEW u \in Url, OpenPopup(f, u) PROVE Shape'
    <2>1. SubmitActiveTab(f, "check", u, FALSE)
        BY <1>3 DEF OpenPopup
    <2> QED
        BY <2>1, SubmitShape DEF Popups
<1>4. ASSUME NEW f \in FlowId, NEW u \in Url, ContextMenu(f, u) PROVE Shape'
    BY <1>4, MenuShape
<1>5. ASSUME NEW f \in FlowId, NEW n \in NoteId, ClickNotice(f, n) \/ ClickRetry(f, n)
      PROVE Shape'
    BY <1>5, ClickShape
<1> QED
    BY <1>1, <1>2, <1>3, <1>4, <1>5, UserShape, KillShape DEF Next, UserStep

--------------------------------------------------------------------------------
(* What a step does to the flows *)

\* The user and the browser leave the flows, the tables and the badge alone.
Outside ==
    \/ \E u \in Url : Navigate(u)
    \/ \E b \in Base : SaveOptions(b) \/ SyncOptions(b)
    \/ ToggleYoutubeCookies \/ ClosePopup
    \/ \E n \in NoteId : DismissNotice(n)

LEMMA OutsideAlone ==
    Outside => UNCHANGED <<flow, seq, links, retry, badge, alarm, faults>>
BY DEF Outside, Navigate, SaveOptions, SyncOptions, ToggleYoutubeCookies, ClosePopup,
       DismissNotice, tables, toolbar

\* Starting a handler.
Starts(f) ==
    \/ \E u \in Url : OpenPopup(f, u) \/ ContextMenu(f, u)
    \/ SubmitAnyway(f) \/ RetryWithoutCookies(f)
    \/ \E n \in NoteId : ClickNotice(f, n) \/ ClickRetry(f, n)

LEMMA StepKinds ==
    Next => \/ Outside \/ ClearBadge \/ KillWorker
            \/ \E f \in FlowId : Starts(f) \/ WorkerStep(f) \/ WriteFails(f)
BY DEF Next, UserStep, Outside, Starts

LEMMA OthersStay ==
    ASSUME Shape, NEW f \in FlowId, Starts(f) \/ WorkerStep(f) \/ WriteFails(f)
    PROVE  \A g \in FlowId \ {f} : flow'[g] = flow[g]
<1>1. CASE Starts(f)
    BY <1>1 DEF Starts, OpenPopup, ContextMenu, SubmitAnyway, RetryWithoutCookies, SubmitActiveTab,
                ClickNotice, ClickRetry, Shape
<1>2. CASE Preflight(f) \/ GetConfig(f)
    BY <1>2 DEF Preflight, GetConfig, NotifyFailure, End, Shape
<1>3. CASE CreateJob(f) \/ WriteFails(f)
    BY <1>3 DEF CreateJob, WriteFails, NotifyFailure, End, Shape
<1>4. CASE ReadTable(f) \/ WriteLink(f) \/ WriteRetryUrl(f) \/ RemoveLink(f) \/ RemoveRetryUrl(f)
    BY <1>4 DEF ReadTable, WriteLink, WriteRetryUrl, RemoveLink, RemoveRetryUrl, End, Shape
<1> QED
    BY <1>1, <1>2, <1>3, <1>4 DEF WorkerStep

\* A handler that starts has no flow before, and one at the beginning of its way after.
LEMMA StartsFresh ==
    ASSUME Shape, NEW f \in FlowId, Starts(f)
    PROVE  /\ flow[f] = NoFlow
           /\ UNCHANGED <<links, retry, faults>>
           /\ flow'[f].pc \in {"unused", "preflight", "post", "openWrite", "retryWrite"}
           /\ \/ UNCHANGED <<badge, alarm>>
              \/ flow'[f].pc = "post" /\ badge' = "..."
<1>1. ASSUME NEW n \in NoteId, ClickNotice(f, n) \/ ClickRetry(f, n)
      PROVE  /\ flow[f] = NoFlow /\ flow'[f].pc \in {"openWrite", "retryWrite"}
             /\ UNCHANGED <<links, retry, faults, badge, alarm>>
    <2>1. PICK x \in {[NoFlow EXCEPT !.kind = "open", !.pc = "openWrite", !.note = n, !.snap = links],
                      [NoFlow EXCEPT !.kind = "retry", !.pc = "retryWrite", !.url = retry[n],
                                     !.shown = retry[n], !.note = n, !.snap = retry]} :
              flow' = [flow EXCEPT ![f] = x]
        BY <1>1 DEF ClickNotice, ClickRetry
    <2>2. x.pc \in {"openWrite", "retryWrite"}
        BY <2>1 DEF NoFlow
    <2>3. flow'[f] = x
        BY <2>1 DEF Shape
    <2> QED
        BY <1>1, <2>2, <2>3 DEF ClickNotice, ClickRetry, Fresh, tables, toolbar
<1>2. ASSUME NEW u \in Url, ContextMenu(f, u)
      PROVE  /\ flow[f] = NoFlow /\ flow'[f].pc \in {"unused", "preflight"}
             /\ UNCHANGED <<links, retry, faults, badge, alarm>>
    <2>1. \/ flow' = flow
          \/ flow' = [flow EXCEPT ![f] = [NoFlow EXCEPT !.pc = "preflight", !.url = u, !.shown = u]]
        BY <1>2 DEF ContextMenu
    <2>2. [NoFlow EXCEPT !.pc = "preflight", !.url = u, !.shown = u].pc = "preflight"
        BY DEF NoFlow
    <2> QED
        BY <1>2, <2>1, <2>2, Unused DEF ContextMenu, Fresh, tables, toolbar, Shape
<1>3. ASSUME NEW kind \in Popups, NEW u, NEW moved, SubmitActiveTab(f, kind, u, moved)
      PROVE  /\ flow[f] = NoFlow
             /\ UNCHANGED <<links, retry, faults>>
             /\ flow'[f].pc \in {"unused", "preflight", "post"}
             /\ \/ UNCHANGED <<badge, alarm>>
                \/ flow'[f].pc = "post" /\ badge' = "..."
    <2>1. flow' \in {flow, [flow EXCEPT ![f] = Submitted(f, kind, u, moved)]}
        BY <1>3 DEF SubmitActiveTab, Submitted
    <2>2. /\ Submitted(f, kind, u, moved).pc \in {"preflight", "post"}
          /\ SkipsPreflight(kind) => Submitted(f, kind, u, moved).pc = "post"
        BY DEF Submitted, NoFlow
    <2>3. \/ UNCHANGED <<badge, alarm>>
          \/ /\ flow' = [flow EXCEPT ![f] = Submitted(f, kind, u, moved)]
             /\ SkipsPreflight(kind) /\ badge' = "..."
        BY <1>3 DEF SubmitActiveTab, Submitted, SetBadge, toolbar
    <2> QED
        BY <1>3, <2>1, <2>2, <2>3, Unused DEF SubmitActiveTab, Fresh, tables, Shape
<1> QED
    BY <1>1, <1>2, <1>3 DEF Starts, OpenPopup, SubmitAnyway, RetryWithoutCookies, Popups

--------------------------------------------------------------------------------
(* The badge *)

Tends(f) == flow[f].pc \notin {"unused", "preflight", "openWrite", "retryWrite"}

LEMMA BadgeStep == Shape /\ BadgeIsTended /\ [Next]_vars => BadgeIsTended'
<1> SUFFICES ASSUME Shape, BadgeIsTended, [Next]_vars PROVE BadgeIsTended'
    OBVIOUS
<1>1. CASE UNCHANGED vars \/ Outside
    BY <1>1, OutsideAlone DEF BadgeIsTended, vars, toolbar
<1>2. CASE ClearBadge \/ KillWorker
    <2>1. badge' = "" \/ faults' = faults + 1
        BY <1>2 DEF ClearBadge, KillWorker
    <2>2. faults \in Nat
        BY DEF Shape
    <2>3. faults' = faults + 1 => faults' > 0
        BY <2>2
    <2> QED
        BY <2>1, <2>3 DEF BadgeIsTended
<1>3. ASSUME NEW f \in FlowId, Starts(f) PROVE BadgeIsTended'
    <2>1. ~Tends(f)
        BY <1>3, StartsFresh, Unused DEF Tends
    <2> QED
        BY <1>3, <2>1, OthersStay, StartsFresh DEF BadgeIsTended, Tends
<1>4. ASSUME NEW f \in FlowId, WorkerStep(f) \/ WriteFails(f) PROVE BadgeIsTended'
    <2>1. \/ alarm' \/ faults' > 0
          \/ badge' = "..." /\ Tends(f)'
          \/ UNCHANGED <<badge, alarm, faults>> /\ (~Tends(f) \/ Tends(f)')
        <3>1. CASE Preflight(f)
            <4>1. \/ \E pc \in {"config", "post"} : \E answer :
                        /\ flow' = [flow EXCEPT ![f].pc = pc, ![f].answer = answer]
                        /\ badge' = "..."
                  \/ UNCHANGED toolbar
                BY <3>1 DEF Preflight, SetBadge
            <4>2. ~Tends(f)
                BY <3>1 DEF Preflight, Tends, At
            <4> QED
                BY <3>1, <4>1, <4>2 DEF Preflight, Tends, Shape, FlowState, toolbar
        <3>2. CASE GetConfig(f)
            <4>1. \/ flow' = [flow EXCEPT ![f].pc = "post", ![f].base = base] /\ UNCHANGED toolbar
                  \/ alarm'
                BY <3>2 DEF GetConfig, SetBadge, ClearsLater
            <4> QED
                BY <3>2, <4>1 DEF GetConfig, Tends, Shape, FlowState, toolbar
        <3>3. CASE CreateJob(f)
            <4>1. \/ /\ \E pc \in {"gateRead", "linkRead"} : flow' = [flow EXCEPT ![f].pc = pc]
                     /\ UNCHANGED toolbar
                  \/ alarm'
                BY <3>3 DEF CreateJob, SetBadge, ClearsLater
            <4> QED
                BY <3>3, <4>1 DEF CreateJob, Tends, Shape, FlowState, toolbar
        <3>4. CASE ReadTable(f)
            BY <3>4 DEF ReadTable, Tends, Shape, FlowState, toolbar
        <3>5. CASE WriteLink(f) \/ WriteRetryUrl(f)
            BY <3>5 DEF WriteLink, WriteRetryUrl, SetBadge, ClearsLater
        <3>6. CASE RemoveLink(f)
            BY <3>6 DEF RemoveLink, Tends, At, toolbar
        <3>7. CASE RemoveRetryUrl(f)
            BY <3>7 DEF RemoveRetryUrl, SetBadge, Tends, Shape, FlowState
        <3>8. CASE WriteFails(f)
            BY <3>8 DEF WriteFails, Shape
        <3> QED
            BY <1>4, <3>1, <3>2, <3>3, <3>4, <3>5, <3>6, <3>7, <3>8 DEF WorkerStep
    <2> QED
        BY <1>4, <2>1, OthersStay DEF BadgeIsTended, Tends
<1> QED
    BY <1>1, <1>2, <1>3, <1>4, StepKinds

--------------------------------------------------------------------------------
(* The tables *)

LEMMA RetryUrlsStep == Shape /\ RetryUrls /\ [Next]_vars => RetryUrls'
<1> SUFFICES ASSUME Shape, RetryUrls, [Next]_vars PROVE RetryUrls'
    OBVIOUS
<1>1. CASE UNCHANGED vars \/ Outside \/ ClearBadge
    BY <1>1, OutsideAlone DEF RetryUrls, vars, tables, ClearBadge
<1>2. CASE KillWorker
    BY <1>2, Unused DEF KillWorker, RetryUrls, tables
<1>3. ASSUME NEW f \in FlowId, NEW x \in FlowState,
             x.pc \in {"gateWrite", "retryWrite"} => x.snap \in RetryTable,
             flow' = [flow EXCEPT ![f] = x], retry' \in RetryTable
      PROVE  RetryUrls'
    BY <1>3 DEF RetryUrls, Shape
<1>4. ASSUME NEW f \in FlowId, Starts(f) PROVE RetryUrls'
    <2>1. flow'[f].pc = "retryWrite" => flow'[f].snap = retry
        <3>1. ASSUME NEW n \in NoteId, ClickRetry(f, n) PROVE flow'[f].snap = retry
            BY <3>1 DEF ClickRetry, NoFlow, Shape
        <3>2. ASSUME NEW n \in NoteId, ClickNotice(f, n) PROVE flow'[f].pc = "openWrite"
            BY <3>2 DEF ClickNotice, NoFlow, Shape
        <3>3. ASSUME NEW u \in Url, ContextMenu(f, u) PROVE flow'[f].pc # "retryWrite"
            BY <3>3, Unused DEF ContextMenu, Fresh, NoFlow, Shape
        <3>4. ASSUME NEW kind, NEW u, NEW moved, SubmitActiveTab(f, kind, u, moved)
              PROVE  flow'[f].pc # "retryWrite"
            <4>1. flow' \in {flow, [flow EXCEPT ![f] = Submitted(f, kind, u, moved)]}
                BY <3>4 DEF SubmitActiveTab, Submitted
            <4>2. Submitted(f, kind, u, moved).pc \in {"preflight", "post"}
                BY DEF Submitted, NoFlow
            <4> QED
                BY <3>4, <4>1, <4>2, Unused DEF SubmitActiveTab, Fresh, Shape
        <3> QED
            BY <1>4, <3>1, <3>2, <3>3, <3>4 DEF Starts, OpenPopup, SubmitAnyway, RetryWithoutCookies
    <2> QED
        BY <1>4, <2>1, StartsFresh, OthersStay DEF RetryUrls
<1>5. ASSUME NEW f \in FlowId, WorkerStep(f) \/ WriteFails(f) PROVE RetryUrls'
    <2>1. retry' \in RetryTable
        <3>1. flow[f] \in FlowState /\ None \in Url \cup {None}
            BY DEF Shape
        <3>2. CASE WriteRetryUrl(f)
            BY <3>1, <3>2 DEF WriteRetryUrl, RetryUrls, RetryTable, WithEntry, FlowState, At
        <3>3. CASE RemoveRetryUrl(f)
            BY <3>1, <3>3 DEF RemoveRetryUrl, RetryUrls, RetryTable, WithEntry, At
        <3>4. CASE ~WriteRetryUrl(f) /\ ~RemoveRetryUrl(f)
            BY <1>5, <3>4 DEF WorkerStep, Preflight, GetConfig, CreateJob, ReadTable, WriteLink,
                              RemoveLink, WriteFails, tables, RetryUrls
        <3> QED
            BY <3>2, <3>3, <3>4
    <2>2. flow'[f].pc \in {"gateWrite", "retryWrite"} => flow'[f].snap \in RetryTable
        <3>1. CASE Preflight(f)
            BY <3>1, Unused DEF Preflight, NotifyFailure, End, Shape, FlowState
        <3>2. CASE GetConfig(f)
            BY <3>2, Unused DEF GetConfig, NotifyFailure, End, Shape, FlowState
        <3>3. CASE CreateJob(f) \/ WriteFails(f)
            BY <3>3, Unused DEF CreateJob, WriteFails, NotifyFailure, End, Shape, FlowState
        <3>4. CASE ReadTable(f)
            BY <3>4 DEF ReadTable, Shape, FlowState, RetryUrls, At
        <3>5. CASE WriteLink(f) \/ WriteRetryUrl(f) \/ RemoveLink(f)
            BY <3>5, Unused DEF WriteLink, WriteRetryUrl, RemoveLink, End, Shape
        <3>6. CASE RemoveRetryUrl(f)
            BY <3>6 DEF RemoveRetryUrl, Shape, FlowState
        <3> QED
            BY <1>5, <3>1, <3>2, <3>3, <3>4, <3>5, <3>6 DEF WorkerStep
    <2> QED
        BY <1>5, <2>1, <2>2, OthersStay DEF RetryUrls
<1> QED
    BY <1>1, <1>2, <1>4, <1>5, StepKinds

--------------------------------------------------------------------------------
(* The page that is submitted *)

Pages == PopupWaits /\ PopupAsks /\ Judged /\ NoBlindSubmit

\* What a flow brings to the place where it is.
Sound(x) ==
    /\ x.pc = "preflight" => x.kind \in {"menu", "check"} /\ x.url = x.shown
    /\ x.pc = "retryWrite" => x.kind = "retry" /\ x.url = x.shown
    /\ x.pc = "config" => /\ x.url = x.shown
                          /\ \/ x.kind = "retry"
                             \/ /\ x.kind = "menu"
                                /\ x.answer = None \/ Verdict[x.url] = "submit"
    /\ x.pc = "post" => /\ x.url = x.shown \/ x.moved
                        /\ \/ Verdict[x.url] = "submit"
                           \/ x.kind = "menu" /\ x.answer = None
                           \/ x.kind \in {"force", "bare", "retry"}

LEMMA AllSound == Judged /\ NoBlindSubmit <=> \A f \in FlowId : Sound(flow[f])
BY DEF Judged, NoBlindSubmit, Sound, At

LEMMA AllSoundNext == (Judged /\ NoBlindSubmit)' <=> \A f \in FlowId : Sound(flow'[f])
BY DEF Judged, NoBlindSubmit, Sound, At

\* A step of one flow that is sound, and leaves the popup to the others.
LEMMA OneSound ==
    ASSUME Shape, Pages, NEW f \in FlowId, \A g \in FlowId \ {f} : flow'[g] = flow[g],
           Sound(flow'[f]),
           \/ popup' = popup /\ popup.flow # f
           \/ popup'.flow = None /\ PopupAsks'
           \/ /\ PopupAsks' /\ popup'.flow = f
              /\ flow'[f].kind \in Popups /\ flow'[f].pc \in {"preflight", "post"}
              /\ flow'[f].url = popup'.tab \/ popup'.moved
    PROVE  Pages'
<1>1. (Judged /\ NoBlindSubmit)'
    BY AllSound, AllSoundNext DEF Pages
<1>2. PopupWaits' /\ PopupAsks'
    BY DEF Pages, PopupWaits, PopupAsks, Shape, Popup
<1> QED
    BY <1>1, <1>2 DEF Pages

LEMMA SoundNoFlow == Sound(NoFlow)
BY Unused DEF Sound

LEMMA PagesOutside == Shape /\ Pages /\ (UNCHANGED vars \/ Outside \/ ClearBadge) => Pages'
<1> SUFFICES ASSUME Shape, Pages, UNCHANGED vars \/ Outside \/ ClearBadge PROVE Pages'
    OBVIOUS
<1>1. flow' = flow
    BY OutsideAlone DEF vars, ClearBadge
<1>2. \/ popup' = popup
      \/ popup' = Closed
      \/ \E u \in Url : popup' = [popup EXCEPT !.tab = u, !.moved = TRUE]
    BY DEF vars, ClearBadge, Outside, Navigate, SaveOptions, SyncOptions, ToggleYoutubeCookies,
           ClosePopup, DismissNotice
<1>3. PopupWaits' /\ PopupAsks'
    <2>1. CASE popup' = popup
        BY <1>1, <2>1 DEF Pages, PopupWaits, PopupAsks
    <2>2. CASE popup' = Closed
        BY <2>2 DEF PopupWaits, PopupAsks, Closed
    <2>3. ASSUME NEW u \in Url, popup' = [popup EXCEPT !.tab = u, !.moved = TRUE]
          PROVE  PopupWaits' /\ PopupAsks'
        BY <1>1, <2>3 DEF Pages, PopupWaits, PopupAsks, Shape, Popup
    <2> QED
        BY <1>2, <2>1, <2>2, <2>3
<1>4. Judged' /\ NoBlindSubmit'
    BY <1>1 DEF Pages, Judged, NoBlindSubmit, At
<1> QED
    BY <1>3, <1>4 DEF Pages

LEMMA PagesKill == Shape /\ Pages /\ KillWorker => Pages'
<1> SUFFICES ASSUME Shape, Pages, KillWorker PROVE Pages'
    OBVIOUS
<1>1. (Judged /\ NoBlindSubmit)'
    BY SoundNoFlow, AllSoundNext DEF KillWorker
<1>2. PopupWaits' /\ PopupAsks'
    <2>1. CASE popup.flow = None
        BY <2>1 DEF KillWorker, Pages, PopupWaits, PopupAsks
    <2>2. CASE popup.flow # None
        BY <2>2 DEF KillWorker, PopupWaits, PopupAsks, Shape, Popup
    <2> QED
        BY <2>1, <2>2
<1> QED
    BY <1>1, <1>2 DEF Pages

LEMMA PagesSubmit ==
    ASSUME Shape, Pages, NEW f \in FlowId, NEW kind \in Popups, NEW u \in Url, NEW moved \in BOOLEAN,
           SubmitActiveTab(f, kind, u, moved),
           kind = "check" \/ popup.url = u \/ moved
    PROVE  Pages'
<1>0. flow[f] = NoFlow
    BY DEF SubmitActiveTab, Fresh
<1>1. CASE Verdict[u] = "local" \/ base \notin permitted
    <2>1. flow' = flow /\ popup' = [Closed EXCEPT !.at = "error", !.tab = u, !.moved = moved]
        BY <1>1 DEF SubmitActiveTab
    <2>2. popup'.flow = None /\ popup'.at = "error"
        BY <2>1 DEF Closed
    <2>3. Sound(flow'[f])
        BY <1>0, <2>1, SoundNoFlow
    <2> QED
        BY <2>1, <2>2, <2>3, OneSound DEF PopupAsks
<1>2. CASE ~(Verdict[u] = "local" \/ base \notin permitted)
    <2> DEFINE x == Submitted(f, kind, u, moved)
    <2>1. /\ popup' = [popup EXCEPT !.at = "waiting", !.tab = u, !.flow = f]
          /\ flow' = [flow EXCEPT ![f] = x]
        BY <1>2 DEF SubmitActiveTab, Submitted
    <2>2. /\ x.kind = kind /\ x.url = u /\ x.moved = moved
          /\ x.shown = IF kind = "check" THEN u ELSE popup.url
          /\ x.pc = IF kind = "check" THEN "preflight" ELSE "post"
        BY DEF Submitted, NoFlow, SkipsPreflight, Popups
    <2>3. Sound(x) /\ x.kind \in Popups /\ x.pc \in {"preflight", "post"} /\ x.url = u
        BY <2>2 DEF Sound, Popups
    <2>4. flow'[f] = x /\ \A g \in FlowId \ {f} : flow'[g] = flow[g]
        BY <2>1 DEF Shape
    <2>5. popup'.at = "waiting" /\ popup'.tab = u /\ popup'.flow = f
        BY <2>1 DEF Shape, Popup
    <2> QED
        BY <2>3, <2>4, <2>5, OneSound DEF PopupAsks
<1> QED
    BY <1>1, <1>2

LEMMA PagesStarts ==
    ASSUME Shape, Pages, NEW f \in FlowId, Starts(f) PROVE Pages'
<1>0. flow[f] = NoFlow /\ popup.flow # f
    BY StartsFresh, Unused, Blank DEF Pages, PopupWaits
<1>1. ASSUME NEW n \in NoteId, ClickNotice(f, n) \/ ClickRetry(f, n) PROVE Pages'
    <2>1. ASSUME ClickNotice(f, n) PROVE flow'[f].pc = "openWrite"
        BY <2>1 DEF ClickNotice, NoFlow, Shape
    <2>2. ASSUME ClickRetry(f, n)
          PROVE  /\ flow'[f].pc = "retryWrite" /\ flow'[f].kind = "retry"
                 /\ flow'[f].url = flow'[f].shown
        <3> DEFINE x == [NoFlow EXCEPT !.kind = "retry", !.pc = "retryWrite", !.url = retry[n],
                                       !.shown = retry[n], !.note = n, !.snap = retry]
        <3>1. x.pc = "retryWrite" /\ x.kind = "retry" /\ x.url = x.shown
            BY DEF NoFlow
        <3>2. flow' = [flow EXCEPT ![f] = x]
            BY <2>2 DEF ClickRetry
        <3> HIDE DEF x
        <3> QED
            BY <3>1, <3>2 DEF Shape
    <2>3. Sound(flow'[f])
        BY <1>1, <2>1, <2>2 DEF Sound
    <2> QED
        BY <1>0, <1>1, <2>3, OthersStay, OneSound DEF ClickNotice, ClickRetry
<1>2. ASSUME NEW u \in Url, ContextMenu(f, u) PROVE Pages'
    <2>1. Sound(flow'[f])
        <3>1. Sound([NoFlow EXCEPT !.pc = "preflight", !.url = u, !.shown = u])
            BY DEF Sound, NoFlow
        <3> QED
            BY <1>0, <1>2, <3>1, SoundNoFlow DEF ContextMenu, Shape
    <2> QED
        BY <1>0, <1>2, <2>1, OthersStay, OneSound DEF ContextMenu
<1>3. ASSUME NEW u \in Url, OpenPopup(f, u) PROVE Pages'
    BY <1>3, PagesSubmit DEF OpenPopup, Popups
<1>4. CASE SubmitAnyway(f) \/ RetryWithoutCookies(f)
    <2>1. PICK kind \in {"force", "bare"} : SubmitActiveTab(f, kind, popup.tab, popup.moved)
        BY <1>4 DEF SubmitAnyway, RetryWithoutCookies
    <2>2. popup.at \in {"confirm", "gate"}
        BY <1>4 DEF SubmitAnyway, RetryWithoutCookies
    <2>3. popup.tab \in Url /\ popup.moved \in BOOLEAN
        BY <2>2 DEF Shape, Popup, Closed
    <2>4. popup.url = popup.tab \/ popup.moved
        BY <2>2 DEF Pages, PopupAsks
    <2> QED
        BY <2>1, <2>3, <2>4, PagesSubmit DEF Popups
<1> QED
    BY <1>1, <1>2, <1>3, <1>4 DEF Starts

LEMMA ReplyAsks ==
    ASSUME Shape, Pages, NEW f \in FlowId, NEW at, Reply(f, at)
    PROVE  \/ popup' = popup /\ popup.flow # f
           \/ popup'.flow = None /\ PopupAsks'
<1>1. CASE popup.flow = f
    <2>1. popup' = [popup EXCEPT !.at = at, !.flow = None, !.url = flow[f].url]
        BY <1>1 DEF Reply
    <2>2. flow[f].url = popup.tab \/ popup.moved
        BY <1>1, Blank DEF Pages, PopupWaits
    <2> QED
        BY <2>1, <2>2 DEF PopupAsks, Shape, Popup
<1>2. CASE popup.flow # f
    BY <1>2 DEF Reply
<1> QED
    BY <1>1, <1>2

LEMMA PagesPreflight ==
    ASSUME Shape, Pages, NEW f \in FlowId, Preflight(f) PROVE Pages'
<1>0. /\ flow[f].pc = "preflight" /\ Sound(flow[f])
      /\ \A g \in FlowId \ {f} : flow'[g] = flow[g]
    BY OthersStay, AllSound DEF Preflight, At, Pages, WorkerStep
<1>1. PICK answer \in {None, Verdict[flow[f].url]} :
          \/ /\ flow[f].kind = "menu" /\ (answer = None \/ AutoSubmits(answer))
             /\ flow' = [flow EXCEPT ![f].pc = "config", ![f].answer = answer]
             /\ UNCHANGED popup
          \/ /\ flow[f].kind # "menu" /\ AutoSubmits(answer)
             /\ flow' = [flow EXCEPT ![f].pc = "post", ![f].answer = answer]
             /\ UNCHANGED popup
          \/ flow[f].kind = "menu" /\ End(f) /\ UNCHANGED popup
          \/ (\E at : Reply(f, at)) /\ End(f)
    BY DEF Preflight, NotifyFailure
<1>2. flow[f].kind = "menu" => popup.flow # f
    BY Blank DEF Pages, PopupWaits, Popups
<1>3. End(f) => Sound(flow'[f])
    BY SoundNoFlow DEF End, Shape
<1>4. answer # None => answer = Verdict[flow[f].url]
    BY <1>1
<1>5. CASE /\ flow[f].kind = "menu" /\ (answer = None \/ AutoSubmits(answer))
           /\ flow' = [flow EXCEPT ![f].pc = "config", ![f].answer = answer]
           /\ UNCHANGED popup
    <2>1. /\ flow'[f].pc = "config" /\ flow'[f].answer = answer
          /\ flow'[f].url = flow[f].url /\ flow'[f].shown = flow[f].shown
          /\ flow'[f].kind = flow[f].kind
        BY <1>5 DEF Shape, FlowState
    <2>2. Sound(flow'[f])
        BY <1>0, <1>4, <1>5, <2>1 DEF Sound, AutoSubmits
    <2> QED
        BY <1>0, <1>2, <1>5, <2>2, OneSound
<1>6. CASE /\ flow[f].kind # "menu" /\ AutoSubmits(answer)
           /\ flow' = [flow EXCEPT ![f].pc = "post", ![f].answer = answer]
           /\ UNCHANGED popup
    <2>1. /\ flow'[f].pc = "post" /\ flow'[f].kind = flow[f].kind
          /\ flow'[f].url = flow[f].url /\ flow'[f].shown = flow[f].shown
        BY <1>6 DEF Shape, FlowState
    <2>2. Verdict[flow[f].url] = "submit"
        BY <1>1, <1>6, ExtensionAssumption DEF AutoSubmits, VerdictKind
    <2>3. Sound(flow'[f])
        BY <1>0, <2>1, <2>2 DEF Sound
    <2>4. CASE popup.flow = f
        <3>1. PopupAsks'
            BY <1>6 DEF Pages, PopupAsks
        <3>2. /\ flow[f].kind \in Popups
              /\ flow[f].url = popup.tab \/ popup.moved
            BY <2>4, Blank DEF Pages, PopupWaits
        <3> QED
            BY <1>0, <1>6, <2>1, <2>3, <2>4, <3>1, <3>2, OneSound
    <2>5. CASE popup.flow # f
        BY <1>0, <1>6, <2>3, <2>5, OneSound
    <2> QED
        BY <2>4, <2>5
<1>7. CASE flow[f].kind = "menu" /\ End(f) /\ UNCHANGED popup
    BY <1>0, <1>2, <1>3, <1>7, OneSound
<1>8. CASE (\E at : Reply(f, at)) /\ End(f)
    BY <1>0, <1>3, <1>8, ReplyAsks, OneSound
<1> QED
    BY <1>1, <1>5, <1>6, <1>7, <1>8

LEMMA PagesWorker ==
    ASSUME Shape, Pages, NEW f \in FlowId, WorkerStep(f) \/ WriteFails(f) PROVE Pages'
<1>0. \A g \in FlowId \ {f} : flow'[g] = flow[g]
    BY OthersStay
<1>1. Sound(flow[f])
    BY AllSound DEF Pages
<1>2. flow[f].pc \notin {"preflight", "post"} \/ flow[f].kind \notin Popups => popup.flow # f
    BY Blank DEF Pages, PopupWaits
<1>3. End(f) => Sound(flow'[f])
    BY SoundNoFlow DEF End, Shape
<1>4. CASE GetConfig(f)
    <2>1. Sound(flow'[f])
        <3>1. CASE flow' = [flow EXCEPT ![f].pc = "post", ![f].base = base]
            <4>1. /\ flow'[f].pc = "post" /\ flow'[f].answer = flow[f].answer
                  /\ flow'[f].url = flow[f].url /\ flow'[f].shown = flow[f].shown
                  /\ flow'[f].kind = flow[f].kind
                BY <3>1 DEF Shape, FlowState
            <4> QED
                BY <1>1, <1>4, <4>1 DEF Sound, GetConfig, At
        <3> QED
            BY <1>3, <1>4, <3>1 DEF GetConfig, NotifyFailure
    <2> QED
        BY <1>0, <1>2, <1>4, <2>1, OneSound DEF GetConfig, At
<1>5. CASE CreateJob(f)
    <2>1. CASE flow[f].kind \in Popups
        <3>1. End(f) /\ \E at : Reply(f, at)
            BY <1>5, <2>1 DEF CreateJob
        <3> QED
            BY <1>0, <1>3, <3>1, ReplyAsks, OneSound
    <2>2. CASE flow[f].kind \notin Popups
        <3>1. \/ \E pc \in {"gateRead", "linkRead"} : flow' = [flow EXCEPT ![f].pc = pc]
              \/ End(f)
            BY <1>5, <2>2 DEF CreateJob, NotifyFailure
        <3>2. Sound(flow'[f])
            BY <1>3, <3>1 DEF Sound, Shape, FlowState
        <3> QED
            BY <1>0, <1>2, <1>5, <2>2, <3>2, OneSound DEF CreateJob
    <2> QED
        BY <2>1, <2>2
<1>6. CASE ReadTable(f)
    <2>1. flow'[f].pc \in {"linkWrite", "gateWrite"}
        BY <1>6 DEF ReadTable, Shape, FlowState
    <2> QED
        BY <1>0, <1>2, <1>6, <2>1, OneSound DEF ReadTable, Sound
<1>7. CASE WriteLink(f) \/ WriteRetryUrl(f) \/ RemoveLink(f) \/ WriteFails(f)
    <2>1. popup' = popup /\ popup.flow # f /\ End(f)
        BY <1>2, <1>7 DEF WriteLink, WriteRetryUrl, RemoveLink, WriteFails, NotifyFailure, At
    <2> QED
        BY <1>0, <1>3, <2>1, OneSound
<1>8. CASE RemoveRetryUrl(f)
    <2>1. /\ flow'[f].pc = "config" /\ flow'[f].kind = flow[f].kind
          /\ flow'[f].url = flow[f].url /\ flow'[f].shown = flow[f].shown
        BY <1>8 DEF RemoveRetryUrl, Shape, FlowState
    <2>2. Sound(flow'[f])
        BY <1>1, <1>8, <2>1 DEF Sound, RemoveRetryUrl, At
    <2> QED
        BY <1>0, <1>2, <1>8, <2>2, OneSound DEF RemoveRetryUrl, At
<1> QED
    BY <1>4, <1>5, <1>6, <1>7, <1>8, PagesPreflight DEF WorkerStep

LEMMA PagesStep == Shape /\ Pages /\ [Next]_vars => Pages'
<1> SUFFICES ASSUME Shape, Pages, [Next]_vars PROVE Pages'
    OBVIOUS
<1>1. CASE UNCHANGED vars \/ Outside \/ ClearBadge
    BY <1>1, PagesOutside
<1>2. CASE Next
    BY <1>2, StepKinds, PagesOutside, PagesKill, PagesStarts, PagesWorker
<1> QED
    BY <1>1, <1>2

--------------------------------------------------------------------------------
(* Notifications *)

\* A step draws the next id for an error at once, or for a table that is then waited for, or
\* none; and it shows a notification only where there is none.
LEMMA NotesEffect ==
    ASSUME Shape, NotesAreFresh, NEW f \in FlowId, Starts(f) \/ WorkerStep(f) \/ WriteFails(f)
    PROVE  \/ /\ seq' = seq + 1 /\ notice' = [notice EXCEPT ![seq + 1] = ErrorNotice]
              /\ ~Drawing(f)'
           \/ /\ seq' = seq + 1 /\ notice' = notice
              /\ flow'[f].note = seq + 1
           \/ /\ seq' = seq /\ ~Drawing(f)'
              /\ \/ notice' = notice
                 \/ \E n : notice' = [notice EXCEPT ![n] = NoNotice]
                 \/ Drawing(f) /\ \E x : notice' = [notice EXCEPT ![flow[f].note] = x]
<1>1. CASE Starts(f)
    <2>1. ~Drawing(f)'
        BY <1>1, StartsFresh DEF Drawing
    <2>2. \/ seq' = seq /\ notice' = notice
          \/ seq' = seq + 1 /\ notice' = [notice EXCEPT ![seq + 1] = ErrorNotice]
        BY <1>1 DEF Starts, OpenPopup, ContextMenu, SubmitAnyway, RetryWithoutCookies, SubmitActiveTab,
                    ClickNotice, ClickRetry, NextNotificationId
    <2> QED
        BY <2>1, <2>2
<1>2. CASE Preflight(f) \/ GetConfig(f) \/ CreateJob(f) \/ WriteFails(f)
    <2>1. ~Drawing(f)'
        <3>1. End(f) => ~Drawing(f)'
            BY Unused DEF End, Drawing, Shape
        <3>2. \/ End(f)
              \/ \E pc \in {"config", "post"} : \E answer :
                    flow' = [flow EXCEPT ![f].pc = pc, ![f].answer = answer]
              \/ flow' = [flow EXCEPT ![f].pc = "post", ![f].base = base]
              \/ \E pc \in {"gateRead", "linkRead"} : flow' = [flow EXCEPT ![f].pc = pc]
            BY <1>2 DEF Preflight, GetConfig, CreateJob, WriteFails, NotifyFailure
        <3> QED
            BY <3>1, <3>2 DEF Drawing, Shape, FlowState
    <2>2. \/ seq' = seq /\ notice' = notice
          \/ seq' = seq + 1 /\ notice' = [notice EXCEPT ![seq + 1] = ErrorNotice]
        BY <1>2 DEF Preflight, GetConfig, CreateJob, WriteFails, NotifyFailure, NextNotificationId
    <2> QED
        BY <2>1, <2>2
<1>3. CASE ReadTable(f)
    BY <1>3 DEF ReadTable, NextNotificationId, Shape, FlowState
<1>4. CASE WriteLink(f) \/ WriteRetryUrl(f)
    BY <1>4, Unused DEF WriteLink, WriteRetryUrl, End, Drawing, At, Shape
<1>5. CASE RemoveLink(f)
    BY <1>5, Unused DEF RemoveLink, End, Drawing, Shape
<1>6. CASE RemoveRetryUrl(f)
    BY <1>6 DEF RemoveRetryUrl, Drawing, Shape, FlowState
<1> QED
    BY <1>1, <1>2, <1>3, <1>4, <1>5, <1>6 DEF WorkerStep

\* A notification on the screen stays what it is, or goes.
Kept == \A n \in NoteId : notice[n] # NoNotice => notice'[n] \in {notice[n], NoNotice}

LEMMA NotesOne ==
    ASSUME Shape, NotesAreFresh, NEW f \in FlowId, Starts(f) \/ WorkerStep(f) \/ WriteFails(f)
    PROVE  NotesAreFresh' /\ Kept
<1>0. /\ \A g \in FlowId \ {f} : flow'[g] = flow[g]
      /\ seq \in Nat /\ DOMAIN notice = NoteId /\ NoteId \subseteq Nat
      /\ \A g \in FlowId : flow[g].note \in Nat
    BY OthersStay, ExtensionAssumption DEF Shape, FlowState, NoteId
<1>1. CASE /\ seq' = seq + 1 /\ notice' = [notice EXCEPT ![seq + 1] = ErrorNotice]
           /\ ~Drawing(f)'
    <2>1. \A n \in NoteId : n # seq + 1 => notice'[n] = notice[n]
        BY <1>0, <1>1
    <2>2. \A n \in NoteId : n > seq' => notice'[n] = NoNotice
        BY <1>0, <1>1, <2>1 DEF NotesAreFresh
    <2>3. \A g \in FlowId : Drawing(g)' => Drawing(g) /\ flow'[g] = flow[g] /\ g # f
        BY <1>0, <1>1 DEF Drawing
    <2>4. \A g \in FlowId : Drawing(g)' => flow'[g].note <= seq' /\ flow'[g].note # seq + 1
        BY <1>0, <1>1, <2>3 DEF NotesAreFresh
    <2>5. NotesAreFresh'
        BY <2>1, <2>2, <2>3, <2>4 DEF NotesAreFresh
    <2>6. Kept
        <3>1. seq + 1 \in NoteId => notice[seq + 1] = NoNotice
            BY <1>0 DEF NotesAreFresh
        <3> QED
            BY <2>1, <3>1 DEF Kept
    <2> QED
        BY <2>5, <2>6
<1>2. CASE seq' = seq + 1 /\ notice' = notice /\ flow'[f].note = seq + 1
    <2>1. \A n \in NoteId : n > seq' => notice'[n] = NoNotice
        <3>1. \A n \in NoteId : n > seq + 1 => n > seq
            BY <1>0
        <3> QED
            BY <1>2, <3>1 DEF NotesAreFresh
    <2>2. seq + 1 \in NoteId => notice[seq + 1] = NoNotice
        BY <1>0 DEF NotesAreFresh
    <2>3. \A g \in FlowId : Drawing(g)' /\ g # f => Drawing(g) /\ flow'[g] = flow[g]
        BY <1>0 DEF Drawing
    <2>4. \A g \in FlowId : Drawing(g)' /\ g # f => flow'[g].note <= seq
        BY <2>3 DEF NotesAreFresh
    <2>5. \A g \in FlowId : Drawing(g)' =>
              /\ flow'[g].note <= seq'
              /\ flow'[g].note \in NoteId => notice'[flow'[g].note] = NoNotice
              /\ \A h \in FlowId \ {g} : Drawing(h)' => flow'[h].note # flow'[g].note
        <3> SUFFICES ASSUME NEW g \in FlowId, Drawing(g)'
                     PROVE  /\ flow'[g].note <= seq'
                            /\ flow'[g].note \in NoteId => notice'[flow'[g].note] = NoNotice
                            /\ \A h \in FlowId \ {g} : Drawing(h)' => flow'[h].note # flow'[g].note
            OBVIOUS
        <3>1. CASE g = f
            BY <1>0, <1>2, <2>2, <2>3, <2>4, <3>1
        <3>2. CASE g # f
            <4>1. /\ Drawing(g) /\ flow'[g] = flow[g] /\ flow[g].note <= seq
                  /\ flow[g].note \in NoteId => notice[flow[g].note] = NoNotice
                BY <2>3, <3>2 DEF NotesAreFresh
            <4>2. ASSUME NEW h \in FlowId \ {g}, Drawing(h)' PROVE flow'[h].note # flow'[g].note
                <5>1. CASE h = f
                    BY <1>0, <1>2, <4>1, <5>1
                <5>2. CASE h # f
                    BY <2>3, <4>1, <4>2, <5>2 DEF NotesAreFresh
                <5> QED
                    BY <5>1, <5>2
            <4> QED
                BY <1>0, <1>2, <4>1, <4>2
        <3> QED
            BY <3>1, <3>2
    <2> QED
        BY <1>2, <2>1, <2>5 DEF NotesAreFresh, Kept, Drawing
<1>3. CASE /\ seq' = seq /\ ~Drawing(f)'
           /\ \/ notice' = notice
              \/ \E n : notice' = [notice EXCEPT ![n] = NoNotice]
              \/ Drawing(f) /\ \E x : notice' = [notice EXCEPT ![flow[f].note] = x]
    <2>1. \A g \in FlowId : Drawing(g)' => Drawing(g) /\ flow'[g] = flow[g] /\ g # f
        BY <1>0, <1>3 DEF Drawing
    <2>2. \A n \in NoteId : \/ notice'[n] \in {notice[n], NoNotice}
                            \/ Drawing(f) /\ n = flow[f].note
        BY <1>0, <1>3
    <2>3. Kept
        BY <2>2 DEF NotesAreFresh, Kept
    <2>4. \A n \in NoteId : n > seq' => notice'[n] = NoNotice
        BY <1>0, <1>3, <2>2 DEF NotesAreFresh
    <2>5. \A g \in FlowId :
              Drawing(g)' /\ flow'[g].note \in NoteId => notice'[flow'[g].note] = NoNotice
        BY <2>1, <2>2 DEF NotesAreFresh
    <2>6. NotesAreFresh'
        BY <1>3, <2>1, <2>4, <2>5 DEF NotesAreFresh
    <2> QED
        BY <2>3, <2>6
<1> QED
    BY <1>1, <1>2, <1>3, NotesEffect

LEMMA NotesStep == Shape /\ NotesAreFresh /\ [Next]_vars => NotesAreFresh' /\ Kept
<1> SUFFICES ASSUME Shape, NotesAreFresh, [Next]_vars PROVE NotesAreFresh' /\ Kept
    OBVIOUS
<1>1. CASE UNCHANGED vars \/ Outside \/ ClearBadge
    <2>1. /\ flow' = flow /\ seq' = seq
          /\ notice' = notice \/ \E n : notice' = [notice EXCEPT ![n] = NoNotice]
        BY <1>1, OutsideAlone DEF vars, Outside, Navigate, SaveOptions, SyncOptions,
           ToggleYoutubeCookies, ClosePopup, DismissNotice, ClearBadge
    <2>2. \A n \in NoteId : notice'[n] \in {notice[n], NoNotice}
        BY <2>1 DEF Shape
    <2> QED
        BY <2>1, <2>2 DEF NotesAreFresh, Kept, Drawing
<1>2. CASE KillWorker
    <2>1. \A f \in FlowId : ~Drawing(f)'
        BY <1>2, Unused DEF KillWorker, Drawing
    <2> QED
        BY <1>2, <2>1 DEF KillWorker, NotesAreFresh, Kept
<1> QED
    BY <1>1, <1>2, NotesOne, StepKinds

--------------------------------------------------------------------------------
(* What the notifications offer *)

\* The copy of a table that a handler is going to write back.
CopiesLinks(x) == x.pc \in {"linkWrite", "openWrite"}
CopiesUrls(x) == x.pc \in {"gateWrite", "retryWrite"}

\* An entry under the number of a notification is that notification's own, or none.
LinkFits(n, e) == notice[n].kind = "job" =>
                      e \in {None, [base |-> notice[n].base, url |-> notice[n].url]}
UrlFits(n, e) == notice[n].kind = "gate" => e \in {None, notice[n].url}
CopyFits(x, n) == /\ CopiesLinks(x) => LinkFits(n, x.snap[n])
                  /\ CopiesUrls(x) => UrlFits(n, x.snap[n])

\* No table and no copy has an entry under a number that was not drawn, or whose handler
\* still waits for its table.
Unwritten(n) == n > seq \/ \E f \in FlowId : Drawing(f) /\ flow[f].note = n
Bare(n) == /\ links[n] = None /\ retry[n] = None
           /\ \A f \in FlowId : CopiesLinks(flow[f]) \/ CopiesUrls(flow[f]) => flow[f].snap[n] = None

OffersFit ==
    \A n \in NoteId : /\ LinkFits(n, links[n]) /\ UrlFits(n, retry[n])
                      /\ \A f \in FlowId : CopyFits(flow[f], n)
                      /\ Unwritten(n) => Bare(n)

\* What OfferLostOnlyToRace says of a step.
OffersLast ==
    \A n \in NoteId : Offers(n)' =>
        \/ Works(n)'
        \/ Missing(n)' /\ (Overwritten(n) \/ (Offers(n) /\ Missing(n)))

\* A step that writes no table: a copy that it takes is the table as it is, and a number that
\* it draws is a new one.
LEMMA OffersQuiet ==
    ASSUME Shape, OffersFit, UNCHANGED <<links, retry>>, seq' >= seq, seq' \in Nat,
           \A n \in NoteId : notice'[n] \in {notice[n], NoNotice, ErrorNotice},
           \A g \in FlowId : \/ flow'[g] = flow[g]
                             \/ /\ CopiesLinks(flow'[g]) => flow'[g].snap = links
                                /\ CopiesUrls(flow'[g]) => flow'[g].snap = retry
                                /\ Drawing(g)' => flow'[g].note > seq
    PROVE  OffersFit' /\ OffersLast
<1>0. NoNotice.kind = "none" /\ ErrorNotice.kind = "error" /\ NoteId \subseteq Nat /\ seq \in Nat
    BY ExtensionAssumption DEF NoNotice, ErrorNotice, NoteId, Shape
<1>1. ASSUME NEW n \in NoteId PROVE LinkFits(n, links[n])' /\ UrlFits(n, retry[n])'
    BY <1>0, <1>1 DEF OffersFit, LinkFits, UrlFits
<1>2. ASSUME NEW n \in NoteId, NEW g \in FlowId PROVE CopyFits(flow[g], n)'
    <2>1. \A e : LinkFits(n, e) => LinkFits(n, e)'
        BY <1>0 DEF LinkFits
    <2>2. \A e : UrlFits(n, e) => UrlFits(n, e)'
        BY <1>0 DEF UrlFits
    <2>3. /\ CopiesLinks(flow'[g]) => LinkFits(n, flow'[g].snap[n])
          /\ CopiesUrls(flow'[g]) => UrlFits(n, flow'[g].snap[n])
        BY DEF OffersFit, CopyFits
    <2> QED
        BY <2>1, <2>2, <2>3 DEF CopyFits
<1>3. ASSUME NEW n \in NoteId, Unwritten(n)' PROVE Bare(n)'
    <2>1. Unwritten(n)
        BY <1>0, <1>3 DEF Unwritten, Drawing
    <2>2. Bare(n)
        BY <2>1 DEF OffersFit
    <2> QED
        BY <2>2 DEF Bare
<1>4. ASSUME NEW n \in NoteId, Offers(n)' PROVE Works(n)' \/ (Missing(n)' /\ Offers(n) /\ Missing(n))
    <2>1. notice'[n] = notice[n]
        BY <1>0, <1>4 DEF Offers
    <2>2. notice[n].kind \in {"job", "gate"}
        BY <1>4, <2>1 DEF Offers
    <2>3. LinkFits(n, links[n]) /\ UrlFits(n, retry[n]) /\ links' = links /\ retry' = retry
        BY DEF OffersFit
    <2>4. CASE notice[n].kind = "job"
        BY <2>1, <2>3, <2>4 DEF LinkFits, Offers, Works, Missing
    <2>5. CASE notice[n].kind = "gate"
        BY <2>1, <2>3, <2>5 DEF UrlFits, Offers, Works, Missing
    <2> QED
        BY <2>2, <2>4, <2>5
<1> QED
    BY <1>1, <1>2, <1>3, <1>4 DEF OffersFit, OffersLast

\* A handler's step that writes no table is such a step.
LEMMA QuietEffect ==
    ASSUME Shape, NotesAreFresh, NEW f \in FlowId, Starts(f) \/ WorkerStep(f) \/ WriteFails(f),
           ~WriteLink(f), ~WriteRetryUrl(f), ~RemoveLink(f), ~RemoveRetryUrl(f)
    PROVE  /\ UNCHANGED <<links, retry>> /\ seq' >= seq /\ seq' \in Nat
           /\ \A n \in NoteId : notice'[n] \in {notice[n], NoNotice, ErrorNotice}
           /\ CopiesLinks(flow'[f]) => flow'[f].snap = links
           /\ CopiesUrls(flow'[f]) => flow'[f].snap = retry
           /\ Drawing(f)' => flow'[f].note > seq
<1>1. /\ seq' >= seq /\ seq' \in Nat
      /\ Drawing(f)' => flow'[f].note > seq
    BY NotesEffect DEF Shape
<1>2. UNCHANGED <<links, retry>>
    BY StartsFresh DEF WorkerStep, Preflight, GetConfig, CreateJob, ReadTable, WriteFails, tables
<1>3. notice' = notice \/ \E m : notice' = [notice EXCEPT ![m] = ErrorNotice]
    BY DEF Starts, OpenPopup, ContextMenu, SubmitAnyway, RetryWithoutCookies, SubmitActiveTab,
           ClickNotice, ClickRetry, WorkerStep, Preflight, GetConfig, CreateJob, ReadTable,
           WriteFails, NotifyFailure
<1>4. \A n \in NoteId : notice'[n] \in {notice[n], NoNotice, ErrorNotice}
    BY <1>3 DEF Shape
<1>5. /\ CopiesLinks(flow'[f]) => flow'[f].snap = links
      /\ CopiesUrls(flow'[f]) => flow'[f].snap = retry
    <2>1. CASE Starts(f)
        <3>1. ASSUME NEW n \in NoteId, ClickNotice(f, n)
              PROVE  flow'[f].pc = "openWrite" /\ flow'[f].snap = links
            BY <3>1 DEF ClickNotice, NoFlow, Shape
        <3>2. ASSUME NEW n \in NoteId, ClickRetry(f, n)
              PROVE  flow'[f].pc = "retryWrite" /\ flow'[f].snap = retry
            BY <3>2 DEF ClickRetry, NoFlow, Shape
        <3>3. ASSUME NEW u \in Url, ContextMenu(f, u) PROVE flow'[f].pc \in {"unused", "preflight"}
            BY <3>3, Unused DEF ContextMenu, Fresh, NoFlow, Shape
        <3>4. ASSUME NEW kind, NEW u, NEW moved, SubmitActiveTab(f, kind, u, moved)
              PROVE  flow'[f].pc \in {"unused", "preflight", "post"}
            <4>1. flow' \in {flow, [flow EXCEPT ![f] = Submitted(f, kind, u, moved)]}
                BY <3>4 DEF SubmitActiveTab, Submitted
            <4>2. Submitted(f, kind, u, moved).pc \in {"preflight", "post"}
                BY DEF Submitted, NoFlow
            <4> QED
                BY <3>4, <4>1, <4>2, Unused DEF SubmitActiveTab, Fresh, Shape
        <3> QED
            BY <2>1, <3>1, <3>2, <3>3, <3>4 DEF Starts, OpenPopup, SubmitAnyway,
               RetryWithoutCookies, CopiesLinks, CopiesUrls
    <2>2. CASE Preflight(f) \/ GetConfig(f) \/ CreateJob(f) \/ WriteFails(f)
        <3>1. \/ End(f)
              \/ \E pc \in {"config", "post"} : \E answer :
                    flow' = [flow EXCEPT ![f].pc = pc, ![f].answer = answer]
              \/ flow' = [flow EXCEPT ![f].pc = "post", ![f].base = base]
              \/ \E pc \in {"gateRead", "linkRead"} : flow' = [flow EXCEPT ![f].pc = pc]
            BY <2>2 DEF Preflight, GetConfig, CreateJob, WriteFails, NotifyFailure
        <3>2. flow'[f].pc \in {"unused", "config", "post", "gateRead", "linkRead"}
            BY <3>1, Unused DEF End, Shape, FlowState
        <3> QED
            BY <3>2 DEF CopiesLinks, CopiesUrls
    <2>3. CASE ReadTable(f)
        BY <2>3 DEF ReadTable, At, Shape, FlowState, CopiesLinks, CopiesUrls
    <2> QED
        BY <2>1, <2>2, <2>3 DEF WorkerStep
<1> QED
    BY <1>1, <1>2, <1>4, <1>5

\* A table that is written back: every entry but one is the copy's.
LEMMA OffersWritten ==
    ASSUME Shape, NotesAreFresh, OffersFit, NEW f \in FlowId,
           WriteLink(f) \/ WriteRetryUrl(f) \/ RemoveLink(f) \/ RemoveRetryUrl(f)
    PROVE  OffersFit' /\ OffersLast
<1>m. PICK m \in Nat : m = flow[f].note
    BY DEF Shape, FlowState
<1>0. /\ NoNotice.kind = "none" /\ NoteId \subseteq Nat
      /\ seq' = seq /\ seq \in Nat
      /\ flow[f].snap \in Table /\ links \in Table /\ retry \in Table
    BY ExtensionAssumption DEF NoNotice, NoteId, Shape, FlowState, WriteLink, WriteRetryUrl,
                               RemoveLink, RemoveRetryUrl
<1>1. \A g \in FlowId \ {f} : flow'[g] = flow[g]
    BY OthersStay DEF WorkerStep
<1>2. flow'[f].pc \in {"unused", "config"}
    <2>1. End(f) => flow'[f].pc = "unused"
        BY Unused DEF End, Shape
    <2>2. RemoveRetryUrl(f) => flow'[f].pc = "config"
        BY DEF RemoveRetryUrl, Shape, FlowState
    <2> QED
        BY <2>1, <2>2 DEF WriteLink, WriteRetryUrl, RemoveLink
<1>3. \/ /\ flow[f].pc \in {"linkWrite", "openWrite"} /\ retry' = retry
         /\ \E v : links' = [flow[f].snap EXCEPT ![m] = v]
      \/ /\ flow[f].pc \in {"gateWrite", "retryWrite"} /\ links' = links
         /\ \E v : retry' = [flow[f].snap EXCEPT ![m] = v]
    BY <1>m DEF WriteLink, WriteRetryUrl, RemoveLink, RemoveRetryUrl, WithEntry, At
<1>4. \A n \in NoteId \ {m} : notice'[n] = notice[n]
    BY <1>m DEF WriteLink, WriteRetryUrl, RemoveLink, RemoveRetryUrl, Shape
<1>5. ASSUME NEW n \in NoteId \ {m}
      PROVE  \/ /\ flow[f].pc \in {"linkWrite", "openWrite"}
                /\ links'[n] = flow[f].snap[n] /\ retry'[n] = retry[n]
             \/ /\ flow[f].pc \in {"gateWrite", "retryWrite"}
                /\ links'[n] = links[n] /\ retry'[n] = flow[f].snap[n]
    BY <1>0, <1>3 DEF Table
<1>6. ASSUME NEW n \in NoteId \ {m} PROVE LinkFits(n, links'[n]) /\ UrlFits(n, retry'[n])
    <2>1. LinkFits(n, links[n]) /\ UrlFits(n, retry[n]) /\ CopyFits(flow[f], n)
        BY DEF OffersFit
    <2> QED
        BY <1>5, <2>1 DEF CopyFits, CopiesLinks, CopiesUrls
<1>7. ASSUME RemoveLink(f) \/ RemoveRetryUrl(f), m \in NoteId
      PROVE  /\ notice'[m] = NoNotice
             /\ links'[m] \in {None, links[m]} /\ retry'[m] \in {None, retry[m]}
    BY <1>m, <1>0, <1>7 DEF RemoveLink, RemoveRetryUrl, WithEntry, Table, Shape
<1>8. ASSUME WriteLink(f) \/ WriteRetryUrl(f), m \in NoteId
      PROVE  /\ Bare(m) /\ ~Unwritten(m)' /\ Works(m)'
             /\ LinkFits(m, links[m])' /\ UrlFits(m, retry[m])'
    <2>1. Drawing(f)
        BY <1>8 DEF WriteLink, WriteRetryUrl, Drawing, At
    <2>2. Bare(m)
        BY <1>m, <1>8, <2>1 DEF OffersFit, Unwritten
    <2>3. ~Unwritten(m)'
        <3>1. ~(m > seq')
            <4>1. m <= seq
                BY <1>m, <2>1 DEF NotesAreFresh
            <4> QED
                BY <1>0, <4>1
        <3>2. ASSUME NEW g \in FlowId, Drawing(g)' PROVE flow'[g].note # m
            <4>1. g # f
                BY <1>2, <3>2 DEF Drawing
            <4>2. Drawing(g) /\ flow'[g] = flow[g]
                BY <1>1, <3>2, <4>1 DEF Drawing
            <4> QED
                BY <1>m, <2>1, <4>1, <4>2 DEF NotesAreFresh
        <3> QED
            BY <3>1, <3>2 DEF Unwritten
    <2>4. CASE WriteLink(f)
        <3>1. notice'[m] = NoticeOf(f, "job") /\ links'[m] = JobUrl(f) /\ retry' = retry
            BY <1>m, <1>0, <1>8, <2>4 DEF WriteLink, WithEntry, Table, Shape
        <3> QED
            BY <2>2, <2>3, <3>1 DEF NoticeOf, JobUrl, Works, LinkFits, UrlFits
    <2>5. CASE WriteRetryUrl(f)
        <3>1. notice'[m] = NoticeOf(f, "gate") /\ retry'[m] = flow[f].url /\ links' = links
            BY <1>m, <1>0, <1>8, <2>5 DEF WriteRetryUrl, WithEntry, Table, Shape
        <3> QED
            BY <2>2, <2>3, <3>1 DEF NoticeOf, Works, LinkFits, UrlFits
    <2> QED
        BY <1>8, <2>4, <2>5
<1>w. RemoveLink(f) \/ RemoveRetryUrl(f) \/ WriteLink(f) \/ WriteRetryUrl(f)
    OBVIOUS
<1>9. ASSUME NEW n \in NoteId PROVE LinkFits(n, links[n])' /\ UrlFits(n, retry[n])'
    <2>1. CASE n # m
        BY <1>4, <1>6, <2>1 DEF LinkFits, UrlFits
    <2>2. CASE n = m
        BY <1>w, <1>0, <1>7, <1>8, <2>2 DEF LinkFits, UrlFits
    <2> QED
        BY <2>1, <2>2
<1>10. ASSUME NEW n \in NoteId, NEW g \in FlowId PROVE CopyFits(flow[g], n)'
    <2>1. CASE g = f
        BY <1>2, <2>1 DEF CopyFits, CopiesLinks, CopiesUrls
    <2>2. CASE g # f /\ n # m
        BY <1>1, <1>4, <2>2 DEF OffersFit, CopyFits, LinkFits, UrlFits
    <2>3. CASE g # f /\ n = m
        BY <1>w, <1>0, <1>1, <1>7, <1>8, <2>3 DEF Bare, CopyFits, LinkFits, UrlFits
    <2> QED
        BY <2>1, <2>2, <2>3
<1>11. ASSUME NEW n \in NoteId, Unwritten(n)' PROVE Bare(n)'
    <2>1. Unwritten(n)
        BY <1>0, <1>1, <1>2, <1>11 DEF Unwritten, Drawing
    <2>2. Bare(n)
        BY <2>1 DEF OffersFit
    <2>3. links'[n] = None /\ retry'[n] = None
        <3>1. CASE n # m
            BY <1>5, <2>2, <3>1 DEF Bare, CopiesLinks, CopiesUrls
        <3>2. CASE n = m
            BY <1>w, <1>7, <1>8, <1>11, <2>2, <3>2 DEF Bare
        <3> QED
            BY <3>1, <3>2
    <2>4. \A g \in FlowId : (CopiesLinks(flow[g]) \/ CopiesUrls(flow[g]))' => flow'[g].snap[n] = None
        BY <1>1, <1>2, <2>2 DEF Bare, CopiesLinks, CopiesUrls
    <2> QED
        BY <2>3, <2>4 DEF Bare
<1>12. ASSUME NEW n \in NoteId, Offers(n)'
       PROVE  \/ Works(n)'
              \/ Missing(n)' /\ (Overwritten(n) \/ (Offers(n) /\ Missing(n)))
    <2>1. CASE n = m
        BY <1>w, <1>0, <1>7, <1>8, <1>12, <2>1 DEF Offers
    <2>2. CASE n # m
        <3>1. notice'[n] = notice[n] /\ notice[n].kind \in {"job", "gate"}
            BY <1>4, <1>12, <2>2 DEF Offers
        <3>2. Works(n)' \/ Missing(n)'
            BY <1>9, <3>1 DEF LinkFits, UrlFits, Works, Missing
        <3>3. flow'[f].pc # flow[f].pc
            BY <1>2, <1>3
        <3>4. ASSUME Missing(n)', ~Works(n)' PROVE Overwritten(n) \/ (Offers(n) /\ Missing(n))
            <4>1. CASE notice[n].kind = "job"
                <5>1. links'[n] = None /\ Writing(n) = {"linkWrite", "openWrite"}
                    BY <3>1, <3>4, <4>1 DEF Missing, Writing
                <5>2. CASE links'[n] = links[n]
                    BY <3>1, <4>1, <5>1, <5>2 DEF Missing, Offers
                <5>3. CASE flow[f].pc \in {"linkWrite", "openWrite"} /\ links'[n] = flow[f].snap[n]
                    BY <1>m, <2>2, <3>3, <5>1, <5>3 DEF Overwritten
                <5> QED
                    BY <1>5, <2>2, <5>2, <5>3
            <4>2. CASE notice[n].kind = "gate"
                <5>1. retry'[n] = None /\ Writing(n) = {"gateWrite", "retryWrite"}
                    BY <3>1, <3>4, <4>2 DEF Missing, Writing
                <5>2. CASE retry'[n] = retry[n]
                    BY <3>1, <4>2, <5>1, <5>2 DEF Missing, Offers
                <5>3. CASE flow[f].pc \in {"gateWrite", "retryWrite"} /\ retry'[n] = flow[f].snap[n]
                    BY <1>m, <2>2, <3>3, <5>1, <5>3 DEF Overwritten
                <5> QED
                    BY <1>5, <2>2, <5>2, <5>3
            <4> QED
                BY <3>1, <4>1, <4>2
        <3> QED
            BY <3>2, <3>4
    <2> QED
        BY <2>1, <2>2
<1> QED
    BY <1>9, <1>10, <1>11, <1>12 DEF OffersFit, OffersLast

LEMMA OffersStep == Shape /\ NotesAreFresh /\ OffersFit /\ [Next]_vars => OffersFit' /\ OffersLast
<1> SUFFICES ASSUME Shape, NotesAreFresh, OffersFit, [Next]_vars PROVE OffersFit' /\ OffersLast
    OBVIOUS
<1>0. seq \in Nat /\ seq >= seq
    BY DEF Shape
<1>1. CASE UNCHANGED vars \/ Outside \/ ClearBadge \/ KillWorker
    <2>1. UNCHANGED <<links, retry, seq>>
        BY <1>1, OutsideAlone DEF vars, tables, ClearBadge, KillWorker
    <2>2. \A n \in NoteId : notice'[n] \in {notice[n], NoNotice, ErrorNotice}
        BY <1>1 DEF vars, Outside, Navigate, SaveOptions, SyncOptions, ToggleYoutubeCookies, ClosePopup,
                    DismissNotice, ClearBadge, KillWorker, Shape
    <2>3. \A g \in FlowId : flow'[g] = flow[g] \/ flow'[g].pc = "unused"
        BY <1>1, OutsideAlone, Unused DEF vars, ClearBadge, KillWorker
    <2>4. \A g \in FlowId : flow'[g].pc = "unused" =>
              ~CopiesLinks(flow'[g]) /\ ~CopiesUrls(flow'[g]) /\ ~Drawing(g)'
        BY DEF CopiesLinks, CopiesUrls, Drawing
    <2> QED
        BY <1>0, <2>1, <2>2, <2>3, <2>4, OffersQuiet
<1>2. ASSUME NEW f \in FlowId, Starts(f) \/ WorkerStep(f) \/ WriteFails(f)
      PROVE  OffersFit' /\ OffersLast
    <2>1. CASE WriteLink(f) \/ WriteRetryUrl(f) \/ RemoveLink(f) \/ RemoveRetryUrl(f)
        BY <2>1, OffersWritten
    <2>2. CASE ~WriteLink(f) /\ ~WriteRetryUrl(f) /\ ~RemoveLink(f) /\ ~RemoveRetryUrl(f)
        BY <1>2, <2>2, QuietEffect, OthersStay, OffersQuiet
    <2> QED
        BY <2>1, <2>2
<1> QED
    BY <1>1, <1>2, StepKinds

--------------------------------------------------------------------------------
(* How far the numbers of notifications get *)

\* A flow that may still draw a number.  Its start has paid for it; a number that is drawn
\* when the link's table cannot be written is paid for by that fault.
Owing(f) == flow[f].pc \in {"preflight", "config", "post", "linkRead", "gateRead", "retryWrite"}
Owed == {f \in FlowId : Owing(f)}

Counted ==
    /\ started \in 0 .. MaxStarts /\ faults \in 0 .. MaxFaults
    /\ IsFiniteSet(Owed) /\ seq + Cardinality(Owed) <= started + faults

\* Of a step of a flow: a start pays, a draw ends what is owed, and a fault ends the flow.
LEMMA CountEffect ==
    ASSUME Shape, NEW f \in FlowId, Starts(f) \/ WorkerStep(f) \/ WriteFails(f)
    PROVE  \/ /\ started < MaxStarts /\ started' = started + 1 /\ faults' = faults
              /\ ~Owing(f) /\ (seq' = seq \/ (seq' = seq + 1 /\ ~Owing(f)'))
           \/ /\ started' = started /\ faults' = faults
              /\ \/ seq' = seq /\ (Owing(f)' => Owing(f))
                 \/ seq' = seq + 1 /\ Owing(f) /\ ~Owing(f)'
           \/ /\ started' = started /\ faults < MaxFaults /\ faults' = faults + 1
              /\ seq' \in {seq, seq + 1} /\ ~Owing(f)'
<1>0. flow[f] \in FlowState /\ (End(f) => ~Owing(f)')
    BY Unused DEF Shape, End, Owing
<1>1. CASE Starts(f)
    <2>1. ~Owing(f) /\ faults' = faults
        BY <1>1, StartsFresh, Unused DEF Owing
    <2>2. started < MaxStarts /\ started' = started + 1
        BY <1>1 DEF Starts, OpenPopup, ContextMenu, SubmitAnyway, RetryWithoutCookies,
                    SubmitActiveTab, ClickNotice, ClickRetry, Fresh
    <2>3. seq' = seq \/ (seq' = seq + 1 /\ flow' = flow)
        BY <1>1 DEF Starts, OpenPopup, ContextMenu, SubmitAnyway, RetryWithoutCookies,
                    SubmitActiveTab, ClickNotice, ClickRetry, NextNotificationId
    <2> QED
        BY <2>1, <2>2, <2>3 DEF Owing
<1>2. CASE Preflight(f)
    <2>1. Owing(f) /\ started' = started /\ faults' = faults
        BY <1>2 DEF Preflight, Owing, At
    <2>2. seq' = seq \/ (seq' = seq + 1 /\ End(f))
        BY <1>2 DEF Preflight, NotifyFailure, NextNotificationId
    <2> QED
        BY <1>0, <2>1, <2>2
<1>3. CASE GetConfig(f) \/ CreateJob(f)
    <2>1. Owing(f) /\ started' = started /\ faults' = faults
        BY <1>3 DEF GetConfig, CreateJob, Owing, At
    <2>2. seq' = seq \/ (seq' = seq + 1 /\ End(f))
        BY <1>3 DEF GetConfig, CreateJob, NotifyFailure, NextNotificationId
    <2> QED
        BY <1>0, <2>1, <2>2
<1>4. CASE ReadTable(f)
    <2>1. Owing(f) /\ started' = started /\ faults' = faults /\ seq' = seq + 1
        BY <1>4 DEF ReadTable, Owing, NextNotificationId
    <2>2. flow'[f].pc \in {"linkWrite", "gateWrite"}
        BY <1>0, <1>4 DEF ReadTable, Shape, FlowState
    <2> QED
        BY <2>1, <2>2 DEF Owing
<1>5. CASE WriteLink(f) \/ WriteRetryUrl(f) \/ RemoveLink(f)
    BY <1>0, <1>5 DEF WriteLink, WriteRetryUrl, RemoveLink
<1>6. CASE RemoveRetryUrl(f)
    BY <1>6 DEF RemoveRetryUrl, Owing, At
<1>7. CASE WriteFails(f)
    <2>1. End(f) /\ seq' \in {seq, seq + 1}
        BY <1>7 DEF WriteFails, NotifyFailure, NextNotificationId
    <2> QED
        BY <1>0, <1>7, <2>1 DEF WriteFails
<1> QED
    BY <1>1, <1>2, <1>3, <1>4, <1>5, <1>6, <1>7 DEF WorkerStep

LEMMA CountedOne ==
    ASSUME Shape, Counted, NEW f \in FlowId, Starts(f) \/ WorkerStep(f) \/ WriteFails(f)
    PROVE  Counted'
<1>1. /\ \A g \in FlowId \ {f} : Owing(g)' <=> Owing(g)
      /\ seq \in Nat /\ started \in Nat /\ faults \in Nat /\ MaxStarts \in Nat /\ MaxFaults \in Nat
    BY OthersStay, ExtensionAssumption DEF Owing, Shape, Counted
<1>2. /\ Cardinality(Owed) \in Nat
      /\ IsFiniteSet(Owed \cup {f}) /\ IsFiniteSet(Owed \ {f})
      /\ Cardinality(Owed \cup {f}) = IF Owing(f) THEN Cardinality(Owed) ELSE Cardinality(Owed) + 1
      /\ Cardinality(Owed \ {f}) = IF Owing(f) THEN Cardinality(Owed) - 1 ELSE Cardinality(Owed)
    BY FS_CardinalityType, FS_AddElement, FS_RemoveElement DEF Counted, Owed
<1>3. Owed' = IF Owing(f)' THEN Owed \cup {f} ELSE Owed \ {f}
    BY <1>1 DEF Owed
<1>4. /\ IsFiniteSet(Owed')
      /\ Owing(f)' => Cardinality(Owed') = IF Owing(f) THEN Cardinality(Owed)
                                           ELSE Cardinality(Owed) + 1
      /\ ~Owing(f)' => Cardinality(Owed') = IF Owing(f) THEN Cardinality(Owed) - 1
                                            ELSE Cardinality(Owed)
    BY <1>2, <1>3
<1>5. seq' + Cardinality(Owed') <= started' + faults'
    BY <1>1, <1>2, <1>4, CountEffect DEF Counted
<1>6. started' \in 0 .. MaxStarts /\ faults' \in 0 .. MaxFaults
    BY <1>1, CountEffect DEF Counted
<1> QED
    BY <1>4, <1>5, <1>6 DEF Counted

LEMMA CountedStep == Shape /\ Counted /\ [Next]_vars => Counted'
<1> SUFFICES ASSUME Shape, Counted, [Next]_vars PROVE Counted'
    OBVIOUS
<1>1. CASE UNCHANGED vars \/ Outside \/ ClearBadge
    <2>1. UNCHANGED <<flow, seq, started, faults>>
        BY <1>1, OutsideAlone DEF vars, ClearBadge, Outside, Navigate, SaveOptions, SyncOptions,
                                  ToggleYoutubeCookies, ClosePopup, DismissNotice
    <2> QED
        BY <2>1 DEF Counted, Owed, Owing
<1>2. CASE KillWorker
    <2>1. Owed' = {} /\ seq' = seq /\ started' = started /\ faults < MaxFaults /\ faults' = faults + 1
        BY <1>2, Unused DEF KillWorker, Owed, Owing
    <2>2. Cardinality(Owed) \in Nat /\ IsFiniteSet(Owed') /\ Cardinality(Owed') = 0
        BY <2>1, FS_CardinalityType, FS_EmptySet DEF Counted
    <2>3. seq \in Nat /\ started \in Nat /\ faults \in Nat /\ MaxFaults \in Nat
        BY ExtensionAssumption DEF Shape, Counted
    <2> QED
        BY <2>1, <2>2, <2>3 DEF Counted
<1> QED
    BY <1>1, <1>2, CountedOne, StepKinds

\* Who may draw a number draws one that there is a notification for.
LEMMA NumbersSuffice ==
    ASSUME Shape, Counted, NEW f \in FlowId, Owing(f) PROVE seq + 1 \in NoteId
<1>1. Cardinality(Owed) \in Nat /\ Cardinality(Owed) # 0
    <2>1. f \in Owed
        BY DEF Owed
    <2> QED
        BY <2>1, FS_CardinalityType, FS_EmptySet DEF Counted
<1>2. seq \in Nat /\ MaxStarts \in Nat /\ MaxFaults \in Nat
    BY ExtensionAssumption DEF Shape
<1> QED
    BY <1>1, <1>2 DEF Counted, NoteId

--------------------------------------------------------------------------------
(* What the flows carry, and the options *)

\* A flow about to write a table has a copy of that table, for a notification there is.
Carries(x) ==
    /\ x.note \in NoteId \cup {0} /\ x.snap \in LinkTable \cup RetryTable
    /\ x.pc \in {"linkWrite", "openWrite"} => x.snap \in LinkTable
LinkUrls == links \in LinkTable /\ \A f \in FlowId : Carries(flow[f])

LEMMA CarriesNothing == Empty \in LinkTable /\ Empty \in RetryTable /\ Carries(NoFlow)
BY Unused DEF Empty, LinkTable, RetryTable, Carries, NoFlow

LEMMA StartCarries ==
    ASSUME Shape, RetryUrls, LinkUrls, NEW f \in FlowId, Starts(f) PROVE Carries(flow'[f])
<1>1. ASSUME NEW n \in NoteId, ClickNotice(f, n) PROVE Carries(flow'[f])
    BY <1>1 DEF ClickNotice, NoFlow, Shape, Carries, LinkUrls
<1>2. ASSUME NEW n \in NoteId, ClickRetry(f, n) PROVE Carries(flow'[f])
    BY <1>2 DEF ClickRetry, NoFlow, Shape, Carries, RetryUrls
<1>3. ASSUME NEW u \in Url, ContextMenu(f, u) PROVE Carries(flow'[f])
    <2>1. Carries([NoFlow EXCEPT !.pc = "preflight", !.url = u, !.shown = u])
        BY CarriesNothing DEF Carries, NoFlow
    <2> QED
        BY <1>3, <2>1, CarriesNothing DEF ContextMenu, Fresh, Shape
<1>4. ASSUME NEW kind, NEW u, NEW moved, SubmitActiveTab(f, kind, u, moved)
      PROVE  Carries(flow'[f])
    <2>1. flow' \in {flow, [flow EXCEPT ![f] = Submitted(f, kind, u, moved)]}
        BY <1>4 DEF SubmitActiveTab, Submitted
    <2>2. Carries(Submitted(f, kind, u, moved))
        BY CarriesNothing DEF Submitted, Carries, NoFlow
    <2> QED
        BY <1>4, <2>1, <2>2, CarriesNothing DEF SubmitActiveTab, Fresh, Shape
<1> QED
    BY <1>1, <1>2, <1>3, <1>4 DEF Starts, OpenPopup, SubmitAnyway, RetryWithoutCookies

LEMMA StepCarries ==
    ASSUME Shape, RetryUrls, LinkUrls, Counted, NEW f \in FlowId, WorkerStep(f) \/ WriteFails(f)
    PROVE  Carries(flow'[f])
<1>1. flow[f] \in FlowState /\ Carries(flow[f]) /\ (End(f) => Carries(flow'[f]))
    BY CarriesNothing DEF Shape, End, LinkUrls
<1>2. CASE Preflight(f) \/ GetConfig(f) \/ CreateJob(f) \/ WriteFails(f)
    <2>1. \/ End(f)
          \/ \E pc \in {"config", "post"} : \E answer :
                flow' = [flow EXCEPT ![f].pc = pc, ![f].answer = answer]
          \/ flow' = [flow EXCEPT ![f].pc = "post", ![f].base = base]
          \/ \E pc \in {"gateRead", "linkRead"} : flow' = [flow EXCEPT ![f].pc = pc]
        BY <1>2 DEF Preflight, GetConfig, CreateJob, WriteFails, NotifyFailure
    <2> QED
        BY <1>1, <2>1 DEF Carries, Shape, FlowState
<1>3. CASE ReadTable(f)
    <2>1. seq + 1 \in NoteId
        BY <1>3, NumbersSuffice DEF ReadTable, Owing
    <2>2. /\ flow'[f].note = seq + 1
          /\ \/ flow'[f].pc = "linkWrite" /\ flow'[f].snap = links
             \/ flow'[f].pc = "gateWrite" /\ flow'[f].snap = retry
        BY <1>1, <1>3 DEF ReadTable, NextNotificationId, At, Shape, FlowState
    <2> QED
        BY <2>1, <2>2 DEF Carries, LinkUrls, RetryUrls
<1>4. CASE WriteLink(f) \/ WriteRetryUrl(f) \/ RemoveLink(f)
    BY <1>1, <1>4 DEF WriteLink, WriteRetryUrl, RemoveLink
<1>5. CASE RemoveRetryUrl(f)
    <2>1. flow'[f].pc = "config" /\ flow'[f].note = 0 /\ flow'[f].snap = Empty
        BY <1>1, <1>5 DEF RemoveRetryUrl, Shape, FlowState
    <2> QED
        BY <2>1, CarriesNothing DEF Carries
<1> QED
    BY <1>2, <1>3, <1>4, <1>5 DEF WorkerStep

LEMMA LinksTyped ==
    ASSUME Shape, LinkUrls, NEW f \in FlowId, Starts(f) \/ WorkerStep(f) \/ WriteFails(f)
    PROVE  links' \in LinkTable
<1>1. flow[f] \in FlowState /\ Carries(flow[f])
    BY DEF Shape, LinkUrls
<1>2. CASE Starts(f)
    BY <1>2, StartsFresh DEF LinkUrls
<1>3. CASE WriteLink(f)
    <2>1. JobUrl(f) \in Link \cup {None} /\ flow[f].snap \in LinkTable
        BY <1>1, <1>3 DEF WriteLink, At, Carries, JobUrl, Link, FlowState
    <2> QED
        BY <1>3, <2>1 DEF WriteLink, WithEntry, LinkTable
<1>4. CASE RemoveLink(f)
    BY <1>1, <1>4 DEF RemoveLink, At, Carries, WithEntry, LinkTable
<1>5. CASE ~Starts(f) /\ ~WriteLink(f) /\ ~RemoveLink(f)
    BY <1>5 DEF WorkerStep, Preflight, GetConfig, CreateJob, ReadTable, WriteRetryUrl,
                RemoveRetryUrl, WriteFails, tables, LinkUrls
<1> QED
    BY <1>2, <1>3, <1>4, <1>5

LEMMA LinkUrlsStep == Shape /\ RetryUrls /\ LinkUrls /\ Counted /\ [Next]_vars => LinkUrls'
<1> SUFFICES ASSUME Shape, RetryUrls, LinkUrls, Counted, [Next]_vars PROVE LinkUrls'
    OBVIOUS
<1>1. CASE UNCHANGED vars \/ Outside \/ ClearBadge
    BY <1>1, OutsideAlone DEF LinkUrls, Carries, vars, tables, ClearBadge
<1>2. CASE KillWorker
    BY <1>2, CarriesNothing DEF KillWorker, LinkUrls, tables
<1>3. ASSUME NEW f \in FlowId, Starts(f) \/ WorkerStep(f) \/ WriteFails(f) PROVE LinkUrls'
    <2>1. Carries(flow'[f]) /\ links' \in LinkTable
        BY <1>3, StartCarries, StepCarries, LinksTyped
    <2>2. \A g \in FlowId \ {f} : Carries(flow'[g])
        BY <1>3, OthersStay DEF LinkUrls
    <2> QED
        BY <2>1, <2>2 DEF LinkUrls, Carries
<1> QED
    BY <1>1, <1>2, <1>3, StepKinds

Knobs ==
    /\ permitted \subseteq Base /\ cookies \in BOOLEAN /\ saves \in 0 .. MaxSaves
    /\ badge \in {"", "...", "OK", "ERR"}

LEMMA KnobsStep == Knobs /\ [Next]_vars => Knobs'
<1> SUFFICES ASSUME Knobs, [Next]_vars PROVE Knobs'
    OBVIOUS
<1>0. saves \in 0 .. MaxSaves /\ MaxSaves \in Nat
    BY ExtensionAssumption DEF Knobs
<1>1. ASSUME NEW b \in Base, SaveOptions(b) \/ SyncOptions(b) PROVE Knobs'
    <2>1. permitted' \subseteq Base /\ cookies' = cookies /\ badge' = badge
        BY <1>1 DEF SaveOptions, SyncOptions, Knobs, toolbar
    <2>2. saves' \in 0 .. MaxSaves
        <3>1. saves < MaxSaves /\ saves' = saves + 1
            BY <1>1 DEF SaveOptions, SyncOptions
        <3> QED
            BY <1>0, <3>1
    <2> QED
        BY <2>1, <2>2 DEF Knobs
<1>2. CASE ToggleYoutubeCookies
    <2>1. permitted' = permitted /\ cookies' \in BOOLEAN /\ badge' = badge
        BY <1>2 DEF ToggleYoutubeCookies, toolbar
    <2>2. saves' \in 0 .. MaxSaves
        <3>1. saves < MaxSaves /\ saves' = saves + 1
            BY <1>2 DEF ToggleYoutubeCookies
        <3> QED
            BY <1>0, <3>1
    <2> QED
        BY <2>1, <2>2 DEF Knobs
<1>3. CASE ClearBadge \/ KillWorker
    BY <1>3 DEF ClearBadge, KillWorker, Knobs, options, toolbar
<1>4. CASE \/ UNCHANGED vars \/ ClosePopup
           \/ \E u \in Url : Navigate(u)
           \/ \E n \in NoteId : DismissNotice(n)
    BY <1>4 DEF vars, ClosePopup, Navigate, DismissNotice, Knobs, options, toolbar
<1>5. ASSUME NEW f \in FlowId, Starts(f) PROVE Knobs'
    BY <1>5 DEF Starts, OpenPopup, ContextMenu, SubmitAnyway, RetryWithoutCookies, SubmitActiveTab,
                ClickNotice, ClickRetry, SetBadge, Knobs, options, toolbar
<1>6. ASSUME NEW f \in FlowId, WorkerStep(f) \/ WriteFails(f) PROVE Knobs'
    <2>1. options' = options /\ (UNCHANGED toolbar \/ \E text \in {"...", "OK", "ERR"} : SetBadge(text))
        BY <1>6 DEF WorkerStep, Preflight, GetConfig, CreateJob, ReadTable, WriteLink, WriteRetryUrl,
                    RemoveLink, RemoveRetryUrl, WriteFails
    <2> QED
        BY <2>1 DEF SetBadge, Knobs, options, toolbar
<1> QED
    BY <1>1, <1>2, <1>3, <1>4, <1>5, <1>6, StepKinds DEF Outside

LEMMA TypesFit == Shape /\ RetryUrls /\ LinkUrls /\ Counted /\ Knobs => TypeOK
<1> SUFFICES ASSUME Shape, RetryUrls, LinkUrls, Counted, Knobs PROVE TypeOK
    OBVIOUS
<1>1. flow \in [FlowId -> Flow]
    <2>1. ASSUME NEW f \in FlowId PROVE flow[f] \in Flow
        <3>1. flow[f] \in FlowState /\ Carries(flow[f])
            BY DEF Shape, LinkUrls
        <3> QED
            BY <3>1 DEF FlowState, Flow, Carries
    <2> QED
        BY <2>1 DEF Shape
<1>2. seq \in 0 .. (MaxStarts + MaxFaults)
    <2>1. Cardinality(Owed) \in Nat /\ seq \in Nat /\ MaxStarts \in Nat /\ MaxFaults \in Nat
        BY FS_CardinalityType, ExtensionAssumption DEF Counted, Shape
    <2> QED
        BY <2>1 DEF Counted
<1> QED
    BY <1>1, <1>2 DEF Shape, RetryUrls, LinkUrls, Counted, Knobs, TypeOK

--------------------------------------------------------------------------------
(* Theorems *)

IInv == /\ Shape /\ RetryUrls /\ BadgeIsTended /\ Pages /\ NotesAreFresh /\ OffersFit
        /\ Counted /\ LinkUrls /\ Knobs

LEMMA InitIInv == Init => IInv
<1> SUFFICES ASSUME Init PROVE IInv
    OBVIOUS
<1>1. Shape
    BY InitShape
<1>2. RetryUrls
    BY Unused, ExtensionAssumption DEF Init, RetryUrls, RetryTable, Empty
<1>3. BadgeIsTended
    BY DEF Init, BadgeIsTended
<1>4. Pages
    BY Unused DEF Init, Pages, PopupWaits, PopupAsks, Closed, Judged, NoBlindSubmit, At
<1>5. NotesAreFresh
    BY Unused DEF Init, NotesAreFresh, Drawing
<1>9. OffersFit
    <2>1. \A n \in NoteId : links[n] = None /\ retry[n] = None
        BY DEF Init, Empty
    <2>2. \A f \in FlowId : flow[f].pc = "unused"
        BY Unused DEF Init
    <2> QED
        BY <2>1, <2>2 DEF OffersFit, LinkFits, UrlFits, CopyFits, CopiesLinks, CopiesUrls, Bare
<1>6. Counted
    <2>1. Owed = {}
        BY Unused DEF Init, Owed, Owing
    <2>2. IsFiniteSet(Owed) /\ Cardinality(Owed) = 0
        BY <2>1, FS_EmptySet
    <2>3. seq = 0 /\ started = 0 /\ faults = 0 /\ MaxStarts \in Nat /\ MaxFaults \in Nat
        BY ExtensionAssumption DEF Init
    <2> QED
        BY <2>1, <2>2, <2>3 DEF Counted
<1>7. LinkUrls
    BY CarriesNothing DEF Init, LinkUrls
<1>8. Knobs
    <2>1. saves \in 0 .. MaxSaves
        <3>1. saves = 0 /\ MaxSaves \in Nat
            BY ExtensionAssumption DEF Init
        <3> QED
            BY <3>1
    <2>2. permitted \subseteq Base /\ cookies \in BOOLEAN /\ badge = ""
        BY ExtensionAssumption DEF Init
    <2> QED
        BY <2>1, <2>2 DEF Knobs
<1> QED
    BY <1>1, <1>2, <1>3, <1>4, <1>5, <1>6, <1>7, <1>8, <1>9 DEF IInv

LEMMA StepKeeps == IInv /\ [Next]_vars => IInv' /\ Kept /\ OffersLast
<1>1. Shape /\ UNCHANGED vars => Shape'
    BY DEF vars, options, tables, toolbar, Shape
<1> QED
    BY <1>1, StepShape, RetryUrlsStep, BadgeStep, PagesStep, NotesStep, OffersStep,
       CountedStep, LinkUrlsStep, KnobsStep DEF IInv

\* The inductive invariant of the extension.
THEOREM ExtensionInvariant == Spec => []IInv
BY InitIInv, StepKeeps, PTL DEF Spec

\* Every variable of the service worker and the popup keeps its type; that nextNotificationId
\* never draws more numbers than handlers were started and faults happened is part of it.
THEOREM ExtensionTypeCorrect == Spec => []TypeOK
<1>1. IInv => TypeOK
    BY TypesFit DEF IInv
<1> QED
    BY <1>1, ExtensionInvariant, PTL

\* notificationLinks and cookieRetryUrls: no entry ever becomes another submit's, and one is
\* dropped only by a handler that had read the table before the entry was written.
THEOREM OffersAreLostOnlyToRaces == Spec => OfferLostOnlyToRace
<1>1. IInv /\ [Next]_vars =>
          [\A n \in NoteId : Offers(n)' =>
               \/ Works(n)'
               \/ Missing(n)' /\ (Overwritten(n) \/ (Offers(n) /\ Missing(n)))]_vars
    BY StepKeeps DEF OffersLast
<1> QED
    BY <1>1, ExtensionInvariant, PTL DEF Spec, OfferLostOnlyToRace

\* submitActiveTab and the context menu: nothing is posted that was not judged, or confirmed.
THEOREM NothingIsSubmittedBlindly == Spec => []NoBlindSubmit
BY ExtensionInvariant, PTL DEF IInv, Pages

\* setBadge: whatever the toolbar shows, something is left to clear it.
THEOREM BadgesAreTended == Spec => []BadgeIsTended
BY ExtensionInvariant, PTL DEF IInv

\* nextNotificationId: notifications never replace one another.
THEOREM NoticesAreNotReplaced == Spec => NoticeNotReplaced
<1>1. IInv /\ [Next]_vars =>
          [\A n \in NoteId : notice[n] # NoNotice => notice'[n] \in {notice[n], NoNotice}]_vars
    BY StepKeeps DEF Kept
<1> QED
    BY <1>1, ExtensionInvariant, PTL DEF Spec, NoticeNotReplaced
=============================================================================
