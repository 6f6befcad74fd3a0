---------------------------- MODULE TranscriptPage ----------------------------
(***************************************************************************)
(* The page of one transcript.  The desktop's stays mounted from one       *)
(* transcript to the next, with its calls (regenerate, delete, copy, share *)
(* link, download) and what it had armed; the phone's is mounted anew, and *)
(* has a share sheet with a toast.                                         *)
(***************************************************************************)
EXTENDS Naturals, FiniteSets

CONSTANTS
    Document,       \* transcripts
    Nowhere,        \* the route is no transcript
    MaxPending,     \* calls under way at once
    MaxFlashes      \* toasts, labels with a timer, and dismissals at once

ASSUME TranscriptPageAssumption ==
    Nowhere \notin Document /\ MaxPending \in Nat /\ MaxFlashes \in Nat

VARIABLES
    kept,       \* transcripts the server has
    desk,       \* the desktop's page: of, regenerating, deleteConfirm, shareOpen, copied
    pending,    \* its calls: what, of what, made by this mounting
    labels,     \* timers that will blank the label, whoever set it
    digest,     \* the phone's transcript at the server: state of its summary
    phone,      \* what the phone has seen of it, segment, regenerating, sheet, toast
    dismissals, \* timers that will close the phone's sheet
    toasts,     \* timers that will blank the phone's toast
    settledOn   \* ghost: the phone saw a summary being made, then ready, and nothing chosen since

transcriptPageVars == <<kept, desk, pending, labels, digest, phone, dismissals, toasts, settledOn>>

Calls == {"regenerate", "delete", "copy", "link", "download"}
Digest == {"not_requested", "generating", "ready", "failed", "unavailable"}
Closed == [of |-> Nowhere, regenerating |-> FALSE, armed |-> FALSE, sheet |-> FALSE, label |-> "none"]

\* The phone opens on the row of the library, or on nothing yet; a summary is shown first.
Opened(seen) == [seen |-> seen, seg |-> IF seen = "ready" THEN "summary" ELSE "transcript",
                 regenerating |-> FALSE, sheet |-> FALSE, toast |-> 0]

TranscriptPageInit ==
    /\ kept = Document /\ desk = Closed /\ pending = {} /\ labels = 0
    /\ digest \in Digest /\ phone \in {Opened(digest), Opened("null")}
    /\ dismissals = 0 /\ toasts = {} /\ settledOn = FALSE

deskVars == <<kept, desk, pending, labels>>
phoneVars == <<digest, phone, dismissals, toasts, settledOn>>

--------------------------------------------------------------------------------
(* The desktop *)

\* To another transcript the page keeps its state; elsewhere it is unmounted.
Route(d) == IF d = Nowhere THEN Closed ELSE [desk EXCEPT !.of = d]
Orphaned(calls) == {[c EXCEPT !.own = FALSE] : c \in calls}
OpenPage(d) ==
    /\ d # desk.of /\ desk' = Route(d)
    /\ pending' = IF d = Nowhere THEN Orphaned(pending) ELSE pending
    /\ UNCHANGED <<kept, labels>>

ToggleShare ==
    /\ desk.of # Nowhere /\ desk' = [desk EXCEPT !.sheet = ~@]
    /\ UNCHANGED <<kept, pending, labels>>
Arm ==
    /\ desk.of # Nowhere /\ desk' = [desk EXCEPT !.armed = ~@]
    /\ UNCHANGED <<kept, pending, labels>>

\* "Regenerate" waits for the call before it; "Yes, delete", a copy and a link do not.
MayCall_Anyway(what) == TRUE
MayCall(what) ==
    /\ what = "regenerate" => ~desk.regenerating
    /\ what = "delete" => desk.armed
    /\ what = "link" => desk.sheet
CallServer(what) ==
    /\ desk.of \in Document /\ MayCall(what)
    /\ LET call == [what |-> what, of |-> desk.of, own |-> TRUE]
       IN call \notin pending /\ pending' = pending \cup {call}
    /\ Cardinality(pending) < MaxPending                          \* (bound)
    /\ desk' = [desk EXCEPT !.regenerating = @ \/ what = "regenerate"]
    /\ UNCHANGED <<kept, labels>>

\* A label gets a timer of its own; the timers of labels before it run on.
LabelTimer ==
    /\ labels > 0 /\ labels' = labels - 1
    /\ desk' = [desk EXCEPT !.label = "none"]
    /\ UNCHANGED <<kept, pending>>

RegenerateAnswered(c) ==
    /\ c.what = "regenerate" /\ pending' = pending \ {c}
    /\ desk' = IF c.own THEN [desk EXCEPT !.regenerating = FALSE] ELSE desk
    /\ UNCHANGED <<kept, labels>>

\* Deleted: to the library, from wherever the reader is by then.  Or refused, or gone (404).
DeleteAnswered(c) ==
    /\ c.what = "delete" /\ UNCHANGED labels
    /\ \/ /\ c.of \in kept /\ kept' = kept \ {c.of}
          /\ desk' = Closed /\ pending' = Orphaned(pending \ {c})
       \/ pending' = pending \ {c} /\ UNCHANGED <<kept, desk>>

CopyAnswered(c) ==
    /\ c.what \in {"copy", "link", "download"} /\ pending' = pending \ {c}
    /\ labels < MaxFlashes /\ labels' = labels + 1              \* (bound)
    /\ \E label \in {"ok", "err"} : desk' = IF c.own THEN [desk EXCEPT !.label = label] ELSE desk
    /\ UNCHANGED kept

DeskNext ==
    \/ \E d \in Document \cup {Nowhere} : OpenPage(d)
    \/ ToggleShare \/ Arm \/ LabelTimer
    \/ \E what \in Calls : CallServer(what)
    \/ \E c \in pending : RegenerateAnswered(c) \/ DeleteAnswered(c) \/ CopyAnswered(c)

--------------------------------------------------------------------------------
(* The phone *)

\* The worker, a retry or another reader: the server never takes a summary back.
DigestChanges ==
    /\ digest # "ready" /\ digest' \in Digest \ {digest}
    /\ UNCHANGED <<phone, dismissals, toasts, settledOn>>

\* The poll brings the transcript; a summary that was being made and is ready is shown.
BringsUp_Never(before, now) == FALSE
BringsUp(before, now) == before = "generating" /\ now = "ready"
PollBrings ==
    /\ phone.seen # digest
    /\ phone' = [phone EXCEPT !.seen = digest,
                              !.seg = IF BringsUp(phone.seen, digest) THEN "summary" ELSE @]
    /\ settledOn' = (digest = "ready" /\ phone.seen = "generating")
    /\ UNCHANGED <<digest, dismissals, toasts>>

ChooseSegment(seg) ==
    /\ phone.seen = "ready" /\ phone' = [phone EXCEPT !.seg = seg] /\ settledOn' = FALSE
    /\ UNCHANGED <<digest, dismissals, toasts>>

\* "Generate summary": offered while there is none and none is being made; the call lasts until
\* the summary is there or has failed.
GenerateSummary ==
    /\ phone.seen \in {"not_requested", "failed", "unavailable"} /\ ~phone.regenerating
    /\ phone' = [phone EXCEPT !.regenerating = TRUE]
    /\ UNCHANGED <<digest, dismissals, toasts, settledOn>>
GenerateAnswered ==
    /\ phone.regenerating /\ phone' = [phone EXCEPT !.regenerating = FALSE]
    /\ digest' \in {digest, "ready"}
    /\ UNCHANGED <<dismissals, toasts, settledOn>>

OpenSheet ==
    /\ phone.seen # "null" /\ ~phone.sheet
    /\ phone' = [phone EXCEPT !.sheet = TRUE]
    /\ UNCHANGED <<digest, dismissals, toasts, settledOn>>

\* Each "Done", each tap beside it, and a share or source that opened, starts a timer.
DismissSheet ==
    /\ phone.sheet /\ dismissals < MaxFlashes /\ dismissals' = dismissals + 1
    /\ UNCHANGED <<digest, phone, toasts, settledOn>>
DismissTimer ==
    /\ dismissals > 0 /\ dismissals' = dismissals - 1
    /\ phone' = [phone EXCEPT !.sheet = FALSE, !.toast = 0]
    /\ toasts' = {}                                              \* cleared by the unmount
    /\ UNCHANGED <<digest, settledOn>>

\* flashToast: the timer of the toast before it is cleared.
TimersOfToast_All(n) == toasts \cup {n}
TimersOfToast(n) == {n}
CopyOnPhone ==
    /\ phone.sheet
    /\ \E n \in 1 .. MaxFlashes \ (toasts \cup {phone.toast}) :
          phone' = [phone EXCEPT !.toast = n] /\ toasts' = TimersOfToast(n)
    /\ UNCHANGED <<digest, dismissals, settledOn>>
ToastTimer(n) ==
    /\ n \in toasts /\ toasts' = toasts \ {n}
    /\ phone' = [phone EXCEPT !.toast = 0]
    /\ UNCHANGED <<digest, dismissals, settledOn>>

PhoneNext ==
    \/ DigestChanges \/ PollBrings
    \/ \E seg \in {"summary", "transcript"} : ChooseSegment(seg)
    \/ GenerateSummary \/ GenerateAnswered
    \/ OpenSheet \/ DismissSheet \/ DismissTimer \/ CopyOnPhone
    \/ \E n \in toasts : ToastTimer(n)

TranscriptPageNext == (DeskNext /\ UNCHANGED phoneVars) \/ (PhoneNext /\ UNCHANGED deskVars)
TranscriptPageSpec == TranscriptPageInit /\ [][TranscriptPageNext]_transcriptPageVars

--------------------------------------------------------------------------------
(* Properties *)

TranscriptPageTypeOK ==
    /\ kept \subseteq Document /\ labels \in 0 .. MaxFlashes
    /\ desk \in [of : Document \cup {Nowhere}, regenerating : BOOLEAN, armed : BOOLEAN,
                 sheet : BOOLEAN, label : {"none", "ok", "err"}]
    /\ pending \subseteq [what : Calls, of : Document, own : BOOLEAN]
    /\ digest \in Digest /\ settledOn \in BOOLEAN
    /\ phone \in [seen : Digest \cup {"null"}, seg : {"summary", "transcript"},
                  regenerating : BOOLEAN, sheet : BOOLEAN, toast : 0 .. MaxFlashes]
    /\ dismissals \in 0 .. MaxFlashes /\ toasts \subseteq 1 .. MaxFlashes

\* One mounting of the page asks for one new summary at a time, whatever transcripts it
\* shows meanwhile, and says so exactly as long as it waits.
OneRegenerate ==
    LET own == {c \in pending : c.own /\ c.what = "regenerate"}
    IN Cardinality(own) <= 1 /\ desk.regenerating = (own # {})

\* A toast on the phone stands until its own timer: none of an earlier toast is left.
ToastStays == phone.toast # 0 => toasts = {phone.toast}

\* A summary the reader has watched being made comes up when it is ready, and stays until
\* the reader chooses.
SummaryComesUp == settledOn => phone.seen = "ready" /\ phone.seg = "summary"
=============================================================================
