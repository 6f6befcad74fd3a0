------------------------------- MODULE History -------------------------------
(***************************************************************************)
(* The History page: one page of the list of all jobs, by status, read     *)
(* again when the page, the status or the session changes, by "Refresh",   *)
(* and after "Clear" has deleted a job.  Only the reads of the effect are  *)
(* aborted when another takes their place.                                 *)
(***************************************************************************)
EXTENDS Naturals, FiniteSets

CONSTANTS
    MaxJobs,        \* jobs there ever are, numbered as they are created
    PageSize,       \* PAGE_SIZE
    MaxLoads        \* reads under way at once

ASSUME HistoryAssumption == MaxJobs \in Nat /\ PageSize \in Nat \ {0} /\ MaxLoads \in Nat

VARIABLES
    jobs,       \* the server's: number to status
    asked,      \* status and page chosen
    listed,     \* the page read last: of what, rows, total; loading, error
    loads,      \* reads under way
    clearing,   \* jobs being cleared, with what was asked then
    cleared,    \* ghost: jobs this page has heard are deleted
    astray      \* ghost: reads overlapped, or one was for another page, since one was alone

historyVars == <<jobs, asked, listed, loads, clearing, cleared, astray>>

JobNo == 1 .. MaxJobs
Filter == {"all", "done"}
Asked == [filter : Filter, page : 0 .. MaxJobs]
Listing == [of : Asked, rows : SUBSET JobNo, settled : SUBSET JobNo, total : 0 .. MaxJobs]
Loading == [of : Asked, signal : BOOLEAN]
FirstPage == [filter |-> "all", page |-> 0]

Matches(filter) == {j \in DOMAIN jobs : filter = "done" => jobs[j] = "done"}
\* Newest first: limit and offset.
RowsOf(a) ==
    LET before(j) == Cardinality({k \in Matches(a.filter) : k > j})
    IN {j \in Matches(a.filter) : before(j) \in a.page * PageSize .. (a.page + 1) * PageSize - 1}
ListingOf(a) == [of |-> a, rows |-> RowsOf(a), settled |-> {j \in RowsOf(a) : jobs[j] = "done"},
                 total |-> Cardinality(Matches(a.filter))]
Unread == [of |-> FirstPage, rows |-> {}, settled |-> {}, total |-> 0]

HistoryInit ==
    /\ jobs \in [JobNo -> {"active", "done"}]
    /\ asked = FirstPage
    /\ listed = [page |-> Unread, state |-> "loading"]
    /\ loads = {[of |-> FirstPage, signal |-> TRUE]}
    /\ clearing = {} /\ cleared = {} /\ astray = FALSE

--------------------------------------------------------------------------------

Begin(load, others) ==
    /\ loads' = others \cup {load}
    /\ listed' = [listed EXCEPT !.state = "loading"]
    /\ astray' = (others # {} \/ load.of # asked')

\* The effect of [auth, status, offset]: the read before is aborted, one by hand is not.
Ask(a) ==
    /\ asked' = a
    /\ Begin([of |-> a, signal |-> TRUE], {l \in loads : ~l.signal})
    /\ UNCHANGED <<jobs, clearing, cleared>>

ChooseStatus(f) == Ask([filter |-> f, page |-> 0])
PreviousPage == asked.page > 0 /\ Ask([asked EXCEPT !.page = @ - 1])
NextPage ==
    /\ asked.page * PageSize + Cardinality(listed.page.rows) < listed.page.total
    /\ asked.page < MaxJobs                                       \* (bound)
    /\ Ask([asked EXCEPT !.page = @ + 1])
SessionRenewed == Ask(asked)

\* (bound: reads under way)
LoadsByHand(a) ==
    /\ Cardinality(loads) < MaxLoads /\ [of |-> a, signal |-> FALSE] \notin loads
    /\ Begin([of |-> a, signal |-> FALSE], loads)

RefreshHistory == UNCHANGED <<jobs, asked, clearing, cleared>> /\ LoadsByHand(asked)

\* A read is answered, or fails.
HistoryAnswers(l) ==
    /\ loads' = loads \ {l}
    /\ \/ listed' = [page |-> ListingOf(l.of), state |-> "shown"]
       \/ listed' = [listed EXCEPT !.state = "error"]
    /\ UNCHANGED <<jobs, asked, clearing, cleared, astray>>

\* "Clear" is for jobs shown as settled; a row that is busy waits.
ClearJob(j) ==
    /\ j \in listed.page.settled \ cleared /\ \A c \in clearing : c.job # j
    /\ clearing' = clearing \cup {[job |-> j, of |-> asked]}
    /\ UNCHANGED <<jobs, asked, listed, loads, cleared, astray>>

\* Deleted: the row asks for the page that was shown when it was clicked.
ReadsAgain_Not(of) == UNCHANGED <<listed, loads, astray>>
ReadsAgain(of) == LoadsByHand(of)

JobCleared(c) ==
    /\ clearing' = clearing \ {c} /\ UNCHANGED asked
    /\ jobs' = [j \in DOMAIN jobs \ {c.job} |-> jobs[j]]
    /\ cleared' = cleared \cup {c.job}
    /\ ReadsAgain(c.of)
JobNotCleared(c) ==
    /\ clearing' = clearing \ {c}
    /\ UNCHANGED <<jobs, asked, listed, loads, cleared, astray>>

JobSettles(j) ==
    /\ jobs[j] = "active" /\ jobs' = [jobs EXCEPT ![j] = "done"]
    /\ UNCHANGED <<asked, listed, loads, clearing, cleared, astray>>

HistoryNext ==
    \/ \E f \in Filter : ChooseStatus(f)
    \/ PreviousPage \/ NextPage \/ SessionRenewed \/ RefreshHistory
    \/ \E l \in loads : HistoryAnswers(l)
    \/ \E j \in JobNo : ClearJob(j)
    \/ \E c \in clearing : JobCleared(c) \/ JobNotCleared(c)
    \/ \E j \in DOMAIN jobs : JobSettles(j)
HistorySpec == HistoryInit /\ [][HistoryNext]_historyVars

--------------------------------------------------------------------------------
(* Properties *)

HistoryTypeOK ==
    /\ DOMAIN jobs \subseteq JobNo /\ \A j \in DOMAIN jobs : jobs[j] \in {"active", "done"}
    /\ asked \in Asked
    /\ listed \in [page : Listing, state : {"loading", "shown", "error"}]
    /\ loads \subseteq Loading
    /\ clearing \subseteq [job : JobNo, of : Asked]
    /\ cleared \subseteq JobNo /\ astray \in BOOLEAN

\* When the reads have settled the list is the page and status that were asked for, without
\* the jobs cleared here -- unless a read by hand outlived its page, or overlapped another.
HistoryIsPage ==
    (listed.state = "shown" /\ loads = {} /\ ~astray)
        => listed.page.of = asked /\ listed.page.rows \cap cleared = {}
=============================================================================
