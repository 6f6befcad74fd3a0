------------------------------- MODULE Library -------------------------------
(***************************************************************************)
(* Where the reader is, and the library page.  The hash of the address is  *)
(* the route; the browser tells of a change of it later, by an event.  The *)
(* library's filter is state of the page, set from the tag of the route    *)
(* and by the reader; the rows are computed from the transcripts, which    *)
(* arrive after the page.  A window that gets narrow has the phone's page. *)
(***************************************************************************)
EXTENDS Naturals, Sequences, FiniteSets

CONSTANTS
    Tag,            \* the phone's filter "partial" is another one
    NoTag,
    TopTags,        \* tags the phone's page has a segment for
    MaxVisits       \* entries of the browser's history

ASSUME LibraryAssumption == NoTag \notin Tag /\ TopTags \in Nat /\ MaxVisits \in Nat \ {0}

VARIABLES
    visits,     \* the browser's history, and the entry it is at
    unsynced,   \* is a hashchange event on its way
    place,      \* route
    wide,       \* is the window the desktop's
    topics,     \* tags of the transcripts that are loaded
    view,       \* the library page: filter, segments; of what filter and tags its rows are
    picked      \* ghost: the reader has set the filter since the route's tag last did

libraryVars == <<visits, unsynced, place, wide, topics, view, picked>>

Place == [page : {"library", "other"}, tag : Tag \cup {NoTag}]
TagFilter == Tag \cup {NoTag}
RowsFrom == [of : TagFilter, from : SUBSET Tag]
LibraryView == [mounted : BOOLEAN, filter : TagFilter, keys : SUBSET Tag, rows : RowsFrom]
NoLibrary == [mounted |-> FALSE, filter |-> NoTag, keys |-> {}, rows |-> [of |-> NoTag, from |-> {}]]

--------------------------------------------------------------------------------
(* The library page *)

\* buildFilters, once per mounting: the most frequent tags of what is loaded by then.
TopOf(tags) == {ks \in SUBSET tags : \/ Cardinality(ks) = TopTags
                                     \/ ks = tags /\ Cardinality(ks) < TopTags}

initialFilter(tag, keys, desktop) == IF desktop \/ tag \in keys THEN tag ELSE NoTag

Mounts(p, desktop) ==
    \E keys \in (IF desktop THEN {{}} ELSE TopOf(topics)) :
        LET filter == initialFilter(p.tag, keys, desktop)
        IN view' = [mounted |-> TRUE, filter |-> filter, keys |-> keys,
                    rows |-> [of |-> filter, from |-> topics]]

\* The rows of a render: useMemo by filter and transcripts; the phone computes them anew.
RowsOn_StaleMemo(v, filter, tags) ==
    IF v.rows.of = filter THEN v.rows ELSE [of |-> filter, from |-> tags]
RowsOn(v, filter, tags) ==
    IF v.rows.of = filter /\ v.rows.from = tags THEN v.rows ELSE [of |-> filter, from |-> tags]
Filters(filter) ==
    view' = [view EXCEPT !.filter = filter, !.rows = RowsOn(view, filter, topics)]

\* The effect of [routeTag]: the desktop follows it, the phone if it has the segment.
Follows_Never(tag) == view.filter
Follows(tag) == IF wide \/ tag \in view.keys THEN tag ELSE view.filter

--------------------------------------------------------------------------------
(* The route *)

Here == visits.entries[visits.at]

\* The app renders a route: the page is kept, mounted or unmounted.
Renders(p) ==
    /\ place' = p
    /\ CASE p.page = "other" -> view' = NoLibrary /\ picked' = FALSE
         [] p.page = "library" /\ ~view.mounted -> Mounts(p, wide) /\ picked' = FALSE
         [] OTHER -> IF p.tag = place.tag THEN UNCHANGED <<view, picked>>
                     ELSE /\ Filters(Follows(p.tag))
                          /\ picked' = (picked /\ Follows(p.tag) # p.tag)

\* navigate: the hash, whose event comes later -- or, if that is the same, the route at once.
GoesTo(p) ==
    IF Here = p
    THEN Renders(p) /\ UNCHANGED <<visits, unsynced>>
    ELSE /\ visits.at < MaxVisits                                \* (bound)
         /\ visits' = [entries |-> Append(SubSeq(visits.entries, 1, visits.at), p),
                       at |-> visits.at + 1]
         /\ unsynced' = TRUE
         /\ UNCHANGED <<place, view, picked>>

\* A tab, an item or a tag of the sidebar, a row, or a page that leads on.
NavigateTo(p) == GoesTo(p) /\ UNCHANGED <<wide, topics>>

\* The phone's "Back", and the browser's own buttons.
BackOrForward(n) ==
    /\ n # visits.at /\ visits' = [visits EXCEPT !.at = n] /\ unsynced' = TRUE
    /\ UNCHANGED <<place, wide, topics, view, picked>>

HashChanged ==
    /\ unsynced /\ unsynced' = FALSE
    /\ UNCHANGED <<visits, wide, topics>>
    /\ Renders(Here)

--------------------------------------------------------------------------------

\* A tag of a row or "clear" on the desktop, a segment on the phone: not in the address.
PickTag(filter) ==
    /\ view.mounted /\ (wide \/ filter \in view.keys \cup {NoTag})
    /\ Filters(filter) /\ picked' = TRUE
    /\ UNCHANGED <<visits, unsynced, place, wide, topics>>

\* setRuntimeData with another library: the page renders again.
TranscriptsLoad(tags) ==
    /\ topics' = tags
    /\ view' = IF view.mounted THEN [view EXCEPT !.rows = RowsOn(view, view.filter, tags)] ELSE view
    /\ UNCHANGED <<visits, unsynced, place, wide, picked>>

\* useIsMobile: the other page takes its place.
WindowResized ==
    /\ wide' = ~wide
    /\ IF view.mounted THEN Mounts(place, ~wide) /\ picked' = FALSE ELSE UNCHANGED <<view, picked>>
    /\ UNCHANGED <<visits, unsynced, place, topics>>

LibraryInit ==
    /\ wide \in BOOLEAN /\ topics = {} /\ unsynced = FALSE /\ picked = FALSE
    /\ place \in Place
    /\ visits = [entries |-> <<place>>, at |-> 1]
    /\ view = IF place.page = "other" THEN NoLibrary
              ELSE LET filter == IF wide THEN place.tag ELSE NoTag
                   IN [NoLibrary EXCEPT !.mounted = TRUE, !.filter = filter, !.rows.of = filter]

LibraryNext ==
    \/ \E p \in Place : NavigateTo(p)
    \/ \E n \in DOMAIN visits.entries : BackOrForward(n)
    \/ HashChanged
    \/ \E filter \in TagFilter : PickTag(filter)
    \/ \E tags \in SUBSET Tag : TranscriptsLoad(tags)
    \/ WindowResized
LibrarySpec == LibraryInit /\ [][LibraryNext]_libraryVars

--------------------------------------------------------------------------------
(* Properties *)

LibraryTypeOK ==
    /\ visits \in [entries : Seq(Place), at : Nat] /\ visits.at \in DOMAIN visits.entries
    /\ Len(visits.entries) <= MaxVisits
    /\ unsynced \in BOOLEAN /\ wide \in BOOLEAN /\ picked \in BOOLEAN
    /\ place \in Place /\ topics \subseteq Tag /\ view \in LibraryView

\* Once the events have come the page is that of the address, through any mix of links,
\* links to the page one is on, "Back" and "Forward".
RouteIsHash == ~unsynced => place = Here /\ view.mounted = (place.page = "library")

\* The library is filtered by the tag of the route until the reader filters it -- on the
\* phone, if there was a segment for the tag when the page was mounted.
FilterIsRoutes ==
    (view.mounted /\ ~picked /\ (wide \/ place.tag \in view.keys)) => view.filter = place.tag

\* The rows are those of the filter and of the transcripts there are now, although both come
\* after the page (MobileLibrary.jsx: "a stale memo would keep the first empty render").
RowsAreFresh == view.mounted => view.rows = [of |-> view.filter, from |-> topics]
=============================================================================
