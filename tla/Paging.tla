-------------------------------- MODULE Paging --------------------------------
(***************************************************************************)
(* The lists of charts of a table, page by page: the controller of the     *)
(* browser, which asks for what is left of the list as it was last time,   *)
(* and the handlers, which cut the list as it is now.  The controller is   *)
(* made anew when a table is opened; the Overview service keeps how far it *)
(* got, for whichever table is opened next, which is asked for at once.    *)
(*                                                                         *)
(* Related charts come from the map of ChartCache, which is ranged over in *)
(* another order every time; correlated ones are ordered by coefficient.   *)
(* The charts of one correlation share it, and come in one order here as   *)
(* long as nothing is added, which SQL leaves open.                        *)
(***************************************************************************)
EXTENDS Integers, Sequences, FiniteSets, FiniteSetsExt, Functions

CONSTANTS
    Shelves,    \* tables
    NoShelf,    \* none is open
    Lengths,    \* how many charts a table may have at first
    Most,       \* the charts of a correlated page, if more are asked for: 30
    Step,       \* the charts the browser asks for: 3
    Additions,  \* bound: charts that come to be there
    Openings    \* bound: tables opened

ASSUME PagesAreBounded ==
    /\ Most \in Nat \ {0} /\ Step \in 1..Most
    /\ Lengths \subseteq Nat /\ IsFiniteSet(Lengths) /\ Lengths # {}
    /\ Additions \in Nat /\ Openings \in Nat

VARIABLES
    kind,       \* "related" or "correlated"
    list,       \* the charts of each table, in order
    open,       \* the table that is open
    shown,      \* how often each of its charts is on the page
    offset, max,
    count,      \* what the open request asks for; 0: there is none
    kept,       \* Overview.charts; 0: nothing
    late,       \* what requests of a page that was left may yet put there
    bounds,     \* bound: tables opened and charts added so far
    state,      \* history: since the table was opened, the list has grown,
                \* a request was refused, or has stopped in a panic
    started     \* history: what the first request of the page asked for

pagingVars == <<kind, list, open, shown, offset, max, count, kept, late, bounds, state, started>>

Ids == 1..Max(Lengths) + Additions

PagingTypeOK ==
    /\ kind \in {"related", "correlated"}
    /\ \A t \in Shelves : list[t] \in Seq(Ids) /\ IsInjective(list[t])
    /\ open \in Shelves \cup {NoShelf} /\ state \subseteq {"grown", "refused", "panic"}
    /\ DOMAIN shown = Ids /\ \A i \in Ids : shown[i] \in Nat
    /\ {offset, max, count, kept, started} \cup late \subseteq Nat

PagingInit ==
    /\ kind \in {"related", "correlated"}
    /\ \E size \in [Shelves -> Lengths] :
         list = [t \in Shelves |-> [k \in 1..size[t] |-> k]]
    /\ open = NoShelf /\ shown = [i \in Ids |-> 0]
    /\ offset = 0 /\ max = 0 /\ count = 0 /\ kept = 0 /\ late = {}
    /\ bounds = [opened |-> 0, added |-> 0] /\ state = {} /\ started = 0

-----------------------------------------------------------------------------
(***************************************************************************)
(* The handlers: n charts from o, of a list of total.                      *)
(***************************************************************************)
Refused(k, o, n, total) ==
    \/ o > total
    \/ o # 0 /\ o + n > total
    \/ k = "correlated" /\ total = 0

\* slip: the end is off by one
ShortPageEnd(k, o, n, total) == IF o + n >= total THEN total - 1 ELSE o + n

\* where the page ends; the limit on correlated ones comes last
PageEnd(k, o, n, total) ==
    IF k = "correlated" /\ n > Most THEN o + Most
    ELSE IF o = 0 /\ (n > total \/ n = 0) THEN total ELSE o + n

-----------------------------------------------------------------------------
\* the first request of a page asks for as many as were shown the last time
OpenTable(t) ==
    /\ bounds.opened < Openings /\ bounds' = [bounds EXCEPT !.opened = @ + 1]
    /\ late' = IF count > 0 THEN late \cup {offset + count} ELSE late
    /\ open' = t /\ shown' = [i \in Ids |-> 0] /\ offset' = 0 /\ max' = 0 /\ state' = {}
    /\ count' = IF kept > 0 THEN kept ELSE Step
    /\ started' = count'
    /\ UNCHANGED <<kind, list, kept>>

\* "Show more" is there when something is shown and the end is not reached
ShowMore ==
    /\ open # NoShelf /\ count = 0 /\ (\E i \in Ids : shown[i] > 0) /\ offset < max
    /\ count' = Min({max - offset, Step})
    /\ UNCHANGED <<kind, list, open, shown, offset, max, kept, late, bounds, state, started>>

Total == Len(list[open])

\* the page: of related charts, any that many
Pages ==
    LET last == PageEnd(kind, offset, count, Total)
    IN  IF kind = "related" THEN kSubset(last - offset, Range(list[open]))
        ELSE {{list[open][k] : k \in offset + 1..Min({last, Total})}}

Answer ==
    /\ open # NoShelf /\ count > 0 /\ ~Refused(kind, offset, count, Total)
    /\ \E page \in Pages :
         /\ shown' = [i \in Ids |-> shown[i] + IF i \in page THEN 1 ELSE 0]
         /\ IF page = {} THEN UNCHANGED <<offset, max, kept>>
            ELSE max' = Total /\ offset' = offset + count /\ kept' = offset'
    /\ count' = 0 /\ UNCHANGED <<kind, list, open, late, bounds, state, started>>

Refuse ==
    /\ open # NoShelf /\ count > 0 /\ Refused(kind, offset, count, Total)
    /\ count' = 0 /\ state' = state \cup {"refused"}
    /\ UNCHANGED <<kind, list, open, shown, offset, max, kept, late, bounds, started>>

\* the end is past the list, and may be past the memory it was given
Panicked ==
    /\ open # NoShelf /\ count > 0 /\ ~Refused(kind, offset, count, Total)
    /\ PageEnd(kind, offset, count, Total) > Total
    /\ count' = 0 /\ state' = state \cup {"panic"}
    /\ UNCHANGED <<kind, list, open, shown, offset, max, kept, late, bounds, started>>

\* the answer to a page that was left is noted all the same
LateAnswer ==
    /\ \E n \in late : late' = late \ {n} /\ (kept' = n \/ UNCHANGED kept)
    /\ UNCHANGED <<kind, list, open, shown, offset, max, count, bounds, state, started>>

\* another viewer, or a job, adds a chart anywhere in the order
Grow(t) ==
    /\ bounds.added < Additions /\ bounds' = [bounds EXCEPT !.added = @ + 1]
    /\ \E k \in IF kind = "related" THEN {0} ELSE 0..Len(list[t]) :
         list' = [list EXCEPT ![t] =
                    SubSeq(@, 1, k) \o <<Len(@) + 1>> \o SubSeq(@, k + 1, Len(@))]
    /\ state' = IF t = open THEN state \cup {"grown"} ELSE state
    /\ UNCHANGED <<kind, open, shown, offset, max, count, kept, late, started>>

PagingNext ==
    \/ \E t \in Shelves : OpenTable(t) \/ Grow(t)
    \/ ShowMore \/ Answer \/ Refuse \/ Panicked \/ LateAnswer

PagingSpec == PagingInit /\ [][PagingNext]_pagingVars

-----------------------------------------------------------------------------
\* A page that asks for more until nothing is left shows every correlated chart,
\* once and in order, if none is added meanwhile: the browser never asks past the
\* end of a list.  A page that starts from more than Most shows only so many of
\* them and skips the others; of a shorter list it may show nothing at all.  Of
\* related charts as many are shown, but some twice and some never.
PagesTile ==
    LET reached == Min({offset, max})
        skipped == IF started > Most /\ offset >= started THEN Most + 1..started ELSE {}
    IN  open # NoShelf =>
        /\ "refused" \in state => kind = "correlated" /\ max = 0
        /\ "panic" \in state => kind = "correlated" /\ started > Most /\ max = 0
        /\ kind = "related" => FoldFunction(+, 0, shown) = reached
        /\ kind = "correlated" /\ "grown" \notin state =>
             \A k \in DOMAIN list[open] :
               shown[list[open][k]] = IF k <= reached /\ k \notin skipped THEN 1 ELSE 0
=============================================================================
