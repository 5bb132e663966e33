------------------------------ MODULE AdminTable ------------------------------
(***************************************************************************)
(* The two tables of the administrator, observations and users, page by    *)
(* page.  A page is asked for with one request, which the handler answers  *)
(* from two queries, the list and its length.  The browser empties the     *)
(* table when it asks and adds what an answer brings, so the answers of    *)
(* requests that overlap end up in one table, whose first rows it shows.   *)
(* It goes back to the first page when the one it asks for is no longer    *)
(* there.                                                                  *)
(***************************************************************************)
EXTENDS Integers, Sequences, FiniteSets, FiniteSetsExt

CONSTANTS
    Entries,    \* bound: observations, or users, by number
    PerPage,    \* rows of a page: 10
    Clicks,     \* bound: what the administrator does
    AtOnce,     \* bound: requests under way
    Mishaps     \* bound: what others do to the table, and queries that fail

ASSUME AdminBounded ==
    /\ Entries \in Nat \ {0} /\ PerPage \in Nat \ {0}
    /\ Clicks \in Nat /\ AtOnce \in Nat \ {0} /\ Mishaps \in Nat

VARIABLES
    screen,         \* "observations" or "users"
    entries,        \* the rows of the table
    flagged,        \* those that are flagged
    newest,         \* the last number given
    pageNumber, orderBy, flaggedOnly,
    pageTotal,      \* pagination.total
    tableRows,      \* the rows the browser has
    requests,       \* for pages, under way
    submitted,      \* deletions of observations, edits of users, under way
    left,           \* bound: clicks and mishaps to come
    clean,          \* history: the last request for a page met no other
    reply,          \* history: the answer to it
    gone            \* history: what this administrator was told is deleted

query == <<pageNumber, orderBy, flaggedOnly>>
adminVars == <<screen, entries, flagged, newest, query, pageTotal, tableRows, requests,
               submitted, left, clean, reply, gone>>

Unanswered == [ok |-> FALSE, list |-> <<>>, count |-> 0]

Unused(open) == Min(1..Cardinality(open) + 1 \ {r.id : r \in open})

\* a request for a query, next to those that are open
Request(open, number, by, only) ==
    [id |-> Unused(open), offset |-> (number - 1) * PerPage, by |-> by,
     only |-> only, list |-> <<>>, count |-> 0, stage |-> "list"]

AdminInit ==
    /\ screen \in {"observations", "users"}
    /\ newest \in 0..Entries /\ entries = 1..newest
    /\ flagged = {n \in entries : n % 2 = 0 /\ screen = "observations"}
    /\ pageNumber = 1 /\ orderBy = "id" /\ flaggedOnly = FALSE /\ pageTotal = 0
    /\ left = [clicks |-> Clicks, mishaps |-> Mishaps]
    /\ tableRows = <<>> /\ submitted = {} /\ gone = {}
    /\ requests = {Request({}, 1, "id", FALSE)} /\ clean = TRUE /\ reply = Unanswered

-----------------------------------------------------------------------------
(***************************************************************************)
(* The handlers                                                            *)
(***************************************************************************)
Filtered(r) == IF r.only THEN entries \cap flagged ELSE entries

\* all of them, by number, or by a column that orders them otherwise
Sorted(r) ==
    LET found == Filtered(r)
    IN  CHOOSE s \in [1..Cardinality(found) -> found] :
          \A i, j \in DOMAIN s : i < j => IF r.by = "id" THEN s[i] < s[j] ELSE s[i] > s[j]

\* slip: the last page is cut short
ShortCut(list, o) == SubSeq(list, o + 1, IF o + PerPage > Len(list) THEN Len(list) - 1 ELSE o + PerPage)

\* the rows of the page from o on
Cut(list, o) == SubSeq(list, o + 1, IF o + PerPage > Len(list) THEN Len(list) ELSE o + PerPage)

Becomes(r, s) == requests' = (requests \ {r}) \cup {s}
Mishap == left.mishaps > 0 /\ left' = [left EXCEPT !.mishaps = @ - 1]
SameScreen == UNCHANGED <<screen, query, pageTotal, tableRows, clean, reply, gone>>

ReadList(r) ==
    /\ r.stage = "list" /\ Becomes(r, [r EXCEPT !.list = Sorted(r), !.stage = "count"])
    /\ SameScreen /\ UNCHANGED <<entries, flagged, newest, submitted, left>>

ListFails(r) ==
    /\ r.stage = "list" /\ Mishap /\ Becomes(r, [r EXCEPT !.stage = "error"])
    /\ SameScreen /\ UNCHANGED <<entries, flagged, newest, submitted>>

\* a page that starts past the end of the list is a panic, which is answered
\* like an error; a count that fails is 0
ReadCount(r) ==
    /\ r.stage = "count"
    /\ \/ UNCHANGED left /\ Becomes(r, [r EXCEPT !.count = Cardinality(Filtered(r)),
                                                 !.stage = IF r.offset > Len(r.list) THEN "error" ELSE "page"])
       \/ Mishap /\ Becomes(r, [r EXCEPT !.stage = IF r.offset > Len(r.list) THEN "error" ELSE "page"])
    /\ SameScreen /\ UNCHANGED <<entries, flagged, newest, submitted>>

Settles(d, result) == submitted' = (submitted \ {d}) \cup {[d EXCEPT !.result = result]}

\* An observation is deleted, a user edited.  The one that another administrator
\* deletes may have been found before.
Carry(d) ==
    /\ d.result = "none"
    /\ \/ screen = "users" /\ Settles(d, "success") /\ UNCHANGED <<entries, left>>
       \/ screen = "observations" /\ d.entry \in entries
          /\ entries' = entries \ {d.entry} /\ Settles(d, "success") /\ UNCHANGED left
       \/ d.entry \notin entries /\ UNCHANGED <<entries, left>>
          /\ \E result \in {"success", "error"} : Settles(d, result)
       \/ Mishap /\ Settles(d, "error") /\ UNCHANGED entries
    /\ flagged' = flagged \cap entries' /\ SameScreen /\ UNCHANGED <<newest, requests>>

\* observations are made, flagged and deleted; users register
Change(n) ==
    /\ Mishap
    /\ \/ n = newest + 1 /\ n <= Entries /\ newest' = n /\ entries' = entries \cup {n} /\ UNCHANGED flagged
       \/ screen = "observations" /\ n \in entries \ flagged /\ flagged' = flagged \cup {n}
          /\ UNCHANGED <<entries, newest>>
       \/ screen = "observations" /\ n \in entries /\ entries' = entries \ {n}
          /\ flagged' = flagged \ {n} /\ UNCHANGED newest
    /\ SameScreen /\ UNCHANGED <<requests, submitted>>

-----------------------------------------------------------------------------
(***************************************************************************)
(* The controllers                                                         *)
(***************************************************************************)
Free == Cardinality(requests) + Cardinality(submitted) < AtOnce
Click == Free /\ left.clicks > 0 /\ left' = [left EXCEPT !.clicks = @ - 1]

\* asks for a query, which becomes the one that is open; open is what is under way
Update(number, by, only, open) ==
    /\ pageNumber' = number /\ orderBy' = by /\ flaggedOnly' = only
    /\ tableRows' = <<>>
    /\ requests' = open \cup {Request(open, number, by, only)}
    /\ clean' = (open = {})

OnScreen == SubSeq(tableRows, 1, Min({PerPage, Len(tableRows)}))
TotalPages == (pageTotal + PerPage - 1) \div PerPage

ChangePage(number) ==
    /\ Click /\ number \in 1..TotalPages
    /\ Update(number, orderBy, flaggedOnly, requests)
    /\ UNCHANGED <<screen, entries, flagged, newest, pageTotal, submitted, reply, gone>>

SetFilter(only) ==
    /\ Click /\ screen = "observations"
    /\ Update(pageNumber, orderBy, only, requests)
    /\ UNCHANGED <<screen, entries, flagged, newest, pageTotal, submitted, reply, gone>>

OrderBy(by) ==
    /\ Click /\ orderBy # by
    /\ Update(1, by, flaggedOnly, requests)
    /\ UNCHANGED <<screen, entries, flagged, newest, pageTotal, submitted, reply, gone>>

\* from the dialog of a row, whose button can be pressed again before the answer
\* is there
Submit(n) ==
    /\ (\E k \in DOMAIN OnScreen : OnScreen[k] = n) \/ (\E d \in submitted : d.entry = n)
    /\ Click
    /\ submitted' = submitted \cup {[id |-> Unused(submitted), entry |-> n, result |-> "none"]}
    /\ UNCHANGED <<screen, entries, flagged, newest, query, pageTotal, tableRows, requests, clean,
                   reply, gone>>

Submitted(d) ==
    /\ d.result = "success" /\ submitted' = submitted \ {d}
    /\ Update(pageNumber, orderBy, flaggedOnly, requests)
    /\ gone' = IF screen = "observations" THEN gone \cup {d.entry} ELSE gone
    /\ UNCHANGED <<screen, entries, flagged, newest, pageTotal, left, reply>>

\* nothing is said of an error
SubmitFails(d) ==
    /\ d.result = "error" /\ submitted' = submitted \ {d}
    /\ UNCHANGED <<screen, entries, flagged, newest, query, pageTotal, tableRows, requests, left,
                   clean, reply, gone>>

\* slip: the page that is no longer there stays
StaysOn(rows) == FALSE

\* there are observations, and none on this page
Reverts(rows) == screen = "observations" /\ pageNumber # 1 /\ rows = <<>>

\* a count of 0 leaves the table and the total as they are
ShowPage(r) ==
    LET filled == tableRows \o Cut(r.list, r.offset)
        rest == requests \ {r}
    IN  /\ r.stage = "page" /\ reply' = [ok |-> TRUE, list |-> r.list, count |-> r.count]
        /\ pageTotal' = IF r.count # 0 THEN r.count ELSE pageTotal
        /\ IF r.count # 0 /\ Reverts(filled)
           THEN Update(1, orderBy, flaggedOnly, rest)
           ELSE /\ tableRows' = IF r.count # 0 THEN filled ELSE tableRows
                /\ requests' = rest /\ UNCHANGED <<query, clean>>
        /\ UNCHANGED <<screen, entries, flagged, newest, submitted, left, gone>>

\* the first page is asked for, if it was not that; not of users, where what
\* asks for it has the name it has for observations
ShowError(r) ==
    /\ r.stage = "error" /\ reply' = Unanswered
    /\ IF pageNumber # 1 /\ screen = "observations"
       THEN Update(1, orderBy, flaggedOnly, requests \ {r})
       ELSE /\ pageNumber' = 1 /\ requests' = requests \ {r}
            /\ UNCHANGED <<orderBy, flaggedOnly, tableRows, clean>>
    /\ UNCHANGED <<screen, entries, flagged, newest, pageTotal, submitted, left, gone>>

AdminNext ==
    \/ \E r \in requests : ReadList(r) \/ ListFails(r) \/ ReadCount(r) \/ ShowPage(r) \/ ShowError(r)
    \/ \E d \in submitted : Carry(d) \/ Submitted(d) \/ SubmitFails(d)
    \/ \E n \in 1..Entries : Change(n) \/ ChangePage(n) \/ Submit(n)
    \/ \E only \in BOOLEAN : SetFilter(only)
    \/ \E by \in {"id", "other"} : OrderBy(by)

AdminSpec == AdminInit /\ [][AdminNext]_adminVars

-----------------------------------------------------------------------------
\* Once a page that met no other request is there, the administrator sees just
\* the rows that the list had for its number.  It is empty only if the list or the
\* count was, or if the request for the first page failed; nothing on it was
\* deleted here.
PageIsTrue ==
    requests = {} /\ clean =>
        /\ reply.ok /\ reply.count # 0 => OnScreen =
             SubSeq(reply.list, (pageNumber - 1) * PerPage + 1, Min({pageNumber * PerPage, Len(reply.list)}))
        /\ OnScreen = <<>> => ~reply.ok \/ reply.list = <<>> \/ reply.count = 0
        /\ ~reply.ok => pageNumber = 1
        /\ \A k \in DOMAIN OnScreen : OnScreen[k] \notin gone
=============================================================================
