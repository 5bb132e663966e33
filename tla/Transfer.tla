------------------------------- MODULE Transfer -------------------------------
(***************************************************************************)
(* transfer: copies the news from the old keyspace to the new one, a month *)
(* at a time and backwards.  Every month is a window FromDate <= date <    *)
(* ToDate, and both ends go back by AddDate(0, -1, 0), which turns a day   *)
(* that the month before does not have into one of the month after it.     *)
(***************************************************************************)
EXTENDS Integers, FiniteSets, FiniteSetsExt

CONSTANTS
    Old,       \* the rows of the old keyspace: table, date of the article, and
               \* number; of an image, its pic_index
    Months,    \* windows
    Latest,    \* the end of the first one
    Limit,     \* the rows of a table that are read for a window
    Lapses     \* bound: rows lost by failures

\* a date is year, month and day
Dates == Int \X Int \X Int

ASSUME TransferIsBounded == Months \in Nat /\ Limit \in Nat /\ Lapses \in Nat

ASSUME RowsAreTyped ==
    /\ IsFiniteSet(Old) /\ Latest \in Dates
    /\ \A row \in Old :
          /\ row.table \in {"response", "related", "image", "keyword", "entity"}
          /\ row.date \in Dates /\ row.n \in Nat

\* an image and a related page belong to an article, here the one of their date
ASSUME RowsHaveArticles ==
    \A row \in Old : row.table \in {"image", "related"} =>
        \E article \in Old : article.table = "response" /\ article.date = row.date

VARIABLES
    month,     \* windows done
    fromDate, toDate,
    step,      \* the query that is next
    new,       \* the rows of the new keyspace
    lapsed     \* history: rows lost by a failure

transferVars == <<month, fromDate, toDate, step, new, lapsed>>

Before(a, b) ==
    \/ a[1] < b[1]
    \/ a[1] = b[1] /\ a[2] < b[2]
    \/ a[1] = b[1] /\ a[2] = b[2] /\ a[3] < b[3]

Leap(y) == y % 4 = 0 /\ (y % 100 # 0 \/ y % 400 = 0)
DaysOf(y, m) == CASE m = 2 -> IF Leap(y) THEN 29 ELSE 28
                  [] m \in {4, 6, 9, 11} -> 30
                  [] OTHER -> 31

\* AddDate(0, -1, 0)
MonthBefore(d) ==
    LET y == IF d[2] = 1 THEN d[1] - 1 ELSE d[1]
        m == IF d[2] = 1 THEN 12 ELSE d[2] - 1
    IN  IF d[3] <= DaysOf(y, m) THEN <<y, m, d[3]>>
        ELSE <<d[1], d[2], d[3] - DaysOf(y, m)>>

TransferTypeOK ==
    /\ month \in 0..Months /\ step \in {"response", "keyword", "entity"}
    /\ new \subseteq Old /\ lapsed \subseteq Old

TransferInit ==
    /\ month = 0 /\ toDate = Latest /\ fromDate = MonthBefore(Latest)
    /\ step = "response" /\ new = {} /\ lapsed = {}

-----------------------------------------------------------------------------
\* slip: neither end belongs to the window
Strictly(d) == Before(fromDate, d) /\ Before(d, toDate)

Within(d) == ~Before(d, fromDate) /\ Before(d, toDate)

In(table) == {row \in Old : row.table = table /\ Within(row.date)}

\* the rows of this query arrive, but for those that a failure loses: an insert,
\* of which nobody looks at the error, or the rest of an iteration
Copy(rows) ==
    \E lost \in SUBSET rows :
        /\ Cardinality(lapsed \cup lost) <= Lapses
        /\ lapsed' = lapsed \cup lost /\ new' = new \cup (rows \ lost)

\* every response of the window, its first image and all that is related to it
CopyResponses ==
    /\ month < Months /\ step = "response"
    /\ Copy(In("response") \cup In("related") \cup {row \in In("image") : row.n = 0})
    /\ step' = "keyword" /\ UNCHANGED <<month, fromDate, toDate>>

\* at most Limit rows, whichever they are
CopyKeywords ==
    /\ month < Months /\ step = "keyword"
    /\ \E rows \in kSubset(Min({Limit, Cardinality(In("keyword"))}), In("keyword")) : Copy(rows)
    /\ step' = "entity" /\ UNCHANGED <<month, fromDate, toDate>>

CopyEntities ==
    /\ month < Months /\ step = "entity"
    /\ \E rows \in kSubset(Min({Limit, Cardinality(In("entity"))}), In("entity")) : Copy(rows)
    /\ step' = "response" /\ month' = month + 1
    /\ toDate' = MonthBefore(toDate) /\ fromDate' = MonthBefore(fromDate)

TransferNext == CopyResponses \/ CopyKeywords \/ CopyEntities

TransferSpec == TransferInit /\ [][TransferNext]_transferVars

-----------------------------------------------------------------------------
Ends[k \in 0..Months] == IF k = 0 THEN Latest ELSE MonthBefore(Ends[k - 1])

\* Between the end of the last window and that of the first every row has been
\* copied: no day falls between two windows, where one of them ends on a day that
\* the month does not have.  Missing are only second images, rows that a failure
\* lost, and keywords and entities of a window that has more of them than Limit.
RowsAreCopied ==
    step = "response" => \A row \in Old :
        LET window(k) == {other \in Old : /\ other.table = row.table
                                          /\ ~Before(other.date, Ends[k]) /\ Before(other.date, Ends[k - 1])}
        IN  IF ~Before(row.date, toDate) /\ Before(row.date, Latest)
            THEN \/ row \in new \cup lapsed
                 \/ row.table = "image" /\ row.n > 0
                 \/ /\ row.table \in {"keyword", "entity"}
                    /\ \E k \in 1..Months : row \in window(k) /\ Cardinality(window(k)) > Limit
            ELSE row \notin new
=============================================================================
