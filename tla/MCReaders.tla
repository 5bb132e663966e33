------------------------------ MODULE MCReaders ------------------------------
(***************************************************************************)
(* The components that are checked side by side, one in each behaviour:    *)
(* these models share nothing, and the others stay as they are at first.   *)
(***************************************************************************)
EXTENDS Correlations, ChartCache, ActivityStream, Paging, NewsFetch, Transfer,
        SearchCount, PoliticalActivity, AdminTable, TLC

CONSTANTS
    t1, t2, t3, j1, j2,             \* tables and jobs
    day, price, size, loss, boroughs,   \* columns, and the x of a year's columns
    y1, y2, v1, v2,                 \* years and viewers
    u1, u2, s1, s2,                 \* people, and tables in the browser
    w1, w2, q1, q2, q3,             \* terms and searches
    health, school, tax, crime, tory    \* names in the news

\* ten days, eleven buckets, an overlap or a part of one, and two days only,
\* which may have nothing in common with the first
MCSeries == {0..10, 0..20, 5..17, {12, 30}}

MCCols == <<[name |-> day, type |-> "date"], [name |-> price, type |-> "float"],
            [name |-> size, type |-> "float"], [name |-> loss, type |-> "integer"]>>

\* of the kinds of charts, and some that the rows do not give
MCWanted == {Key("bubble", day, size, price), Key("line", day, price, Blank),
             Key("line", day, size, Blank), Key("column", day, price, Blank),
             Key("column", boroughs, day, y1)}

MCTargets == <<"response", "keyword", "entity", "image", "related">>

\* rows about the ends of windows: in the last days of a February, on the first
\* day copied and the last one that is not; three keywords in one window
Row(table, y, m, d, n) == [table |-> table, date |-> <<y, m, d>>, n |-> n]
MCOld == {Row("response", 2014, 9, 29, 1), Row("response", 2014, 9, 28, 1),
          Row("response", 2014, 2, 28, 1), Row("related", 2014, 2, 28, 1),
          Row("response", 2014, 3, 1, 1), Row("image", 2014, 3, 1, 0), Row("image", 2014, 3, 1, 1),
          Row("keyword", 2014, 3, 28, 1), Row("keyword", 2014, 3, 28, 2), Row("keyword", 2014, 3, 2, 3),
          Row("keyword", 2014, 2, 28, 3), Row("entity", 2014, 8, 29, 1),
          Row("entity", 2009, 12, 1, 1), Row("entity", 2009, 11, 30, 1)}
MCLatest == <<2014, 9, 29>>

\* a term with a second page of titles, and one of few titles and two columns
MCTitles == w1 :> 7 @@ w2 :> 1
MCColumns == w1 :> 0 @@ w2 :> 2

\* mentions about the ends of the two days, before and after them, and one too
\* many for the query
Mention(name, t) == [name |-> name, date |-> t]
MCKeywords == <<Mention(health, 1), Mention(school, 97), Mention(tax, 190), Mention(health, 98),
                Mention(health, 0), Mention(crime, 191), Mention(health, 192), Mention(tax, 100),
                Mention(crime, 101)>>
MCEntities == <<Mention(tory, 2), Mention(school, 193), Mention(tax, 93), Mention(school, 94)>>

\* every order of three values with ties, a term listed twice, no term; two regions
Named(key, main, freq) == [key |-> key, main |-> main, freq |-> freq]
MCDictionaries ==
    {<<Named(crime, crime, 1), Named(school, school, f), Named(tax, tax, g), Named(health, health, h)>> :
        f, g, h \in 0..3}
    \cup {<<Named(tax, tax, 1), Named(tax, tax, 2), Named(school, school, 1)>>, <<>>}
MCRegions == {<<Named(health, health, 0), Named(school, health, 0),
                Named(tory, tory, 0), Named(crime, tory, 0)>>}

VARIABLE part

allVars == <<part, correlationVars, cacheVars, streamVars, pagingVars, fetchVars, transferVars,
             searchVars, activityVars, adminVars>>

Idle(p) ==
    /\ p # "correlations" => CorrelationsInit /\ days = [t \in Tables |-> 0..10]
    /\ p # "cache" => CacheInit
    /\ p # "stream" => StreamInit
    /\ p # "paging" => PagingInit /\ kind = "related" /\ list = [t \in Shelves |-> <<>>]
    /\ p # "fetch" => FetchInit /\ empty = {}
    /\ p # "transfer" => TransferInit
    /\ p # "search" => SearchInit
    /\ p # "activity" => ActivityInit
    /\ p # "admin" => AdminInit /\ screen = "users" /\ entries = {}

Init ==
    \/ part = "correlations" /\ CorrelationsInit /\ Idle("correlations")
    \/ part = "cache" /\ CacheInit /\ Idle("cache")
    \/ part = "stream" /\ StreamInit /\ Idle("stream")
    \/ part = "paging" /\ PagingInit /\ Idle("paging")
    \/ part = "fetch" /\ FetchInit /\ Idle("fetch")
    \/ part = "transfer" /\ TransferInit /\ Idle("transfer")
    \/ part = "search" /\ SearchInit /\ Idle("search")
    \/ part = "activity" /\ ActivityInit /\ Idle("activity")
    \/ part = "admin" /\ AdminInit /\ Idle("admin")

Next ==
    /\ UNCHANGED part
    /\ \/ /\ part = "correlations" /\ CorrelationsNext
          /\ UNCHANGED <<cacheVars, streamVars, pagingVars, fetchVars,
                       transferVars, searchVars, activityVars, adminVars>>
       \/ /\ part = "cache" /\ CacheNext
          /\ UNCHANGED <<correlationVars, streamVars, pagingVars, fetchVars,
                       transferVars, searchVars, activityVars, adminVars>>
       \/ /\ part = "stream" /\ StreamNext
          /\ UNCHANGED <<correlationVars, cacheVars, pagingVars, fetchVars,
                       transferVars, searchVars, activityVars, adminVars>>
       \/ /\ part = "paging" /\ PagingNext
          /\ UNCHANGED <<correlationVars, cacheVars, streamVars, fetchVars,
                       transferVars, searchVars, activityVars, adminVars>>
       \/ /\ part = "fetch" /\ FetchNext
          /\ UNCHANGED <<correlationVars, cacheVars, streamVars, pagingVars,
                       transferVars, searchVars, activityVars, adminVars>>
       \/ /\ part = "transfer" /\ TransferNext
          /\ UNCHANGED <<correlationVars, cacheVars, streamVars, pagingVars,
                       fetchVars, searchVars, activityVars, adminVars>>
       \/ /\ part = "search" /\ SearchNext
          /\ UNCHANGED <<correlationVars, cacheVars, streamVars, pagingVars,
                       fetchVars, transferVars, activityVars, adminVars>>
       \/ /\ part = "activity" /\ ActivityNext
          /\ UNCHANGED <<correlationVars, cacheVars, streamVars, pagingVars,
                       fetchVars, transferVars, searchVars, adminVars>>
       \/ /\ part = "admin" /\ AdminNext
          /\ UNCHANGED <<correlationVars, cacheVars, streamVars, pagingVars, fetchVars,
                       transferVars, searchVars, activityVars>>

Spec == Init /\ [][Next]_allVars

Symmetry == Permutations(Tables) \cup Permutations(Jobs)

\* The two programs that fill Cassandra leave out only what ArticlesAreFetched
\* and RowsAreCopied say.
NewsArrives == ArticlesAreFetched /\ RowsAreCopied

\* The pages of the lists of charts and of the administrator's tables leave out
\* only what PagesTile and PageIsTrue say.
PagesAreTrue == PagesTile /\ PageIsTrue
=============================================================================
