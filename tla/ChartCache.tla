----------------------------- MODULE ChartCache -----------------------------
(***************************************************************************)
(* RelatedChartsCollection: the charts of a table, made on demand and kept *)
(* in a map of the process.  GetRelatedCharts makes every chart that the   *)
(* columns allow and GetChart the one asked for; both go through           *)
(* GenerateChartData, key by key: is it there, query, put an empty entry,  *)
(* fill it row by row.  Requests run in goroutines on several processors   *)
(* and the map has no lock.                                                *)
(*                                                                         *)
(* One table; of its rows only matters which charts they can give.  A key  *)
(* whose rows give none keeps its empty entry for good: whoever asks for   *)
(* that chart is refused.                                                  *)
(***************************************************************************)
EXTENDS Integers, Sequences, FiniteSets, SequencesExt

CONSTANTS
    Cols,      \* its columns in order: name and SQL type
    Dated,     \* the names that contain "date" or "year"
    Varied,    \* the columns with two different values
    Negative,  \* the columns with a negative whole number
    Long,      \* it has more than 50 rows
    Years,     \* the years of its rows (without dates all are of one)
    Mixed,     \* those of which ValueCheck and NegCheck let a row through: two
               \* of its values differ, and none is a negative whole number
    Boroughs,  \* the x that asks for the columns of one year
    Blank,     \* an empty coordinate
    Viewers,   \* requests
    Unlucky,   \* requests whose statements may fail
    Wanted,    \* bound: the charts asked for one by one
    Spoils     \* bound: entries that a failure or a race damages

\* bound: one column of dates at most, and it alone is named like one
ASSUME OneColumnOfDates ==
    /\ \A c, d \in Dated : c = d
    /\ \A i \in DOMAIN Cols : (Cols[i].name \in Dated) = (Cols[i].type = "date")
ASSUME MixedAreYears == Mixed \subseteq Years /\ Long \in BOOLEAN
ASSUME BlankIsBlank == Blank \notin Years /\ \A i \in DOMAIN Cols : Blank # Cols[i].name

VARIABLES
    cache,     \* the map: the charts of a key, each with or without all values
    ask,       \* what a request asks for
    at,        \* where it is
    todo,      \* the keys it has still to go through
    rows,      \* the charts that its open query still has rows for
    told,      \* the charts in its answer
    spoilt     \* history: keys whose entry a failure or a race has damaged

cacheVars == <<cache, ask, at, todo, rows, told, spoilt>>

Numeric == {"float", "integer", "real"}

Type(c) == IF \E i \in DOMAIN Cols : Cols[i].name = c
           THEN (CHOOSE col \in ToSet(Cols) : col.name = c).type ELSE ""

Key(type, x, y, z) == [type |-> type, x |-> x, y |-> y, z |-> z]

\* XYPermutations: two different columns, and a third for bubbles
Names == [i \in DOMAIN Cols |-> Cols[i].name]
Followed(seqs) ==
    FlattenSeq([i \in DOMAIN seqs |->
        [j \in DOMAIN Names |-> Append(seqs[i], Names[j])]])

\* No table has two columns of one name.  The tests for a name that comes twice
\* in a row of values (tablestocharts.go:785, 830) never hold, then.
ASSUME ColumnsDiffer == IsInjective(Names)

Pairs == SelectSeq(Followed([i \in DOMAIN Names |-> <<Names[i]>>]), IsInjective)
Triples == SelectSeq(Followed(Pairs), IsInjective)

\* the charts that GetRelatedCharts asks for, in its order
PieKeys == [i \in DOMAIN Cols |-> Key("pie", Cols[i].name, Blank, Blank)]

PairKeys ==
    LET key(type, p) == Key(type, p[1], p[2], Blank)
        when(cond, type, p) == IF cond THEN <<key(type, p)>> ELSE <<>>
        of(p) ==
            when(Type(p[1]) # "varchar" /\ Type(p[2]) # "varchar", "column dated", p)
            \o when(Type(p[2]) \notin {"varchar", "date"}, "column", p)
            \o when(/\ Type(p[2]) # "varchar"
                    /\ Type(p[1]) = "date" \/ (Type(p[1]) # "varchar" /\ p[1] \in Dated), "line", p)
    IN  FlattenSeq([i \in DOMAIN Pairs |-> of(Pairs[i])])

BubbleKeys ==
    LET fit(t) == /\ Type(t[1]) = "date"
                  /\ Type(t[2]) \in Numeric /\ Type(t[3]) \in Numeric
        triples == SelectSeq(Triples, fit)
    IN  IF Len(Cols) <= 2 THEN <<>>
        ELSE [i \in DOMAIN triples |-> Key("bubble", triples[i][1], triples[i][2], triples[i][3])]

\* there is a query for this chart; else GenerateChartData does nothing
Queryable(k) ==
    CASE k.type = "pie" -> Type(k.x) \in Numeric \/ (k.x \in Dated /\ Type(k.y) = "")
      [] k.type = "bubble" -> TRUE
      [] k.type = "column" /\ k.x = Boroughs -> TRUE
      [] OTHER -> k.x \in Dated

Related == SelectSeq(PieKeys \o PairKeys \o BubbleKeys, Queryable)

Swapped(k) == [k EXCEPT !.y = k.z, !.z = k.y]

\* one year of a pie or of the columns is asked for by a key of its own
YearKeys ==
    {Key("pie", c, y, Blank) : c \in {d \in Dated : Type(d) = "date"}, y \in Years}
    \cup {Key("column", Boroughs, c, y) : c \in Dated, y \in Years}

Keys == ToSet(Related) \cup YearKeys

\* bound: only such charts are asked for.  The rest follows from Related, which
\* has the bubbles of every order of the columns, but needs an induction.
ASSUME KeysAreListed ==
    /\ Wanted \subseteq Keys /\ Related \in Seq(Keys)
    /\ \A k \in Keys : k.type = "bubble" => Swapped(k) \in Keys

\* all rows make one chart, number 0, if both axes vary; the x of a bubble is the
\* year, and its z need not vary
Plotted(k) ==
    LET axesVary ==
            \/ /\ k.type = "bubble"
               /\ k.y \in Varied /\ \E y, z \in Years : y # z
            \/ /\ k.type \in {"column", "line"}
               /\ Type(k.y) \in Numeric /\ {k.x, k.y} \subseteq Varied
    IN  IF axesVary THEN {0} ELSE {}

\* too long for columns, or negative for bubbles
LeftOut(k) ==
    \/ k.type = "column" /\ Long
    \/ k.type = "bubble" /\ {k.y, k.z} \cap Negative # {}

\* the charts that its rows give: one for every year, or number 0
ChartsOfKey(k) ==
    CASE k.type = "pie" -> IF Type(k.x) \in Numeric THEN Mixed ELSE {k.y} \cap Mixed
      [] k.type = "column" /\ k.x = Boroughs -> {k.z} \cap Mixed
      [] k.type = "column dated" ->
           IF Type(k.x) = "date" /\ Type(k.y) \in Numeric THEN Mixed ELSE {}
      [] OTHER -> IF LeftOut(k) THEN {} ELSE Plotted(k)

\* the kind and the title that an answer shows of chart n
Shown(k, n) == <<k.type, IF n = 0 THEN <<k.y, k.z>> ELSE n>>

NoEntry == {<<"none">>}

Busy == {"check", "put", "fill"}
Doing(r) == Head(todo[r])

CacheTypeOK ==
    /\ \A k \in Keys : cache[k] = NoEntry \/ cache[k] \subseteq (ChartsOfKey(k) \cup Plotted(k)) \X BOOLEAN
    /\ at \in [Viewers -> {"arrive", "answered", "refused", "died"} \cup Busy]
    /\ \A r \in Viewers : at[r] = "fill" => /\ rows[r] # {} \/ r \in Unlucky
                                            /\ rows[r] \subseteq ChartsOfKey(Doing(r))
    /\ spoilt \subseteq Keys

CacheInit ==
    /\ cache = [k \in Keys |-> NoEntry]
    /\ ask = [r \in Viewers |-> <<>>] /\ at = [r \in Viewers |-> "arrive"]
    /\ todo = [r \in Viewers |-> <<>>] /\ rows = [r \in Viewers |-> {}]
    /\ told = [r \in Viewers |-> {}]
    /\ spoilt = {}

-----------------------------------------------------------------------------
To(r, place) == at' = [at EXCEPT ![r] = place]

\* on to the next key
Advance(r) == To(r, "check") /\ todo' = [todo EXCEPT ![r] = Tail(@)]

\* the requests that are filling the entry of k
Filling(k) == {r \in Viewers : at[r] = "fill" /\ Doing(r) = k}

\* another goroutine may be using the map at this moment
Raced(r) == \E q \in Viewers \ {r} : at[q] \in Busy

Damage(k) == Cardinality(spoilt \cup {k}) <= Spoils /\ spoilt' = spoilt \cup {k}

\* slip: the key of the map leaves the y column out
PresentAlike(k) ==
    \E l \in Keys : cache[l] # NoEntry /\ l.type = k.type /\ l.x = k.x

\* GenerateChartData: its key, or for bubbles the one with y and z exchanged
Present(k) ==
    cache[k] # NoEntry \/ (k.type = "bubble" /\ cache[Swapped(k)] # NoEntry)

\* the table and its index are found; with no columns no chart is tried
Ask(r) ==
    /\ at[r] = "arrive"
    /\ \/ \E want \in {Related} \cup {<<k>> : k \in Wanted} :
            /\ ask' = [ask EXCEPT ![r] = want] /\ todo' = [todo EXCEPT ![r] = want]
            /\ To(r, "check")
       \/ /\ r \in Unlucky /\ (To(r, "check") \/ To(r, "died"))
          /\ UNCHANGED <<ask, todo>>
    /\ UNCHANGED <<cache, rows, told, spoilt>>

Check(r) ==
    /\ at[r] = "check" /\ todo[r] # <<>>
    /\ IF Present(Doing(r)) THEN Advance(r)
       ELSE To(r, "put") /\ UNCHANGED todo
    /\ UNCHANGED <<cache, ask, rows, told, spoilt>>

\* the query fails: there is no entry
QueryFails(r) ==
    /\ at[r] = "put" /\ r \in Unlucky
    /\ Damage(Doing(r))
    /\ Advance(r) /\ UNCHANGED <<cache, ask, rows, told>>

\* whatever entry there was is replaced; in a race the write may be lost.  Rows
\* that give no chart are read as well, which may fail
Put(r) ==
    /\ at[r] = "put"
    /\ LET k == Doing(r)
           charts == ChartsOfKey(k)
       IN  /\ \/ cache' = [cache EXCEPT ![k] = {}] /\ UNCHANGED spoilt
              \/ Raced(r) /\ Damage(k) /\ UNCHANGED cache
           /\ rows' = [rows EXCEPT ![r] = charts]
           /\ \/ charts = {} /\ Advance(r)
              \/ (charts # {} \/ r \in Unlucky) /\ To(r, "fill") /\ UNCHANGED todo
    /\ UNCHANGED <<ask, told>>

\* one more chart; the last one ends the query
Fill(r) ==
    /\ at[r] = "fill" /\ cache[Doing(r)] # NoEntry
    /\ \E n \in rows[r] :
         /\ rows' = [rows EXCEPT ![r] = @ \ {n}]
         /\ \/ cache' = [cache EXCEPT ![Doing(r)] = @ \cup {<<n, TRUE>>}] /\ UNCHANGED spoilt
            \/ Raced(r) /\ Damage(Doing(r)) /\ UNCHANGED cache
         /\ IF rows[r] = {n} THEN Advance(r) ELSE To(r, "fill") /\ UNCHANGED todo
    /\ UNCHANGED <<ask, told>>

\* no row is left, and there was no chart
Finish(r) ==
    /\ at[r] = "fill" /\ rows[r] = {} /\ cache[Doing(r)] # NoEntry
    /\ Advance(r) /\ UNCHANGED <<cache, ask, rows, told, spoilt>>

\* the rows end early, and nobody looks at rows.Err: charts are missing, or one
\* is there with the values read so far, if only because what would have left it
\* out has not been read
RowsEnd(r) ==
    /\ at[r] = "fill" /\ r \in Unlucky /\ cache[Doing(r)] # NoEntry
    /\ Damage(Doing(r))
    /\ \/ UNCHANGED cache
       \/ Plotted(Doing(r)) = {0} /\ cache' = [cache EXCEPT ![Doing(r)] = @ \cup {<<0, FALSE>>}]
    /\ rows' = [rows EXCEPT ![r] = {}]
    /\ Advance(r) /\ UNCHANGED <<ask, told>>

\* a date that is NULL, or an entry that a race has lost: the panic is recovered
\* and answered, and the entry stays as it is
Panic(r) ==
    /\ at[r] = "fill" /\ (r \in Unlucky \/ cache[Doing(r)] = NoEntry)
    /\ Damage(Doing(r))
    /\ To(r, "died") /\ rows' = [rows EXCEPT ![r] = {}]
    /\ UNCHANGED <<cache, ask, todo, told>>

\* GetRelatedCharts shows what is there for the table, GetChart any one chart of
\* its key, or refuses
Collect(r) ==
    /\ at[r] = "check" /\ todo[r] = <<>>
    /\ LET entries(k) == IF cache[k] = NoEntry THEN {} ELSE cache[k]
           charts(k) == {<<Shown(k, e[1]), e[2]>> : e \in entries(k)}
       IN  IF Len(ask[r]) # 1
           THEN To(r, "answered") /\ told' = [told EXCEPT ![r] = UNION {charts(k) : k \in Keys}]
           ELSE \/ charts(ask[r][1]) = {} /\ To(r, "refused") /\ UNCHANGED told
                \/ \E e \in charts(ask[r][1]) : To(r, "answered") /\ told' = [told EXCEPT ![r] = {e}]
    /\ UNCHANGED <<cache, ask, todo, rows, spoilt>>

\* the race ends the process: another one starts with an empty map
Crash ==
    /\ \E r \in Viewers : at[r] \in {"put", "fill"} /\ Raced(r)
    /\ cache' = [k \in Keys |-> NoEntry] /\ spoilt' = {}
    /\ at' = [r \in Viewers |-> IF at[r] \in Busy THEN "died" ELSE at[r]]
    /\ rows' = [r \in Viewers |-> {}]
    /\ UNCHANGED <<ask, todo, told>>

CacheNext ==
    \/ \E r \in Viewers :
         \/ Ask(r) \/ Check(r) \/ QueryFails(r) \/ Put(r) \/ Fill(r)
         \/ Finish(r) \/ RowsEnd(r) \/ Panic(r) \/ Collect(r)
    \/ Crash

CacheSpec == CacheInit /\ [][CacheNext]_cacheVars

-----------------------------------------------------------------------------
\* An entry is in the map before its charts are, and one request may empty it
\* again while another reads it; yet a request is shown every chart that it asked
\* for and that the rows give (ChartsOfKey: no columns of more than 50 values, no
\* bubbles of negative numbers, no axis with one value), unless the entry is being
\* filled when it looks, a failure or a race has damaged it, which is for good,
\* or there is one for the same bubble with y and z exchanged.
ChartsAreShown ==
    [][\A r \in Viewers : at[r] = "check" /\ at'[r] \in {"answered", "refused"} =>
         \A k \in ToSet(ask[r]) :
           LET whole == {<<Shown(k, n), TRUE>> : n \in ChartsOfKey(k)}
           IN  \/ k \in spoilt \/ Filling(k) # {}
               \/ k.type = "bubble" /\ cache[Swapped(k)] # NoEntry
               \/ whole \subseteq told'[r]
               \/ Len(ask[r]) = 1 /\ told'[r] \in {{e} : e \in whole}]_cacheVars
=============================================================================
