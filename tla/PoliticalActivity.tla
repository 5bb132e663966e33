--------------------------- MODULE PoliticalActivity ---------------------------
(***************************************************************************)
(* GetPoliticalActivityHttp: TermFrequency counts the mentions of the      *)
(* year's news, day by day, of the terms of a dictionary or of the names   *)
(* of regions, and RankPA sorts what it found.  Time is counted in         *)
(* quarters of an hour from the start of the year in question.             *)
(***************************************************************************)
EXTENDS Integers, Sequences, FiniteSets, FiniteSetsExt, SequencesExt

CONSTANTS
    Keywords, Entities,     \* the two tables of mentions: date and name, in the
                            \* order of the iteration
    Dictionaries, Regions,  \* what the two tables of terms may hold: key, main
                            \* term and frequency
    Days,                   \* numdays
    Scanned,                \* mentions that a query reads at most
    Ranked                  \* terms that are shown at most

ASSUME ActivityIsTyped ==
    /\ Days \in Nat /\ Scanned \in Nat /\ Ranked \in Nat
    /\ \A rows \in {Keywords, Entities} : /\ DOMAIN rows = 1..Len(rows) /\ Len(rows) \in Nat
                                         /\ \A i \in DOMAIN rows : rows[i].date \in Int
    /\ \A words \in Dictionaries \cup Regions :
          /\ DOMAIN words = 1..Len(words) /\ Len(words) \in Nat
          /\ \A k \in DOMAIN words : words[k].freq \in Int

VARIABLES
    monitor,       \* what is asked for, and the step it is at
    vocabulary,    \* []TermKey
    terms,    \* []PoliticalActivity
    unsorted       \* n of RankPA

activityVars == <<monitor, vocabulary, terms, unsorted>>

ActivityInit ==
    /\ monitor = <<"nothing", "idle">> /\ vocabulary = <<>>
    /\ terms = <<>> /\ unsorted = 0

-----------------------------------------------------------------------------
Least(a, b) == IF a < b THEN a ELSE b

Day == 96
Today == Days * Day

Kinds == {"keywords", "mediapulse", "regions"}

\* the three kinds read their terms first; a region has several keys
AskActivity ==
    /\ monitor[2] = "idle"
    /\ \/ vocabulary' \in Dictionaries /\ monitor' \in {"keywords", "mediapulse"} \X {"keyword"}
       \/ vocabulary' \in Regions /\ monitor' = <<"regions", "keyword">>
    /\ UNCHANGED <<terms, unsorted>>

\* both times are rounded to the hour, and the difference is divided by a day
RoundedToHour(t) == 4 * ((t + 2) \div 4)
DayIndex(t) == (Today - RoundedToHour(t)) \div Day

\* the rows that the query gives: the first of those of the year, Scanned at most
Scan(rows) ==
    LET recent == {i \in DOMAIN rows : rows[i].date > 0}
    IN  {i \in recent : Cardinality({j \in recent : j <= i}) <= Scanned}

\* PaPlace: the place of the term, a new one at the end
Place(list, main) ==
    IF \E i \in DOMAIN list : list[i].term = main
    THEN CHOOSE i \in DOMAIN list : list[i].term = main
    ELSE Len(list) + 1

Mentioned(list, main, day) ==
    LET i == Place(list, main)
        old == IF i \in DOMAIN list THEN list
               ELSE Append(list, [term |-> main, mentions |-> [d \in 0..Days |-> 0], val |-> 0])
    IN  [old EXCEPT ![i].mentions[day] = @ + 1]

WithRow(list, row) ==
    FoldLeft(LAMBDA so, entry :
                IF entry.key = row.name /\ row.date < Today
                THEN Mentioned(so, entry.main, DayIndex(row.date)) ELSE so,
             list, vocabulary)

WithRows(list, rows) ==
    FoldLeftDomain(LAMBDA so, i : IF i \in Scan(rows) THEN WithRow(so, rows[i]) ELSE so,
                   list, rows)

\* each query may fail, which fails the request
TermFrequency(table, rows, next) ==
    /\ monitor \in Kinds \X {table}
    /\ \/ monitor' = [monitor EXCEPT ![2] = "failed"] /\ UNCHANGED terms
       \/ /\ terms' = WithRows(terms, rows)
          /\ monitor' = [monitor EXCEPT ![2] = next]
    /\ UNCHANGED <<vocabulary, unsorted>>

ScanKeywords == TermFrequency("keyword", Keywords, "entity")
ScanEntities == TermFrequency("entity", Entities, "values")

TotalOf(activity) == MapThenSumSet(LAMBDA d : activity.mentions[d], 0..Days)

\* the last entry of the dictionary for the term
FrequencyOf(activity) ==
    LET entries == {k \in DOMAIN vocabulary : vocabulary[k].main = activity.term}
    IN  IF entries = {} THEN 0 ELSE vocabulary[Max(entries)].freq

CalcPAVals ==
    /\ monitor \in Kinds \X {"values"}
    /\ terms' = [i \in DOMAIN terms |->
                        [terms[i] EXCEPT !.val =
                           IF monitor[1] = "keywords" THEN FrequencyOf(terms[i])
                           ELSE TotalOf(terms[i])]]
    /\ unsorted' = Len(terms)
    /\ monitor' = [monitor EXCEPT ![2] = "rank"] /\ UNCHANGED vocabulary

\* slip: the next pass ends before the last exchange
ExchangedShort(so, i) ==
    IF so.list[i].val > so.list[i - 1].val
    THEN [list |-> [so.list EXCEPT ![i] = so.list[i - 1], ![i - 1] = so.list[i]], last |-> i - 2]
    ELSE so

\* two neighbours of RankPA: the list, and where the last exchange was
Exchanged(so, i) ==
    IF so.list[i].val > so.list[i - 1].val
    THEN [list |-> [so.list EXCEPT ![i] = so.list[i - 1], ![i - 1] = so.list[i]], last |-> i - 1]
    ELSE so

Pass(list, n) ==
    FoldLeft(Exchanged, [list |-> list, last |-> 0], [i \in 1..n - 1 |-> i + 1])

\* passes over what is not in its place yet, until one exchanges nothing
RankPA ==
    /\ monitor \in Kinds \X {"rank"}
    /\ LET pass == Pass(terms, unsorted) IN
       /\ unsorted' = pass.last
       /\ IF pass.last = 0
          THEN /\ terms' = SubSeq(pass.list, 1, Least(Ranked, Len(pass.list)))
               /\ monitor' = [monitor EXCEPT ![2] = "shown"]
          ELSE terms' = pass.list /\ monitor' = monitor
    /\ UNCHANGED vocabulary

ActivityNext ==
    AskActivity \/ ScanKeywords \/ ScanEntities \/ CalcPAVals \/ RankPA

ActivitySpec == ActivityInit /\ [][ActivityNext]_activityVars

-----------------------------------------------------------------------------
\* the mentions of main on a day that starts half an hour after midnight
MentionsOn(main, day) ==
    LET of(rows) ==
          {at \in Scan(rows) \X (DOMAIN vocabulary) :
             LET row == rows[at[1]]
                 entry == vocabulary[at[2]]
             IN  /\ row.name = entry.key /\ entry.main = main /\ row.date < Today
                 /\ row.date - 2 \in Today - (day + 1) * Day .. Today - day * Day - 1}
    IN  Cardinality(of(Keywords)) + Cardinality(of(Entities))

ValueOf(main) ==
    IF monitor[1] = "keywords"
    THEN vocabulary[Max({k \in DOMAIN vocabulary : vocabulary[k].main = main})].freq
    ELSE MapThenSumSet(LAMBDA d : MentionsOn(main, d), 0..Days)

\* The terms shown are the ones with the highest values, in order, each with all
\* its mentions of the year on their day, however the counting of keywords and
\* then of entities and the passes of the sort went.
ActivityIsRanked ==
    monitor \in Kinds \X {"shown"} =>
        LET shown == {terms[i].term : i \in DOMAIN terms}
            known == {vocabulary[k].main : k \in DOMAIN vocabulary}
            mentioned == {m \in known : \E d \in 0..Days : MentionsOn(m, d) > 0}
        IN  /\ shown \subseteq mentioned /\ Cardinality(shown) = Len(terms)
            /\ Len(terms) = Least(Ranked, Cardinality(mentioned))
            /\ \A i \in DOMAIN terms :
                  /\ \A d \in 0..Days :
                        terms[i].mentions[d] = MentionsOn(terms[i].term, d)
                  /\ terms[i].val = ValueOf(terms[i].term)
                  /\ i > 1 => terms[i].val <= terms[i - 1].val
                  /\ \A m \in mentioned \ shown : ValueOf(m) <= terms[i].val
=============================================================================
