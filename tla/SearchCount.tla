------------------------------ MODULE SearchCount ------------------------------
(***************************************************************************)
(* SearchForData counts the terms that are searched for, a page at a time, *)
(* and PopularPoliticalActivity lists the ones with the highest counts.    *)
(* Which tables match is the database's business: a term is known by how   *)
(* many titles and how many columns it matches.  Its other list, the users *)
(* with most discoveries, only reads the rows of ChartDiscovery.           *)
(***************************************************************************)
EXTENDS Integers, Sequences, FiniteSets, FiniteSetsExt, SequencesExt

CONSTANTS
    SearchTerms,      \* what is searched for
    Titles, Columns,  \* term -> matching index rows, and matching columns
    Searches,         \* requests: pages of search results
    Shaky,            \* requests whose statements may fail
    NoTerm,           \* no row
    Retries,          \* failed look-ups that are repeated
    Listed            \* length of the list of popular terms

ASSUME SearchesAreTyped ==
    /\ Retries \in Nat /\ Listed \in Nat
    /\ IsFiniteSet(Searches) /\ Shaky \subseteq Searches

ASSUME NoTermIsNoTerm ==
    NoTerm \notin [term : SearchTerms, count : Nat] \cup [key : Searches, count : Nat]

VARIABLES
    searchTerms,   \* priv_searchterms: the row that a request inserted
    search,        \* what a request asks for
    progress,         \* the statement it is at
    term,          \* its SearchTerm: the key it found, and the count
    failures,         \* look-ups that have failed
    popular,       \* the last answer of PopularPoliticalActivity
    mixed          \* history: terms of which two searches overlapped

searchVars == <<searchTerms, search, progress, term, failures, popular, mixed>>

TermsFor(w) == {k \in Searches : searchTerms[k] # NoTerm /\ searchTerms[k].term = w}

SearchInit ==
    /\ searchTerms = [s \in Searches |-> NoTerm]
    /\ search = [s \in Searches |-> NoTerm] /\ progress = [s \in Searches |-> "new"]
    /\ term = [s \in Searches |-> NoTerm] /\ failures = [s \in Searches |-> 0]
    /\ mixed = {} /\ popular = <<>>

-----------------------------------------------------------------------------
Smaller(a, b) == IF a < b THEN a ELSE b

\* one page of the titles, and the columns of every table
Matched(w, offset, count) ==
    Smaller(count, IF offset > Titles[w] THEN 0 ELSE Titles[w] - offset) + Columns[w]

\* the two queries of the index; a page beyond the results is empty and not counted
Search(s) ==
    \E w \in SearchTerms, offset \in {0, 6} :
        /\ progress[s] = "new"
        /\ search' = [search EXCEPT ![s] = w]
        /\ \/ s \in Shaky /\ progress' = [progress EXCEPT ![s] = "failed"]
           \/ progress' = [progress EXCEPT ![s] =
                          IF offset > Matched(w, offset, 6) THEN "empty" ELSE "find"]
        /\ UNCHANGED <<searchTerms, term, failures, popular, mixed>>

\* a look-up that fails is repeated, five times at most
FindFails(s) ==
    /\ progress[s] = "find" /\ s \in Shaky
    /\ IF failures[s] < Retries
       THEN failures' = [failures EXCEPT ![s] = @ + 1] /\ progress' = progress
       ELSE progress' = [progress EXCEPT ![s] = "failed"] /\ failures' = failures
    /\ UNCHANGED <<searchTerms, search, term, popular, mixed>>

FindTerm(s) ==
    /\ progress[s] = "find"
    /\ progress' = [progress EXCEPT ![s] = "save"]
    /\ IF TermsFor(search[s]) = {}
       THEN term' = [term EXCEPT ![s] = NoTerm]
       ELSE \E k \in TermsFor(search[s]) :
                term' = [term EXCEPT ![s] = [key |-> k, count |-> searchTerms[k].count]]
    /\ UNCHANGED <<searchTerms, search, failures, popular, mixed>>

\* slip: the key is lost with the struct of the first attempt
FreshKey(s) == s

KeyOf(s) == IF term[s] = NoTerm THEN s ELSE term[s].key

Others(s) == {q \in Searches \ {s} : progress[q] = "save" /\ search[q] = search[s]}

SaveTerm(s) ==
    /\ progress[s] = "save"
    /\ \/ s \in Shaky /\ progress' = [progress EXCEPT ![s] = "failed"]
          /\ UNCHANGED <<searchTerms, mixed>>
       \/ /\ searchTerms' = [searchTerms EXCEPT ![KeyOf(s)] =
                [term |-> search[s],
                 count |-> IF term[s] = NoTerm THEN 1 ELSE term[s].count + 1]]
          /\ mixed' = IF Others(s) = {} THEN mixed ELSE mixed \cup {search[s]}
          /\ progress' = [progress EXCEPT ![s] = "done"]
    /\ UNCHANGED <<search, term, failures, popular>>

\* SELECT term, count ... ORDER BY count DESC LIMIT: of equal counts any may be first
Descending(list) == \A i, j \in DOMAIN list : i < j => list[i].count >= list[j].count

Rows == {k \in Searches : searchTerms[k] # NoTerm}

PopularPoliticalActivity ==
    \E first \in kSubset(Smaller(Listed, Cardinality(Rows)), Rows) :
        /\ \A k \in first, q \in Rows \ first : searchTerms[k].count >= searchTerms[q].count
        /\ \E list \in SetToSeqs(first) :
              /\ popular' = [i \in DOMAIN list |-> searchTerms[list[i]]]
              /\ Descending(popular')
        /\ UNCHANGED <<searchTerms, search, progress, term, failures, mixed>>

SearchNext ==
    \/ \E s \in Searches : Search(s) \/ FindFails(s) \/ FindTerm(s) \/ SaveTerm(s)
    \/ PopularPoliticalActivity

SearchSpec == SearchInit /\ [][SearchNext]_searchVars

-----------------------------------------------------------------------------
Counted(w) == {s \in Searches : progress[s] = "done" /\ search[s] = w}

CountOf(w) == MapThenSumSet(LAMBDA k : searchTerms[k].count, TermsFor(w))

\* AddSearchTerm reads and writes in two statements and no key keeps terms
\* apart: searches of one term that overlap lose counts and insert it twice, but
\* never count too much; those that do not leave one row that has them all, and
\* the popular terms list it once.
SearchesAreCounted ==
    /\ \A w \in SearchTerms :
          /\ CountOf(w) <= Cardinality(Counted(w))
          /\ w \notin mixed =>
                Cardinality(TermsFor(w)) <= 1 /\ CountOf(w) = Cardinality(Counted(w))
    /\ \A i, j \in DOMAIN popular :
          i # j /\ popular[i].term = popular[j].term => popular[i].term \in mixed
=============================================================================
