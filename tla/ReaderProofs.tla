---------------------------- MODULE ReaderProofs ----------------------------
(***************************************************************************)
(* Proofs about the components that share no state: SearchCount, for any   *)
(* terms and searches, Correlations, for any tables, days and jobs,        *)
(* newsfetch and transfer, for any urls, rows and failures, and the cache  *)
(* of charts, for any columns and requests.                                *)
(***************************************************************************)
EXTENDS MCReaders, DataProofs, SequenceTheorems

-----------------------------------------------------------------------------
(***************************************************************************)
(* SearchCount: types.                                                     *)
(***************************************************************************)
TermRow == [term : SearchTerms, count : Nat]
TermCopy == [key : Searches, count : Nat]

SearchTypes ==
    /\ searchTerms \in [Searches -> TermRow \cup {NoTerm}]
    /\ search \in [Searches -> SearchTerms \cup {NoTerm}]
    /\ progress \in [Searches -> {"new", "find", "save", "empty", "failed", "done"}]
    /\ term \in [Searches -> TermCopy \cup {NoTerm}]
    /\ \A s \in Searches : progress[s] # "new" => search[s] \in SearchTerms

\* The values a step may put there.
LEMMA RowsAreTerms ==
    /\ \A r \in TermRow \cup TermCopy : r # NoTerm
    /\ \A w \in SearchTerms, n \in Nat : [term |-> w, count |-> n] \in TermRow
    /\ \A k \in Searches, n \in Nat : [key |-> k, count |-> n] \in TermCopy
  BY NoTermIsNoTerm DEF TermRow, TermCopy

\* A key is of a request, and a found row has a count.
LEMMA KeysAreSearches ==
    ASSUME SearchTypes, NEW s \in Searches
    PROVE  /\ KeyOf(s) \in Searches
           /\ term[s] # NoTerm => term[s].key \in Searches /\ term[s].count \in Nat
  BY DEF SearchTypes, KeyOf, TermCopy

\* The initial state has the right types.
LEMMA SearchInitTypes == SearchInit => SearchTypes
  BY DEF SearchInit, SearchTypes

\* Every step keeps the types, one action at a time.
LEMMA SearchNextTypes == SearchTypes /\ [SearchNext]_searchVars => SearchTypes'
  <1> SUFFICES ASSUME SearchTypes, [SearchNext]_searchVars PROVE SearchTypes'
    OBVIOUS
  <1> USE DEF SearchTypes
  <1>u. CASE UNCHANGED searchVars
    BY <1>u DEF searchVars
  <1>1. ASSUME NEW s \in Searches, Search(s) PROVE SearchTypes'
    BY <1>1 DEF Search
  <1>2. ASSUME NEW s \in Searches, FindFails(s) PROVE SearchTypes'
    BY <1>2 DEF FindFails
  <1>3. ASSUME NEW s \in Searches, FindTerm(s) PROVE SearchTypes'
    <2>1. CASE TermsFor(search[s]) = {}
      BY <1>3, <2>1 DEF FindTerm
    <2>2. CASE TermsFor(search[s]) # {}
      <3>1. PICK k \in TermsFor(search[s]) :
               term' = [term EXCEPT ![s] = [key |-> k, count |-> searchTerms[k].count]]
        BY <1>3, <2>2 DEF FindTerm
      <3>2. k \in Searches /\ searchTerms[k].count \in Nat
        BY <3>1 DEF TermsFor, TermRow
      <3>3. [key |-> k, count |-> searchTerms[k].count] \in TermCopy
        BY <3>2, RowsAreTerms
      <3> QED BY <1>3, <3>1, <3>3 DEF FindTerm
    <2> QED BY <2>1, <2>2
  <1>4. ASSUME NEW s \in Searches, SaveTerm(s) PROVE SearchTypes'
    <2> DEFINE n == IF term[s] = NoTerm THEN 1 ELSE term[s].count + 1
    <2>1. n \in Nat /\ KeyOf(s) \in Searches /\ search[s] \in SearchTerms
      BY <1>4, KeysAreSearches DEF SaveTerm
    <2>2. [term |-> search[s], count |-> n] \in TermRow
      BY <2>1, RowsAreTerms
    <2>3. \/ searchTerms' = searchTerms
          \/ searchTerms' = [searchTerms EXCEPT ![KeyOf(s)] = [term |-> search[s], count |-> n]]
      BY <1>4 DEF SaveTerm
    <2> HIDE DEF n
    <2>4. searchTerms' \in [Searches -> TermRow \cup {NoTerm}]
      BY <2>1, <2>2, <2>3
    <2> QED BY <1>4, <2>4 DEF SaveTerm
  <1>5. CASE PopularPoliticalActivity
    BY <1>5 DEF PopularPoliticalActivity
  <1> QED BY <1>u, <1>1, <1>2, <1>3, <1>4, <1>5 DEF SearchNext

-----------------------------------------------------------------------------
(***************************************************************************)
(* SearchCount: counts.                                                    *)
(***************************************************************************)

\* The searches that were counted in row k.
CountedIn(k) == {s \in Searches : progress[s] = "done" /\ KeyOf(s) = k}

\* Whoever has found or saved a row has the one of its own term; a row is named
\* after the first request that saved it, which had found none.
KeysInv ==
    \A s \in Searches :
        /\ progress[s] \in {"new", "find", "empty"} => term[s] = NoTerm
        /\ term[s] # NoTerm =>
             searchTerms[term[s].key] # NoTerm /\ searchTerms[term[s].key].term = search[s]
        /\ progress[s] = "done" =>
             searchTerms[KeyOf(s)] # NoTerm /\ searchTerms[KeyOf(s)].term = search[s]
        /\ searchTerms[s] # NoTerm => progress[s] = "done" /\ term[s] = NoTerm

\* Neither a row nor what was read of it counts more than the searches that were
\* counted in it.
CountsInv ==
    /\ \A k \in Searches : searchTerms[k] # NoTerm =>
         searchTerms[k].count <= Cardinality(CountedIn(k))
    /\ \A s \in Searches : term[s] # NoTerm =>
         term[s].count <= Cardinality(CountedIn(term[s].key))

\* A term of which no two searches overlapped has one row at most, with all its
\* searches, and whoever is about to save it has read it as it is.
ApartInv ==
    \A w \in SearchTerms \ mixed :
        /\ \A k, q \in TermsFor(w) : k = q
        /\ \A k \in TermsFor(w) : searchTerms[k].count = Cardinality(Counted(w))
        /\ \A s \in Searches : progress[s] = "save" /\ search[s] = w =>
             \/ term[s] = NoTerm /\ TermsFor(w) = {}
             \/ /\ term[s] # NoTerm /\ term[s].key \in TermsFor(w)
                /\ term[s].count = searchTerms[term[s].key].count

\* The popular terms are of different rows.
PopularInv ==
    \A i, j \in DOMAIN popular :
        i # j /\ popular[i].term = popular[j].term => popular[i].term \in mixed

SearchInv == SearchTypes /\ KeysInv /\ CountsInv /\ ApartInv /\ PopularInv

\* Nothing is searched for yet.
LEMMA SearchInitInv == SearchInit => SearchInv
  <1> SUFFICES ASSUME SearchInit PROVE SearchInv
    OBVIOUS
  <1>1. \A w : TermsFor(w) = {}
    BY DEF SearchInit, TermsFor
  <1>2. KeysInv /\ CountsInv /\ PopularInv
    BY DEF SearchInit, KeysInv, CountsInv, PopularInv
  <1>3. ApartInv
    BY <1>1 DEF SearchInit, ApartInv
  <1> QED BY <1>2, <1>3, SearchInitTypes DEF SearchInv

\* The sets of searches that are counted are finite.
LEMMA CountedIsFinite ==
    \A k : /\ IsFiniteSet(CountedIn(k)) /\ Cardinality(CountedIn(k)) \in Nat
           /\ IsFiniteSet(Counted(k)) /\ Cardinality(Counted(k)) \in Nat
  <1> TAKE k
  <1>1. CountedIn(k) \in SUBSET Searches /\ Counted(k) \in SUBSET Searches
    BY DEF CountedIn, Counted
  <1> QED BY <1>1, SearchesAreTyped, FS_Subset, FS_CardinalityType

\* A step of s that saves nothing leaves the counts and the rows of a term alone.
LEMMA NothingCounted ==
    ASSUME NEW s \in Searches, searchTerms' = searchTerms,
           progress[s] # "done", progress'[s] # "done",
           \A q \in Searches \ {s} :
               progress'[q] = progress[q] /\ search'[q] = search[q] /\ term'[q] = term[q]
    PROVE  \A k : /\ CountedIn(k)' = CountedIn(k) /\ Counted(k)' = Counted(k)
                  /\ TermsFor(k)' = TermsFor(k)
  BY DEF CountedIn, Counted, TermsFor, KeyOf

\* A request that asks, fails or gives up disturbs nothing.
LEMMA StallStep ==
    ASSUME SearchInv, SearchTypes', NEW s \in Searches,
           UNCHANGED <<searchTerms, term, mixed, popular>>,
           progress[s] # "done", progress'[s] \in {"failed", "empty", "find"},
           progress'[s] \in {"empty", "find"} => term[s] = NoTerm,
           progress[s] = "new" \/ search'[s] = search[s],
           \A q \in Searches \ {s} : progress'[q] = progress[q] /\ search'[q] = search[q]
    PROVE  SearchInv'
  <1> USE DEF SearchInv
  <1>1. \A k : /\ CountedIn(k)' = CountedIn(k) /\ Counted(k)' = Counted(k)
               /\ TermsFor(k)' = TermsFor(k)
    BY NothingCounted
  <1>2. KeysInv'
    <2>1. \A q \in Searches : KeyOf(q)' = KeyOf(q)
      BY DEF KeyOf
    <2> QED BY <2>1 DEF KeysInv
  <1>3. CountsInv'
    BY <1>1 DEF CountsInv
  <1>4. ApartInv'
    BY <1>1 DEF ApartInv
  <1>5. PopularInv'
    BY DEF PopularInv
  <1> QED BY <1>2, <1>3, <1>4, <1>5

\* What a look-up reads is what is stored.
LEMMA FindTermStep ==
    ASSUME SearchInv, SearchTypes', NEW s \in Searches, FindTerm(s)
    PROVE  SearchInv'
  <1> USE DEF SearchInv
  <1>1. /\ progress[s] = "find" /\ progress'[s] = "save" /\ term[s] = NoTerm
        /\ search' = search /\ searchTerms' = searchTerms
        /\ mixed' = mixed /\ popular' = popular
        /\ \A q \in Searches \ {s} : progress'[q] = progress[q] /\ term'[q] = term[q]
    BY DEF FindTerm, SearchTypes, KeysInv
  <1>2. \A k : /\ CountedIn(k)' = CountedIn(k) /\ Counted(k)' = Counted(k)
               /\ TermsFor(k)' = TermsFor(k)
    BY <1>1, NothingCounted
  <1>3. \/ term'[s] = NoTerm /\ TermsFor(search[s]) = {}
        \/ \E k \in TermsFor(search[s]) : term'[s] = [key |-> k, count |-> searchTerms[k].count]
    BY DEF FindTerm, SearchTypes
  <1>4. CASE term'[s] = NoTerm /\ TermsFor(search[s]) = {}
    <2>1. \A q \in Searches \ {s} : KeyOf(q)' = KeyOf(q)
      BY <1>1 DEF KeyOf
    <2>2. KeysInv'
      BY <1>1, <1>4, <2>1 DEF KeysInv
    <2>3. CountsInv'
      BY <1>1, <1>2, <1>4 DEF CountsInv
    <2>4. ApartInv'
      BY <1>1, <1>2, <1>4 DEF ApartInv
    <2> QED BY <1>1, <2>2, <2>3, <2>4 DEF PopularInv
  <1>5. CASE \E k \in TermsFor(search[s]) :
               term'[s] = [key |-> k, count |-> searchTerms[k].count]
    <2>1. PICK k \in TermsFor(search[s]) :
             term'[s] = [key |-> k, count |-> searchTerms[k].count]
      BY <1>5
    <2>2. /\ k \in Searches /\ searchTerms[k] # NoTerm /\ searchTerms[k].term = search[s]
          /\ searchTerms[k].count \in Nat
      BY <2>1 DEF TermsFor, SearchTypes, TermRow
    <2>3. term'[s] # NoTerm /\ term'[s].key = k /\ term'[s].count = searchTerms[k].count
      BY <2>1, <2>2, RowsAreTerms
    <2>4. \A q \in Searches \ {s} : KeyOf(q)' = KeyOf(q)
      BY <1>1 DEF KeyOf
    <2>5. KeysInv'
      BY <1>1, <2>2, <2>3, <2>4 DEF KeysInv
    <2>6. CountsInv'
      BY <1>1, <1>2, <2>2, <2>3 DEF CountsInv
    <2>7. ApartInv'
      BY <1>1, <1>2, <2>1, <2>3 DEF ApartInv
    <2> QED BY <1>1, <2>5, <2>6, <2>7 DEF PopularInv
  <1> QED BY <1>3, <1>4, <1>5

\* SaveTerm, where it does not fail
Saves(s) ==
    /\ progress[s] = "save" /\ progress' = [progress EXCEPT ![s] = "done"]
    /\ searchTerms' = [searchTerms EXCEPT ![KeyOf(s)] =
            [term |-> search[s],
             count |-> IF term[s] = NoTerm THEN 1 ELSE term[s].count + 1]]
    /\ mixed' = IF Others(s) = {} THEN mixed ELSE mixed \cup {search[s]}
    /\ UNCHANGED <<search, term, failures, popular>>

\* A save that succeeds is counted in the row it writes, and in no other.
LEMMA SaveIsCounted ==
    ASSUME SearchInv, NEW s \in Searches, Saves(s)
    PROVE  \A k :
             /\ CountedIn(k)' = IF k = KeyOf(s) THEN CountedIn(k) \cup {s} ELSE CountedIn(k)
             /\ Counted(k)' = IF k = search[s] THEN Counted(k) \cup {s} ELSE Counted(k)
             /\ Cardinality(CountedIn(k))' =
                  IF k = KeyOf(s) THEN Cardinality(CountedIn(k)) + 1
                  ELSE Cardinality(CountedIn(k))
             /\ Cardinality(Counted(k))' =
                  IF k = search[s] THEN Cardinality(Counted(k)) + 1
                  ELSE Cardinality(Counted(k))
  <1> TAKE k
  <1>1. /\ \A q \in Searches \ {s} : progress'[q] = progress[q]
        /\ progress[s] = "save" /\ progress'[s] = "done"
        /\ search' = search /\ term' = term
    BY DEF Saves, SearchInv, SearchTypes
  <1>2. \A q \in Searches : KeyOf(q)' = KeyOf(q)
    BY <1>1 DEF KeyOf
  <1>3. CountedIn(k)' = IF k = KeyOf(s) THEN CountedIn(k) \cup {s} ELSE CountedIn(k)
    BY <1>1, <1>2 DEF CountedIn
  <1>4. Counted(k)' = IF k = search[s] THEN Counted(k) \cup {s} ELSE Counted(k)
    BY <1>1 DEF Counted
  <1>5. s \notin CountedIn(k) /\ s \notin Counted(k)
    BY <1>1 DEF CountedIn, Counted
  <1>6. /\ Cardinality(CountedIn(k) \cup {s}) = Cardinality(CountedIn(k)) + 1
        /\ Cardinality(Counted(k) \cup {s}) = Cardinality(Counted(k)) + 1
    BY <1>5, CountedIsFinite, FS_AddElement
  <1> QED BY <1>3, <1>4, <1>6

\* A save keeps the counts within the searches that were saved, and apart while
\* no two searches of the term overlap.
LEMMA SaveTermStep ==
    ASSUME SearchInv, SearchTypes', NEW s \in Searches, Saves(s)
    PROVE  SearchInv'
  <1> USE DEF SearchInv
  <1>1. PICK k0 \in Searches, w0 \in SearchTerms, n \in Nat :
           /\ k0 = KeyOf(s) /\ w0 = search[s]
           /\ n = IF term[s] = NoTerm THEN 1 ELSE term[s].count + 1
    BY KeysAreSearches DEF Saves, SearchTypes
  <1>2. PICK row : row = [term |-> w0, count |-> n]
    OBVIOUS
  <1>3. /\ row # NoTerm /\ row.term = w0 /\ row.count = n
        /\ searchTerms' = [searchTerms EXCEPT ![k0] = row]
    BY <1>1, <1>2, RowsAreTerms DEF Saves
  <1>4. /\ searchTerms'[k0] = row
        /\ \A q \in Searches \ {k0} : searchTerms'[q] = searchTerms[q]
        /\ progress[s] = "save" /\ progress'[s] = "done"
        /\ \A q \in Searches \ {s} : progress'[q] = progress[q]
        /\ search' = search /\ term' = term /\ popular' = popular
        /\ mixed \subseteq mixed'
        /\ w0 \notin mixed' => Others(s) = {}
    BY <1>1, <1>3 DEF Saves, SearchTypes
  <1>5. \A q \in Searches : KeyOf(q)' = KeyOf(q)
    BY <1>4 DEF KeyOf
  <1>6. \/ k0 = s /\ term[s] = NoTerm /\ searchTerms[k0] = NoTerm
        \/ /\ term[s] # NoTerm /\ k0 = term[s].key
           /\ searchTerms[k0] # NoTerm /\ searchTerms[k0].term = w0
    BY <1>1, <1>4 DEF KeysInv, KeyOf
  <1>7. KeysInv'
    <2>1. ASSUME NEW q \in Searches, term'[q] # NoTerm
          PROVE  searchTerms'[term'[q].key] # NoTerm
                   /\ searchTerms'[term'[q].key].term = search'[q]
      <3>1. term[q].key \in Searches /\ searchTerms[term[q].key] # NoTerm
            /\ searchTerms[term[q].key].term = search[q]
        BY <1>4, <2>1, KeysAreSearches DEF KeysInv
      <3> QED BY <1>3, <1>4, <1>6, <3>1
    <2>2. ASSUME NEW q \in Searches, progress'[q] = "done"
          PROVE  searchTerms'[KeyOf(q)] # NoTerm /\ searchTerms'[KeyOf(q)].term = search'[q]
      <3>1. CASE q = s
        BY <1>1, <1>3, <1>4, <3>1
      <3>2. CASE q # s
        <4>1. searchTerms[KeyOf(q)] # NoTerm /\ searchTerms[KeyOf(q)].term = search[q]
              /\ KeyOf(q) \in Searches
          BY <1>4, <2>2, <3>2, KeysAreSearches DEF KeysInv
        <4> QED BY <1>3, <1>4, <1>6, <4>1
      <3> QED BY <3>1, <3>2
    <2>3. ASSUME NEW q \in Searches, searchTerms'[q] # NoTerm
          PROVE  progress'[q] = "done" /\ term'[q] = NoTerm
      BY <1>4, <1>6, <2>3 DEF KeysInv
    <2>4. ASSUME NEW q \in Searches, progress'[q] \in {"new", "find", "empty"}
          PROVE  term'[q] = NoTerm
      BY <1>4, <2>4 DEF KeysInv
    <2> QED BY <1>5, <2>1, <2>2, <2>3, <2>4 DEF KeysInv
  <1>8. CountsInv'
    <2>1. \A k : /\ Cardinality(CountedIn(k)) \in Nat
                 /\ Cardinality(CountedIn(k))' =
                      IF k = k0 THEN Cardinality(CountedIn(k)) + 1
                      ELSE Cardinality(CountedIn(k))
      BY <1>1, SaveIsCounted, CountedIsFinite
    <2>2. n <= Cardinality(CountedIn(k0))'
      <3>1. CASE term[s] = NoTerm
        BY <1>1, <2>1, <3>1
      <3>2. CASE term[s] # NoTerm
        <4>1. term[s].count \in Nat /\ term[s].count <= Cardinality(CountedIn(k0))
          BY <1>6, <3>2, KeysAreSearches DEF CountsInv
        <4> QED BY <1>1, <2>1, <3>2, <4>1
      <3> QED BY <3>1, <3>2
    <2>3. ASSUME NEW k \in Searches, searchTerms'[k] # NoTerm
          PROVE  searchTerms'[k].count <= Cardinality(CountedIn(k))'
      <3>1. CASE k = k0
        BY <1>3, <1>4, <2>2, <3>1
      <3>2. CASE k # k0
        BY <1>4, <2>1, <2>3, <3>2 DEF CountsInv
      <3> QED BY <3>1, <3>2
    <2>4. ASSUME NEW q \in Searches, term'[q] # NoTerm
          PROVE  term'[q].count <= Cardinality(CountedIn(term[q].key))'
      <3>1. PICK k \in Searches, m \in Nat : k = term[q].key /\ m = term[q].count
        BY <1>4, <2>4, KeysAreSearches
      <3>2. m <= Cardinality(CountedIn(k))
        BY <1>4, <2>4, <3>1 DEF CountsInv
      <3>3. m <= Cardinality(CountedIn(k))'
        BY <2>1, <3>2
      <3> QED BY <1>4, <3>1, <3>3
    <2> QED BY <1>4, <2>3, <2>4 DEF CountsInv
  <1>9. ApartInv'
    <2>1. SUFFICES ASSUME NEW w \in SearchTerms, w \notin mixed'
                   PROVE  /\ \A k, q \in TermsFor(w)' : k = q
                          /\ \A k \in TermsFor(w)' :
                               searchTerms'[k].count = Cardinality(Counted(w))'
                          /\ \A q \in Searches : progress'[q] = "save" /\ search'[q] = w =>
                               \/ term'[q] = NoTerm /\ TermsFor(w)' = {}
                               \/ /\ term'[q] # NoTerm /\ term'[q].key \in TermsFor(w)'
                                  /\ term'[q].count = searchTerms'[term'[q].key].count
      BY DEF ApartInv
    <2>2. w \in SearchTerms \ mixed
      BY <1>4, <2>1
    <2>3. CASE w # w0
      <3>1. TermsFor(w)' = TermsFor(w) /\ k0 \notin TermsFor(w)
        BY <1>3, <1>4, <1>6, <2>3 DEF TermsFor
      <3>2. Cardinality(Counted(w))' = Cardinality(Counted(w))
        BY <1>1, <2>3, SaveIsCounted
      <3>3. \A k \in TermsFor(w) : k \in Searches /\ searchTerms'[k] = searchTerms[k]
        BY <1>4, <3>1 DEF TermsFor
      <3> QED BY <1>4, <2>2, <3>1, <3>2, <3>3 DEF ApartInv
    <2>4. CASE w = w0
      <3>1. \A q \in Searches : ~(progress'[q] = "save" /\ search'[q] = w)
        BY <1>1, <1>4, <2>1, <2>4 DEF Others
      <3>2. TermsFor(w)' = TermsFor(w) \cup {k0}
        BY <1>3, <1>4, <1>6, <2>4 DEF TermsFor
      <3>3. /\ Cardinality(Counted(w)) \in Nat
            /\ Cardinality(Counted(w))' = Cardinality(Counted(w)) + 1
        BY <1>1, <2>4, SaveIsCounted, CountedIsFinite
      <3>4. \/ term[s] = NoTerm /\ TermsFor(w) = {}
            \/ /\ term[s] # NoTerm /\ term[s].key \in TermsFor(w)
               /\ term[s].count = searchTerms[term[s].key].count
        BY <1>1, <1>4, <2>2, <2>4 DEF ApartInv
      <3>5. TermsFor(w)' = {k0} /\ n = Cardinality(Counted(w)) + 1
        <4>1. CASE term[s] = NoTerm /\ TermsFor(w) = {}
          <5>1. Counted(w) = {}
            BY <4>1, KeysAreSearches DEF Counted, KeysInv, TermsFor
          <5> QED BY <1>1, <3>2, <4>1, <5>1, FS_EmptySet
        <4>2. CASE /\ term[s] # NoTerm /\ term[s].key \in TermsFor(w)
                   /\ term[s].count = searchTerms[term[s].key].count
          <5>1. TermsFor(w) = {k0} /\ term[s].count = Cardinality(Counted(w))
            BY <1>6, <2>2, <4>2 DEF ApartInv
          <5> QED BY <1>1, <3>2, <4>2, <5>1
        <4> QED BY <3>4, <4>1, <4>2
      <3> QED BY <1>3, <1>4, <3>1, <3>3, <3>5
    <2> QED BY <2>3, <2>4
  <1>10. PopularInv'
    BY <1>4 DEF PopularInv
  <1> QED BY <1>7, <1>8, <1>9, <1>10

\* The popular terms are listed from different rows.
LEMMA PopularStep ==
    ASSUME SearchInv, SearchTypes', PopularPoliticalActivity
    PROVE  SearchInv'
  <1> USE DEF SearchInv
  <1>1. UNCHANGED <<searchTerms, search, progress, term, failures, mixed>>
    BY DEF PopularPoliticalActivity
  <1>2. KeysInv' /\ CountsInv' /\ ApartInv'
    <2>1. \A k : /\ CountedIn(k)' = CountedIn(k) /\ Counted(k)' = Counted(k)
                 /\ TermsFor(k)' = TermsFor(k)
      BY <1>1 DEF CountedIn, Counted, TermsFor, KeyOf
    <2>2. \A q \in Searches : KeyOf(q)' = KeyOf(q)
      BY <1>1 DEF KeyOf
    <2> QED BY <1>1, <2>1, <2>2 DEF KeysInv, CountsInv, ApartInv
  <1>3. PICK first \in SUBSET Rows : \E l \in SetToSeqs(first) :
           popular' = [i \in DOMAIN l |-> searchTerms[l[i]]]
    BY DEF PopularPoliticalActivity, kSubset
  <1>4. PICK l \in SetToSeqs(first) : popular' = [i \in DOMAIN l |-> searchTerms[l[i]]]
    BY <1>3
  <1>5. /\ \A i \in DOMAIN l : l[i] \in Rows
        /\ \A i, j \in DOMAIN l : i # j => l[i] # l[j]
    BY <1>4 DEF SetToSeqs
  <1>6. ASSUME NEW i \in DOMAIN popular', NEW j \in DOMAIN popular', i # j,
               popular'[i].term = popular'[j].term
        PROVE  popular'[i].term \in mixed'
    <2>1. i \in DOMAIN l /\ j \in DOMAIN l /\ l[i] # l[j]
      BY <1>4, <1>5, <1>6
    <2>2. PICK w \in SearchTerms : w = searchTerms[l[i]].term /\ w = popular'[i].term
      BY <1>4, <1>5, <2>1 DEF Rows, SearchTypes, TermRow
    <2>3. l[i] \in TermsFor(w) /\ l[j] \in TermsFor(w)
      BY <1>4, <1>5, <1>6, <2>1, <2>2 DEF Rows, TermsFor
    <2> QED BY <1>1, <2>1, <2>2, <2>3 DEF ApartInv
  <1> QED BY <1>2, <1>6 DEF PopularInv

\* Every step keeps the counts.
LEMMA SearchStep == SearchInv /\ [SearchNext]_searchVars => SearchInv'
  <1> SUFFICES ASSUME SearchInv, [SearchNext]_searchVars PROVE SearchInv'
    OBVIOUS
  <1>t. SearchTypes'
    BY SearchNextTypes DEF SearchInv
  <1> USE DEF SearchInv
  <1>u. CASE UNCHANGED searchVars
    BY <1>t, <1>u DEF searchVars, KeysInv, CountsInv, ApartInv, PopularInv, KeyOf, CountedIn,
       Counted, TermsFor
  <1>1. ASSUME NEW s \in Searches, Search(s) PROVE SearchInv'
    <2>1. /\ progress[s] = "new" /\ progress'[s] \in {"failed", "empty", "find"}
          /\ UNCHANGED <<searchTerms, term, mixed, popular>>
          /\ \A q \in Searches \ {s} : progress'[q] = progress[q] /\ search'[q] = search[q]
      BY <1>1 DEF Search, SearchTypes
    <2>2. term[s] = NoTerm
      BY <2>1 DEF KeysInv
    <2> QED BY <1>t, <2>1, <2>2, StallStep
  <1>2. ASSUME NEW s \in Searches, FindFails(s) PROVE SearchInv'
    <2>1. /\ progress[s] = "find" /\ progress'[s] \in {"failed", "find"}
          /\ UNCHANGED <<searchTerms, search, term, mixed, popular>>
          /\ \A q \in Searches \ {s} : progress'[q] = progress[q]
      BY <1>2 DEF FindFails, SearchTypes
    <2>2. term[s] = NoTerm
      BY <2>1 DEF KeysInv
    <2> QED BY <1>t, <2>1, <2>2, StallStep
  <1>3. ASSUME NEW s \in Searches, FindTerm(s) PROVE SearchInv'
    BY <1>t, <1>3, FindTermStep
  <1>4. ASSUME NEW s \in Searches, SaveTerm(s) PROVE SearchInv'
    <2>1. CASE Saves(s)
      BY <1>t, <2>1, SaveTermStep
    <2>2. CASE ~Saves(s)
      <3>1. /\ progress[s] = "save" /\ progress'[s] = "failed"
            /\ UNCHANGED <<searchTerms, search, term, mixed, popular>>
            /\ \A q \in Searches \ {s} : progress'[q] = progress[q]
        BY <1>4, <2>2 DEF SaveTerm, Saves, SearchTypes
      <3> QED BY <1>t, <3>1, StallStep
    <2> QED BY <2>1, <2>2
  <1>5. CASE PopularPoliticalActivity
    BY <1>t, <1>5, PopularStep
  <1> QED BY <1>u, <1>1, <1>2, <1>3, <1>4, <1>5 DEF SearchNext

\* The inductive invariant holds in every state.
THEOREM SearchCounts == SearchSpec => []SearchInv
  BY SearchInitInv, SearchStep, PTL DEF SearchSpec

CountsOf == [k \in Searches |-> searchTerms[k].count]

\* The counts of a term, as the sum that DataProofs is about.
LEMMA CountIsSumOn ==
    ASSUME SearchTypes, NEW w
    PROVE  /\ CountOf(w) = SumOn(CountsOf, TermsFor(w))
           /\ IsFiniteSet(TermsFor(w))
           /\ \A k \in TermsFor(w) : k \in Searches /\ CountsOf[k] = searchTerms[k].count
                                       /\ CountsOf[k] \in Nat
  <1> DEFINE S == TermsFor(w)
             Written(g) == [s \in SUBSET S |->
                           IF s = {} THEN 0 ELSE searchTerms[Pick(s)].count + g[s \ {Pick(s)}]]
  <1>1. CountOf(w) = (CHOOSE g : g = Written(g))[S]
    BY DEF CountOf, MapThenSumSet, MapThenFoldSet, Pick
  <1>2. S \in SUBSET Searches /\ IsFiniteSet(S)
    <2>1. S \in SUBSET Searches
      BY DEF TermsFor
    <2> HIDE DEF S
    <2> QED BY <2>1, SearchesAreTyped, FS_Subset
  <1>3. \A k \in S : k \in Searches /\ CountsOf[k] = searchTerms[k].count /\ CountsOf[k] \in Nat
    BY DEF SearchTypes, TermsFor, CountsOf, TermRow
  <1> HIDE DEF S
  <1>4. \A s \in SUBSET S : s # {} => CountsOf[Pick(s)] = searchTerms[Pick(s)].count
    BY <1>2, <1>3, PickedAway
  <1>5. ASSUME NEW g PROVE g = Written(g) <=> Sums(g, CountsOf, S)
    BY <1>4 DEF Sums
  <1>6. \A k \in S : CountsOf[k] \in Int
    BY <1>3
  <1> HIDE DEF Written, CountsOf
  <1>7. \E g : Sums(g, CountsOf, S)
    BY <1>2, <1>6, SumsExist
  <1>8. PICK g : g = (CHOOSE a : a = Written(a)) /\ Sums(g, CountsOf, S)
    BY <1>5, <1>7
  <1>9. PICK k : k = (CHOOSE a : Sums(a, CountsOf, S)) /\ Sums(k, CountsOf, S)
    BY <1>7
  <1>10. g[S] = k[S]
    BY <1>2, <1>6, <1>8, <1>9, SumsAgree
  <1> QED BY <1>1, <1>2, <1>3, <1>8, <1>9, <1>10 DEF SumOn, S

\* The inductive invariant says what is promised of the counts.
LEMMA CountsAreRight == SearchInv => SearchesAreCounted
  <1> SUFFICES ASSUME SearchInv PROVE SearchesAreCounted
    OBVIOUS
  <1> USE DEF SearchInv
  <1>1. ASSUME NEW w \in SearchTerms
        PROVE  CountOf(w) <= Cardinality(Counted(w))
    <2> DEFINE C == [k \in Searches |-> CountedIn(k)]
    <2>1. /\ CountOf(w) = SumOn(CountsOf, TermsFor(w)) /\ IsFiniteSet(TermsFor(w))
          /\ \A k \in TermsFor(w) : k \in Searches /\ CountsOf[k] = searchTerms[k].count
                                      /\ CountsOf[k] \in Nat
      BY CountIsSumOn
    <2>2. ASSUME NEW k \in TermsFor(w)
          PROVE  C[k] \subseteq Counted(w) /\ CountsOf[k] <= Cardinality(C[k])
      <3>1. k \in Searches /\ searchTerms[k] # NoTerm /\ searchTerms[k].term = w
        BY DEF TermsFor
      <3>2. C[k] = CountedIn(k)
        BY <3>1
      <3>3. CountedIn(k) \subseteq Counted(w)
        BY <3>1 DEF CountedIn, Counted, KeysInv
      <3> QED BY <2>1, <3>1, <3>2, <3>3 DEF CountsInv
    <2>3. \A k, q \in TermsFor(w) : k # q => C[k] \cap C[q] = {}
      BY <2>1 DEF CountedIn
    <2>4. IsFiniteSet(Counted(w))
      BY CountedIsFinite
    <2> HIDE DEF C, CountsOf
    <2>5. SumOn(CountsOf, TermsFor(w)) <= Cardinality(Counted(w))
      BY <2>1, <2>2, <2>3, <2>4, SumWithin
    <2> QED BY <2>1, <2>5
  <1>2. ASSUME NEW w \in SearchTerms, w \notin mixed
        PROVE  Cardinality(TermsFor(w)) <= 1 /\ CountOf(w) = Cardinality(Counted(w))
    <2>1. /\ CountOf(w) = SumOn(CountsOf, TermsFor(w)) /\ IsFiniteSet(TermsFor(w))
          /\ \A k \in TermsFor(w) : k \in Searches /\ CountsOf[k] = searchTerms[k].count
                                      /\ CountsOf[k] \in Nat
      BY CountIsSumOn
    <2>2. \A k \in TermsFor(w) : CountsOf[k] \in Int
      BY <2>1
    <2>3. CASE TermsFor(w) = {}
      <3>1. Counted(w) = {}
        BY <2>3, KeysAreSearches DEF Counted, KeysInv, TermsFor
      <3>2. SumOn(CountsOf, {}) = 0
        BY <2>1, <2>2, SumFacts
      <3>3. Cardinality(TermsFor(w)) = 0 /\ Cardinality(Counted(w)) = 0
        BY <2>3, <3>1, FS_EmptySet
      <3> QED BY <2>1, <2>3, <3>2, <3>3
    <2>4. CASE TermsFor(w) # {}
      <3>1. PICK k \in TermsFor(w) : TRUE
        BY <2>4
      <3>2. TermsFor(w) = {k} /\ searchTerms[k].count = Cardinality(Counted(w))
        BY <1>2, <3>1 DEF ApartInv
      <3>3. /\ SumOn(CountsOf, TermsFor(w)) = CountsOf[k] + SumOn(CountsOf, TermsFor(w) \ {k})
            /\ SumOn(CountsOf, {}) = 0
        BY <2>1, <2>2, <3>1, SumFacts
      <3>4. TermsFor(w) \ {k} = {}
        BY <3>2
      <3>5. CountsOf[k] \in Nat /\ CountsOf[k] = Cardinality(Counted(w))
        BY <2>1, <3>1, <3>2
      <3>6. Cardinality(TermsFor(w)) = 1
        BY <3>2, FS_Singleton
      <3> QED BY <2>1, <3>3, <3>4, <3>5, <3>6
    <2> QED BY <2>3, <2>4
  <1> QED BY <1>1, <1>2 DEF SearchesAreCounted, PopularInv

\* Searches that overlap lose counts but never count too much; those that do not
\* are all counted in one row, which the popular terms list once.
THEOREM SearchesCount == SearchSpec => []SearchesAreCounted
  BY SearchCounts, CountsAreRight, PTL

-----------------------------------------------------------------------------
(***************************************************************************)
(* Correlations: the charts that a job has saved are the first of its      *)
(* method's, in their order, and an unmatched key has one job at work.     *)
(***************************************************************************)
FirstCharts(ctype, n) == {ChartsOf(ctype)[i] : i \in 1..n}

CorrelationTypes ==
    /\ days \in [Tables -> Series]
    /\ job \in [Jobs -> Tuples \cup {NoTuple}]
    /\ stage \in [Jobs -> {"start", "look", "read", "save", "done", "partial"}]
    /\ saved \subseteq Jobs \X Charts
    /\ matched \subseteq Tuples

\* how far a job has come with its charts
SavedInOrder(j, n) ==
    /\ n <= Len(ChartsOf(job[j].ctype))
    /\ ChartsBy(j) = FirstCharts(job[j].ctype, n)
    /\ stage[j] \in {"start", "look", "read"} => n = 0
    /\ stage[j] = "save" => n < Len(ChartsOf(job[j].ctype))
    /\ stage[j] = "done" => n \in {0, Len(ChartsOf(job[j].ctype))}

OrderInv ==
    \A j \in Jobs :
        /\ stage[j] = "start" <=> job[j] = NoTuple
        /\ \E n \in Nat : SavedInOrder(j, n)

\* has looked its key up in vain, or has saved something
AtWork(j) == stage[j] \in {"read", "save"} \/ ChartsBy(j) # {}

AloneInv ==
    \A i, k \in Jobs :
        /\ job[i] = job[k] /\ job[i] \in Tuples \ matched
        /\ AtWork(i) /\ AtWork(k)
        => i = k

WholeInv == CorrelationTypes /\ OrderInv /\ AloneInv

\* Every method has two charts or four, no two of them the same.
LEMMA ChartsAreDistinct ==
    ASSUME NEW ctype
    PROVE  /\ ChartsOf(ctype) \in Seq(Charts)
           /\ Len(ChartsOf(ctype)) \in {2, 4}
           /\ \A i, k \in 1..Len(ChartsOf(ctype)) :
                ChartsOf(ctype)[i] = ChartsOf(ctype)[k] => i = k
  <1>1. CASE ctype = "Spurious"
    BY <1>1 DEF ChartsOf, Charts
  <1>2. CASE ctype # "Spurious"
    BY <1>2 DEF ChartsOf, Charts
  <1> QED BY <1>1, <1>2

\* One chart more.
LEMMA NextChart ==
    ASSUME NEW ctype, NEW n \in Nat, n < Len(ChartsOf(ctype)),
           IsFiniteSet(FirstCharts(ctype, n)), Cardinality(FirstCharts(ctype, n)) = n
    PROVE  /\ FirstCharts(ctype, n + 1) = FirstCharts(ctype, n) \cup {ChartsOf(ctype)[n + 1]}
           /\ IsFiniteSet(FirstCharts(ctype, n + 1))
           /\ Cardinality(FirstCharts(ctype, n + 1)) = n + 1
  <1>1. 1..n + 1 = 1..n \cup {n + 1}
    OBVIOUS
  <1>2. FirstCharts(ctype, n + 1) = FirstCharts(ctype, n) \cup {ChartsOf(ctype)[n + 1]}
    BY <1>1 DEF FirstCharts
  <1>3. ChartsOf(ctype)[n + 1] \notin FirstCharts(ctype, n)
    BY ChartsAreDistinct DEF FirstCharts
  <1> DEFINE F == FirstCharts(ctype, n)
             ch == ChartsOf(ctype)[n + 1]
  <1>4. IsFiniteSet(F) /\ Cardinality(F) = n /\ ch \notin F
    BY <1>3
  <1>5. FirstCharts(ctype, n + 1) = F \cup {ch}
    BY <1>2
  <1> HIDE DEF F, ch
  <1>6. IsFiniteSet(F \cup {ch}) /\ Cardinality(F \cup {ch}) = n + 1
    BY <1>4, FS_AddElement
  <1>7. /\ IsFiniteSet(FirstCharts(ctype, n + 1))
        /\ Cardinality(FirstCharts(ctype, n + 1)) = n + 1
    BY <1>5, <1>6, Zenon
  <1> QED BY <1>2, <1>7

\* The first n charts are n.
LEMMA FirstAreCounted ==
    ASSUME NEW ctype, NEW n \in Nat, n <= Len(ChartsOf(ctype))
    PROVE  /\ IsFiniteSet(FirstCharts(ctype, n)) /\ Cardinality(FirstCharts(ctype, n)) = n
  <1> DEFINE CountedTo(i) ==
        IsFiniteSet(FirstCharts(ctype, i)) /\ Cardinality(FirstCharts(ctype, i)) = i
  <1>0. CountedTo(0)
    <2>1. FirstCharts(ctype, 0) = {}
      BY DEF FirstCharts
    <2> QED BY <2>1, FS_EmptySet
  <1>1. \A i \in Nat : i < Len(ChartsOf(ctype)) /\ CountedTo(i) => CountedTo(i + 1)
    BY NextChart
  <1>2. Len(ChartsOf(ctype)) \in {2, 4}
    BY ChartsAreDistinct
  <1> HIDE DEF CountedTo
  <1>3. CountedTo(1) /\ CountedTo(2)
    BY <1>0, <1>1, <1>2
  <1>4. Len(ChartsOf(ctype)) = 4 => CountedTo(3) /\ CountedTo(4)
    BY <1>1, <1>3
  <1>5. n \in {0, 1, 2} \/ (Len(ChartsOf(ctype)) = 4 /\ n \in {3, 4})
    <2>1. PICK most \in {2, 4} : Len(ChartsOf(ctype)) = most
      BY <1>2
    <2>2. n <= most
      BY <2>1, Zenon
    <2>3. n \in {0, 1, 2} \/ (most = 4 /\ n \in {3, 4})
      <3>1. CASE most = 2
        BY <2>2, <3>1
      <3>2. CASE most = 4
        BY <2>2, <3>2
      <3> QED BY <2>1, <3>1, <3>2
    <2> QED BY <2>1, <2>3
  <1>6. CountedTo(n)
    BY <1>0, <1>3, <1>4, <1>5
  <1> QED BY <1>6 DEF CountedTo

\* No key that Generate draws is the mark of a job that has none yet.
LEMMA NoTupleIsNone == NoTuple \notin Tuples
  <1> SUFFICES ASSUME NoTuple \in Tuples PROVE FALSE
    OBVIOUS
  <1>1. NoTuple.ctype \in Methods
    BY DEF Tuples
  <1> QED BY <1>1 DEF NoTuple, Methods

\* A saved chart is of one job.
LEMMA SavesOfOne ==
    ASSUME NEW j \in Jobs, NEW ch \in Charts, saved' = saved \cup {<<j, ch>>}
    PROVE  /\ ChartsBy(j)' = ChartsBy(j) \cup {ch}
           /\ \A i \in Jobs : i # j => ChartsBy(i)' = ChartsBy(i)
  BY DEF ChartsBy

\* The initial state satisfies the invariant.
LEMMA CorrelationsBegin == CorrelationsInit => WholeInv
  <1> SUFFICES ASSUME CorrelationsInit PROVE WholeInv
    OBVIOUS
  <1>1. CorrelationTypes
    BY DEF CorrelationsInit, CorrelationTypes
  <1>2. \A j \in Jobs : ChartsBy(j) = {} /\ ~AtWork(j)
    BY DEF CorrelationsInit, ChartsBy, AtWork
  <1>3. \A j \in Jobs : SavedInOrder(j, 0)
    <2>1. \A ctype : FirstCharts(ctype, 0) = {} /\ 0 <= Len(ChartsOf(ctype))
      <3> TAKE ctype
      <3>1. FirstCharts(ctype, 0) = {}
        BY DEF FirstCharts
      <3>2. Len(ChartsOf(ctype)) \in Nat
        BY ChartsAreDistinct
      <3> QED BY <3>1, <3>2
    <2> QED BY <1>2, <2>1 DEF SavedInOrder, CorrelationsInit
  <1>4. OrderInv
    BY <1>3 DEF OrderInv, CorrelationsInit
  <1> QED BY <1>1, <1>2, <1>4 DEF WholeInv, AloneInv

\* Where the charts of a job stand at each of its statements.
LEMMA WhereItStands ==
    ASSUME CorrelationTypes, OrderInv, NEW j \in Jobs
    PROVE  /\ stage[j] \in {"start", "look", "read"} => ChartsBy(j) = {}
           /\ stage[j] # "start" => job[j] \in Tuples
           /\ stage[j] = "save" =>
                \E n \in Nat : SavedInOrder(j, n) /\ n < Len(ChartsOf(job[j].ctype))
           /\ stage[j] = "done" =>
                \/ ChartsBy(j) = {}
                \/ Cardinality(ChartsBy(j)) = Len(ChartsOf(job[j].ctype))
  <1>1. PICK n \in Nat : SavedInOrder(j, n)
    BY DEF OrderInv
  <1>2. n <= Len(ChartsOf(job[j].ctype)) /\ ChartsBy(j) = FirstCharts(job[j].ctype, n)
    BY <1>1 DEF SavedInOrder
  <1>3. Cardinality(ChartsBy(j)) = n
    BY <1>2, FirstAreCounted, Zenon
  <1>4. n = 0 => ChartsBy(j) = {}
    BY <1>2 DEF FirstCharts
  <1>5. stage[j] # "start" => job[j] \in Tuples
    BY DEF OrderInv, CorrelationTypes
  <1> QED BY <1>1, <1>3, <1>4, <1>5 DEF SavedInOrder

\* A step of one job that saves nothing and stays in the order of the charts,
\* and is not at work after it unless it was, or was alone.
LEMMA StepOfOne ==
    ASSUME WholeInv, NEW j \in Jobs, NEW c \in Tuples, NEW stmt, saved' = saved,
           job' = [job EXCEPT ![j] = c], stage' = [stage EXCEPT ![j] = stmt],
           stmt \in {"look", "read", "save", "done", "partial"},
           \E n \in Nat : SavedInOrder(j, n)'
    PROVE  /\ job' \in [Jobs -> Tuples \cup {NoTuple}]
           /\ stage' \in [Jobs -> {"start", "look", "read", "save", "done", "partial"}]
           /\ OrderInv'
           /\ \A i \in Jobs : ChartsBy(i)' = ChartsBy(i)
           /\ \A i \in Jobs \ {j} : AtWork(i)' = AtWork(i) /\ job'[i] = job[i]
  <1>1. /\ job \in [Jobs -> Tuples \cup {NoTuple}]
        /\ stage \in [Jobs -> {"start", "look", "read", "save", "done", "partial"}]
    BY DEF WholeInv, CorrelationTypes
  <1>2. \A i \in Jobs : ChartsBy(i)' = ChartsBy(i)
    BY DEF ChartsBy
  <1>3. \A i \in Jobs \ {j} : stage'[i] = stage[i] /\ job'[i] = job[i]
    BY <1>1
  <1>4. job'[j] = c /\ stage'[j] = stmt /\ c # NoTuple
    BY <1>1, NoTupleIsNone
  <1>5. OrderInv'
    <2> SUFFICES ASSUME NEW i \in Jobs
                 PROVE  /\ stage'[i] = "start" <=> job'[i] = NoTuple
                        /\ \E n \in Nat : SavedInOrder(i, n)'
      BY DEF OrderInv
    <2>1. CASE i = j
      BY <1>4, <2>1
    <2>2. CASE i # j
      <3>1. PICK n \in Nat : SavedInOrder(i, n)
        BY DEF WholeInv, OrderInv
      <3>2. SavedInOrder(i, n)'
        BY <1>2, <1>3, <2>2, <3>1 DEF SavedInOrder
      <3> QED BY <1>3, <2>2, <3>2 DEF WholeInv, OrderInv
    <2> QED BY <2>1, <2>2
  <1> QED BY <1>1, <1>2, <1>3, <1>5 DEF AtWork


\* Every step keeps the invariant, one action at a time.
LEMMA CorrelationsStep == WholeInv /\ [CorrelationsNext]_correlationVars => WholeInv'
  <1> SUFFICES ASSUME WholeInv, [CorrelationsNext]_correlationVars PROVE WholeInv'
    OBVIOUS
  <1>t. CorrelationTypes /\ OrderInv /\ AloneInv
    BY DEF WholeInv
  <1>u. CASE UNCHANGED correlationVars
    BY <1>u DEF correlationVars, WholeInv, CorrelationTypes, OrderInv, AloneInv,
                SavedInOrder, AtWork, ChartsBy
  <1>0. ASSUME NEW j \in Jobs, NEW n \in Nat, SavedInOrder(j, n), saved' = saved,
               job'[j].ctype = job[j].ctype \/ n = 0,
               stage'[j] \in {"start", "look", "read"} => n = 0,
               stage'[j] = "save" => n < Len(ChartsOf(job'[j].ctype)),
               stage'[j] = "done" => n \in {0, Len(ChartsOf(job'[j].ctype))}
        PROVE  SavedInOrder(j, n)'
    <2>1. ChartsBy(j)' = ChartsBy(j)
      BY <1>0 DEF ChartsBy
    <2>2. n = 0 => \A ctype : FirstCharts(ctype, n) = {} /\ n <= Len(ChartsOf(ctype))
      <3> SUFFICES ASSUME n = 0, NEW ctype
                   PROVE  FirstCharts(ctype, n) = {} /\ n <= Len(ChartsOf(ctype))
        OBVIOUS
      <3>1. Len(ChartsOf(ctype)) \in Nat
        BY ChartsAreDistinct
      <3> QED BY <3>1 DEF FirstCharts
    <2>3. /\ n <= Len(ChartsOf(job'[j].ctype))
          /\ ChartsBy(j) = FirstCharts(job'[j].ctype, n)
      <3>1. n <= Len(ChartsOf(job[j].ctype)) /\ ChartsBy(j) = FirstCharts(job[j].ctype, n)
        BY <1>0 DEF SavedInOrder
      <3>2. CASE job'[j].ctype = job[j].ctype
        BY <3>1, <3>2, Zenon
      <3>3. CASE n = 0
        BY <2>2, <3>1, <3>3
      <3> QED BY <1>0, <3>2, <3>3
    <2> QED BY <1>0, <2>1, <2>3 DEF SavedInOrder
  <1>1. ASSUME NEW j \in Jobs, Generate(j) PROVE WholeInv'
    <2>1. PICK c \in Tuples : job' = [job EXCEPT ![j] = c]
      BY <1>1 DEF Generate
    <2>2. /\ stage' = [stage EXCEPT ![j] = "look"]
          /\ saved' = saved /\ matched' = matched /\ days' = days
          /\ stage[j] = "start"
      BY <1>1 DEF Generate, MoveTo
    <2>3. PICK n \in Nat : SavedInOrder(j, n)
      BY <1>t DEF OrderInv
    <2>4. n = 0 /\ stage'[j] = "look"
      BY <1>t, <2>2, <2>3 DEF SavedInOrder, CorrelationTypes
    <2>5. SavedInOrder(j, n)'
      BY <1>0, <2>2, <2>3, <2>4
    <2>6. /\ job' \in [Jobs -> Tuples \cup {NoTuple}]
          /\ stage' \in [Jobs -> {"start", "look", "read", "save", "done", "partial"}]
          /\ OrderInv'
          /\ \A i \in Jobs : ChartsBy(i)' = ChartsBy(i)
          /\ \A i \in Jobs \ {j} : AtWork(i)' = AtWork(i) /\ job'[i] = job[i]
      BY <2>1, <2>2, <2>5, StepOfOne
    <2>7. CorrelationTypes'
      BY <1>t, <2>2, <2>6 DEF CorrelationTypes
    <2>8. ~AtWork(j)'
      BY <1>t, <2>2, <2>4, <2>6, WhereItStands DEF AtWork
    <2>9. AloneInv'
      BY <1>t, <2>2, <2>6, <2>8 DEF AloneInv
    <2> QED BY <2>6, <2>7, <2>9 DEF WholeInv
  <1>2. ASSUME NEW j \in Jobs, NEW stmt \in {"look", "read", "save", "done", "partial"},
               stage[j] # "start",
               stage' = [stage EXCEPT ![j] = stmt], job' = job, saved' = saved, days' = days,
               matched \subseteq matched', matched' \subseteq Tuples,
               stmt = "look" => stage[j] = "look",
               stmt = "read" => stage[j] \in {"look", "read"},
               stmt = "save" => stage[j] \in {"look", "read", "save"},
               stmt = "done" => ChartsBy(j) = {},
               AtWork(j)' => \/ AtWork(j)
                             \/ job[j] \in matched'
                             \/ \A i \in Jobs \ {j} : job[i] = job[j] => ~AtWork(i)
        PROVE  WholeInv'
    <2>1. job[j] \in Tuples /\ job' = [job EXCEPT ![j] = job[j]] /\ stage'[j] = stmt
      BY <1>t, <1>2, WhereItStands DEF CorrelationTypes
    <2>2. PICK n \in Nat : SavedInOrder(j, n)
      BY <1>t DEF OrderInv
    <2>3. /\ Len(ChartsOf(job[j].ctype)) \in {2, 4}
          /\ ChartsBy(j) = {} => n = 0
      <3>1. Len(ChartsOf(job[j].ctype)) \in {2, 4}
        BY ChartsAreDistinct
      <3>2. n <= Len(ChartsOf(job[j].ctype)) /\ ChartsBy(j) = FirstCharts(job[j].ctype, n)
        BY <2>2 DEF SavedInOrder
      <3>3. Cardinality(ChartsBy(j)) = n
        BY <3>2, FirstAreCounted, Zenon
      <3> QED BY <3>1, <3>3, FS_EmptySet
    <2>4. /\ stage'[j] \in {"start", "look", "read"} => n = 0
          /\ stage'[j] = "save" => n < Len(ChartsOf(job'[j].ctype))
          /\ stage'[j] = "done" => n \in {0, Len(ChartsOf(job'[j].ctype))}
      <3>1. job'[j] = job[j] /\ stage'[j] = stmt
        BY <1>2, <2>1
      <3>2. /\ stage[j] \in {"look", "read"} => n = 0
            /\ stage[j] = "save" => n < Len(ChartsOf(job[j].ctype))
        BY <2>2 DEF SavedInOrder
      <3>3. n = 0 => n < Len(ChartsOf(job[j].ctype))
        BY <2>3
      <3>4. stmt \in {"look", "read"} => n = 0
        BY <1>2, <3>2
      <3>5. stmt = "save" => n < Len(ChartsOf(job[j].ctype))
        BY <1>2, <3>2, <3>3
      <3>6. stmt = "done" => n = 0
        BY <1>2, <2>3
      <3>7. stmt # "start"
        BY <1>2
      <3> QED BY <3>1, <3>4, <3>5, <3>6, <3>7
    <2>5. SavedInOrder(j, n)'
      BY <1>0, <1>2, <2>2, <2>4
    <2>6. /\ job' \in [Jobs -> Tuples \cup {NoTuple}]
          /\ stage' \in [Jobs -> {"start", "look", "read", "save", "done", "partial"}]
          /\ OrderInv'
          /\ \A i \in Jobs : ChartsBy(i)' = ChartsBy(i)
          /\ \A i \in Jobs \ {j} : AtWork(i)' = AtWork(i) /\ job'[i] = job[i]
      BY <1>2, <2>1, <2>5, StepOfOne
    <2>7. CorrelationTypes'
      BY <1>t, <1>2, <2>6 DEF CorrelationTypes
    <2>8. AloneInv'
      BY <1>t, <1>2, <2>6 DEF AloneInv
    <2> QED BY <2>6, <2>7, <2>8 DEF WholeInv
  <1>3. ASSUME NEW j \in Jobs, LookUp(j) PROVE WholeInv'
    <2>1. /\ stage[j] = "look" /\ job' = job /\ saved' = saved /\ days' = days
          /\ job[j] \in Tuples /\ ChartsBy(j) = {}
      BY <1>t, <1>3, WhereItStands DEF LookUp
    <2>2. matched \subseteq matched' /\ matched' \subseteq Tuples
      BY <1>t, <1>3, <2>1 DEF LookUp, CorrelationTypes
    <2>3. CASE Exists(job[j])
      <3>1. stage' = [stage EXCEPT ![j] = "done"]
        BY <1>3, <2>3 DEF LookUp, MoveTo
      <3>2. ~AtWork(j)'
        BY <1>t, <2>1, <3>1 DEF AtWork, ChartsBy, CorrelationTypes
      <3> QED BY <1>2, <2>1, <2>2, <3>1, <3>2
    <2>4. CASE ~Exists(job[j])
      <3>1. stage' = [stage EXCEPT ![j] = "read"]
        BY <1>3, <2>4 DEF LookUp, MoveTo
      <3>2. \A i \in Jobs : job[i] = job[j] => ChartsBy(i) = {}
        BY <2>4 DEF Exists
      <3>3. CASE Under(job[j]) = {}
        <4>1. \A i \in Jobs \ {j} : job[i] = job[j] => ~AtWork(i)
          BY <3>2, <3>3 DEF AtWork, Under
        <4> QED BY <1>2, <2>1, <2>2, <3>1, <4>1
      <3>4. CASE Under(job[j]) # {}
        <4>1. job[j] \in matched'
          BY <1>3, <2>4, <3>4 DEF LookUp
        <4> QED BY <1>2, <2>1, <2>2, <3>1, <4>1
      <3> QED BY <3>3, <3>4
    <2> QED BY <2>3, <2>4
  <1>4. ASSUME NEW j \in Jobs, CalculateCoefficient(j) PROVE WholeInv'
    <2>1. /\ stage[j] = "read" /\ job' = job /\ saved' = saved /\ days' = days
          /\ matched' = matched /\ AtWork(j) /\ ChartsBy(j) = {}
      BY <1>t, <1>4, WhereItStands DEF CalculateCoefficient, AtWork
    <2>2. PICK stmt \in {"done", "save"} : stage' = [stage EXCEPT ![j] = stmt]
      BY <1>4 DEF CalculateCoefficient, MoveTo
    <2>3. matched' \subseteq Tuples
      BY <1>t, <2>1 DEF CorrelationTypes
    <2> QED BY <1>2, <2>1, <2>2, <2>3
  <1>5. ASSUME NEW j \in Jobs, JobFails(j) PROVE WholeInv'
    <2>1. /\ stage[j] \in {"look", "read", "save"} /\ job' = job /\ saved' = saved
          /\ days' = days /\ matched' = matched
      BY <1>5 DEF JobFails
    <2>2. matched' \subseteq Tuples
      BY <1>t, <2>1 DEF CorrelationTypes
    <2>3. CASE ChartsBy(j) = {}
      <3>1. stage' = [stage EXCEPT ![j] = "done"]
        BY <1>5, <2>3 DEF JobFails, MoveTo
      <3>2. ~AtWork(j)'
        BY <1>t, <2>1, <2>3, <3>1 DEF AtWork, ChartsBy, CorrelationTypes
      <3> QED BY <1>2, <2>1, <2>2, <2>3, <3>1, <3>2
    <2>4. CASE ChartsBy(j) # {}
      <3>1. stage' = [stage EXCEPT ![j] = "partial"]
        BY <1>5, <2>4 DEF JobFails, MoveTo
      <3>2. AtWork(j)
        BY <2>4 DEF AtWork
      <3> QED BY <1>2, <2>1, <2>2, <3>1, <3>2
    <2> QED BY <2>3, <2>4
  <1>6. ASSUME NEW j \in Jobs, SaveCorrelation(j) PROVE WholeInv'
    <2> DEFINE charts == ChartsOf(job[j].ctype)
    <2>1. /\ stage[j] = "save" /\ job' = job /\ days' = days /\ matched' = matched
          /\ AtWork(j) /\ job[j] \in Tuples
      BY <1>t, <1>6, WhereItStands DEF SaveCorrelation, AtWork
    <2>2. PICK n \in Nat : SavedInOrder(j, n) /\ n < Len(charts)
      BY <1>t, <2>1, WhereItStands
    <2>3. IsFiniteSet(FirstCharts(job[j].ctype, n)) /\ Cardinality(FirstCharts(job[j].ctype, n)) = n
      <3>1. n <= Len(charts)
        BY <2>2 DEF SavedInOrder
      <3> QED BY <3>1, FirstAreCounted, Zenon
    <2>4. ChartsBy(j) = FirstCharts(job[j].ctype, n) /\ Cardinality(ChartsBy(j)) = n
      BY <2>2, <2>3 DEF SavedInOrder
    <2>5. /\ saved' = saved \cup {<<j, charts[n + 1]>>}
          /\ stage' = [stage EXCEPT ![j] = IF n + 1 = Len(charts) THEN "done" ELSE "save"]
      BY <1>6, <2>4 DEF SaveCorrelation, MoveTo
    <2>6. charts[n + 1] \in Charts /\ Len(charts) \in {2, 4}
      <3>1. charts \in Seq(Charts) /\ Len(charts) \in {2, 4}
        BY ChartsAreDistinct
      <3>2. n + 1 \in 1..Len(charts)
        BY <2>2, <3>1
      <3> QED BY <3>1, <3>2
    <2>7. FirstCharts(job[j].ctype, n + 1) = FirstCharts(job[j].ctype, n) \cup {charts[n + 1]}
      BY <2>2, <2>3, NextChart
    <2>8. /\ ChartsBy(j)' = ChartsBy(j) \cup {charts[n + 1]}
          /\ \A i \in Jobs : i # j => ChartsBy(i)' = ChartsBy(i)
      <3> HIDE DEF charts
      <3> QED BY <2>5, <2>6, SavesOfOne
    <2>9. CorrelationTypes'
      BY <1>t, <2>1, <2>5, <2>6 DEF CorrelationTypes
    <2>10. /\ stage'[j] = IF n + 1 = Len(charts) THEN "done" ELSE "save"
           /\ \A i \in Jobs \ {j} : stage'[i] = stage[i]
      BY <1>t, <2>5 DEF CorrelationTypes
    <2>11. SavedInOrder(j, n + 1)'
      <3>1. ChartsBy(j)' = FirstCharts(job[j].ctype, n + 1)
        BY <2>4, <2>7, <2>8
      <3>2. n + 1 <= Len(charts)
        BY <2>2, <2>6
      <3>3. n + 1 # Len(charts) => n + 1 < Len(charts)
        BY <2>2, <2>6
      <3> QED BY <2>1, <2>10, <3>1, <3>2, <3>3 DEF SavedInOrder
    <2>12. OrderInv'
      <3> SUFFICES ASSUME NEW i \in Jobs
                   PROVE  /\ stage'[i] = "start" <=> job'[i] = NoTuple
                          /\ \E k \in Nat : SavedInOrder(i, k)'
        BY DEF OrderInv
      <3>1. CASE i = j
        <4>1. stage'[i] # "start" /\ job'[i] # NoTuple
          BY <2>1, <2>10, <3>1, NoTupleIsNone
        <4>2. n + 1 \in Nat
          OBVIOUS
        <4> QED BY <2>11, <3>1, <4>1, <4>2
      <3>2. CASE i # j
        <4>1. PICK k \in Nat : SavedInOrder(i, k)
          BY <1>t DEF OrderInv
        <4>2. SavedInOrder(i, k)'
          BY <2>1, <2>8, <2>10, <3>2, <4>1 DEF SavedInOrder
        <4> QED BY <1>t, <2>1, <2>10, <3>2, <4>2 DEF OrderInv
      <3> QED BY <3>1, <3>2
    <2>13. AloneInv'
      <3>1. \A i \in Jobs : AtWork(i)' => AtWork(i)
        BY <2>1, <2>8, <2>10 DEF AtWork
      <3> QED BY <1>t, <2>1, <3>1 DEF AloneInv
    <2> QED BY <2>9, <2>12, <2>13 DEF WholeInv
  <1> QED BY <1>u, <1>1, <1>3, <1>4, <1>5, <1>6 DEF CorrelationsNext

\* The invariant: whatever the goroutines interleave and fail at, a job's charts
\* are its method's first, and an unmatched key has one job at work.
THEOREM CorrelationsKeepOrder == CorrelationsSpec => []WholeInv
  BY CorrelationsBegin, CorrelationsStep, PTL DEF CorrelationsSpec

\* Who has ended has saved all or nothing, and one job at most has saved any.
LEMMA OrderIsWhole == WholeInv => CorrelationsAreWhole
  <1> SUFFICES ASSUME WholeInv, NEW c \in Range(job) \ (matched \cup {NoTuple}),
                      \A j \in Jobs : job[j] = c => stage[j] \in {"start", "done"}
               PROVE  Cardinality(UNION {{j} \X ChartsBy(j) : j \in {j \in Jobs : job[j] = c}})
                          \in {0, Len(ChartsOf(c.ctype))}
    BY DEF CorrelationsAreWhole
  <1> DEFINE mine == {j \in Jobs : job[j] = c}
             all == UNION {{j} \X ChartsBy(j) : j \in mine}
  <1>t. CorrelationTypes /\ OrderInv /\ AloneInv
    BY DEF WholeInv
  <1>1. c \in Tuples \ matched
    BY <1>t DEF CorrelationTypes, Range
  <1>2. CASE \A j \in mine : ChartsBy(j) = {}
    <2>1. all = {}
      BY <1>2
    <2> QED BY <2>1, FS_EmptySet
  <1>3. CASE \E j \in mine : ChartsBy(j) # {}
    <2>1. PICK j \in mine : ChartsBy(j) # {}
      BY <1>3
    <2>2. \A i \in mine \ {j} : ChartsBy(i) = {}
      BY <1>t, <1>1, <2>1 DEF AloneInv, AtWork
    <2>3. all = {j} \X ChartsBy(j)
      BY <2>1, <2>2
    <2>4. /\ Cardinality(ChartsBy(j)) = Len(ChartsOf(c.ctype))
          /\ Len(ChartsOf(c.ctype)) \in Nat
      <3>1. stage[j] = "done" \/ stage[j] = "start"
        OBVIOUS
      <3>2. Len(ChartsOf(c.ctype)) \in Nat
        BY ChartsAreDistinct
      <3> QED BY <1>t, <2>1, <3>1, <3>2, WhereItStands
    <2>5. IsFiniteSet(ChartsBy(j))
      <3>1. Charts = {"bar"} \cup {"column"} \cup {"line"} \cup {"scatter"}
        BY DEF Charts
      <3>2. IsFiniteSet(Charts)
        BY <3>1, FS_Singleton, FS_Union
      <3> QED BY <3>2, FS_Subset DEF ChartsBy
    <2>6. Cardinality({j} \X ChartsBy(j)) = Cardinality({j}) * Cardinality(ChartsBy(j))
      BY <2>5, FS_Singleton, FS_Product
    <2>7. Cardinality({j}) = 1
      BY FS_Singleton
    <2>8. Cardinality({j} \X ChartsBy(j)) = Len(ChartsOf(c.ctype))
      BY <2>4, <2>6, <2>7
    <2>9. Cardinality(all) = Len(ChartsOf(c.ctype))
      BY <2>3, <2>8, Zenon
    <2> QED BY <2>9
  <1> QED BY <1>2, <1>3

\* Unless two jobs looked the same tables up at once, or a save failed half-way,
\* one look-up stands for all the charts: they are saved once, or none is.
THEOREM CorrelationsWhole == CorrelationsSpec => []CorrelationsAreWhole
  BY CorrelationsKeepOrder, OrderIsWhole, PTL

-----------------------------------------------------------------------------
(***************************************************************************)
(* Correlations: the days that are counted.                                *)
(***************************************************************************)
\* a period: the day it begins on and the day it ends on
IsPeriod(r) == r \in [from : Nat, to : Nat] /\ r.from < r.to

\* the first day after the buckets of a period
After(r) == IF Rng(r) > 10 THEN r.to + 1 ELSE r.to

\* Ten steps at most cover a period, but for what is left.
LEMMA StepsFit ==
    ASSUME NEW n \in Nat \ {0}, NEW st, st = Steps(n, Min({10, n}))
    PROVE  /\ st.size \in Nat \ {0} /\ st.num \in 1..10
           /\ st.num * st.size <= n /\ n < st.num * st.size + st.size
           /\ n <= 10 => st.size = 1 /\ st.num = n
           /\ n > 10 => st.size > 1
  <1>1. PICK b : b = Min({10, n})
    OBVIOUS
  <1>2. b \in 1..10 /\ (n <= 10 => b = n) /\ (n > 10 => b = 10)
    <2>1. CASE n <= 10
      <3>1. {10, n} \subseteq Int /\ n \in {10, n} /\ \A m \in {10, n} : n <= m
        BY <2>1
      <3> QED BY <1>1, <2>1, <3>1, LeastIs
    <2>2. CASE n > 10
      <3>1. {10, n} \subseteq Int /\ 10 \in {10, n} /\ \A m \in {10, n} : 10 <= m
        BY <2>2
      <3> QED BY <1>1, <2>2, <3>1, LeastIs
    <2> QED BY <2>1, <2>2
  <1>3. PICK s : s = (n + b - 1) \div b
    OBVIOUS
  <1>4. n + b - 1 \in Nat /\ b \in Nat \ {0}
    BY <1>2
  <1>5. s \in Nat /\ s * b <= n + b - 1 /\ n + b - 1 < s * b + b
    BY <1>3, <1>4, Division
  <1>6. s \in Nat \ {0} /\ (n <= 10 => s = 1) /\ (n > 10 => s > 1) /\ n <= s * 10
    <2>1. CASE n <= 10
      <3>1. b = n /\ n \in 1..10
        BY <1>2, <2>1
      <3>2. CASE s = 0
        <4>1. s * b = 0
          BY <3>1, <3>2
        <4> QED BY <1>5, <3>1, <4>1
      <3>3. CASE s = 1
        BY <2>1, <3>3
      <3>4. CASE s > 1
        <4>1. 2 * b <= s * b
          BY <1>4, <1>5, <3>4, Multiples
        <4> QED BY <1>5, <3>1, <4>1
      <3> QED BY <1>5, <3>2, <3>3, <3>4
    <2>2. CASE n > 10
      <3>1. b = 10
        BY <1>2, <2>2
      <3> QED BY <1>5, <2>2, <3>1
    <2> QED BY <2>1, <2>2
  <1>7. PICK q : q = n \div s
    OBVIOUS
  <1>8. q \in Nat /\ q * s <= n /\ n < q * s + s
    BY <1>6, <1>7, Division
  <1>9. st.size = s /\ st.num = q
    BY <1>1, <1>3, <1>7 DEF Steps, Ceiling
  <1>10. q # 0
    <2>1. CASE q = 0
      <3>1. n < s
        BY <1>6, <1>8, <2>1
      <3>2. CASE n <= 10
        BY <1>6, <3>1, <3>2
      <3>3. CASE n > 10
        <4>1. b = 10
          BY <1>2, <3>3
        <4> QED BY <1>5, <3>1, <3>3, <4>1
      <3> QED BY <3>2, <3>3
    <2> QED BY <2>1
  <1>11. q <= 10
    <2>1. CASE q > 10
      <3>1. 10 * s + s <= q * s
        BY <1>6, <1>8, <2>1, Multiples
      <3> QED BY <1>6, <1>8, <3>1
    <2> QED BY <1>8, <2>1
  <1>12. n <= 10 => q = n
    BY <1>6, <1>8
  <1> QED BY <1>6, <1>8, <1>9, <1>10, <1>11, <1>12

\* The buckets of a period: ten at most and one for what is left, each from its
\* first day to the day after its last, one after the other up to the last day
\* of a long period, or the day before that of a short one.
Tiles(r, bs, n) ==
    /\ n \in 1..11 /\ DOMAIN bs = 1..n /\ Len(bs) = n
    /\ bs[1].from = r.from /\ bs[n].to = After(r)
    /\ \A i \in 1..n :
         /\ bs[i].from \in Nat /\ bs[i].to \in Nat
         /\ r.from <= bs[i].from /\ bs[i].from <= bs[i].to /\ bs[i].to <= After(r)
    /\ \A i, k \in 1..n : i < k => bs[i].to <= bs[k].from
    /\ \A d \in r.from..After(r) - 1 : \E i \in 1..n : Between(d, bs[i])

\* CreateBuckets tiles every period that has two days.
LEMMA BucketsTile ==
    ASSUME NEW r, IsPeriod(r)
    PROVE  \E n \in 1..11 : Tiles(r, CreateBuckets(r), n)
  <1>1. PICK w : w = Rng(r)
    OBVIOUS
  <1>2. w \in Nat \ {0} /\ r.to = r.from + w /\ r.from \in Nat /\ r.to \in Nat
    BY <1>1 DEF Rng, IsPeriod
  <1>3. PICK st : st = Steps(w, Min({10, w}))
    OBVIOUS
  <1>4. PICK s \in Nat \ {0}, q \in 1..10 :
           /\ s = st.size /\ q = st.num
           /\ q * s <= w /\ w < q * s + s
           /\ w <= 10 => s = 1 /\ q = w
           /\ w > 10 => s > 1
    BY <1>2, <1>3, StepsFit
  <1>5. PICK first : first = [i \in 1..q |-> [from |-> r.from + (i - 1) * s, to |-> r.from + i * s]]
    OBVIOUS
  <1>6. PICK last : last = [from |-> r.from + q * s, to |-> r.to + 1]
    OBVIOUS
  <1>7. CreateBuckets(r) = first \o IF s = 1 THEN <<>> ELSE <<last>>
    BY <1>1, <1>2, <1>3, <1>4, <1>5, <1>6 DEF CreateBuckets
  <1>m. PICK m : m = [i \in 0..q |-> i * s]
    OBVIOUS
  <1>p. m \in [0..q -> Nat] /\ m[0] = 0 /\ m[q] = q * s
    <2>1. \A i \in 0..q : i * s \in Nat
      BY SMT
    <2>2. 0 * s = 0 /\ 0 \in 0..q /\ q \in 0..q
      BY SMT
    <2> QED BY <1>m, <2>1, <2>2
  <1>n. ASSUME NEW i \in 1..q
        PROVE  /\ i - 1 \in 0..q /\ i \in 0..q /\ m[i] \in Nat /\ m[i - 1] \in Nat
               /\ m[i] = m[i - 1] + s /\ (i - 1) * s = m[i - 1] /\ i * s = m[i]
    <2>1. PICK j \in 0..q : i = j + 1 /\ i - 1 = j
      <3>1. i - 1 \in 0..q /\ i = (i - 1) + 1
        OBVIOUS
      <3> QED BY <3>1
    <2>2. j * s \in Nat /\ i * s = j * s + s
      BY <2>1, SMT
    <2>3. m[j] = j * s /\ m[i] = i * s
      BY <1>m, <2>1
    <2> QED BY <2>1, <2>2, <2>3
  <1>f. ASSUME NEW i \in 1..q
        PROVE  first[i] = [from |-> r.from + m[i - 1], to |-> r.from + m[i]]
    BY <1>5, <1>n
  <1>8. ASSUME NEW i \in 1..q
        PROVE  /\ first[i].from = r.from + m[i - 1] /\ first[i].to = r.from + m[i]
               /\ first[i].from \in Nat /\ first[i].to \in Nat
               /\ first[i].to = first[i].from + s
    <2>1. m[i] \in Nat /\ m[i - 1] \in Nat /\ m[i] = m[i - 1] + s
      BY <1>n
    <2>2. PICK a \in Nat, b \in Nat : a = m[i - 1] /\ b = m[i] /\ b = a + s
      BY <2>1
    <2>3. PICK x, y : x = r.from + a /\ y = r.from + b
      OBVIOUS
    <2>4. first[i] = [from |-> x, to |-> y]
      BY <1>f, <2>2, <2>3
    <2>5. first[i].from = x /\ first[i].to = y
      BY <2>4
    <2> QED BY <1>2, <2>2, <2>3, <2>5
  <1>l. first \in Seq([from : Nat, to : Nat]) /\ Len(first) = q /\ DOMAIN first = 1..q
    <2>1. first \in [1..q -> [from : Nat, to : Nat]]
      <3>1. \A i \in 1..q : first[i] \in [from : Nat, to : Nat]
        <4> SUFFICES ASSUME NEW i \in 1..q PROVE first[i] \in [from : Nat, to : Nat]
          OBVIOUS
        <4>1. PICK a \in Nat, b \in Nat : a = r.from + m[i - 1] /\ b = r.from + m[i]
          BY <1>2, <1>n
        <4>2. first[i] = [from |-> a, to |-> b]
          BY <1>f, <4>1
        <4> QED BY <4>2
      <3>2. DOMAIN first = 1..q /\ first = [i \in 1..q |-> first[i]]
        BY <1>5
      <3> QED BY <3>1, <3>2
    <2>2. q \in Nat
      OBVIOUS
    <2>3. PICK S : S = [from : Nat, to : Nat]
      OBVIOUS
    <2>4. first \in [1..q -> S]
      BY <2>1, <2>3
    <2>5. \A f : f \in [1..q -> S] => f \in Seq(S)
      BY <2>2, SeqDef
    <2>6. first \in Seq(S) /\ DOMAIN first = 1..q
      BY <2>4, <2>5, Zenon
    <2> QED BY <2>2, <2>3, <2>6, LenProperties
  <1>e. /\ 1 \in 1..q /\ q \in 1..q /\ q \in Nat
        /\ first[1].from = r.from /\ first[q].to = r.from + q * s
    <2>1. 1 \in 1..q /\ q \in 1..q /\ q \in Nat /\ 1 - 1 = 0
      OBVIOUS
    <2>2. first[1].from = r.from + m[0]
      BY <1>8, <2>1
    <2>3. first[q].to = r.from + m[q]
      BY <1>8, <2>1
    <2> QED BY <1>2, <1>p, <2>1, <2>2, <2>3
  <1>9. q * s \in Nat
    BY <1>4, SMT
  <1>10. ASSUME NEW i \in 1..q, NEW k \in 1..q, i < k
         PROVE  first[i].to <= first[k].from
    <2>1. PICK j \in Nat : k = j + 1 /\ k - 1 = j
      <3>1. k - 1 \in Nat /\ k = (k - 1) + 1
        OBVIOUS
      <3> QED BY <3>1
    <2>2. i * s <= j * s
      BY <1>10, <2>1, Multiples
    <2>3. m[i] <= m[k - 1] /\ m[i] \in Nat /\ m[k - 1] \in Nat
      BY <1>n, <2>1, <2>2
    <2>4. PICK a \in Nat, b \in Nat : a = m[i] /\ b = m[k - 1] /\ a <= b
      BY <2>3
    <2>5. first[i].to = r.from + a /\ first[k].from = r.from + b
      BY <1>8, <2>4
    <2> QED BY <1>2, <2>4, <2>5
  <1>11. ASSUME NEW i \in 1..q PROVE first[i].to <= r.from + q * s
    <2>1. i * s <= q * s /\ i * s \in Nat
      BY Multiples
    <2>2. m[i] = i * s
      BY <1>n
    <2> QED BY <1>2, <1>8, <1>9, <2>1, <2>2
  <1>12. ASSUME NEW d \in r.from..r.from + q * s - 1
         PROVE  \E i \in 1..q : Between(d, first[i])
    <2>1. PICK e \in Nat : d = r.from + e /\ e < q * s
      <3>1. d - r.from \in Nat /\ d = r.from + (d - r.from)
        BY <1>2, <1>9, <1>12
      <3> QED BY <1>2, <1>9, <1>12, <3>1
    <2>2. PICK j : j = e \div s
      OBVIOUS
    <2>3. j \in Nat /\ j * s <= e /\ e < j * s + s
      BY <2>2, Division
    <2>4. j < q
      <3>1. CASE q <= j
        <4>1. q * s <= j * s /\ j * s \in Nat
          BY <2>3, <3>1, Multiples
        <4> QED BY <1>9, <2>1, <2>3, <4>1
      <3> QED BY <2>3, <3>1
    <2>5. PICK i \in 1..q : i = j + 1 /\ i - 1 = j
      <3>1. j + 1 \in 1..q /\ (j + 1) - 1 = j
        BY <2>3, <2>4
      <3> QED BY <3>1
    <2>6. first[i].from = r.from + j * s /\ first[i].to = first[i].from + s /\ j * s \in Nat
      <3>1. m[i - 1] = j * s /\ j * s \in Nat
        BY <1>n, <2>5
      <3> QED BY <1>8, <2>5, <3>1
    <2> QED BY <1>2, <2>1, <2>3, <2>6 DEF Between
  <1>g. \A i \in 1..q : r.from <= first[i].from /\ first[i].from <= first[i].to
    <2> SUFFICES ASSUME NEW i \in 1..q
                 PROVE  r.from <= first[i].from /\ first[i].from <= first[i].to
      OBVIOUS
    <2>1. PICK a \in Nat : a = m[i - 1]
      BY <1>n
    <2>2. first[i].from = r.from + a
      BY <1>8, <2>1
    <2>3. first[i].to = first[i].from + s
      BY <1>8
    <2> QED BY <1>2, <2>2, <2>3
  <1>13. CASE s = 1
    <2>1. CreateBuckets(r) = first
      BY <1>7, <1>l, <1>13
    <2>2. w <= 10 /\ q * s = w
      BY <1>4, <1>13, <1>2
    <2>3. After(r) = r.to /\ r.to = r.from + q * s
      BY <1>1, <1>2, <2>2 DEF After
    <2>4. first[q].to = r.to /\ first[1].from = r.from
      BY <1>e, <2>3
    <2>5. \A i \in 1..q : r.from <= first[i].from /\ first[i].from <= first[i].to
      BY <1>g
    <2>6. Tiles(r, first, q)
      <3>1. /\ q \in 1..11 /\ DOMAIN first = 1..q /\ Len(first) = q
            /\ first[1].from = r.from /\ first[q].to = After(r)
        BY <1>e, <1>l, <2>3
      <3>2. \A i \in 1..q :
             /\ first[i].from \in Nat /\ first[i].to \in Nat
             /\ r.from <= first[i].from /\ first[i].from <= first[i].to
             /\ first[i].to <= After(r)
        BY <1>8, <1>11, <2>3, <2>5
      <3>3. \A i, k \in 1..q : i < k => first[i].to <= first[k].from
        BY <1>10
      <3>4. \A d \in r.from..After(r) - 1 : \E i \in 1..q : Between(d, first[i])
        <4> SUFFICES ASSUME NEW d \in r.from..After(r) - 1
                     PROVE  \E i \in 1..q : Between(d, first[i])
          OBVIOUS
        <4>1. After(r) = r.from + q * s
          BY <2>3
        <4>2. PICK z \in Nat : z = q * s
          BY <1>9
        <4>3. d \in r.from..r.from + z - 1
          BY <1>2, <4>1, <4>2
        <4>4. d \in r.from..r.from + q * s - 1
          BY <4>2, <4>3
        <4> QED BY <1>12, <4>4
      <3> QED BY <3>1, <3>2, <3>3, <3>4 DEF Tiles
    <2> QED BY <2>1, <2>6
  <1>14. CASE s # 1
    <2>1. PICK bs : bs = CreateBuckets(r)
      OBVIOUS
    <2>2. PICK n \in 1..11 : n = q + 1
      OBVIOUS
    <2>3. /\ Len(bs) = n /\ DOMAIN bs = 1..n /\ bs[n] = last
          /\ \A i \in 1..q : bs[i] = first[i]
      <3>1. bs = first \o <<last>>
        BY <1>7, <1>14, <2>1
      <3>2. <<last>> \in Seq([from : Nat, to : Nat]) /\ Len(<<last>>) = 1 /\ <<last>>[1] = last
        BY <1>2, <1>6, <1>9
      <3> QED BY <1>l, <1>e, <2>2, <3>1, <3>2
    <2>4. After(r) = r.to + 1 /\ r.from + q * s <= r.to
      BY <1>1, <1>2, <1>4, <1>14 DEF After
    <2>5. last.from = r.from + q * s /\ last.to = After(r) /\ last.from \in Nat /\ last.to \in Nat
      BY <1>2, <1>6, <1>9, <2>4
    <2>6. first[1].from = r.from
      BY <1>e
    <2>7. \A i \in 1..q : r.from <= first[i].from /\ first[i].from <= first[i].to
      BY <1>g
    <2>8. \A i \in 1..q : first[i].to <= last.from
      BY <1>11, <2>5
    <2>9. ASSUME NEW d \in r.from..After(r) - 1 PROVE \E i \in 1..n : Between(d, bs[i])
      <3>1. CASE d < r.from + q * s
        <4>1. d \in r.from..r.from + q * s - 1
          BY <1>2, <1>9, <3>1
        <4>2. PICK i \in 1..q : Between(d, first[i])
          BY <1>12, <4>1
        <4> QED BY <2>2, <2>3, <4>2
      <3>2. CASE r.from + q * s <= d
        <4>1. Between(d, last)
          BY <1>2, <2>4, <2>5, <3>2 DEF Between
        <4> QED BY <2>2, <2>3, <4>1
      <3> QED BY <1>2, <1>9, <3>1, <3>2
    <2>10. \A i \in 1..n : i \in 1..q \/ i = n
      BY <2>2
    <2>11. \A i \in 1..n :
             /\ bs[i].from \in Nat /\ bs[i].to \in Nat
             /\ r.from <= bs[i].from /\ bs[i].from <= bs[i].to /\ bs[i].to <= After(r)
      <3>1. \A i \in 1..q :
             /\ bs[i].from \in Nat /\ bs[i].to \in Nat
             /\ r.from <= bs[i].from /\ bs[i].from <= bs[i].to /\ bs[i].to <= After(r)
        <4> SUFFICES ASSUME NEW i \in 1..q
                     PROVE  /\ bs[i].from \in Nat /\ bs[i].to \in Nat
                            /\ r.from <= bs[i].from /\ bs[i].from <= bs[i].to
                            /\ bs[i].to <= After(r)
          OBVIOUS
        <4>1. bs[i] = first[i] /\ first[i].from \in Nat /\ first[i].to \in Nat
          BY <1>8, <2>3
        <4>2. first[i].to <= r.from + q * s
          BY <1>11
        <4>3. r.from + q * s <= After(r)
          BY <1>2, <1>9, <2>4
        <4>4. After(r) \in Nat
          BY <2>5
        <4> QED BY <1>2, <1>9, <2>7, <4>1, <4>2, <4>3, <4>4
      <3>2. /\ r.from <= last.from /\ last.from <= last.to
        BY <1>2, <1>9, <2>4, <2>5
      <3> QED BY <2>3, <2>5, <2>10, <3>1, <3>2
    <2>12. ASSUME NEW i \in 1..n, NEW k \in 1..n, i < k PROVE bs[i].to <= bs[k].from
      <3>1. i \in 1..q
        BY <2>2, <2>12
      <3>2. CASE k \in 1..q
        BY <1>10, <2>3, <2>12, <3>1, <3>2
      <3>3. CASE k = n
        BY <2>3, <2>8, <3>1, <3>3
      <3> QED BY <2>10, <3>2, <3>3
    <2>13. bs[1].from = r.from
      BY <2>3, <2>6
    <2>14. Tiles(r, bs, n)
      BY <2>2, <2>3, <2>5, <2>9, <2>11, <2>12, <2>13 DEF Tiles
    <2> QED BY <2>1, <2>14
  <1> QED BY <1>13, <1>14

\* What tiles a period counts each of its days once, and no other.
LEMMA TilesCount ==
    ASSUME NEW r, IsPeriod(r), NEW bs, NEW n \in 1..11, Tiles(r, bs, n)
    PROVE  /\ \A a, b \in Range(bs) : a = b \/ a.to <= b.from \/ b.to <= a.from
           /\ UNION {b.from..b.to - 1 : b \in Range(bs)} = r.from..After(r) - 1
           /\ Whole(bs) = [from |-> r.from, to |-> After(r)]
  <1>1. Len(bs) = n /\ DOMAIN bs = 1..n /\ bs[1].from = r.from /\ bs[n].to = After(r)
    BY DEF Tiles
  <1>2. Whole(bs) = [from |-> r.from, to |-> After(r)]
    BY <1>1 DEF Whole
  <1>3. ASSUME NEW a \in Range(bs), NEW b \in Range(bs)
        PROVE  a = b \/ a.to <= b.from \/ b.to <= a.from
    <2>1. PICK i \in 1..n, k \in 1..n : a = bs[i] /\ b = bs[k]
      BY <1>1 DEF Range
    <2>2. CASE i = k
      BY <2>1, <2>2
    <2>3. CASE i < k
      BY <2>1, <2>3 DEF Tiles
    <2>4. CASE k < i
      BY <2>1, <2>4 DEF Tiles
    <2> QED BY <2>2, <2>3, <2>4
  <1>4. After(r) \in Nat /\ r.from \in Nat
    BY DEF After, IsPeriod
  <1>5. ASSUME NEW b \in Range(bs), NEW d \in b.from..b.to - 1
        PROVE  d \in r.from..After(r) - 1
    <2>1. PICK i \in 1..n : b = bs[i]
      BY <1>1 DEF Range
    <2>2. b.from \in Nat /\ b.to \in Nat /\ r.from <= b.from /\ b.to <= After(r)
      BY <2>1 DEF Tiles
    <2> QED BY <1>4, <2>2
  <1>6. ASSUME NEW d \in r.from..After(r) - 1
        PROVE  \E b \in Range(bs) : d \in b.from..b.to - 1
    <2>1. PICK i \in 1..n : Between(d, bs[i])
      BY DEF Tiles
    <2>2. bs[i].from \in Nat /\ bs[i].to \in Nat /\ bs[i] \in Range(bs)
      BY <1>1 DEF Tiles, Range
    <2>3. d \in Int
      BY <1>4
    <2> QED BY <2>1, <2>2, <2>3 DEF Between
  <1>7. UNION {b.from..b.to - 1 : b \in Range(bs)} = r.from..After(r) - 1
    BY <1>5, <1>6
  <1> QED BY <1>2, <1>3, <1>7

\* The intersection of two periods, where there is one, begins when the later
\* of them does, and ends when the earlier one does, but in one case.
LEMMA Intersection ==
    ASSUME NEW x, IsPeriod(x), NEW y, IsPeriod(y),
           NEW p, p = GetIntersect(x, y), Rng(p) # 0
    PROVE  /\ IsPeriod(p)
           /\ p.from \in {x.from, y.from} /\ x.from <= p.from /\ y.from <= p.from
           /\ p.to \in {x.to, y.to}
           /\ (p.to <= x.to /\ p.to <= y.to) \/ (x.from = y.from /\ x.to < y.to)
  <1>1. /\ x.from \in Nat /\ x.to \in Nat /\ x.from < x.to
        /\ y.from \in Nat /\ y.to \in Nat /\ y.from < y.to
    BY DEF IsPeriod
  <1>2. CASE Rng(x) <= Rng(y) /\ (x = y \/ Inside(x, y))
    <2>1. p = x
      BY <1>2 DEF GetIntersect
    <2>2. y.from <= x.from /\ x.to <= y.to
      BY <1>1, <1>2 DEF Inside
    <2> QED BY <1>1, <2>1, <2>2
  <1>3. CASE ~(Rng(x) <= Rng(y) /\ (x = y \/ Inside(x, y))) /\ Rng(y) < Rng(x) /\ Inside(y, x)
    <2>1. p = y
      BY <1>3 DEF GetIntersect
    <2>2. x.from <= y.from /\ y.to <= x.to
      BY <1>1, <1>3 DEF Inside
    <2> QED BY <1>1, <2>1, <2>2
  <1>4. CASE /\ ~(Rng(x) <= Rng(y) /\ (x = y \/ Inside(x, y)))
             /\ ~(Rng(y) < Rng(x) /\ Inside(y, x))
    <2>1. CASE x.to < y.from \/ x.from > y.to
      <3>1. p = [from |-> 0, to |-> 0]
        BY <1>4, <2>1 DEF GetIntersect
      <3>2. Rng(p) = 0
        BY <3>1 DEF Rng
      <3> QED BY <3>2
    <2>2. CASE ~(x.to < y.from \/ x.from > y.to) /\ x.from < y.from
      <3>1. p = [from |-> y.from, to |-> x.to]
        BY <1>4, <2>2 DEF GetIntersect
      <3>2. p.from = y.from /\ p.to = x.to /\ y.from <= x.to /\ y.from # x.to
        BY <1>1, <2>2, <3>1 DEF Rng
      <3>3. x.to <= y.to
        BY <1>1, <1>4, <2>2 DEF Inside, Rng
      <3> QED BY <1>1, <2>2, <3>1, <3>2, <3>3 DEF IsPeriod
    <2>3. CASE ~(x.to < y.from \/ x.from > y.to) /\ ~(x.from < y.from)
      <3>1. p = [from |-> x.from, to |-> y.to]
        BY <1>4, <2>3 DEF GetIntersect
      <3>2. p.from = x.from /\ p.to = y.to /\ x.from <= y.to /\ x.from # y.to
        BY <1>1, <2>3, <3>1 DEF Rng
      <3>3. y.to <= x.to \/ (x.from = y.from /\ x.to < y.to)
        BY <1>1, <1>4, <2>3 DEF Inside, Rng
      <3> QED BY <1>1, <2>3, <3>1, <3>2, <3>3 DEF IsPeriod
    <2> QED BY <2>1, <2>2, <2>3
  <1> QED BY <1>2, <1>3, <1>4

\* The days of a table that a coefficient is calculated of make a period.
LEMMA DaysMakePeriods ==
    ASSUME NEW S, IsFiniteSet(S), S \subseteq Nat, Rng(DetermineRange(S)) > 0
    PROVE  /\ IsPeriod(DetermineRange(S)) /\ S # {}
           /\ DetermineRange(S).from = Min(S) /\ DetermineRange(S).to = Max(S)
  <1>1. S # {}
    <2>1. S = {} => Rng(DetermineRange(S)) = 0
      BY DEF DetermineRange, Rng
    <2> QED BY <2>1
  <1>2. PICK a \in Nat, b \in Nat : a = Min(S) /\ b = Max(S)
    BY <1>1, FirstAndLast
  <1>3. DetermineRange(S) = [from |-> a, to |-> b]
    BY <1>1, <1>2 DEF DetermineRange
  <1>4. a < b
    BY <1>3 DEF Rng
  <1> QED BY <1>1, <1>2, <1>3, <1>4 DEF IsPeriod

\* the days on which tables begin and end
Starts(c) == {Min(days[t]) : t \in Compared(c)}
Finishes(c) == {Max(days[t]) : t \in Compared(c)}

\* The period of a calculation is that of the days that its tables have in
\* common, or Overlong says why it goes on.
LEMMA PeriodIsCommon ==
    ASSUME days \in [Tables -> Series], NEW c \in Tuples, Calculable(c)
    PROVE  /\ IsPeriod(Period(c))
           /\ Max(Starts(c)) = Period(c).from
           /\ Min(Finishes(c)) \in Nat /\ Min(Finishes(c)) <= Period(c).to
           /\ Min(Finishes(c)) = Period(c).to \/ Overlong(c)
  <1>1. /\ c.tbl1 \in Compared(c) /\ c.tbl2 \in Compared(c)
        /\ c.tbl1 \in Tables /\ c.tbl2 \in Tables
        /\ IF c.ctype = "Spurious"
           THEN c.tbl3 \in Tables /\ Compared(c) = {c.tbl1, c.tbl2, c.tbl3}
           ELSE Compared(c) = {c.tbl1, c.tbl2}
    BY NoTableIsNone DEF Tuples, Compared
  <1>2. ASSUME NEW t \in Compared(c), t \in Tables
        PROVE  /\ IsPeriod(DetermineRange(days[t]))
               /\ DetermineRange(days[t]).from = Min(days[t])
               /\ DetermineRange(days[t]).to = Max(days[t])
    <2>1. IsFiniteSet(days[t]) /\ days[t] \subseteq Nat
      BY <1>2, SeriesAreDays
    <2>2. Rng(DetermineRange(days[t])) > 0
      BY DEF Calculable
    <2> QED BY <2>1, <2>2, DaysMakePeriods
  <1>3. PICK x, y : x = DetermineRange(days[c.tbl1]) /\ y = DetermineRange(days[c.tbl2])
    OBVIOUS
  <1>4. PICK q : q = PairRange(c)
    OBVIOUS
  <1>5. Rng(q) # 0 /\ Rng(Period(c)) # 0
    <2>1. CreateBuckets(q) # <<>> /\ Buckets(c) # <<>>
      BY <1>1, <1>4 DEF Calculable, Usable
    <2>2. Buckets(c) = CreateBuckets(Period(c))
      BY DEF Buckets
    <2>3. \A r : Rng(r) = 0 => CreateBuckets(r) = <<>>
      BY DEF CreateBuckets
    <2> QED BY <2>1, <2>2, <2>3
  <1>6. IsPeriod(x) /\ IsPeriod(y)
    BY <1>1, <1>2, <1>3
  <1>7. q = GetIntersect(x, y)
    BY <1>3, <1>4 DEF PairRange
  <1>8. /\ IsPeriod(q)
        /\ q.from \in {x.from, y.from} /\ x.from <= q.from /\ y.from <= q.from
        /\ q.to \in {x.to, y.to}
        /\ (q.to <= x.to /\ q.to <= y.to) \/ (x.from = y.from /\ x.to < y.to)
    BY <1>5, <1>6, <1>7, Intersection
  <1>9. (x.from = y.from /\ x.to < y.to) => Overlong(c)
    BY <1>3 DEF Overlong
  <1>10. /\ x.from = Min(days[c.tbl1]) /\ x.to = Max(days[c.tbl1])
         /\ y.from = Min(days[c.tbl2]) /\ y.to = Max(days[c.tbl2])
    BY <1>1, <1>2, <1>3
  <1>11. /\ x.from \in Nat /\ x.to \in Nat /\ y.from \in Nat /\ y.to \in Nat
         /\ q.from \in Nat /\ q.to \in Nat
    BY <1>6, <1>8 DEF IsPeriod
  <1>12. CASE c.ctype # "Spurious"
    <2>1. Period(c) = q
      BY <1>4, <1>12 DEF Period
    <2>2. Starts(c) = {x.from, y.from} /\ Finishes(c) = {x.to, y.to}
      BY <1>1, <1>10, <1>12 DEF Starts, Finishes
    <2>3. Max(Starts(c)) = q.from
      <3>1. Starts(c) \subseteq Int /\ q.from \in Starts(c) /\ \A m \in Starts(c) : m <= q.from
        BY <1>8, <1>11, <2>2
      <3> QED BY <3>1, GreatestIs
    <2>4. CASE q.to <= x.to /\ q.to <= y.to
      <3>1. Finishes(c) \subseteq Int /\ q.to \in Finishes(c) /\ \A m \in Finishes(c) : q.to <= m
        BY <1>8, <1>11, <2>2, <2>4
      <3>2. Min(Finishes(c)) = q.to
        BY <3>1, LeastIs
      <3> QED BY <1>8, <1>11, <2>1, <2>3, <3>2
    <2>5. CASE x.from = y.from /\ x.to < y.to
      <3>1. Finishes(c) \subseteq Int /\ x.to \in Finishes(c) /\ \A m \in Finishes(c) : x.to <= m
        BY <1>11, <2>2, <2>5
      <3>2. Min(Finishes(c)) = x.to
        BY <3>1, LeastIs
      <3>3. x.to <= q.to
        BY <1>8, <1>11, <2>5
      <3> QED BY <1>8, <1>9, <1>11, <2>1, <2>3, <2>5, <3>2, <3>3
    <2> QED BY <1>8, <2>4, <2>5
  <1>13. CASE c.ctype = "Spurious"
    <2>1. PICK z : z = DetermineRange(days[c.tbl3])
      OBVIOUS
    <2>2. IsPeriod(z) /\ z.from = Min(days[c.tbl3]) /\ z.to = Max(days[c.tbl3])
      BY <1>1, <1>2, <1>13, <2>1
    <2>3. PICK p : p = Period(c)
      OBVIOUS
    <2>4. p = GetIntersect(q, z)
      BY <1>4, <1>13, <2>1, <2>3 DEF Period
    <2>5. /\ IsPeriod(p)
          /\ p.from \in {q.from, z.from} /\ q.from <= p.from /\ z.from <= p.from
          /\ p.to \in {q.to, z.to}
          /\ (p.to <= q.to /\ p.to <= z.to) \/ (q.from = z.from /\ q.to < z.to)
      BY <1>5, <1>8, <2>2, <2>3, <2>4, Intersection
    <2>6. q.from = z.from /\ q.to < z.to => Overlong(c)
      BY <1>4, <1>13, <2>1 DEF Overlong
    <2>7. z.from \in Nat /\ z.to \in Nat /\ p.from \in Nat /\ p.to \in Nat
      BY <2>2, <2>5 DEF IsPeriod
    <2>8. Starts(c) = {x.from, y.from, z.from} /\ Finishes(c) = {x.to, y.to, z.to}
      BY <1>1, <1>10, <1>13, <2>2 DEF Starts, Finishes
    <2>9. Max(Starts(c)) = p.from
      <3>1. Starts(c) \subseteq Int /\ p.from \in Starts(c)
        BY <1>8, <1>11, <2>5, <2>7, <2>8
      <3>2. x.from <= p.from /\ y.from <= p.from /\ z.from <= p.from
        BY <1>8, <1>11, <2>5, <2>7
      <3> QED BY <2>8, <3>1, <3>2, GreatestIs
    <2>10. Finishes(c) \subseteq Nat /\ Finishes(c) # {} /\ p.to \in Finishes(c)
      BY <1>8, <1>11, <2>5, <2>7, <2>8
    <2>11. PICK e \in Finishes(c) : \A m \in Finishes(c) : e <= m
      BY <2>10, LeastNumber
    <2>12. Min(Finishes(c)) = e /\ e \in Nat /\ e <= p.to
      <3>1. Finishes(c) \subseteq Int
        BY <2>10
      <3> QED BY <2>10, <2>11, <3>1, LeastIs
    <2>13. ~Overlong(c) => p.to <= e
      <3>1. ~Overlong(c) => p.to <= x.to /\ p.to <= y.to /\ p.to <= z.to
        BY <1>8, <1>9, <1>11, <2>5, <2>6, <2>7
      <3> QED BY <2>8, <3>1
    <2> QED BY <2>3, <2>5, <2>7, <2>9, <2>12, <2>13
  <1> QED BY <1>12, <1>13

\* What was calculable counts the dates as DatesAreCounted says.
LEMMA DatesOf ==
    ASSUME days \in [Tables -> Series], NEW c \in Tuples, Calculable(c),
           NEW common, common = Common(c), NEW buckets, buckets = Buckets(c),
           NEW row, row = Stored(c),
           NEW counted, counted = DaysCounted(c)
    PROVE  /\ \A a, b \in Range(buckets) : a = b \/ a.to <= b.from \/ b.to <= a.from
           /\ counted = Min(counted)..Max(counted)
           /\ Min(counted) = FirstCommon(c)
           /\ Cardinality(common) > 11 => common \subseteq counted
           /\ counted \subseteq common \/ Overlong(c)
           /\ row.from = Min(counted)
           /\ row.to = Max(counted) + IF c.ctype = "Spurious" THEN 1 ELSE 0
           /\ \A t \in Compared(c) :
                LET plot == GetValues(days[t], buckets)
                IN  Min(plot) = row.from /\ Max(plot) = Max(counted)
  <1>1. PICK p : p = Period(c)
    OBVIOUS
  <1>2. PICK e : e = Min(Finishes(c))
    OBVIOUS
  <1>3. /\ IsPeriod(p) /\ Max(Starts(c)) = p.from
        /\ e \in Nat /\ e <= p.to /\ (e = p.to \/ Overlong(c))
    BY <1>1, <1>2, PeriodIsCommon
  <1>4. PICK n \in 1..11 : Tiles(p, buckets, n)
    BY <1>1, <1>3, BucketsTile DEF Buckets
  <1>5. PICK u : u = After(p)
    OBVIOUS
  <1>6. /\ p.from \in Nat /\ p.to \in Nat /\ p.from < p.to /\ u \in Nat
        /\ u = IF p.to - p.from > 10 THEN p.to + 1 ELSE p.to
    BY <1>3, <1>5 DEF IsPeriod, After, Rng
  <1>7. /\ \A a, b \in Range(buckets) : a = b \/ a.to <= b.from \/ b.to <= a.from
        /\ counted = p.from..u - 1
        /\ Whole(buckets) = [from |-> p.from, to |-> u]
    <2>1. counted = UNION {b.from..b.to - 1 : b \in Range(buckets)}
      BY DEF DaysCounted
    <2> QED BY <1>3, <1>4, <1>5, <2>1, TilesCount
  <1>8. common = p.from..e
    BY <1>2, <1>3 DEF Common, FirstCommon, Starts, Finishes
  <1>9. Min(counted) = p.from /\ Max(counted) = u - 1
    <2>1. /\ counted \subseteq Int /\ p.from \in counted /\ u - 1 \in counted
          /\ \A m \in counted : p.from <= m /\ m <= u - 1
      <3>1. PICK f \in Nat, l \in Int : f = p.from /\ l = u - 1 /\ f <= l
        BY <1>6
      <3>2. counted = f..l
        BY <1>7, <3>1
      <3>3. \A m : m \in f..l <=> m \in Int /\ f <= m /\ m <= l
        BY <3>1
      <3> QED BY <3>1, <3>2, <3>3
    <2>2. Min(counted) = p.from
      BY <2>1, LeastIs
    <2>3. Max(counted) = u - 1
      BY <2>1, GreatestIs
    <2> QED BY <2>2, <2>3
  <1>10. Cardinality(common) > 11 => common \subseteq counted
    <2>1. CASE common \subseteq counted
      BY <2>1
    <2>2. CASE ~(common \subseteq counted)
      <3>1. e = p.to /\ p.to - p.from <= 10
        BY <1>3, <1>6, <1>7, <1>8, <2>2
      <3>2. Cardinality(common) = e - p.from + 1
        <4>1. PICK f \in Nat : f = p.from /\ f <= e
          BY <1>6, <3>1
        <4>2. Cardinality(f..e) = e - f + 1
          BY <1>3, <4>1, FS_Interval
        <4> QED BY <1>8, <4>1, <4>2
      <3>3. PICK k : k = Cardinality(common)
        OBVIOUS
      <3>4. k = e - p.from + 1
        BY <3>2, <3>3
      <3>5. ~(k > 11)
        BY <1>3, <1>6, <3>1, <3>4
      <3> QED BY <3>3, <3>5
    <2> QED BY <2>1, <2>2
  <1>11. counted \subseteq common \/ Overlong(c)
    <2>1. e = p.to => counted \subseteq common
      BY <1>6, <1>7, <1>8
    <2> QED BY <1>3, <2>1
  <1>12. /\ row.from = p.from
         /\ row.to = (u - 1) + IF c.ctype = "Spurious" THEN 1 ELSE 0
    <2>1. row = [from |-> p.from, to |-> IF c.ctype = "Spurious" THEN u ELSE u - 1]
      BY <1>7 DEF Stored
    <2> QED BY <1>6, <2>1
  <1>13. ASSUME NEW t \in Compared(c), NEW plot, plot = GetValues(days[t], buckets)
         PROVE  Min(plot) = p.from /\ Max(plot) = u - 1
    <2>1. days[t] \subseteq Nat
      <3>1. t \in Tables
        BY DEF Compared, Tuples
      <3> QED BY <3>1, SeriesAreDays
    <2>2. plot = {d \in days[t] : p.from <= d /\ d < u} \cup {p.from, u - 1}
      BY <1>7, <1>13 DEF GetValues, Between
    <2>3. /\ plot \subseteq Int /\ p.from \in plot /\ u - 1 \in plot
          /\ \A m \in plot : p.from <= m /\ m <= u - 1
      BY <1>6, <2>1, <2>2
    <2>4. Min(plot) = p.from
      BY <2>3, LeastIs
    <2>5. Max(plot) = u - 1
      BY <2>3, GreatestIs
    <2> QED BY <2>4, <2>5
  <1>14. Min(counted) = FirstCommon(c)
    BY <1>3, <1>9 DEF FirstCommon, Starts
  <1>15. counted = Min(counted)..Max(counted)
    BY <1>7, <1>9
  <1> QED BY <1>7, <1>9, <1>10, <1>11, <1>12, <1>13, <1>14, <1>15

\* Whoever saves, or has saved, had something to calculate.
CalculatedInv ==
    /\ days \in [Tables -> Series]
    /\ \A j \in Jobs :
         stage[j] = "save" \/ ChartsBy(j) # {} => job[j] \in Tuples /\ Calculable(job[j])

\* Nothing is saved at first.
LEMMA CalculatedBegins == CorrelationsInit => CalculatedInv
  BY DEF CorrelationsInit, CalculatedInv, ChartsBy

\* Only CalculateCoefficient comes to the first save, and the days stay.
LEMMA CalculatedStep ==
    WholeInv /\ CalculatedInv /\ [CorrelationsNext]_correlationVars => CalculatedInv'
  <1> SUFFICES ASSUME WholeInv, CalculatedInv, [CorrelationsNext]_correlationVars
               PROVE  CalculatedInv'
    OBVIOUS
  <1>t. CorrelationTypes /\ OrderInv
    BY DEF WholeInv
  <1>d. days' = days
    BY DEF CorrelationsNext, correlationVars, Generate, LookUp, CalculateCoefficient,
           SaveCorrelation, JobFails
  <1>c. \A c : Calculable(c) => Calculable(c)'
    <2> SUFFICES ASSUME NEW c, Calculable(c) PROVE Calculable(c)'
      OBVIOUS
    <2>1. PairRange(c)' = PairRange(c)
      BY <1>d DEF PairRange
    <2>2. Period(c)' = Period(c)
      BY <1>d, <2>1 DEF Period
    <2>3. Buckets(c)' = Buckets(c)
      BY <2>2 DEF Buckets
    <2> QED BY <1>d, <2>1, <2>3 DEF Calculable
  <1>u. CASE UNCHANGED correlationVars
    BY <1>u, <1>c DEF correlationVars, CalculatedInv, ChartsBy
  <1>n. CASE CorrelationsNext
    <2>1. PICK j \in Jobs :
             \/ Generate(j) \/ LookUp(j) \/ CalculateCoefficient(j)
             \/ SaveCorrelation(j) \/ JobFails(j)
      BY <1>n DEF CorrelationsNext
    <2>2. ASSUME NEW i \in Jobs, stage'[i] = "save" \/ ChartsBy(i)' # {}
          PROVE  job'[i] \in Tuples /\ Calculable(job[i]) /\ job'[i] = job[i]
      <3>1. CASE Generate(j)
        <4>1. ChartsBy(j) = {}
          BY <3>1, <1>t, WhereItStands DEF Generate
        <4>2. /\ saved' = saved /\ stage'[j] = "look"
              /\ \A k \in Jobs \ {j} : stage'[k] = stage[k] /\ job'[k] = job[k]
          BY <1>t, <3>1 DEF Generate, MoveTo, CorrelationTypes
        <4>3. i # j /\ (stage[i] = "save" \/ ChartsBy(i) # {})
          BY <2>2, <4>1, <4>2 DEF ChartsBy
        <4> QED BY <4>2, <4>3 DEF CalculatedInv
      <3>2. CASE LookUp(j) \/ JobFails(j)
        <4>1. /\ saved' = saved /\ job' = job /\ stage'[j] # "save"
              /\ \A k \in Jobs \ {j} : stage'[k] = stage[k]
          BY <1>t, <3>2 DEF LookUp, JobFails, MoveTo, CorrelationTypes
        <4>2. stage[i] = "save" \/ ChartsBy(i) # {}
          BY <2>2, <4>1 DEF ChartsBy
        <4> QED BY <4>1, <4>2 DEF CalculatedInv
      <3>3. CASE CalculateCoefficient(j)
        <4>1. /\ saved' = saved /\ job' = job /\ stage[j] = "read"
              /\ stage'[j] = "done" \/ (stage'[j] = "save" /\ Calculable(job[j]))
              /\ \A k \in Jobs \ {j} : stage'[k] = stage[k]
          BY <1>t, <3>3 DEF CalculateCoefficient, MoveTo, CorrelationTypes
        <4>2. job[j] \in Tuples
          BY <1>t, <4>1 DEF CorrelationTypes, OrderInv
        <4>3. (i = j /\ Calculable(job[j])) \/ stage[i] = "save" \/ ChartsBy(i) # {}
          BY <2>2, <4>1 DEF ChartsBy
        <4> QED BY <4>1, <4>2, <4>3 DEF CalculatedInv
      <3>4. CASE SaveCorrelation(j)
        <4>1. /\ job' = job /\ stage[j] = "save"
              /\ \A k \in Jobs \ {j} : stage'[k] = stage[k]
          BY <1>t, <3>4 DEF SaveCorrelation, MoveTo, CorrelationTypes
        <4>2. PICK ch : saved' = saved \cup {<<j, ch>>}
          BY <3>4 DEF SaveCorrelation
        <4>3. i # j => ChartsBy(i)' = ChartsBy(i)
          BY <4>2 DEF ChartsBy
        <4>4. stage[i] = "save" \/ ChartsBy(i) # {}
          BY <2>2, <4>1, <4>3
        <4> QED BY <4>1, <4>4 DEF CalculatedInv
      <3> QED BY <2>1, <3>1, <3>2, <3>3, <3>4
    <2>3. \A i \in Jobs : (stage'[i] = "save" \/ ChartsBy(i)' # {})
                            => job'[i] \in Tuples /\ Calculable(job[i])'
      BY <1>c, <2>2
    <2> QED BY <1>d, <2>3 DEF CalculatedInv
  <1> QED BY <1>u, <1>n

\* The coefficient of every saved row counts the days that its tables have in
\* common, for any series of days.
THEOREM DatesCounted == CorrelationsSpec => []DatesAreCounted
  <1>1. WholeInv /\ CalculatedInv => DatesAreCounted
    <2> SUFFICES ASSUME WholeInv, CalculatedInv, NEW r \in saved
                 PROVE  job[r[1]] \in Tuples /\ Calculable(job[r[1]])
      BY DatesOf DEF DatesAreCounted, CalculatedInv
    <2>1. PICK j \in Jobs, ch \in Charts : r = <<j, ch>>
      BY DEF WholeInv, CorrelationTypes
    <2>2. ch \in ChartsBy(j)
      BY <2>1 DEF ChartsBy
    <2> QED BY <2>1, <2>2 DEF CalculatedInv
  <1> QED BY <1>1, CorrelationsKeepOrder, CalculatedBegins, CalculatedStep, PTL
          DEF CorrelationsSpec

-----------------------------------------------------------------------------
(***************************************************************************)
(* newsfetch: of the batches up to the one at hand every url was sent, of  *)
(* those after it only what failed; what an answer held is stored, missed  *)
(* or still to be written.                                                 *)
(***************************************************************************)
FetchTypes ==
    /\ empty \subseteq 1..Urls /\ pos \in 0..Urls
    /\ escapes \in [1..Urls -> Nat]
    /\ results \subseteq 1..Urls /\ target \in DOMAIN Targets
    /\ phase \in {"extract", "write", "done", "died"}
    /\ failed \subseteq 1..Urls /\ answered \subseteq 1..Urls

\* how far the urls have been sent
Sent == IF phase \in {"write", "died"} THEN End(pos) ELSE pos

SentInv ==
    /\ \A u \in 1..Urls :
          /\ u <= Sent => escapes[u] >= 1
          /\ u > Sent /\ escapes[u] >= 1 => u \in failed
          /\ escapes[u] > 1 => u \in failed
    /\ \A u \in failed : escapes[u] >= 1
    /\ \A u \in answered : u <= Sent /\ u \notin failed

\* a row that is to be written in this round, or in a later one
ToWrite(u, k) == u \in results /\ (u = Min(results) => k >= target)

WrittenInv ==
    /\ results \subseteq answered
    /\ results # {} => phase \in {"write", "died"}
    /\ results = {} => target = 1
    /\ \A row \in stored : row[1] \in answered
    /\ \A u \in answered, k \in DOMAIN Targets :
          <<u, Targets[k]>> \in stored \cup missed \/ ToWrite(u, k)
    /\ phase = "done" => pos = Urls

FetchInv == FetchTypes /\ SentInv /\ WrittenInv

\* The least of some urls is one of them.
LEMMA LeastUrl ==
    ASSUME NEW S, S \subseteq 1..Urls, S # {}
    PROVE  Min(S) \in S
  <1>1. S \subseteq Nat
    OBVIOUS
  <1>2. PICK n \in S : \A m \in S : n <= m
    BY <1>1, LeastNumber
  <1> QED BY <1>2 DEF Min

\* A batch is what lies between its position and its end.
LEMMA BatchesEnd ==
    ASSUME NEW p \in 0..Urls
    PROVE  /\ End(p) \in p..Urls
           /\ p < Urls => End(p) > p
           /\ Batch(p) = p + 1..End(p) /\ Batch(p) \subseteq 1..Urls
  <1>1. End(p) \in {Urls, p + Size} /\ End(p) <= Urls /\ End(p) <= p + Size
    <2>1. Urls \in Nat /\ Size \in Nat \ {0} /\ p \in Nat
      BY FetchIsBounded
    <2>2. CASE Urls <= p + Size
      <3>1. \A y \in {Urls, p + Size} : Urls <= y
        BY <2>1, <2>2
      <3>2. \A x \in {Urls, p + Size} : (\A y \in {Urls, p + Size} : x <= y) => x = Urls
        BY <2>1, <2>2
      <3>3. End(p) = Urls
        BY <3>1, <3>2 DEF End, Min
      <3> QED BY <2>1, <2>2, <3>3
    <2>3. CASE p + Size < Urls
      <3>1. \A y \in {Urls, p + Size} : p + Size <= y
        BY <2>1, <2>3
      <3>2. \A x \in {Urls, p + Size} : (\A y \in {Urls, p + Size} : x <= y) => x = p + Size
        BY <2>1, <2>3
      <3>3. End(p) = p + Size
        BY <3>1, <3>2 DEF End, Min
      <3> QED BY <2>1, <2>3, <3>3
    <2> QED BY <2>1, <2>2, <2>3
  <1>2. End(p) \in p..Urls /\ (p < Urls => End(p) > p)
    BY <1>1, FetchIsBounded
  <1>3. p + 1..End(p) \subseteq 1..Urls
    <2>1. PICK e \in p..Urls : End(p) = e
      BY <1>2
    <2>2. p + 1..e \subseteq 1..Urls
      BY FetchIsBounded
    <2> QED BY <2>1, <2>2
  <1> QED BY <1>2, <1>3 DEF Batch

\* The initial state satisfies the invariant.
LEMMA FetchBegins == FetchInit => FetchInv
  <1> SUFFICES ASSUME FetchInit PROVE FetchInv
    OBVIOUS
  <1>1. FetchTypes
    BY FetchIsBounded DEF FetchInit, FetchTypes
  <1>2. SentInv
    BY FetchIsBounded DEF FetchInit, SentInv, Sent
  <1>3. WrittenInv
    BY DEF FetchInit, WrittenInv
  <1> QED BY <1>1, <1>2, <1>3 DEF FetchInv

\* A batch is sent: its urls are escaped once more, and no others.
LEMMA BatchIsEscaped ==
    ASSUME FetchTypes, Escape
    PROVE  /\ escapes' \in [1..Urls -> Nat]
           /\ \A u \in Batch(pos) : escapes'[u] = escapes[u] + 1
           /\ \A u \in 1..Urls \ Batch(pos) : escapes'[u] = escapes[u]
           /\ Sent = pos /\ phase = "extract"
           /\ End(pos) \in pos..Urls /\ Batch(pos) = pos + 1..End(pos)
           /\ Batch(pos) \subseteq 1..Urls /\ pos \in Nat
  <1>1. /\ End(pos) \in pos..Urls
        /\ Batch(pos) = pos + 1..End(pos) /\ Batch(pos) \subseteq 1..Urls
    BY BatchesEnd DEF FetchTypes
  <1>2. escapes' = [u \in 1..Urls |-> escapes[u] + IF u \in Batch(pos) THEN 1 ELSE 0]
    BY DEF Escape
  <1>3. /\ escapes' \in [1..Urls -> Nat]
        /\ \A u \in Batch(pos) : escapes'[u] = escapes[u] + 1
        /\ \A u \in 1..Urls \ Batch(pos) : escapes'[u] = escapes[u]
    BY <1>1, <1>2 DEF FetchTypes
  <1>4. Sent = pos /\ phase = "extract" /\ pos \in Nat
    BY DEF Escape, Sent, FetchTypes
  <1> QED BY <1>1, <1>3, <1>4

\* Every step keeps the invariant, one action at a time.
LEMMA FetchStep == FetchInv /\ [FetchNext]_fetchVars => FetchInv'
  <1> SUFFICES ASSUME FetchInv, [FetchNext]_fetchVars PROVE FetchInv'
    OBVIOUS
  <1>t. FetchTypes /\ SentInv /\ WrittenInv
    BY DEF FetchInv
  <1>u. CASE UNCHANGED fetchVars
    BY <1>u DEF fetchVars, FetchInv, FetchTypes, SentInv, WrittenInv, Sent, ToWrite
  <1>1. CASE ExtractFails
    <2>1. /\ pos' = pos /\ failed' = failed \cup Batch(pos) /\ phase' = phase /\ Escape
          /\ UNCHANGED <<empty, results, target, stored, answered, missed>>
      BY <1>1 DEF ExtractFails, RestartAt
    <2>2. /\ escapes' \in [1..Urls -> Nat]
          /\ \A u \in Batch(pos) : escapes'[u] = escapes[u] + 1
          /\ \A u \in 1..Urls \ Batch(pos) : escapes'[u] = escapes[u]
          /\ Sent = pos /\ phase = "extract" /\ pos \in Nat
          /\ Batch(pos) = pos + 1..End(pos) /\ Batch(pos) \subseteq 1..Urls
      BY <1>t, <2>1, BatchIsEscaped
    <2>3. FetchTypes'
      BY <1>t, <2>1, <2>2 DEF FetchTypes
    <2>4. Sent' = pos
      BY <2>1, <2>2 DEF Sent
    <2>5. \A u \in 1..Urls :
            /\ u <= pos => escapes'[u] >= 1
            /\ u > pos /\ escapes'[u] >= 1 => u \in failed'
            /\ escapes'[u] > 1 => u \in failed'
      <3> TAKE u \in 1..Urls
      <3>1. CASE u \in Batch(pos)
        <4>1. u > pos /\ u \in failed'
          BY <2>1, <2>2, <3>1
        <4> QED BY <2>2, <4>1
      <3>2. CASE u \notin Batch(pos)
        BY <1>t, <2>1, <2>2, <3>2 DEF SentInv
      <3> QED BY <3>1, <3>2
    <2>6. \A u \in failed' : escapes'[u] >= 1
      <3> TAKE u \in failed'
      <3>1. CASE u \in Batch(pos)
        <4>1. escapes[u] \in Nat
          BY <1>t, <2>2, <3>1 DEF FetchTypes
        <4> QED BY <2>2, <3>1, <4>1
      <3>2. CASE u \notin Batch(pos)
        <4>1. u \in failed /\ u \in 1..Urls
          BY <1>t, <2>1, <3>2 DEF FetchTypes
        <4> QED BY <1>t, <2>2, <3>2, <4>1 DEF SentInv
      <3> QED BY <3>1, <3>2
    <2>7. \A u \in answered : u <= pos /\ u \notin failed'
      <3> TAKE u \in answered
      <3>1. u <= pos /\ u \notin failed
        BY <1>t, <2>2 DEF SentInv
      <3>2. u \notin Batch(pos)
        BY <2>2, <3>1
      <3> QED BY <2>1, <3>1, <3>2
    <2>8. SentInv'
      BY <2>1, <2>4, <2>5, <2>6, <2>7 DEF SentInv
    <2>9. WrittenInv'
      BY <1>t, <2>1 DEF WrittenInv, ToWrite
    <2> QED BY <2>3, <2>8, <2>9 DEF FetchInv
  <1>2. CASE Extract
    <2>1. /\ Escape /\ phase' = "write"
          /\ UNCHANGED <<empty, pos, target, stored, failed, missed>>
      BY <1>2 DEF Extract
    <2>2. PICK last \in pos..End(pos) :
            /\ results' = {u \in pos + 1..last : escapes'[u] = 1}
            /\ answered' = answered \cup results'
      BY <1>2 DEF Extract
    <2>3. /\ escapes' \in [1..Urls -> Nat]
          /\ \A u \in Batch(pos) : escapes'[u] = escapes[u] + 1
          /\ \A u \in 1..Urls \ Batch(pos) : escapes'[u] = escapes[u]
          /\ Sent = pos /\ phase = "extract" /\ pos \in Nat /\ End(pos) \in pos..Urls
          /\ Batch(pos) = pos + 1..End(pos) /\ Batch(pos) \subseteq 1..Urls
      BY <1>t, <2>1, BatchIsEscaped
    <2>4. Sent' = End(pos)
      BY <2>1 DEF Sent, End
    <2>5. \A u \in results' : u \in Batch(pos) /\ escapes[u] = 0 /\ u <= End(pos)
      <3> TAKE u \in results'
      <3>1. u \in pos + 1..last /\ escapes'[u] = 1
        BY <2>2
      <3>2. u \in Batch(pos) /\ u <= End(pos)
        BY <2>3, <3>1
      <3>3. escapes[u] \in Nat
        BY <1>t, <2>3, <3>2 DEF FetchTypes
      <3> QED BY <2>3, <3>1, <3>2, <3>3
    <2>6. FetchTypes'
      <3>1. results' \subseteq 1..Urls
        BY <2>3, <2>5
      <3> QED BY <1>t, <2>1, <2>2, <2>3, <3>1 DEF FetchTypes
    <2>7. \A u \in 1..Urls :
            /\ u <= End(pos) => escapes'[u] >= 1
            /\ u > End(pos) /\ escapes'[u] >= 1 => u \in failed
            /\ escapes'[u] > 1 => u \in failed
      <3> TAKE u \in 1..Urls
      <3>1. CASE u \in Batch(pos)
        <4>1. u > pos /\ u <= End(pos) /\ escapes[u] \in Nat
          BY <1>t, <2>3, <3>1 DEF FetchTypes
        <4>2. escapes[u] >= 1 => u \in failed
          BY <1>t, <2>3, <4>1 DEF SentInv
        <4> QED BY <2>3, <3>1, <4>1, <4>2
      <3>2. CASE u \notin Batch(pos)
        <4>1. u <= pos \/ u > End(pos)
          BY <2>3, <3>2
        <4>2. u > End(pos) => u > pos
          BY <2>3
        <4> QED BY <1>t, <2>3, <3>2, <4>1, <4>2 DEF SentInv
      <3> QED BY <3>1, <3>2
    <2>8. \A u \in failed : escapes'[u] >= 1
      <3> TAKE u \in failed
      <3>1. u \in 1..Urls /\ escapes[u] >= 1 /\ escapes[u] \in Nat
        BY <1>t DEF SentInv, FetchTypes
      <3> QED BY <2>3, <3>1
    <2>9. \A u \in answered' : u <= End(pos) /\ u \notin failed
      <3> TAKE u \in answered'
      <3>1. CASE u \in answered
        <4>1. u <= pos /\ u \notin failed /\ u \in 1..Urls
          BY <1>t, <2>3, <3>1 DEF SentInv, FetchTypes
        <4> QED BY <2>3, <4>1
      <3>2. CASE u \in results'
        <4>1. escapes[u] = 0 /\ u <= End(pos)
          BY <2>5, <3>2
        <4>2. u \notin failed
          BY <1>t, <4>1 DEF SentInv
        <4> QED BY <4>1, <4>2
      <3> QED BY <2>2, <3>1, <3>2
    <2>10. SentInv'
      BY <2>1, <2>4, <2>7, <2>8, <2>9 DEF SentInv
    <2>11. results = {} /\ target = 1 /\ target' = 1
      BY <1>t, <2>1, <2>3 DEF WrittenInv
    <2>12. \A u \in answered', k \in DOMAIN Targets :
             <<u, Targets[k]>> \in stored \cup missed \/ (u \in results' /\ k >= 1)
      <3> TAKE u \in answered', k \in DOMAIN Targets
      <3>1. k >= 1
        BY FetchIsBounded
      <3>2. CASE u \in answered
        BY <1>t, <2>11, <3>2 DEF WrittenInv, ToWrite
      <3> QED BY <2>2, <3>1, <3>2
    <2>13. WrittenInv'
      BY <1>t, <2>1, <2>2, <2>11, <2>12 DEF WrittenInv, ToWrite
    <2> QED BY <2>6, <2>10, <2>13 DEF FetchInv
  <1>3. CASE InsertRow
    <2> DEFINE m == Min(results)
               row == <<m, Targets[target]>>
    <2>1. /\ phase = "write" /\ results # {} /\ phase' = "write"
          /\ UNCHANGED <<empty, pos, escapes, failed, answered>>
          /\ \/ stored' = stored \cup {row} /\ missed' = missed
             \/ stored' = stored /\ missed' = missed \cup {row}
      BY <1>3 DEF InsertRow
    <2>2. \/ target = Len(Targets) /\ target' = 1 /\ results' = results \ {m}
          \/ target # Len(Targets) /\ target' = target + 1 /\ results' = results
      BY <1>3 DEF InsertRow
    <2>3. m \in results /\ m \in answered
      BY <1>t, <2>1, LeastUrl DEF FetchTypes, WrittenInv
    <2> HIDE DEF m
    <2>4. /\ DOMAIN Targets = 1..Len(Targets) /\ Len(Targets) \in Nat \ {0}
          /\ target \in 1..Len(Targets)
      BY <1>t, FetchIsBounded DEF FetchTypes
    <2>5. FetchTypes'
      <3>1. PICK n \in Nat \ {0} : Len(Targets) = n
        BY <2>4
      <3>2. target' \in 1..n
        <4>1. CASE target = n
          BY <2>2, <3>1, <4>1
        <4>2. CASE target # n
          BY <2>2, <2>4, <3>1, <4>2
        <4> QED BY <4>1, <4>2
      <3>3. target' \in DOMAIN Targets
        BY <2>4, <3>1, <3>2
      <3>4. results' \subseteq 1..Urls
        BY <1>t, <2>2 DEF FetchTypes
      <3> QED BY <1>t, <2>1, <3>3, <3>4 DEF FetchTypes
    <2>6. SentInv'
      BY <1>t, <2>1 DEF SentInv, Sent, End
    <2>7. \A w \in stored' : w[1] \in answered
      BY <1>t, <2>1, <2>3 DEF WrittenInv
    <2>8. \A u \in answered, k \in DOMAIN Targets :
             <<u, Targets[k]>> \in stored' \cup missed' \/ ToWrite(u, k)'
      <3> TAKE u \in answered, k \in DOMAIN Targets
      <3>1. CASE <<u, Targets[k]>> \in stored \cup missed
        BY <2>1, <3>1
      <3>2. CASE u \in results /\ (u = m => k >= target)
        <4>1. CASE u = m /\ k = target
          BY <2>1, <4>1
        <4>2. CASE u = m /\ k # target
          <5>1. k \in 1..Len(Targets) /\ k >= target
            BY <2>4, <3>2, <4>2
          <5>2. k >= target + 1 /\ target # Len(Targets)
            <6>1. PICK n \in Nat \ {0} : Len(Targets) = n
              BY <2>4
            <6>2. k \in 1..n /\ target \in 1..n /\ k >= target /\ k # target
              BY <2>4, <4>2, <5>1, <6>1
            <6>3. k >= target + 1 /\ target # n
              BY <6>2
            <6> QED BY <6>1, <6>3
          <5>3. u = Min(results) /\ results' = results /\ target' = target + 1
            BY <2>2, <4>2, <5>2 DEF m
          <5> QED BY <3>2, <5>2, <5>3 DEF ToWrite
        <4>3. CASE u # m
          <5>1. CASE target = Len(Targets)
            <6>1. u \in results' /\ target' = 1 /\ k >= 1
              BY <2>2, <2>4, <3>2, <4>3, <5>1
            <6> QED BY <6>1 DEF ToWrite
          <5>2. CASE target # Len(Targets)
            <6>1. u \in results' /\ u # Min(results')
              BY <2>2, <3>2, <4>3, <5>2 DEF m
            <6> QED BY <6>1 DEF ToWrite
          <5> QED BY <5>1, <5>2
        <4> QED BY <4>1, <4>2, <4>3
      <3> QED BY <1>t, <3>1, <3>2 DEF WrittenInv, ToWrite, m
    <2>9. results' \subseteq answered /\ (results' = {} => target' = 1)
      BY <1>t, <2>1, <2>2 DEF WrittenInv
    <2>10. WrittenInv'
      BY <1>t, <2>1, <2>7, <2>8, <2>9 DEF WrittenInv
    <2> QED BY <2>5, <2>6, <2>10 DEF FetchInv
  <1>4. CASE NextBatch
    <2>1. /\ phase = "write" /\ results = {} /\ pos' = End(pos) /\ phase' = "extract"
          /\ UNCHANGED <<empty, escapes, results, target, stored, failed, answered, missed>>
      BY <1>4 DEF NextBatch
    <2>2. End(pos) \in 0..Urls
      <3>1. pos \in 0..Urls
        BY <1>t DEF FetchTypes
      <3>2. End(pos) \in pos..Urls
        BY <3>1, BatchesEnd
      <3> QED BY <3>1, <3>2
    <2>3. Sent = End(pos) /\ Sent' = End(pos)
      BY <2>1 DEF Sent
    <2>4. FetchTypes'
      BY <1>t, <2>1, <2>2 DEF FetchTypes
    <2>5. SentInv'
      BY <1>t, <2>1, <2>3 DEF SentInv
    <2>6. WrittenInv'
      BY <1>t, <2>1 DEF WrittenInv, ToWrite
    <2> QED BY <2>4, <2>5, <2>6 DEF FetchInv
  <1>5. CASE FetchDies
    BY <1>t, <1>5 DEF FetchDies, FetchInv, FetchTypes, SentInv, WrittenInv, Sent, End, ToWrite
  <1>6. CASE FetchEnds
    BY <1>t, <1>6 DEF FetchEnds, FetchInv, FetchTypes, SentInv, WrittenInv, Sent, ToWrite
  <1> QED BY <1>u, <1>1, <1>2, <1>3, <1>4, <1>5, <1>6 DEF FetchNext

\* What the invariant says once the program has ended.
LEMMA WrittenIsFetched == FetchInv => ArticlesAreFetched
  <1> SUFFICES ASSUME FetchInv PROVE ArticlesAreFetched
    OBVIOUS
  <1>1. \A u \in 1..Urls : escapes[u] > 1 => u \in failed
    BY DEF FetchInv, SentInv
  <1>2. \A row \in stored : row[1] \notin failed
    BY DEF FetchInv, SentInv, WrittenInv
  <1>3. ASSUME phase = "done"
        PROVE  /\ \A u \in 1..Urls : escapes[u] >= 1
               /\ \A row \in TableRows : row[1] \in answered => row \in stored \cup missed
    <2>1. Sent = Urls /\ results = {}
      BY <1>3 DEF FetchInv, WrittenInv, Sent
    <2>2. \A u \in 1..Urls : escapes[u] >= 1
      BY <2>1 DEF FetchInv, SentInv
    <2>3. ASSUME NEW row \in TableRows, row[1] \in answered PROVE row \in stored \cup missed
      <3>1. PICK u \in 1..Urls, k \in DOMAIN Targets : row = <<u, Targets[k]>>
        BY DEF TableRows
      <3> QED BY <2>1, <2>3, <3>1 DEF FetchInv, WrittenInv, ToWrite
    <2> QED BY <2>2, <2>3
  <1> QED BY <1>1, <1>2, <1>3 DEF ArticlesAreFetched

-----------------------------------------------------------------------------
(***************************************************************************)
(* transfer: the windows go back without a gap, and whatever is due has    *)
(* been copied, lost, or was one too many.                                 *)
(***************************************************************************)
\* Dates are in order.
LEMMA DatesAreOrdered ==
    /\ \A a, b, c \in Dates : Before(a, b) /\ Before(b, c) => Before(a, c)
    /\ \A a, b \in Dates : Before(a, b) => ~Before(b, a)
    /\ \A a, b, c \in Dates : ~Before(b, a) /\ ~Before(c, b) => ~Before(c, a)
  <1>1. ASSUME NEW a \in Dates, NEW b \in Dates PROVE Before(a, b) => ~Before(b, a)
    BY DEF Dates, Before
  <1>2. ASSUME NEW a \in Dates, NEW b \in Dates, NEW c \in Dates
        PROVE  /\ Before(a, b) /\ Before(b, c) => Before(a, c)
               /\ ~Before(b, a) /\ ~Before(c, b) => ~Before(c, a)
    BY DEF Dates, Before
  <1> QED BY <1>1, <1>2

\* A month earlier is earlier.
LEMMA MonthsGoBack ==
    ASSUME NEW d \in Dates
    PROVE  MonthBefore(d) \in Dates /\ Before(MonthBefore(d), d)
  <1> DEFINE y == IF d[2] = 1 THEN d[1] - 1 ELSE d[1]
             m == IF d[2] = 1 THEN 12 ELSE d[2] - 1
  <1>1. DaysOf(y, m) \in Nat \ {0}
    <2>1. CASE m = 2
      BY <2>1 DEF DaysOf
    <2>2. CASE m \in {4, 6, 9, 11}
      BY <2>2 DEF DaysOf
    <2>3. CASE m # 2 /\ m \notin {4, 6, 9, 11}
      BY <2>3 DEF DaysOf
    <2> QED BY <2>1, <2>2, <2>3
  <1>2. d = <<d[1], d[2], d[3]>> /\ d[1] \in Int /\ d[2] \in Int /\ d[3] \in Int
    BY DEF Dates
  <1>3. MonthBefore(d) = IF d[3] <= DaysOf(y, m) THEN <<y, m, d[3]>>
                         ELSE <<d[1], d[2], d[3] - DaysOf(y, m)>>
    BY DEF MonthBefore
  <1>4. y \in Int /\ m \in Int /\ (y < d[1] \/ (y = d[1] /\ m < d[2]))
    BY <1>2
  <1> HIDE DEF y, m
  <1>5. CASE d[3] <= DaysOf(y, m)
    BY <1>2, <1>3, <1>4, <1>5 DEF Dates, Before
  <1>6. CASE ~(d[3] <= DaysOf(y, m))
    BY <1>1, <1>2, <1>3, <1>6 DEF Dates, Before
  <1> QED BY <1>5, <1>6

\* The ends of the windows, one month after the other.
LEMMA EndsGoBack ==
    /\ \A k \in 0..Months : Ends[k] \in Dates
    /\ Ends[0] = Latest
    /\ \A k \in 1..Months : Ends[k] = MonthBefore(Ends[k - 1])
  <1> DEFINE back == [d \in Dates |-> MonthBefore(d)]
  <1>1. back \in [Dates -> Dates]
    BY MonthsGoBack
  <1>2. \A d \in Dates : back[d] = MonthBefore(d)
    OBVIOUS
  <1> HIDE DEF back
  <1>3. PICK g \in [0..Months -> Dates] : Iterates(g, back, Latest, Months)
    <2>1. Latest \in Dates /\ Months \in Nat
      BY RowsAreTyped, TransferIsBounded
    <2> QED BY <1>1, <2>1, IterationsExist
  <1>4. \A k \in 1..Months : g[k - 1] \in Dates
    BY <1>3, TransferIsBounded
  <1>5. g = [k \in 0..Months |-> IF k = 0 THEN Latest ELSE MonthBefore(g[k - 1])]
    <2>1. \A k \in 0..Months : (IF k = 0 THEN Latest ELSE back[g[k - 1]])
                              = (IF k = 0 THEN Latest ELSE MonthBefore(g[k - 1]))
      BY <1>2, <1>4, TransferIsBounded
    <2> QED BY <1>3, <2>1, Zenon DEF Iterates
  <1>6. Ends = [k \in 0..Months |-> IF k = 0 THEN Latest ELSE MonthBefore(Ends[k - 1])]
    BY <1>5 DEF Ends
  <1>7. Ends[0] = Latest /\ \A k \in 1..Months : Ends[k] = MonthBefore(Ends[k - 1])
    BY <1>6, TransferIsBounded
  <1> DEFINE Bad == {k \in 0..Months : Ends[k] \notin Dates}
  <1>8. Bad = {}
    <2> SUFFICES ASSUME Bad # {} PROVE FALSE
      OBVIOUS
    <2>1. Bad \subseteq Nat
      OBVIOUS
    <2>2. PICK k \in Bad : \A i \in Bad : k <= i
      BY <2>1, LeastNumber
    <2>3. k # 0
      BY <1>7, <2>2, RowsAreTyped
    <2>4. k \in 1..Months /\ k - 1 \in 0..Months /\ k - 1 \notin Bad
      BY <2>2, <2>3, TransferIsBounded
    <2>5. Ends[k - 1] \in Dates
      BY <2>4
    <2>6. Ends[k] \in Dates
      BY <1>7, <2>4, <2>5, MonthsGoBack
    <2> QED BY <2>2, <2>6
  <1> QED BY <1>7, <1>8

ArticleTables == {"response", "related", "image"}

\* the tables whose rows of the window at hand have been gone through
Copied == CASE step = "response" -> {}
            [] step = "keyword" -> ArticleTables
            [] step = "entity" -> ArticleTables \cup {"keyword"}

\* the dates of the windows done, and for these tables of the one at hand
Reached(row) ==
    \/ ~Before(row.date, toDate)
    \/ row.table \in Copied /\ ~Before(row.date, fromDate)

Window(row, k) ==
    {other \in Old : /\ other.table = row.table
                     /\ ~Before(other.date, Ends[k]) /\ Before(other.date, Ends[k - 1])}

Excess(row) ==
    /\ row.table \in {"keyword", "entity"}
    /\ \E k \in 1..Months : row \in Window(row, k) /\ Cardinality(Window(row, k)) > Limit

TransferTypes ==
    /\ month \in 0..Months /\ step \in {"response", "keyword", "entity"}
    /\ new \subseteq Old /\ lapsed \subseteq Old
    /\ toDate = Ends[month] /\ fromDate = MonthBefore(toDate)
    /\ ~Before(Latest, toDate)

CopiedInv ==
    /\ \A row \in new : Before(row.date, Latest) /\ Reached(row)
    /\ \A row \in Old :
          Before(row.date, Latest) /\ Reached(row) =>
            \/ row \in new \cup lapsed
            \/ row.table = "image" /\ row.n > 0
            \/ Excess(row)

TransferInv == TransferTypes /\ CopiedInv

\* The dates of a state are dates, the window ends before it began, no later
\* than the first.
LEMMA WindowsAreDates ==
    ASSUME TransferTypes
    PROVE  /\ toDate \in Dates /\ fromDate \in Dates /\ Latest \in Dates
           /\ Before(fromDate, toDate) /\ ~Before(Latest, fromDate)
           /\ \A row \in Old : row.date \in Dates
           /\ \A row \in Old : Before(row.date, toDate) => Before(row.date, Latest)
  <1>1. toDate \in Dates /\ Latest \in Dates /\ \A row \in Old : row.date \in Dates
    BY EndsGoBack, RowsAreTyped DEF TransferTypes
  <1>2. fromDate \in Dates /\ Before(fromDate, toDate)
    BY <1>1, MonthsGoBack DEF TransferTypes
  <1>3. ~Before(Latest, toDate)
    BY DEF TransferTypes
  <1>4. ~Before(Latest, fromDate)
    BY <1>1, <1>2, <1>3, DatesAreOrdered
  <1>5. ASSUME NEW row \in Old, Before(row.date, toDate) PROVE Before(row.date, Latest)
    <2>1. row.date \in Dates /\ ~Before(toDate, row.date)
      BY <1>1, <1>5, DatesAreOrdered
    <2> DEFINE d == row.date
    <2>2. d \in Dates /\ Before(d, toDate)
      BY <1>5, <2>1
    <2> HIDE DEF d
    <2>3. Before(d, Latest)
      BY <1>1, <1>3, <2>2 DEF Dates, Before
    <2> QED BY <2>3 DEF d
  <1> QED BY <1>1, <1>2, <1>4, <1>5

\* Nothing is due before the first window.
LEMMA TransferBegins == TransferInit => TransferInv
  <1> SUFFICES ASSUME TransferInit PROVE TransferInv
    OBVIOUS
  <1>1. Latest \in Dates /\ ~Before(Latest, Latest)
    BY RowsAreTyped, DatesAreOrdered
  <1>2. TransferTypes
    BY <1>1, EndsGoBack, TransferIsBounded DEF TransferInit, TransferTypes
  <1>3. Copied = {}
    BY DEF TransferInit, Copied
  <1>4. CopiedInv
    BY <1>3 DEF TransferInit, CopiedInv, Reached
  <1> QED BY <1>2, <1>4 DEF TransferInv

\* The rows of a query are all there, or were one too many.
LEMMA RowsOfAQuery ==
    ASSUME TransferTypes, month < Months, NEW table \in {"keyword", "entity"},
           NEW some \in kSubset(Min({Limit, Cardinality(In(table))}), In(table))
    PROVE  /\ some \subseteq In(table)
           /\ \A row \in In(table) : row \in some \/ Excess(row)
  <1>1. some \subseteq In(table) /\ Cardinality(some) = Min({Limit, Cardinality(In(table))})
    BY DEF kSubset
  <1>2. IsFiniteSet(In(table)) /\ Cardinality(In(table)) \in Nat
    BY RowsAreTyped, FS_Subset, FS_CardinalityType DEF In
  <1>3. CASE Cardinality(In(table)) <= Limit
    <2> DEFINE c == Cardinality(In(table))
    <2>1. c \in Nat /\ Limit \in Nat /\ c <= Limit
      BY <1>2, <1>3, TransferIsBounded
    <2> HIDE DEF c
    <2>2. \A x \in {Limit, c} : (\A y \in {Limit, c} : x <= y) <=> x = c
      BY <2>1
    <2>3. Min({Limit, c}) = c
      BY <2>2 DEF Min
    <2>4. Cardinality(some) = Cardinality(In(table))
      BY <1>1, <2>3 DEF c
    <2>5. some = In(table)
      BY <1>1, <1>2, <2>4, FS_Subset
    <2> QED BY <1>1, <2>5
  <1>4. CASE ~(Cardinality(In(table)) <= Limit)
    <2>1. Cardinality(In(table)) > Limit
      BY <1>2, <1>4, TransferIsBounded
    <2>2. PICK k \in 1..Months : k = month + 1
      BY TransferIsBounded DEF TransferTypes
    <2>3. Ends[k - 1] = toDate /\ Ends[k] = fromDate
      <3>1. k - 1 = month
        BY <2>2 DEF TransferTypes
      <3> QED BY <2>2, <3>1, EndsGoBack DEF TransferTypes
    <2>4. ASSUME NEW row \in In(table) PROVE Excess(row)
      <3>1. row.table = table
        BY DEF In
      <3>2. Window(row, k) = In(table)
        BY <2>3, <3>1 DEF Window, In, Within
      <3> QED BY <2>1, <3>1, <3>2 DEF Excess
    <2> QED BY <1>1, <2>4
  <1> QED BY <1>3, <1>4


\* Every step keeps the invariant, one action at a time.
LEMMA TransferStep == TransferInv /\ [TransferNext]_transferVars => TransferInv'
  <1> SUFFICES ASSUME TransferInv, [TransferNext]_transferVars PROVE TransferInv'
    OBVIOUS
  <1>t. TransferTypes /\ CopiedInv
    BY DEF TransferInv
  <1>u. CASE UNCHANGED transferVars
    BY <1>u DEF transferVars, TransferInv, TransferTypes, CopiedInv, Reached, Copied
  <1>d. /\ toDate \in Dates /\ fromDate \in Dates /\ Latest \in Dates
        /\ Before(fromDate, toDate) /\ ~Before(Latest, fromDate)
        /\ \A row \in Old : row.date \in Dates
        /\ \A row \in Old : Before(row.date, toDate) => Before(row.date, Latest)
    BY <1>t, WindowsAreDates
  <1>q. ASSUME NEW these, these \subseteq Old, Copy(these)
        PROVE  /\ lapsed' \subseteq Old /\ new' \subseteq Old
               /\ new \subseteq new' /\ new' \subseteq new \cup these
               /\ new \cup lapsed \cup these \subseteq new' \cup lapsed'
    BY <1>q, <1>t DEF Copy, TransferTypes
  <1>w. ASSUME NEW table, NEW row \in In(table)
        PROVE  row \in Old /\ row.table = table /\ ~Before(row.date, fromDate)
               /\ Before(row.date, Latest)
    BY <1>d DEF In, Within
  <1>1. CASE CopyResponses
    <2> DEFINE due == In("response") \cup In("related") \cup {row \in In("image") : row.n = 0}
    <2>1. /\ step = "response" /\ step' = "keyword" /\ month' = month
          /\ fromDate' = fromDate /\ toDate' = toDate /\ Copy(due)
      BY <1>1 DEF CopyResponses
    <2>2. due \subseteq Old
      BY DEF In
    <2>3. \A row \in due : Before(row.date, Latest) /\ row.table \in ArticleTables
                           /\ ~Before(row.date, fromDate)
      BY <1>w DEF ArticleTables
    <2>4. \A row \in Old : row.table \in ArticleTables /\ Within(row.date) =>
                              row \in due \/ (row.table = "image" /\ row.n > 0)
      BY RowsAreTyped DEF ArticleTables, In
    <2> HIDE DEF due
    <2>5. /\ lapsed' \subseteq Old /\ new' \subseteq Old
          /\ new \subseteq new' /\ new' \subseteq new \cup due
          /\ new \cup lapsed \cup due \subseteq new' \cup lapsed'
      BY <1>q, <2>1, <2>2
    <2>6. Copied = {} /\ Copied' = ArticleTables
      BY <2>1 DEF Copied
    <2>7. TransferTypes'
      BY <1>t, <2>1, <2>5 DEF TransferTypes
    <2>8. \A row \in new' : Before(row.date, Latest) /\ Reached(row)'
      BY <1>t, <2>1, <2>3, <2>5, <2>6 DEF CopiedInv, Reached
    <2>9. ASSUME NEW row \in Old, Before(row.date, Latest), Reached(row)'
          PROVE  \/ row \in new' \cup lapsed'
                 \/ row.table = "image" /\ row.n > 0
                 \/ Excess(row)
      <3>1. CASE ~Before(row.date, toDate)
        BY <1>t, <2>5, <2>9, <3>1 DEF CopiedInv, Reached
      <3>2. CASE Before(row.date, toDate)
        <4>1. row.table \in ArticleTables /\ Within(row.date)
          BY <2>1, <2>6, <2>9, <3>2 DEF Reached, Within
        <4> QED BY <2>4, <2>5, <4>1
      <3> QED BY <3>1, <3>2
    <2> QED BY <2>7, <2>8, <2>9 DEF TransferInv, CopiedInv, Excess, Window
  <1>2. CASE CopyKeywords
    <2>1. /\ step = "keyword" /\ step' = "entity" /\ month' = month /\ month < Months
          /\ fromDate' = fromDate /\ toDate' = toDate
      BY <1>2 DEF CopyKeywords
    <2>2. PICK due \in kSubset(Min({Limit, Cardinality(In("keyword"))}), In("keyword")) : Copy(due)
      BY <1>2 DEF CopyKeywords
    <2>3. due \subseteq In("keyword") /\ \A row \in In("keyword") : row \in due \/ Excess(row)
      BY <1>t, <2>1, <2>2, RowsOfAQuery
    <2>4. due \subseteq Old
      BY <2>3 DEF In
    <2>5. /\ lapsed' \subseteq Old /\ new' \subseteq Old
          /\ new \subseteq new' /\ new' \subseteq new \cup due
          /\ new \cup lapsed \cup due \subseteq new' \cup lapsed'
      BY <1>q, <2>2, <2>4
    <2>6. Copied = ArticleTables /\ Copied' = ArticleTables \cup {"keyword"}
      BY <2>1 DEF Copied
    <2>7. TransferTypes'
      BY <1>t, <2>1, <2>5 DEF TransferTypes
    <2>8. \A row \in new' : Before(row.date, Latest) /\ Reached(row)'
      <3> TAKE row \in new'
      <3>1. CASE row \in new
        BY <1>t, <2>1, <2>6, <3>1 DEF CopiedInv, Reached
      <3>2. CASE row \in due
        <4>1. row.table = "keyword" /\ ~Before(row.date, fromDate) /\ Before(row.date, Latest)
          BY <1>w, <2>3, <3>2
        <4> QED BY <2>1, <2>6, <4>1 DEF Reached
      <3> QED BY <2>5, <3>1, <3>2
    <2>9. ASSUME NEW row \in Old, Before(row.date, Latest), Reached(row)'
          PROVE  \/ row \in new' \cup lapsed'
                 \/ row.table = "image" /\ row.n > 0
                 \/ Excess(row)
      <3>1. CASE Reached(row)
        BY <1>t, <2>5, <2>9, <3>1 DEF CopiedInv
      <3>2. CASE ~Reached(row)
        <4>1. row \in In("keyword")
          BY <2>1, <2>6, <2>9, <3>2 DEF Reached, In, Within
        <4> QED BY <2>3, <2>5, <4>1
      <3> QED BY <3>1, <3>2
    <2> QED BY <2>7, <2>8, <2>9 DEF TransferInv, CopiedInv, Excess, Window
  <1>3. CASE CopyEntities
    <2>1. /\ step = "entity" /\ step' = "response" /\ month' = month + 1 /\ month < Months
          /\ fromDate' = MonthBefore(fromDate) /\ toDate' = fromDate
      BY <1>t, <1>3 DEF CopyEntities, TransferTypes
    <2>2. PICK due \in kSubset(Min({Limit, Cardinality(In("entity"))}), In("entity")) : Copy(due)
      BY <1>3 DEF CopyEntities
    <2>3. due \subseteq In("entity") /\ \A row \in In("entity") : row \in due \/ Excess(row)
      BY <1>t, <2>1, <2>2, RowsOfAQuery
    <2>4. due \subseteq Old
      BY <2>3 DEF In
    <2>5. /\ lapsed' \subseteq Old /\ new' \subseteq Old
          /\ new \subseteq new' /\ new' \subseteq new \cup due
          /\ new \cup lapsed \cup due \subseteq new' \cup lapsed'
      BY <1>q, <2>2, <2>4
    <2>6. Copied = ArticleTables \cup {"keyword"} /\ Copied' = {}
      BY <2>1 DEF Copied
    <2>7. TransferTypes'
      <3>1. PICK k \in 1..Months : k = month + 1
        BY <1>t, <2>1, TransferIsBounded DEF TransferTypes
      <3>2. k - 1 = month /\ k \in 0..Months
        BY <1>t, <3>1 DEF TransferTypes
      <3>3. Ends[k] = MonthBefore(Ends[month])
        BY <3>2, EndsGoBack
      <3> QED BY <1>t, <1>d, <2>1, <2>5, <3>1, <3>2, <3>3 DEF TransferTypes
    <2>8. \A row \in Old : Before(row.date, fromDate) => Before(row.date, toDate)
      BY <1>d, DatesAreOrdered
    <2>9. \A row \in new' : Before(row.date, Latest) /\ Reached(row)'
      <3> TAKE row \in new'
      <3>1. CASE row \in new
        <4>1. row \in Old /\ Before(row.date, Latest) /\ Reached(row)
          BY <1>t, <3>1 DEF CopiedInv, TransferTypes
        <4>2. ~Before(row.date, fromDate)
          BY <2>8, <4>1 DEF Reached
        <4> QED BY <2>1, <4>1, <4>2 DEF Reached
      <3>2. CASE row \in due
        <4>1. ~Before(row.date, fromDate) /\ Before(row.date, Latest)
          BY <1>w, <2>3, <3>2
        <4> QED BY <2>1, <4>1 DEF Reached
      <3> QED BY <2>5, <3>1, <3>2
    <2>10. ASSUME NEW row \in Old, Before(row.date, Latest), Reached(row)'
           PROVE  \/ row \in new' \cup lapsed'
                  \/ row.table = "image" /\ row.n > 0
                  \/ Excess(row)
      <3>1. CASE Reached(row)
        BY <1>t, <2>5, <2>10, <3>1 DEF CopiedInv
      <3>2. CASE ~Reached(row)
        <4>1. row.table \in ArticleTables \cup {"keyword", "entity"}
          BY RowsAreTyped DEF ArticleTables
        <4>2. ~Before(row.date, fromDate)
          BY <2>1, <2>6, <2>10 DEF Reached
        <4>3. row \in In("entity")
          BY <2>6, <3>2, <4>1, <4>2 DEF Reached, In, Within
        <4> QED BY <2>3, <2>5, <4>3
      <3> QED BY <3>1, <3>2
    <2> QED BY <2>7, <2>9, <2>10 DEF TransferInv, CopiedInv, Excess, Window
  <1> QED BY <1>u, <1>1, <1>2, <1>3 DEF TransferNext

\* What the invariant says between two windows.
LEMMA ReachedIsCopied == TransferInv => RowsAreCopied
  <1> SUFFICES ASSUME TransferInv, step = "response", NEW row \in Old
               PROVE  IF ~Before(row.date, toDate) /\ Before(row.date, Latest)
                      THEN \/ row \in new \cup lapsed
                           \/ row.table = "image" /\ row.n > 0
                           \/ Excess(row)
                      ELSE row \notin new
    BY DEF RowsAreCopied, Excess, Window
  <1>1. Copied = {}
    BY DEF Copied
  <1>2. Reached(row) <=> ~Before(row.date, toDate)
    BY <1>1 DEF Reached
  <1>3. CASE ~Before(row.date, toDate) /\ Before(row.date, Latest)
    BY <1>2, <1>3 DEF TransferInv, CopiedInv
  <1>4. CASE ~(~Before(row.date, toDate) /\ Before(row.date, Latest))
    BY <1>2, <1>4 DEF TransferInv, CopiedInv
  <1> QED BY <1>3, <1>4

-----------------------------------------------------------------------------
\* The run's model has every part by itself: a behaviour of it is one of each of
\* them, which steps or stays as it is.
LEMMA PartsBehave ==
    Spec => SearchSpec /\ CorrelationsSpec /\ FetchSpec /\ TransferSpec /\ CacheSpec
  <1>1. Init => SearchInit /\ CorrelationsInit /\ FetchInit /\ TransferInit /\ CacheInit
    BY DEF Init, Idle
  <1>2. [Next]_allVars => /\ [SearchNext]_searchVars
                          /\ [CorrelationsNext]_correlationVars
                          /\ [FetchNext]_fetchVars
                          /\ [TransferNext]_transferVars
                          /\ [CacheNext]_cacheVars
    BY DEF Next, allVars, searchVars, correlationVars, fetchVars, transferVars, cacheVars
  <1> QED BY <1>1, <1>2, PTL DEF Spec, SearchSpec, CorrelationsSpec, FetchSpec, TransferSpec,
                                CacheSpec

\* Whatever of the extraction, of the inserts or of the program fails, a batch
\* that did not fail has every article it was answered with in every table.
THEOREM ArticlesFetched == FetchSpec => []ArticlesAreFetched
  BY FetchBegins, FetchStep, WrittenIsFetched, PTL DEF FetchSpec

\* Whatever fails, every row of the months gone through is copied but for second
\* images, what a failure lost and what a window has beyond its limit.
THEOREM RowsCopied == TransferSpec => []RowsAreCopied
  BY TransferBegins, TransferStep, ReachedIsCopied, PTL DEF TransferSpec

\* newsfetch and transfer, as the parts of the run's model.
THEOREM NewsIsComplete == Spec => []NewsArrives
  <1>1. ArticlesAreFetched /\ RowsAreCopied => NewsArrives
    BY DEF NewsArrives
  <1> QED BY <1>1, PartsBehave, ArticlesFetched, RowsCopied, PTL

-----------------------------------------------------------------------------
(***************************************************************************)
(* ChartCache: an entry that nothing has damaged lacks only what one of    *)
(* the requests that fill it still has to add.                             *)
(***************************************************************************)
ChartEntries == (UNION {ChartsOfKey(k) \cup Plotted(k) : k \in Keys}) \X BOOLEAN

CacheTypes ==
    /\ cache \in [Keys -> {NoEntry} \cup SUBSET ChartEntries]
    /\ ask \in [Viewers -> Seq(Keys)] /\ todo \in [Viewers -> Seq(Keys)]
    /\ at \in [Viewers -> {"arrive", "answered", "refused", "died"} \cup Busy]
    /\ DOMAIN rows = Viewers /\ rows = [r \in Viewers |-> rows[r]]
    /\ \A r \in Viewers : /\ at[r] \in {"put", "fill"} => todo[r] # <<>>
                          /\ at[r] = "arrive" => ask[r] = <<>>

\* what a request is through with is there, or was damaged
ThroughInv ==
    \A r \in Viewers : at[r] \in Busy =>
        \A k \in ToSet(ask[r]) : k \in ToSet(todo[r]) \/ Present(k) \/ k \in spoilt

\* chart n of k is there, with all its values
Has(k, n) == <<n, TRUE>> \in cache[k]

FilledAt(k) ==
    cache[k] # NoEntry =>
        /\ cache[k] \subseteq ChartsOfKey(k) \X {TRUE}
        /\ \/ \A n \in ChartsOfKey(k) : Has(k, n)
           \/ \E r \in Filling(k) : \A n \in ChartsOfKey(k) : Has(k, n) \/ n \in rows[r]

FilledInv == \A k \in Keys \ spoilt : FilledAt(k)

\* the charts that a request still adds are charts of its key
RowsInv == \A r \in Viewers : at[r] = "fill" => rows[r] \subseteq ChartsOfKey(Doing(r))

CacheInv == CacheTypes /\ RowsInv /\ ThroughInv /\ FilledInv

\* An entry is no mark of its absence.
LEMMA EntriesAreNone ==
    /\ {} # NoEntry
    /\ \A S : S \subseteq ChartEntries => S # NoEntry
    /\ \A S \in {NoEntry} \cup SUBSET ChartEntries, e \in ChartEntries :
         S # NoEntry => S \cup {e} # NoEntry
  <1>1. \A e \in ChartEntries : e # <<"none">>
    BY DEF ChartEntries
  <1> QED BY <1>1 DEF NoEntry

\* The keys to do are keys; all but the first of them are left.
LEMMA NextKey ==
    ASSUME NEW s \in Seq(Keys), s # <<>>
    PROVE  /\ Head(s) \in Keys /\ Tail(s) \in Seq(Keys)
           /\ Head(s) \in ToSet(s)
           /\ \A k \in ToSet(s) : k = Head(s) \/ k \in ToSet(Tail(s))
  <1>1. Head(s) \in Keys /\ Tail(s) \in Seq(Keys) /\ Len(s) \in Nat \ {0}
    OBVIOUS
  <1>2. Head(s) = s[1] /\ 1 \in DOMAIN s
    OBVIOUS
  <1>3. ASSUME NEW i \in DOMAIN s, i # 1 PROVE s[i] \in ToSet(Tail(s))
    <2>1. i - 1 \in DOMAIN Tail(s) /\ Tail(s)[i - 1] = s[i]
      BY <1>3
    <2> QED BY <2>1 DEF ToSet
  <1> QED BY <1>1, <1>2, <1>3 DEF ToSet

\* Only a crash takes an entry away: what is there or damaged stays so.
LEMMA PresentStays ==
    ASSUME CacheTypes, spoilt \subseteq spoilt',
           \A k \in Keys : cache[k] # NoEntry => cache'[k] # NoEntry
    PROVE  \A k \in Keys : Present(k) => Present(k)'
  BY KeysAreListed DEF Present

\* A request goes on with its keys.
LEMMA ThroughStays ==
    ASSUME CacheInv, NEW r \in Viewers, NEW d, ask' = ask, at[r] \in Busy, spoilt \subseteq spoilt',
           \A k \in Keys : cache[k] # NoEntry => cache'[k] # NoEntry,
           \A q \in Viewers \ {r} : at'[q] = at[q] /\ todo'[q] = todo[q],
           \/ todo'[r] = todo[r]
           \/ /\ todo[r] # <<>> /\ todo'[r] = Tail(todo[r])
              /\ d = Doing(r) /\ (Present(d)' \/ d \in spoilt')
    PROVE  ThroughInv'
  <1> SUFFICES ASSUME NEW q \in Viewers, at'[q] \in Busy, NEW k \in ToSet(ask[q])
               PROVE  k \in ToSet(todo'[q]) \/ Present(k)' \/ k \in spoilt'
    BY DEF ThroughInv
  <1>1. at[q] \in Busy
    OBVIOUS
  <1>2. k \in Keys /\ todo[q] \in Seq(Keys)
    BY DEF CacheInv, CacheTypes, ToSet
  <1>3. k \in ToSet(todo[q]) \/ Present(k) \/ k \in spoilt
    BY <1>1 DEF CacheInv, ThroughInv
  <1>4. Present(k) => Present(k)'
    BY <1>2, PresentStays DEF CacheInv
  <1>5. CASE todo'[q] = todo[q]
    BY <1>3, <1>4, <1>5
  <1>6. CASE todo'[q] # todo[q]
    <2>1. q = r /\ todo[r] # <<>> /\ todo'[r] = Tail(todo[r])
      BY <1>6
    <2>2. k \in ToSet(todo[q]) => k = Doing(q) \/ k \in ToSet(todo'[q])
      BY <1>2, <2>1, NextKey DEF Doing
    <2>3. k = Doing(q) => Present(k)' \/ k \in spoilt'
      BY <1>6, <2>1
    <2> QED BY <1>3, <1>4, <2>2, <2>3
  <1> QED BY <1>5, <1>6

\* The map is empty and nothing is asked for.
LEMMA CacheBegins == CacheInit => CacheInv
  <1> SUFFICES ASSUME CacheInit PROVE CacheInv
    OBVIOUS
  <1>1. CacheTypes
    BY DEF CacheInit, CacheTypes, Busy
  <1>2. ThroughInv
    BY DEF CacheInit, ThroughInv, Busy
  <1>3. FilledInv /\ RowsInv
    BY DEF CacheInit, FilledInv, FilledAt, RowsInv
  <1> QED BY <1>1, <1>2, <1>3 DEF CacheInv


\* An entry stays as it is for a step of a request that does not fill it.
LEMMA OthersStay ==
    ASSUME CacheInv, NEW r \in Viewers, NEW k \in Keys \ spoilt, cache'[k] = cache[k],
           \A q \in Viewers \ {r} : at'[q] = at[q] /\ todo'[q] = todo[q] /\ rows'[q] = rows[q],
           r \notin Filling(k), r \notin Filling(k)'
    PROVE  FilledAt(k)'
  <1>1. FilledAt(k)
    BY DEF CacheInv, FilledInv
  <1>2. \A q \in Viewers \ {r} : q \in Filling(k) <=> q \in Filling(k)'
    BY DEF Filling, Doing
  <1>3. Filling(k)' = Filling(k) /\ \A q \in Filling(k) : q # r /\ rows'[q] = rows[q]
    BY <1>2 DEF Filling
  <1> QED BY <1>1, <1>3 DEF FilledAt, Has

\* The charts to add are of a key for a step of a request that knows its own.
LEMMA RowsStay ==
    ASSUME CacheInv, NEW r \in Viewers,
           \A q \in Viewers \ {r} : at'[q] = at[q] /\ todo'[q] = todo[q] /\ rows'[q] = rows[q],
           at'[r] = "fill" => rows'[r] \subseteq ChartsOfKey(Head(todo'[r]))
    PROVE  RowsInv'
  BY DEF CacheInv, RowsInv, Doing

\* A step that leaves the map and the keys of the others alone.
LEMMA QuietStep ==
    ASSUME CacheInv, NEW r \in Viewers, cache' = cache, spoilt \subseteq spoilt',
           \A q \in Viewers \ {r} : at'[q] = at[q] /\ todo'[q] = todo[q] /\ rows'[q] = rows[q],
           at'[r] # "fill",
           at[r] # "fill" \/ Doing(r) \in spoilt'
    PROVE  FilledInv' /\ RowsInv'
  <1>1. RowsInv'
    BY RowsStay
  <1>2. ASSUME NEW k \in Keys \ spoilt' PROVE FilledAt(k)'
    <2>1. r \notin Filling(k) /\ r \notin Filling(k)'
      BY <1>2 DEF Filling
    <2> QED BY <2>1, OthersStay
  <1> QED BY <1>1, <1>2 DEF FilledInv

\* Every step keeps the invariant, one action at a time.
LEMMA CacheStep == CacheInv /\ [CacheNext]_cacheVars => CacheInv'
  <1> SUFFICES ASSUME CacheInv, [CacheNext]_cacheVars PROVE CacheInv'
    OBVIOUS
  <1>t. CacheTypes /\ RowsInv /\ ThroughInv /\ FilledInv
    BY DEF CacheInv
  <1>u. CASE UNCHANGED cacheVars
    BY <1>u DEF cacheVars, CacheInv, CacheTypes, RowsInv, ThroughInv, FilledInv, FilledAt, Has,
                Filling, Doing, Present
  <1>k. ASSUME NEW r \in Viewers, at[r] \in {"put", "fill"} \/ todo[r] # <<>>
        PROVE  /\ todo[r] \in Seq(Keys) /\ todo[r] # <<>> /\ Doing(r) \in Keys
               /\ Tail(todo[r]) \in Seq(Keys)
    BY <1>k, <1>t, NextKey DEF CacheTypes, Doing
  <1>1. ASSUME NEW r \in Viewers, Ask(r) PROVE CacheInv'
    <2>1. /\ at[r] = "arrive" /\ UNCHANGED <<cache, rows, spoilt>> /\ ask[r] = <<>>
      BY <1>1, <1>t DEF Ask, CacheTypes
    <2>2. CASE \E want \in {Related} \cup {<<k>> : k \in Wanted} :
                 /\ ask' = [ask EXCEPT ![r] = want] /\ todo' = [todo EXCEPT ![r] = want]
                 /\ To(r, "check")
      <3>1. PICK want \in {Related} \cup {<<k>> : k \in Wanted} :
                 /\ ask' = [ask EXCEPT ![r] = want] /\ todo' = [todo EXCEPT ![r] = want]
                 /\ at' = [at EXCEPT ![r] = "check"]
        BY <2>2 DEF To
      <3>2. want \in Seq(Keys)
        <4>1. CASE want = Related
          BY <4>1, KeysAreListed
        <4>2. CASE want # Related
          <5>1. PICK k \in Keys : want = <<k>>
            BY <4>2, KeysAreListed
          <5> QED BY <5>1
        <4> QED BY <4>1, <4>2
      <3>3. CacheTypes'
        BY <1>t, <2>1, <3>1, <3>2 DEF CacheTypes, Busy
      <3>4. ThroughInv'
        BY <1>t, <2>1, <3>1 DEF CacheTypes, ThroughInv, Present, Busy
      <3>5. FilledInv' /\ RowsInv'
        BY <1>t, <2>1, <3>1, QuietStep DEF CacheTypes
      <3> QED BY <3>3, <3>4, <3>5 DEF CacheInv
    <2>3. CASE (To(r, "check") \/ To(r, "died")) /\ UNCHANGED <<ask, todo>>
      <3>1. PICK place \in {"check", "died"} : at' = [at EXCEPT ![r] = place]
        BY <2>3 DEF To
      <3>3. CacheTypes'
        BY <1>t, <2>1, <2>3, <3>1 DEF CacheTypes, Busy
      <3>4. ThroughInv'
        <4>1. ToSet(ask[r]) = {}
          BY <2>1 DEF ToSet
        <4> QED BY <1>t, <2>1, <2>3, <3>1, <4>1 DEF CacheTypes, ThroughInv, Present, Busy
      <3>5. FilledInv' /\ RowsInv'
        BY <1>t, <2>1, <2>3, <3>1, QuietStep DEF CacheTypes
      <3> QED BY <3>3, <3>4, <3>5 DEF CacheInv
    <2> QED BY <1>1, <2>2, <2>3 DEF Ask
  <1>2. ASSUME NEW r \in Viewers, Check(r) PROVE CacheInv'
    <2>1. /\ at[r] = "check" /\ todo[r] # <<>> /\ UNCHANGED <<cache, ask, rows, spoilt>>
          /\ todo[r] \in Seq(Keys) /\ Tail(todo[r]) \in Seq(Keys)
      BY <1>2, <1>k DEF Check
    <2>2. PICK place \in {"check", "put"} :
             /\ at' = [at EXCEPT ![r] = place]
             /\ \/ todo' = todo
                \/ place = "check" /\ todo' = [todo EXCEPT ![r] = Tail(@)] /\ Present(Doing(r))
      BY <1>2 DEF Check, Advance, To
    <2>3. CacheTypes'
      BY <1>t, <2>1, <2>2 DEF CacheTypes, Busy
    <2>4. ThroughInv'
      <3>1. PICK d : d = Doing(r)
        OBVIOUS
      <3>2. Present(d) => Present(d)'
        BY <2>1 DEF Present
      <3>3. /\ \A q \in Viewers \ {r} : at'[q] = at[q] /\ todo'[q] = todo[q]
            /\ \/ todo'[r] = todo[r]
               \/ todo'[r] = Tail(todo[r]) /\ Present(d)
        BY <1>t, <2>2, <3>1 DEF CacheTypes
      <3>4. at[r] \in Busy
        BY <2>1 DEF Busy
      <3> QED BY <2>1, <3>1, <3>2, <3>3, <3>4, ThroughStays
    <2>5. FilledInv' /\ RowsInv'
      BY <1>t, <2>1, <2>2, QuietStep DEF CacheTypes
    <2> QED BY <2>3, <2>4, <2>5 DEF CacheInv
  <1>3. ASSUME NEW r \in Viewers, QueryFails(r) PROVE CacheInv'
    <2>1. /\ at[r] = "put" /\ UNCHANGED <<cache, ask, rows>>
          /\ spoilt' = spoilt \cup {Doing(r)}
          /\ at' = [at EXCEPT ![r] = "check"] /\ todo' = [todo EXCEPT ![r] = Tail(@)]
      BY <1>3 DEF QueryFails, Damage, Advance, To
    <2>2. todo[r] # <<>> /\ Tail(todo[r]) \in Seq(Keys)
      BY <1>k, <2>1
    <2>3. CacheTypes'
      BY <1>t, <2>1, <2>2 DEF CacheTypes, Busy
    <2>4. ThroughInv'
      <3>1. PICK d : d = Doing(r) /\ d \in spoilt'
        BY <2>1
      <3>2. /\ \A q \in Viewers \ {r} : at'[q] = at[q] /\ todo'[q] = todo[q]
            /\ todo'[r] = Tail(todo[r]) /\ at[r] \in Busy
        BY <1>t, <2>1 DEF CacheTypes, Busy
      <3> QED BY <2>1, <2>2, <3>1, <3>2, ThroughStays
    <2>5. FilledInv' /\ RowsInv'
      BY <1>t, <2>1, QuietStep DEF CacheTypes
    <2> QED BY <2>3, <2>4, <2>5 DEF CacheInv

  <1>4. ASSUME NEW r \in Viewers, Put(r) PROVE CacheInv'
    <2>1. PICK d \in Keys : d = Doing(r)
      BY <1>4, <1>k DEF Put
    <2>2. /\ at[r] = "put" /\ UNCHANGED <<ask, told>>
          /\ \/ cache' = [cache EXCEPT ![d] = {}] /\ spoilt' = spoilt
             \/ cache' = cache /\ spoilt' = spoilt \cup {d}
          /\ rows' = [rows EXCEPT ![r] = ChartsOfKey(d)]
      BY <1>4, <2>1 DEF Put, Damage
    <2>3. \/ /\ ChartsOfKey(d) = {} /\ at' = [at EXCEPT ![r] = "check"]
             /\ todo' = [todo EXCEPT ![r] = Tail(@)]
          \/ at' = [at EXCEPT ![r] = "fill"] /\ todo' = todo
      BY <1>4, <2>1 DEF Put, Advance, To
    <2>4. todo[r] # <<>> /\ Tail(todo[r]) \in Seq(Keys)
      BY <1>k, <2>2
    <2>5. cache' \in [Keys -> {NoEntry} \cup SUBSET ChartEntries]
      BY <1>t, <2>2 DEF CacheTypes
    <2>6. CacheTypes'
      <3>1. todo' \in [Viewers -> Seq(Keys)] /\ ask' \in [Viewers -> Seq(Keys)]
        BY <1>t, <2>2, <2>3, <2>4 DEF CacheTypes
      <3>2. at' \in [Viewers -> {"arrive", "answered", "refused", "died"} \cup Busy]
        BY <1>t, <2>3 DEF CacheTypes, Busy
      <3>3. DOMAIN rows' = Viewers /\ rows' = [q \in Viewers |-> rows'[q]]
        BY <1>t, <2>2 DEF CacheTypes
      <3>4. ASSUME NEW q \in Viewers
            PROVE  /\ at'[q] \in {"put", "fill"} => todo'[q] # <<>>
                   /\ at'[q] = "arrive" => ask'[q] = <<>>
        BY <1>t, <2>2, <2>3, <2>4 DEF CacheTypes
      <3> QED BY <2>5, <3>1, <3>2, <3>3, <3>4 DEF CacheTypes
    <2>7. /\ \A k \in Keys : cache[k] # NoEntry => cache'[k] # NoEntry
          /\ Present(d)' \/ d \in spoilt'
      <3>1. CASE cache' = [cache EXCEPT ![d] = {}]
        <4>1. cache'[d] = {} /\ \A k \in Keys \ {d} : cache'[k] = cache[k]
          BY <1>t, <3>1 DEF CacheTypes
        <4> QED BY <4>1, EntriesAreNone DEF Present
      <3>2. CASE cache' = cache /\ spoilt' = spoilt \cup {d}
        BY <3>2
      <3> QED BY <2>2, <3>1, <3>2
    <2>8. \A q \in Viewers \ {r} : at'[q] = at[q] /\ todo'[q] = todo[q] /\ rows'[q] = rows[q]
      BY <1>t, <2>2, <2>3 DEF CacheTypes
    <2>9. ThroughInv'
      <3>1. \/ todo'[r] = todo[r]
            \/ todo'[r] = Tail(todo[r])
        BY <1>t, <2>3 DEF CacheTypes
      <3>2. at[r] \in Busy /\ spoilt \subseteq spoilt'
        BY <2>2 DEF Busy
      <3> QED BY <2>1, <2>2, <2>4, <2>7, <2>8, <3>1, <3>2, ThroughStays
    <2>10. ASSUME NEW k \in Keys \ spoilt' PROVE FilledAt(k)'
      <3>1. CASE k = d
        <4>1. cache'[k] = {}
          BY <1>t, <2>2, <2>10, <3>1 DEF CacheTypes
        <4>2. rows'[r] = ChartsOfKey(k)
          BY <1>t, <2>2, <3>1 DEF CacheTypes
        <4>3. CASE ChartsOfKey(d) = {}
          BY <3>1, <4>1, <4>3 DEF FilledAt
        <4>4. CASE at' = [at EXCEPT ![r] = "fill"] /\ todo' = todo
          <5>1. r \in Filling(k)'
            BY <1>t, <2>1, <3>1, <4>4 DEF Filling, Doing, CacheTypes
          <5> QED BY <4>1, <4>2, <5>1 DEF FilledAt
        <4> QED BY <2>3, <4>3, <4>4
      <3>2. CASE k # d
        <4>1. cache'[k] = cache[k] /\ k \notin spoilt
          BY <1>t, <2>2, <3>2 DEF CacheTypes
        <4>2. r \notin Filling(k)
          BY <2>2 DEF Filling
        <4>3. r \notin Filling(k)'
          BY <1>t, <2>1, <2>3, <3>2 DEF Filling, Doing, CacheTypes
        <4> QED BY <2>8, <4>1, <4>2, <4>3, OthersStay
      <3> QED BY <3>1, <3>2
    <2>11. RowsInv'
      <3>1. at'[r] = "fill" => rows'[r] \subseteq ChartsOfKey(Head(todo'[r]))
        BY <1>t, <2>1, <2>2, <2>3 DEF CacheTypes, Doing
      <3> QED BY <2>8, <3>1, RowsStay
    <2> QED BY <2>6, <2>9, <2>10, <2>11 DEF CacheInv, FilledInv
  <1>5. ASSUME NEW r \in Viewers, Fill(r) PROVE CacheInv'
    <2>1. PICK d \in Keys : d = Doing(r)
      BY <1>5, <1>k DEF Fill
    <2>2. PICK n \in rows[r] :
            /\ rows' = [rows EXCEPT ![r] = @ \ {n}]
            /\ \/ cache' = [cache EXCEPT ![d] = @ \cup {<<n, TRUE>>}] /\ spoilt' = spoilt
               \/ cache' = cache /\ spoilt' = spoilt \cup {d}
            /\ \/ /\ rows[r] = {n} /\ at' = [at EXCEPT ![r] = "check"]
                  /\ todo' = [todo EXCEPT ![r] = Tail(@)]
               \/ /\ rows[r] # {n} /\ at' = [at EXCEPT ![r] = "fill"] /\ todo' = todo
      BY <1>5, <2>1 DEF Fill, Damage, Advance, To
    <2>3. at[r] = "fill" /\ cache[d] # NoEntry /\ ask' = ask /\ n \in ChartsOfKey(d)
      BY <1>5, <1>t, <2>1, <2>2 DEF Fill, RowsInv
    <2>4. todo[r] # <<>> /\ Tail(todo[r]) \in Seq(Keys)
      BY <1>k, <2>3
    <2>5. <<n, TRUE>> \in ChartEntries
      BY <2>3 DEF ChartEntries
    <2>6. cache' \in [Keys -> {NoEntry} \cup SUBSET ChartEntries]
      <3>1. cache[d] \cup {<<n, TRUE>>} \in SUBSET ChartEntries
        BY <1>t, <2>3, <2>5 DEF CacheTypes
      <3> QED BY <1>t, <2>2, <3>1 DEF CacheTypes
    <2>7. CacheTypes'
      BY <1>t, <2>2, <2>3, <2>4, <2>6 DEF CacheTypes, Busy
    <2>8. \A q \in Viewers \ {r} : at'[q] = at[q] /\ todo'[q] = todo[q] /\ rows'[q] = rows[q]
      BY <1>t, <2>2 DEF CacheTypes
    <2>9. /\ \A k \in Keys : cache[k] # NoEntry => cache'[k] # NoEntry
          /\ cache'[d] # NoEntry
      <3>1. CASE cache' = [cache EXCEPT ![d] = @ \cup {<<n, TRUE>>}]
        <4>1. /\ cache'[d] = cache[d] \cup {<<n, TRUE>>}
              /\ \A k \in Keys \ {d} : cache'[k] = cache[k]
              /\ cache[d] \in {NoEntry} \cup SUBSET ChartEntries
          BY <1>t, <3>1 DEF CacheTypes
        <4>2. cache'[d] # NoEntry
          BY <2>3, <2>5, <4>1, EntriesAreNone
        <4> QED BY <4>1, <4>2
      <3>2. CASE cache' = cache
        BY <2>3, <3>2
      <3> QED BY <2>2, <3>1, <3>2
    <2>10. ThroughInv'
      <3>1. todo'[r] = todo[r] \/ todo'[r] = Tail(todo[r])
        BY <1>t, <2>2 DEF CacheTypes
      <3>2. at[r] \in Busy /\ spoilt \subseteq spoilt'
        BY <2>2, <2>3 DEF Busy
      <3>3. Present(d)'
        BY <2>9 DEF Present
      <3> QED BY <2>1, <2>3, <2>4, <2>8, <2>9, <3>1, <3>2, <3>3, ThroughStays
    <2>11. RowsInv'
      <3>1. at'[r] = "fill" => rows'[r] \subseteq ChartsOfKey(Head(todo'[r]))
        BY <1>t, <2>1, <2>2, <2>3 DEF CacheTypes, RowsInv, Doing
      <3> QED BY <2>8, <3>1, RowsStay
    <2>12. ASSUME NEW k \in Keys \ spoilt' PROVE FilledAt(k)'
      <3>1. CASE k # d
        <4>1. cache'[k] = cache[k] /\ k \notin spoilt
          BY <1>t, <2>2, <2>12, <3>1 DEF CacheTypes
        <4>2. r \notin Filling(k)
          BY <2>1, <3>1 DEF Filling
        <4>3. r \notin Filling(k)'
          BY <1>t, <2>1, <2>2, <3>1 DEF Filling, Doing, CacheTypes
        <4> QED BY <2>8, <4>1, <4>2, <4>3, OthersStay
      <3>2. CASE k = d
        <4>1. k \notin spoilt /\ cache'[k] = cache[k] \cup {<<n, TRUE>>}
          BY <1>t, <2>2, <2>12, <3>2 DEF CacheTypes
        <4>2. FilledAt(k)
          BY <1>t, <4>1 DEF FilledInv
        <4>3. cache'[k] \subseteq ChartsOfKey(k) \X {TRUE}
          <5>1. cache[k] \subseteq ChartsOfKey(k) \X {TRUE}
            BY <2>3, <3>2, <4>2 DEF FilledAt
          <5>2. <<n, TRUE>> \in ChartsOfKey(k) \X {TRUE}
            BY <2>3, <3>2
          <5> HIDE <3>2
          <5> QED BY <4>1, <5>1, <5>2
        <4>4. Has(k, n)' /\ \A m \in ChartsOfKey(k) : Has(k, m) => Has(k, m)'
          BY <4>1 DEF Has
        <4>5. CASE \A m \in ChartsOfKey(k) : Has(k, m)
          BY <4>3, <4>4, <4>5 DEF FilledAt
        <4>6. CASE \E q \in Filling(k) : \A m \in ChartsOfKey(k) : Has(k, m) \/ m \in rows[q]
          <5>1. PICK q \in Filling(k) : \A m \in ChartsOfKey(k) : Has(k, m) \/ m \in rows[q]
            BY <4>6
          <5>2. q \in Viewers
            BY DEF Filling
          <5>3. CASE q # r
            <6>1. q \in Filling(k)' /\ rows'[q] = rows[q]
              BY <2>8, <5>1, <5>2, <5>3 DEF Filling, Doing
            <6> QED BY <4>3, <4>4, <5>1, <6>1 DEF FilledAt
          <5>4. CASE q = r
            <6>1. CASE rows[r] = {n}
              BY <4>3, <4>4, <5>1, <5>4, <6>1 DEF FilledAt
            <6>2. CASE rows[r] # {n}
              <7>1. at' = [at EXCEPT ![r] = "fill"] /\ todo' = todo
                BY <2>2, <6>2
              <7>2. r \in Filling(k)' /\ rows'[r] = rows[r] \ {n}
                BY <1>t, <2>1, <2>2, <3>2, <7>1 DEF Filling, Doing, CacheTypes
              <7> QED BY <4>3, <4>4, <5>1, <5>4, <7>2 DEF FilledAt
            <6> QED BY <6>1, <6>2
          <5> QED BY <5>3, <5>4
        <4> QED BY <2>3, <3>2, <4>2, <4>5, <4>6 DEF FilledAt
      <3> QED BY <3>1, <3>2
    <2> QED BY <2>7, <2>10, <2>11, <2>12 DEF CacheInv, FilledInv
  <1>6. ASSUME NEW r \in Viewers, RowsEnd(r) PROVE CacheInv'
    <2>1. PICK d \in Keys : d = Doing(r)
      BY <1>6, <1>k DEF RowsEnd
    <2>2. /\ at[r] = "fill" /\ cache[d] # NoEntry /\ ask' = ask
          /\ spoilt' = spoilt \cup {d} /\ rows' = [rows EXCEPT ![r] = {}]
          /\ at' = [at EXCEPT ![r] = "check"] /\ todo' = [todo EXCEPT ![r] = Tail(@)]
          /\ \/ cache' = cache
             \/ Plotted(d) = {0} /\ cache' = [cache EXCEPT ![d] = @ \cup {<<0, FALSE>>}]
      BY <1>6, <2>1 DEF RowsEnd, Damage, Advance, To
    <2>3. todo[r] # <<>> /\ Tail(todo[r]) \in Seq(Keys)
      BY <1>k, <2>2
    <2>4. Plotted(d) = {0} => <<0, FALSE>> \in ChartEntries
      <3>1. Plotted(d) = {0} => 0 \in UNION {ChartsOfKey(k) \cup Plotted(k) : k \in Keys}
        <4>1. Plotted(d) = {0} => 0 \in ChartsOfKey(d) \cup Plotted(d)
          OBVIOUS
        <4> QED BY <4>1, d \in Keys, Zenon
      <3> QED BY <3>1 DEF ChartEntries
    <2>5. cache' \in [Keys -> {NoEntry} \cup SUBSET ChartEntries]
      <3>1. Plotted(d) = {0} => cache[d] \cup {<<0, FALSE>>} \in SUBSET ChartEntries
        BY <1>t, <2>2, <2>4 DEF CacheTypes
      <3> QED BY <1>t, <2>2, <3>1 DEF CacheTypes
    <2>6. CacheTypes'
      BY <1>t, <2>2, <2>3, <2>5 DEF CacheTypes, Busy
    <2>7. \A q \in Viewers \ {r} : at'[q] = at[q] /\ todo'[q] = todo[q] /\ rows'[q] = rows[q]
      BY <1>t, <2>2 DEF CacheTypes
    <2>8. /\ \A k \in Keys \ {d} : cache'[k] = cache[k]
          /\ cache'[d] # NoEntry
      <3>1. CASE cache' = cache
        BY <2>2, <3>1
      <3>2. CASE Plotted(d) = {0} /\ cache' = [cache EXCEPT ![d] = @ \cup {<<0, FALSE>>}]
        <4>1. /\ cache'[d] = cache[d] \cup {<<0, FALSE>>}
              /\ cache[d] \in {NoEntry} \cup SUBSET ChartEntries
          BY <1>t, <3>2 DEF CacheTypes
        <4>2. cache'[d] # NoEntry
          BY <2>2, <2>4, <3>2, <4>1, EntriesAreNone
        <4> QED BY <1>t, <3>2, <4>2 DEF CacheTypes
      <3> QED BY <2>2, <3>1, <3>2
    <2>9. ThroughInv'
      <3>1. todo'[r] = Tail(todo[r])
        BY <1>t, <2>2 DEF CacheTypes
      <3>2. at[r] \in Busy /\ d \in spoilt'
        BY <2>2 DEF Busy
      <3>3. \A k \in Keys : cache[k] # NoEntry => cache'[k] # NoEntry
        BY <2>8
      <3> QED BY <2>1, <2>2, <2>3, <2>7, <3>1, <3>2, <3>3, ThroughStays
    <2>10. RowsInv'
      <3>1. at'[r] # "fill"
        BY <1>t, <2>2 DEF CacheTypes
      <3> QED BY <2>7, <3>1, RowsStay
    <2>11. ASSUME NEW k \in Keys \ spoilt' PROVE FilledAt(k)'
      <3>1. k # d /\ cache'[k] = cache[k] /\ k \notin spoilt
        BY <2>2, <2>8, <2>11
      <3>2. r \notin Filling(k) /\ r \notin Filling(k)'
        BY <1>t, <2>1, <2>2, <3>1 DEF Filling, CacheTypes
      <3> QED BY <2>7, <3>1, <3>2, OthersStay
    <2> QED BY <2>6, <2>9, <2>10, <2>11 DEF CacheInv, FilledInv
  <1>f. ASSUME NEW r \in Viewers, Finish(r) PROVE CacheInv'
    <2>1. PICK d \in Keys : d = Doing(r)
      BY <1>f, <1>k DEF Finish
    <2>2. /\ at[r] = "fill" /\ rows[r] = {} /\ cache[d] # NoEntry
          /\ UNCHANGED <<cache, ask, rows, spoilt>>
          /\ at' = [at EXCEPT ![r] = "check"] /\ todo' = [todo EXCEPT ![r] = Tail(@)]
      BY <1>f, <2>1 DEF Finish, Advance, To
    <2>3. todo[r] # <<>> /\ Tail(todo[r]) \in Seq(Keys)
      BY <1>k, <2>2
    <2>4. CacheTypes'
      BY <1>t, <2>2, <2>3 DEF CacheTypes, Busy
    <2>5. /\ \A q \in Viewers \ {r} : at'[q] = at[q] /\ todo'[q] = todo[q] /\ rows'[q] = rows[q]
          /\ at'[r] = "check" /\ todo'[r] = Tail(todo[r]) /\ at[r] \in Busy
      BY <1>t, <2>2 DEF CacheTypes, Busy
    <2>6. ThroughInv'
      <3>1. Present(d)'
        BY <2>2 DEF Present
      <3> QED BY <2>1, <2>2, <2>3, <2>5, <3>1, ThroughStays
    <2>7. RowsInv'
      BY <2>5, RowsStay
    <2>8. ASSUME NEW k \in Keys \ spoilt' PROVE FilledAt(k)'
      <3>1. k \in Keys \ spoilt /\ cache'[k] = cache[k]
        BY <2>2, <2>8
      <3>2. r \notin Filling(k)'
        BY <2>5 DEF Filling
      <3>3. CASE r \notin Filling(k)
        BY <2>5, <3>1, <3>2, <3>3, OthersStay
      <3>4. CASE r \in Filling(k)
        <4>1. /\ cache[k] # NoEntry => cache[k] \subseteq ChartsOfKey(k) \X {TRUE}
              /\ cache[k] # NoEntry =>
                   \/ \A n \in ChartsOfKey(k) : Has(k, n)
                   \/ \E q \in Filling(k) \ {r} : \A n \in ChartsOfKey(k) : Has(k, n) \/ n \in rows[q]
          BY <1>t, <2>2, <3>1 DEF FilledInv, FilledAt
        <4>2. \A q \in Filling(k) \ {r} : q \in Filling(k)' /\ rows'[q] = rows[q]
          BY <2>5 DEF Filling, Doing
        <4>3. \A n : Has(k, n)' = Has(k, n)
          BY <3>1 DEF Has
        <4> QED BY <3>1, <4>1, <4>2, <4>3 DEF FilledAt
      <3> QED BY <3>3, <3>4
    <2> QED BY <2>4, <2>6, <2>7, <2>8 DEF CacheInv, FilledInv
  <1>7. ASSUME NEW r \in Viewers, Panic(r) PROVE CacheInv'
    <2>1. /\ at[r] = "fill" /\ UNCHANGED <<cache, ask, todo>>
          /\ spoilt' = spoilt \cup {Doing(r)} /\ rows' = [rows EXCEPT ![r] = {}]
          /\ at' = [at EXCEPT ![r] = "died"]
      BY <1>7 DEF Panic, Damage, To
    <2>2. Doing(r) \in Keys
      BY <1>k, <2>1
    <2>3. CacheTypes'
      BY <1>t, <2>1, <2>2 DEF CacheTypes, Busy
    <2>4. /\ at'[r] = "died" /\ at[r] \in Busy
          /\ \A q \in Viewers \ {r} : at'[q] = at[q] /\ todo'[q] = todo[q] /\ rows'[q] = rows[q]
      BY <1>t, <2>1 DEF CacheTypes, Busy
    <2>5. FilledInv' /\ RowsInv'
      BY <2>1, <2>4, QuietStep
    <2>6. ThroughInv'
      BY <2>1, <2>4, ThroughStays
    <2> QED BY <2>3, <2>5, <2>6 DEF CacheInv
  <1>8. ASSUME NEW r \in Viewers, Collect(r) PROVE CacheInv'
    <2>1. /\ at[r] = "check" /\ UNCHANGED <<cache, ask, todo, rows, spoilt>>
      BY <1>8 DEF Collect
    <2>2. PICK place \in {"answered", "refused"} : at' = [at EXCEPT ![r] = place]
      BY <1>8, Zenon DEF Collect, To
    <2>3. CacheTypes'
      BY <1>t, <2>1, <2>2 DEF CacheTypes, Busy
    <2>4. /\ at'[r] # "fill" /\ at[r] \in Busy
          /\ \A q \in Viewers \ {r} : at'[q] = at[q] /\ todo'[q] = todo[q] /\ rows'[q] = rows[q]
      BY <1>t, <2>1, <2>2 DEF CacheTypes, Busy
    <2>5. FilledInv' /\ RowsInv'
      BY <2>1, <2>4, QuietStep
    <2>6. ThroughInv'
      BY <2>1, <2>4, ThroughStays
    <2> QED BY <2>3, <2>5, <2>6 DEF CacheInv
  <1>9. CASE Crash
    <2>1. /\ cache' = [k \in Keys |-> NoEntry] /\ spoilt' = {}
          /\ at' = [r \in Viewers |-> IF at[r] \in Busy THEN "died" ELSE at[r]]
          /\ rows' = [r \in Viewers |-> {}] /\ UNCHANGED <<ask, todo>>
      BY <1>9 DEF Crash
    <2>2. \A r \in Viewers : at'[r] \notin Busy /\ (at'[r] = "arrive" => at[r] = "arrive")
      BY <1>t, <2>1 DEF CacheTypes, Busy
    <2>3. CacheTypes'
      BY <1>t, <2>1, <2>2 DEF CacheTypes, Busy
    <2>4. ThroughInv' /\ RowsInv'
      BY <2>2 DEF ThroughInv, RowsInv, Busy
    <2>5. FilledInv'
      BY <2>1 DEF FilledInv, FilledAt
    <2> QED BY <2>3, <2>4, <2>5 DEF CacheInv
  <1> QED BY <1>u, <1>1, <1>2, <1>3, <1>4, <1>5, <1>6, <1>f, <1>7, <1>8, <1>9 DEF CacheNext

\* Answers are told to requests.
ToldInv == DOMAIN told = Viewers

\* No step is told to anybody else.
LEMMA ToldStays == ToldInv /\ [CacheNext]_cacheVars => ToldInv'
  <1> SUFFICES ASSUME ToldInv, [CacheNext]_cacheVars PROVE DOMAIN told' = DOMAIN told
    BY DEF ToldInv
  <1>1. ASSUME NEW r \in Viewers, Collect(r) PROVE DOMAIN told' = DOMAIN told
    <2>1. told' = told \/ \E S : told' = [told EXCEPT ![r] = S]
      BY <1>1, Zenon DEF Collect
    <2> QED BY <2>1
  <1>2. ASSUME NEW r \in Viewers,
               \/ Ask(r) \/ Check(r) \/ QueryFails(r) \/ Put(r) \/ Fill(r)
               \/ Finish(r) \/ RowsEnd(r) \/ Panic(r) \/ Crash
        PROVE  told' = told
    BY <1>2 DEF Ask, Check, QueryFails, Put, Fill, Finish, RowsEnd, Panic, Crash
  <1>3. CASE Crash
    BY <1>3 DEF Crash
  <1> QED BY <1>1, <1>2, <1>3 DEF CacheNext, cacheVars

\* What a request is told, if its keys are through.
LEMMA ToldIsWhole ==
    ASSUME CacheInv, ToldInv, NEW r \in Viewers, Collect(r), NEW k \in ToSet(ask[r]),
           k \notin spoilt, Filling(k) = {},
           ~(k.type = "bubble" /\ cache[Swapped(k)] # NoEntry),
           NEW whole, whole = {<<Shown(k, n), TRUE>> : n \in ChartsOfKey(k)}
    PROVE  whole \subseteq told'[r] \/ (Len(ask[r]) = 1 /\ told'[r] \in {{e} : e \in whole})
  <1> DEFINE entered(l) == IF cache[l] = NoEntry THEN {} ELSE cache[l]
             views(l) == {<<Shown(l, e[1]), e[2]>> : e \in entered(l)}
  <1>1. k \in Keys /\ ask[r] \in Seq(Keys)
    BY DEF CacheInv, CacheTypes, ToSet
  <1>2. cache[k] # NoEntry
    <2>1. at[r] \in Busy /\ ToSet(todo[r]) = {}
      BY DEF Collect, Busy, ToSet
    <2>2. Present(k)
      BY <2>1 DEF CacheInv, ThroughInv
    <2> QED BY <2>2 DEF Present
  <1>3. /\ cache[k] \subseteq ChartsOfKey(k) \X {TRUE}
        /\ \A n \in ChartsOfKey(k) : <<n, TRUE>> \in cache[k]
    BY <1>1, <1>2 DEF CacheInv, FilledInv, FilledAt, Has
  <1>4. views(k) = whole
    <2>1. ASSUME NEW e \in cache[k] PROVE <<Shown(k, e[1]), e[2]>> \in whole
      <3>1. e \in ChartsOfKey(k) \X {TRUE}
        BY <1>3
      <3>2. e[1] \in ChartsOfKey(k) /\ e[2] \in {TRUE}
        BY <3>1
      <3> QED BY <3>2, Zenon
    <2>2. ASSUME NEW n \in ChartsOfKey(k) PROVE <<Shown(k, n), TRUE>> \in views(k)
      <3>1. <<n, TRUE>> \in cache[k]
        BY <1>3
      <3>2. PICK e \in cache[k] : e = <<n, TRUE>>
        BY <3>1
      <3>3. <<Shown(k, e[1]), e[2]>> \in views(k) /\ e[1] = n /\ e[2] = TRUE
        BY <1>2, <3>2
      <3> QED BY <3>3
    <2> QED BY <1>2, <2>1, <2>2
  <1>5. /\ Len(ask[r]) # 1 => told' = [told EXCEPT ![r] = UNION {views(l) : l \in Keys}]
        /\ Len(ask[r]) = 1 => \/ views(ask[r][1]) = {} /\ told' = told
                              \/ \E e \in views(ask[r][1]) : told' = [told EXCEPT ![r] = {e}]
    BY Zenon DEF Collect
  <1> HIDE DEF views
  <1>6. CASE Len(ask[r]) # 1
    <2>1. told'[r] = UNION {views(l) : l \in Keys}
      BY <1>5, <1>6 DEF ToldInv
    <2> QED BY <1>1, <1>4, <2>1
  <1>7. CASE Len(ask[r]) = 1
    <2>1. k = ask[r][1]
      BY <1>1, <1>7 DEF ToSet
    <2>2. CASE views(k) = {}
      BY <1>4, <2>2
    <2>3. CASE \E e \in views(k) : told' = [told EXCEPT ![r] = {e}]
      BY <1>4, <1>7, <2>3 DEF ToldInv
    <2> QED BY <1>5, <1>7, <2>1, <2>2, <2>3
  <1> QED BY <1>6, <1>7

\* Only an answer takes a request from its keys to an answer.
LEMMA AnswersCollect ==
    ASSUME CacheTypes, [CacheNext]_cacheVars, NEW r \in Viewers,
           at[r] = "check", at'[r] \in {"answered", "refused"}
    PROVE  Collect(r)
  <1>1. ~UNCHANGED cacheVars /\ ~Crash
    BY DEF cacheVars, Crash, Busy
  <1>2. PICK q \in Viewers :
           \/ Ask(q) \/ Check(q) \/ QueryFails(q) \/ Put(q) \/ Fill(q)
           \/ Finish(q) \/ RowsEnd(q) \/ Panic(q) \/ Collect(q)
    BY <1>1 DEF CacheNext
  <1>3. \E place : at' = [at EXCEPT ![q] = place]
    BY <1>2, Zenon DEF Ask, Check, QueryFails, Put, Fill, Finish, RowsEnd, Panic, Collect,
                         Advance, To
  <1>4. q = r
    BY <1>3 DEF CacheTypes
  <1>5. /\ ~Ask(r) /\ ~QueryFails(r) /\ ~Put(r) /\ ~Fill(r) /\ ~Finish(r)
        /\ ~RowsEnd(r) /\ ~Panic(r)
    BY DEF Ask, QueryFails, Put, Fill, Finish, RowsEnd, Panic
  <1>6. ~Check(r)
    BY DEF Check, Advance, To, CacheTypes
  <1> QED BY <1>2, <1>4, <1>5, <1>6

\* A request is shown every chart that it asked for, but for what another one
\* is filling, a failure or a race has damaged, or a bubble has exchanged.
THEOREM ChartsShown == CacheSpec => ChartsAreShown
  <1> DEFINE whole(k) == {<<Shown(k, n), TRUE>> : n \in ChartsOfKey(k)}
             Answered ==
               \A r \in Viewers : at[r] = "check" /\ at'[r] \in {"answered", "refused"} =>
                 \A k \in ToSet(ask[r]) :
                   \/ k \in spoilt \/ Filling(k) # {}
                   \/ k.type = "bubble" /\ cache[Swapped(k)] # NoEntry
                   \/ whole(k) \subseteq told'[r]
                   \/ Len(ask[r]) = 1 /\ told'[r] \in {{e} : e \in whole(k)}
  <1>1. CacheInit => CacheInv /\ ToldInv
    BY CacheBegins DEF CacheInit, ToldInv
  <1>2. CacheInv /\ ToldInv /\ [CacheNext]_cacheVars => CacheInv' /\ ToldInv'
    BY CacheStep, ToldStays
  <1>3. CacheInv /\ ToldInv /\ [CacheNext]_cacheVars => Answered
    <2> SUFFICES ASSUME CacheInv, ToldInv, [CacheNext]_cacheVars, NEW r \in Viewers,
                        at[r] = "check", at'[r] \in {"answered", "refused"},
                        NEW k \in ToSet(ask[r]), k \notin spoilt, Filling(k) = {},
                        ~(k.type = "bubble" /\ cache[Swapped(k)] # NoEntry)
                 PROVE  \/ whole(k) \subseteq told'[r]
                        \/ Len(ask[r]) = 1 /\ told'[r] \in {{e} : e \in whole(k)}
      OBVIOUS
    <2>1. Collect(r)
      BY AnswersCollect DEF CacheInv
    <2> QED BY <2>1, ToldIsWhole
  <1> QED BY <1>1, <1>2, <1>3, PTL DEF CacheSpec, ChartsAreShown
=============================================================================
