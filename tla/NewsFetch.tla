------------------------------ MODULE NewsFetch ------------------------------
(***************************************************************************)
(* newsfetch: the urls of a day are sent to an extraction service, a batch *)
(* at a time, and its answers are written to the tables of Cassandra.      *)
(* After a failure the program starts again at the batch that failed, with *)
(* the list as it is: extract escapes the urls of a batch in place, and    *)
(* again when the batch is sent again.                                     *)
(*                                                                         *)
(* A url is its place in the list, counted from 1; pos counts from 0.  The *)
(* service undoes one escape: a url escaped twice is none that it knows.   *)
(***************************************************************************)
EXTENDS Integers, Sequences, FiniteSets, FiniteSetsExt

CONSTANTS
    Urls,      \* how many there are
    Size,      \* urls of a batch
    Targets,   \* the tables that an article goes to, in order
    Attempts,  \* bound: batches sent altogether
    Misses     \* bound: inserts that fail

ASSUME FetchIsBounded ==
    /\ Urls \in Nat /\ Size \in Nat \ {0}
    /\ DOMAIN Targets = 1..Len(Targets) /\ Len(Targets) \in Nat \ {0}
    /\ Attempts \in Nat /\ Misses \in Nat

VARIABLES
    empty,     \* urls that are empty
    pos,       \* the batch that Extract is at
    escapes,   \* how often a url has been escaped, and sent
    results,   \* the urls of the answer whose articles are still to be written, in order
    target,    \* the table that is next
    phase,
    stored,    \* the rows of Cassandra: url and table
    tries,     \* bound: batches sent
    failed,    \* history: urls whose batch has failed
    answered,  \* history: urls of which the service sent the article
    missed     \* history: rows whose insert failed

fetchVars == <<empty, pos, escapes, results, target, phase, stored, tries, failed, answered, missed>>

TableRows == (1..Urls) \X {Targets[k] : k \in DOMAIN Targets}

FetchTypeOK ==
    /\ pos \in 0..Urls /\ phase \in {"extract", "write", "done", "died"}
    /\ empty \subseteq 1..Urls /\ escapes \in [1..Urls -> 0..Attempts]
    /\ results \subseteq 1..Urls /\ Cardinality(results) <= Size /\ target \in DOMAIN Targets
    /\ stored \cup missed \subseteq TableRows

FetchInit ==
    /\ empty \in {{}} \cup {{u} : u \in 1..Urls}
    /\ pos = 0 /\ escapes = [u \in 1..Urls |-> 0]
    /\ results = {} /\ target = 1 /\ phase = "extract" /\ stored = {}
    /\ tries = 0 /\ failed = {} /\ answered = {} /\ missed = {}

-----------------------------------------------------------------------------
End(p) == Min({Urls, p + Size})
Batch(p) == p + 1..End(p)

\* slip: Extract returns no position, and main starts over
FromStart(p) == 0

\* Extract returns the position of the batch that failed, and main starts there
RestartAt(p) == p

\* the call of extract, as far as it always goes
Escape ==
    /\ phase = "extract" /\ pos < Urls
    /\ tries < Attempts /\ tries' = tries + 1
    /\ escapes' = [u \in 1..Urls |-> escapes[u] + IF u \in Batch(pos) THEN 1 ELSE 0]

\* an empty url, a request that fails, or an answer that cannot be read
ExtractFails ==
    /\ Escape
    /\ pos' = RestartAt(pos) /\ failed' = failed \cup Batch(pos)
    /\ UNCHANGED <<empty, results, target, phase, stored, answered, missed>>

\* the answer has a result for each url, or for fewer; of one that the service
\* does not know it has no article
Extract ==
    /\ Escape /\ Batch(pos) \cap empty = {}
    /\ \E last \in pos..End(pos) :
         /\ results' = {u \in pos + 1..last : escapes'[u] = 1}
         /\ answered' = answered \cup results'
    /\ phase' = "write"
    /\ UNCHANGED <<empty, pos, target, stored, failed, missed>>

\* writeToCass: the next insert; its error is printed
InsertRow ==
    /\ phase = "write" /\ results # {}
    /\ LET row == <<Min(results), Targets[target]>>
       IN  \/ stored' = stored \cup {row} /\ UNCHANGED missed
           \/ /\ Cardinality(missed \cup {row}) <= Misses
              /\ missed' = missed \cup {row} /\ UNCHANGED stored
    /\ IF target = Len(Targets) THEN target' = 1 /\ results' = results \ {Min(results)}
       ELSE target' = target + 1 /\ UNCHANGED results
    /\ UNCHANGED <<empty, pos, escapes, phase, tries, failed, answered>>

NextBatch ==
    /\ phase = "write" /\ results = {}
    /\ pos' = End(pos) /\ phase' = "extract"
    /\ UNCHANGED <<empty, escapes, results, target, stored, tries, failed, answered, missed>>

\* without a connection to Cassandra writeToCass panics
FetchDies ==
    /\ phase = "write" /\ results # {} /\ target = 1 /\ phase' = "died"
    /\ UNCHANGED <<empty, pos, escapes, results, target, stored, tries, failed, answered, missed>>

FetchEnds ==
    /\ phase = "extract" /\ pos = Urls /\ phase' = "done"
    /\ UNCHANGED <<empty, pos, escapes, results, target, stored, tries, failed, answered, missed>>

FetchNext == ExtractFails \/ Extract \/ InsertRow \/ NextBatch \/ FetchDies \/ FetchEnds

FetchSpec == FetchInit /\ [][FetchNext]_fetchVars

-----------------------------------------------------------------------------
\* A failure costs only the batch it hits: no other url is sent twice, and when
\* the program ends every url has been sent and every article that came back is
\* in every table, but for inserts that failed.  Of a batch that did fail nothing
\* ever arrives, however often it is sent.
ArticlesAreFetched ==
    /\ \A u \in 1..Urls : escapes[u] > 1 => u \in failed
    /\ \A row \in stored : row[1] \notin failed
    /\ phase = "done" =>
         /\ \A u \in 1..Urls : escapes[u] >= 1
         /\ \A row \in TableRows : row[1] \in answered => row \in stored \cup missed
=============================================================================
