--------------------------- MODULE ChartDiscovery ---------------------------
(***************************************************************************)
(* Charts and who discovered them: GetChart and GetChartCorrelated, whose  *)
(* first viewer becomes the discoverer, and CreditChart.  As in            *)
(* ObservationCredits a step is one SQL statement of one request, requests *)
(* run concurrently on several nodes, and a row is named after the request *)
(* that inserted it; a row that was there from the start, after its chart. *)
(*                                                                         *)
(* The rating of a row is left out: it is a function of the two counters,  *)
(* always written with them.                                               *)
(***************************************************************************)
EXTENDS Integers, FiniteSets

CONSTANTS
    Users,        \* uids of priv_users
    Nobody,       \* uid 0
    TableCharts,  \* charts of one table, known by their relation_id
    Correlated,   \* correlated charts, known by their correlation_id
    NoChart,      \* neither id set
    Requests,     \* HTTP requests, each handled once
    NoRow,        \* no such row
    Zero,         \* discovered_id 0, of a struct that was not found
    Outsiders,    \* users with a credit row of discovered_id 0: the rows
                  \* that CreditObservation writes
    Workers,      \* bound: requests in progress at a time
    Faulty        \* requests whose statements may fail

Charts == TableCharts \cup Correlated
DiscoveredIds == Charts \cup Requests

Discovered ==
    [chart : Charts \cup {NoChart}, uid : Users \cup {Nobody},
     credited : Nat, discredited : Nat]
Credit == [did : DiscoveredIds, uid : Users, up : BOOLEAN]

ASSUME UsersAreUsers == Users # {} /\ Nobody \notin Users /\ Outsiders \subseteq Users
ASSUME IdsAreDistinct ==
    /\ TableCharts \cap Correlated = {} /\ NoChart \notin Charts
    /\ Charts \cap Requests = {} /\ Zero \notin DiscoveredIds
ASSUME RequestsAreFinite == IsFiniteSet(Requests)
ASSUME NoRowIsNoRow == NoRow \notin Discovered \cup Credit \cup Requests
ASSUME BoundsAreTyped == Workers \in Nat /\ Faulty \subseteq Requests

VARIABLES
    \* the database
    table,       \* priv_discovered: id -> row
    credits,     \* priv_credits: id -> row
    reputation,  \* priv_users.reputation
    activity,    \* priv_activity, by the request that wrote it
    \* the requests
    call,        \* what the request asks for; never changes
    pc,          \* the statement it is at
    did,         \* discovered.DiscoveredId
    copy,        \* the other columns of its local Discovered struct
    seen,        \* the reputation it has read
    mine,        \* the credit row it has found
    answer,      \* what a view has put in its PatternInfo
    \* history
    saved        \* votes whose whole-row Save of a chart succeeded

database == <<table, credits, reputation, activity>>
locals == <<did, copy, seen, mine, answer>>
vars == <<database, call, pc, locals, saved>>

Calls == [op : {"view"}, uid : Users, chart : Charts]
           \cup [op : {"credit"}, uid : Users, chart : Charts, up : BOOLEAN]

Op(r) == call[r].op
InTable(r) == call[r].chart \in TableCharts

discCredit == 15
discDiscredit == -2
Points(r) == IF call[r].up THEN discCredit ELSE discDiscredit

\* a struct nothing was read into
Empty == [chart |-> NoChart, uid |-> Nobody, credited |-> 0, discredited |-> 0]

\* what Discover saves
NewDiscovery(chart, u) == [Empty EXCEPT !.chart = chart, !.uid = u]

\* slip: a vote counts in both directions
CountedTwice(row, up) ==
    [row EXCEPT !.credited = @ + 1, !.discredited = @ + 1]

\* slip: a discredit takes a credit back
TakenBack(row, up) == [row EXCEPT !.credited = IF up THEN @ + 1 ELSE @ - 1]

Counted(row, up) ==
    IF up THEN [row EXCEPT !.credited = @ + 1] ELSE [row EXCEPT !.discredited = @ + 1]

\* slip: the struct takes the uid of the voter
Claimed(r) == [Counted(copy[r], call[r].up) EXCEPT !.uid = call[r].uid]

\* the struct CreditChart saves
Voted(r) == Counted(copy[r], call[r].up)

\* slip: charts that have no row share the ones without a chart
MatchingOrphans(c) == {d \in DiscoveredIds : table[d] # NoRow /\ table[d].chart \in {c, NoChart}}

\* the rows a look-up by chart may return: Find takes any
Matching(c) == {d \in DiscoveredIds : table[d] # NoRow /\ table[d].chart = c}

\* slip: the look-up does not ask for the user
AnyoneOn(d, u) == {q \in Requests : credits[q] # NoRow /\ credits[q].did = d}

CreditsOf(d, u) ==
    {q \in Requests : credits[q] # NoRow /\ credits[q].did = d /\ credits[q].uid = u}

\* the users and directions of the credit rows of an id
Creditors(d) ==
    IF d = Zero THEN Outsiders \X {TRUE}
    ELSE {<<credits[q].uid, credits[q].up>> :
            q \in {p \in Requests : credits[p] # NoRow /\ credits[p].did = d}}

\* the rows that Model(&creditchk).Update writes: the one of its key; a struct
\* without its key, and no Where, puts no condition on the UPDATE
Updated(key) == IF key = NoRow THEN {q \in Requests : credits[q] # NoRow} ELSE {key}

-----------------------------------------------------------------------------
Ended == {"done", "refused", "failed"}
ViewSteps == {"discover", "creditors", "again", "own"}
CreditSteps == {"repRead", "repWrite", "activity", "save", "find", "insert", "update"}
Steps == ViewSteps \cup CreditSteps

InFlight == {r \in Requests : pc[r] \in Steps}

NoAnswer == [did |-> Zero, discoverer |-> Nobody, creditors |-> {}]

TypeOK ==
    /\ table \in [DiscoveredIds -> Discovered \cup {NoRow}]
    /\ credits \in [Requests -> Credit \cup {NoRow}]
    /\ reputation \in [Users -> Int]
    /\ activity \subseteq Requests
    /\ call \in [Requests -> Calls]
    /\ pc \in [Requests -> {"arrive"} \cup Steps \cup Ended]
    /\ did \in [Requests -> DiscoveredIds \cup {Zero}]
    /\ copy \in [Requests -> Discovered]
    /\ seen \in [Requests -> Int]
    /\ mine \in [Requests -> Requests \cup {NoRow}]
    /\ answer \in [Requests -> [did : DiscoveredIds \cup {Zero},
                                discoverer : Users \cup {Nobody},
                                creditors : SUBSET (Users \X BOOLEAN)]]
    /\ saved \subseteq Requests

Init ==
    /\ \E author \in [Charts -> Users \cup {Nobody}] :
         table = [d \in DiscoveredIds |->
                    IF d \in Charts /\ author[d] # Nobody
                    THEN NewDiscovery(d, author[d]) ELSE NoRow]
    /\ credits = [q \in Requests |-> NoRow]
    /\ reputation = [u \in Users |-> 0]
    /\ activity = {}
    /\ call \in [Requests -> Calls]
    /\ pc = [r \in Requests |-> "arrive"]
    /\ did = [r \in Requests |-> Zero]
    /\ copy = [r \in Requests |-> Empty]
    /\ seen = [r \in Requests |-> 0]
    /\ mine = [r \in Requests |-> NoRow]
    /\ answer = [r \in Requests |-> NoAnswer]
    /\ saved = {}

Goto(r, step) == pc' = [pc EXCEPT ![r] = step]

\* the request moves on and nothing else changes
Skip(r, step) == Goto(r, step) /\ UNCHANGED <<database, call, locals, saved>>

Arrives(r) == pc[r] = "arrive" /\ Cardinality(InFlight) < Workers

\* read a row into the local struct
Load(r, d, row) == did' = [did EXCEPT ![r] = d] /\ copy' = [copy EXCEPT ![r] = row]

\* GetChart, GetChartCorrelated: look for the row of the chart.  Neither looks
\* at an error other than "record not found": it goes on with an empty struct.
BeginView(r) ==
    /\ Arrives(r) /\ Op(r) = "view"
    /\ \/ Skip(r, "refused")    \* no such table or correlation, nothing to plot
       \/ r \in Faulty /\ Skip(r, "creditors")
       \/ Matching(call[r].chart) = {} /\ Skip(r, "discover")
       \/ /\ \E d \in Matching(call[r].chart) : Load(r, d, table[d])
          /\ Goto(r, "creditors")
          /\ UNCHANGED <<database, call, seen, mine, answer, saved>>

\* slip: GetChart drops the row that Discover returns, too
Dropped(r) == FALSE

\* GetChart takes the row that Discover returns, GetChartCorrelated drops it
Taken(r) == InTable(r)

\* Discover: insert the row
Discover(r) ==
    /\ pc[r] = "discover"
    /\ LET row == NewDiscovery(call[r].chart, call[r].uid)
       IN  \/ r \in Faulty /\ Skip(r, IF InTable(r) THEN "failed" ELSE "creditors")
           \/ /\ table' = [table EXCEPT ![r] = row]
              /\ IF Taken(r) THEN Load(r, r, row) ELSE UNCHANGED <<did, copy>>
              /\ Goto(r, "creditors")
              /\ UNCHANGED <<credits, reputation, activity, call, seen, mine, answer, saved>>

\* the name of the discoverer, and the users who credited or discredited
ReadCreditors(r) ==
    /\ pc[r] = "creditors"
    /\ \/ r \in Faulty /\ Skip(r, "failed")
       \/ /\ answer' = [answer EXCEPT ![r] =
                          [did |-> did[r], discoverer |-> copy[r].uid,
                           creditors |-> Creditors(did[r])]]
          /\ Goto(r, IF InTable(r) THEN "own" ELSE "again")
          /\ UNCHANGED <<database, call, did, copy, seen, mine, saved>>

\* a struct that has its key set finds no row but its own
SameRow(r) ==
    IF did[r] = Zero THEN Matching(call[r].chart)
    ELSE Matching(call[r].chart) \cap {did[r]}

\* GetChartCorrelated looks for the row again, for its id and its chart
FindAgain(r) ==
    /\ pc[r] = "again"
    /\ \/ (r \in Faulty \/ SameRow(r) = {}) /\ Skip(r, "failed")
       \/ /\ \E d \in SameRow(r) :
               /\ Load(r, d, table[d])
               /\ answer' = [answer EXCEPT ![r].did = d]
          /\ Goto(r, "own")
          /\ UNCHANGED <<database, call, seen, mine, saved>>

\* the viewer's own credit row, the last part of the answer
ReadOwnVote(r) ==
    /\ pc[r] = "own"
    /\ \/ r \in Faulty /\ Skip(r, "failed")
       \/ Skip(r, "done")

\* CreditChart: look for the row of the chart; none is not an error
BeginCredit(r) ==
    /\ Arrives(r) /\ Op(r) = "credit"
    /\ \/ r \in Faulty /\ Skip(r, "failed")
       \/ Matching(call[r].chart) = {} /\ Skip(r, "repRead")
       \/ /\ \E d \in Matching(call[r].chart) : Load(r, d, table[d])
          /\ Goto(r, "repRead")
          /\ UNCHANGED <<database, call, seen, mine, answer, saved>>

\* Reputation: find the discoverer; an empty struct has none
ReputationRead(r) ==
    /\ pc[r] = "repRead"
    /\ \/ (r \in Faulty \/ copy[r].uid \notin Users) /\ Skip(r, "activity")
       \/ /\ copy[r].uid \in Users
          /\ seen' = [seen EXCEPT ![r] = reputation[copy[r].uid]]
          /\ Goto(r, "repWrite")
          /\ UNCHANGED <<database, call, did, copy, mine, answer, saved>>

\* Reputation: update the one column from the value read
ReputationWrite(r) ==
    /\ pc[r] = "repWrite"
    /\ \/ r \in Faulty /\ Skip(r, "activity")
       \/ /\ reputation' = [reputation EXCEPT ![copy[r].uid] = seen[r] + Points(r)]
          /\ Goto(r, "activity")
          /\ UNCHANGED <<table, credits, activity, call, locals, saved>>

\* AddActivity: its error is dropped
AddActivity(r) ==
    /\ pc[r] = "activity"
    /\ \/ r \in Faulty /\ Skip(r, "save")
       \/ /\ activity' = activity \cup {r}
          /\ Goto(r, "save")
          /\ UNCHANGED <<table, credits, reputation, call, locals, saved>>

\* write the whole row; Save inserts a struct that has no key
SaveDiscovered(r) ==
    /\ pc[r] = "save"
    /\ \/ r \in Faulty /\ Skip(r, "failed")
       \/ /\ LET d == IF did[r] = Zero THEN r ELSE did[r]
             IN  /\ table' = [table EXCEPT ![d] = Voted(r)]
                 /\ Load(r, d, Voted(r))
          /\ saved' = saved \cup {r}
          /\ Goto(r, "find")
          /\ UNCHANGED <<credits, reputation, activity, call, seen, mine, answer>>

\* look for the voter's credit row; a failure is taken for a row that is there
FindCredit(r) ==
    /\ pc[r] = "find"
    /\ LET old == CreditsOf(did[r], call[r].uid)
       IN  \/ r \in Faulty /\ Skip(r, "update")
           \/ old = {} /\ Skip(r, "insert")
           \/ /\ \E q \in old : mine' = [mine EXCEPT ![r] = q]
              /\ Goto(r, "update")
              /\ UNCHANGED <<database, call, did, copy, seen, answer, saved>>

InsertCredit(r) ==
    /\ pc[r] = "insert"
    /\ \/ r \in Faulty /\ Skip(r, "failed")
       \/ /\ credits' = [credits EXCEPT ![r] =
                           [did |-> did[r], uid |-> call[r].uid, up |-> call[r].up]]
          /\ Goto(r, "done")
          /\ UNCHANGED <<table, reputation, activity, call, locals, saved>>

UpdateCredit(r) ==
    /\ pc[r] = "update"
    /\ \/ r \in Faulty /\ Skip(r, "failed")
       \/ /\ credits' = [q \in Requests |->
                           IF q \in Updated(mine[r])
                           THEN [credits[q] EXCEPT !.up = call[r].up] ELSE credits[q]]
          /\ Goto(r, "done")
          /\ UNCHANGED <<table, reputation, activity, call, locals, saved>>

Next ==
    \E r \in Requests :
        \/ BeginView(r) \/ Discover(r) \/ ReadCreditors(r) \/ FindAgain(r)
        \/ ReadOwnVote(r)
        \/ BeginCredit(r) \/ ReputationRead(r) \/ ReputationWrite(r)
        \/ AddActivity(r) \/ SaveDiscovered(r) \/ FindCredit(r)
        \/ InsertCredit(r) \/ UpdateCredit(r)

Spec == Init /\ [][Next]_vars

-----------------------------------------------------------------------------
\* A discovery is for good: no whole-row Save of a stale struct, nor anything
\* else, takes a row away, gives it to another user or to another chart.
DiscoveryIsForGood ==
    [][\A d \in DiscoveredIds : table[d] # NoRow =>
         /\ table'[d] # NoRow
         /\ table'[d].chart = table[d].chart /\ table'[d].uid = table[d].uid]_vars

\* the votes saved in row d
SavedVotes(d, up) == {q \in saved : did[q] = d /\ call[q].up = up}

\* The counters of a chart lose votes to stale Saves, but never show a vote
\* that no CreditChart call saved.
CountersNeverOverstate ==
    \A d \in DiscoveredIds : table[d] # NoRow =>
        /\ table[d].credited <= Cardinality(SavedVotes(d, TRUE))
        /\ table[d].discredited <= Cardinality(SavedVotes(d, FALSE))

\* A vote on a chart nobody has discovered inserts a row of no chart.  No later
\* request finds that row: it has its one vote, and one credit row at most.
OrphansHaveOneVote ==
    \A d \in DiscoveredIds : table[d] # NoRow /\ table[d].chart = NoChart =>
        /\ table[d].credited + table[d].discredited = 1
        /\ table[d].uid = Nobody
        /\ \A q \in Requests : credits[q] # NoRow /\ credits[q].did = d => q = d

\* Whoever has a credit row for a chart is on a row that counts some vote: the
\* counters are written before the credit row, and never go back to zero.
CreditsAreCounted ==
    \A q \in Requests : credits[q] # NoRow =>
        LET row == table[credits[q].did]
        IN  row # NoRow /\ row.credited + row.discredited > 0

\* Where no statement of a vote fails, the direction of a credit row changes
\* only when its own user votes on the same chart.
OnlyOwnVoteTurns ==
    [][\A q \in Requests : credits[q] # NoRow /\ credits'[q] # credits[q] =>
         \E r \in Requests :
            /\ pc[r] = "update" /\ pc'[r] = "done"
            /\ \/ r \in Faulty
               \/ call[r].uid = credits[q].uid /\ did[r] = credits[q].did]_vars

\* voter c has voted on row d, in that direction unless a vote that went wrong
\* has turned it
HasVoted(c, d) ==
    \E q \in saved : \E f \in Faulty \cup {q} :
        /\ did[q] = d /\ call[q].uid = c[1]
        /\ Op(f) = "credit" /\ call[f].up = c[2]

\* The answer to a view of a table's chart none of whose reads failed is about
\* one row of that chart: it names its discoverer, and lists only users who cast
\* a vote on it.
AnswersAreEarned ==
    \A r \in Requests \ Faulty : Op(r) = "view" /\ pc[r] = "done" /\ InTable(r) =>
        LET a == answer[r] IN
        /\ a.did # Zero /\ table[a.did] # NoRow
        /\ table[a.did].chart = call[r].chart /\ table[a.did].uid = a.discoverer
        /\ \A c \in a.creditors : HasVoted(c, a.did)

\* PatternInfo is "discoveredby" a user and "creditedby" users
\* (tablestocharts.go:33-35): those of the row it is about.
AnswersNameTheirRow ==
    \A r \in Requests : Op(r) = "view" /\ pc[r] = "done" =>
        /\ answer[r].discoverer = table[answer[r].did].uid
        /\ \A c \in answer[r].creditors :
             \E q \in SavedVotes(answer[r].did, c[2]) : call[q].uid = c[1]
=============================================================================
