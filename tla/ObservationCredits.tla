------------------------- MODULE ObservationCredits -------------------------
(***************************************************************************)
(* The handlers that write observations, their credits and the reputation  *)
(* of their authors: CreditObservation, AddObservation, FlagObservation    *)
(* and DeleteObservation.  Every request runs in a goroutine of its own,   *)
(* on any master node, and reaches PostgreSQL one statement at a time with *)
(* no transaction: a step below is one statement.                          *)
(*                                                                         *)
(* A row has the identity of the request that inserted it, which is what   *)
(* a serial key amounts to: an observation's id is in Seeded when the row  *)
(* is older than the behaviour, else it is the id of the AddObservation    *)
(* request.  The rows of priv_credits and priv_activity are sets of        *)
(* request ids, their columns being those of the request's call.           *)
(***************************************************************************)
EXTENDS Integers, FiniteSets, FiniteSetsExt

CONSTANTS
    Users,       \* uids of priv_users
    Nobody,      \* uid 0: the discoverer of a chart row that has none
    Seeded,      \* observations that exist at the start
    Requests,    \* HTTP requests, each handled once
    NoRow,       \* no such row
    Operations,  \* the operations requests may ask for
    Workers,     \* bound: requests in progress at a time
    Faulty       \* requests whose statements may fail and whose node may die

ObservationIds == Seeded \cup Requests

Row == [uid : Users, credited : Nat, discredited : Nat, flagged : BOOLEAN,
        rating : Nat \X Nat]

ASSUME UsersAreFinite == Users # {} /\ Nobody \notin Users
ASSUME RequestsAreFinite == IsFiniteSet(Requests) /\ Requests \cap Seeded = {}
ASSUME NoRowIsNoRow == NoRow \notin Row
ASSUME BoundsAreTyped == Workers \in Nat /\ Faulty \subseteq Requests

VARIABLES
    \* the database
    table,       \* priv_observations: id -> row
    reputation,  \* priv_users.reputation
    credits,     \* priv_credits
    activity,    \* priv_activity
    \* the requests
    call,        \* what the request asks for; never changes
    pc,          \* the statement it is at
    copy,        \* its local Observation struct
    seen,        \* the reputation it has read
    \* history
    saved,       \* requests whose whole-row Save of an observation succeeded
    paid         \* requests whose reputation UPDATE succeeded

database == <<table, reputation, credits, activity>>
locals == <<copy, seen>>
history == <<saved, paid>>
vars == <<database, call, pc, locals, history>>

(***************************************************************************)
(* Calls, and what they are worth to whom.                                 *)
(***************************************************************************)
Calls ==
    { c \in
        [op : {"credit"}, uid : Users, oid : ObservationIds, credflag : BOOLEAN]
          \cup [op : {"comment"}, uid : Users, discoverer : Users \cup {Nobody}]
          \cup [op : {"flag", "delete"}, oid : ObservationIds] :
      c.op \in Operations }

Op(r) == call[r].op

obsCredit == 5
obsDiscredit == -1
discObs == 2
obsSpam == -100

Points(r) ==
    CASE Op(r) = "comment" -> discObs
      [] Op(r) = "delete"  -> obsSpam
      [] OTHER -> IF call[r].credflag THEN obsCredit ELSE obsDiscredit

\* the user whose reputation the request changes
Beneficiary(r) ==
    IF Op(r) = "comment" THEN call[r].discoverer ELSE copy[r].uid

\* RankCredits: the rating is a function of the two counters, kept as the pair
RankCredits(credited, discredited) == <<credited, discredited>>

NewRow(u) ==
    [uid |-> u, credited |-> 0, discredited |-> 0, flagged |-> FALSE,
     rating |-> RankCredits(0, 0)]

\* slip: the else of the two counters is lost
CountedTwice(row, credflag) ==
    [row EXCEPT !.credited = @ + 1,
                !.discredited = @ + (IF credflag THEN 0 ELSE 1),
                !.rating = RankCredits(row.credited + 1,
                             row.discredited + (IF credflag THEN 0 ELSE 1))]

\* slip: the rating is computed before the counters move
RatedTooEarly(row, credflag) ==
    [row EXCEPT !.credited = @ + (IF credflag THEN 1 ELSE 0),
                !.discredited = @ + (IF credflag THEN 0 ELSE 1),
                !.rating = RankCredits(row.credited, row.discredited)]

\* slip: a discredit takes a credit back instead of being counted
TakenBack(row, credflag) ==
    [row EXCEPT !.credited = IF credflag THEN @ + 1 ELSE @ - 1]

\* the local struct after Credited++ or Discredited++ and the new rating
Counted(row, credflag) ==
    LET c == row.credited + (IF credflag THEN 1 ELSE 0)
        d == row.discredited + (IF credflag THEN 0 ELSE 1)
    IN  [row EXCEPT !.credited = c, !.discredited = d,
                    !.rating = RankCredits(c, d)]

\* slip: the ownership test is dropped
NotOwned(row, r) == FALSE

\* one may not credit one's own observation
Owned(row, r) == row.uid = call[r].uid

\* slip: Save inserts the row when the UPDATE finds none
Upserted(stored, row) == row

\* Save with a key set: an UPDATE, which touches no row when there is none
Overwritten(stored, row) == IF stored = NoRow THEN NoRow ELSE row

\* slip: the same points whichever way the vote goes
AlwaysCredited(r) ==
    seen[r] + (IF Op(r) = "credit" THEN obsCredit ELSE Points(r))

NewReputation(r) == seen[r] + Points(r)

\* slip: the lookup does not ask for the observation
SameVoter(q, r) ==
    /\ Op(q) = "credit" /\ Op(r) = "credit"
    /\ call[q].uid = call[r].uid
    /\ call[q].credflag # call[r].credflag

SameVote(q, r) ==
    /\ Op(q) = "credit" /\ Op(r) = "credit"
    /\ call[q].uid = call[r].uid
    /\ call[q].oid = call[r].oid
    /\ call[q].credflag = call[r].credflag

(***************************************************************************)
(* The steps.                                                              *)
(***************************************************************************)
Ended == {"done", "refused", "failed"}
Steps == {"check", "repRead", "repWrite", "activity", "save", "credit", "delete"}

InFlight == {r \in Requests : pc[r] \in Steps}

TypeOK ==
    /\ table \in [ObservationIds -> Row \cup {NoRow}]
    /\ reputation \in [Users -> Int]
    /\ credits \subseteq Requests /\ activity \subseteq Requests
    /\ call \in [Requests -> Calls]
    /\ pc \in [Requests -> {"arrive"} \cup Steps \cup Ended]
    /\ copy \in [Requests -> Row \cup {NoRow}]
    /\ seen \in [Requests -> Int]
    /\ saved \subseteq Requests /\ paid \subseteq Requests

Init ==
    /\ \E author \in [Seeded -> Users] :
         table = [o \in ObservationIds |->
                    IF o \in Seeded THEN NewRow(author[o]) ELSE NoRow]
    /\ reputation = [u \in Users |-> 0]
    /\ credits = {} /\ activity = {}
    /\ call \in [Requests -> Calls]
    /\ pc = [r \in Requests |-> "arrive"]
    /\ copy = [r \in Requests |-> NoRow]
    /\ seen = [r \in Requests |-> 0]
    /\ saved = {} /\ paid = {}

Goto(r, step) == pc' = [pc EXCEPT ![r] = step]

\* the statement fails, or the request is turned away: nothing is written
Stop(r, outcome) ==
    /\ Goto(r, outcome)
    /\ UNCHANGED <<database, call, locals, history>>

Fails(r) == r \in Faulty /\ Stop(r, "failed")

\* the last reads of a handler only build its answer; they may fail too
Answer(r) == \/ Goto(r, "done")
             \/ r \in Faulty /\ Goto(r, "failed")

Arrives(r) == pc[r] = "arrive" /\ Cardinality(InFlight) < Workers

\* CreditObservation: find the observation, refuse one's own
BeginCredit(r) ==
    /\ Arrives(r) /\ Op(r) = "credit"
    /\ LET row == table[call[r].oid]
       IN  \/ Fails(r)
           \/ row = NoRow /\ Stop(r, "refused")
           \/ row # NoRow /\ Owned(row, r) /\ Stop(r, "refused")
           \/ /\ row # NoRow /\ ~Owned(row, r)
              /\ copy' = [copy EXCEPT ![r] = row]
              /\ Goto(r, "check")
              /\ UNCHANGED <<database, call, seen, history>>

\* AddObservation: find the chart that is commented
BeginComment(r) ==
    /\ Arrives(r) /\ Op(r) = "comment"
    /\ \/ Stop(r, "failed")     \* no such chart, or the read fails
       \/ Stop(r, "repRead")

\* FlagObservationHttp: one column update, then the row is read for the answer
Flag(r) ==
    /\ Arrives(r) /\ Op(r) = "flag"
    /\ LET o == call[r].oid
       IN  \/ Fails(r)
           \/ table[o] = NoRow /\ Stop(r, "failed")
           \/ /\ table[o] # NoRow
              /\ table' = [table EXCEPT ![o].flagged = TRUE]
              /\ Answer(r)
              /\ UNCHANGED <<reputation, credits, activity, call, locals, history>>

\* DeleteObservationHttp: find the observation
BeginDelete(r) ==
    /\ Arrives(r) /\ Op(r) = "delete"
    /\ LET row == table[call[r].oid]
       IN  \/ Fails(r)
           \/ row = NoRow /\ Stop(r, "failed")
           \/ /\ row # NoRow
              /\ copy' = [copy EXCEPT ![r] = row]
              /\ Goto(r, "delete")
              /\ UNCHANGED <<database, call, seen, history>>

\* look for a credit row with the same observation, user and credflag
CheckCredit(r) ==
    /\ pc[r] = "check"
    /\ \/ Fails(r)
       \/ (\E q \in credits : SameVote(q, r)) /\ Stop(r, "refused")
       \/ (\A q \in credits : ~SameVote(q, r)) /\ Stop(r, "repRead")

\* delete the row; a failure is reported and the handler carries on
Delete(r) ==
    /\ pc[r] = "delete"
    /\ Goto(r, "repRead")
    /\ \/ table' = [table EXCEPT ![call[r].oid] = NoRow]
       \/ r \in Faulty /\ table' = table
    /\ UNCHANGED <<reputation, credits, activity, call, locals, history>>

\* slip: a comment is inserted before its activity, and never gets one
SkipActivity(r) == IF Op(r) = "delete" THEN "done" ELSE "save"

AfterReputation(r) == IF Op(r) = "delete" THEN "done" ELSE "activity"

\* Reputation: find the user; its errors are strings the callers drop
ReputationRead(r) ==
    /\ pc[r] = "repRead"
    /\ \/ /\ r \in Faulty \/ Beneficiary(r) \notin Users
          /\ Stop(r, AfterReputation(r))
       \/ /\ Beneficiary(r) \in Users
          /\ seen' = [seen EXCEPT ![r] = reputation[Beneficiary(r)]]
          /\ Goto(r, "repWrite")
          /\ UNCHANGED <<database, call, copy, history>>

\* Reputation: update the one column from the value read
ReputationWrite(r) ==
    /\ pc[r] = "repWrite"
    /\ \/ r \in Faulty /\ Stop(r, AfterReputation(r))
       \/ /\ reputation' = [reputation EXCEPT ![Beneficiary(r)] = NewReputation(r)]
          /\ paid' = paid \cup {r}
          /\ Goto(r, AfterReputation(r))
          /\ UNCHANGED <<table, credits, activity, call, locals, saved>>

\* AddActivity: only AddObservation looks at its error
AddActivity(r) ==
    /\ pc[r] = "activity"
    /\ \/ r \in Faulty /\ Stop(r, IF Op(r) = "comment" THEN "failed" ELSE "save")
       \/ /\ activity' = activity \cup {r}
          /\ Goto(r, "save")
          /\ UNCHANGED <<table, reputation, credits, call, locals, history>>

\* AddObservation: insert the observation
InsertObservation(r) ==
    /\ pc[r] = "save" /\ Op(r) = "comment"
    /\ \/ Fails(r)
       \/ /\ table' = [table EXCEPT ![r] = NewRow(call[r].uid)]
          /\ Answer(r)
          /\ UNCHANGED <<reputation, credits, activity, call, locals, history>>

\* CreditObservation: write every column of the row from the local struct; an
\* UPDATE of a row that is gone touches none and is no error
SaveObservation(r) ==
    /\ pc[r] = "save" /\ Op(r) = "credit"
    /\ \/ Fails(r)
       \/ /\ LET o == call[r].oid
             IN  table' = [table EXCEPT ![o] =
                             Overwritten(@, Counted(copy[r], call[r].credflag))]
          /\ saved' = saved \cup {r}
          /\ Goto(r, "credit")
          /\ UNCHANGED <<reputation, credits, activity, call, locals, paid>>

\* CreditObservation: insert the credit row
InsertCredit(r) ==
    /\ pc[r] = "credit"
    /\ \/ Fails(r)
       \/ /\ credits' = credits \cup {r}
          /\ Answer(r)
          /\ UNCHANGED <<table, reputation, activity, call, locals, history>>

\* the node that handles the request dies; nothing recovers the request
NodeDies(r) == r \in Faulty /\ pc[r] \in Steps /\ Stop(r, "failed")

Next ==
    \E r \in Requests :
        \/ BeginCredit(r) \/ BeginComment(r) \/ Flag(r) \/ BeginDelete(r)
        \/ CheckCredit(r) \/ Delete(r)
        \/ ReputationRead(r) \/ ReputationWrite(r)
        \/ AddActivity(r) \/ InsertObservation(r) \/ SaveObservation(r)
        \/ InsertCredit(r) \/ NodeDies(r)

Spec == Init /\ [][Next]_vars

-----------------------------------------------------------------------------
(***************************************************************************)
(* What holds whatever the interleaving.                                   *)
(***************************************************************************)

\* the votes saved on observation o
SavedVotes(o, credflag) ==
    {q \in saved : call[q].oid = o /\ call[q].credflag = credflag}

\* Counters may lose votes to a stale whole-row Save, but never invent one:
\* each is at most the number of CreditObservation calls that saved the row.
CountersNeverOverstate ==
    \A o \in ObservationIds : table[o] # NoRow =>
        /\ table[o].credited <= Cardinality(SavedVotes(o, TRUE))
        /\ table[o].discredited <= Cardinality(SavedVotes(o, FALSE))

\* However many votes are lost, an observation that was voted on never shows
\* as one nobody voted on: every Save carries at least its own vote.
VoteLeavesTrace ==
    \A o \in ObservationIds :
        table[o] # NoRow /\ SavedVotes(o, TRUE) \cup SavedVotes(o, FALSE) # {}
            => table[o].credited + table[o].discredited > 0

\* Racing Saves leave the rating in step with the two counters it ranks, since
\* the three columns are always written together.
RatingIsCurrent ==
    \A o \in ObservationIds : table[o] # NoRow =>
        table[o].rating = <<table[o].credited, table[o].discredited>>

\* Nobody gains a credit row, nor a counted vote, on an observation of theirs.
NoSelfVotes ==
    \A r \in credits \cup saved :
        table[call[r].oid] # NoRow => table[call[r].oid].uid # call[r].uid

\* A vote that was answered has its credit row, and a credit row its saved
\* counters; a stored comment has its activity, since AddObservation gives up
\* when the activity cannot be written.
WritesInOrder ==
    /\ credits \subseteq saved
    /\ \A r \in Requests :
         /\ pc[r] = "done" /\ Op(r) = "credit" => r \in credits
         /\ table[r] # NoRow => r \in activity

Sum(S) == MapThenSumSet(Points, S)

\* Read-then-update of the reputation can lose points, but what is stored is
\* always the sum of the points of some of the requests paid to that user:
\* nothing is paid twice, to another user or at another rate.
ReputationIsExplained ==
    \A u \in Users :
        \E S \in SUBSET {q \in paid : Beneficiary(q) = u} : reputation[u] = Sum(S)

\* An author is fined for a deletion whose statements did not fail only once the
\* observation is gone, and no stale Save of a racing credit brings it back.
FinedObservationIsGone ==
    \A r \in paid \ Faulty : Op(r) = "delete" => table[call[r].oid] = NoRow

\* A row comes into being only when its own AddObservation inserts it: a
\* whole-row Save never brings a deleted observation back.
OnlyInsertCreates ==
    [][\A o \in ObservationIds :
         table[o] = NoRow /\ table'[o] # NoRow
            => o \in Requests /\ pc[o] = "save" /\ pc'[o] # "save"]_vars

(***************************************************************************)
(* What the program says of itself.                                        *)
(***************************************************************************)

\* "You can Credit/Discredit observation only once." (observations.go:409),
\* read in its weakest sense: no user has two credit rows for one observation
\* and one direction.
CreditedOnlyOnce == \A q, r \in credits : q # r => ~SameVote(q, r)
=============================================================================
