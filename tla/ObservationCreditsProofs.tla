---------------------- MODULE ObservationCreditsProofs ----------------------
(***************************************************************************)
(* Proofs about ObservationCredits, for any users, observations, requests, *)
(* number of workers, whichever statements fail and whichever nodes die.   *)
(***************************************************************************)
EXTENDS ObservationSerial, DataProofs

-----------------------------------------------------------------------------
(***************************************************************************)
(* Types.                                                                  *)
(***************************************************************************)

\* What the control point of a request says of its call and its local copy:
\* only credits and deletions carry a copy, and they have one at every step.
Stages ==
    \A r \in Requests :
        /\ pc[r] \in {"check", "credit"} => Op(r) = "credit"
        /\ pc[r] = "delete" => Op(r) = "delete"
        /\ pc[r] \in Steps => Op(r) # "flag"
        /\ pc[r] \in {"activity", "save"} => Op(r) # "delete"
        /\ pc[r] \in Steps /\ Op(r) # "comment" => copy[r] \in Row
        /\ pc[r] = "repWrite" => Beneficiary(r) \in Users

TypeInv == TypeOK /\ Stages

\* A call has the parameters of its operation.
LEMMA CallShape ==
    ASSUME TypeOK, NEW r \in Requests
    PROVE  /\ Op(r) \in {"credit", "comment", "flag", "delete"}
           /\ Op(r) = "credit" => /\ call[r].uid \in Users
                                  /\ call[r].credflag \in BOOLEAN
           /\ Op(r) \in {"credit", "flag", "delete"} => call[r].oid \in ObservationIds
           /\ Op(r) = "comment" => call[r].uid \in Users
    BY DEF TypeOK, Calls, Op

\* The points of a request are a whole number.
LEMMA PointsAreIntegers ==
    ASSUME TypeOK, NEW r \in Requests
    PROVE  Points(r) \in Int
    BY CallShape DEF Points, obsCredit, obsDiscredit, discObs, obsSpam

\* Counting a vote in a row yields a row; a new row is a row.
LEMMA RowsAreRows ==
    /\ \A row \in Row, b \in BOOLEAN : Counted(row, b) \in Row
    /\ \A u \in Users : NewRow(u) \in Row
  <1>1. ASSUME NEW c \in Nat, NEW d \in Nat
        PROVE  RankCredits(c, d) \in Nat \X Nat
    BY DEF RankCredits
  <1>2. ASSUME NEW row \in Row, NEW b \in BOOLEAN
        PROVE  Counted(row, b) \in Row
    <2> DEFINE c == row.credited + (IF b THEN 1 ELSE 0)
               d == row.discredited + (IF b THEN 0 ELSE 1)
    <2>1. c \in Nat /\ d \in Nat
      BY DEF Row
    <2>2. RankCredits(c, d) \in Nat \X Nat
      BY <2>1, <1>1
    <2> HIDE DEF c, d
    <2>3. [row EXCEPT !.credited = c, !.discredited = d, !.rating = RankCredits(c, d)]
            \in Row
      BY <2>1, <2>2 DEF Row
    <2> QED BY <2>3 DEF Counted, c, d
  <1>3. ASSUME NEW u \in Users PROVE NewRow(u) \in Row
    BY <1>1 DEF NewRow, Row
  <1> QED BY <1>2, <1>3

\* The initial state has the right types.
LEMMA InitTypes == Init => TypeInv
  <1> SUFFICES ASSUME Init PROVE TypeInv OBVIOUS
  <1>1. TypeOK
    BY RowsAreRows DEF Init, TypeOK, ObservationIds
  <1>2. Stages
    BY DEF Init, Stages, Steps
  <1> QED BY <1>1, <1>2 DEF TypeInv

\* Every step keeps the types, one action at a time.
LEMMA NextTypes == TypeInv /\ [Next]_vars => TypeInv'
  <1> SUFFICES ASSUME TypeInv, [Next]_vars PROVE TypeInv' OBVIOUS
  <1> USE DEF TypeInv
  <1>u. CASE UNCHANGED vars
    BY <1>u DEF vars, database, locals, history, TypeOK, Stages, Op, Beneficiary
  <1>a. ASSUME NEW r \in Requests,
               \/ BeginCredit(r) \/ BeginComment(r) \/ Flag(r) \/ BeginDelete(r)
               \/ CheckCredit(r) \/ Delete(r)
               \/ ReputationRead(r) \/ ReputationWrite(r)
               \/ AddActivity(r) \/ InsertObservation(r) \/ SaveObservation(r)
               \/ InsertCredit(r) \/ NodeDies(r)
        PROVE  TypeInv'
    <2> USE DEF Op, Beneficiary, Goto
    <2>s. ASSUME NEW step, Stop(r, step), step \in {"refused", "failed", "done"}
          PROVE  TypeInv'
      BY <2>s DEF Stop, TypeOK, Stages, Steps, Ended, database, locals, history
    <2>1. CASE BeginCredit(r)
      BY <2>1, <2>s, CallShape DEF BeginCredit, Fails, Arrives, TypeOK, Stages, Steps,
             Ended, database, locals, history
    <2>2. CASE BeginComment(r)
      BY <2>2, <2>s, CallShape DEF BeginComment, Arrives, Stop, TypeOK, Stages, Steps,
             Ended, database, locals, history
    <2>3. CASE Flag(r)
      <3>1. CASE Fails(r) \/ Stop(r, "failed")
        BY <3>1, <2>s DEF Fails
      <3>2. CASE ~(Fails(r) \/ Stop(r, "failed"))
        <4> DEFINE o == call[r].oid
        <4>1. o \in ObservationIds /\ table[o] \in Row
          BY <2>3, <3>2, CallShape DEF Flag, TypeOK
        <4>2. table' \in [ObservationIds -> Row \cup {NoRow}]
          <5>1. [table[o] EXCEPT !.flagged = TRUE] \in Row
            BY <4>1 DEF Row
          <5> QED BY <5>1, <4>1, <2>3, <3>2 DEF Flag, TypeOK
        <4>3. TypeOK'
          BY <4>2, <2>3, <3>2 DEF Flag, Answer, TypeOK, Ended, locals, history
        <4> QED BY <4>3, <2>3, <3>2 DEF Flag, Answer, Stages, Steps, TypeOK, locals, history
      <3> QED BY <3>1, <3>2
    <2>4. CASE BeginDelete(r)
      BY <2>4, <2>s, CallShape DEF BeginDelete, Fails, Arrives, TypeOK, Stages, Steps,
             Ended, database, locals, history
    <2>5. CASE CheckCredit(r)
      BY <2>5, <2>s, CallShape DEF CheckCredit, Fails, Stop, TypeOK, Stages, Steps,
             Ended, database, locals, history
    <2>6. CASE Delete(r)
      BY <2>6, CallShape DEF Delete, TypeOK, Stages, Steps, Ended, locals, history
    <2>7. CASE ReputationRead(r)
      BY <2>7, CallShape DEF ReputationRead, AfterReputation, Stop, TypeOK, Stages,
             Steps, Ended, database, locals, history
    <2>8. CASE ReputationWrite(r)
      <3>1. NewReputation(r) \in Int
        BY PointsAreIntegers DEF NewReputation, TypeOK
      <3> QED BY <3>1, <2>8, CallShape DEF ReputationWrite, AfterReputation, Stop, TypeOK,
                 Stages, Steps, Ended, database, locals, history
    <2>9. CASE AddActivity(r)
      BY <2>9, <2>s, CallShape DEF AddActivity, Stop, TypeOK, Stages, Steps, Ended,
             database, locals, history
    <2>10. CASE InsertObservation(r)
      <3>1. CASE Fails(r)
        BY <3>1, <2>s DEF Fails
      <3>2. CASE ~Fails(r)
        <4>1. table' \in [ObservationIds -> Row \cup {NoRow}]
          BY <3>2, <2>10, CallShape, RowsAreRows DEF InsertObservation, TypeOK, ObservationIds
        <4> QED BY <4>1, <3>2, <2>10 DEF InsertObservation, Answer, TypeOK, Stages, Steps,
                   Ended, locals, history
      <3> QED BY <3>1, <3>2
    <2>11. CASE SaveObservation(r)
      <3>1. CASE Fails(r)
        BY <3>1, <2>s DEF Fails
      <3>2. CASE ~Fails(r)
        <4>1. copy[r] \in Row /\ call[r].credflag \in BOOLEAN /\ call[r].oid \in ObservationIds
          BY <2>11, CallShape DEF SaveObservation, Stages, Steps
        <4>2. table' \in [ObservationIds -> Row \cup {NoRow}]
          BY <4>1, <3>2, <2>11, RowsAreRows DEF SaveObservation, Overwritten, TypeOK
        <4> QED BY <4>2, <3>2, <2>11 DEF SaveObservation, TypeOK, Stages, Steps, Ended, locals
      <3> QED BY <3>1, <3>2
    <2>12. CASE InsertCredit(r)
      BY <2>12, <2>s DEF InsertCredit, Fails, Answer, TypeOK, Stages, Steps, Ended,
             locals, history
    <2>13. CASE NodeDies(r)
      BY <2>13, <2>s DEF NodeDies
    <2> QED BY <1>a, <2>1, <2>2, <2>3, <2>4, <2>5, <2>6, <2>7, <2>8, <2>9, <2>10,
               <2>11, <2>12, <2>13
  <1> QED BY <1>u, <1>a DEF Next

\* The types, and the stages that keep them, hold in every state.
THEOREM Types == Spec => []TypeInv
  BY InitTypes, NextTypes, PTL DEF Spec

\* The type invariant holds in every state, for any constants.
THEOREM TypeCorrectness == Spec => []TypeOK
  <1>1. TypeInv => TypeOK
    BY DEF TypeInv
  <1> QED BY <1>1, Types, PTL

-----------------------------------------------------------------------------
(***************************************************************************)
(* Which rows exist, who wrote them, and what local copies may say.        *)
(***************************************************************************)

\* An id of a request is in the table only when that request has inserted it.
RowsAreInserted ==
    \A r \in Requests :
        table[r] # NoRow => Op(r) = "comment" /\ pc[r] \in Ended

\* Rows that were read existed, and never change their author; a credit in
\* progress is not of the user's own observation, and is not saved yet until
\* its Save.
Copies ==
    \A r \in Requests :
        /\ copy[r] # NoRow =>
             LET o == call[r].oid
             IN  /\ Op(r) \in {"credit", "delete"}
                 /\ o \in Requests => Op(o) = "comment" /\ pc[o] \in Ended
                 /\ table[o] # NoRow => table[o].uid = copy[r].uid
        /\ copy[r] # NoRow /\ Op(r) = "credit" => copy[r].uid # call[r].uid
        /\ pc[r] \in Steps \ {"credit"} => r \notin saved
        /\ pc[r] = "arrive" => r \notin saved /\ copy[r] = NoRow
        /\ r \in saved \cup credits => Op(r) = "credit" /\ copy[r] # NoRow

AuthorInv == RowsAreInserted /\ Copies

\* The author's invariant is kept by every step.
LEMMA AuthorStep == TypeInv /\ TypeInv' /\ AuthorInv /\ [Next]_vars => AuthorInv'
  <1> SUFFICES ASSUME TypeInv, TypeInv', AuthorInv, [Next]_vars PROVE AuthorInv'
    OBVIOUS
  <1> USE DEF TypeInv, AuthorInv
  <1>u. CASE UNCHANGED vars
    BY <1>u DEF vars, database, locals, history, RowsAreInserted, Copies, Op
  <1>a. ASSUME NEW r \in Requests,
               \/ BeginCredit(r) \/ BeginComment(r) \/ Flag(r) \/ BeginDelete(r)
               \/ CheckCredit(r) \/ Delete(r)
               \/ ReputationRead(r) \/ ReputationWrite(r)
               \/ AddActivity(r) \/ InsertObservation(r) \/ SaveObservation(r)
               \/ InsertCredit(r) \/ NodeDies(r)
        PROVE  AuthorInv'
    <2> USE DEF Op, Goto, Steps, Ended
    <2>s. ASSUME NEW step, Stop(r, step), pc[r] \notin Ended,
                 step \in (Steps \ {"credit"}) \cup Ended, pc[r] # "credit" \/ step \in Ended
          PROVE  AuthorInv'
      BY <2>s DEF Stop, TypeOK, RowsAreInserted, Copies, database, locals, history
    <2>t. \A o \in ObservationIds : table[o] = NoRow \/ table[o] \in Row
      BY DEF TypeOK
    <2>1. CASE BeginCredit(r)
      <3>1. CASE \E step \in Ended : Stop(r, step)
        BY <3>1, <2>1, <2>s DEF BeginCredit, Arrives
      <3>2. CASE ~\E step \in Ended : Stop(r, step)
        BY <3>2, <2>1, <2>t, CallShape, NoRowIsNoRow DEF BeginCredit, Fails, Arrives,
           Owned, TypeOK, RowsAreInserted, Copies, database, locals, history
      <3> QED BY <3>1, <3>2
    <2>2. CASE BeginComment(r)
      BY <2>2, <2>s DEF BeginComment, Arrives
    <2>3. CASE Flag(r)
      <3>1. CASE \E step \in Ended : Stop(r, step)
        BY <3>1, <2>3, <2>s DEF Flag, Arrives
      <3>2. CASE ~\E step \in Ended : Stop(r, step)
        <4> DEFINE o == call[r].oid
        <4>1. o \in ObservationIds /\ table[o] \in Row
              /\ table' = [table EXCEPT ![o].flagged = TRUE]
          BY <2>3, <3>2, <2>t, CallShape DEF Flag, Fails
        <4>2. \A x \in ObservationIds :
                 /\ table'[x] # NoRow => table[x] # NoRow
                 /\ table'[x].uid = table[x].uid
          BY <4>1, NoRowIsNoRow DEF TypeOK, Row
        <4>3. \A q \in Requests : copy[q] # NoRow => call[q].oid \in ObservationIds
          BY CallShape DEF Copies
        <4> HIDE DEF o
        <4>4. RowsAreInserted'
          BY <4>2, <2>3, <3>2 DEF Flag, Fails, Answer, Arrives, RowsAreInserted,
             TypeOK, ObservationIds
        <4>5. Copies'
          BY <4>2, <4>3, <2>3, <3>2 DEF Flag, Fails, Answer, Arrives, Copies, TypeOK,
             locals, history
        <4> QED BY <4>4, <4>5
      <3> QED BY <3>1, <3>2
    <2>4. CASE BeginDelete(r)
      <3>1. CASE \E step \in Ended : Stop(r, step)
        BY <3>1, <2>4, <2>s DEF BeginDelete, Arrives
      <3>2. CASE ~\E step \in Ended : Stop(r, step)
        BY <3>2, <2>4, <2>t, CallShape, NoRowIsNoRow DEF BeginDelete, Fails, Arrives,
           TypeOK, RowsAreInserted, Copies, database, locals, history
      <3> QED BY <3>1, <3>2
    <2>5. CASE CheckCredit(r)
      BY <2>5, <2>s DEF CheckCredit, Fails
    <2>6. CASE Delete(r)
      BY <2>6, CallShape DEF Delete, TypeOK, RowsAreInserted, Copies, locals, history,
         ObservationIds
    <2>7. CASE ReputationRead(r)
      BY <2>7 DEF ReputationRead, AfterReputation, Stop, TypeOK, RowsAreInserted,
         Copies, database, locals, history
    <2>8. CASE ReputationWrite(r)
      BY <2>8 DEF ReputationWrite, AfterReputation, Stop, TypeOK, RowsAreInserted,
         Copies, database, locals, history
    <2>9. CASE AddActivity(r)
      BY <2>9 DEF AddActivity, Stop, TypeOK, RowsAreInserted,
         Copies, database, locals, history
    <2>10. CASE InsertObservation(r)
      <3>1. CASE Fails(r)
        BY <3>1, <2>10, <2>s DEF Fails, InsertObservation
      <3>2. CASE ~Fails(r)
        <4>1. table[r] = NoRow
          BY <2>10 DEF InsertObservation, RowsAreInserted
        <4>2. \A q \in Requests : copy[q] # NoRow => call[q].oid \in ObservationIds \ {r}
          BY <2>10, CallShape DEF Copies, InsertObservation
        <4> QED BY <4>1, <4>2, <3>2, <2>10 DEF InsertObservation, Answer, TypeOK,
                   RowsAreInserted, Copies, locals, history, ObservationIds
      <3> QED BY <3>1, <3>2
    <2>11. CASE SaveObservation(r)
      <3>1. CASE Fails(r)
        BY <3>1, <2>11, <2>s DEF Fails, SaveObservation
      <3>2. CASE ~Fails(r)
        <4> DEFINE o == call[r].oid
                   new == Counted(copy[r], call[r].credflag)
        <4>1. copy[r] \in Row /\ o \in ObservationIds /\ call[r].credflag \in BOOLEAN
          BY <2>11, CallShape DEF SaveObservation, Stages
        <4>2. new \in Row /\ new.uid = copy[r].uid
          BY <4>1, RowsAreRows DEF Counted, Row
        <4>3. table' = [table EXCEPT ![o] = IF @ = NoRow THEN NoRow ELSE new]
          BY <2>11, <3>2 DEF SaveObservation, Overwritten
        <4>4. table[o] # NoRow => table[o].uid = new.uid
          BY <4>1, <4>2, NoRowIsNoRow DEF Copies
        <4> HIDE DEF new
        <4>5. \A x \in ObservationIds :
                 /\ table'[x] # NoRow => table[x] # NoRow
                 /\ table'[x] # NoRow => table'[x].uid = table[x].uid
          BY <4>1, <4>3, <4>4 DEF TypeOK
        <4>6. \A q \in Requests : copy[q] # NoRow => call[q].oid \in ObservationIds
          BY CallShape DEF Copies
        <4> HIDE DEF o
        <4>7. RowsAreInserted'
          BY <4>5, <2>11, <3>2 DEF SaveObservation, RowsAreInserted, TypeOK, ObservationIds
        <4>8. Copies'
          BY <4>1, <4>5, <4>6, <2>11, <3>2, NoRowIsNoRow DEF SaveObservation, Copies, TypeOK,
             locals
        <4> QED BY <4>7, <4>8
      <3> QED BY <3>1, <3>2
    <2>12. CASE InsertCredit(r)
      <3>1. CASE Fails(r)
        BY <3>1, <2>12, <2>s DEF Fails, InsertCredit
      <3>2. CASE ~Fails(r)
        BY <2>12, <3>2, NoRowIsNoRow DEF InsertCredit, Answer, TypeOK, Stages,
           RowsAreInserted, Copies, locals, history
      <3> QED BY <3>1, <3>2
    <2>13. CASE NodeDies(r)
      BY <2>13, <2>s DEF NodeDies
    <2> QED BY <1>a, <2>1, <2>2, <2>3, <2>4, <2>5, <2>6, <2>7, <2>8, <2>9, <2>10,
               <2>11, <2>12, <2>13
  <1> QED BY <1>u, <1>a DEF Next

\* Rows, copies and credits agree on authors in every state.
THEOREM Authors == Spec => []AuthorInv
  <1>1. Init => AuthorInv
    BY RequestsAreFinite DEF Init, AuthorInv, RowsAreInserted, Copies, ObservationIds, Steps
  <1> QED BY <1>1, Types, AuthorStep, PTL DEF Spec

\* Whatever the interleaving, no user has a counted vote or a credit row on an
\* observation of their own (observations.go:400).
THEOREM NobodyVotesForThemselves == Spec => []NoSelfVotes
  <1>1. AuthorInv /\ TypeInv => NoSelfVotes
    BY DEF AuthorInv, TypeInv, TypeOK, Copies, NoSelfVotes
  <1> QED BY <1>1, Types, Authors, PTL

-----------------------------------------------------------------------------
(***************************************************************************)
(* The counters.                                                           *)
(***************************************************************************)

\* The number of saved votes on o, for it and against it.
Ups(o) == Cardinality(SavedVotes(o, TRUE))
Downs(o) == Cardinality(SavedVotes(o, FALSE))

\* A row, stored or copied, that claims no more votes on o than were saved.
WithinSaved(row, o) == row.credited <= Ups(o) /\ row.discredited <= Downs(o)

\* The inductive form of CountersNeverOverstate: the copies a Save is made from
\* are within the saved votes as well, and so stays a copy that grows stale.
CountersInv ==
    /\ \A o \in ObservationIds : table[o] # NoRow => WithinSaved(table[o], o)
    /\ \A r \in Requests : copy[r] # NoRow => WithinSaved(copy[r], call[r].oid)

\* The saved votes are finitely many; one more of them is counted as one more.
LEMMA SavedVotesAreFinite ==
    ASSUME TypeOK, NEW o, NEW b
    PROVE  IsFiniteSet(SavedVotes(o, b)) /\ Cardinality(SavedVotes(o, b)) \in Nat
  <1>1. SavedVotes(o, b) \in SUBSET Requests
    BY DEF SavedVotes, TypeOK
  <1> QED BY <1>1, RequestsAreFinite, FS_Subset, FS_CardinalityType

\* A step that leaves the saved votes alone, or adds request r to them.
LEMMA SavedVotesGrow ==
    ASSUME TypeOK, NEW r \in Requests, r \notin saved,
           call' = call, saved' = saved \cup {r}, NEW o, NEW b
    PROVE  Cardinality(SavedVotes(o, b)') =
             Cardinality(SavedVotes(o, b))
               + IF call[r].oid = o /\ call[r].credflag = b THEN 1 ELSE 0
  <1>1. CASE call[r].oid = o /\ call[r].credflag = b
    <2>1. SavedVotes(o, b)' = SavedVotes(o, b) \cup {r} /\ r \notin SavedVotes(o, b)
      BY <1>1 DEF SavedVotes
    <2> QED BY <1>1, <2>1, SavedVotesAreFinite, FS_AddElement
  <1>2. CASE ~(call[r].oid = o /\ call[r].credflag = b)
    <2>1. SavedVotes(o, b)' = SavedVotes(o, b)
      BY <1>2 DEF SavedVotes
    <2> QED BY <1>2, <2>1, SavedVotesAreFinite
  <1> QED BY <1>1, <1>2

\* The same of the two numbers.
LEMMA VotesAreNumbers ==
    ASSUME TypeOK
    PROVE  \A o : Ups(o) \in Nat /\ Downs(o) \in Nat
    BY SavedVotesAreFinite DEF Ups, Downs

\* Saving a vote raises one of the two numbers, for one observation, by one.
LEMMA VotesGrow ==
    ASSUME TypeOK, NEW r \in Requests, r \notin saved, call[r].credflag \in BOOLEAN,
           call' = call, saved' = saved \cup {r}
    PROVE  \A o : /\ Ups(o)' = Ups(o) +
                        IF call[r].oid = o /\ call[r].credflag THEN 1 ELSE 0
                  /\ Downs(o)' = Downs(o) +
                        IF call[r].oid = o /\ ~call[r].credflag THEN 1 ELSE 0
  <1> TAKE o
  <1>1. Cardinality(SavedVotes(o, TRUE)') = Cardinality(SavedVotes(o, TRUE))
          + IF call[r].oid = o /\ call[r].credflag = TRUE THEN 1 ELSE 0
    BY SavedVotesGrow
  <1>2. Cardinality(SavedVotes(o, FALSE)') = Cardinality(SavedVotes(o, FALSE))
          + IF call[r].oid = o /\ call[r].credflag = FALSE THEN 1 ELSE 0
    BY SavedVotesGrow
  <1>3. (call[r].credflag = TRUE <=> call[r].credflag)
        /\ (call[r].credflag = FALSE <=> ~call[r].credflag)
    OBVIOUS
  <1> QED BY <1>1, <1>2, <1>3 DEF Ups, Downs

\* What a step does to the saved votes, the copies and the rows: only the Save
\* of a credit adds a vote, and only it moves the counters of a row.
LEMMA CounterSteps ==
    ASSUME TypeInv, TypeInv', AuthorInv, Next
    PROVE  /\ call' = call
           /\ \/ /\ saved' = saved
                 /\ \A o \in ObservationIds : table'[o] # NoRow =>
                      \/ /\ table[o] # NoRow
                         /\ table'[o].credited = table[o].credited
                         /\ table'[o].discredited = table[o].discredited
                         /\ table'[o].rating = table[o].rating
                      \/ /\ table[o] = NoRow
                         /\ o \in Requests /\ pc[o] = "save" /\ pc'[o] # "save"
                         /\ table'[o] = NewRow(call[o].uid)
                 /\ \A q \in Requests : copy'[q] # NoRow =>
                      \/ copy'[q] = copy[q]
                      \/ /\ call[q].oid \in ObservationIds
                         /\ copy'[q] = table[call[q].oid]
              \/ \E r \in Requests :
                   /\ pc[r] = "save" /\ Op(r) = "credit" /\ r \notin saved
                   /\ saved' = saved \cup {r} /\ copy' = copy
                   /\ copy[r] \in Row
                   /\ table' = [table EXCEPT ![call[r].oid] =
                                  IF @ = NoRow THEN NoRow
                                  ELSE Counted(copy[r], call[r].credflag)]
  <1> USE DEF TypeInv, AuthorInv, Op, Goto, Steps
  <1>1. PICK r \in Requests :
               \/ BeginCredit(r) \/ BeginComment(r) \/ Flag(r) \/ BeginDelete(r)
               \/ CheckCredit(r) \/ Delete(r)
               \/ ReputationRead(r) \/ ReputationWrite(r)
               \/ AddActivity(r) \/ InsertObservation(r) \/ SaveObservation(r)
               \/ InsertCredit(r) \/ NodeDies(r)
    BY DEF Next
  <1> DEFINE Still == call' = call /\ saved' = saved /\ table' = table /\ copy' = copy
  <1>s. ASSUME NEW step, Stop(r, step) PROVE Still
    BY <1>s DEF Stop, database, locals, history
  <1>2. CASE BeginCredit(r)
    BY <1>2, <1>s, CallShape DEF BeginCredit, Fails, TypeOK, database, history
  <1>3. CASE BeginComment(r)
    BY <1>3, <1>s DEF BeginComment
  <1>4. CASE Flag(r)
    <2>1. CASE Still
      BY <2>1
    <2>2. CASE ~Still
      <3> DEFINE o == call[r].oid
      <3>1. o \in ObservationIds /\ table[o] \in Row
            /\ table' = [table EXCEPT ![o].flagged = TRUE]
            /\ call' = call /\ saved' = saved /\ copy' = copy
        BY <1>4, <2>2, <1>s, CallShape DEF Flag, Fails, TypeOK, locals, history
      <3> HIDE DEF o
      <3>2. \A x \in ObservationIds : table'[x] # NoRow =>
               /\ table[x] # NoRow
               /\ table'[x].credited = table[x].credited
               /\ table'[x].discredited = table[x].discredited
               /\ table'[x].rating = table[x].rating
        BY <3>1, NoRowIsNoRow DEF TypeOK, Row
      <3> QED BY <3>1, <3>2
    <2> QED BY <2>1, <2>2
  <1>5. CASE BeginDelete(r)
    BY <1>5, <1>s, CallShape DEF BeginDelete, Fails, TypeOK, database, history
  <1>6. CASE CheckCredit(r)
    BY <1>6, <1>s DEF CheckCredit, Fails
  <1>7. CASE Delete(r)
    BY <1>7 DEF Delete, TypeOK, locals, history
  <1>8. CASE ReputationRead(r)
    BY <1>8, <1>s DEF ReputationRead, database, history
  <1>9. CASE ReputationWrite(r)
    BY <1>9, <1>s DEF ReputationWrite, locals
  <1>10. CASE AddActivity(r)
    BY <1>10, <1>s DEF AddActivity, locals, history
  <1>11. CASE InsertObservation(r)
    <2>1. CASE Still
      BY <2>1
    <2>2. CASE ~Still
      BY <2>2, <1>11, <1>s DEF InsertObservation, Fails, Answer, TypeOK, locals, history,
         RowsAreInserted, Ended
    <2> QED BY <2>1, <2>2
  <1>12. CASE SaveObservation(r)
    <2>1. CASE Still
      BY <2>1
    <2>2. CASE ~Still
      BY <2>2, <1>12, <1>s DEF SaveObservation, Fails, Overwritten, Stages, Copies, locals
    <2> QED BY <2>1, <2>2
  <1>13. CASE InsertCredit(r)
    BY <1>13, <1>s DEF InsertCredit, Fails, locals, history
  <1>14. CASE NodeDies(r)
    BY <1>14, <1>s DEF NodeDies
  <1> QED BY <1>1, <1>2, <1>3, <1>4, <1>5, <1>6, <1>7, <1>8, <1>9, <1>10, <1>11, <1>12,
             <1>13, <1>14

\* Counting a vote adds it to one counter, and ranks the two.
LEMMA CountedCounts ==
    ASSUME NEW row \in Row, NEW b \in BOOLEAN
    PROVE  /\ Counted(row, b).credited = row.credited + (IF b THEN 1 ELSE 0)
           /\ Counted(row, b).discredited = row.discredited + (IF b THEN 0 ELSE 1)
           /\ Counted(row, b).rating =
                <<Counted(row, b).credited, Counted(row, b).discredited>>
    BY DEF Counted, Row, RankCredits

\* Every step keeps the stored and the copied counters within the saved votes.
LEMMA CountersStep ==
    TypeInv /\ TypeInv' /\ AuthorInv /\ CountersInv /\ [Next]_vars => CountersInv'
  <1> SUFFICES ASSUME TypeInv, TypeInv', AuthorInv, CountersInv, [Next]_vars
               PROVE  CountersInv'
    OBVIOUS
  <1>u. CASE UNCHANGED vars
    BY <1>u DEF vars, database, locals, history, CountersInv, WithinSaved, Ups, Downs,
       SavedVotes
  <1>n. CASE Next
    <2>1. call' = call
      BY <1>n, CounterSteps
    <2>2. CASE saved' = saved /\ ~\E r \in Requests : saved' = saved \cup {r} /\ r \notin saved
      <3>1. \A o : Ups(o)' = Ups(o) /\ Downs(o)' = Downs(o)
        BY <2>1, <2>2 DEF Ups, Downs, SavedVotes
      <3>2. \A o : Ups(o) \in Nat /\ Downs(o) \in Nat
        BY VotesAreNumbers DEF TypeInv
      <3>3. ASSUME NEW o \in ObservationIds, table'[o] # NoRow
            PROVE  WithinSaved(table[o], o)' 
        <4>1. CASE table[o] # NoRow
          BY <4>1, <3>1, <3>3, <2>2, <1>n, CounterSteps DEF CountersInv, WithinSaved
        <4>2. CASE table[o] = NoRow
          <5>1. table'[o] = NewRow(call[o].uid)
            BY <4>2, <3>3, <2>2, <1>n, CounterSteps
          <5>2. table'[o].credited = 0 /\ table'[o].discredited = 0
            BY <5>1 DEF NewRow
          <5> QED BY <5>2, <3>1, <3>2 DEF WithinSaved
        <4> QED BY <4>1, <4>2
      <3>4. ASSUME NEW q \in Requests, copy'[q] # NoRow
            PROVE  WithinSaved(copy[q], call[q].oid)'
        BY <3>1, <3>4, <2>1, <2>2, <1>n, CounterSteps DEF CountersInv, WithinSaved
      <3> QED BY <3>3, <3>4 DEF CountersInv
    <2>3. CASE \E r \in Requests : saved' = saved \cup {r} /\ r \notin saved
      <3>1. PICK r \in Requests :
                   /\ pc[r] = "save" /\ Op(r) = "credit" /\ r \notin saved
                   /\ saved' = saved \cup {r} /\ copy' = copy
                   /\ copy[r] \in Row
                   /\ table' = [table EXCEPT ![call[r].oid] =
                                  IF @ = NoRow THEN NoRow
                                  ELSE Counted(copy[r], call[r].credflag)]
        BY <2>3, <1>n, CounterSteps
      <3>2. /\ call[r].oid \in ObservationIds /\ call[r].credflag \in BOOLEAN
            /\ \A q \in Requests : copy[q] # NoRow => copy[q] \in Row
            /\ \A o \in ObservationIds : table[o] # NoRow => table[o] \in Row
        BY <3>1, CallShape DEF TypeInv, TypeOK
      <3>3. \A o : /\ Ups(o) \in Nat /\ Downs(o) \in Nat
                   /\ Ups(o)' = Ups(o) +
                        IF call[r].oid = o /\ call[r].credflag THEN 1 ELSE 0
                   /\ Downs(o)' = Downs(o) +
                        IF call[r].oid = o /\ ~call[r].credflag THEN 1 ELSE 0
        BY <3>1, <3>2, <2>1, VotesGrow, VotesAreNumbers DEF TypeInv
      <3>4. ASSUME NEW row \in Row, NEW o, WithinSaved(row, o)
            PROVE  row.credited <= Ups(o)' /\ row.discredited <= Downs(o)'
        <4>1. row.credited \in Nat /\ row.discredited \in Nat
          BY DEF Row
        <4> QED BY <4>1, <3>3, <3>4 DEF WithinSaved
      <3>5. ASSUME NEW q \in Requests, copy'[q] # NoRow
            PROVE  WithinSaved(copy[q], call[q].oid)'
        BY <3>1, <3>2, <3>4, <3>5, <2>1 DEF CountersInv, WithinSaved
      <3>6. ASSUME NEW o \in ObservationIds, table'[o] # NoRow
            PROVE  WithinSaved(table[o], o)'
        <4>1. CASE o # call[r].oid
          <5>1. table'[o] = table[o]
            BY <4>1, <3>1 DEF TypeInv, TypeOK
          <5> QED BY <5>1, <3>2, <3>4, <3>6 DEF CountersInv, WithinSaved
        <4>2. CASE o = call[r].oid
          <5> DEFINE new == Counted(copy[r], call[r].credflag)
          <5>1. table'[o] = new
            BY <4>2, <3>1, <3>2, <3>6 DEF TypeInv, TypeOK
          <5>2. WithinSaved(copy[r], o)
            BY <4>2, <3>1, NoRowIsNoRow DEF CountersInv
          <5>3. /\ new.credited = copy[r].credited + (IF call[r].credflag THEN 1 ELSE 0)
                /\ new.discredited = copy[r].discredited + (IF call[r].credflag THEN 0 ELSE 1)
            BY <3>1, <3>2, CountedCounts
          <5> HIDE DEF new
          <5>4. copy[r].credited \in Nat /\ copy[r].discredited \in Nat
            BY <3>1 DEF Row
          <5>5. new.credited <= Ups(o)' /\ new.discredited <= Downs(o)'
            BY <5>2, <5>3, <5>4, <4>2, <3>2, <3>3 DEF WithinSaved
          <5> QED BY <5>1, <5>5 DEF WithinSaved
        <4> QED BY <4>1, <4>2
      <3> QED BY <3>5, <3>6 DEF CountersInv
    <2> QED BY <2>2, <2>3, <1>n, CounterSteps
  <1> QED BY <1>u, <1>n

\* For any number of users, observations and racing requests, with or without
\* faults: a counter never shows more votes than were saved.
THEOREM CountersAreWithinVotes == Spec => []CountersNeverOverstate
  <1>1. ASSUME Init PROVE CountersInv
    <2>1. TypeOK
      BY <1>1, InitTypes DEF TypeInv
    <2>2. ASSUME NEW o \in ObservationIds, table[o] # NoRow
          PROVE  table[o].credited = 0 /\ table[o].discredited = 0
      BY <1>1, <2>2 DEF Init, NewRow
    <2>3. \A r \in Requests : copy[r] = NoRow
      BY <1>1 DEF Init
    <2>4. \A o : 0 <= Ups(o) /\ 0 <= Downs(o)
      BY <2>1, VotesAreNumbers
    <2> QED BY <2>2, <2>3, <2>4 DEF CountersInv, WithinSaved
  <1>2. CountersInv => CountersNeverOverstate
    BY DEF CountersInv, WithinSaved, CountersNeverOverstate, Ups, Downs
  <1> QED BY <1>1, <1>2, Types, Authors, CountersStep, PTL DEF Spec

-----------------------------------------------------------------------------
(***************************************************************************)
(* The rating, and rows that come into being.                              *)
(***************************************************************************)

\* Racing Saves never separate the rating from the counters it ranks.
THEOREM RatingsAreCurrent == Spec => []RatingIsCurrent
  <1>1. Init => RatingIsCurrent
    BY DEF Init, RatingIsCurrent, NewRow, RankCredits
  <1>2. ASSUME TypeInv, TypeInv', AuthorInv, RatingIsCurrent, [Next]_vars
        PROVE  RatingIsCurrent'
    <2>u. CASE UNCHANGED vars
      BY <1>2, <2>u DEF vars, database, RatingIsCurrent
    <2>n. CASE Next
      <3> SUFFICES ASSUME NEW o \in ObservationIds, table'[o] # NoRow
                   PROVE  table'[o].rating = <<table'[o].credited, table'[o].discredited>>
        BY DEF RatingIsCurrent
      <3>1. CASE saved' = saved /\ table[o] # NoRow
                   /\ table'[o].credited = table[o].credited
                   /\ table'[o].discredited = table[o].discredited
                   /\ table'[o].rating = table[o].rating
        BY <1>2, <3>1 DEF RatingIsCurrent
      <3>2. CASE table'[o] = NewRow(call[o].uid)
        BY <3>2 DEF NewRow, RankCredits
      <3>3. CASE \E r \in Requests :
                   /\ Op(r) = "credit" /\ copy[r] \in Row
                   /\ table' = [table EXCEPT ![call[r].oid] =
                                  IF @ = NoRow THEN NoRow
                                  ELSE Counted(copy[r], call[r].credflag)]
        <4>1. PICK r \in Requests :
                   /\ Op(r) = "credit" /\ copy[r] \in Row
                   /\ table' = [table EXCEPT ![call[r].oid] =
                                  IF @ = NoRow THEN NoRow
                                  ELSE Counted(copy[r], call[r].credflag)]
          BY <3>3
        <4>2. call[r].credflag \in BOOLEAN
          BY <1>2, <4>1, CallShape DEF TypeInv
        <4>3. \/ table'[o] = table[o]
              \/ table'[o] = Counted(copy[r], call[r].credflag)
          BY <1>2, <4>1 DEF TypeInv, TypeOK
        <4> QED BY <1>2, <4>1, <4>2, <4>3, CountedCounts DEF RatingIsCurrent
      <3> QED BY <1>2, <2>n, <3>1, <3>2, <3>3, CounterSteps
    <2> QED BY <1>2, <2>u, <2>n
  <1> QED BY <1>1, <1>2, Types, Authors, PTL DEF Spec

\* No step but the insertion of a row by its own request creates it.
Creation ==
    \A o \in ObservationIds :
        table[o] = NoRow /\ table'[o] # NoRow
            => o \in Requests /\ pc[o] = "save" /\ pc'[o] # "save"

\* A Save writes no row that is not there, and a flag sets none.
LEMMA CreationStep ==
    TypeInv /\ TypeInv' /\ AuthorInv /\ [Next]_vars => [Creation]_vars
  <1> SUFFICES ASSUME TypeInv, TypeInv', AuthorInv, Next PROVE Creation
    OBVIOUS
  <1> SUFFICES ASSUME NEW o \in ObservationIds, table[o] = NoRow, table'[o] # NoRow
               PROVE  o \in Requests /\ pc[o] = "save" /\ pc'[o] # "save"
    BY DEF Creation
  <1>1. ~\E r \in Requests :
           table' = [table EXCEPT ![call[r].oid] =
                       IF @ = NoRow THEN NoRow
                       ELSE Counted(copy[r], call[r].credflag)]
    BY DEF TypeInv, TypeOK
  <1> QED BY <1>1, CounterSteps

\* No interleaving of credits and deletions brings a deleted observation back.
THEOREM DeletedStaysDeleted == Spec => OnlyInsertCreates
  <1>1. Spec => [][Creation]_vars
    BY CreationStep, Types, Authors, PTL DEF Spec
  <1> QED BY <1>1 DEF OnlyInsertCreates, Creation

-----------------------------------------------------------------------------
(***************************************************************************)
(* Votes that leave a trace.                                               *)
(***************************************************************************)

\* Some vote on o has been saved.
Voted(o) == \E q \in saved : call[q].oid = o

\* The same property, without the two sets.
TraceInv ==
    \A o \in ObservationIds :
        table[o] # NoRow /\ Voted(o) => table[o].credited + table[o].discredited > 0

\* Every step keeps the trace: a Save writes its own vote, and a row that is
\* inserted was never voted on.
LEMMA TraceStep ==
    TypeInv /\ TypeInv' /\ AuthorInv /\ TraceInv /\ [Next]_vars => TraceInv'
  <1> SUFFICES ASSUME TypeInv, TypeInv', AuthorInv, TraceInv, [Next]_vars
               PROVE  TraceInv'
    OBVIOUS
  <1>u. CASE UNCHANGED vars
    BY <1>u DEF vars, database, history, TraceInv, Voted
  <1>n. CASE Next
    <2> SUFFICES ASSUME NEW o \in ObservationIds, table'[o] # NoRow, Voted(o)'
                 PROVE  table'[o].credited + table'[o].discredited > 0
      BY DEF TraceInv
    <2>1. call' = call
      BY <1>n, CounterSteps
    <2>2. CASE saved' = saved /\ table[o] # NoRow
                 /\ table'[o].credited = table[o].credited
                 /\ table'[o].discredited = table[o].discredited
      BY <2>1, <2>2 DEF TraceInv, Voted
    <2>3. CASE saved' = saved /\ o \in Requests /\ pc[o] = "save"
      <3>1. PICK q \in saved : call[q].oid = o
        BY <2>1, <2>3 DEF Voted
      <3>2. q \in Requests /\ copy[q] # NoRow
        BY <3>1 DEF AuthorInv, Copies, TypeInv, TypeOK
      <3>3. pc[o] \in Ended
        BY <2>3, <3>1, <3>2 DEF AuthorInv, Copies
      <3> QED BY <2>3, <3>3 DEF Ended
    <2>4. CASE \E r \in Requests :
                 /\ Op(r) = "credit" /\ copy[r] \in Row
                 /\ saved' = saved \cup {r}
                 /\ table' = [table EXCEPT ![call[r].oid] =
                                IF @ = NoRow THEN NoRow
                                ELSE Counted(copy[r], call[r].credflag)]
      <3>1. PICK r \in Requests :
                 /\ Op(r) = "credit" /\ copy[r] \in Row
                 /\ saved' = saved \cup {r}
                 /\ table' = [table EXCEPT ![call[r].oid] =
                                IF @ = NoRow THEN NoRow
                                ELSE Counted(copy[r], call[r].credflag)]
        BY <2>4
      <3>2. call[r].credflag \in BOOLEAN
        BY <3>1, CallShape DEF TypeInv
      <3>3. CASE call[r].oid = o
        <4> DEFINE new == Counted(copy[r], call[r].credflag)
        <4>1. table'[o] = new
          BY <3>1, <3>3 DEF TypeInv, TypeOK
        <4>2. /\ new.credited = copy[r].credited + (IF call[r].credflag THEN 1 ELSE 0)
              /\ new.discredited = copy[r].discredited + (IF call[r].credflag THEN 0 ELSE 1)
          BY <3>1, <3>2, CountedCounts
        <4> HIDE DEF new
        <4>3. copy[r].credited \in Nat /\ copy[r].discredited \in Nat
          BY <3>1 DEF Row
        <4> QED BY <3>2, <4>1, <4>2, <4>3
      <3>4. CASE call[r].oid # o
        <4>1. table'[o] = table[o]
          BY <3>1, <3>4 DEF TypeInv, TypeOK
        <4>2. Voted(o)
          BY <2>1, <3>1, <3>4 DEF Voted
        <4> QED BY <4>1, <4>2 DEF TraceInv
      <3> QED BY <3>3, <3>4
    <2> QED BY <1>n, <2>2, <2>3, <2>4, CounterSteps
  <1> QED BY <1>u, <1>n

\* However many requests race, an observation with a saved vote shows a vote.
THEOREM VotesLeaveTrace == Spec => []VoteLeavesTrace
  <1>1. Init => TraceInv
    BY DEF Init, TraceInv, Voted
  <1>2. TypeInv /\ TraceInv => VoteLeavesTrace
    BY DEF TraceInv, Voted, VoteLeavesTrace, SavedVotes
  <1> QED BY <1>1, <1>2, Types, Authors, TraceStep, PTL DEF Spec

-----------------------------------------------------------------------------
(***************************************************************************)
(* Fines.                                                                  *)
(***************************************************************************)

\* From its DELETE on, the observation of a deletion that does not fail is gone.
GoneInv ==
    \A r \in Requests \ Faulty :
        Op(r) = "delete" /\ (pc[r] \in {"repRead", "repWrite"} \/ r \in paid)
            => copy[r] # NoRow /\ table[call[r].oid] = NoRow

\* Every step keeps deleted observations gone.
LEMMA GoneStep ==
    TypeInv /\ TypeInv' /\ AuthorInv /\ GoneInv /\ [Next]_vars => GoneInv'
  <1> SUFFICES ASSUME TypeInv, TypeInv', AuthorInv, GoneInv, [Next]_vars
               PROVE  GoneInv'
    OBVIOUS
  <1>u. CASE UNCHANGED vars
    BY <1>u DEF vars, database, locals, history, GoneInv, Op
  <1>n. CASE Next
    <2>1. ASSUME NEW q \in Requests, Op(q) = "delete", copy[q] # NoRow,
                 table[call[q].oid] = NoRow
          PROVE  table'[call[q].oid] = NoRow
      <3>1. call[q].oid \in ObservationIds
        BY <2>1, CallShape DEF TypeInv
      <3>2. call[q].oid \in Requests => pc[call[q].oid] # "save"
        BY <2>1 DEF AuthorInv, Copies, Ended
      <3> QED BY <2>1, <3>1, <3>2, <1>n, CounterSteps, CreationStep DEF Creation, vars, database
    <2>2. PICK r \in Requests :
               \/ BeginCredit(r) \/ BeginComment(r) \/ Flag(r) \/ BeginDelete(r)
               \/ CheckCredit(r) \/ Delete(r)
               \/ ReputationRead(r) \/ ReputationWrite(r)
               \/ AddActivity(r) \/ InsertObservation(r) \/ SaveObservation(r)
               \/ InsertCredit(r) \/ NodeDies(r)
      BY <1>n DEF Next
    <2> SUFFICES ASSUME NEW q \in Requests \ Faulty, Op(q)' = "delete",
                        pc'[q] \in {"repRead", "repWrite"} \/ q \in paid'
                 PROVE  copy'[q] # NoRow /\ table'[call'[q].oid] = NoRow
      BY DEF GoneInv
    <2>3. call' = call /\ Op(q) = "delete"
      BY <1>n, CounterSteps DEF Op
    <2>4. CASE Delete(r) /\ q = r
      <3>1. copy[r] # NoRow
        BY <2>3, <2>4, NoRowIsNoRow DEF Delete, TypeInv, Stages, Steps, Op
      <3>2. call[r].oid \in ObservationIds
        BY <2>3, <2>4, CallShape DEF TypeInv
      <3> QED BY <2>3, <2>4, <3>1, <3>2 DEF Delete, locals, TypeInv, TypeOK
    <2>5. CASE ~(Delete(r) /\ q = r)
      <3>1. \/ pc[q] \in {"repRead", "repWrite"}
            \/ q \in paid
        BY <2>2, <2>3, <2>5 DEF BeginCredit, BeginComment, Flag, BeginDelete, CheckCredit,
           Delete, ReputationRead, ReputationWrite, AddActivity, InsertObservation,
           SaveObservation, InsertCredit, NodeDies, Fails, Stop, Answer, Goto, TypeInv,
           TypeOK, Stages, Steps, Op, AfterReputation, locals, history
      <3>2. copy[q] # NoRow /\ table[call[q].oid] = NoRow
        BY <2>3, <3>1 DEF GoneInv
      <3>3. copy'[q] = copy[q]
        <4>1. pc[q] # "arrive"
          BY <3>2 DEF AuthorInv, Copies
        <4> QED BY <2>2, <4>1 DEF BeginCredit, BeginComment, Flag, BeginDelete, CheckCredit,
           Delete, ReputationRead, ReputationWrite, AddActivity, InsertObservation,
           SaveObservation, InsertCredit, NodeDies, Fails, Stop, Arrives, TypeInv,
           TypeOK, locals, history
      <3> QED BY <2>1, <2>3, <3>2, <3>3
    <2> QED BY <2>4, <2>5
  <1> QED BY <1>u, <1>n

\* An author who is fined for a deletion none of whose statements failed has lost
\* the observation for good, whatever other requests do and fail to do.
THEOREM FinedOnlyWhenGone == Spec => []FinedObservationIsGone
  <1>1. Init => GoneInv
    BY DEF Init, GoneInv
  <1>2. TypeInv /\ GoneInv => FinedObservationIsGone
    BY DEF TypeInv, TypeOK, GoneInv, FinedObservationIsGone
  <1>3. TypeInv /\ TypeInv' /\ AuthorInv /\ GoneInv /\ [Next]_vars => GoneInv'
    BY GoneStep
  <1> QED BY <1>1, <1>2, <1>3, Types, Authors, PTL DEF Spec


-----------------------------------------------------------------------------
(***************************************************************************)
(* The order of the writes of one request.                                 *)
(***************************************************************************)

\* A request that has come to its credit row has saved the counters, and one
\* that has come to insert a comment has written its activity.
OrderInv ==
    /\ credits \subseteq saved
    /\ \A r \in Requests :
         /\ pc[r] = "credit" => r \in saved
         /\ pc[r] = "done" /\ Op(r) = "credit" => r \in credits
         /\ pc[r] = "save" /\ Op(r) = "comment" => r \in activity
         /\ table[r] # NoRow => r \in activity

\* Every step keeps the writes of every request in order.
LEMMA OrderStep ==
    TypeInv /\ TypeInv' /\ AuthorInv /\ OrderInv /\ [Next]_vars => OrderInv'
  <1> SUFFICES ASSUME TypeInv, TypeInv', AuthorInv, OrderInv, [Next]_vars
               PROVE  OrderInv'
    OBVIOUS
  <1>u. CASE UNCHANGED vars
    BY <1>u DEF vars, database, locals, history, OrderInv, Op
  <1>n. CASE Next
    <2>1. PICK r \in Requests :
               \/ BeginCredit(r) \/ BeginComment(r) \/ Flag(r) \/ BeginDelete(r)
               \/ CheckCredit(r) \/ Delete(r)
               \/ ReputationRead(r) \/ ReputationWrite(r)
               \/ AddActivity(r) \/ InsertObservation(r) \/ SaveObservation(r)
               \/ InsertCredit(r) \/ NodeDies(r)
      BY <1>n DEF Next
    <2>2. /\ call' = call /\ saved \subseteq saved' /\ credits \subseteq credits'
          /\ activity \subseteq activity'
          /\ \A q \in Requests \ {r} : pc'[q] = pc[q]
      BY <2>1 DEF BeginCredit, BeginComment, Flag, BeginDelete, CheckCredit, Delete,
         ReputationRead, ReputationWrite, AddActivity, InsertObservation, SaveObservation,
         InsertCredit, NodeDies, Fails, Stop, Answer, Goto, TypeInv, TypeOK, database,
         locals, history
    <2>3. /\ pc'[r] = "credit" => r \in saved'
          /\ pc'[r] = "done" /\ Op(r) = "credit" => r \in credits'
          /\ pc'[r] = "save" /\ Op(r) = "comment" => r \in activity'
      BY <2>1 DEF BeginCredit, BeginComment, Flag, BeginDelete, CheckCredit, Delete,
         ReputationRead, ReputationWrite, AddActivity, InsertObservation, SaveObservation,
         InsertCredit, NodeDies, Fails, Stop, Answer, Goto, AfterReputation, TypeInv, TypeOK,
         Stages, Steps, Ended, database, locals, history
    <2>4. credits' \subseteq saved'
      BY <2>1, <2>2 DEF BeginCredit, BeginComment, Flag, BeginDelete, CheckCredit, Delete,
         ReputationRead, ReputationWrite, AddActivity, InsertObservation, SaveObservation,
         InsertCredit, NodeDies, Fails, Stop, TypeInv, TypeOK, OrderInv, database,
         locals, history
    <2>5. ASSUME NEW q \in Requests, table'[q] # NoRow PROVE q \in activity'
      <3>1. q \in ObservationIds
        BY DEF ObservationIds
      <3>2. table[q] # NoRow \/ pc[q] = "save"
        BY <1>n, <2>5, <3>1, CreationStep DEF Creation, vars, database
      <3>3. table[q] = NoRow => Op(q) = "comment"
        <4>1. CASE table[q] = NoRow
          <5>1. Op(q)' = "comment"
            BY <2>5, <4>1, <1>n, AuthorStep DEF AuthorInv, RowsAreInserted
          <5> QED BY <2>2, <5>1 DEF Op
        <4> QED BY <4>1
      <3> QED BY <2>2, <3>2, <3>3 DEF OrderInv
    <2> QED BY <2>2, <2>3, <2>4, <2>5 DEF OrderInv, Op
  <1> QED BY <1>u, <1>n

\* The strengthened order holds in every state.
THEOREM Orders == Spec => []OrderInv
  <1>1. Init => OrderInv
    <2> SUFFICES ASSUME Init PROVE OrderInv
      OBVIOUS
    <2>1. \A r \in Requests : table[r] = NoRow
      BY RequestsAreFinite DEF Init, ObservationIds
    <2> QED BY <2>1 DEF Init, OrderInv
  <1> QED BY <1>1, Types, Authors, OrderStep, PTL DEF Spec

\* Whatever fails or dies between two statements, a vote that was answered has its
\* credit row, a credit row its saved counters, and a stored comment its activity.
THEOREM WritesKeepTheirOrder == Spec => []WritesInOrder
  <1>1. OrderInv => WritesInOrder
    BY DEF OrderInv, WritesInOrder
  <1> QED BY <1>1, Orders, PTL


-----------------------------------------------------------------------------
(***************************************************************************)
(* Reputation.                                                             *)
(***************************************************************************)
PointsOf == [r \in Requests |-> Points(r)]

\* The points of a set of requests, as the sum that DataProofs is about.
LEMMA SumIsSumOn ==
    ASSUME TypeOK, NEW S \in SUBSET Requests
    PROVE  Sum(S) = SumOn(PointsOf, S)
  <1> DEFINE Step(g) == [s \in SUBSET S |->
                           IF s = {} THEN 0 ELSE Points(Pick(s)) + g[s \ {Pick(s)}]]
  <1>1. Sum(S) = (CHOOSE g : g = Step(g))[S]
    BY DEF Sum, MapThenSumSet, MapThenFoldSet, Pick
  <1>2. IsFiniteSet(S)
    BY RequestsAreFinite, FS_Subset
  <1>3. \A r \in S : PointsOf[r] = Points(r) /\ PointsOf[r] \in Int
    BY PointsAreIntegers DEF PointsOf
  <1>4. \A s \in SUBSET S : s # {} => PointsOf[Pick(s)] = Points(Pick(s))
    BY <1>2, <1>3, PickedAway
  <1>5. ASSUME NEW g PROVE g = Step(g) <=> Sums(g, PointsOf, S)
    BY <1>4 DEF Sums
  <1> HIDE DEF Step, PointsOf
  <1>6. \E g : Sums(g, PointsOf, S)
    BY <1>2, <1>3, SumsExist
  <1>7. PICK g : g = (CHOOSE a : a = Step(a)) /\ Sums(g, PointsOf, S)
    BY <1>5, <1>6
  <1>8. PICK k : k = (CHOOSE a : Sums(a, PointsOf, S)) /\ Sums(k, PointsOf, S)
    BY <1>6
  <1>9. g[S] = k[S]
    BY <1>2, <1>3, <1>7, <1>8, SumsAgree
  <1> QED BY <1>1, <1>7, <1>8, <1>9 DEF SumOn

\* The points of no request are none, and one more request adds its own.
LEMMA PointsAddUp ==
    ASSUME TypeOK
    PROVE  /\ Sum({}) = 0
           /\ \A S \in SUBSET Requests : \A r \in Requests \ S :
                 Sum(S \cup {r}) = Sum(S) + Points(r)
  <1>1. /\ IsFiniteSet(Requests)
        /\ \A r \in Requests : PointsOf[r] = Points(r) /\ PointsOf[r] \in Int
    BY RequestsAreFinite, PointsAreIntegers DEF PointsOf
  <1>2. Sum({}) = 0
    <2>1. Sum({}) = SumOn(PointsOf, {})
      BY SumIsSumOn
    <2> QED BY <1>1, <2>1, SumFacts
  <1>3. ASSUME NEW S \in SUBSET Requests, NEW r \in Requests \ S
        PROVE  Sum(S \cup {r}) = Sum(S) + Points(r)
    <2>1. PICK T : T = S \cup {r}
      OBVIOUS
    <2>2. T \in SUBSET Requests /\ r \in T /\ T \ {r} = S
      BY <2>1
    <2>3. IsFiniteSet(T) /\ IsFiniteSet(S)
      BY <1>1, <2>2, FS_Subset
    <2>4. \A x \in T : PointsOf[x] \in Int
      BY <1>1, <2>2
    <2>5. SumOn(PointsOf, T) = PointsOf[r] + SumOn(PointsOf, T \ {r})
      BY <2>2, <2>3, <2>4, SumFacts
    <2>6. SumOn(PointsOf, S) \in Int
      BY <1>1, <2>3, SumFacts
    <2>7. Sum(T) = SumOn(PointsOf, T) /\ Sum(S) = SumOn(PointsOf, S)
      BY <2>2, SumIsSumOn
    <2>8. Points(r) \in Int /\ PointsOf[r] = Points(r)
      BY <1>1
    <2>9. Sum(T) = Points(r) + Sum(S) /\ Sum(S) \in Int
      BY <2>2, <2>5, <2>6, <2>7, <2>8
    <2> QED BY <2>1, <2>8, <2>9
  <1> QED BY <1>2, <1>3

\* Some requests paid to u add up to the value v.
PaidTo(u) == {q \in paid : Beneficiary(q) = u}
Explained(u, v) == \E S \in SUBSET PaidTo(u) : v = Sum(S)

\* What is stored is explained, and so is what a request has read and is about
\* to write back; the beneficiary of a request is settled when it is paid.
ReputationInv ==
    /\ paid \subseteq Requests
    /\ \A u \in Users : Explained(u, reputation[u])
    /\ \A r \in Requests :
         /\ pc[r] = "repWrite" => Explained(Beneficiary(r), seen[r])
         /\ r \in paid => pc[r] \in {"activity", "save", "credit"} \cup Ended

\* The same, for any set of requests at once.
LEMMA SumsAreSumsOn ==
    TypeOK => \A S \in SUBSET Requests : Sum(S) = SumOn(PointsOf, S)
  BY SumIsSumOn

\* The same, after a step.
LEMMA SumsAreSumsOnAfter ==
    TypeOK' => \A S \in SUBSET Requests : Sum(S)' = SumOn(PointsOf', S)
  <1>1. (TypeOK => \A S \in SUBSET Requests : Sum(S) = SumOn(PointsOf, S))'
    BY SumsAreSumsOn, PTL
  <1> QED BY <1>1

\* A step leaves what a set of requests is worth alone: calls never change.
LEMMA SumStays ==
    ASSUME TypeInv, TypeInv', call' = call, NEW S \in SUBSET Requests
    PROVE  Sum(S)' = Sum(S)
  <1>1. TypeOK /\ TypeOK'
    BY DEF TypeInv
  <1>2. PointsOf' = PointsOf
    BY DEF PointsOf, Points, Op
  <1>3. Sum(S)' = SumOn(PointsOf', S)
    BY <1>1, SumsAreSumsOnAfter
  <1> QED BY <1>1, <1>2, <1>3, SumIsSumOn

\* What is explained stays so: no request that was paid changes its beneficiary.
LEMMA ExplainedStays ==
    ASSUME TypeInv, TypeInv', ReputationInv, [Next]_vars, NEW u, NEW v, Explained(u, v)
    PROVE  Explained(u, v)'
  <1>u. CASE UNCHANGED vars
    <2>1. call' = call /\ copy' = copy /\ paid' = paid
      BY <1>u DEF vars, locals, history
    <2>2. PaidTo(u)' = PaidTo(u)
      BY <2>1 DEF PaidTo, Beneficiary, Op
    <2>3. PICK S \in SUBSET PaidTo(u) : v = Sum(S)
      BY DEF Explained
    <2>4. Sum(S)' = Sum(S)
      BY <2>1, <2>3, SumStays DEF PaidTo, ReputationInv
    <2> QED BY <2>2, <2>3, <2>4 DEF Explained
  <1>n. CASE Next
    <2>1. PICK r \in Requests :
               \/ BeginCredit(r) \/ BeginComment(r) \/ Flag(r) \/ BeginDelete(r)
               \/ CheckCredit(r) \/ Delete(r)
               \/ ReputationRead(r) \/ ReputationWrite(r)
               \/ AddActivity(r) \/ InsertObservation(r) \/ SaveObservation(r)
               \/ InsertCredit(r) \/ NodeDies(r)
      BY <1>n DEF Next
    <2>2. call' = call /\ paid \subseteq paid'
      BY <2>1 DEF BeginCredit, BeginComment, Flag, BeginDelete, CheckCredit, Delete,
         ReputationRead, ReputationWrite, AddActivity, InsertObservation, SaveObservation,
         InsertCredit, NodeDies, Fails, Stop, database, locals, history
    <2>3. \A q \in Requests : (q = r /\ pc[q] = "arrive") \/ copy'[q] = copy[q]
      BY <2>1 DEF BeginCredit, BeginComment, Flag, BeginDelete, CheckCredit, Delete,
         ReputationRead, ReputationWrite, AddActivity, InsertObservation, SaveObservation,
         InsertCredit, NodeDies, Fails, Stop, Arrives, TypeInv, TypeOK, database, locals,
         history
    <2>4. \A q \in paid : q \in Requests /\ copy'[q] = copy[q]
      BY <2>3 DEF ReputationInv, Ended
    <2>5. \A q \in paid : Beneficiary(q)' = Beneficiary(q)
      BY <2>2, <2>4 DEF Beneficiary, Op
    <2>6. PaidTo(u) \subseteq PaidTo(u)'
      BY <2>2, <2>5 DEF PaidTo
    <2>7. PICK S \in SUBSET PaidTo(u) : v = Sum(S)
      BY DEF Explained
    <2>8. Sum(S)' = Sum(S)
      BY <2>2, <2>7, SumStays DEF PaidTo, ReputationInv
    <2>9. v' = Sum(S)'
      BY <2>7, <2>8
    <2> QED BY <2>6, <2>7, <2>9 DEF Explained
  <1> QED BY <1>u, <1>n

\* Every step keeps reputations explained: a write adds the points of its request
\* to a value that was explained when it was read.
LEMMA ReputationStep ==
    TypeInv /\ TypeInv' /\ ReputationInv /\ [Next]_vars => ReputationInv'
  <1> SUFFICES ASSUME TypeInv, TypeInv', ReputationInv, [Next]_vars
               PROVE  ReputationInv'
    OBVIOUS
  <1>1. \A u, v : Explained(u, v) => Explained(u, v)'
    BY ExplainedStays
  <1>u. CASE UNCHANGED vars
    <2>1. UNCHANGED <<reputation, pc, seen, paid, copy, call>>
      BY <1>u DEF vars, database, locals, history
    <2>2. \A r \in Requests : Beneficiary(r)' = Beneficiary(r)
      BY <2>1 DEF Beneficiary, Op
    <2> QED BY <1>1, <2>1, <2>2 DEF ReputationInv
  <1>n. CASE Next
    <2>1. PICK r \in Requests :
               \/ BeginCredit(r) \/ BeginComment(r) \/ Flag(r) \/ BeginDelete(r)
               \/ CheckCredit(r) \/ Delete(r)
               \/ ReputationRead(r) \/ ReputationWrite(r)
               \/ AddActivity(r) \/ InsertObservation(r) \/ SaveObservation(r)
               \/ InsertCredit(r) \/ NodeDies(r)
      BY <1>n DEF Next
    <2>2. /\ call' = call /\ \A q \in Requests \ {r} : pc'[q] = pc[q]
          /\ \A q \in Requests : (q = r /\ pc[q] = "arrive") \/ copy'[q] = copy[q]
      BY <2>1 DEF BeginCredit, BeginComment, Flag, BeginDelete, CheckCredit, Delete,
         ReputationRead, ReputationWrite, AddActivity, InsertObservation, SaveObservation,
         InsertCredit, NodeDies, Fails, Stop, Answer, Goto, Arrives, TypeInv, TypeOK, database,
         locals, history
    <2>3. \A q \in Requests : (q = r /\ pc[q] = "arrive") \/ Beneficiary(q)' = Beneficiary(q)
      BY <2>2 DEF Beneficiary, Op
    <2>4. \/ reputation' = reputation /\ paid' = paid
          \/ ReputationWrite(r) /\ paid' = paid \cup {r}
               /\ reputation' = [reputation EXCEPT ![Beneficiary(r)] = NewReputation(r)]
      BY <2>1 DEF BeginCredit, BeginComment, Flag, BeginDelete, CheckCredit, Delete,
         ReputationRead, ReputationWrite, AddActivity, InsertObservation, SaveObservation,
         InsertCredit, NodeDies, Fails, Stop, database, history
    <2>5. paid' \subseteq Requests
      BY DEF TypeInv, TypeOK
    <2>6. ASSUME NEW q \in Requests, q \in paid'
          PROVE  pc'[q] \in {"activity", "save", "credit"} \cup Ended
      <3>1. CASE q \in paid
        BY <2>1, <2>2, <3>1 DEF BeginCredit, BeginComment, Flag, BeginDelete, CheckCredit,
           Delete, ReputationRead, ReputationWrite, AddActivity, InsertObservation,
           SaveObservation, InsertCredit, NodeDies, Fails, Stop, Answer, Goto, Arrives,
           TypeInv, TypeOK, ReputationInv, Ended
      <3>2. CASE q \notin paid
        BY <2>4, <2>6, <3>2 DEF ReputationWrite, Stop, Goto, AfterReputation, TypeInv,
           TypeOK, Ended
      <3> QED BY <3>1, <3>2
    <2>7. ASSUME NEW q \in Requests, pc'[q] = "repWrite"
          PROVE  Explained(Beneficiary(q), seen[q])'
      <3>1. CASE pc[q] = "repWrite"
        <4>1. seen'[q] = seen[q]
          BY <2>1, <2>7, <3>1 DEF BeginCredit, BeginComment, Flag, BeginDelete, CheckCredit,
             Delete, ReputationRead, ReputationWrite, AddActivity, InsertObservation,
             SaveObservation, InsertCredit, NodeDies, Fails, Stop, Arrives, TypeInv, TypeOK,
             locals
        <4>2. Explained(Beneficiary(q), seen[q])
          BY <3>1 DEF ReputationInv
        <4>3. Beneficiary(q)' = Beneficiary(q)
          BY <2>3, <3>1
        <4>4. PICK u, v : u = Beneficiary(q) /\ v = seen[q]
          OBVIOUS
        <4>5. Explained(u, v)'
          BY <1>1, <4>2, <4>4
        <4> QED BY <4>1, <4>3, <4>4, <4>5
      <3>2. CASE pc[q] # "repWrite"
        <4>1. q = r /\ ReputationRead(r) /\ Beneficiary(r) \in Users
              /\ seen' = [seen EXCEPT ![r] = reputation[Beneficiary(r)]]
          BY <2>1, <2>2, <2>7, <3>2 DEF BeginCredit, BeginComment, Flag, BeginDelete,
             CheckCredit, Delete, ReputationRead, ReputationWrite, AddActivity,
             InsertObservation, SaveObservation, InsertCredit, NodeDies, Fails, Stop, Answer,
             Goto, AfterReputation, TypeInv, TypeOK
        <4>2. pc[r] = "repRead"
          BY <4>1 DEF ReputationRead
        <4>3. PICK u, v : u = Beneficiary(r) /\ v = reputation[u]
          OBVIOUS
        <4>4. Explained(u, v)
          BY <4>1, <4>3 DEF ReputationInv
        <4>5. Explained(u, v)'
          BY <1>1, <4>4
        <4>6. Beneficiary(q)' = u /\ seen'[q] = v
          BY <2>3, <4>1, <4>2, <4>3 DEF TypeInv, TypeOK
        <4> QED BY <4>5, <4>6
      <3> QED BY <3>1, <3>2
    <2>8. ASSUME NEW u \in Users
          PROVE  Explained(u, reputation[u])'
      <3>1. CASE reputation'[u] = reputation[u]
        <4>1. PICK v : v = reputation[u]
          OBVIOUS
        <4>2. Explained(u, v)
          BY <4>1 DEF ReputationInv
        <4>3. Explained(u, v)'
          BY <1>1, <4>2
        <4> QED BY <3>1, <4>1, <4>3
      <3>2. CASE reputation'[u] # reputation[u]
        <4>1. /\ ReputationWrite(r) /\ u = Beneficiary(r) /\ paid' = paid \cup {r}
              /\ reputation'[u] = seen[r] + Points(r)
          BY <2>4, <3>2 DEF NewReputation, TypeInv, TypeOK
        <4>2. pc[r] = "repWrite"
          BY <4>1 DEF ReputationWrite
        <4>3. PICK v : v = seen[r]
          OBVIOUS
        <4>4. Explained(u, v)
          BY <4>1, <4>2, <4>3 DEF ReputationInv
        <4>5. PICK S \in SUBSET PaidTo(u) : v = Sum(S)
          BY <4>4 DEF Explained
        <4>6. S \in SUBSET Requests /\ r \notin S
          BY <4>2, <4>5 DEF PaidTo, ReputationInv, Ended
        <4>7. Sum(S \cup {r}) = v + Points(r)
          BY <4>5, <4>6, PointsAddUp DEF TypeInv
        <4>8. S \cup {r} \in SUBSET Requests
          BY <4>6
        <4>9. Sum(S \cup {r})' = Sum(S \cup {r})
          <5>1. PICK T \in SUBSET Requests : T = S \cup {r}
            BY <4>8
          <5>2. Sum(T)' = Sum(T)
            BY <2>2, SumStays
          <5> QED BY <5>1, <5>2
        <4>10. S \cup {r} \subseteq PaidTo(u)'
          <5>1. \A q \in S \cup {r} : q \in Requests /\ q \in paid' /\ Beneficiary(q) = u
            BY <4>1, <4>5, <4>6 DEF PaidTo
          <5>2. \A q \in S \cup {r} : pc[q] # "arrive"
            BY <4>2, <4>5, <4>6 DEF PaidTo, ReputationInv, Ended
          <5> QED BY <2>3, <5>1, <5>2 DEF PaidTo
        <4>11. reputation'[u] = Sum(S \cup {r})'
          BY <4>1, <4>3, <4>7, <4>9
        <4> QED BY <4>10, <4>11 DEF Explained
      <3> QED BY <3>1, <3>2
    <2> QED BY <2>5, <2>6, <2>7, <2>8 DEF ReputationInv
  <1> QED BY <1>u, <1>n

\* What is stored and what is about to be written are explained in every state.
THEOREM Reputations == Spec => []ReputationInv
  <1>1. Init => ReputationInv
    <2> SUFFICES ASSUME Init PROVE ReputationInv
      OBVIOUS
    <2>1. Sum({}) = 0
      BY InitTypes, PointsAddUp DEF TypeInv
    <2>2. \A u \in Users : Explained(u, reputation[u])
      BY <2>1 DEF Init, Explained
    <2> QED BY <2>2 DEF Init, ReputationInv
  <1> QED BY <1>1, Types, ReputationStep, PTL DEF Spec

\* Points are lost to racing writes, but what is stored is always the sum of the
\* points of some of the requests that were paid to the user.
THEOREM ReputationsAddUp == Spec => []ReputationIsExplained
  <1>1. ReputationInv => ReputationIsExplained
    BY DEF ReputationInv, ReputationIsExplained, Explained, PaidTo
  <1> QED BY <1>1, Reputations, PTL

-----------------------------------------------------------------------------
(***************************************************************************)
(* The refinement.  One request at a time and without faults the handlers  *)
(* implement ObservationLedger: for any users, observations and requests   *)
(* the initial states are initial states of the ledger, and every          *)
(* statement is a step of the ledger or leaves it alone.                   *)
(***************************************************************************)

\* One request at a time, and no statement fails.
Serially == Workers = 1 /\ Faulty = {} /\ NoRowIsNoEntry

\* At most one request is in progress.
Alone == \A q, r \in Requests : pc[q] \in Steps /\ pc[r] \in Steps => q = r

\* Before its Save, a vote has in its struct the row that is stored, which is
\* not of the voter; past its look-up, the vote was never cast.
VotesAreFresh ==
    \A r \in Requests :
        Op(r) = "credit" /\ pc[r] \in {"check", "repRead", "repWrite", "activity", "save"} =>
            /\ table[call[r].oid] = copy[r]
            /\ copy[r].uid # call[r].uid
            /\ pc[r] # "check" => \A q \in saved : ~SameVote(q, r)

\* A vote is saved together with its credit row, but for the insertion of that
\* row, and only votes are saved.
VotesAreCredited ==
    \A q \in saved : Op(q) = "credit" /\ (q \in credits \/ pc[q] = "credit")

\* A deletion starts from the row that is stored.
DeletionsAreFresh ==
    \A r \in Requests : pc[r] = "delete" => table[call[r].oid] = copy[r]

\* The reputation is written from the value that is stored; a vote and a comment
\* have paid at their activity, when there is someone to pay, and not before.
PaymentsAreFresh ==
    \A r \in Requests :
        /\ pc[r] = "repWrite" => seen[r] = reputation[Beneficiary(r)]
        /\ pc[r] \in {"activity", "save"} =>
             (r \in paid <=> Beneficiary(r) \in Users)

SerialInv ==
    Alone /\ VotesAreFresh /\ VotesAreCredited /\ DeletionsAreFresh /\ PaymentsAreFresh

\* All that is known of a state that serial requests reach.
Known == TypeInv /\ AuthorInv /\ OrderInv /\ ReputationInv /\ SerialInv

\* Nothing has begun, so all of it holds.
LEMMA SerialInit == Init => SerialInv
  BY DEF Init, SerialInv, Alone, VotesAreFresh, VotesAreCredited, DeletionsAreFresh,
     PaymentsAreFresh, Steps

\* A request arrives when no other is in progress.
LEMMA ArrivesAlone ==
    ASSUME Serially, NEW r \in Requests, Arrives(r)
    PROVE  \A q \in Requests : pc[q] \notin Steps
  <1>1. InFlight \subseteq Requests /\ IsFiniteSet(InFlight)
    BY RequestsAreFinite, FS_Subset DEF InFlight
  <1>2. Cardinality(InFlight) \in Nat /\ Cardinality(InFlight) < 1
    BY <1>1, FS_CardinalityType DEF Arrives, Serially
  <1>3. InFlight = {}
    BY <1>1, <1>2, FS_EmptySet
  <1> QED BY <1>3 DEF InFlight

\* The statements a request can execute, when none of them fails.
Acts(r) ==
    \/ BeginCredit(r) \/ BeginComment(r) \/ Flag(r) \/ BeginDelete(r)
    \/ CheckCredit(r) \/ Delete(r)
    \/ ReputationRead(r) \/ ReputationWrite(r)
    \/ AddActivity(r) \/ InsertObservation(r) \/ SaveObservation(r)
    \/ InsertCredit(r)

\* The request that takes a step is the only one there is, before and after it.
LEMMA OneActs ==
    ASSUME Serially, TypeInv, Alone, Next
    PROVE  /\ call' = call
           /\ \E r \in Requests :
                /\ Acts(r)
                /\ \A q \in Requests \ {r} : /\ pc[q] \notin Steps
                                             /\ pc'[q] = pc[q]
                                             /\ copy'[q] = copy[q]
  <1> USE DEF TypeInv, Serially
  <1>1. PICK r \in Requests : Acts(r)
    BY DEF Next, Acts, NodeDies
  <1>2. pc[r] \in Steps \/ Arrives(r)
    BY <1>1 DEF Acts, BeginCredit, BeginComment, Flag, BeginDelete, CheckCredit, Delete,
       ReputationRead, ReputationWrite, AddActivity, InsertObservation, SaveObservation,
       InsertCredit, Steps
  <1>3. \A q \in Requests \ {r} : pc[q] \notin Steps
    BY <1>2, ArrivesAlone DEF Alone
  <1>4. call' = call /\ \A q \in Requests \ {r} : pc'[q] = pc[q] /\ copy'[q] = copy[q]
    BY <1>1 DEF Acts, BeginCredit, BeginComment, Flag, BeginDelete, CheckCredit, Delete,
       ReputationRead, ReputationWrite, AddActivity, InsertObservation, SaveObservation,
       InsertCredit, Fails, Stop, Answer, Goto, TypeOK, database, locals, history
  <1> QED BY <1>1, <1>3, <1>4

\* Every step keeps what a lone request relies on.
LEMMA SerialStep ==
    ASSUME Serially, Known, TypeInv', AuthorInv', ReputationInv', [Next]_vars
    PROVE  SerialInv'
  <1>u. CASE UNCHANGED vars
    BY <1>u DEF vars, database, locals, history, Known, SerialInv, Alone, VotesAreFresh,
       VotesAreCredited, DeletionsAreFresh, PaymentsAreFresh, Op, SameVote, Beneficiary
  <1>n. CASE Next
    <2> USE DEF Known, SerialInv, TypeInv, Serially, Goto
    <2>1. /\ call' = call
          /\ \E r \in Requests :
                /\ Acts(r)
                /\ \A q \in Requests \ {r} : /\ pc[q] \notin Steps
                                             /\ pc'[q] = pc[q]
                                             /\ copy'[q] = copy[q]
      BY <1>n, OneActs
    <2>2. PICK r \in Requests :
                /\ Acts(r)
                /\ \A q \in Requests \ {r} : /\ pc[q] \notin Steps
                                             /\ pc'[q] = pc[q]
                                             /\ copy'[q] = copy[q]
      BY <2>1
    <2>3. Alone'
      BY <2>2 DEF Alone
    <2>4. \A q, p : SameVote(q, p)' = SameVote(q, p)
      BY <2>1 DEF SameVote, Op
    <2>5. VotesAreCredited'
      <3>1. CASE saved' = saved
        <4>1. \A q \in credits : q \in credits'
          BY <2>2 DEF Acts, BeginCredit, BeginComment, Flag, BeginDelete, CheckCredit, Delete,
             ReputationRead, ReputationWrite, AddActivity, InsertObservation, SaveObservation,
             InsertCredit, Fails, Stop, database, history
        <4>2. pc[r] = "credit" /\ r \in saved => r \in credits'
          BY <2>2 DEF Acts, BeginCredit, BeginComment, Flag, BeginDelete, CheckCredit, Delete,
             ReputationRead, ReputationWrite, AddActivity, InsertObservation, SaveObservation,
             InsertCredit, Fails, Arrives
        <4>3. \A q \in saved : q \in Requests
          BY DEF TypeOK
        <4>4. \A q \in saved : pc[q] = "credit" => q = r
          BY <2>2, <4>3 DEF Steps
        <4> QED BY <2>1, <3>1, <4>1, <4>2, <4>4 DEF VotesAreCredited, Op
      <3>2. CASE saved' # saved
        <4>1. /\ Op(r) = "credit" /\ saved' = saved \cup {r} /\ pc'[r] = "credit"
              /\ credits' = credits
          BY <2>2, <3>2 DEF Acts, BeginCredit, BeginComment, Flag, BeginDelete, CheckCredit,
             Delete, ReputationRead, ReputationWrite, AddActivity, InsertObservation,
             SaveObservation, InsertCredit, Fails, Stop, TypeOK, history
        <4>2. pc[r] # "credit"
          BY <2>2, <3>2 DEF Acts, BeginCredit, BeginComment, Flag, BeginDelete, CheckCredit,
             Delete, ReputationRead, ReputationWrite, AddActivity, InsertObservation,
             SaveObservation, InsertCredit, Fails, Stop, Arrives, history
        <4>3. \A q \in saved : q \in Requests
          BY DEF TypeOK
        <4> QED BY <2>1, <2>2, <4>1, <4>2, <4>3 DEF VotesAreCredited, Op
      <3> QED BY <3>1, <3>2
    <2>6. VotesAreFresh'
      <3> SUFFICES ASSUME Op(r) = "credit",
                          pc'[r] \in {"check", "repRead", "repWrite", "activity", "save"}
                   PROVE  /\ table'[call[r].oid] = copy'[r]
                          /\ copy'[r].uid # call[r].uid
                          /\ pc'[r] # "check" => \A q \in saved' : ~SameVote(q, r)
        BY <2>1, <2>2, <2>4 DEF VotesAreFresh, Steps, Op
      <3>1. CASE BeginCredit(r)
        BY <3>1 DEF BeginCredit, Fails, Stop, Owned, TypeOK, database
      <3>2. CASE CheckCredit(r)
        <4>1. \A q \in saved : q \in credits
          BY <2>2, <3>2 DEF CheckCredit, VotesAreCredited, Steps, TypeOK
        <4> QED BY <3>2, <4>1 DEF CheckCredit, Fails, Stop, TypeOK, VotesAreFresh, database,
                   locals, history
      <3>3. CASE ReputationRead(r) \/ ReputationWrite(r) \/ AddActivity(r)
        BY <3>3 DEF ReputationRead, ReputationWrite, AddActivity, AfterReputation, Stop,
           TypeOK, VotesAreFresh, database, locals, history
      <3>4. BeginCredit(r) \/ CheckCredit(r) \/ ReputationRead(r) \/ ReputationWrite(r)
              \/ AddActivity(r)
        BY <2>2 DEF Acts, BeginComment, Flag, BeginDelete, Delete, InsertObservation,
           SaveObservation, InsertCredit, Fails, Answer, Stages, TypeOK
      <3> QED BY <3>1, <3>2, <3>3, <3>4
    <2>7. DeletionsAreFresh'
      <3>1. pc'[r] = "delete" => BeginDelete(r) /\ table' = table
                                   /\ copy' = [copy EXCEPT ![r] = table[call[r].oid]]
        BY <2>2 DEF Acts, BeginCredit, BeginComment, Flag, BeginDelete, CheckCredit, Delete,
           ReputationRead, ReputationWrite, AddActivity, InsertObservation, SaveObservation,
           InsertCredit, Fails, Stop, Answer, AfterReputation, TypeOK, database
      <3> QED BY <2>1, <2>2, <3>1 DEF DeletionsAreFresh, TypeOK, Steps
    <2>8. PaymentsAreFresh'
      <3> SUFFICES /\ pc'[r] = "repWrite" => seen'[r] = reputation'[Beneficiary(r)']
                   /\ pc'[r] \in {"activity", "save"} =>
                        (r \in paid' <=> Beneficiary(r)' \in Users)
        BY <2>2 DEF PaymentsAreFresh, Steps
      <3>1. CASE pc'[r] \notin {"repWrite", "activity", "save"}
        BY <3>1
      <3>2. CASE pc'[r] \in {"repWrite", "activity", "save"}
        <4>1. ReputationRead(r) \/ ReputationWrite(r) \/ AddActivity(r)
          BY <2>2, <3>2 DEF Acts, BeginCredit, BeginComment, Flag, BeginDelete, CheckCredit,
             Delete, InsertObservation, SaveObservation, InsertCredit, Fails, Stop, Answer,
             TypeOK
        <4>2. Beneficiary(r)' = Beneficiary(r)
          BY <2>1, <4>1 DEF ReputationRead, ReputationWrite, AddActivity, Stop, locals,
             Beneficiary, Op
        <4>3. CASE ReputationRead(r)
          <5>1. r \notin paid
            BY <4>3 DEF ReputationRead, ReputationInv, Ended
          <5> QED BY <3>2, <4>2, <4>3, <5>1 DEF ReputationRead, AfterReputation, Stop, TypeOK,
                     database, history
        <4>4. CASE ReputationWrite(r)
          BY <3>2, <4>2, <4>4 DEF ReputationWrite, AfterReputation, Stages, TypeOK
        <4>5. CASE AddActivity(r)
          BY <3>2, <4>2, <4>5 DEF AddActivity, TypeOK, PaymentsAreFresh, history
        <4> QED BY <4>1, <4>3, <4>4, <4>5
      <3> QED BY <3>1, <3>2
    <2> QED BY <2>3, <2>5, <2>6, <2>7, <2>8
  <1> QED BY <1>u, <1>n

\* All of it holds in every state of a serial behaviour.
LEMMA SerialStates ==
    ASSUME Serially
    PROVE  Spec => []Known
  <1>1. Known /\ TypeInv' /\ AuthorInv' /\ ReputationInv' /\ [Next]_vars => SerialInv'
    BY SerialStep
  <1>2. Known <=> TypeInv /\ AuthorInv /\ OrderInv /\ ReputationInv /\ SerialInv
    BY DEF Known
  <1> QED BY <1>1, <1>2, SerialInit, Types, Authors, Orders, Reputations, PTL DEF Spec

-----------------------------------------------------------------------------
(***************************************************************************)
(* What is owed while one request is in progress.                          *)
(***************************************************************************)

\* What the request r makes the ledger owe user u.
Owing(r, u) ==
    IF Beneficiary(r) # u THEN 0
    ELSE IF r \in PaidBehind THEN Points(r)
    ELSE IF r \in PaidAhead THEN 0 - Points(r)
    ELSE 0

\* With one request at most in progress the two sums have one term at most.
LEMMA OwedByOne ==
    TypeInv =>
        \A r \in Requests : (\A q \in Requests \ {r} : pc[q] \notin Steps)
            => \A u \in Users : Owed(u) = Owing(r, u)
  <1> SUFFICES ASSUME TypeInv, NEW r \in Requests,
                      \A q \in Requests \ {r} : pc[q] \notin Steps,
                      NEW u \in Users
               PROVE  Owed(u) = Owing(r, u)
    OBVIOUS
  <1> DEFINE B == {q \in PaidBehind : Beneficiary(q) = u}
             A == {q \in PaidAhead : Beneficiary(q) = u}
  <1>1. /\ PaidBehind \subseteq {r} /\ PaidAhead \subseteq {r}
        /\ r \in PaidBehind => r \notin PaidAhead
    BY DEF PaidBehind, PaidAhead, Steps, TypeInv, TypeOK
  <1>2. Points(r) \in Int /\ Sum({}) = 0
    BY PointsAreIntegers, PointsAddUp DEF TypeInv
  <1>3. Sum({r}) = Points(r)
    <2>1. {} \in SUBSET Requests /\ r \in Requests \ {}
      OBVIOUS
    <2>2. Sum({} \cup {r}) = Sum({}) + Points(r)
      BY <2>1, PointsAddUp DEF TypeInv
    <2>3. {} \cup {r} = {r}
      OBVIOUS
    <2> QED BY <1>2, <2>2, <2>3
  <1>4. Owed(u) = Sum(B) - Sum(A)
    BY DEF Owed
  <1>5. CASE Beneficiary(r) # u
    <2>1. B = {} /\ A = {}
      BY <1>1, <1>5
    <2> QED BY <1>2, <1>4, <1>5, <2>1 DEF Owing
  <1>6. CASE Beneficiary(r) = u /\ r \in PaidBehind
    <2>1. B = {r} /\ A = {}
      BY <1>1, <1>6
    <2> HIDE DEF B, A
    <2> QED BY <1>2, <1>3, <1>4, <1>6, <2>1 DEF Owing
  <1>7. CASE Beneficiary(r) = u /\ r \notin PaidBehind /\ r \in PaidAhead
    <2>1. B = {} /\ A = {r}
      BY <1>1, <1>7
    <2> HIDE DEF B, A
    <2> QED BY <1>2, <1>3, <1>4, <1>7, <2>1 DEF Owing
  <1>8. CASE Beneficiary(r) = u /\ r \notin PaidBehind /\ r \notin PaidAhead
    <2>1. B = {} /\ A = {}
      BY <1>1, <1>8
    <2> HIDE DEF B, A
    <2> QED BY <1>2, <1>4, <1>8, <2>1 DEF Owing
  <1> QED BY <1>5, <1>6, <1>7, <1>8

\* The same, after a step.
LEMMA OwedByOneAfter ==
    TypeInv' =>
        \A r \in Requests : (\A q \in Requests \ {r} : pc'[q] \notin Steps)
            => \A u \in Users : Owed(u)' = Owing(r, u)'
  <1>1. (TypeInv =>
            \A r \in Requests : (\A q \in Requests \ {r} : pc[q] \notin Steps)
                => \A u \in Users : Owed(u) = Owing(r, u))'
    BY OwedByOne, PTL
  <1> QED BY <1>1

\* The step of a lone request changes the standing of a user by the change of
\* the reputation and of what the request makes the ledger owe.
LEMMA StandingStep ==
    ASSUME TypeInv, TypeInv', NEW r \in Requests,
           \A q \in Requests \ {r} : pc[q] \notin Steps /\ pc'[q] = pc[q],
           call' = call
    PROVE  /\ LedgerStanding = [u \in Users |-> reputation[u] + Owing(r, u)]
           /\ LedgerStanding' = [u \in Users |-> reputation'[u] + Owing(r, u)']
           /\ \A u \in Users : /\ reputation[u] \in Int /\ reputation'[u] \in Int
                               /\ Owing(r, u) \in Int /\ Owing(r, u)' \in Int
  <1>1. \A u \in Users : Owed(u) = Owing(r, u)
    BY OwedByOne
  <1>2. \A u \in Users : Owed(u)' = Owing(r, u)'
    BY OwedByOneAfter
  <1>3. \A u \in Users : reputation[u] \in Int /\ reputation'[u] \in Int
    BY DEF TypeInv, TypeOK
  <1>4. Points(r) \in Int
    BY PointsAreIntegers DEF TypeInv
  <1>5. Points(r)' = Points(r)
    BY DEF Points, Op
  <1>6. \A u \in Users : Owing(r, u) \in Int
    BY <1>4 DEF Owing
  <1>7. \A u \in Users : Owing(r, u)' \in Int
    BY <1>4, <1>5 DEF Owing
  <1> QED BY <1>1, <1>2, <1>3, <1>6, <1>7 DEF LedgerStanding

-----------------------------------------------------------------------------
(***************************************************************************)
(* The simulation.                                                         *)
(***************************************************************************)

\* r is alone before and after its step.
OneStep(r) ==
    /\ Acts(r) /\ call' = call
    /\ \A q \in Requests \ {r} : /\ pc[q] \notin Steps
                                 /\ pc'[q] = pc[q]
                                 /\ copy'[q] = copy[q]

\* A request is owed for or owes by where it is.
LEMMA WhoOwes ==
    ASSUME TypeInv, NEW r \in Requests, OneStep(r)
    PROVE  /\ r \in PaidBehind <=> Op(r) = "delete" /\ pc[r] \in {"repRead", "repWrite"}
           /\ r \in PaidBehind' <=> Op(r) = "delete" /\ pc'[r] \in {"repRead", "repWrite"}
           /\ r \in PaidAhead <=> r \in paid /\ pc[r] \in {"activity", "save"}
           /\ r \in PaidAhead' <=> r \in paid' /\ pc'[r] \in {"activity", "save"}
           /\ Points(r)' = Points(r) /\ Points(r) \in Int
  <1>1. Points(r) \in Int
    BY PointsAreIntegers DEF TypeInv
  <1>2. Points(r)' = Points(r)
    BY DEF Points, Op, OneStep
  <1> QED BY <1>1, <1>2 DEF PaidBehind, PaidAhead, Op, OneStep

\* A step that writes no observation and settles what it pays is no step of the
\* ledger.
LEMMA QuietStep ==
    ASSUME TypeInv, TypeInv', NEW r \in Requests, OneStep(r),
           table' = table, saved' = saved,
           Op(r) = "comment" => (pc'[r] = "done" <=> pc[r] = "done"),
           \A u \in Users : reputation'[u] + Owing(r, u)' = reputation[u] + Owing(r, u)
    PROVE  UNCHANGED Ledger!ledger
  <1>1. LedgerRows' = LedgerRows
    BY DEF LedgerRows
  <1>2. LedgerBorn' = LedgerBorn
    BY DEF LedgerBorn, OneStep, Op
  <1>3. LedgerVotes' = LedgerVotes
    BY DEF LedgerVotes, OneStep
  <1>4. LedgerStanding' = LedgerStanding
    BY StandingStep DEF OneStep
  <1> QED BY <1>1, <1>2, <1>3, <1>4 DEF Ledger!ledger

\* Reading, looking up, arriving and inserting the credit row are quiet.
LEMMA ReadsAreQuiet ==
    ASSUME Serially, Known, TypeInv', NEW r \in Requests, OneStep(r),
           \/ BeginCredit(r) \/ BeginComment(r) \/ BeginDelete(r) \/ CheckCredit(r)
           \/ InsertCredit(r) \/ AddActivity(r)
           \/ Flag(r) /\ table[call[r].oid] = NoRow
    PROVE  UNCHANGED Ledger!ledger
  <1> USE DEF Known, TypeInv, Serially, Goto
  <1>1. table' = table /\ saved' = saved /\ reputation' = reputation /\ paid' = paid
    BY DEF BeginCredit, BeginComment, BeginDelete, CheckCredit, InsertCredit, AddActivity,
       Flag, Fails, Stop, database, history
  <1>2. Op(r) = "comment" => (pc'[r] = "done" <=> pc[r] = "done")
    BY DEF BeginCredit, BeginComment, BeginDelete, CheckCredit, InsertCredit, AddActivity,
       Flag, Fails, Stop, Answer, Arrives, TypeOK, Stages
  <1>3. CASE ~AddActivity(r)
    <2>1. r \notin PaidBehind /\ r \notin PaidAhead /\ r \notin PaidBehind' /\ r \notin PaidAhead'
      BY <1>3, WhoOwes DEF BeginCredit, BeginComment, BeginDelete, CheckCredit, InsertCredit,
         Flag, Fails, Stop, Answer, Arrives, TypeOK, Stages
    <2>2. \A u \in Users : Owing(r, u) = 0 /\ Owing(r, u)' = 0
      BY <2>1 DEF Owing
    <2> QED BY <1>1, <1>2, <2>2, QuietStep
  <1>4. CASE AddActivity(r)
    <2>1. Beneficiary(r)' = Beneficiary(r)
      BY <1>4 DEF AddActivity, Beneficiary, Op, OneStep, Stop, locals
    <2>2. /\ r \notin PaidBehind /\ r \notin PaidBehind'
          /\ r \in PaidAhead <=> r \in PaidAhead'
      BY <1>1, <1>4, WhoOwes DEF AddActivity, TypeOK
    <2>3. \A u \in Users : Owing(r, u)' = Owing(r, u)
      BY <2>1, <2>2, WhoOwes DEF Owing
    <2> QED BY <1>1, <1>2, <2>3, QuietStep
  <1> QED BY <1>3, <1>4

\* Reading and writing the reputation is quiet: what the statement adds to it is
\* what the request owed before, or owes from then on.
LEMMA PaymentsAreQuiet ==
    ASSUME Serially, Known, TypeInv', NEW r \in Requests, OneStep(r),
           ReputationRead(r) \/ ReputationWrite(r)
    PROVE  UNCHANGED Ledger!ledger
  <1> USE DEF Known, TypeInv, Serially, Goto
  <1>1. table' = table /\ saved' = saved
    BY DEF ReputationRead, ReputationWrite, Stop, database, history
  <1>2. Op(r) = "comment" => (pc'[r] = "done" <=> pc[r] = "done")
    BY DEF ReputationRead, ReputationWrite, Stop, AfterReputation, TypeOK
  <1>3. Beneficiary(r)' = Beneficiary(r)
    BY DEF ReputationRead, ReputationWrite, Beneficiary, Op, OneStep, Stop, locals
  <1>4. CASE ReputationRead(r)
    <2>1. reputation' = reputation /\ paid' = paid
      BY <1>4 DEF ReputationRead, Stop, database, history
    <2>2. r \notin paid
      BY <1>4 DEF ReputationRead, ReputationInv, Ended
    <2>3. Op(r) = "delete" => Beneficiary(r) \in Users
      BY <1>4 DEF ReputationRead, Beneficiary, Stages, Steps, Row
    <2>4. /\ r \notin PaidAhead /\ r \notin PaidAhead'
          /\ r \in PaidBehind <=> r \in PaidBehind'
      BY <1>4, <2>1, <2>2, <2>3, WhoOwes DEF ReputationRead, Stop, AfterReputation, TypeOK
    <2>5. \A u \in Users : Owing(r, u)' = Owing(r, u)
      BY <1>3, <2>4, WhoOwes DEF Owing
    <2> QED BY <1>1, <1>2, <2>1, <2>5, QuietStep
  <1>5. CASE ReputationWrite(r)
    <2>1. Beneficiary(r) \in Users /\ pc[r] = "repWrite"
      BY <1>5 DEF ReputationWrite, Stages
    <2>2. /\ reputation' = [reputation EXCEPT ![Beneficiary(r)] = @ + Points(r)]
          /\ paid' = paid \cup {r} /\ pc' = [pc EXCEPT ![r] = AfterReputation(r)]
      BY <1>5, <2>1 DEF ReputationWrite, NewReputation, SerialInv, PaymentsAreFresh, TypeOK
    <2>3. CASE Op(r) = "delete"
      <3>1. r \in PaidBehind /\ r \notin PaidBehind' /\ r \notin PaidAhead'
        BY <2>1, <2>2, <2>3, WhoOwes DEF AfterReputation, TypeOK
      <3>2. \A u \in Users : /\ Owing(r, u) = IF u = Beneficiary(r) THEN Points(r) ELSE 0
                             /\ Owing(r, u)' = 0
        BY <1>3, <3>1 DEF Owing
      <3>3. \A u \in Users : reputation'[u] + Owing(r, u)' = reputation[u] + Owing(r, u)
        BY <2>1, <2>2, <3>2, WhoOwes DEF TypeOK
      <3> QED BY <1>1, <1>2, <3>3, QuietStep
    <2>4. CASE Op(r) # "delete"
      <3>1. /\ r \notin PaidBehind /\ r \notin PaidAhead
            /\ r \notin PaidBehind' /\ r \in PaidAhead'
        BY <2>1, <2>2, <2>4, WhoOwes DEF AfterReputation, TypeOK
      <3>2. \A u \in Users :
               /\ Owing(r, u) = 0
               /\ Owing(r, u)' = IF u = Beneficiary(r) THEN 0 - Points(r) ELSE 0
        BY <1>3, <3>1, WhoOwes DEF Owing
      <3>3. \A u \in Users : reputation'[u] + Owing(r, u)' = reputation[u] + Owing(r, u)
        BY <2>1, <2>2, <3>2, WhoOwes DEF TypeOK
      <3> QED BY <1>1, <1>2, <3>3, QuietStep
    <2> QED BY <2>3, <2>4
  <1> QED BY <1>4, <1>5

\* A row of the table is a row of the ledger, and no row is none.
LEMMA EntriesOfRows ==
    ASSUME Serially, TypeInv, NEW o \in ObservationIds
    PROVE  /\ LedgerRows[o] = NoRow <=> table[o] = NoRow
           /\ table[o] # NoRow =>
                LedgerRows[o] = [uid |-> table[o].uid, credited |-> table[o].credited,
                                 discredited |-> table[o].discredited,
                                 flagged |-> table[o].flagged]
  <1>1. table[o] # NoRow =>
          [uid |-> table[o].uid, credited |-> table[o].credited,
           discredited |-> table[o].discredited, flagged |-> table[o].flagged]
             \in Ledger!Entry
    BY DEF TypeInv, TypeOK, Row, Ledger!Entry
  <1> QED BY <1>1 DEF Serially, NoRowIsNoEntry, LedgerRows

\* Setting the flag of an observation is a step of the ledger.
LEMMA FlagStep ==
    ASSUME Serially, Known, TypeInv', NEW r \in Requests, OneStep(r),
           Flag(r), table[call[r].oid] # NoRow
    PROVE  Ledger!LedgerNext
  <1> USE DEF Known, TypeInv, Serially, Goto
  <1> DEFINE o == call[r].oid
  <1>1. /\ o \in ObservationIds /\ table[o] # NoRow /\ table[o] \in Row
        /\ Op(r) = "flag" /\ pc[r] = "arrive" /\ pc'[r] = "done"
        /\ table' = [table EXCEPT ![o].flagged = TRUE]
        /\ saved' = saved /\ reputation' = reputation
    BY CallShape DEF Flag, Fails, Answer, Arrives, TypeOK, history
  <1> HIDE DEF o
  <1>2. LedgerRows[o] # NoRow
    BY <1>1, EntriesOfRows
  <1>3. LedgerRows' = [LedgerRows EXCEPT ![o].flagged = TRUE]
    <2>1. table'[o] = [table[o] EXCEPT !.flagged = TRUE] /\ table'[o] \in Row
      BY <1>1 DEF TypeOK, Row
    <2>2. \A x \in ObservationIds \ {o} : table'[x] = table[x]
      BY <1>1 DEF TypeOK
    <2>3. table'[o] # NoRow
      BY <2>1, NoRowIsNoRow
    <2>4. LedgerRows[o] = [uid |-> table[o].uid, credited |-> table[o].credited,
                           discredited |-> table[o].discredited,
                           flagged |-> table[o].flagged]
      BY <1>1 DEF LedgerRows
    <2>5. LedgerRows'[o] = [uid |-> table'[o].uid, credited |-> table'[o].credited,
                            discredited |-> table'[o].discredited,
                            flagged |-> table'[o].flagged]
      BY <1>1, <2>3 DEF LedgerRows
    <2>6. /\ table'[o].uid = table[o].uid /\ table'[o].credited = table[o].credited
          /\ table'[o].discredited = table[o].discredited /\ table'[o].flagged = TRUE
      BY <1>1, <2>1 DEF Row
    <2>7. LedgerRows'[o] = [LedgerRows[o] EXCEPT !.flagged = TRUE]
      <3>1. \A a, b, c, d, e :
               [[uid |-> a, credited |-> b, discredited |-> c, flagged |-> d]
                  EXCEPT !.flagged = e]
                 = [uid |-> a, credited |-> b, discredited |-> c, flagged |-> e]
        OBVIOUS
      <3>2. PICK e : e = TRUE
        OBVIOUS
      <3>3. [LedgerRows[o] EXCEPT !.flagged = e] =
              [uid |-> table[o].uid, credited |-> table[o].credited,
               discredited |-> table[o].discredited, flagged |-> e]
        BY <2>4, <3>1
      <3>4. LedgerRows'[o] = [LedgerRows[o] EXCEPT !.flagged = e]
        BY <2>5, <2>6, <3>2, <3>3
      <3> QED BY <3>2, <3>4
    <2>8. \A x \in ObservationIds \ {o} : LedgerRows'[x] = LedgerRows[x]
      BY <2>2 DEF LedgerRows
    <2>9. /\ LedgerRows = [x \in ObservationIds |-> LedgerRows[x]]
          /\ LedgerRows' = [x \in ObservationIds |-> LedgerRows'[x]]
      BY DEF LedgerRows
    <2>10. LedgerRows' = [LedgerRows EXCEPT ![o] = [@ EXCEPT !.flagged = TRUE]]
      BY <1>1, <2>7, <2>8, <2>9
    <2> QED BY <2>10
  <1>4. LedgerBorn' = LedgerBorn
    BY <1>1 DEF LedgerBorn, OneStep, Op
  <1>5. LedgerVotes' = LedgerVotes
    BY <1>1 DEF LedgerVotes, OneStep
  <1>6. LedgerStanding' = LedgerStanding
    <2>1. r \notin PaidBehind /\ r \notin PaidAhead /\ r \notin PaidBehind' /\ r \notin PaidAhead'
      BY <1>1, WhoOwes
    <2>2. \A u \in Users : Owing(r, u) = 0 /\ Owing(r, u)' = 0
      BY <2>1 DEF Owing
    <2> QED BY <1>1, <2>2, StandingStep DEF OneStep
  <1>7. Ledger!Flag(o)
    BY <1>2, <1>3, <1>4, <1>5, <1>6 DEF Ledger!Flag
  <1> QED BY <1>1, <1>7 DEF Ledger!LedgerNext

\* The DELETE of an observation is the removal of the ledger, which fines its
\* author at once.
LEMMA RemoveStep ==
    ASSUME Serially, Known, TypeInv', NEW r \in Requests, OneStep(r), Delete(r)
    PROVE  Ledger!LedgerNext
  <1> USE DEF Known, TypeInv, Serially, Goto
  <1> DEFINE o == call[r].oid
  <1>1. /\ pc[r] = "delete" /\ Op(r) = "delete" /\ o \in ObservationIds
        /\ copy[r] \in Row /\ table[o] = copy[r] /\ table[o] # NoRow
        /\ Beneficiary(r) = table[o].uid /\ Beneficiary(r) \in Users
    BY CallShape, NoRowIsNoRow DEF Delete, Stages, Steps, Beneficiary, SerialInv,
       DeletionsAreFresh, Row
  <1>2. /\ pc'[r] = "repRead" /\ table' = [table EXCEPT ![o] = NoRow]
        /\ saved' = saved /\ reputation' = reputation /\ copy' = copy
    BY <1>1 DEF Delete, TypeOK, locals, history
  <1> HIDE DEF o
  <1>3. LedgerRows[o] # NoRow /\ LedgerRows[o].uid = table[o].uid
    <2>1. LedgerRows[o] = [uid |-> table[o].uid, credited |-> table[o].credited,
                           discredited |-> table[o].discredited,
                           flagged |-> table[o].flagged]
      BY <1>1 DEF LedgerRows
    <2> QED BY <1>1, <2>1, EntriesOfRows
  <1>4. LedgerRows' = [LedgerRows EXCEPT ![o] = NoRow]
    BY <1>1, <1>2 DEF LedgerRows, TypeOK
  <1>5. LedgerBorn' = LedgerBorn
    BY <1>1, <1>2 DEF LedgerBorn, OneStep, Op
  <1>6. LedgerVotes' = LedgerVotes
    BY <1>2 DEF LedgerVotes, OneStep
  <1>7. Ledger!Pay(LedgerRows[o].uid, -100)
    <2>1. r \notin PaidBehind /\ r \notin PaidAhead /\ r \in PaidBehind'
      BY <1>1, <1>2, WhoOwes
    <2>2. Beneficiary(r)' = Beneficiary(r) /\ Points(r) = -100
      BY <1>1, <1>2 DEF Beneficiary, Op, OneStep, Points, obsSpam
    <2>3. \A u \in Users : /\ Owing(r, u) = 0
                           /\ Owing(r, u)' = IF u = Beneficiary(r) THEN -100 ELSE 0
      BY <2>1, <2>2, WhoOwes DEF Owing
    <2> QED BY <1>1, <1>2, <1>3, <2>3, StandingStep DEF Ledger!Pay, OneStep
  <1>8. Ledger!Remove(o)
    BY <1>3, <1>4, <1>5, <1>6, <1>7 DEF Ledger!Remove
  <1> QED BY <1>1, <1>8 DEF Ledger!LedgerNext

\* The insertion of a comment is the comment of the ledger, which pays the
\* discoverer at once, when there is one.
LEMMA CommentStep ==
    ASSUME Serially, Known, TypeInv', NEW r \in Requests, OneStep(r), InsertObservation(r)
    PROVE  Ledger!LedgerNext
  <1> USE DEF Known, TypeInv, Serially, Goto
  <1> DEFINE u == call[r].uid
             d == call[r].discoverer
  <1>1. /\ pc[r] = "save" /\ Op(r) = "comment" /\ u \in Users /\ d \in Users \cup {Nobody}
        /\ r \in ObservationIds /\ Beneficiary(r) = d /\ Points(r) = 2
        /\ r \in paid <=> d \in Users
    BY CallShape DEF InsertObservation, ObservationIds, Beneficiary, Points, discObs,
       SerialInv, PaymentsAreFresh, TypeOK, Calls, Op
  <1>2. /\ pc'[r] = "done" /\ table' = [table EXCEPT ![r] = NewRow(u)]
        /\ saved' = saved /\ reputation' = reputation /\ copy' = copy /\ paid' = paid
    BY DEF InsertObservation, Fails, Answer, TypeOK, locals, history
  <1>3. NewRow(u) # NoRow
    BY <1>1, RowsAreRows, NoRowIsNoRow
  <1> HIDE DEF u, d
  <1>4. LedgerRows' = [LedgerRows EXCEPT ![r] = Ledger!NewEntry(u)]
    <2>1. LedgerRows'[r] = Ledger!NewEntry(u)
      BY <1>1, <1>2, <1>3 DEF LedgerRows, NewRow, Ledger!NewEntry, TypeOK
    <2>2. \A x \in ObservationIds \ {r} : LedgerRows'[x] = LedgerRows[x]
      BY <1>2 DEF LedgerRows, TypeOK
    <2>3. /\ LedgerRows = [x \in ObservationIds |-> LedgerRows[x]]
          /\ LedgerRows' = [x \in ObservationIds |-> LedgerRows'[x]]
      BY DEF LedgerRows
    <2> QED BY <1>1, <2>1, <2>2, <2>3
  <1>5. r \notin LedgerBorn /\ LedgerBorn' = LedgerBorn \cup {r}
    BY <1>1, <1>2, RequestsAreFinite DEF LedgerBorn, OneStep, Op
  <1>6. LedgerVotes' = LedgerVotes
    BY <1>2 DEF LedgerVotes, OneStep
  <1>7. Ledger!Pay(d, 2)
    <2>1. /\ r \notin PaidBehind /\ r \notin PaidBehind' /\ r \notin PaidAhead'
          /\ r \in PaidAhead <=> d \in Users
      BY <1>1, <1>2, WhoOwes
    <2>2. \A w \in Users : /\ Owing(r, w) = IF w = d THEN 0 - 2 ELSE 0
                           /\ Owing(r, w)' = 0
      BY <1>1, <2>1 DEF Owing
    <2>3. \A w \in Users :
             LedgerStanding[w] = reputation[w] + (IF w = d THEN 0 - 2 ELSE 0)
      BY <2>2, StandingStep DEF OneStep
    <2>4. LedgerStanding' = [w \in Users |-> reputation[w] + 0]
      BY <1>2, <2>2, StandingStep DEF OneStep
    <2>5. \A w \in Users : reputation[w] \in Int
      BY DEF TypeOK
    <2>6. \A w \in Users :
             reputation[w] + 0 = LedgerStanding[w] + (IF w = d THEN 2 ELSE 0)
      BY <2>3, <2>5
    <2> QED BY <2>4, <2>6 DEF Ledger!Pay
  <1>8. Ledger!Comment(u, r, d)
    BY <1>4, <1>5, <1>6, <1>7 DEF Ledger!Comment
  <1> QED BY <1>1, <1>8 DEF Ledger!LedgerNext

\* Counting a vote in a row of the table counts it in the row of the ledger.
LEMMA CountIsCast ==
    ASSUME NEW row \in Row, NEW up \in BOOLEAN, NEW new, new = Counted(row, up)
    PROVE  [uid |-> new.uid, credited |-> new.credited,
            discredited |-> new.discredited, flagged |-> new.flagged]
             = Ledger!Cast([uid |-> row.uid, credited |-> row.credited,
                            discredited |-> row.discredited, flagged |-> row.flagged], up)
  <1>1. /\ row.uid \in Users /\ row.credited \in Nat /\ row.discredited \in Nat
    BY DEF Row
  <1>2. /\ new.uid = row.uid /\ new.flagged = row.flagged
        /\ new.credited = row.credited + (IF up THEN 1 ELSE 0)
        /\ new.discredited = row.discredited + (IF up THEN 0 ELSE 1)
    BY DEF Counted, Row
  <1>3. CASE up
    BY <1>1, <1>2, <1>3 DEF Ledger!Cast
  <1>4. CASE ~up
    BY <1>1, <1>2, <1>4 DEF Ledger!Cast
  <1> QED BY <1>3, <1>4

\* The Save of a vote is the vote of the ledger, which pays the author at once.
LEMMA VoteStep ==
    ASSUME Serially, Known, TypeInv', NEW r \in Requests, OneStep(r), SaveObservation(r)
    PROVE  Ledger!LedgerNext
  <1> USE DEF Known, TypeInv, Serially, Goto
  <1> DEFINE u == call[r].uid
             o == call[r].oid
             up == call[r].credflag
             new == Counted(copy[r], up)
  <1>1. /\ pc[r] = "save" /\ Op(r) = "credit" /\ u \in Users /\ o \in ObservationIds
        /\ up \in BOOLEAN
    BY CallShape DEF SaveObservation
  <1>2. /\ copy[r] \in Row /\ table[o] = copy[r] /\ copy[r].uid # u
        /\ \A q \in saved : ~SameVote(q, r)
        /\ Beneficiary(r) = copy[r].uid /\ copy[r].uid \in Users /\ r \in paid
    BY <1>1 DEF Stages, Steps, SerialInv, VotesAreFresh, PaymentsAreFresh, Beneficiary, Row
  <1>3. /\ pc'[r] = "credit" /\ table' = [table EXCEPT ![o] = new]
        /\ saved' = saved \cup {r}
        /\ reputation' = reputation /\ copy' = copy /\ paid' = paid
    BY <1>1, <1>2, NoRowIsNoRow DEF SaveObservation, Overwritten, Fails, TypeOK, locals
  <1>4. new \in Row /\ new # NoRow /\ table[o] # NoRow
    BY <1>1, <1>2, RowsAreRows, NoRowIsNoRow
  <1>5. PICK n : n = new
    OBVIOUS
  <1> HIDE DEF u, o, up, new
  <1>6. /\ LedgerRows[o] = [uid |-> copy[r].uid, credited |-> copy[r].credited,
                            discredited |-> copy[r].discredited, flagged |-> copy[r].flagged]
        /\ LedgerRows[o] # NoRow
    BY <1>1, <1>2, <1>4, EntriesOfRows
  <1>7. LedgerRows[o].uid = copy[r].uid
    BY <1>6
  <1>8. LedgerRows' = [LedgerRows EXCEPT ![o] = Ledger!Cast(@, up)]
    <2>1. table'[o] = n /\ n # NoRow
      BY <1>1, <1>3, <1>4, <1>5 DEF TypeOK
    <2>2. LedgerRows'[o] = [uid |-> n.uid, credited |-> n.credited,
                            discredited |-> n.discredited, flagged |-> n.flagged]
      BY <1>1, <2>1 DEF LedgerRows
    <2>3. LedgerRows'[o] = Ledger!Cast(LedgerRows[o], up)
      BY <1>1, <1>2, <1>5, <1>6, <2>2, CountIsCast DEF new
    <2>4. \A x \in ObservationIds \ {o} : LedgerRows'[x] = LedgerRows[x]
      BY <1>3 DEF LedgerRows, TypeOK
    <2>5. /\ LedgerRows = [x \in ObservationIds |-> LedgerRows[x]]
          /\ LedgerRows' = [x \in ObservationIds |-> LedgerRows'[x]]
      BY DEF LedgerRows
    <2> QED BY <1>1, <2>3, <2>4, <2>5
  <1>9. LedgerBorn' = LedgerBorn
    BY <1>1, <1>3 DEF LedgerBorn, OneStep, Op
  <1>10. <<u, o, up>> \notin LedgerVotes
    <2>1. ASSUME NEW q \in saved, <<u, o, up>> = <<call[q].uid, call[q].oid, call[q].credflag>>
          PROVE  FALSE
      <3>1. Op(q) = "credit"
        BY DEF SerialInv, VotesAreCredited
      <3> QED BY <1>1, <1>2, <2>1, <3>1 DEF SameVote, u, o, up
    <2> QED BY <2>1 DEF LedgerVotes
  <1>11. LedgerVotes' = LedgerVotes \cup {<<u, o, up>>}
    BY <1>3 DEF LedgerVotes, OneStep, u, o, up
  <1>12. Ledger!Pay(LedgerRows[o].uid, IF up THEN 5 ELSE -1)
    <2>1. Points(r) = IF up THEN 5 ELSE -1
      BY <1>1 DEF Points, obsCredit, obsDiscredit, up
    <2>2. PICK p \in Int : p = IF up THEN 5 ELSE -1
      OBVIOUS
    <2>3. r \notin PaidBehind /\ r \notin PaidBehind' /\ r \notin PaidAhead' /\ r \in PaidAhead
      BY <1>1, <1>2, <1>3, WhoOwes
    <2>4. \A w \in Users : /\ Owing(r, w) = IF w = copy[r].uid THEN 0 - p ELSE 0
                           /\ Owing(r, w)' = 0
      BY <1>2, <2>1, <2>2, <2>3 DEF Owing
    <2>5. \A w \in Users :
             LedgerStanding[w] = reputation[w] + (IF w = copy[r].uid THEN 0 - p ELSE 0)
      BY <2>4, StandingStep DEF OneStep
    <2>6. LedgerStanding' = [w \in Users |-> reputation[w] + 0]
      BY <1>3, <2>4, StandingStep DEF OneStep
    <2>7. \A w \in Users : reputation[w] \in Int
      BY DEF TypeOK
    <2>8. \A w \in Users :
             reputation[w] + 0 = LedgerStanding[w] + (IF w = copy[r].uid THEN p ELSE 0)
      BY <2>5, <2>7
    <2> QED BY <1>7, <2>2, <2>6, <2>8 DEF Ledger!Pay
  <1>13. Ledger!Vote(u, o, up)
    BY <1>2, <1>6, <1>7, <1>8, <1>9, <1>10, <1>11, <1>12 DEF Ledger!Vote
  <1> QED BY <1>1, <1>13 DEF Ledger!LedgerNext

\* Every statement of the handlers is a step of the ledger or leaves it alone.
LEMMA LedgerStep ==
    ASSUME Serially, Known, TypeInv', [Next]_vars
    PROVE  [Ledger!LedgerNext]_(Ledger!ledger)
  <1>u. CASE UNCHANGED vars
    <2>1. UNCHANGED <<table, saved, call, pc, copy, paid, reputation>>
      BY <1>u DEF vars, database, locals, history
    <2>2. LedgerRows' = LedgerRows /\ LedgerBorn' = LedgerBorn /\ LedgerVotes' = LedgerVotes
      BY <2>1 DEF LedgerRows, LedgerBorn, LedgerVotes, Op
    <2>3. PaidBehind' = PaidBehind /\ PaidAhead' = PaidAhead
      BY <2>1 DEF PaidBehind, PaidAhead, Op
    <2>4. \A q \in Requests : Beneficiary(q)' = Beneficiary(q)
      BY <2>1 DEF Beneficiary, Op
    <2>5. ASSUME NEW u \in Users PROVE Owed(u)' = Owed(u)
      <3>1. PICK B \in SUBSET Requests, A \in SUBSET Requests :
               /\ B = {q \in PaidBehind : Beneficiary(q) = u}
               /\ A = {q \in PaidAhead : Beneficiary(q) = u}
        BY DEF PaidBehind, PaidAhead, Known, TypeInv, TypeOK
      <3>2. Sum(B)' = Sum(B) /\ Sum(A)' = Sum(A)
        BY <2>1, SumStays DEF Known
      <3>3. /\ B = {q \in PaidBehind : Beneficiary(q) = u}'
            /\ A = {q \in PaidAhead : Beneficiary(q) = u}'
        BY <2>3, <2>4, <3>1 DEF PaidBehind, PaidAhead, Known, TypeInv, TypeOK
      <3> QED BY <3>1, <3>2, <3>3 DEF Owed
    <2>6. LedgerStanding' = LedgerStanding
      BY <2>1, <2>5 DEF LedgerStanding
    <2> QED BY <2>2, <2>6 DEF Ledger!ledger
  <1>n. CASE Next
    <2>1. PICK r \in Requests : OneStep(r)
      BY <1>n, OneActs DEF OneStep, Known, SerialInv
    <2>2. CASE \/ BeginCredit(r) \/ BeginComment(r) \/ BeginDelete(r) \/ CheckCredit(r)
               \/ InsertCredit(r) \/ AddActivity(r)
      BY <2>1, <2>2, ReadsAreQuiet
    <2>3. CASE Flag(r)
      BY <2>1, <2>3, ReadsAreQuiet, FlagStep
    <2>4. CASE ReputationRead(r) \/ ReputationWrite(r)
      BY <2>1, <2>4, PaymentsAreQuiet
    <2>5. CASE Delete(r)
      BY <2>1, <2>5, RemoveStep
    <2>6. CASE InsertObservation(r)
      BY <2>1, <2>6, CommentStep
    <2>7. CASE SaveObservation(r)
      BY <2>1, <2>7, VoteStep
    <2> QED BY <2>1, <2>2, <2>3, <2>4, <2>5, <2>6, <2>7 DEF OneStep, Acts
  <1> QED BY <1>u, <1>n

\* The initial states of the handlers are initial states of the ledger.
LEMMA LedgerStart == Init => Ledger!LedgerInit
  <1> SUFFICES ASSUME Init PROVE Ledger!LedgerInit
    OBVIOUS
  <1>1. PICK author \in [Seeded -> Users] :
           table = [o \in ObservationIds |->
                      IF o \in Seeded THEN NewRow(author[o]) ELSE NoRow]
    BY DEF Init
  <1>2. \A u \in Users : NewRow(u) # NoRow
    BY RowsAreRows, NoRowIsNoRow
  <1>3. LedgerRows = [o \in ObservationIds |->
                        IF o \in Seeded THEN Ledger!NewEntry(author[o]) ELSE NoRow]
    BY <1>1, <1>2 DEF LedgerRows, NewRow, Ledger!NewEntry
  <1>4. LedgerBorn = Seeded /\ LedgerVotes = {}
    BY DEF Init, LedgerBorn, LedgerVotes
  <1>5. LedgerStanding = [u \in Users |-> 0]
    <2>1. PaidBehind = {} /\ PaidAhead = {}
      BY DEF Init, PaidBehind, PaidAhead
    <2>2. Sum({}) = 0
      BY InitTypes, PointsAddUp DEF TypeInv
    <2>3. \A u \in Users : Owed(u) = 0
      <3>1. \A u \in Users : /\ {r \in PaidBehind : Beneficiary(r) = u} = {}
                             /\ {r \in PaidAhead : Beneficiary(r) = u} = {}
        BY <2>1
      <3> QED BY <2>2, <3>1 DEF Owed
    <2> QED BY <2>3 DEF Init, LedgerStanding
  <1> QED BY <1>1, <1>3, <1>4, <1>5 DEF Ledger!LedgerInit

\* One request at a time and without faults the handlers implement the ledger:
\* every vote, comment, flag and removal takes effect at once and in full.
THEOREM HandlersImplementLedger ==
    ASSUME Serially
    PROVE  Spec => ImplementsLedger
  <1>1. Known /\ TypeInv' /\ [Next]_vars => [Ledger!LedgerNext]_(Ledger!ledger)
    BY LedgerStep
  <1>2. Known => TypeInv
    BY DEF Known
  <1>3. Spec => Ledger!LedgerSpec
    BY <1>1, <1>2, LedgerStart, SerialStates, PTL DEF Spec, Ledger!LedgerSpec
  <1> QED BY <1>3 DEF ImplementsLedger
=============================================================================
