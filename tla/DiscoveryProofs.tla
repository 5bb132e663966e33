--------------------------- MODULE DiscoveryProofs ---------------------------
(***************************************************************************)
(* Proofs about ChartDiscovery, for any users, charts and requests, any    *)
(* number of workers and whichever statements fail; and, of its serial     *)
(* executions, that they implement DiscoveryRegister.                      *)
(***************************************************************************)
EXTENDS DiscoverySerial, FiniteSetTheorems, TLAPS

-----------------------------------------------------------------------------
(***************************************************************************)
(* Types.                                                                  *)
(***************************************************************************)

\* The steps before a request has written to priv_discovered, and those of a
\* vote after it has.
Before == {"arrive", "discover", "repRead", "repWrite", "activity", "save"}
After == {"find", "insert", "update"}

\* What the statement a request is at says of the rest of its state: which
\* handler it is in, that a discoverer is paid only when there is one, that a
\* credit row is written for a row with an id, and that the one found is there.
Stages ==
    \A r \in Requests :
        /\ pc[r] \in ViewSteps => Op(r) = "view"
        /\ pc[r] \in CreditSteps => Op(r) = "credit"
        /\ pc[r] = "repWrite" => copy[r].uid \in Users
        /\ pc[r] \in After => did[r] # Zero
        /\ mine[r] # NoRow => credits[mine[r]] # NoRow

TypeInv == TypeOK /\ Stages

\* What a view may have answered.
Answer ==
    [did : DiscoveredIds \cup {Zero}, discoverer : Users \cup {Nobody},
     creditors : SUBSET (Users \X BOOLEAN)]

\* A call has the parameters of its operation.
LEMMA CallShape ==
    ASSUME TypeOK, NEW r \in Requests
    PROVE  /\ Op(r) \in {"view", "credit"}
           /\ call[r].uid \in Users /\ call[r].chart \in Charts
           /\ Op(r) = "credit" => call[r].up \in BOOLEAN
    BY DEF TypeOK, Calls, Op

\* Empty structs, new discoveries and rows with one vote more are rows.
LEMMA RowsAreRows ==
    /\ Empty \in Discovered
    /\ \A c \in Charts, u \in Users :
          /\ NewDiscovery(c, u) \in Discovered
          /\ NewDiscovery(c, u).chart = c /\ NewDiscovery(c, u).uid = u
          /\ NewDiscovery(c, u).credited = 0 /\ NewDiscovery(c, u).discredited = 0
    /\ \A row \in Discovered, b \in BOOLEAN :
          /\ Counted(row, b) \in Discovered
          /\ Counted(row, b).chart = row.chart /\ Counted(row, b).uid = row.uid
          /\ Counted(row, b).credited = row.credited + (IF b THEN 1 ELSE 0)
          /\ Counted(row, b).discredited = row.discredited + (IF b THEN 0 ELSE 1)
  <1>1. Empty \in Discovered
    BY DEF Empty, Discovered
  <1>2. ASSUME NEW c \in Charts, NEW u \in Users
        PROVE  /\ NewDiscovery(c, u).chart = c /\ NewDiscovery(c, u).uid = u
               /\ NewDiscovery(c, u).credited = 0 /\ NewDiscovery(c, u).discredited = 0
    BY DEF NewDiscovery, Empty
  <1>3. \A c \in Charts, u \in Users : NewDiscovery(c, u) \in Discovered
    BY DEF NewDiscovery, Empty, Discovered
  <1>4. ASSUME NEW row \in Discovered, NEW b \in BOOLEAN
        PROVE  /\ Counted(row, b) \in Discovered
               /\ Counted(row, b).chart = row.chart /\ Counted(row, b).uid = row.uid
               /\ Counted(row, b).credited = row.credited + (IF b THEN 1 ELSE 0)
               /\ Counted(row, b).discredited = row.discredited + (IF b THEN 0 ELSE 1)
    <2>1. CASE b
      BY <2>1 DEF Counted, Discovered
    <2>2. CASE ~b
      BY <2>2 DEF Counted, Discovered
    <2> QED BY <2>1, <2>2
  <1> QED BY <1>1, <1>2, <1>3, <1>4

\* Users who credited or discredited are users.
LEMMA CreditorsAreUsers ==
    ASSUME TypeOK, NEW d
    PROVE  Creditors(d) \subseteq Users \X BOOLEAN
  <1>1. CASE d = Zero
    BY <1>1, UsersAreUsers DEF Creditors
  <1>2. CASE d # Zero
    <2>1. \A q \in Requests : credits[q] # NoRow =>
             credits[q].uid \in Users /\ credits[q].up \in BOOLEAN
      BY DEF TypeOK, Credit
    <2> QED BY <1>2, <2>1 DEF Creditors
  <1> QED BY <1>1, <1>2

\* The initial state has the right types.
LEMMA InitTypes == Init => TypeInv
  <1> SUFFICES ASSUME Init PROVE TypeInv OBVIOUS
  <1>1. PICK author \in [Charts -> Users \cup {Nobody}] :
           table = [d \in DiscoveredIds |->
                      IF d \in Charts /\ author[d] # Nobody
                      THEN NewDiscovery(d, author[d]) ELSE NoRow]
    BY DEF Init
  <1>2. table \in [DiscoveredIds -> Discovered \cup {NoRow}]
    BY <1>1, RowsAreRows
  <1>3. TypeOK
    BY <1>2, RowsAreRows DEF Init, TypeOK, NoAnswer
  <1>4. Stages
    BY DEF Init, Stages, ViewSteps, CreditSteps, After
  <1> QED BY <1>3, <1>4 DEF TypeInv

\* Every step keeps the types, one action at a time.
LEMMA NextTypes == TypeInv /\ [Next]_vars => TypeInv'
  <1> SUFFICES ASSUME TypeInv, [Next]_vars PROVE TypeInv' OBVIOUS
  <1> USE DEF TypeInv, ViewSteps, CreditSteps, Steps, Ended, After
  <1>u. CASE UNCHANGED vars
    BY <1>u DEF vars, database, locals, TypeOK, Stages, Op
  <1>a. ASSUME NEW r \in Requests,
               \/ BeginView(r) \/ Discover(r) \/ ReadCreditors(r) \/ FindAgain(r)
               \/ ReadOwnVote(r)
               \/ BeginCredit(r) \/ ReputationRead(r) \/ ReputationWrite(r)
               \/ AddActivity(r) \/ SaveDiscovered(r) \/ FindCredit(r)
               \/ InsertCredit(r) \/ UpdateCredit(r)
        PROVE  TypeInv'
    <2> USE DEF Op, Goto
    <2>s. ASSUME NEW step, Skip(r, step), step \in Steps \cup Ended,
                 step \in ViewSteps => Op(r) = "view",
                 step \in CreditSteps => Op(r) = "credit",
                 step # "repWrite", step \in After => did[r] # Zero
          PROVE  TypeInv'
      BY <2>s DEF Skip, TypeOK, Stages, database, locals
    <2>m. \A d \in Matching(call[r].chart) :
             d \in DiscoveredIds /\ table[d] \in Discovered
      BY DEF Matching, TypeOK
    <2>z. \A d \in DiscoveredIds : d # Zero
      BY IdsAreDistinct
    <2>1. CASE BeginView(r)
      <3>1. CASE \E step \in {"refused", "creditors", "discover"} : Skip(r, step)
        BY <3>1, <2>1, <2>s DEF BeginView
      <3>2. CASE ~\E step \in {"refused", "creditors", "discover"} : Skip(r, step)
        <4>1. PICK d \in Matching(call[r].chart) :
                 /\ did' = [did EXCEPT ![r] = d] /\ copy' = [copy EXCEPT ![r] = table[d]]
          BY <3>2, <2>1 DEF BeginView, Load
        <4>2. d \in DiscoveredIds /\ d # Zero /\ table[d] \in Discovered
          BY <2>m, <2>z
        <4>3. TypeOK'
          BY <3>2, <4>1, <4>2, <2>1 DEF BeginView, TypeOK, database
        <4>4. Stages'
          BY <3>2, <4>1, <4>2, <2>1 DEF BeginView, Arrives, TypeOK,
             Stages, database
        <4> QED BY <4>3, <4>4
      <3> QED BY <3>1, <3>2
    <2>2. CASE Discover(r)
      <3>1. CASE \E step \in {"failed", "creditors"} : Skip(r, step)
        BY <3>1, <2>2, <2>s DEF Discover, Stages
      <3>2. CASE ~\E step \in {"failed", "creditors"} : Skip(r, step)
        <4> DEFINE row == NewDiscovery(call[r].chart, call[r].uid)
        <4>1. row \in Discovered
          BY CallShape, RowsAreRows
        <4> HIDE DEF row
        <4>2. /\ pc[r] = "discover" /\ pc' = [pc EXCEPT ![r] = "creditors"]
              /\ table' = [table EXCEPT ![r] = row]
              /\ (Load(r, r, row) \/ UNCHANGED <<did, copy>>)
              /\ UNCHANGED <<credits, reputation, activity, call, seen, mine, answer, saved>>
          BY <3>2, <2>2 DEF Discover, row
        <4>3. TypeOK'
          BY <4>1, <4>2 DEF Load, TypeOK, DiscoveredIds
        <4>4. Stages'
          BY <4>2 DEF Load, Stages, TypeOK
        <4> QED BY <4>3, <4>4
      <3> QED BY <3>1, <3>2
    <2>3. CASE ReadCreditors(r)
      <3>1. CASE Skip(r, "failed")
        BY <3>1, <2>s
      <3>2. CASE ~Skip(r, "failed")
        <4>1. copy[r].uid \in Users \cup {Nobody}
          BY DEF TypeOK, Discovered
        <4> DEFINE a == [did |-> did[r], discoverer |-> copy[r].uid,
                         creditors |-> Creditors(did[r])]
        <4>2. answer' \in [Requests -> Answer]
          <5>1. a \in Answer
            BY <4>1, CreditorsAreUsers DEF TypeOK, Answer
          <5>2. answer \in [Requests -> Answer] /\ answer' = [answer EXCEPT ![r] = a]
            BY <3>2, <2>3 DEF ReadCreditors, TypeOK, Answer
          <5> HIDE DEF a
          <5> QED BY <5>1, <5>2
        <4>3. TypeOK'
          BY <4>2, <3>2, <2>3 DEF ReadCreditors, TypeOK, Answer, database
        <4> QED BY <4>3, <3>2, <2>3 DEF ReadCreditors, TypeOK, Stages, InTable, database
      <3> QED BY <3>1, <3>2
    <2>4. CASE FindAgain(r)
      <3>1. CASE Skip(r, "failed")
        BY <3>1, <2>s
      <3>2. CASE ~Skip(r, "failed")
        <4>1. PICK d \in SameRow(r) :
                 /\ did' = [did EXCEPT ![r] = d] /\ copy' = [copy EXCEPT ![r] = table[d]]
                 /\ answer' = [answer EXCEPT ![r].did = d]
          BY <3>2, <2>4 DEF FindAgain, Load
        <4>2. d \in DiscoveredIds /\ d # Zero /\ table[d] \in Discovered
          BY <2>m, <2>z DEF SameRow
        <4>3. answer' \in [Requests -> Answer]
          <5>1. answer \in [Requests -> Answer]
            BY DEF TypeOK, Answer
          <5>2. [answer[r] EXCEPT !.did = d] \in Answer
            BY <5>1, <4>2 DEF Answer
          <5> QED BY <5>1, <5>2, <4>1
        <4>4. TypeOK'
          BY <3>2, <4>1, <4>2, <4>3, <2>4 DEF FindAgain, TypeOK, Answer, database
        <4>5. Stages'
          BY <3>2, <4>1, <4>2, <2>4 DEF FindAgain, TypeOK, Stages, database
        <4> QED BY <4>4, <4>5
      <3> QED BY <3>1, <3>2
    <2>5. CASE ReadOwnVote(r)
      BY <2>5, <2>s DEF ReadOwnVote
    <2>6. CASE BeginCredit(r)
      <3>1. CASE \E step \in {"failed", "repRead"} : Skip(r, step)
        BY <3>1, <2>6, <2>s DEF BeginCredit
      <3>2. CASE ~\E step \in {"failed", "repRead"} : Skip(r, step)
        <4>1. PICK d \in Matching(call[r].chart) :
                 /\ did' = [did EXCEPT ![r] = d] /\ copy' = [copy EXCEPT ![r] = table[d]]
          BY <3>2, <2>6 DEF BeginCredit, Load
        <4>2. d \in DiscoveredIds /\ d # Zero /\ table[d] \in Discovered
          BY <2>m, <2>z
        <4>3. TypeOK'
          BY <3>2, <4>1, <4>2, <2>6 DEF BeginCredit, TypeOK, database
        <4>4. Stages'
          BY <3>2, <4>1, <4>2, <2>6 DEF BeginCredit, Arrives, TypeOK,
             Stages, database
        <4> QED BY <4>3, <4>4
      <3> QED BY <3>1, <3>2
    <2>7. CASE ReputationRead(r)
      <3>1. CASE Skip(r, "activity")
        BY <3>1, <2>7, <2>s DEF ReputationRead, Stages
      <3>2. CASE ~Skip(r, "activity")
        BY <3>2, <2>7 DEF ReputationRead, TypeOK, Stages, database
      <3> QED BY <3>1, <3>2
    <2>8. CASE ReputationWrite(r)
      <3>1. CASE Skip(r, "activity")
        BY <3>1, <2>8, <2>s DEF ReputationWrite, Stages
      <3>2. CASE ~Skip(r, "activity")
        BY <3>2, <2>8 DEF ReputationWrite, Points, discCredit, discDiscredit, TypeOK,
           Stages, locals
      <3> QED BY <3>1, <3>2
    <2>9. CASE AddActivity(r)
      <3>1. CASE Skip(r, "save")
        BY <3>1, <2>9, <2>s DEF AddActivity, Stages
      <3>2. CASE ~Skip(r, "save")
        BY <3>2, <2>9 DEF AddActivity, TypeOK, Stages, locals
      <3> QED BY <3>1, <3>2
    <2>10. CASE SaveDiscovered(r)
      <3>1. CASE Skip(r, "failed")
        BY <3>1, <2>s
      <3>2. CASE ~Skip(r, "failed")
        <4>1. Voted(r) \in Discovered
          BY <2>10, CallShape, RowsAreRows DEF SaveDiscovered, Voted, TypeOK, Stages
        <4>2. PICK d \in DiscoveredIds :
                /\ table' = [table EXCEPT ![d] = Voted(r)]
                /\ did' = [did EXCEPT ![r] = d] /\ copy' = [copy EXCEPT ![r] = Voted(r)]
          BY <3>2, <2>10 DEF SaveDiscovered, Load, TypeOK, DiscoveredIds
        <4> QED BY <3>2, <2>10, <2>z, <4>1, <4>2 DEF SaveDiscovered, TypeOK, Stages
      <3> QED BY <3>1, <3>2
    <2>11. CASE FindCredit(r)
      <3>1. CASE \E step \in {"update", "insert"} : Skip(r, step)
        BY <3>1, <2>11, <2>s DEF FindCredit, Stages
      <3>2. CASE ~\E step \in {"update", "insert"} : Skip(r, step)
        BY <3>2, <2>11 DEF FindCredit, CreditsOf, TypeOK, Stages, database
      <3> QED BY <3>1, <3>2
    <2>12. CASE InsertCredit(r)
      <3>1. CASE Skip(r, "failed")
        BY <3>1, <2>s
      <3>2. CASE ~Skip(r, "failed")
        <4> DEFINE row == [did |-> did[r], uid |-> call[r].uid, up |-> call[r].up]
        <4>1. row \in Credit
          BY <2>12, CallShape DEF InsertCredit, TypeOK, Stages, Credit
        <4>i. credits' = [credits EXCEPT ![r] = row]
          BY <3>2, <2>12 DEF InsertCredit
        <4> HIDE DEF row
        <4>2. TypeOK'
          BY <4>1, <4>i, <3>2, <2>12 DEF InsertCredit, TypeOK, locals
        <4>3. \A q \in Requests : credits[q] # NoRow => credits'[q] # NoRow
          BY <4>1, <4>i, NoRowIsNoRow DEF TypeOK
        <4>4. \A q \in Requests : mine[q] # NoRow => mine[q] \in Requests
          BY DEF TypeOK
        <4>5. Stages'
          BY <4>3, <4>4, <3>2, <2>12 DEF InsertCredit, TypeOK, Stages, locals
        <4> QED BY <4>2, <4>5
      <3> QED BY <3>1, <3>2
    <2>13. CASE UpdateCredit(r)
      <3>1. CASE Skip(r, "failed")
        BY <3>1, <2>s
      <3>2. CASE ~Skip(r, "failed")
        <4>1. ASSUME NEW q \in Updated(mine[r])
              PROVE  q \in Requests /\ [credits[q] EXCEPT !.up = call[r].up] \in Credit
          <5>1. q \in Requests /\ credits[q] \in Credit /\ call[r].up \in BOOLEAN
            BY <2>13, CallShape DEF UpdateCredit, Updated, TypeOK, Stages
          <5> QED BY <5>1 DEF Credit
        <4>2. /\ credits' \in [Requests -> Credit \cup {NoRow}]
              /\ \A q \in Requests : credits[q] # NoRow => credits'[q] # NoRow
          <5>1. credits' = [q \in Requests |->
                              IF q \in Updated(mine[r])
                              THEN [credits[q] EXCEPT !.up = call[r].up] ELSE credits[q]]
            BY <3>2, <2>13 DEF UpdateCredit
          <5> QED BY <4>1, <5>1, NoRowIsNoRow DEF TypeOK
        <4>3. TypeOK'
          BY <4>2, <3>2, <2>13 DEF UpdateCredit, TypeOK, locals
        <4>4. \A q \in Requests : mine[q] # NoRow => mine[q] \in Requests
          BY DEF TypeOK
        <4> QED BY <4>2, <4>3, <4>4, <3>2, <2>13 DEF UpdateCredit, TypeOK, Stages, locals
      <3> QED BY <3>1, <3>2
    <2> QED BY <1>a, <2>1, <2>2, <2>3, <2>4, <2>5, <2>6, <2>7, <2>8, <2>9, <2>10,
               <2>11, <2>12, <2>13
  <1> QED BY <1>u, <1>a DEF Next

\* The types, and the stages that keep them, hold in every state.
THEOREM Types == Spec => []TypeInv
  BY InitTypes, NextTypes, PTL DEF Spec

\* The type invariant holds in every state, for any constants.
THEOREM TypeCorrectness == Spec => []TypeOK
  <1>1. TypeInv => TypeOK
    BY DEF TypeInv
  <1> QED BY <1>1, Types, PTL

-----------------------------------------------------------------------------
(***************************************************************************)
(* What a step writes.  Every proof below is by these cases.               *)
(***************************************************************************)

\* r reads row d, which is there, into its struct.
Reads(r, d) ==
    /\ \/ pc[r] = "arrive" /\ pc'[r] \in {"creditors", "repRead"}
       \/ pc[r] = "again" /\ pc'[r] = "own"
    /\ d \in Matching(call[r].chart) /\ table[d] \in Discovered
    /\ did' = [did EXCEPT ![r] = d] /\ copy' = [copy EXCEPT ![r] = table[d]]
    /\ UNCHANGED <<table, credits, mine, saved>>

\* r inserts the row of a first view, and has it in its struct or not.
Inserts(r) ==
    /\ pc[r] = "discover" /\ pc'[r] = "creditors"
    /\ LET row == NewDiscovery(call[r].chart, call[r].uid)
       IN  /\ table' = [table EXCEPT ![r] = row]
           /\ \/ /\ did' = [did EXCEPT ![r] = r] /\ copy' = [copy EXCEPT ![r] = row]
              \/ ~InTable(r) /\ did' = did /\ copy' = copy
    /\ UNCHANGED <<credits, mine, saved>>

\* r saves its struct, with its vote, as row d.
Saves(r, d) ==
    /\ pc[r] = "save" /\ pc'[r] = "find"
    /\ d = IF did[r] = Zero THEN r ELSE did[r]
    /\ Voted(r) \in Discovered
    /\ table' = [table EXCEPT ![d] = Voted(r)]
    /\ did' = [did EXCEPT ![r] = d] /\ copy' = [copy EXCEPT ![r] = Voted(r)]
    /\ saved' = saved \cup {r}
    /\ UNCHANGED <<credits, mine>>

\* r finds the credit row of its voter, inserts one, or turns some.
FindsCredit(r) ==
    /\ pc[r] = "find" /\ pc'[r] = "update"
    /\ \E q \in CreditsOf(did[r], call[r].uid) : mine' = [mine EXCEPT ![r] = q]
    /\ UNCHANGED <<table, credits, did, copy, saved>>

WritesCredit(r) ==
    /\ pc[r] = "insert" /\ pc'[r] = "done"
    /\ credits' = [credits EXCEPT ![r] =
                     [did |-> did[r], uid |-> call[r].uid, up |-> call[r].up]]
    /\ UNCHANGED <<table, did, copy, mine, saved>>

TurnsCredits(r) ==
    /\ pc[r] = "update" /\ pc'[r] = "done"
    /\ credits' = [q \in Requests |->
                     IF q \in Updated(mine[r])
                     THEN [credits[q] EXCEPT !.up = call[r].up] ELSE credits[q]]
    /\ UNCHANGED <<table, did, copy, mine, saved>>

\* r goes on; it does not come to a step before its Save that it had passed, and
\* it reaches a credit row only after the Save.
GoesOn(r) ==
    /\ pc'[r] \in Before => pc[r] \in Before
    /\ pc[r] \in After => pc'[r] \in After \cup Ended
    /\ pc[r] \in Ended => pc'[r] \in Ended
    /\ pc'[r] \in After => pc[r] = "find"
    /\ pc'[r] = "update" => r \in Faulty
    /\ UNCHANGED <<table, credits, did, copy, mine, saved>>

\* A step is one of these, of one request; the others stay where they are.
LEMMA StepKinds ==
    ASSUME TypeInv, Next
    PROVE  /\ call' = call
           /\ \E r \in Requests :
                /\ \A q \in Requests \ {r} : pc'[q] = pc[q] /\ answer'[q] = answer[q]
                /\ pc[r] \notin Ended
                /\ \/ \E d \in DiscoveredIds : Reads(r, d) \/ Saves(r, d)
                   \/ Inserts(r) \/ FindsCredit(r) \/ WritesCredit(r)
                   \/ TurnsCredits(r) \/ GoesOn(r)
  <1> USE DEF TypeInv, Goto, Load, Before, After, ViewSteps, CreditSteps, Steps, Ended
  <1>1. PICK r \in Requests :
               \/ BeginView(r) \/ Discover(r) \/ ReadCreditors(r) \/ FindAgain(r)
               \/ ReadOwnVote(r)
               \/ BeginCredit(r) \/ ReputationRead(r) \/ ReputationWrite(r)
               \/ AddActivity(r) \/ SaveDiscovered(r) \/ FindCredit(r)
               \/ InsertCredit(r) \/ UpdateCredit(r)
    BY DEF Next
  <1> DEFINE One ==
        /\ call' = call
        /\ \A q \in Requests \ {r} : pc'[q] = pc[q] /\ answer'[q] = answer[q]
        /\ pc[r] \notin Ended
        /\ \/ \E d \in DiscoveredIds : Reads(r, d) \/ Saves(r, d)
           \/ Inserts(r) \/ FindsCredit(r) \/ WritesCredit(r)
           \/ TurnsCredits(r) \/ GoesOn(r)
  <1>s. ASSUME NEW step, Skip(r, step), pc[r] \notin Ended, step \in Steps \cup Ended,
               step \in Before => pc[r] \in Before,
               pc[r] \in After => step \in After \cup Ended,
               step \in After => pc[r] = "find",
               step = "update" => r \in Faulty
        PROVE  One
    <2>1. GoesOn(r)
      BY <1>s DEF Skip, GoesOn, database, locals, TypeOK
    <2> QED BY <2>1, <1>s DEF Skip, database, locals, TypeOK
  <1>m. \A d \in Matching(call[r].chart) : d \in DiscoveredIds /\ table[d] \in Discovered
    BY DEF Matching, TypeOK
  <1>2. CASE BeginView(r)
    <2>1. CASE \E step \in {"refused", "creditors", "discover"} : Skip(r, step)
      BY <2>1, <1>2, <1>s DEF BeginView, Arrives
    <2>2. CASE ~\E step \in {"refused", "creditors", "discover"} : Skip(r, step)
      BY <2>2, <1>2, <1>m DEF BeginView, Arrives, Reads, TypeOK, database
    <2> QED BY <2>1, <2>2
  <1>3. CASE Discover(r)
    <2>1. CASE \E step \in {"failed", "creditors"} : Skip(r, step)
      BY <2>1, <1>3, <1>s DEF Discover
    <2>2. CASE ~\E step \in {"failed", "creditors"} : Skip(r, step)
      <3>1. Inserts(r)
        BY <2>2, <1>3 DEF Discover, Taken, Inserts, TypeOK
      <3> QED BY <3>1, <2>2, <1>3 DEF Discover, TypeOK
    <2> QED BY <2>1, <2>2
  <1>4. CASE ReadCreditors(r)
    <2>1. CASE Skip(r, "failed")
      BY <2>1, <1>4, <1>s DEF ReadCreditors
    <2>2. CASE ~Skip(r, "failed")
      BY <2>2, <1>4 DEF ReadCreditors, GoesOn, TypeOK, database
    <2> QED BY <2>1, <2>2
  <1>5. CASE FindAgain(r)
    <2>1. CASE Skip(r, "failed")
      BY <2>1, <1>5, <1>s DEF FindAgain
    <2>2. CASE ~Skip(r, "failed")
      <3>1. PICK d \in SameRow(r) :
               /\ did' = [did EXCEPT ![r] = d] /\ copy' = [copy EXCEPT ![r] = table[d]]
               /\ answer' = [answer EXCEPT ![r].did = d]
        BY <2>2, <1>5 DEF FindAgain
      <3>2. d \in Matching(call[r].chart)
        BY <3>1 DEF SameRow
      <3>3. Reads(r, d)
        BY <3>1, <3>2, <2>2, <1>5, <1>m DEF FindAgain, Reads, TypeOK, database
      <3> QED BY <3>1, <3>2, <3>3, <1>m, <2>2, <1>5 DEF FindAgain, TypeOK, database
    <2> QED BY <2>1, <2>2
  <1>6. CASE ReadOwnVote(r)
    BY <1>6, <1>s DEF ReadOwnVote
  <1>7. CASE BeginCredit(r)
    <2>1. CASE \E step \in {"failed", "repRead"} : Skip(r, step)
      BY <2>1, <1>7, <1>s DEF BeginCredit, Arrives
    <2>2. CASE ~\E step \in {"failed", "repRead"} : Skip(r, step)
      BY <2>2, <1>7, <1>m DEF BeginCredit, Arrives, Reads, TypeOK, database
    <2> QED BY <2>1, <2>2
  <1>8. CASE ReputationRead(r)
    <2>1. CASE Skip(r, "activity")
      BY <2>1, <1>8, <1>s DEF ReputationRead
    <2>2. CASE ~Skip(r, "activity")
      BY <2>2, <1>8 DEF ReputationRead, GoesOn, TypeOK, database
    <2> QED BY <2>1, <2>2
  <1>9. CASE ReputationWrite(r)
    <2>1. CASE Skip(r, "activity")
      BY <2>1, <1>9, <1>s DEF ReputationWrite
    <2>2. CASE ~Skip(r, "activity")
      BY <2>2, <1>9 DEF ReputationWrite, GoesOn, TypeOK, locals
    <2> QED BY <2>1, <2>2
  <1>10. CASE AddActivity(r)
    <2>1. CASE Skip(r, "save")
      BY <2>1, <1>10, <1>s DEF AddActivity
    <2>2. CASE ~Skip(r, "save")
      BY <2>2, <1>10 DEF AddActivity, GoesOn, TypeOK, locals
    <2> QED BY <2>1, <2>2
  <1>11. CASE SaveDiscovered(r)
    <2>1. CASE Skip(r, "failed")
      BY <2>1, <1>11, <1>s DEF SaveDiscovered
    <2>2. CASE ~Skip(r, "failed")
      <3> DEFINE d == IF did[r] = Zero THEN r ELSE did[r]
      <3>1. d \in DiscoveredIds
        BY DEF TypeOK, DiscoveredIds
      <3>2. Voted(r) \in Discovered
        BY <1>11, CallShape, RowsAreRows DEF SaveDiscovered, Voted, TypeOK, Stages
      <3>3. Saves(r, d)
        BY <3>2, <2>2, <1>11 DEF SaveDiscovered, Saves, TypeOK
      <3> QED BY <3>1, <3>3, <2>2, <1>11 DEF SaveDiscovered, TypeOK
    <2> QED BY <2>1, <2>2
  <1>12. CASE FindCredit(r)
    <2>1. CASE Skip(r, "insert") \/ (r \in Faulty /\ Skip(r, "update"))
      BY <2>1, <1>12, <1>s DEF FindCredit
    <2>2. CASE ~(Skip(r, "insert") \/ (r \in Faulty /\ Skip(r, "update")))
      BY <2>2, <1>12 DEF FindCredit, FindsCredit, TypeOK, database
    <2> QED BY <2>1, <2>2
  <1>13. CASE InsertCredit(r)
    <2>1. CASE Skip(r, "failed")
      BY <2>1, <1>13, <1>s DEF InsertCredit
    <2>2. CASE ~Skip(r, "failed")
      BY <2>2, <1>13 DEF InsertCredit, WritesCredit, TypeOK, locals
    <2> QED BY <2>1, <2>2
  <1>14. CASE UpdateCredit(r)
    <2>1. CASE Skip(r, "failed")
      BY <2>1, <1>14, <1>s DEF UpdateCredit
    <2>2. CASE ~Skip(r, "failed")
      <3>1. TurnsCredits(r)
        BY <2>2, <1>14 DEF UpdateCredit, TurnsCredits, TypeOK, locals
      <3> QED BY <3>1, <2>2, <1>14 DEF UpdateCredit, TypeOK, locals
    <2> QED BY <2>1, <2>2
  <1> QED BY <1>1, <1>2, <1>3, <1>4, <1>5, <1>6, <1>7, <1>8, <1>9, <1>10, <1>11, <1>12,
             <1>13, <1>14

-----------------------------------------------------------------------------
(***************************************************************************)
(* Which rows exist, and what local structs say of them.                   *)
(***************************************************************************)

\* A request's own row is not there before the request inserts it, and no vote
\* is saved before its Save.
NewRows ==
    /\ \A r \in Requests : pc[r] \in Before => table[r] = NoRow /\ r \notin saved
    /\ \A r \in saved : Op(r) = "credit" /\ pc[r] \in After \cup Ended /\ did[r] # Zero

\* A struct that has an id is of a row that is there, and agrees with it on the
\* chart and the discoverer, however stale its counters are.
Copies ==
    \A r \in Requests :
        /\ did[r] = Zero => copy[r] = Empty
        /\ did[r] # Zero =>
             /\ table[did[r]] # NoRow
             /\ table[did[r]].chart = copy[r].chart /\ table[did[r]].uid = copy[r].uid

RowInv == NewRows /\ Copies

\* What a step does to a row that is there: only a Save writes it, and it keeps
\* the chart and the discoverer.
LEMMA RowSteps ==
    ASSUME TypeInv, RowInv, Next, NEW d \in DiscoveredIds, table[d] # NoRow
    PROVE  /\ table'[d] # NoRow
           /\ table'[d].chart = table[d].chart /\ table'[d].uid = table[d].uid
  <1> USE DEF TypeInv, RowInv
  <1>1. PICK r \in Requests :
               \/ \E x \in DiscoveredIds : Reads(r, x) \/ Saves(r, x)
               \/ Inserts(r) \/ FindsCredit(r) \/ WritesCredit(r)
               \/ TurnsCredits(r) \/ GoesOn(r)
    BY StepKinds
  <1>2. CASE table' = table
    BY <1>2
  <1>3. CASE Inserts(r)
    <2>1. d # r
      BY <1>3 DEF Inserts, NewRows, Before
    <2> QED BY <2>1, <1>3 DEF Inserts, TypeOK
  <1>4. ASSUME NEW x \in DiscoveredIds, Saves(r, x)
        PROVE  /\ table'[d] # NoRow
               /\ table'[d].chart = table[d].chart /\ table'[d].uid = table[d].uid
    <2>1. CASE d # x
      BY <2>1, <1>4 DEF Saves, TypeOK
    <2>2. CASE d = x
      <3>1. did[r] # Zero /\ d = did[r]
        BY <2>2, <1>4 DEF Saves, NewRows, Before
      <3>2. copy[r] \in Discovered /\ call[r].up \in BOOLEAN
        BY <1>4, CallShape DEF Saves, TypeOK, Stages, CreditSteps
      <3>3. Voted(r).chart = copy[r].chart /\ Voted(r).uid = copy[r].uid
        BY <3>2, RowsAreRows DEF Voted
      <3>4. table'[d] = Voted(r) /\ Voted(r) # NoRow
        BY <2>2, <1>4, NoRowIsNoRow DEF Saves, TypeOK
      <3> QED BY <3>1, <3>3, <3>4 DEF Copies
    <2> QED BY <2>1, <2>2
  <1> QED BY <1>1, <1>2, <1>3, <1>4 DEF Reads, FindsCredit, WritesCredit, TurnsCredits, GoesOn

\* The initial rows were not inserted by requests, and nothing is read yet.
LEMMA InitRows == Init => RowInv
  <1> SUFFICES ASSUME Init PROVE RowInv OBVIOUS
  <1>1. \A r \in Requests : table[r] = NoRow
    <2>1. PICK author \in [Charts -> Users \cup {Nobody}] :
             table = [d \in DiscoveredIds |->
                        IF d \in Charts /\ author[d] # Nobody
                        THEN NewDiscovery(d, author[d]) ELSE NoRow]
      BY DEF Init
    <2>2. \A r \in Requests : r \in DiscoveredIds /\ r \notin Charts
      BY IdsAreDistinct DEF DiscoveredIds
    <2> QED BY <2>1, <2>2
  <1> QED BY <1>1 DEF Init, RowInv, NewRows, Copies

\* Every step keeps the rows and the structs in agreement.
LEMMA RowsStep == TypeInv /\ TypeInv' /\ RowInv /\ [Next]_vars => RowInv'
  <1> SUFFICES ASSUME TypeInv, TypeInv', RowInv, [Next]_vars PROVE RowInv' OBVIOUS
  <1>u. CASE UNCHANGED vars
    BY <1>u DEF vars, database, locals, RowInv, NewRows, Copies, Op
  <1>n. CASE Next
    <2> USE DEF TypeInv, RowInv
    <2>1. call' = call /\ \A q \in Requests : Op(q)' = Op(q)
      BY <1>n, StepKinds DEF Op
    <2>2. \A d \in DiscoveredIds : table[d] # NoRow =>
            /\ table'[d] # NoRow
            /\ table'[d].chart = table[d].chart /\ table'[d].uid = table[d].uid
      BY <1>n, RowSteps
    <2>3. PICK r \in Requests :
            /\ \A q \in Requests \ {r} : pc'[q] = pc[q]
            /\ pc[r] \notin Ended
            /\ \/ \E d \in DiscoveredIds : Reads(r, d) \/ Saves(r, d)
               \/ Inserts(r) \/ FindsCredit(r) \/ WritesCredit(r)
               \/ TurnsCredits(r) \/ GoesOn(r)
      BY <1>n, StepKinds
    <2>z. /\ \A d \in DiscoveredIds : d # Zero
          /\ \A q \in Requests : q \in DiscoveredIds /\ did[q] \in DiscoveredIds \cup {Zero}
          /\ saved \subseteq Requests
      BY IdsAreDistinct DEF DiscoveredIds, TypeOK
    <2> USE DEF Before, After, Ended
    <2>4. ASSUME NEW d \in DiscoveredIds, Reads(r, d) PROVE RowInv'
      <3>1. table[d] # NoRow
        BY <2>4 DEF Reads, Matching
      <3>2. r \notin saved
        BY <2>4 DEF Reads, NewRows
      <3>3. NewRows'
        <4>1. pc'[r] \notin Before \/ pc[r] \in Before
          BY <2>4 DEF Reads
        <4>2. \A q \in saved : q # r /\ pc'[q] = pc[q] /\ did'[q] = did[q]
          BY <2>3, <2>4, <2>z, <3>2 DEF Reads, TypeOK
        <4>3. \A q \in Requests : pc'[q] \in Before => pc[q] \in Before
          BY <4>1, <2>3
        <4>4. table' = table /\ saved' = saved
          BY <2>4 DEF Reads
        <4>5. \A q \in saved : Op(q)' = Op(q)
          BY <2>1, <2>z
        <4> QED BY <4>2, <4>3, <4>4, <4>5 DEF NewRows
      <3>4. Copies'
        BY <2>4, <2>z, <3>1 DEF Reads, Copies, TypeOK
      <3> QED BY <3>3, <3>4
    <2>5. ASSUME NEW d \in DiscoveredIds, Saves(r, d) PROVE RowInv'
      <3>1. Op(r) = "credit"
        BY <2>5 DEF Saves, Stages, CreditSteps
      <3>2. ASSUME NEW q \in Requests, pc'[q] \in Before
            PROVE  table'[q] = NoRow /\ q \notin saved'
        <4>1. q # r /\ pc[q] \in Before
          BY <2>3, <2>5, <3>2 DEF Saves, TypeOK
        <4>2. q # d
          <5>1. CASE did[r] = Zero
            BY <5>1, <4>1, <2>5 DEF Saves
          <5>2. CASE did[r] # Zero
            BY <5>2, <4>1, <2>5 DEF Saves, NewRows, Copies
          <5> QED BY <5>1, <5>2
        <4> QED BY <4>1, <4>2, <2>5, <2>z DEF Saves, NewRows, TypeOK
      <3>3. NewRows'
        BY <3>1, <3>2, <2>1, <2>3, <2>5, <2>z DEF Saves, NewRows, TypeOK
      <3>4. table'[d] = Voted(r) /\ Voted(r) # NoRow
        BY <2>5, NoRowIsNoRow DEF Saves, TypeOK
      <3>5. Copies'
        BY <3>4, <2>2, <2>5, <2>z DEF Saves, Copies, TypeOK
      <3> QED BY <3>3, <3>5
    <2>6. CASE Inserts(r)
      <3> DEFINE row == NewDiscovery(call[r].chart, call[r].uid)
      <3>1. row # NoRow
        BY CallShape, RowsAreRows, NoRowIsNoRow
      <3> HIDE DEF row
      <3>2. /\ pc[r] = "discover" /\ pc'[r] = "creditors"
            /\ table' = [table EXCEPT ![r] = row]
            /\ \/ did' = [did EXCEPT ![r] = r] /\ copy' = [copy EXCEPT ![r] = row]
               \/ did' = did /\ copy' = copy
            /\ saved' = saved
        BY <2>6 DEF Inserts, row
      <3>3. r \notin saved
        BY <3>2 DEF NewRows
      <3>4. NewRows'
        BY <3>2, <3>3, <2>1, <2>3, <2>z DEF NewRows, TypeOK
      <3>5. Copies'
        BY <3>1, <3>2, <2>2, <2>z DEF Copies, TypeOK
      <3> QED BY <3>4, <3>5
    <2>7. CASE FindsCredit(r) \/ WritesCredit(r) \/ TurnsCredits(r) \/ GoesOn(r)
      <3>1. UNCHANGED <<table, did, copy, saved>>
        BY <2>7 DEF FindsCredit, WritesCredit, TurnsCredits, GoesOn
      <3>2. /\ pc'[r] \in Before => pc[r] \in Before
            /\ pc[r] \in After => pc'[r] \in After \cup Ended
        BY <2>7 DEF FindsCredit, WritesCredit, TurnsCredits, GoesOn
      <3>3. NewRows'
        BY <3>1, <3>2, <2>1, <2>3 DEF NewRows, TypeOK
      <3>4. Copies'
        BY <3>1 DEF Copies
      <3> QED BY <3>3, <3>4
    <2> QED BY <2>3, <2>4, <2>5, <2>6, <2>7
  <1> QED BY <1>u, <1>n

\* The rows and the structs agree in every state.
THEOREM Rows == Spec => [](TypeInv /\ RowInv)
  <1>1. Init => TypeInv /\ RowInv
    BY InitTypes, InitRows
  <1>2. (TypeInv /\ RowInv) /\ [Next]_vars => (TypeInv /\ RowInv)'
    BY NextTypes, RowsStep
  <1> QED BY <1>1, <1>2, PTL DEF Spec

\* No step takes a discovery away, gives it to another user or moves it to
\* another chart: not the whole-row Save of CreditChart (tablestocharts.go:113)
\* either, however stale its struct.
THEOREM DiscoveriesStay == Spec => DiscoveryIsForGood
  <1> DEFINE Stay ==
        \A d \in DiscoveredIds : table[d] # NoRow =>
            /\ table'[d] # NoRow
            /\ table'[d].chart = table[d].chart /\ table'[d].uid = table[d].uid
  <1>1. TypeInv /\ RowInv /\ Next => Stay
    BY RowSteps
  <1>2. TypeInv /\ RowInv /\ [Next]_vars => [Stay]_vars
    BY <1>1
  <1> QED BY <1>2, Rows, PTL DEF Spec, DiscoveryIsForGood

-----------------------------------------------------------------------------
(***************************************************************************)
(* The counters.                                                           *)
(***************************************************************************)

\* The number of saved votes on row d, for it and against it.
Ups(d) == Cardinality(SavedVotes(d, TRUE))
Downs(d) == Cardinality(SavedVotes(d, FALSE))

\* A row, stored or copied, that claims no more votes on d than were saved.
WithinSaved(row, d) == row.credited <= Ups(d) /\ row.discredited <= Downs(d)

\* The inductive form of CountersNeverOverstate: the structs that a Save is made
\* from are within the saved votes as well, and stay so while they grow stale.
CountersInv ==
    /\ \A d \in DiscoveredIds : table[d] # NoRow => WithinSaved(table[d], d)
    /\ \A r \in Requests : did[r] # Zero => WithinSaved(copy[r], did[r])

\* The saved votes are finitely many.
LEMMA VotesAreNumbers ==
    ASSUME TypeOK
    PROVE  \A d, b : /\ IsFiniteSet(SavedVotes(d, b))
                     /\ Cardinality(SavedVotes(d, b)) \in Nat
  <1> TAKE d, b
  <1>1. SavedVotes(d, b) \in SUBSET Requests
    BY DEF SavedVotes, TypeOK
  <1> QED BY <1>1, RequestsAreFinite, FS_Subset, FS_CardinalityType

\* No step but a Save changes the votes that are saved on a row: a vote whose
\* Save is done stays with its row.
LEMMA VotesStay ==
    ASSUME TypeInv, RowInv, Next,
           ~\E r \in Requests : \E d \in DiscoveredIds : Saves(r, d)
    PROVE  /\ saved' = saved
           /\ \A d, b : SavedVotes(d, b)' = SavedVotes(d, b)
  <1> USE DEF TypeInv, RowInv
  <1>1. PICK r \in Requests :
               /\ pc[r] \notin Ended
               /\ \/ \E d \in DiscoveredIds : Reads(r, d) \/ Saves(r, d)
                  \/ Inserts(r) \/ FindsCredit(r) \/ WritesCredit(r)
                  \/ TurnsCredits(r) \/ GoesOn(r)
    BY StepKinds
  <1>2. saved' = saved /\ call' = call
    BY <1>1, StepKinds
       DEF Reads, Inserts, FindsCredit, WritesCredit, TurnsCredits, GoesOn
  <1>3. CASE did' = did
    BY <1>2, <1>3 DEF SavedVotes
  <1>4. CASE did' # did
    <2>1. PICK x : did' = [did EXCEPT ![r] = x]
      BY <1>1, <1>4
         DEF Reads, Inserts, FindsCredit, WritesCredit, TurnsCredits, GoesOn
    <2>2. pc[r] \in {"arrive", "again", "discover"}
      BY <1>1, <1>4
         DEF Reads, Inserts, FindsCredit, WritesCredit, TurnsCredits, GoesOn
    <2>3. r \notin saved
      BY <2>2 DEF NewRows, After, Ended
    <2>4. \A q \in saved : did'[q] = did[q]
      BY <2>1, <2>3 DEF TypeOK
    <2> QED BY <1>2, <2>4 DEF SavedVotes
  <1> QED BY <1>2, <1>3, <1>4

\* A Save of request r as row d adds r to the votes on d, in its direction.
LEMMA VotesGrow ==
    ASSUME TypeInv, RowInv, call' = call,
           NEW r \in Requests, NEW d \in DiscoveredIds, Saves(r, d)
    PROVE  \A x : /\ Ups(x) \in Nat /\ Downs(x) \in Nat
                  /\ Ups(x)' = Ups(x) + (IF x = d /\ call[r].up THEN 1 ELSE 0)
                  /\ Downs(x)' = Downs(x) + (IF x = d /\ ~call[r].up THEN 1 ELSE 0)
  <1> USE DEF TypeInv, RowInv
  <1>1. r \notin saved /\ saved \subseteq Requests /\ call[r].up \in BOOLEAN
    BY CallShape DEF Saves, NewRows, Before, TypeOK, Stages, CreditSteps
  <1>2. /\ saved' = saved \cup {r} /\ did'[r] = d
        /\ \A q \in saved : did'[q] = did[q]
    BY <1>1 DEF Saves, TypeOK
  <1>3. ASSUME NEW x, NEW b
        PROVE  Cardinality(SavedVotes(x, b)') = Cardinality(SavedVotes(x, b))
                 + (IF x = d /\ call[r].up = b THEN 1 ELSE 0)
    <2>1. CASE x = d /\ call[r].up = b
      <3>1. SavedVotes(x, b)' = SavedVotes(x, b) \cup {r} /\ r \notin SavedVotes(x, b)
        BY <1>1, <1>2, <2>1 DEF SavedVotes
      <3>2. Cardinality(SavedVotes(x, b) \cup {r}) = Cardinality(SavedVotes(x, b)) + 1
        BY <3>1, VotesAreNumbers, FS_AddElement
      <3> QED BY <2>1, <3>1, <3>2
    <2>2. CASE ~(x = d /\ call[r].up = b)
      <3>1. SavedVotes(x, b)' = SavedVotes(x, b)
        BY <1>1, <1>2, <2>2 DEF SavedVotes
      <3> QED BY <2>2, <3>1, VotesAreNumbers
    <2> QED BY <2>1, <2>2
  <1>4. \A x : Ups(x) \in Nat /\ Downs(x) \in Nat
    BY VotesAreNumbers DEF Ups, Downs
  <1>5. (call[r].up = TRUE <=> call[r].up) /\ (call[r].up = FALSE <=> ~call[r].up)
    BY <1>1
  <1> QED BY <1>3, <1>4, <1>5 DEF Ups, Downs

\* Every step keeps the stored and the copied counters within the saved votes.
LEMMA CountersStep ==
    TypeInv /\ TypeInv' /\ RowInv /\ CountersInv /\ [Next]_vars => CountersInv'
  <1> SUFFICES ASSUME TypeInv, TypeInv', RowInv, CountersInv, [Next]_vars
               PROVE  CountersInv'
    OBVIOUS
  <1>u. CASE UNCHANGED vars
    BY <1>u DEF vars, database, locals, CountersInv, WithinSaved, Ups, Downs, SavedVotes
  <1>n. CASE Next
    <2> USE DEF TypeInv, RowInv
    <2>c. call' = call
      BY <1>n, StepKinds
    <2>z. /\ \A d \in DiscoveredIds : d # Zero
          /\ \A q \in Requests : q \in DiscoveredIds /\ did[q] \in DiscoveredIds \cup {Zero}
      BY IdsAreDistinct DEF DiscoveredIds, TypeOK
    <2>1. CASE \E r \in Requests : \E d \in DiscoveredIds : Saves(r, d)
      <3>1. PICK r \in Requests : \E d \in DiscoveredIds : Saves(r, d)
        BY <2>1
      <3>2. PICK d \in DiscoveredIds : Saves(r, d)
        BY <3>1
      <3>3. \A x : /\ Ups(x) \in Nat /\ Downs(x) \in Nat
                   /\ Ups(x)' = Ups(x) + (IF x = d /\ call[r].up THEN 1 ELSE 0)
                   /\ Downs(x)' = Downs(x) + (IF x = d /\ ~call[r].up THEN 1 ELSE 0)
        BY <2>c, <3>2, VotesGrow
      <3>4. copy[r] \in Discovered /\ call[r].up \in BOOLEAN
        BY <3>2, CallShape DEF Saves, TypeOK, Stages, CreditSteps
      <3>5. /\ Voted(r).credited = copy[r].credited + (IF call[r].up THEN 1 ELSE 0)
            /\ Voted(r).discredited = copy[r].discredited + (IF call[r].up THEN 0 ELSE 1)
            /\ copy[r].credited \in Nat /\ copy[r].discredited \in Nat
        BY <3>4, RowsAreRows DEF Voted, Discovered
      <3>6. copy[r].credited <= Ups(d) /\ copy[r].discredited <= Downs(d)
        <4>1. CASE did[r] = Zero
          BY <4>1, <3>3 DEF Copies, Empty
        <4>2. CASE did[r] # Zero
          BY <4>2, <3>2 DEF Saves, CountersInv, WithinSaved
        <4> QED BY <4>1, <4>2
      <3>7. Voted(r).credited <= Ups(d)' /\ Voted(r).discredited <= Downs(d)'
        BY <3>3, <3>4, <3>5, <3>6
      <3>8. ASSUME NEW row \in Discovered, NEW x, WithinSaved(row, x)
            PROVE  row.credited <= Ups(x)' /\ row.discredited <= Downs(x)'
        <4>1. row.credited \in Nat /\ row.discredited \in Nat
          BY DEF Discovered
        <4> QED BY <4>1, <3>3, <3>8 DEF WithinSaved
      <3>9. ASSUME NEW x \in DiscoveredIds, table'[x] # NoRow
            PROVE  WithinSaved(table[x], x)'
        <4>1. CASE x = d
          BY <4>1, <3>2, <3>7 DEF Saves, TypeOK, WithinSaved
        <4>2. CASE x # d
          <5>1. table'[x] = table[x] /\ table[x] \in Discovered
            BY <4>2, <3>2, <3>9 DEF Saves, TypeOK
          <5>2. WithinSaved(table[x], x)
            BY <5>1, <3>9 DEF CountersInv
          <5> QED BY <5>1, <5>2, <3>8 DEF WithinSaved
        <4> QED BY <4>1, <4>2
      <3>10. ASSUME NEW q \in Requests, did'[q] # Zero
             PROVE  WithinSaved(copy[q], did[q])'
        <4>1. CASE q = r
          BY <4>1, <3>2, <3>7 DEF Saves, TypeOK, WithinSaved
        <4>2. CASE q # r
          <5>1. did'[q] = did[q] /\ copy'[q] = copy[q] /\ copy[q] \in Discovered
            BY <4>2, <3>2 DEF Saves, TypeOK
          <5>2. WithinSaved(copy[q], did[q])
            BY <5>1, <3>10 DEF CountersInv
          <5> QED BY <5>1, <5>2, <3>8 DEF WithinSaved
        <4> QED BY <4>1, <4>2
      <3> QED BY <3>9, <3>10 DEF CountersInv
    <2>2. CASE ~\E r \in Requests : \E d \in DiscoveredIds : Saves(r, d)
      <3>1. \A x : Ups(x)' = Ups(x) /\ Downs(x)' = Downs(x)
                   /\ Ups(x) \in Nat /\ Downs(x) \in Nat
        BY <1>n, <2>2, VotesStay, VotesAreNumbers DEF Ups, Downs
      <3>2. PICK r \in Requests :
                   \/ \E d \in DiscoveredIds : Reads(r, d)
                   \/ Inserts(r) \/ FindsCredit(r) \/ WritesCredit(r)
                   \/ TurnsCredits(r) \/ GoesOn(r)
        BY <1>n, <2>2, StepKinds
      <3>3. CASE UNCHANGED <<table, did, copy>>
        BY <3>1, <3>3 DEF CountersInv, WithinSaved
      <3>4. ASSUME NEW d \in DiscoveredIds, Reads(r, d) PROVE CountersInv'
        <4>1. WithinSaved(table[d], d)
          BY <3>4 DEF Reads, Matching, CountersInv
        <4> QED BY <4>1, <3>1, <3>4 DEF Reads, TypeOK, CountersInv, WithinSaved
      <3>5. CASE Inserts(r)
        <4> DEFINE row == NewDiscovery(call[r].chart, call[r].uid)
        <4>1. row.credited = 0 /\ row.discredited = 0
          BY CallShape, RowsAreRows
        <4> HIDE DEF row
        <4>2. /\ table' = [table EXCEPT ![r] = row]
              /\ \/ did' = [did EXCEPT ![r] = r] /\ copy' = [copy EXCEPT ![r] = row]
                 \/ did' = did /\ copy' = copy
          BY <3>5 DEF Inserts, row
        <4>3. \A x : row.credited <= Ups(x)' /\ row.discredited <= Downs(x)'
          BY <3>1, <4>1
        <4>4. ASSUME NEW x \in DiscoveredIds, table'[x] # NoRow
              PROVE  WithinSaved(table[x], x)'
          <5>1. CASE x = r
            BY <5>1, <4>2, <4>3 DEF TypeOK, WithinSaved
          <5>2. CASE x # r
            BY <5>2, <4>2, <4>4, <3>1 DEF TypeOK, CountersInv, WithinSaved
          <5> QED BY <5>1, <5>2
        <4>5. ASSUME NEW q \in Requests, did'[q] # Zero
              PROVE  WithinSaved(copy[q], did[q])'
          <5>1. CASE did'[q] = did[q] /\ copy'[q] = copy[q]
            BY <5>1, <4>5, <3>1 DEF CountersInv, WithinSaved
          <5>2. CASE ~(did'[q] = did[q] /\ copy'[q] = copy[q])
            <6>1. copy'[q] = row
              BY <5>2, <4>2 DEF TypeOK
            <6> QED BY <6>1, <4>3 DEF WithinSaved
          <5> QED BY <5>1, <5>2
        <4> QED BY <4>4, <4>5 DEF CountersInv
      <3> QED BY <3>2, <3>3, <3>4, <3>5
           DEF FindsCredit, WritesCredit, TurnsCredits, GoesOn
    <2> QED BY <2>1, <2>2
  <1> QED BY <1>u, <1>n

\* At first every counter is zero.
LEMMA InitCounters == Init => CountersInv
  <1> SUFFICES ASSUME Init PROVE CountersInv OBVIOUS
  <1>1. TypeOK
    BY InitTypes DEF TypeInv
  <1>2. \A d : Ups(d) \in Nat /\ Downs(d) \in Nat
    BY <1>1, VotesAreNumbers DEF Ups, Downs
  <1>3. PICK author \in [Charts -> Users \cup {Nobody}] :
           table = [d \in DiscoveredIds |->
                      IF d \in Charts /\ author[d] # Nobody
                      THEN NewDiscovery(d, author[d]) ELSE NoRow]
    BY DEF Init
  <1>4. ASSUME NEW d \in DiscoveredIds, table[d] # NoRow
        PROVE  WithinSaved(table[d], d)
    <2>1. d \in Charts /\ author[d] \in Users /\ table[d] = NewDiscovery(d, author[d])
      BY <1>3, <1>4
    <2>2. table[d].credited = 0 /\ table[d].discredited = 0
      BY <2>1, RowsAreRows
    <2> QED BY <1>2, <2>2 DEF WithinSaved
  <1> QED BY <1>4 DEF Init, CountersInv

\* The counters of a chart never show a vote that no CreditChart call saved,
\* whichever of several whole-row Saves comes last (tablestocharts.go:102-115).
THEOREM CountersAreWithinVotes == Spec => []CountersNeverOverstate
  <1>1. CountersInv => CountersNeverOverstate
    BY DEF CountersInv, CountersNeverOverstate, WithinSaved, Ups, Downs
  <1>2. Spec => []CountersInv
    BY InitCounters, CountersStep, Rows, Types, PTL DEF Spec
  <1> QED BY <1>1, <1>2, PTL

-----------------------------------------------------------------------------
(***************************************************************************)
(* Credit rows, and the votes they stand for.                              *)
(***************************************************************************)

\* Whoever is past its Save has saved, and the row it saved counts some vote.
SavedIsCounted ==
    /\ \A r \in Requests : pc[r] \in After => r \in saved
    /\ \A r \in saved : table[did[r]].credited + table[did[r]].discredited > 0

\* A credit row is of the row and the user of the vote that inserted it.
CreditRows ==
    \A q \in Requests : credits[q] # NoRow =>
        q \in saved /\ credits[q].did = did[q] /\ credits[q].uid = call[q].uid

\* The credit row a vote has found is of its own row and user; only a vote whose
\* look-up failed goes on to the update without one.
FoundRows ==
    \A r \in Requests :
        /\ mine[r] # NoRow =>
             /\ r \in saved /\ credits[mine[r]].did = did[r]
             /\ credits[mine[r]].uid = call[r].uid
        /\ pc[r] = "update" /\ r \notin Faulty => mine[r] # NoRow

\* A row of no chart was inserted by a vote, which alone has it in its struct.
Orphans ==
    /\ \A d \in DiscoveredIds : table[d] # NoRow /\ table[d].chart = NoChart =>
         /\ table[d].credited + table[d].discredited = 1 /\ table[d].uid = Nobody
    /\ \A r \in Requests : did[r] # Zero /\ copy[r].chart = NoChart => did[r] = r

CreditInv == SavedIsCounted /\ CreditRows /\ FoundRows /\ Orphans

\* A saved vote stays saved, on its row.
LEMMA SavedStays ==
    ASSUME TypeInv, RowInv, Next, NEW q \in saved
    PROVE  q \in saved' /\ did'[q] = did[q] /\ q \in Requests
  <1> USE DEF TypeInv, RowInv
  <1>1. PICK r \in Requests :
               /\ pc[r] \notin Ended
               /\ \/ \E d \in DiscoveredIds : Reads(r, d) \/ Saves(r, d)
                  \/ Inserts(r) \/ FindsCredit(r) \/ WritesCredit(r)
                  \/ TurnsCredits(r) \/ GoesOn(r)
    BY StepKinds
  <1>2. q \in Requests /\ pc[q] \in After \cup Ended
    BY DEF NewRows, TypeOK
  <1>3. CASE UNCHANGED <<did, saved>>
    BY <1>2, <1>3
  <1>4. CASE Inserts(r) \/ \E d \in DiscoveredIds : Reads(r, d) \/ Saves(r, d)
    <2>1. pc[r] \in {"arrive", "again", "discover", "save"}
      BY <1>4 DEF Reads, Saves, Inserts
    <2>2. q # r
      BY <2>1, <1>2 DEF After, Ended
    <2>3. q \in saved' /\ (did' = did \/ \E x : did' = [did EXCEPT ![r] = x])
      BY <1>4 DEF Reads, Saves, Inserts
    <2> QED BY <1>2, <2>2, <2>3 DEF TypeOK
  <1> QED BY <1>1, <1>3, <1>4 DEF FindsCredit, WritesCredit, TurnsCredits, GoesOn

\* What a step does to a credit row that is there: it stays of its row and user.
LEMMA CreditRowSteps ==
    ASSUME TypeInv, CreditInv, Next, NEW q \in Requests, credits[q] # NoRow
    PROVE  /\ credits'[q] # NoRow
           /\ credits'[q].did = credits[q].did /\ credits'[q].uid = credits[q].uid
  <1> USE DEF TypeInv
  <1>1. PICK r \in Requests :
               \/ \E d \in DiscoveredIds : Reads(r, d) \/ Saves(r, d)
               \/ Inserts(r) \/ FindsCredit(r) \/ WritesCredit(r)
               \/ TurnsCredits(r) \/ GoesOn(r)
    BY StepKinds
  <1>2. CASE credits' = credits
    BY <1>2
  <1>3. CASE WritesCredit(r)
    <2> DEFINE row == [did |-> did[r], uid |-> call[r].uid, up |-> call[r].up]
    <2>1. row \in Credit /\ row.did = did[r] /\ row.uid = call[r].uid
      BY <1>3, CallShape DEF WritesCredit, TypeOK, Stages, After, CreditSteps, Credit
    <2>2. credits' = [credits EXCEPT ![r] = row]
      BY <1>3 DEF WritesCredit
    <2> HIDE DEF row
    <2> QED BY <2>1, <2>2, NoRowIsNoRow DEF TypeOK, CreditInv, CreditRows
  <1>4. CASE TurnsCredits(r)
    <2>1. credits[q] \in Credit /\ call[r].up \in BOOLEAN
      BY <1>4, CallShape DEF TurnsCredits, TypeOK, Stages, CreditSteps
    <2>2. credits'[q] = credits[q] \/ credits'[q] = [credits[q] EXCEPT !.up = call[r].up]
      BY <1>4 DEF TurnsCredits
    <2>3. /\ [credits[q] EXCEPT !.up = call[r].up] \in Credit
          /\ [credits[q] EXCEPT !.up = call[r].up].did = credits[q].did
          /\ [credits[q] EXCEPT !.up = call[r].up].uid = credits[q].uid
      BY <2>1 DEF Credit
    <2> QED BY <2>1, <2>2, <2>3, NoRowIsNoRow
  <1> QED BY <1>1, <1>2, <1>3, <1>4 DEF Reads, Saves, Inserts, FindsCredit, GoesOn

\* The initial state has no credit rows, and no rows without a chart.
LEMMA InitCredits == Init => CreditInv
  <1> SUFFICES ASSUME Init PROVE CreditInv OBVIOUS
  <1>1. PICK author \in [Charts -> Users \cup {Nobody}] :
           table = [d \in DiscoveredIds |->
                      IF d \in Charts /\ author[d] # Nobody
                      THEN NewDiscovery(d, author[d]) ELSE NoRow]
    BY DEF Init
  <1>2. \A d \in DiscoveredIds : table[d] # NoRow => table[d].chart # NoChart
    BY <1>1, RowsAreRows, IdsAreDistinct
  <1> QED BY <1>2 DEF Init, CreditInv, SavedIsCounted, CreditRows, FoundRows, Orphans, After

\* Every step keeps the credit rows and the saved votes in agreement.
LEMMA CreditStep ==
    TypeInv /\ TypeInv' /\ RowInv /\ RowInv' /\ CreditInv /\ [Next]_vars => CreditInv'
  <1> SUFFICES ASSUME TypeInv, TypeInv', RowInv, RowInv', CreditInv, [Next]_vars
               PROVE  CreditInv'
    OBVIOUS
  <1>u. CASE UNCHANGED vars
    BY <1>u DEF vars, database, locals, CreditInv, SavedIsCounted, CreditRows, FoundRows,
       Orphans
  <1>n. CASE Next
    <2> USE DEF TypeInv, RowInv
    <2>c. call' = call
      BY <1>n, StepKinds
    <2>z. /\ \A d \in DiscoveredIds : d # Zero
          /\ \A q \in Requests : q \in DiscoveredIds /\ did[q] \in DiscoveredIds \cup {Zero}
          /\ \A q \in Requests : mine[q] # NoRow => mine[q] \in Requests
      BY IdsAreDistinct DEF DiscoveredIds, TypeOK
    <2>s. \A q \in saved : q \in saved' /\ did'[q] = did[q] /\ q \in Requests
      BY <1>n, SavedStays
    <2>r. \A q \in Requests : credits[q] # NoRow =>
            /\ credits'[q] # NoRow
            /\ credits'[q].did = credits[q].did /\ credits'[q].uid = credits[q].uid
      BY <1>n, CreditRowSteps
    <2>k. PICK r \in Requests :
            /\ \A q \in Requests \ {r} : pc'[q] = pc[q]
            /\ pc[r] \notin Ended
            /\ \/ \E d \in DiscoveredIds : Reads(r, d) \/ Saves(r, d)
               \/ Inserts(r) \/ FindsCredit(r) \/ WritesCredit(r)
               \/ TurnsCredits(r) \/ GoesOn(r)
      BY <1>n, StepKinds
    \* votes past their Save
    <2>1. \A q \in Requests : pc'[q] \in After => q \in saved'
      <3>1. pc'[r] \in After => pc[r] \in After \/ r \in saved'
        BY <2>k DEF Reads, Saves, Inserts, FindsCredit, WritesCredit, TurnsCredits, GoesOn,
           After
      <3> QED BY <3>1, <2>k, <2>s DEF CreditInv, SavedIsCounted
    <2>2. \A q \in saved' : table'[did'[q]].credited + table'[did'[q]].discredited > 0
      <3>1. ASSUME NEW d \in DiscoveredIds, Saves(r, d), NEW x \in DiscoveredIds,
                   table'[x] # table[x]
            PROVE  table'[x].credited + table'[x].discredited > 0
        <4>1. x = d /\ table'[x] = Voted(r)
          BY <3>1 DEF Saves, TypeOK
        <4>2. copy[r] \in Discovered /\ call[r].up \in BOOLEAN
          BY <3>1, CallShape DEF Saves, TypeOK, Stages, CreditSteps
        <4>3. /\ Voted(r).credited = copy[r].credited + (IF call[r].up THEN 1 ELSE 0)
              /\ Voted(r).discredited = copy[r].discredited + (IF call[r].up THEN 0 ELSE 1)
              /\ copy[r].credited \in Nat /\ copy[r].discredited \in Nat
          BY <4>2, RowsAreRows DEF Voted, Discovered
        <4> QED BY <4>1, <4>2, <4>3
      <3>2. ASSUME Inserts(r), NEW q \in saved PROVE table'[did[q]] = table[did[q]]
        <4>1. table[r] = NoRow /\ table[did[q]] # NoRow
          BY <3>2, <2>s DEF Inserts, NewRows, Copies, Before
        <4> QED BY <4>1, <3>2 DEF Inserts, TypeOK
      <3>3. ASSUME NEW q \in saved
            PROVE  table'[did[q]].credited + table'[did[q]].discredited > 0
        <4>1. did[q] \in DiscoveredIds
          BY <2>z, <2>s DEF NewRows
        <4>2. CASE table'[did[q]] = table[did[q]]
          BY <4>2 DEF CreditInv, SavedIsCounted
        <4>3. CASE table'[did[q]] # table[did[q]]
          BY <4>1, <4>3, <3>1, <3>2, <2>k
             DEF Reads, FindsCredit, WritesCredit, TurnsCredits, GoesOn
        <4> QED BY <4>2, <4>3
      <3>4. ASSUME NEW d \in DiscoveredIds, Saves(r, d)
            PROVE  table'[did'[r]].credited + table'[did'[r]].discredited > 0
        <4>1. did'[r] = d /\ table'[d] = Voted(r)
          BY <3>4 DEF Saves, TypeOK
        <4>2. copy[r] \in Discovered /\ call[r].up \in BOOLEAN
          BY <3>4, CallShape DEF Saves, TypeOK, Stages, CreditSteps
        <4>3. /\ Voted(r).credited = copy[r].credited + (IF call[r].up THEN 1 ELSE 0)
              /\ Voted(r).discredited = copy[r].discredited + (IF call[r].up THEN 0 ELSE 1)
              /\ copy[r].credited \in Nat /\ copy[r].discredited \in Nat
          BY <4>2, RowsAreRows DEF Voted, Discovered
        <4> QED BY <4>1, <4>2, <4>3
      <3>5. saved' = saved \/ (saved' = saved \cup {r} /\ \E d \in DiscoveredIds : Saves(r, d))
        BY <2>k DEF Reads, Saves, Inserts, FindsCredit, WritesCredit, TurnsCredits, GoesOn
      <3> QED BY <2>s, <3>3, <3>4, <3>5
    \* credit rows
    <2>3. CreditRows'
      <3>1. ASSUME NEW q \in Requests, credits[q] # NoRow
            PROVE  q \in saved' /\ credits'[q].did = did'[q] /\ credits'[q].uid = call[q].uid
        BY <3>1, <2>s, <2>r DEF CreditInv, CreditRows
      <3>2. ASSUME NEW q \in Requests, credits[q] = NoRow, credits'[q] # NoRow
            PROVE  q \in saved' /\ credits'[q].did = did'[q] /\ credits'[q].uid = call[q].uid
        <4>1. credits' # credits
          BY <3>2
        <4>2. WritesCredit(r) \/ TurnsCredits(r)
          BY <4>1, <2>k DEF Reads, Saves, Inserts, FindsCredit, GoesOn
        <4>3. ~TurnsCredits(r)
          BY <3>2, <2>z, CallShape DEF TurnsCredits, Updated, TypeOK, Stages
        <4>4. WritesCredit(r) /\ q = r
          BY <4>2, <4>3, <3>2 DEF WritesCredit, TypeOK
        <4>5. q \in saved /\ did'[q] = did[q]
          BY <4>4, <2>s DEF WritesCredit, CreditInv, SavedIsCounted, After
        <4>6. credits'[q] = [did |-> did[q], uid |-> call[q].uid, up |-> call[q].up]
          BY <4>4 DEF WritesCredit, TypeOK
        <4> QED BY <4>5, <4>6, <2>s
      <3> QED BY <3>1, <3>2, <2>c DEF CreditRows
    \* the row that a vote has found
    <2>4. FoundRows'
      <3>1. ASSUME NEW q \in Requests, mine'[q] # NoRow, mine'[q] = mine[q]
            PROVE  /\ q \in saved' /\ credits'[mine'[q]].did = did'[q]
                   /\ credits'[mine'[q]].uid = call'[q].uid
        <4>1. /\ q \in saved /\ credits[mine[q]].did = did[q]
              /\ credits[mine[q]].uid = call[q].uid /\ credits[mine[q]] # NoRow
              /\ mine[q] \in Requests
          BY <3>1, <2>z DEF CreditInv, FoundRows, Stages
        <4> QED BY <4>1, <3>1, <2>c, <2>s, <2>r
      <3>2. ASSUME NEW q \in Requests, mine'[q] # NoRow, mine'[q] # mine[q]
            PROVE  /\ q \in saved' /\ credits'[mine'[q]].did = did'[q]
                   /\ credits'[mine'[q]].uid = call'[q].uid
        <4>1. FindsCredit(r)
          BY <3>2, <2>k DEF Reads, Saves, Inserts, WritesCredit, TurnsCredits, GoesOn
        <4>2. q = r /\ mine'[r] \in CreditsOf(did[r], call[r].uid)
          BY <4>1, <3>2 DEF FindsCredit, TypeOK
        <4>3. r \in saved
          BY <4>1 DEF FindsCredit, CreditInv, SavedIsCounted, After
        <4> QED BY <4>1, <4>2, <4>3, <2>c DEF FindsCredit, CreditsOf
      <3>3. ASSUME NEW q \in Requests, pc'[q] = "update", q \notin Faulty
            PROVE  mine'[q] # NoRow
        <4>1. CASE pc[q] = "update" /\ mine'[q] = mine[q]
          BY <4>1, <3>3 DEF CreditInv, FoundRows
        <4>2. CASE FindsCredit(r)
          <5>1. PICK x \in CreditsOf(did[r], call[r].uid) : mine' = [mine EXCEPT ![r] = x]
            BY <4>2 DEF FindsCredit
          <5>2. x # NoRow
            BY NoRowIsNoRow DEF CreditsOf
          <5>3. q = r \/ pc[q] = "update"
            BY <2>k, <3>3
          <5> QED BY <5>1, <5>2, <5>3, <3>3 DEF CreditInv, FoundRows, TypeOK
        <4>3. CASE ~FindsCredit(r) /\ ~(pc[q] = "update" /\ mine'[q] = mine[q])
          <5>1. mine' = mine
            BY <4>3, <2>k DEF Reads, Saves, Inserts, WritesCredit, TurnsCredits, GoesOn
          <5>2. q = r /\ pc[r] # "update"
            BY <4>3, <5>1, <2>k, <3>3
          <5> QED BY <4>3, <5>2, <2>k, <3>3
                  DEF Reads, Saves, Inserts, WritesCredit, TurnsCredits, GoesOn
        <4> QED BY <4>1, <4>2, <4>3
      <3> QED BY <3>1, <3>2, <3>3 DEF FoundRows
    \* rows of no chart
    <2>5. Orphans'
      <3>1. CASE UNCHANGED <<table, did, copy>>
        BY <3>1 DEF CreditInv, Orphans
      <3>2. ASSUME NEW d \in DiscoveredIds, Reads(r, d) PROVE Orphans'
        <4>1. table[d].chart # NoChart
          BY <3>2, CallShape, IdsAreDistinct DEF Reads, Matching
        <4> QED BY <4>1, <3>2 DEF Reads, TypeOK, CreditInv, Orphans
      <3>3. CASE Inserts(r)
        <4> DEFINE row == NewDiscovery(call[r].chart, call[r].uid)
        <4>1. row.chart # NoChart
          BY CallShape, RowsAreRows, IdsAreDistinct
        <4> HIDE DEF row
        <4>2. /\ table' = [table EXCEPT ![r] = row]
              /\ \/ did' = [did EXCEPT ![r] = r] /\ copy' = [copy EXCEPT ![r] = row]
                 \/ did' = did /\ copy' = copy
          BY <3>3 DEF Inserts, row
        <4> QED BY <4>1, <4>2 DEF TypeOK, CreditInv, Orphans
      <3>4. ASSUME NEW d \in DiscoveredIds, Saves(r, d) PROVE Orphans'
        <4>1. copy[r] \in Discovered /\ call[r].up \in BOOLEAN
          BY <3>4, CallShape DEF Saves, TypeOK, Stages, CreditSteps
        <4>2. /\ Voted(r).chart = copy[r].chart /\ Voted(r).uid = copy[r].uid
              /\ Voted(r).credited = copy[r].credited + (IF call[r].up THEN 1 ELSE 0)
              /\ Voted(r).discredited = copy[r].discredited + (IF call[r].up THEN 0 ELSE 1)
          BY <4>1, RowsAreRows DEF Voted
        <4>3. CASE did[r] = Zero
          <5>1. /\ copy[r].chart = NoChart /\ copy[r].uid = Nobody
                /\ copy[r].credited = 0 /\ copy[r].discredited = 0
            BY <4>3 DEF Copies, Empty
          <5>2. Voted(r).credited + Voted(r).discredited = 1 /\ Voted(r).uid = Nobody
            BY <4>1, <4>2, <5>1
          <5>3. d = r
            BY <4>3, <3>4 DEF Saves
          <5> QED BY <5>2, <5>3, <3>4 DEF Saves, TypeOK, CreditInv, Orphans
        <4>4. CASE did[r] # Zero
          <5>1. d = did[r] /\ table[r] = NoRow /\ table[d] # NoRow
            BY <4>4, <3>4 DEF Saves, NewRows, Copies, Before
          <5>2. Voted(r).chart # NoChart
            BY <4>2, <4>4, <5>1 DEF CreditInv, Orphans
          <5> QED BY <5>1, <5>2, <3>4 DEF Saves, TypeOK, CreditInv, Orphans
        <4> QED BY <4>3, <4>4
      <3> QED BY <2>k, <3>1, <3>2, <3>3, <3>4
           DEF FindsCredit, WritesCredit, TurnsCredits, GoesOn
    <2> QED BY <2>1, <2>2, <2>3, <2>4, <2>5 DEF CreditInv, SavedIsCounted
  <1> QED BY <1>u, <1>n

\* The credit rows and the saved votes agree in every state.
THEOREM Credits == Spec => []CreditInv
  BY InitCredits, CreditStep, Rows, PTL DEF Spec

\* Whoever has a credit row for a chart is on a row that counts some vote: the
\* counters are written before the credit row (tablestocharts.go:113, 134), and
\* no stale Save brings them back to zero.
THEOREM CreditRowsAreCounted == Spec => []CreditsAreCounted
  <1>1. TypeInv /\ RowInv /\ CreditInv => CreditsAreCounted
    BY DEF TypeInv, TypeOK, RowInv, NewRows, Copies, CreditInv, CreditRows, SavedIsCounted,
       CreditsAreCounted
  <1> QED BY <1>1, Rows, Credits, PTL

\* The row that a vote on an undiscovered chart inserts keeps its one vote, no
\* discoverer, and at most the credit row of the request that inserted it.
THEOREM OrphansKeepTheirVote == Spec => []OrphansHaveOneVote
  <1>1. TypeInv /\ RowInv /\ CreditInv => OrphansHaveOneVote
    <2> SUFFICES ASSUME TypeInv, RowInv, CreditInv,
                        NEW d \in DiscoveredIds, table[d] # NoRow, table[d].chart = NoChart
                 PROVE  /\ table[d].credited + table[d].discredited = 1
                        /\ table[d].uid = Nobody
                        /\ \A q \in Requests : credits[q] # NoRow /\ credits[q].did = d => q = d
      BY DEF OrphansHaveOneVote
    <2>1. ASSUME NEW q \in Requests, credits[q] # NoRow, credits[q].did = d
          PROVE  q = d
      <3>1. q \in saved /\ did[q] = d
        BY <2>1 DEF CreditInv, CreditRows
      <3>2. did[q] # Zero
        BY <3>1 DEF RowInv, NewRows
      <3>3. copy[q].chart = NoChart
        BY <3>1, <3>2 DEF RowInv, Copies
      <3> QED BY <3>1, <3>2, <3>3 DEF CreditInv, Orphans
    <2> QED BY <2>1 DEF CreditInv, Orphans
  <1> QED BY <1>1, Rows, Credits, PTL

-----------------------------------------------------------------------------
(***************************************************************************)
(* Who turns a credit row, and what an answer says of the voters.          *)
(***************************************************************************)

\* A credit row that changes is turned by an update, by its own user's vote on its
\* own row unless a statement of that vote has failed.
Turned ==
    \A q \in Requests : credits[q] # NoRow /\ credits'[q] # credits[q] =>
      \E r \in Requests :
         /\ pc[r] = "update" /\ pc'[r] = "done"
         /\ \/ r \in Faulty
            \/ call[r].uid = credits[q].uid /\ did[r] = credits[q].did

\* No credit row is inserted twice: a request that is to insert one has none.
NotYet == \A r \in Requests : pc[r] \in Before \cup {"find", "insert"} => credits[r] = NoRow

\* A credit row is written at the last step of its request.
LEMMA NotYetStep == TypeInv /\ NotYet /\ [Next]_vars => NotYet'
  <1> SUFFICES ASSUME TypeInv, NotYet, [Next]_vars PROVE NotYet' OBVIOUS
  <1>u. CASE UNCHANGED vars
    BY <1>u DEF vars, database, locals, NotYet
  <1>n. CASE Next
    <2> USE DEF TypeInv
    <2>1. PICK r \in Requests :
            /\ \A q \in Requests \ {r} : pc'[q] = pc[q]
            /\ \/ \E d \in DiscoveredIds : Reads(r, d) \/ Saves(r, d)
               \/ Inserts(r) \/ FindsCredit(r) \/ WritesCredit(r)
               \/ TurnsCredits(r) \/ GoesOn(r)
      BY <1>n, StepKinds
    <2>2. \A q \in Requests : pc'[q] \in Before \cup {"find", "insert"} =>
            pc[q] \in Before \cup {"find", "insert"}
      BY <2>1 DEF Reads, Saves, Inserts, FindsCredit, WritesCredit, TurnsCredits, GoesOn,
         Before, After
    <2>3. ASSUME NEW q \in Requests, pc'[q] \in Before \cup {"find", "insert"}
          PROVE  credits'[q] = NoRow
      <3>1. credits[q] = NoRow
        BY <2>2, <2>3 DEF NotYet
      <3>2. CASE credits' = credits
        BY <3>1, <3>2
      <3>3. CASE WritesCredit(r)
        BY <2>3, <3>1, <3>3 DEF WritesCredit, TypeOK, Before
      <3>4. CASE TurnsCredits(r)
        BY <3>1, <3>4 DEF TurnsCredits, Updated, TypeOK, Stages
      <3> QED BY <2>1, <3>2, <3>3, <3>4 DEF Reads, Saves, Inserts, FindsCredit, GoesOn
    <2> QED BY <2>3 DEF NotYet
  <1> QED BY <1>u, <1>n

\* Only an update turns credit rows, and one that has not failed only its own.
LEMMA TurnedStep == TypeInv /\ NotYet /\ CreditInv /\ Next => Turned
  <1> SUFFICES ASSUME TypeInv, NotYet, CreditInv, Next,
                      NEW q \in Requests, credits[q] # NoRow, credits'[q] # credits[q]
               PROVE  \E r \in Requests :
                         /\ pc[r] = "update" /\ pc'[r] = "done"
                         /\ \/ r \in Faulty
                            \/ call[r].uid = credits[q].uid /\ did[r] = credits[q].did
    BY DEF Turned
  <1> USE DEF TypeInv
  <1>1. PICK r \in Requests :
               \/ \E d \in DiscoveredIds : Reads(r, d) \/ Saves(r, d)
               \/ Inserts(r) \/ FindsCredit(r) \/ WritesCredit(r)
               \/ TurnsCredits(r) \/ GoesOn(r)
    BY StepKinds
  <1>2. ~WritesCredit(r)
    BY DEF WritesCredit, NotYet, TypeOK
  <1>3. TurnsCredits(r)
    BY <1>1, <1>2 DEF Reads, Saves, Inserts, FindsCredit, GoesOn
  <1>4. CASE mine[r] = NoRow
    BY <1>3, <1>4 DEF TurnsCredits, CreditInv, FoundRows
  <1>5. CASE mine[r] # NoRow
    <2>1. q = mine[r]
      BY <1>3, <1>5 DEF TurnsCredits, Updated
    <2> QED BY <1>3, <1>5, <2>1 DEF TurnsCredits, CreditInv, FoundRows
  <1> QED BY <1>4, <1>5

\* The direction of a credit row changes only when its own user votes on the same
\* chart, but for votes whose look-up failed (tablestocharts.go:117-139).
THEOREM OwnVotesTurn == Spec => OnlyOwnVoteTurns
  <1>1. Init => NotYet
    BY DEF Init, NotYet
  <1>2. Spec => []NotYet
    BY <1>1, NotYetStep, Types, PTL DEF Spec
  <1>3. TypeInv /\ NotYet /\ CreditInv /\ [Next]_vars => [Turned]_vars
    BY TurnedStep
  <1>4. Spec => [][Turned]_vars
    BY <1>2, <1>3, Types, Credits, PTL DEF Spec
  <1> QED BY <1>4 DEF OnlyOwnVoteTurns, Turned

\* Every credit row stands for a vote that was cast on its row.
RowsAreEarned ==
    \A q \in Requests : credits[q] # NoRow =>
        HasVoted(<<credits[q].uid, credits[q].up>>, credits[q].did)

\* What the answer of view r says is true.
Earned(r) ==
    LET a == answer[r] IN
    /\ a.did # Zero /\ table[a.did] # NoRow
    /\ table[a.did].chart = call[r].chart /\ table[a.did].uid = a.discoverer
    /\ \A c \in a.creditors : HasVoted(c, a.did)

\* A view of a table's chart goes on with a row of its chart, and answers from it.
ViewsAreEarned ==
    \A r \in Requests \ Faulty : Op(r) = "view" /\ InTable(r) =>
        /\ pc[r] # "again"
        /\ pc[r] = "creditors" => did[r] # Zero /\ copy[r].chart = call[r].chart
        /\ pc[r] \in {"own", "done"} => Earned(r)

\* A vote that was cast stays cast.
LEMMA VotesAreForGood ==
    ASSUME TypeInv, RowInv, Next
    PROVE  \A c, d : HasVoted(c, d) => HasVoted(c, d)'
  <1> SUFFICES ASSUME NEW c, NEW d, HasVoted(c, d) PROVE HasVoted(c, d)'
    OBVIOUS
  <1>q. PICK q \in saved : \E f \in Faulty \cup {q} :
               /\ did[q] = d /\ call[q].uid = c[1]
               /\ Op(f) = "credit" /\ call[f].up = c[2]
    BY DEF HasVoted
  <1>1. PICK f \in Faulty \cup {q} :
               /\ did[q] = d /\ call[q].uid = c[1]
               /\ Op(f) = "credit" /\ call[f].up = c[2]
    BY <1>q
  <1>2. q \in saved' /\ did'[q] = did[q]
    BY SavedStays
  <1>3. call' = call /\ Op(f)' = Op(f)
    BY StepKinds DEF Op
  <1> QED BY <1>1, <1>2, <1>3 DEF HasVoted

\* An update turns a credit row to the direction of a vote by its own user, or
\* of one that went wrong.
LEMMA RowsEarnedStep ==
    ASSUME TypeInv, RowInv, CreditInv, RowsAreEarned, Next
    PROVE  RowsAreEarned'
  <1> SUFFICES ASSUME NEW q \in Requests, credits'[q] # NoRow
               PROVE  HasVoted(<<credits[q].uid, credits[q].up>>, credits[q].did)'
    BY DEF RowsAreEarned
  <1> USE DEF TypeInv
  <1>1. PICK r \in Requests :
               \/ \E d \in DiscoveredIds : Reads(r, d) \/ Saves(r, d)
               \/ Inserts(r) \/ FindsCredit(r) \/ WritesCredit(r)
               \/ TurnsCredits(r) \/ GoesOn(r)
    BY StepKinds
  <1>v. \A c, d : HasVoted(c, d) => HasVoted(c, d)'
    BY VotesAreForGood
  <1>2. CASE credits'[q] = credits[q]
    BY <1>2, <1>v DEF RowsAreEarned
  <1>3. CASE credits'[q] # credits[q] /\ WritesCredit(r)
    <2>1. credits'[q] = [did |-> did[q], uid |-> call[q].uid, up |-> call[q].up] /\ q = r
      BY <1>3 DEF WritesCredit, TypeOK
    <2>2. q \in saved /\ Op(q) = "credit"
      BY <1>3, <2>1 DEF WritesCredit, CreditInv, SavedIsCounted, After, RowInv, NewRows
    <2>3. HasVoted(<<call[q].uid, call[q].up>>, did[q])
      BY <2>2 DEF HasVoted
    <2> QED BY <2>1, <2>3, <1>v
  <1>4. CASE credits'[q] # credits[q] /\ TurnsCredits(r)
    <2>1. /\ q \in Updated(mine[r]) /\ credits[q] \in Credit
          /\ credits'[q] = [credits[q] EXCEPT !.up = call[r].up]
          /\ Op(r) = "credit" /\ call[r].up \in BOOLEAN /\ r \in saved
      BY <1>4, CallShape DEF TurnsCredits, Updated, TypeOK, Stages, CreditSteps, CreditInv,
         SavedIsCounted, After
    <2>2. /\ credits'[q].did = credits[q].did /\ credits'[q].uid = credits[q].uid
          /\ credits'[q].up = call[r].up
      BY <2>1 DEF Credit
    <2>3. CASE mine[r] # NoRow
      <3>1. credits[q].did = did[r] /\ credits[q].uid = call[r].uid
        BY <2>1, <2>3 DEF Updated, CreditInv, FoundRows
      <3>2. HasVoted(<<credits[q].uid, call[r].up>>, credits[q].did)
        BY <2>1, <3>1 DEF HasVoted
      <3> QED BY <2>2, <3>2, <1>v
    <2>4. CASE mine[r] = NoRow
      <3>1. r \in Faulty
        BY <1>4, <2>4 DEF TurnsCredits, CreditInv, FoundRows
      <3>2. q \in saved /\ credits[q].did = did[q] /\ credits[q].uid = call[q].uid
        BY <2>1, <2>4, NoRowIsNoRow DEF Credit, Updated, CreditInv, CreditRows
      <3>3. HasVoted(<<credits[q].uid, call[r].up>>, credits[q].did)
        BY <2>1, <3>1, <3>2 DEF HasVoted
      <3> QED BY <2>2, <3>3, <1>v
    <2> QED BY <2>3, <2>4
  <1> QED BY <1>1, <1>2, <1>3, <1>4 DEF Reads, Saves, Inserts, FindsCredit, GoesOn

\* Answers that are true stay true, and a view answers from the row it has read.
LEMMA ViewsEarnedStep ==
    ASSUME TypeInv, TypeInv', RowInv, CreditInv, RowsAreEarned, ViewsAreEarned, Next
    PROVE  ViewsAreEarned'
  <1> USE DEF TypeInv
  <1>v. \A c, d : HasVoted(c, d) => HasVoted(c, d)'
    BY VotesAreForGood
  <1>c. call' = call
    BY StepKinds
  <1>d. \A d \in DiscoveredIds : table[d] # NoRow =>
          /\ table'[d] # NoRow
          /\ table'[d].chart = table[d].chart /\ table'[d].uid = table[d].uid
    BY RowSteps
  <1>e. ASSUME NEW q \in Requests, Earned(q), answer'[q] = answer[q] PROVE Earned(q)'
    <2>1. answer[q].did \in DiscoveredIds
      BY <1>e DEF Earned, TypeOK
    <2> QED BY <2>1, <1>c, <1>d, <1>e, <1>v DEF Earned
  <1>1. PICK r \in Requests :
               \/ BeginView(r) \/ Discover(r) \/ ReadCreditors(r) \/ FindAgain(r)
               \/ ReadOwnVote(r)
               \/ BeginCredit(r) \/ ReputationRead(r) \/ ReputationWrite(r)
               \/ AddActivity(r) \/ SaveDiscovered(r) \/ FindCredit(r)
               \/ InsertCredit(r) \/ UpdateCredit(r)
    BY DEF Next
  <1> SUFFICES ASSUME NEW q \in Requests \ Faulty, Op(q)' = "view", InTable(q)'
               PROVE  /\ pc'[q] # "again"
                      /\ pc'[q] = "creditors" =>
                            did'[q] # Zero /\ copy'[q].chart = call'[q].chart
                      /\ pc'[q] \in {"own", "done"} => Earned(q)'
    BY DEF ViewsAreEarned
  <1>o. Op(q) = "view" /\ InTable(q)
    BY <1>c DEF Op, InTable
  <1>h. /\ pc[q] # "again"
        /\ pc[q] = "creditors" => did[q] # Zero /\ copy[q].chart = call[q].chart
        /\ pc[q] \in {"own", "done"} => Earned(q)
    BY <1>o DEF ViewsAreEarned
  <1> USE DEF Goto, Load, Skip
  <1>2. CASE q # r
    <2>1. /\ pc'[q] = pc[q] /\ answer'[q] = answer[q]
          /\ did'[q] = did[q] /\ copy'[q] = copy[q]
      BY <1>1, <1>2 DEF BeginView, Discover, ReadCreditors, FindAgain, ReadOwnVote,
         BeginCredit, ReputationRead, ReputationWrite, AddActivity, SaveDiscovered,
         FindCredit, InsertCredit, UpdateCredit, TypeOK, database, locals
    <2> QED BY <2>1, <1>c, <1>e, <1>h
  <1>3. CASE q = r
    <2>1. \/ BeginView(r) \/ Discover(r) \/ ReadCreditors(r) \/ ReadOwnVote(r)
      BY <1>1, <1>3, <1>o, <1>h DEF BeginCredit, ReputationRead, ReputationWrite, AddActivity,
         SaveDiscovered, FindCredit, InsertCredit, UpdateCredit, FindAgain, Stages, CreditSteps
    <2>2. CASE BeginView(r)
      <3>1. CASE \E step \in {"refused", "discover"} : pc' = [pc EXCEPT ![r] = step]
        BY <3>1, <1>3 DEF TypeOK
      <3>2. CASE ~\E step \in {"refused", "discover"} : pc' = [pc EXCEPT ![r] = step]
        <4>1. PICK d \in Matching(call[r].chart) :
                 /\ did' = [did EXCEPT ![r] = d] /\ copy' = [copy EXCEPT ![r] = table[d]]
                 /\ pc' = [pc EXCEPT ![r] = "creditors"]
          BY <3>2, <2>2, <1>3 DEF BeginView
        <4>2. d # Zero /\ table[d].chart = call[r].chart
          BY IdsAreDistinct DEF Matching
        <4> QED BY <4>1, <4>2, <1>3, <1>c DEF TypeOK
      <3> QED BY <3>1, <3>2
    <2>3. CASE Discover(r)
      <3>1. CASE pc' = [pc EXCEPT ![r] = "failed"]
        BY <3>1, <1>3 DEF TypeOK
      <3>2. CASE pc' # [pc EXCEPT ![r] = "failed"]
        <4> DEFINE row == NewDiscovery(call[r].chart, call[r].uid)
        <4>1. row.chart = call[r].chart
          BY CallShape, RowsAreRows
        <4>2. /\ did' = [did EXCEPT ![r] = r] /\ copy' = [copy EXCEPT ![r] = row]
              /\ pc' = [pc EXCEPT ![r] = "creditors"]
          BY <3>2, <2>3, <1>3, <1>o DEF Discover, Taken
        <4>3. r # Zero
          BY IdsAreDistinct DEF DiscoveredIds
        <4> HIDE DEF row
        <4> QED BY <4>1, <4>2, <4>3, <1>3, <1>c DEF TypeOK
      <3> QED BY <3>1, <3>2
    <2>4. CASE ReadCreditors(r)
      <3> DEFINE a == [did |-> did[r], discoverer |-> copy[r].uid,
                       creditors |-> Creditors(did[r])]
      <3>1. /\ pc' = [pc EXCEPT ![r] = "own"] /\ answer' = [answer EXCEPT ![r] = a]
            /\ table' = table /\ did[r] # Zero /\ copy[r].chart = call[r].chart
        BY <2>4, <1>3, <1>o, <1>h DEF ReadCreditors, database
      <3>2. /\ answer'[r] = a /\ a.did = did[r] /\ a.discoverer = copy[r].uid
            /\ a.creditors = Creditors(did[r])
        BY <3>1 DEF TypeOK
      <3> HIDE DEF a
      <3>3. /\ table[did[r]] # NoRow /\ table[did[r]].chart = call[r].chart
            /\ table[did[r]].uid = copy[r].uid
        BY <3>1 DEF RowInv, Copies
      <3>4. ASSUME NEW d, d = did[r], NEW c \in Creditors(d) PROVE HasVoted(c, d)'
        <4>1. PICK p \in Requests :
                 /\ credits[p] # NoRow /\ credits[p].did = d
                 /\ c = <<credits[p].uid, credits[p].up>>
          BY <3>1, <3>4 DEF Creditors
        <4>2. HasVoted(c, d)
          BY <4>1 DEF RowsAreEarned
        <4> QED BY <4>2, <1>v
      <3>5. Earned(r)'
        BY <3>1, <3>2, <3>3, <3>4, <1>c DEF Earned
      <3> QED BY <3>1, <3>5, <1>3 DEF TypeOK
    <2>5. CASE ReadOwnVote(r)
      <3>1. answer' = answer /\ pc[r] = "own" /\ pc'[r] \in {"failed", "done"}
        BY <2>5 DEF ReadOwnVote, locals, TypeOK
      <3> QED BY <3>1, <1>3, <1>e, <1>h
    <2> QED BY <2>1, <2>2, <2>3, <2>4, <2>5
  <1> QED BY <1>2, <1>3

\* The answer to a view of a table's chart is about one row of that chart, names
\* its discoverer, and lists only users who voted on it.
THEOREM ViewsAnswerTruly == Spec => []AnswersAreEarned
  <1> DEFINE EarnedInv == RowsAreEarned /\ ViewsAreEarned
  <1>1. Init => EarnedInv
    BY DEF Init, RowsAreEarned, ViewsAreEarned
  <1>2. TypeInv /\ TypeInv' /\ RowInv /\ CreditInv /\ EarnedInv /\ [Next]_vars => EarnedInv'
    <2> SUFFICES ASSUME TypeInv, TypeInv', RowInv, CreditInv, EarnedInv, [Next]_vars
                 PROVE  EarnedInv'
      OBVIOUS
    <2>1. CASE Next
      BY <2>1, RowsEarnedStep, ViewsEarnedStep
    <2>2. CASE UNCHANGED vars
      BY <2>2 DEF vars, database, locals, RowsAreEarned, ViewsAreEarned, Earned, HasVoted,
         Op, InTable
    <2> QED BY <2>1, <2>2
  <1>3. EarnedInv => AnswersAreEarned
    BY DEF ViewsAreEarned, Earned, AnswersAreEarned
  <1> HIDE DEF EarnedInv
  <1> QED BY <1>1, <1>2, <1>3, Rows, Credits, PTL DEF Spec
-----------------------------------------------------------------------------
(***************************************************************************)
(* One request at a time and without faults the handlers of charts         *)
(* implement DiscoveryRegister: the initial states are initial states of   *)
(* the register, and every statement is a step of it or leaves it alone.   *)
(***************************************************************************)

-----------------------------------------------------------------------------
(***************************************************************************)
(* What a request finds when it runs alone.                                *)
(***************************************************************************)

\* One request at a time, and no statement fails.
Serially == Workers = 1 /\ Faulty = {} /\ NoRowIsNoEntry

\* At most one request is in progress.
Alone == \A q, r \in Requests : pc[q] \in Steps /\ pc[r] \in Steps => q = r

\* A chart has one row at most, and a discoverer when it has one.
OneRow ==
    \A d, e \in DiscoveredIds :
        table[d] # NoRow /\ table[d].chart \in Charts =>
            /\ table[d].uid \in Users
            /\ table[e] # NoRow /\ table[e].chart = table[d].chart => d = e

\* A view that is about to insert a row found none, and a vote has in its struct
\* the row that is stored, or nothing when there is none.
StructsAreFresh ==
    \A r \in Requests :
        /\ pc[r] = "discover" => Matching(call[r].chart) = {}
        /\ pc[r] \in {"repRead", "repWrite", "activity", "save"} =>
             \/ did[r] = Zero /\ Matching(call[r].chart) = {}
             \/ /\ did[r] # Zero /\ did[r] \in Matching(call[r].chart)
                /\ table[did[r]] = copy[r]
        /\ pc[r] \in After => copy[r].chart \in {call[r].chart, NoChart}

\* The reputation is written from the value that is stored.
PaymentsAreFresh ==
    \A r \in Requests : pc[r] = "repWrite" => seen[r] = reputation[copy[r].uid]

\* A user has one credit row at most for a row, and none when about to get one.
OneCredit ==
    /\ \A p, q \in Requests :
         credits[p] # NoRow /\ credits[q] # NoRow
           /\ credits[p].did = credits[q].did /\ credits[p].uid = credits[q].uid => p = q
    /\ \A r \in Requests : pc[r] = "insert" => CreditsOf(did[r], call[r].uid) = {}

\* A request that has not begun has read nothing.
Untouched == \A r \in Requests : pc[r] = "arrive" => did[r] = Zero

SerialInv == Untouched /\ Alone /\ OneRow /\ StructsAreFresh /\ PaymentsAreFresh /\ OneCredit

\* All that is known of a state that serial requests reach.
Known == TypeInv /\ RowInv /\ CountersInv /\ CreditInv /\ SerialInv

\* Nothing has begun, and the first rows are each of the chart they are named after.
LEMMA SerialInit == Init => SerialInv
  <1> SUFFICES ASSUME Init PROVE SerialInv
    OBVIOUS
  <1>1. PICK author \in [Charts -> Users \cup {Nobody}] :
           table = [d \in DiscoveredIds |->
                      IF d \in Charts /\ author[d] # Nobody
                      THEN NewDiscovery(d, author[d]) ELSE NoRow]
    BY DEF Init
  <1>2. \A d \in DiscoveredIds : table[d] # NoRow =>
           d \in Charts /\ table[d].chart = d /\ table[d].uid \in Users
    BY <1>1, RowsAreRows
  <1>3. OneRow
    BY <1>2 DEF OneRow
  <1>4. Untouched /\ StructsAreFresh /\ Alone /\ PaymentsAreFresh /\ OneCredit
    BY DEF Init, Untouched, StructsAreFresh, Alone, PaymentsAreFresh, OneCredit, Steps, ViewSteps,
       CreditSteps, After
  <1> QED BY <1>3, <1>4 DEF SerialInv

\* A request arrives when no other is in progress.
LEMMA ArrivesAlone ==
    ASSUME Serially, NEW r \in Requests, Arrives(r)
    PROVE  \A q \in Requests : pc[q] \notin Steps
  <1>1. InFlight \subseteq Requests /\ IsFiniteSet(InFlight)
    BY RequestsAreFinite, FS_Subset DEF InFlight
  <1>2. Cardinality(InFlight) \in Nat /\ Cardinality(InFlight) < 1
    BY <1>1, FS_CardinalityType DEF Arrives, Serially
  <1>3. InFlight = {}
    BY <1>1, <1>2, FS_EmptySet
  <1> QED BY <1>3 DEF InFlight

\* r takes a step.
Acts(r) ==
    \/ BeginView(r) \/ Discover(r) \/ ReadCreditors(r) \/ FindAgain(r)
    \/ ReadOwnVote(r)
    \/ BeginCredit(r) \/ ReputationRead(r) \/ ReputationWrite(r)
    \/ AddActivity(r) \/ SaveDiscovered(r) \/ FindCredit(r)
    \/ InsertCredit(r) \/ UpdateCredit(r)

\* r takes a step, and is alone before and after it.
OneStep(r) ==
    /\ Acts(r) /\ call' = call
    /\ \A q \in Requests \ {r} :
         /\ pc[q] \notin Steps /\ pc'[q] = pc[q]
         /\ UNCHANGED <<did[q], copy[q], seen[q], mine[q]>>

\* The request that takes a step is the only one there is, before and after it.
LEMMA OneActs ==
    ASSUME Serially, TypeInv, Alone, Next
    PROVE  \E r \in Requests : OneStep(r)
  <1> USE DEF TypeInv, Serially
  <1>1. PICK r \in Requests : Acts(r)
    BY DEF Next, Acts
  <1>2. pc[r] \in Steps \/ Arrives(r)
    BY <1>1 DEF Acts, BeginView, Discover, ReadCreditors, FindAgain, ReadOwnVote, BeginCredit,
       ReputationRead, ReputationWrite, AddActivity, SaveDiscovered, FindCredit,
       InsertCredit, UpdateCredit, Steps, ViewSteps, CreditSteps
  <1>3. \A q \in Requests \ {r} : pc[q] \notin Steps
    BY <1>2, ArrivesAlone DEF Alone
  <1>4. /\ call' = call
        /\ \A q \in Requests \ {r} :
             /\ pc'[q] = pc[q] /\ did'[q] = did[q] /\ copy'[q] = copy[q]
             /\ seen'[q] = seen[q] /\ mine'[q] = mine[q]
    BY <1>1 DEF Acts, BeginView, Discover, ReadCreditors, FindAgain, ReadOwnVote, BeginCredit,
       ReputationRead, ReputationWrite, AddActivity, SaveDiscovered, FindCredit,
       InsertCredit, UpdateCredit, Skip, Goto, Load, TypeOK, locals
  <1> QED BY <1>1, <1>3, <1>4 DEF OneStep

-----------------------------------------------------------------------------
(***************************************************************************)
(* What a lone request writes, and that it keeps what it relies on.        *)
(***************************************************************************)

\* What the struct of a vote becomes: its row with the vote, by the same
\* discoverer and of the same chart.
LEMMA VotedRow ==
    ASSUME TypeInv, NEW r \in Requests, Op(r) = "credit"
    PROVE  /\ Voted(r) \in Discovered /\ Voted(r) # NoRow
           /\ Voted(r).chart = copy[r].chart /\ Voted(r).uid = copy[r].uid
           /\ Voted(r).credited = copy[r].credited + (IF call[r].up THEN 1 ELSE 0)
           /\ Voted(r).discredited = copy[r].discredited + (IF call[r].up THEN 0 ELSE 1)
  <1>1. copy[r] \in Discovered /\ call[r].up \in BOOLEAN
    BY CallShape DEF TypeInv, TypeOK
  <1>2. Voted(r) \in Discovered
    BY <1>1, RowsAreRows DEF Voted
  <1> QED BY <1>1, <1>2, RowsAreRows, NoRowIsNoRow DEF Voted

\* Only two statements write the table: the insertion of a first view, and the
\* Save of a vote, of the row it has read or of a new one.
Discovers(r) ==
    /\ Discover(r) /\ pc[r] = "discover" /\ pc'[r] = "creditors" /\ Op(r) = "view"
    /\ table[r] = NoRow /\ Matching(call[r].chart) = {}
    /\ table' = [table EXCEPT ![r] = NewDiscovery(call[r].chart, call[r].uid)]
    /\ reputation' = reputation /\ credits' = credits

SavesVote(r) ==
    /\ SaveDiscovered(r) /\ pc[r] = "save" /\ pc'[r] = "find" /\ Op(r) = "credit"
    /\ \/ /\ did[r] # Zero /\ did[r] \in Matching(call[r].chart) /\ did'[r] = did[r]
          /\ table[did[r]] = copy[r] /\ copy[r].chart = call[r].chart
          /\ table' = [table EXCEPT ![did[r]] = Voted(r)]
       \/ /\ did[r] = Zero /\ Matching(call[r].chart) = {} /\ did'[r] = r
          /\ table[r] = NoRow /\ copy[r] = Empty
          /\ table' = [table EXCEPT ![r] = Voted(r)]
    /\ copy'[r] = Voted(r)
    /\ reputation' = reputation /\ credits' = credits

\* They are the whole of the two statements when a request runs alone.
LEMMA TableSteps ==
    ASSUME Serially, Known, NEW r \in Requests, OneStep(r)
    PROVE  /\ Discover(r) => Discovers(r)
           /\ SaveDiscovered(r) => SavesVote(r)
           /\ table' = table \/ Discovers(r) \/ SavesVote(r)
  <1> USE DEF Known, TypeInv, Serially, Goto, SerialInv
  <1>1. ASSUME Discover(r) PROVE Discovers(r)
    <2>1. pc[r] = "discover" /\ Op(r) = "view"
      BY <1>1 DEF Discover, Stages, ViewSteps
    <2> QED BY <1>1, <2>1 DEF Discover, Discovers, RowInv, NewRows, Before, StructsAreFresh,
               TypeOK
  <1>2. ASSUME SaveDiscovered(r) PROVE SavesVote(r)
    <2>1. pc[r] = "save" /\ Op(r) = "credit"
      BY <1>2 DEF SaveDiscovered, Stages, CreditSteps
    <2>2. table[r] = NoRow /\ (did[r] = Zero => copy[r] = Empty)
      BY <2>1 DEF RowInv, NewRows, Copies, Before
    <2>3. \/ did[r] = Zero /\ Matching(call[r].chart) = {}
          \/ /\ did[r] # Zero /\ did[r] \in Matching(call[r].chart)
             /\ table[did[r]] = copy[r] /\ copy[r].chart = call[r].chart
      BY <2>1 DEF StructsAreFresh, Matching
    <2>4. /\ table' = [table EXCEPT ![IF did[r] = Zero THEN r ELSE did[r]] = Voted(r)]
          /\ did'[r] = (IF did[r] = Zero THEN r ELSE did[r]) /\ copy'[r] = Voted(r)
          /\ pc'[r] = "find" /\ reputation' = reputation /\ credits' = credits
      BY <1>2 DEF SaveDiscovered, Load, TypeOK
    <2> QED BY <1>2, <2>1, <2>2, <2>3, <2>4 DEF SavesVote
  <1>3. ASSUME ~Discover(r), ~SaveDiscovered(r) PROVE table' = table
    BY <1>3 DEF OneStep, Acts, BeginView, ReadCreditors, FindAgain, ReadOwnVote, BeginCredit,
       ReputationRead, ReputationWrite, AddActivity, FindCredit, InsertCredit, UpdateCredit,
       Skip, database
  <1> QED BY <1>1, <1>2, <1>3

\* A view adds the first row of its chart, a vote keeps the chart of its row, and
\* a vote on no row adds one that is of no chart.
LEMMA OneRowStep ==
    ASSUME Serially, Known, NEW r \in Requests, OneStep(r)
    PROVE  OneRow'
  <1> USE DEF Known, TypeInv, SerialInv
  <1> DEFINE u == call[r].uid
             c == call[r].chart
  <1>1. u \in Users /\ c \in Charts /\ r \in DiscoveredIds
    BY CallShape DEF DiscoveredIds
  <1>2. CASE table' = table
    BY <1>2 DEF OneRow
  <1>3. CASE Discovers(r)
    <2>1. /\ NewDiscovery(c, u) # NoRow /\ NewDiscovery(c, u).chart = c
          /\ NewDiscovery(c, u).uid = u
      BY <1>1, RowsAreRows, NoRowIsNoRow
    <2>2. /\ table'[r] = NewDiscovery(c, u)
          /\ \A d \in DiscoveredIds \ {r} : table'[d] = table[d]
      BY <1>1, <1>3 DEF Discovers, TypeOK
    <2>3. \A d \in DiscoveredIds : table[d] # NoRow => table[d].chart # c
      BY <1>3 DEF Discovers, Matching
    <2> HIDE DEF u, c
    <2> QED BY <1>1, <2>1, <2>2, <2>3 DEF OneRow
  <1>4. CASE SavesVote(r)
    <2>1. /\ Voted(r) # NoRow /\ Voted(r).chart = copy[r].chart
          /\ Voted(r).uid = copy[r].uid
      BY <1>4, VotedRow DEF SavesVote
    <2>2. CASE did[r] # Zero
      <3>1. /\ did[r] \in DiscoveredIds /\ table[did[r]] = copy[r] /\ table[did[r]] # NoRow
            /\ table'[did[r]] = Voted(r)
            /\ \A d \in DiscoveredIds \ {did[r]} : table'[d] = table[d]
        BY <1>4, <2>2 DEF SavesVote, Matching, TypeOK
      <3> QED BY <2>1, <3>1 DEF OneRow
    <2>3. CASE did[r] = Zero
      <3>1. /\ table'[r] = Voted(r) /\ Voted(r).chart = NoChart
            /\ \A d \in DiscoveredIds \ {r} : table'[d] = table[d]
        BY <1>1, <1>4, <2>1, <2>3 DEF SavesVote, Empty, TypeOK
      <3> QED BY <3>1, IdsAreDistinct DEF OneRow
    <2> QED BY <2>2, <2>3
  <1> QED BY <1>2, <1>3, <1>4, TableSteps

\* A lone request finds what it has read as it was.
LEMMA StructsStep ==
    ASSUME Serially, Known, NEW r \in Requests, OneStep(r)
    PROVE  StructsAreFresh'
  <1> USE DEF Known, TypeInv, SerialInv, Goto, Serially
  <1>1. call' = call /\ \A q \in Requests \ {r} : pc'[q] = pc[q] /\ pc[q] \notin Steps
    BY DEF OneStep
  <1> DEFINE Fresh(q) ==
        /\ pc[q] = "discover" => Matching(call[q].chart) = {}
        /\ pc[q] \in {"repRead", "repWrite", "activity", "save"} =>
             \/ did[q] = Zero /\ Matching(call[q].chart) = {}
             \/ /\ did[q] # Zero /\ did[q] \in Matching(call[q].chart)
                /\ table[did[q]] = copy[q]
        /\ pc[q] \in After => copy[q].chart \in {call[q].chart, NoChart}
  <1>2. SUFFICES Fresh(r)'
    BY <1>1 DEF StructsAreFresh, Steps, ViewSteps, CreditSteps, After
  <1>m. table' = table => Matching(call[r].chart)' = Matching(call[r].chart)
    BY <1>1 DEF Matching
  <1>3. CASE pc'[r] = "discover"
    BY <1>3, <1>m DEF OneStep, Acts, BeginView, Discover, ReadCreditors, FindAgain,
       ReadOwnVote, BeginCredit, ReputationRead, ReputationWrite, AddActivity,
       SaveDiscovered, FindCredit, InsertCredit, UpdateCredit, Skip, After, TypeOK, database
  <1>4. CASE pc'[r] \in {"repRead", "repWrite", "activity", "save"}
    <2>1. table' = table
      BY <1>4, TableSteps DEF Discovers, SavesVote
    <2>2. CASE BeginCredit(r)
      <3>1. CASE did' = did /\ copy' = copy /\ Matching(call[r].chart) = {}
        <4>1. did[r] = Zero
          BY <2>2 DEF BeginCredit, Arrives, Untouched
        <4> QED BY <1>1, <1>4, <1>m, <2>1, <3>1, <4>1 DEF After
      <3>2. CASE \E d \in Matching(call[r].chart) : Load(r, d, table[d])
        <4>1. PICK d \in Matching(call[r].chart) : Load(r, d, table[d])
          BY <3>2
        <4>2. d # Zero /\ d \in DiscoveredIds
          BY IdsAreDistinct DEF Matching
        <4>3. did'[r] = d /\ copy'[r] = table[d]
          BY <4>1 DEF Load, TypeOK
        <4> QED BY <1>1, <1>4, <1>m, <2>1, <4>1, <4>2, <4>3 DEF After
      <3> QED BY <2>2, <1>4, <3>1, <3>2 DEF BeginCredit, Skip, TypeOK, locals
    <2>3. CASE ReputationRead(r) \/ ReputationWrite(r) \/ AddActivity(r)
      <3>1. did' = did /\ copy' = copy /\ pc[r] \in {"repRead", "repWrite", "activity"}
        BY <2>3 DEF ReputationRead, ReputationWrite, AddActivity, Skip, locals
      <3> QED BY <1>1, <1>4, <1>m, <2>1, <3>1 DEF StructsAreFresh, After
    <2> QED BY <1>4, <2>2, <2>3 DEF OneStep, Acts, BeginView, Discover, ReadCreditors,
          FindAgain, ReadOwnVote, SaveDiscovered, FindCredit, InsertCredit, UpdateCredit,
          Skip, TypeOK
  <1>5. CASE pc'[r] \in After
    <2>1. CASE SaveDiscovered(r)
      <3>1. SavesVote(r)
        BY <2>1, TableSteps
      <3>2. copy'[r].chart \in {call[r].chart, NoChart}
        BY <3>1, VotedRow DEF SavesVote, Empty
      <3> QED BY <1>1, <1>5, <3>2 DEF After
    <2>2. CASE FindCredit(r)
      BY <1>1, <1>5, <2>2 DEF FindCredit, Skip, TypeOK, StructsAreFresh, After, locals
    <2> QED BY <1>5, <2>1, <2>2 DEF OneStep, Acts, BeginView, Discover, ReadCreditors,
          FindAgain, ReadOwnVote, BeginCredit, ReputationRead, ReputationWrite, AddActivity,
          InsertCredit, UpdateCredit, Skip, After, TypeOK
  <1>6. CASE pc'[r] \notin {"discover", "repRead", "repWrite", "activity", "save"} \cup After
    BY <1>6
  <1> QED BY <1>3, <1>4, <1>5, <1>6

\* Two statements write the credit rows: a vote inserts one when its user has none
\* for the row, and else turns the one it has found.
InsertsRow(r) ==
    /\ InsertCredit(r) /\ pc[r] = "insert" /\ pc'[r] = "done" /\ Op(r) = "credit"
    /\ credits[r] = NoRow /\ CreditsOf(did[r], call[r].uid) = {}
    /\ credits' = [credits EXCEPT ![r] =
                     [did |-> did[r], uid |-> call[r].uid, up |-> call[r].up]]
    /\ table' = table /\ reputation' = reputation

TurnsRow(r) ==
    /\ UpdateCredit(r) /\ pc[r] = "update" /\ pc'[r] = "done" /\ Op(r) = "credit"
    /\ mine[r] \in Requests /\ credits[mine[r]] \in Credit
    /\ credits[mine[r]].did = did[r] /\ credits[mine[r]].uid = call[r].uid
    /\ credits' = [credits EXCEPT ![mine[r]] =
                     [did |-> did[r], uid |-> call[r].uid, up |-> call[r].up]]
    /\ table' = table /\ reputation' = reputation

\* They are the whole of the two statements when a request runs alone.
LEMMA CreditWrites ==
    ASSUME Serially, Known, NEW r \in Requests, OneStep(r)
    PROVE  /\ InsertCredit(r) => InsertsRow(r)
           /\ UpdateCredit(r) => TurnsRow(r)
           /\ credits' = credits \/ InsertsRow(r) \/ TurnsRow(r)
  <1> USE DEF Known, TypeInv, Serially, Goto, SerialInv
  <1>1. ASSUME InsertCredit(r) PROVE InsertsRow(r)
    <2>1. pc[r] = "insert" /\ Op(r) = "credit" /\ CreditsOf(did[r], call[r].uid) = {}
      BY <1>1 DEF InsertCredit, Stages, CreditSteps, OneCredit
    <2>2. credits[r] = NoRow
      BY <2>1 DEF CreditInv, CreditRows, CreditsOf
    <2> QED BY <1>1, <2>1, <2>2 DEF InsertCredit, InsertsRow, TypeOK
  <1>2. ASSUME UpdateCredit(r) PROVE TurnsRow(r)
    <2> DEFINE q == mine[r]
               row == [did |-> did[r], uid |-> call[r].uid, up |-> call[r].up]
    <2>1. /\ pc[r] = "update" /\ Op(r) = "credit" /\ q # NoRow /\ q \in Requests
          /\ credits[q] # NoRow /\ credits[q] \in Credit
          /\ credits[q].did = did[r] /\ credits[q].uid = call[r].uid
      BY <1>2 DEF UpdateCredit, Stages, CreditSteps, CreditInv, FoundRows, TypeOK
    <2>2. [credits[q] EXCEPT !.up = call[r].up] = row
      BY <2>1 DEF Credit
    <2>3. credits' = [p \in Requests |-> IF p \in Updated(q)
                         THEN [credits[p] EXCEPT !.up = call[r].up] ELSE credits[p]]
      BY <1>2 DEF UpdateCredit
    <2>4. Updated(q) = {q}
      BY <2>1 DEF Updated
    <2>5. credits' = [credits EXCEPT ![q] = [credits[q] EXCEPT !.up = call[r].up]]
      BY <2>1, <2>3, <2>4 DEF TypeOK
    <2> HIDE DEF q, row
    <2>6. credits' = [credits EXCEPT ![q] = row]
      BY <2>2, <2>5
    <2> QED BY <1>2, <2>1, <2>6 DEF UpdateCredit, TurnsRow, q, row, TypeOK
  <1>3. ASSUME ~InsertCredit(r), ~UpdateCredit(r) PROVE credits' = credits
    BY <1>3 DEF OneStep, Acts, BeginView, Discover, ReadCreditors, FindAgain, ReadOwnVote,
       BeginCredit, ReputationRead, ReputationWrite, AddActivity, SaveDiscovered, FindCredit,
       Skip, database
  <1> QED BY <1>1, <1>2, <1>3

\* The look-up of the credit row and its insertion are not interrupted.
LEMMA OneCreditStep ==
    ASSUME Serially, Known, TypeInv', NEW r \in Requests, OneStep(r)
    PROVE  OneCredit'
  <1> USE DEF Known, TypeInv, SerialInv, Goto, Serially
  <1>1. call' = call /\ \A q \in Requests \ {r} : pc'[q] = pc[q] /\ pc[q] \notin Steps
    BY DEF OneStep
  <1>2. ASSUME pc'[r] = "insert"
        PROVE  CreditsOf(did[r], call[r].uid)' = {}
    <2>1. FindCredit(r) /\ Skip(r, "insert") /\ CreditsOf(did[r], call[r].uid) = {}
      BY <1>2 DEF OneStep, Acts, BeginView, Discover, ReadCreditors, FindAgain, ReadOwnVote,
         BeginCredit, ReputationRead, ReputationWrite, AddActivity, SaveDiscovered,
         FindCredit, InsertCredit, UpdateCredit, Skip, TypeOK
    <2>2. credits' = credits /\ did' = did /\ call' = call
      BY <2>1 DEF Skip, database, locals
    <2> QED BY <2>1, <2>2 DEF CreditsOf
  <1>3. \A q \in Requests : pc'[q] = "insert" => CreditsOf(did[q], call[q].uid)' = {}
    BY <1>1, <1>2 DEF Steps, CreditSteps
  <1>4. ASSUME NEW p \in Requests, NEW q \in Requests,
               credits'[p] # NoRow, credits'[q] # NoRow,
               credits'[p].did = credits'[q].did, credits'[p].uid = credits'[q].uid
        PROVE  p = q
    <2>1. CASE credits' = credits
      BY <1>4, <2>1 DEF OneCredit
    <2>2. CASE InsertsRow(r)
      <3>1. /\ credits'[r].did = did[r] /\ credits'[r].uid = call[r].uid
            /\ \A x \in Requests \ {r} : credits'[x] = credits[x]
        BY <2>2 DEF InsertsRow, TypeOK
      <3>2. \A x \in Requests : credits[x] # NoRow =>
               ~(credits[x].did = did[r] /\ credits[x].uid = call[r].uid)
        BY <2>2 DEF InsertsRow, CreditsOf
      <3> QED BY <1>4, <3>1, <3>2 DEF OneCredit
    <2>3. CASE TurnsRow(r)
      <3>1. /\ credits[mine[r]] # NoRow
            /\ \A x \in Requests : /\ credits'[x] # NoRow => credits[x] # NoRow
                                   /\ credits'[x].did = credits[x].did
                                   /\ credits'[x].uid = credits[x].uid
        BY <2>3, NoRowIsNoRow DEF TurnsRow, TypeOK
      <3> QED BY <1>4, <3>1 DEF OneCredit
    <2> QED BY <2>1, <2>2, <2>3, CreditWrites
  <1> QED BY <1>3, <1>4 DEF OneCredit

\* Every step keeps what a lone request relies on.
LEMMA SerialStep ==
    ASSUME Serially, Known, TypeInv', [Next]_vars
    PROVE  SerialInv'
  <1>u. CASE UNCHANGED vars
    BY <1>u DEF vars, database, locals, Known, SerialInv, Untouched, Alone, OneRow,
       StructsAreFresh, PaymentsAreFresh, OneCredit, CreditsOf, Matching, Op
  <1>n. CASE Next
    <2> USE DEF Known, TypeInv, SerialInv, Goto, Serially
    <2>1. PICK r \in Requests : OneStep(r)
      BY <1>n, OneActs
    <2>2. call' = call /\ \A q \in Requests \ {r} : pc'[q] = pc[q] /\ pc[q] \notin Steps
      BY <2>1 DEF OneStep
    <2>3. Alone'
      BY <2>2 DEF Alone
    <2>4. pc'[r] # "arrive"
      BY <2>1 DEF OneStep, Acts, BeginView, Discover, ReadCreditors, FindAgain, ReadOwnVote,
         BeginCredit, ReputationRead, ReputationWrite, AddActivity, SaveDiscovered,
         FindCredit, InsertCredit, UpdateCredit, Skip, TypeOK
    <2>5. Untouched'
      BY <2>1, <2>4 DEF Untouched, OneStep
    <2>6. PaymentsAreFresh'
      <3>1. pc'[r] = "repWrite" =>
              /\ ReputationRead(r) /\ copy' = copy /\ reputation' = reputation
              /\ seen' = [seen EXCEPT ![r] = reputation[copy[r].uid]]
        BY <2>1 DEF OneStep, Acts, BeginView, Discover, ReadCreditors, FindAgain, ReadOwnVote,
           BeginCredit, ReputationRead, ReputationWrite, AddActivity, SaveDiscovered,
           FindCredit, InsertCredit, UpdateCredit, Skip, TypeOK, database
      <3> QED BY <2>2, <3>1 DEF PaymentsAreFresh, TypeOK, Steps, CreditSteps
    <2> QED BY <2>1, <2>3, <2>5, <2>6, OneRowStep, StructsStep, OneCreditStep
  <1> QED BY <1>u, <1>n

\* All of it holds in every state of a serial behaviour.
LEMMA SerialStates ==
    ASSUME Serially
    PROVE  Spec => []Known
  <1>1. Known /\ TypeInv' /\ [Next]_vars => SerialInv'
    BY SerialStep
  <1>2. Known <=> TypeInv /\ RowInv /\ CountersInv /\ CreditInv /\ SerialInv
    BY DEF Known
  <1>3. Spec => []CountersInv
    BY InitCounters, CountersStep, Rows, Types, PTL DEF Spec
  <1> QED BY <1>1, <1>2, <1>3, SerialInit, Types, Rows, Credits, PTL DEF Spec

-----------------------------------------------------------------------------
(***************************************************************************)
(* The register of a state with one request in progress.                   *)
(***************************************************************************)

\* What the lone request r has paid u ahead of its vote.
Advance(r, u) ==
    IF pc[r] \in {"activity", "save"} /\ copy[r].uid = u THEN Points(r) ELSE 0

\* r is between its Save and its credit row, of a chart with a row.
Between(r) == pc[r] \in After /\ copy[r].chart # NoChart

\* With one request at most in progress, the requests that are ahead and behind
\* are that one or none.
LEMMA OneIsBetween ==
    TypeInv =>
        \A r \in Requests : (\A q \in Requests \ {r} : pc[q] \notin Steps) =>
            /\ Behind = IF Between(r) THEN {r} ELSE {}
            /\ \A u \in Users : Prepaid(u) = Advance(r, u)
  <1> SUFFICES ASSUME TypeInv, NEW r \in Requests,
                      \A q \in Requests \ {r} : pc[q] \notin Steps
               PROVE  /\ Behind = IF Between(r) THEN {r} ELSE {}
                      /\ \A u \in Users : Prepaid(u) = Advance(r, u)
    OBVIOUS
  <1>1. Behind = IF Between(r) THEN {r} ELSE {}
    BY DEF Behind, Between, After, Steps, CreditSteps
  <1>2. ASSUME NEW u \in Users PROVE Prepaid(u) = Advance(r, u)
    <2>1. CASE pc[r] \in {"activity", "save"} /\ copy[r].uid = u
      <3>1. Ahead(u) = {r}
        BY <2>1 DEF Ahead, Steps, CreditSteps
      <3>2. (CHOOSE q \in Ahead(u) : TRUE) = r
        BY <3>1
      <3> QED BY <2>1, <3>1, <3>2 DEF Prepaid, Advance
    <2>2. CASE ~(pc[r] \in {"activity", "save"} /\ copy[r].uid = u)
      <3>1. Ahead(u) = {}
        BY <2>2 DEF Ahead, Steps, CreditSteps
      <3> QED BY <2>2, <3>1 DEF Prepaid, Advance
    <2> QED BY <2>1, <2>2
  <1> QED BY <1>1, <1>2

\* The same, after a step.
LEMMA OneIsBetweenAfter ==
    TypeInv' =>
        \A r \in Requests : (\A q \in Requests \ {r} : pc'[q] \notin Steps) =>
            /\ Behind' = IF Between(r)' THEN {r} ELSE {}
            /\ \A u \in Users : Prepaid(u)' = Advance(r, u)'
  <1>1. (TypeInv =>
        \A r \in Requests : (\A q \in Requests \ {r} : pc[q] \notin Steps) =>
            /\ Behind = IF Between(r) THEN {r} ELSE {}
            /\ \A u \in Users : Prepaid(u) = Advance(r, u))'
    BY OneIsBetween, PTL
  <1> QED BY <1>1

\* What the register shows of a row.
EntryOf(row) ==
    [uid |-> row.uid, credited |-> row.credited, discredited |-> row.discredited]

\* The register shows the one row of a chart.
LEMMA EntriesOfRows ==
    Serially /\ TypeInv /\ OneRow =>
        /\ RegisterRows = [c \in Charts |-> RegisterRows[c]]
        /\ \A c \in Charts :
            /\ Matching(c) = {} => RegisterRows[c] = NoRow
            /\ \A d \in Matching(c) : RegisterRows[c] = EntryOf(table[d])
                                        /\ EntryOf(table[d]) # NoRow
  <1> SUFFICES ASSUME Serially, TypeInv, OneRow, NEW c \in Charts
               PROVE  /\ RegisterRows = [x \in Charts |-> RegisterRows[x]]
                      /\ Matching(c) = {} => RegisterRows[c] = NoRow
                      /\ \A d \in Matching(c) : RegisterRows[c] = EntryOf(table[d])
                                                  /\ EntryOf(table[d]) # NoRow
    BY DEF RegisterRows
  <1>1. RegisterRows = [x \in Charts |-> RegisterRows[x]]
    BY DEF RegisterRows
  <1>2. Matching(c) = {} => RegisterRows[c] = NoRow
    BY DEF RegisterRows
  <1>3. ASSUME NEW d \in Matching(c)
        PROVE  RegisterRows[c] = EntryOf(table[d]) /\ EntryOf(table[d]) # NoRow
    <2>1. d \in DiscoveredIds /\ table[d] # NoRow /\ table[d].chart = c
      BY DEF Matching
    <2>2. RowOf(c) \in Matching(c)
      BY DEF RowOf
    <2>3. RowOf(c) = d
      BY <2>1, <2>2 DEF OneRow, Matching
    <2>4. RegisterRows[c] = EntryOf(table[d])
      BY <2>3 DEF RegisterRows, EntryOf
    <2>5. table[d] \in Discovered /\ table[d].uid \in Users
      BY <2>1 DEF TypeInv, TypeOK, OneRow
    <2>6. EntryOf(table[d]) \in Register!Entry
      BY <2>5 DEF EntryOf, Register!Entry, Discovered
    <2> QED BY <2>4, <2>6 DEF Serially, NoRowIsNoEntry
  <1> QED BY <1>1, <1>2, <1>3

\* The same, after a step.
LEMMA EntriesOfRowsAfter ==
    Serially /\ TypeInv' /\ OneRow' =>
        /\ RegisterRows' = [c \in Charts |-> RegisterRows'[c]]
        /\ \A c \in Charts :
            /\ Matching(c)' = {} => RegisterRows'[c] = NoRow
            /\ \A d \in Matching(c)' : RegisterRows'[c] = EntryOf(table'[d])
  <1>1. (Serially /\ TypeInv /\ OneRow =>
        /\ RegisterRows = [c \in Charts |-> RegisterRows[c]]
        /\ \A c \in Charts :
            /\ Matching(c) = {} => RegisterRows[c] = NoRow
            /\ \A d \in Matching(c) : RegisterRows[c] = EntryOf(table[d])
                                        /\ EntryOf(table[d]) # NoRow)'
    BY EntriesOfRows, PTL
  <1>2. Serially => Serially'
    BY DEF Serially, NoRowIsNoEntry, Register!Entry
  <1> QED BY <1>1, <1>2

\* The ballots in the credit rows, before the one of a vote in progress.
Settled == {BallotOf(q) : q \in BallotRows}

\* The lone request replaces its user's ballot while it is between the two writes.
LEMMA BallotsOf ==
    ASSUME NEW r \in Requests
    PROVE  /\ Behind = {} => RegisterBallots = Settled
           /\ Behind = {r} =>
                RegisterBallots =
                  {b \in Settled : <<b[1], b[2]>> # <<call[r].chart, call[r].uid>>}
                    \cup {Ballot(r)}
  BY DEF RegisterBallots, Settled

\* Ballots stay as they are while no credit row is written: rows keep their chart.
LEMMA SettledStays ==
    ASSUME Known, TypeInv', Next, credits' = credits
    PROVE  Settled' = Settled
  <1> USE DEF Known, TypeInv
  <1>1. \A q \in Requests : credits[q] # NoRow =>
           credits[q].did \in DiscoveredIds /\ table[credits[q].did] # NoRow
    BY DEF CreditInv, CreditRows, RowInv, Copies, NewRows, TypeOK, Credit
  <1>2. \A q \in Requests : credits[q] # NoRow =>
           table'[credits[q].did].chart = table[credits[q].did].chart
    BY <1>1, RowSteps
  <1>3. BallotRows' = BallotRows
    BY <1>2 DEF BallotRows
  <1>4. \A q \in BallotRows : BallotOf(q)' = BallotOf(q)
    BY <1>2 DEF BallotRows, BallotOf
  <1> QED BY <1>3, <1>4 DEF Settled

\* A ballot is of a chart, a user and a direction.
LEMMA BallotShape ==
    ASSUME Known, NEW b \in Settled
    PROVE  \E c \in Charts, u \in Users, up \in BOOLEAN : b = <<c, u, up>>
  <1> USE DEF Known, TypeInv
  <1>1. PICK q \in BallotRows : b = BallotOf(q)
    BY DEF Settled
  <1>2. q \in Requests /\ credits[q] \in Credit
    BY <1>1 DEF BallotRows, TypeOK
  <1>3. credits[q].uid \in Users /\ credits[q].up \in BOOLEAN /\ credits[q].did \in DiscoveredIds
    BY <1>2 DEF Credit
  <1>4. table[credits[q].did] # NoRow /\ table[credits[q].did] \in Discovered
    BY <1>1, <1>3 DEF BallotRows, CreditInv, CreditRows, RowInv, Copies, NewRows, TypeOK
  <1>5. table[credits[q].did].chart \in Charts
    BY <1>1, <1>4 DEF BallotRows, Discovered
  <1> QED BY <1>1, <1>3, <1>5 DEF BallotOf

\* A vote pays 15 or takes 2.
LEMMA PointsAreIntegers ==
    ASSUME TypeOK, NEW r \in Requests
    PROVE  Points(r) \in Int
  BY DEF Points, discCredit, discDiscredit

\* The standing of the register, while r is the only request there is.
LEMMA StandingStep ==
    ASSUME TypeInv, TypeInv', NEW r \in Requests, OneStep(r)
    PROVE  /\ RegisterStanding = [u \in Users |-> reputation[u] - Advance(r, u)]
           /\ RegisterStanding' = [u \in Users |-> reputation'[u] - Advance(r, u)']
           /\ \A u \in Users : /\ reputation[u] \in Int /\ reputation'[u] \in Int
                               /\ Advance(r, u) \in Int /\ Advance(r, u)' \in Int
  <1>1. \A u \in Users : Prepaid(u) = Advance(r, u)
    BY OneIsBetween DEF OneStep
  <1>2. \A u \in Users : Prepaid(u)' = Advance(r, u)'
    BY OneIsBetweenAfter DEF OneStep
  <1>3. \A u \in Users : reputation[u] \in Int /\ reputation'[u] \in Int
    BY DEF TypeInv, TypeOK
  <1>4. Points(r) \in Int
    BY PointsAreIntegers DEF TypeInv
  <1>5. Points(r)' = Points(r)
    BY DEF Points, OneStep
  <1>6. \A u \in Users : Advance(r, u) \in Int
    BY <1>4 DEF Advance
  <1>7. \A u \in Users : Advance(r, u)' \in Int
    BY <1>4, <1>5 DEF Advance
  <1> QED BY <1>1, <1>2, <1>3, <1>6, <1>7 DEF RegisterStanding

\* A statement that writes neither table, and owes or pays nothing that was not
\* paid or owed, leaves the register as it is.
LEMMA QuietStep ==
    ASSUME TypeInv, TypeInv', NEW r \in Requests, OneStep(r),
           table' = table, credits' = credits, Between(r)' = Between(r),
           \A u \in Users : reputation'[u] - Advance(r, u)' = reputation[u] - Advance(r, u)
    PROVE  UNCHANGED Register!entries
  <1>1. call' = call
    BY DEF OneStep
  <1>2. RegisterRows' = RegisterRows
    BY DEF RegisterRows, RowOf, Matching
  <1>3. Behind' = Behind
    BY OneIsBetween, OneIsBetweenAfter DEF OneStep
  <1>4. BallotRows' = BallotRows
    BY DEF BallotRows
  <1>5. RegisterBallots' = RegisterBallots
    BY <1>1, <1>3, <1>4 DEF RegisterBallots, BallotOf, Ballot
  <1>6. RegisterStanding' = RegisterStanding
    BY StandingStep
  <1> QED BY <1>2, <1>5, <1>6 DEF Register!entries

-----------------------------------------------------------------------------
(***************************************************************************)
(* The statements, one by one.                                             *)
(***************************************************************************)

\* Reading, looking up, arriving and recording the activity are quiet.
LEMMA ReadsAreQuiet ==
    ASSUME Serially, Known, TypeInv', NEW r \in Requests, OneStep(r),
           \/ BeginView(r) \/ ReadCreditors(r) \/ FindAgain(r) \/ ReadOwnVote(r)
           \/ BeginCredit(r) \/ AddActivity(r) \/ FindCredit(r)
    PROVE  UNCHANGED Register!entries
  <1> USE DEF Known, TypeInv, Serially, Goto
  <1>1. table' = table /\ credits' = credits /\ reputation' = reputation
    BY DEF BeginView, ReadCreditors, FindAgain, ReadOwnVote, BeginCredit, AddActivity,
       FindCredit, Skip, database
  <1>2. CASE \/ BeginView(r) \/ ReadCreditors(r) \/ FindAgain(r) \/ ReadOwnVote(r)
             \/ BeginCredit(r)
    <2>1. /\ pc[r] \notin After \cup {"activity", "save"}
          /\ pc'[r] \notin After \cup {"activity", "save"}
      BY <1>2 DEF BeginView, ReadCreditors, FindAgain, ReadOwnVote, BeginCredit, Arrives,
         Skip, TypeOK, After
    <2>2. Between(r)' = Between(r)
      BY <2>1 DEF Between
    <2>3. \A u \in Users : Advance(r, u) = 0 /\ Advance(r, u)' = 0
      BY <2>1 DEF Advance
    <2> QED BY <1>1, <2>2, <2>3, QuietStep
  <1>3. CASE AddActivity(r) \/ FindCredit(r)
    <2>1. /\ pc[r] \in After <=> pc'[r] \in After
          /\ pc[r] \in {"activity", "save"} <=> pc'[r] \in {"activity", "save"}
          /\ copy' = copy
      BY <1>3 DEF AddActivity, FindCredit, Skip, TypeOK, After, locals
    <2>2. Between(r)' = Between(r)
      BY <2>1 DEF Between
    <2>3. Points(r)' = Points(r)
      BY DEF Points, OneStep
    <2>4. \A u \in Users : Advance(r, u)' = Advance(r, u)
      BY <2>1, <2>3 DEF Advance
    <2> QED BY <1>1, <2>2, <2>4, QuietStep
  <1> QED BY <1>2, <1>3

\* The payment of the discoverer, before the vote is counted, is quiet: what it
\* adds to the reputation the register takes off until then.
LEMMA PaymentsAreQuiet ==
    ASSUME Serially, Known, TypeInv', NEW r \in Requests, OneStep(r),
           ReputationRead(r) \/ ReputationWrite(r)
    PROVE  UNCHANGED Register!entries
  <1> USE DEF Known, TypeInv, Serially, Goto
  <1>1. table' = table /\ credits' = credits /\ copy' = copy
    BY DEF ReputationRead, ReputationWrite, Skip, database, locals
  <1>2. Between(r)' = Between(r)
    BY <1>1 DEF Between, ReputationRead, ReputationWrite, Skip, TypeOK, After
  <1>3. CASE ReputationRead(r)
    <2>1. /\ reputation' = reputation /\ pc[r] = "repRead"
          /\ pc'[r] \in {"activity", "save"} => copy[r].uid \notin Users
      BY <1>3 DEF ReputationRead, Skip, TypeOK, database
    <2>2. \A u \in Users : Advance(r, u) = 0 /\ Advance(r, u)' = 0
      BY <1>1, <2>1 DEF Advance
    <2> QED BY <1>1, <1>2, <2>1, <2>2, QuietStep
  <1>4. CASE ReputationWrite(r)
    <2>1. /\ pc[r] = "repWrite" /\ pc'[r] = "activity" /\ seen[r] = reputation[copy[r].uid]
          /\ reputation' = [reputation EXCEPT ![copy[r].uid] = seen[r] + Points(r)]
      BY <1>4 DEF ReputationWrite, Skip, TypeOK, SerialInv, PaymentsAreFresh
    <2>2. Points(r) \in Int /\ Points(r)' = Points(r)
      BY PointsAreIntegers DEF Points, OneStep
    <2>3. \A u \in Users : /\ Advance(r, u) = 0
                           /\ Advance(r, u)' = IF copy[r].uid = u THEN Points(r) ELSE 0
      BY <1>1, <2>1, <2>2 DEF Advance
    <2>4. ASSUME NEW u \in Users
          PROVE  reputation'[u] - Advance(r, u)' = reputation[u] - Advance(r, u)
      <3>1. reputation[u] \in Int
        BY DEF TypeOK
      <3>2. CASE copy[r].uid = u
        <4>1. reputation'[u] = reputation[u] + Points(r)
          BY <2>1, <3>2 DEF TypeOK
        <4> QED BY <2>2, <2>3, <3>1, <3>2, <4>1
      <3>3. CASE copy[r].uid # u
        <4>1. reputation'[u] = reputation[u]
          BY <2>1, <3>3 DEF TypeOK
        <4> QED BY <2>3, <3>3, <4>1
      <3> QED BY <3>2, <3>3
    <2> QED BY <1>1, <1>2, <2>4, QuietStep
  <1> QED BY <1>3, <1>4

\* Inserting or turning a credit row gives it the ballot that the vote in
\* progress has stood for, and is quiet.
LEMMA CreditsAreQuiet ==
    ASSUME Serially, Known, TypeInv', NEW r \in Requests, OneStep(r),
           InsertCredit(r) \/ UpdateCredit(r)
    PROVE  UNCHANGED Register!entries
  <1> USE DEF Known, TypeInv, Serially, Goto
  <1> DEFINE row == [did |-> did[r], uid |-> call[r].uid, up |-> call[r].up]
  <1>1. /\ table' = table /\ reputation' = reputation /\ call' = call
        /\ pc[r] \in {"insert", "update"} /\ pc'[r] = "done"
    BY CreditWrites DEF InsertsRow, TurnsRow, OneStep
  <1>2. PICK q0 \in Requests :
           /\ credits' = [credits EXCEPT ![q0] = row]
           /\ credits[q0] # NoRow =>
                credits[q0].did = did[r] /\ credits[q0].uid = call[r].uid
           /\ \A q \in Requests \ {q0} : credits[q] # NoRow =>
                ~(credits[q].did = did[r] /\ credits[q].uid = call[r].uid)
    <2>1. CASE InsertsRow(r)
      BY <2>1 DEF InsertsRow, CreditsOf
    <2>2. CASE TurnsRow(r)
      <3>1. credits[mine[r]] # NoRow
        BY <2>2, NoRowIsNoRow DEF TurnsRow
      <3>2. PICK q0 \in Requests : q0 = mine[r]
        BY <2>2 DEF TurnsRow
      <3>3. /\ credits' = [credits EXCEPT ![q0] = row]
            /\ credits[q0] # NoRow /\ credits[q0].did = did[r] /\ credits[q0].uid = call[r].uid
        BY <2>2, <3>1, <3>2 DEF TurnsRow
      <3>4. \A q \in Requests \ {q0} : credits[q] # NoRow =>
               ~(credits[q].did = did[r] /\ credits[q].uid = call[r].uid)
        BY <3>3 DEF SerialInv, OneCredit
      <3> QED BY <3>3, <3>4
    <2> QED BY <2>1, <2>2, CreditWrites
  <1>3. /\ did[r] \in DiscoveredIds /\ table[did[r]] # NoRow
        /\ table[did[r]].chart = copy[r].chart
        /\ copy[r].chart \in {call[r].chart, NoChart}
        /\ call[r].chart \in Charts /\ call[r].chart # NoChart
    BY <1>1, CallShape, IdsAreDistinct
       DEF Stages, After, RowInv, Copies, SerialInv, StructsAreFresh, TypeOK
  <1>4. row \in Credit /\ row # NoRow /\ row.did = did[r]
    BY <1>1, <1>3, CallShape, NoRowIsNoRow DEF Stages, CreditSteps, Credit
  <1>5. /\ credits'[q0] = row
        /\ \A q \in Requests \ {q0} : credits'[q] = credits[q]
    BY <1>2 DEF TypeOK
  <1>6. /\ BallotRows' \ {q0} = BallotRows \ {q0}
        /\ \A q \in BallotRows \ {q0} : BallotOf(q)' = BallotOf(q)
    BY <1>1, <1>5 DEF BallotRows, BallotOf
  <1>7. /\ q0 \in BallotRows' <=> copy[r].chart # NoChart
        /\ q0 \in BallotRows => copy[r].chart # NoChart
    BY <1>1, <1>2, <1>3, <1>4, <1>5 DEF BallotRows
  <1>8. Behind' = {} /\ Behind = IF Between(r) THEN {r} ELSE {}
    BY <1>1, OneIsBetween, OneIsBetweenAfter DEF OneStep, Between, After
  <1>9. RegisterBallots' = Settled'
    BY <1>8 DEF RegisterBallots, Settled
  <1>10. RegisterBallots' = RegisterBallots
    <2>1. CASE copy[r].chart = NoChart
      <3>1. BallotRows' = BallotRows /\ \A q \in BallotRows : BallotOf(q)' = BallotOf(q)
        BY <1>6, <1>7, <2>1
      <3>2. Settled' = Settled
        BY <3>1 DEF Settled
      <3>3. Behind = {}
        BY <1>8, <2>1 DEF Between
      <3> QED BY <1>9, <3>2, <3>3, BallotsOf
    <2>2. CASE copy[r].chart = call[r].chart
      <3>1. Behind = {r}
        BY <1>1, <1>3, <1>8, <2>2 DEF Between, After
      <3>2. q0 \in BallotRows' /\ BallotOf(q0)' = Ballot(r)
        BY <1>1, <1>3, <1>5, <1>7, <2>2 DEF BallotOf, Ballot
      <3>3. ASSUME NEW q \in BallotRows
            PROVE  q = q0 <=> <<BallotOf(q)[1], BallotOf(q)[2]>>
                                = <<call[r].chart, call[r].uid>>
        <4>1. /\ q \in Requests /\ credits[q] # NoRow /\ credits[q] \in Credit
              /\ credits[q].did \in DiscoveredIds
          BY DEF BallotRows, TypeOK, Credit
        <4>2. table[credits[q].did] # NoRow
          BY <4>1 DEF CreditInv, CreditRows, RowInv, Copies, NewRows
        <4>3. <<BallotOf(q)[1], BallotOf(q)[2]>>
                 = <<table[credits[q].did].chart, credits[q].uid>>
          BY DEF BallotOf
        <4>4. CASE q = q0
          BY <1>2, <1>3, <2>2, <4>1, <4>3, <4>4
        <4>5. CASE q # q0
          <5>1. table[credits[q].did].chart = call[r].chart => credits[q].did = did[r]
            BY <1>3, <2>2, <4>1, <4>2 DEF SerialInv, OneRow
          <5> QED BY <1>2, <4>1, <4>3, <4>5, <5>1
        <4> QED BY <4>4, <4>5
      <3>4. {b \in Settled : <<b[1], b[2]>> # <<call[r].chart, call[r].uid>>}
              = {BallotOf(q) : q \in BallotRows \ {q0}}
        BY <3>3 DEF Settled
      <3>5. Settled' = {BallotOf(q) : q \in BallotRows \ {q0}} \cup {Ballot(r)}
        BY <1>6, <3>2 DEF Settled
      <3> QED BY <1>9, <3>1, <3>4, <3>5, BallotsOf
    <2> QED BY <1>3, <2>1, <2>2
  <1>11. RegisterRows' = RegisterRows
    BY <1>1 DEF RegisterRows, RowOf, Matching
  <1>12. RegisterStanding' = RegisterStanding
    <2>1. \A u \in Users : Advance(r, u) = 0 /\ Advance(r, u)' = 0
      BY <1>1 DEF Advance
    <2> QED BY <1>1, <2>1, StandingStep
  <1> QED BY <1>10, <1>11, <1>12 DEF Register!entries

\* A write of one row leaves the entries of the other charts alone.
LEMMA OtherEntries ==
    ASSUME Serially, TypeInv, TypeInv', OneRow, OneRow', NEW d \in DiscoveredIds, NEW x \in Charts,
           \A e \in DiscoveredIds \ {d} : table'[e] = table[e],
           d \notin Matching(x), d \notin Matching(x)'
    PROVE  RegisterRows'[x] = RegisterRows[x]
  <1>1. Matching(x)' = Matching(x)
    BY DEF Matching
  <1>2. CASE Matching(x) = {}
    <2>1. RegisterRows[x] = NoRow
      BY <1>2, EntriesOfRows
    <2>2. RegisterRows'[x] = NoRow
      BY <1>1, <1>2, EntriesOfRowsAfter
    <2> QED BY <2>1, <2>2
  <1>3. CASE Matching(x) # {}
    <2>1. PICK e \in Matching(x) : TRUE
      BY <1>3
    <2>2. e \in DiscoveredIds /\ e # d /\ table'[e] = table[e]
      BY <2>1 DEF Matching
    <2>3. RegisterRows[x] = EntryOf(table[e])
      BY <2>1, EntriesOfRows
    <2>4. RegisterRows'[x] = EntryOf(table'[e])
      BY <1>1, <2>1, EntriesOfRowsAfter
    <2> QED BY <2>2, <2>3, <2>4
  <1> QED BY <1>2, <1>3

\* The insertion of a first view is the discovery of the register.
LEMMA DiscoverStep ==
    ASSUME Serially, Known, TypeInv', NEW r \in Requests, OneStep(r), Discover(r)
    PROVE  Register!RegisterNext
  <1> USE DEF Known, TypeInv, SerialInv
  <1>1. r \in DiscoveredIds
    BY DEF DiscoveredIds
  <1>0. PICK u \in Users, c \in Charts : u = call[r].uid /\ c = call[r].chart
    BY CallShape
  <1>2. Discovers(r)
    BY TableSteps
  <1>3. OneRow'
    BY OneRowStep
  <1>4. /\ NewDiscovery(c, u) # NoRow
        /\ NewDiscovery(c, u).chart = c /\ NewDiscovery(c, u).uid = u
        /\ NewDiscovery(c, u).credited = 0 /\ NewDiscovery(c, u).discredited = 0
    BY <1>1, RowsAreRows, NoRowIsNoRow
  <1>5. /\ Matching(c) = {} /\ table[r] = NoRow /\ table'[r] = NewDiscovery(c, u)
        /\ \A e \in DiscoveredIds \ {r} : table'[e] = table[e]
        /\ pc[r] = "discover" /\ pc'[r] = "creditors"
        /\ reputation' = reputation /\ credits' = credits
    BY <1>0, <1>1, <1>2 DEF Discovers, TypeOK
  <1>6. RegisterRows[c] = NoRow
    BY <1>1, <1>5, EntriesOfRows
  <1>7. RegisterRows' = [RegisterRows EXCEPT ![c] = Register!First(u)]
    <2>1. r \in Matching(c)'
      BY <1>1, <1>4, <1>5 DEF Matching
    <2>2. RegisterRows'[c] = EntryOf(table'[r])
      BY <1>1, <1>3, <2>1, EntriesOfRowsAfter
    <2>3. PICK row : row = table'[r]
      OBVIOUS
    <2>4. RegisterRows'[c] = Register!First(u)
      BY <1>4, <1>5, <2>2, <2>3 DEF EntryOf, Register!First
    <2>5. ASSUME NEW x \in Charts, x # c
          PROVE  RegisterRows'[x] = RegisterRows[x]
      <3>1. r \notin Matching(x) /\ r \notin Matching(x)'
        BY <1>1, <1>4, <1>5, <2>5 DEF Matching
      <3> QED BY <1>1, <1>3, <1>5, <3>1, OtherEntries
    <2>6. /\ RegisterRows = [x \in Charts |-> RegisterRows[x]]
          /\ RegisterRows' = [x \in Charts |-> RegisterRows'[x]]
      BY <1>3, EntriesOfRows, EntriesOfRowsAfter
    <2> QED BY <1>1, <2>4, <2>5, <2>6
  <1>8. RegisterBallots' = RegisterBallots
    <2>1. Behind = {} /\ Behind' = {}
      BY <1>5, OneIsBetween, OneIsBetweenAfter DEF OneStep, Between, After
    <2>2. Settled' = Settled
      BY <1>5, SettledStays DEF OneStep, Acts, Next
    <2> QED BY <2>1, <2>2 DEF RegisterBallots, Settled
  <1>9. RegisterStanding' = RegisterStanding
    <2>1. \A w \in Users : Advance(r, w) = 0 /\ Advance(r, w)' = 0
      BY <1>5 DEF Advance
    <2> QED BY <1>5, <2>1, StandingStep
  <1>10. Register!Discover(u, c)
    BY <1>6, <1>7, <1>8, <1>9 DEF Register!Discover
  <1> QED BY <1>1, <1>10 DEF Register!RegisterNext

\* The votes of a direction that are counted in a row are fewer than the requests
\* while one of them has its vote to save.
LEMMA RoomForAVote ==
    ASSUME Known, NEW r \in Requests, r \notin saved, NEW d \in DiscoveredIds,
           table[d] # NoRow
    PROVE  /\ table[d].credited < Cardinality(Requests)
           /\ table[d].discredited < Cardinality(Requests)
  <1>1. table[d].credited \in Nat /\ table[d].discredited \in Nat
    BY DEF Known, TypeInv, TypeOK, Discovered
  <1>2. IsFiniteSet(Requests \ {r}) /\ Cardinality(Requests) \in Nat
        /\ Cardinality(Requests \ {r}) = Cardinality(Requests) - 1
    BY RequestsAreFinite, FS_CardinalityType, FS_RemoveElement
  <1>3. \A b : SavedVotes(d, b) \subseteq Requests \ {r}
    BY DEF Known, TypeInv, SavedVotes, TypeOK
  <1>4. \A b : Cardinality(SavedVotes(d, b)) \in Nat
                 /\ Cardinality(SavedVotes(d, b)) <= Cardinality(Requests) - 1
    BY <1>2, <1>3, VotesAreNumbers, FS_Subset DEF Known, TypeInv
  <1>5. /\ table[d].credited <= Cardinality(SavedVotes(d, TRUE))
        /\ table[d].discredited <= Cardinality(SavedVotes(d, FALSE))
    BY DEF Known, CountersInv, WithinSaved, Ups, Downs
  <1>6. /\ Cardinality(SavedVotes(d, TRUE)) \in Nat /\ Cardinality(SavedVotes(d, FALSE)) \in Nat
        /\ Cardinality(SavedVotes(d, TRUE)) <= Cardinality(Requests) - 1
        /\ Cardinality(SavedVotes(d, FALSE)) <= Cardinality(Requests) - 1
    BY <1>4
  <1>7. \A n, m, k \in Nat : n <= m /\ m <= k - 1 => n < k
    OBVIOUS
  <1> QED BY <1>1, <1>2, <1>5, <1>6, <1>7

\* Counting a vote in a row of the table counts it in the entry of the register.
LEMMA CountIsCounted ==
    ASSUME NEW row \in Discovered, NEW up \in BOOLEAN, NEW new,
           new.uid = row.uid,
           new.credited = row.credited + (IF up THEN 1 ELSE 0),
           new.discredited = row.discredited + (IF up THEN 0 ELSE 1)
    PROVE  EntryOf(new) = Register!Count(EntryOf(row), up)
  <1>1. row.credited \in Nat /\ row.discredited \in Nat
    BY DEF Discovered
  <1>2. CASE up
    BY <1>1, <1>2 DEF Register!Count, EntryOf
  <1>3. CASE ~up
    BY <1>1, <1>3 DEF Register!Count, EntryOf
  <1> QED BY <1>2, <1>3

\* The Save of a vote on a discovered chart is the vote of the register, which
\* pays the discoverer at once.
LEMMA VoteStep ==
    ASSUME Serially, Known, TypeInv', NEW r \in Requests, OneStep(r), SaveDiscovered(r),
           did[r] # Zero
    PROVE  Register!RegisterNext
  <1> USE DEF Known, TypeInv, SerialInv
  <1>1. PICK u \in Users, c \in Charts, up \in BOOLEAN :
           u = call[r].uid /\ c = call[r].chart /\ up = call[r].up
    BY CallShape DEF SaveDiscovered, Stages, CreditSteps
  <1>2. SavesVote(r) /\ OneRow' /\ Next
    BY TableSteps, OneRowStep DEF OneStep, Acts, Next
  <1>3. PICK d \in DiscoveredIds, row \in Discovered, new \in Discovered :
           /\ d = did[r] /\ d \in Matching(c) /\ row = table[d] /\ row = copy[r]
           /\ row.chart = c /\ row # NoRow /\ new = Voted(r)
    <2>1. /\ did[r] \in DiscoveredIds /\ did[r] \in Matching(c) /\ table[did[r]] = copy[r]
          /\ copy[r].chart = c /\ copy[r] \in Discovered /\ table[did[r]] # NoRow
          /\ Voted(r) \in Discovered
      BY <1>1, <1>2, VotedRow DEF SavesVote, Matching, TypeOK
    <2> QED BY <2>1
  <1>4. /\ pc[r] = "save" /\ pc'[r] = "find" /\ Op(r) = "credit" /\ r \notin saved
        /\ table'[d] = new /\ copy'[r] = new
        /\ \A e \in DiscoveredIds \ {d} : table'[e] = table[e]
        /\ reputation' = reputation /\ credits' = credits /\ call' = call
    BY <1>2, <1>3 DEF SavesVote, TypeOK, RowInv, NewRows, Before, OneStep
  <1>5. /\ new # NoRow /\ new.chart = c /\ new.uid = row.uid
        /\ new.credited = row.credited + (IF up THEN 1 ELSE 0)
        /\ new.discredited = row.discredited + (IF up THEN 0 ELSE 1)
    BY <1>1, <1>3, <1>4, VotedRow
  <1>6. row.uid \in Users
    BY <1>3 DEF OneRow
  <1>7. RegisterRows[c] = EntryOf(row) /\ RegisterRows[c] # NoRow
    BY <1>3, EntriesOfRows
  <1>8. RegisterRows' = [RegisterRows EXCEPT ![c] = Register!Count(@, up)]
    <2>1. d \in Matching(c)'
      BY <1>3, <1>4, <1>5 DEF Matching
    <2>2. RegisterRows'[c] = EntryOf(table'[d])
      BY <1>2, <2>1, EntriesOfRowsAfter
    <2>3. RegisterRows'[c] = Register!Count(RegisterRows[c], up)
      BY <1>4, <1>5, <1>7, <2>2, CountIsCounted
    <2>4. ASSUME NEW x \in Charts, x # c
          PROVE  RegisterRows'[x] = RegisterRows[x]
      <3>1. d \notin Matching(x) /\ d \notin Matching(x)'
        BY <1>3, <1>4, <1>5, <2>4 DEF Matching
      <3> QED BY <1>2, <1>4, <3>1, OtherEntries
    <2>5. /\ RegisterRows = [x \in Charts |-> RegisterRows[x]]
          /\ RegisterRows' = [x \in Charts |-> RegisterRows'[x]]
      BY <1>2, EntriesOfRows, EntriesOfRowsAfter
    <2> QED BY <2>3, <2>4, <2>5
  <1>9. (IF up THEN RegisterRows[c].credited ELSE RegisterRows[c].discredited)
          < Cardinality(Requests)
    <2>1. row.credited < Cardinality(Requests) /\ row.discredited < Cardinality(Requests)
      BY <1>3, <1>4, RoomForAVote
    <2> QED BY <1>7, <2>1 DEF EntryOf
  <1>10. RegisterBallots' = Register!Recast(u, c, up)
    <2>1. Behind = {} /\ Behind' = {r}
      BY <1>4, <1>5, IdsAreDistinct, OneIsBetween, OneIsBetweenAfter
         DEF OneStep, Between, After
    <2>2. Settled' = Settled /\ RegisterBallots = Settled
      BY <1>2, <1>4, <2>1, SettledStays, BallotsOf
    <2>3. RegisterBallots' =
            {b \in Settled : <<b[1], b[2]>> # <<c, u>>} \cup {<<c, u, up>>}
      BY <1>1, <1>4, <2>1, <2>2 DEF RegisterBallots, Settled, Ballot
    <2>4. ASSUME NEW b \in Settled, b # <<c, u, up>>
          PROVE  <<b[1], b[2]>> # <<c, u>> <=> b # <<c, u, ~up>>
      BY <2>4, BallotShape
    <2>5. {b \in Settled : <<b[1], b[2]>> # <<c, u>>} \cup {<<c, u, up>>}
            = (Settled \ {<<c, u, ~up>>}) \cup {<<c, u, up>>}
      BY <2>4
    <2> QED BY <2>2, <2>3, <2>5 DEF Register!Recast
  <1>11. RegisterStanding' =
           [RegisterStanding EXCEPT ![RegisterRows[c].uid] = @ + IF up THEN 15 ELSE -2]
    <2>1. PICK p \in Int : p = IF up THEN 15 ELSE -2
      OBVIOUS
    <2>2. Points(r) = p
      BY <1>1, <2>1 DEF Points, discCredit, discDiscredit
    <2>3. \A w \in Users : /\ Advance(r, w) = IF w = row.uid THEN p ELSE 0
                           /\ Advance(r, w)' = 0
      BY <1>3, <1>4, <2>2 DEF Advance
    <2>4. \A w \in Users : reputation[w] \in Int
      BY DEF TypeOK
    <2>5. RegisterStanding = [w \in Users |-> reputation[w] - (IF w = row.uid THEN p ELSE 0)]
      BY <2>3, StandingStep
    <2>6. RegisterStanding' = [w \in Users |-> reputation[w] - 0]
      BY <1>4, <2>3, StandingStep
    <2>7. RegisterRows[c].uid = row.uid
      BY <1>7 DEF EntryOf
    <2>8. RegisterStanding' = [RegisterStanding EXCEPT ![row.uid] = @ + p]
      BY <1>6, <2>4, <2>5, <2>6
    <2> QED BY <2>1, <2>7, <2>8
  <1>12. Register!Vote(u, c, up)
    BY <1>7, <1>8, <1>9, <1>10, <1>11 DEF Register!Vote
  <1> QED BY <1>12 DEF Register!RegisterNext

\* The Save of a vote on a chart that nobody has discovered adds a row of no
\* chart, pays nobody, and is quiet.
LEMMA OrphansAreQuiet ==
    ASSUME Serially, Known, TypeInv', NEW r \in Requests, OneStep(r), SaveDiscovered(r),
           did[r] = Zero
    PROVE  UNCHANGED Register!entries
  <1> USE DEF Known, TypeInv, SerialInv
  <1>1. SavesVote(r) /\ OneRow' /\ Next
    BY TableSteps, OneRowStep DEF OneStep, Acts, Next
  <1>2. /\ pc[r] = "save" /\ pc'[r] = "find" /\ Op(r) = "credit"
        /\ table[r] = NoRow /\ copy[r] = Empty /\ r \in DiscoveredIds
        /\ table'[r] = Voted(r) /\ copy'[r] = Voted(r)
        /\ \A e \in DiscoveredIds \ {r} : table'[e] = table[e]
        /\ reputation' = reputation /\ credits' = credits
    BY <1>1 DEF SavesVote, DiscoveredIds, TypeOK
  <1>3. Voted(r).chart = NoChart
    BY <1>2, VotedRow DEF Empty
  <1>4. RegisterRows' = RegisterRows
    <2>1. ASSUME NEW x \in Charts PROVE RegisterRows'[x] = RegisterRows[x]
      <3>1. r \notin Matching(x) /\ r \notin Matching(x)'
        BY <1>2, <1>3, IdsAreDistinct DEF Matching
      <3> QED BY <1>1, <1>2, <3>1, OtherEntries
    <2>2. /\ RegisterRows = [x \in Charts |-> RegisterRows[x]]
          /\ RegisterRows' = [x \in Charts |-> RegisterRows'[x]]
      BY <1>1, EntriesOfRows, EntriesOfRowsAfter
    <2> QED BY <2>1, <2>2
  <1>5. RegisterBallots' = RegisterBallots
    <2>1. Behind = {} /\ Behind' = {}
      BY <1>2, <1>3, OneIsBetween, OneIsBetweenAfter DEF OneStep, Between, After
    <2>2. Settled' = Settled
      BY <1>1, <1>2, SettledStays
    <2> QED BY <2>1, <2>2 DEF RegisterBallots, Settled
  <1>6. RegisterStanding' = RegisterStanding
    <2>1. \A w \in Users : Advance(r, w) = 0 /\ Advance(r, w)' = 0
      BY <1>2, UsersAreUsers DEF Advance, Empty
    <2> QED BY <1>2, <2>1, StandingStep
  <1> QED BY <1>4, <1>5, <1>6 DEF Register!entries

\* Every statement of the handlers is a step of the register or leaves it alone.
LEMMA RegisterStep ==
    ASSUME Serially, Known, TypeInv', [Next]_vars
    PROVE  [Register!RegisterNext]_(Register!entries)
  <1>u. CASE UNCHANGED vars
    <2>1. UNCHANGED <<table, credits, call, pc, copy, reputation>>
      BY <1>u DEF vars, database, locals
    <2>2. RegisterRows' = RegisterRows
      BY <2>1 DEF RegisterRows, RowOf, Matching
    <2>3. Behind' = Behind /\ BallotRows' = BallotRows
      BY <2>1 DEF Behind, BallotRows
    <2>4. RegisterBallots' = RegisterBallots
      BY <2>1, <2>3 DEF RegisterBallots, BallotOf, Ballot
    <2>5. \A w \in Users : Ahead(w)' = Ahead(w)
      BY <2>1 DEF Ahead
    <2>6. \A w \in Users : Prepaid(w)' = Prepaid(w)
      BY <2>1, <2>5 DEF Prepaid, Points
    <2>7. RegisterStanding' = RegisterStanding
      BY <2>1, <2>6 DEF RegisterStanding
    <2> QED BY <2>2, <2>4, <2>7 DEF Register!entries
  <1>n. CASE Next
    <2>1. PICK r \in Requests : OneStep(r)
      BY <1>n, OneActs DEF Known, SerialInv
    <2>2. CASE \/ BeginView(r) \/ ReadCreditors(r) \/ FindAgain(r) \/ ReadOwnVote(r)
               \/ BeginCredit(r) \/ AddActivity(r) \/ FindCredit(r)
      BY <2>1, <2>2, ReadsAreQuiet
    <2>3. CASE ReputationRead(r) \/ ReputationWrite(r)
      BY <2>1, <2>3, PaymentsAreQuiet
    <2>4. CASE Discover(r)
      BY <2>1, <2>4, DiscoverStep
    <2>5. CASE SaveDiscovered(r)
      BY <2>1, <2>5, VoteStep, OrphansAreQuiet
    <2>6. CASE InsertCredit(r) \/ UpdateCredit(r)
      BY <2>1, <2>6, CreditsAreQuiet
    <2> QED BY <2>1, <2>2, <2>3, <2>4, <2>5, <2>6 DEF OneStep, Acts
  <1> QED BY <1>u, <1>n

\* The initial states of the handlers are initial states of the register.
LEMMA RegisterStart == Serially /\ Init => Register!RegisterInit
  <1> SUFFICES ASSUME Serially, Init PROVE Register!RegisterInit
    OBVIOUS
  <1>1. PICK author \in [Charts -> Users \cup {Nobody}] :
           table = [d \in DiscoveredIds |->
                      IF d \in Charts /\ author[d] # Nobody
                      THEN NewDiscovery(d, author[d]) ELSE NoRow]
    BY DEF Init
  <1>2. TypeInv /\ OneRow
    BY InitTypes, SerialInit DEF SerialInv
  <1>3. ASSUME NEW c \in Charts
        PROVE  RegisterRows[c] \in {Register!First(u) : u \in Users} \cup {NoRow}
    <2>1. CASE Matching(c) = {}
      BY <1>2, <2>1, EntriesOfRows
    <2>2. CASE Matching(c) # {}
      <3>1. PICK d \in Matching(c) : TRUE
        BY <2>2
      <3>2. d \in Charts /\ author[d] \in Users /\ table[d] = NewDiscovery(d, author[d])
        BY <1>1, <3>1 DEF Matching
      <3>3. RegisterRows[c] = EntryOf(table[d])
        BY <1>2, <3>1, EntriesOfRows
      <3>4. EntryOf(NewDiscovery(d, author[d])) = Register!First(author[d])
        BY <3>2, RowsAreRows DEF EntryOf, Register!First
      <3> QED BY <3>2, <3>3, <3>4
    <2> QED BY <2>1, <2>2
  <1>4. RegisterRows \in [Charts -> {Register!First(u) : u \in Users} \cup {NoRow}]
    <2>1. RegisterRows = [c \in Charts |-> RegisterRows[c]]
      BY <1>2, EntriesOfRows
    <2> QED BY <1>3, <2>1
  <1>5. RegisterBallots = {}
    <2>1. Behind = {} /\ BallotRows = {}
      BY DEF Init, Behind, BallotRows
    <2> QED BY <2>1 DEF RegisterBallots
  <1>6. RegisterStanding = [u \in Users |-> 0]
    <2>1. \A u \in Users : Prepaid(u) = 0
      BY DEF Init, Ahead, Prepaid
    <2> QED BY <2>1 DEF Init, RegisterStanding
  <1> QED BY <1>4, <1>5, <1>6 DEF Register!RegisterInit

\* One request at a time and without faults the handlers of charts implement the
\* register: the first view of a chart discovers it for good, every vote counts
\* at once and in full, and a ballot is its voter's last vote.
THEOREM HandlersImplementRegister ==
    ASSUME Serially
    PROVE  Spec => ImplementsRegister
  <1>1. Known /\ TypeInv' /\ [Next]_vars => [Register!RegisterNext]_(Register!entries)
    BY RegisterStep
  <1>2. Known => TypeInv
    BY DEF Known
  <1>3. Spec => Register!RegisterSpec
    BY <1>1, <1>2, RegisterStart, SerialStates, PTL DEF Spec, Register!RegisterSpec
  <1> QED BY <1>3 DEF ImplementsRegister
=============================================================================
