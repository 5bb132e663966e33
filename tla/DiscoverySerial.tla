--------------------------- MODULE DiscoverySerial ---------------------------
(***************************************************************************)
(* One request at a time and no faults: the chart handlers implement the   *)
(* register.  A view takes effect when Discover inserts the row, a vote    *)
(* when CreditChart saves it; the reputation, written before, and the      *)
(* credit row, written after, are set right for the vote in between.       *)
(***************************************************************************)
EXTENDS ChartDiscovery

RowOf(c) == IF Matching(c) = {} THEN NoRow ELSE CHOOSE d \in Matching(c) : TRUE

\* votes that have paid the discoverer and are not counted yet
Ahead(u) ==
    {r \in Requests : pc[r] \in {"activity", "save"} /\ copy[r].uid = u}

\* votes that are counted and not yet in the credit rows
Behind ==
    {r \in Requests : pc[r] \in {"find", "insert", "update"} /\ copy[r].chart # NoChart}

Ballot(r) == <<call[r].chart, call[r].uid, call[r].up>>

\* the credit rows of charts, and the ballots they stand for
BallotRows == {q \in Requests : credits[q] # NoRow /\ table[credits[q].did].chart # NoChart}
BallotOf(q) == <<table[credits[q].did].chart, credits[q].uid, credits[q].up>>

Prepaid(u) == IF Ahead(u) = {} THEN 0 ELSE Points(CHOOSE r \in Ahead(u) : TRUE)

\* the register of a state of the handlers
RegisterRows ==
    [c \in Charts |->
       IF Matching(c) = {} THEN NoRow
       ELSE LET row == table[RowOf(c)]
            IN  [uid |-> row.uid, credited |-> row.credited,
                 discredited |-> row.discredited]]
RegisterBallots ==
    {b \in {BallotOf(q) : q \in BallotRows} :
       \A r \in Behind : <<b[1], b[2]>> # <<call[r].chart, call[r].uid>>}
      \cup {Ballot(r) : r \in Behind}
RegisterStanding == [u \in Users |-> reputation[u] - Prepaid(u)]

Register == INSTANCE DiscoveryRegister WITH
    VoteLimit <- Cardinality(Requests), register <- RegisterRows,
    ballots <- RegisterBallots, standing <- RegisterStanding

\* what marks an empty row of the table marks one of the register
NoRowIsNoEntry == NoRow \notin Register!Entry

\* Serially and without faults each view and each vote is atomic: one
\* discoverer a chart, no vote lost, one ballot a voter.  A vote on a chart
\* nobody has discovered changes nothing that a view shows.
ImplementsRegister == Register!RegisterSpec
=============================================================================
