-------------------------- MODULE ObservationSerial --------------------------
(***************************************************************************)
(* One request at a time and no faults: the handlers implement the ledger. *)
(* A vote takes effect with the Save of the observation, a comment with    *)
(* its insertion, a removal with its DELETE; the reputation, written       *)
(* before a vote and a comment and after a removal, is set right for the   *)
(* request that is in between.                                             *)
(***************************************************************************)
EXTENDS ObservationCredits

\* paid, but its effect is still to come
PaidAhead == {r \in paid : pc[r] \in {"activity", "save"}}

\* took effect, but is still to be paid
PaidBehind == {r \in Requests : Op(r) = "delete" /\ pc[r] \in {"repRead", "repWrite"}}

Owed(u) == Sum({r \in PaidBehind : Beneficiary(r) = u})
             - Sum({r \in PaidAhead : Beneficiary(r) = u})

\* the ledger of a state of the handlers
LedgerRows ==
    [o \in ObservationIds |->
       IF table[o] = NoRow THEN NoRow
       ELSE [uid |-> table[o].uid, credited |-> table[o].credited,
             discredited |-> table[o].discredited, flagged |-> table[o].flagged]]
LedgerBorn == Seeded \cup {r \in Requests : Op(r) = "comment" /\ pc[r] = "done"}
LedgerVotes == {<<call[r].uid, call[r].oid, call[r].credflag>> : r \in saved}
LedgerStanding == [u \in Users |-> reputation[u] + Owed(u)]

Ledger == INSTANCE ObservationLedger WITH
    rows <- LedgerRows, born <- LedgerBorn,
    votes <- LedgerVotes, standing <- LedgerStanding

\* what marks an empty row of the table marks one of the ledger
NoRowIsNoEntry == NoRow \notin Ledger!Entry

\* Serially and without faults every handler is atomic: one vote a user,
\* observation and direction, no vote, flag or point lost, no half-done
\* deletion.
ImplementsLedger == Ledger!LedgerSpec
=============================================================================
