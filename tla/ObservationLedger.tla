-------------------------- MODULE ObservationLedger --------------------------
(***************************************************************************)
(* What the observation handlers promise when each one takes effect at     *)
(* once: one vote a user, observation and direction, counters that agree   *)
(* with the votes, and every point of reputation accounted for.            *)
(***************************************************************************)
EXTENDS Integers

CONSTANTS
    Users, Nobody,   \* the users, and the discoverer of an ownerless chart
    ObservationIds,  \* ids an observation can have
    Seeded,          \* the observations that exist at the start
    NoRow            \* no such observation

VARIABLES
    rows,       \* id -> author, counters, flag
    born,       \* ids handed out so far
    votes,      \* the votes ever cast: <<user, id, direction>>
    standing    \* user -> reputation

ledger == <<rows, born, votes, standing>>

Entry == [uid : Users, credited : Nat, discredited : Nat, flagged : BOOLEAN]

NewEntry(u) == [uid |-> u, credited |-> 0, discredited |-> 0, flagged |-> FALSE]

LedgerTypeOK ==
    /\ rows \in [ObservationIds -> Entry \cup {NoRow}]
    /\ born \subseteq ObservationIds
    /\ votes \subseteq Users \X ObservationIds \X BOOLEAN
    /\ standing \in [Users -> Int]

LedgerInit ==
    /\ \E author \in [Seeded -> Users] :
         rows = [o \in ObservationIds |->
                   IF o \in Seeded THEN NewEntry(author[o]) ELSE NoRow]
    /\ born = Seeded
    /\ votes = {}
    /\ standing = [u \in Users |-> 0]

Pay(u, points) ==
    standing' = [w \in Users |-> standing[w] + IF w = u THEN points ELSE 0]

Cast(row, up) ==
    IF up THEN [row EXCEPT !.credited = @ + 1] ELSE [row EXCEPT !.discredited = @ + 1]

Vote(u, o, up) ==
    /\ rows[o] # NoRow /\ rows[o].uid # u
    /\ <<u, o, up>> \notin votes
    /\ votes' = votes \cup {<<u, o, up>>}
    /\ rows' = [rows EXCEPT ![o] = Cast(@, up)]
    /\ Pay(rows[o].uid, IF up THEN 5 ELSE -1)
    /\ UNCHANGED born

Comment(u, o, discoverer) ==
    /\ o \notin born
    /\ born' = born \cup {o}
    /\ rows' = [rows EXCEPT ![o] = NewEntry(u)]
    /\ Pay(discoverer, 2)
    /\ UNCHANGED votes

Flag(o) ==
    /\ rows[o] # NoRow
    /\ rows' = [rows EXCEPT ![o].flagged = TRUE]
    /\ UNCHANGED <<born, votes, standing>>

Remove(o) ==
    /\ rows[o] # NoRow
    /\ rows' = [rows EXCEPT ![o] = NoRow]
    /\ Pay(rows[o].uid, -100)
    /\ UNCHANGED <<born, votes>>

LedgerNext ==
    \E o \in ObservationIds :
        \/ \E u \in Users, up \in BOOLEAN : Vote(u, o, up)
        \/ \E u \in Users, d \in Users \cup {Nobody} : Comment(u, o, d)
        \/ Flag(o) \/ Remove(o)

LedgerSpec == LedgerInit /\ [][LedgerNext]_ledger
=============================================================================
