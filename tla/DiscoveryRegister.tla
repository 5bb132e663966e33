-------------------------- MODULE DiscoveryRegister --------------------------
(***************************************************************************)
(* What the chart handlers promise when each one takes effect at once: the *)
(* first viewer of a chart is its discoverer for good, every vote on a     *)
(* discovered chart is counted and pays its discoverer, and a ballot holds *)
(* the direction of each voter's last vote.                                *)
(***************************************************************************)
EXTENDS Integers

CONSTANTS
    Users,
    Charts,
    NoRow,      \* a chart nobody has discovered
    VoteLimit   \* bound: votes counted for a chart in one direction

VARIABLES
    register,   \* chart -> its discoverer and counters
    ballots,    \* the last vote of each voter: <<chart, user, direction>>
    standing    \* user -> reputation

entries == <<register, ballots, standing>>

Entry == [uid : Users, credited : Nat, discredited : Nat]

First(u) == [uid |-> u, credited |-> 0, discredited |-> 0]

RegisterTypeOK ==
    /\ register \in [Charts -> Entry \cup {NoRow}]
    /\ ballots \subseteq Charts \X Users \X BOOLEAN
    /\ standing \in [Users -> Int]

RegisterInit ==
    /\ register \in [Charts -> {First(u) : u \in Users} \cup {NoRow}]
    /\ ballots = {}
    /\ standing = [u \in Users |-> 0]

Discover(u, c) ==
    /\ register[c] = NoRow
    /\ register' = [register EXCEPT ![c] = First(u)]
    /\ UNCHANGED <<ballots, standing>>

Count(entry, up) ==
    IF up THEN [entry EXCEPT !.credited = @ + 1] ELSE [entry EXCEPT !.discredited = @ + 1]

\* the ballots with u's latest vote on c
Recast(u, c, up) == (ballots \ {<<c, u, ~up>>}) \cup {<<c, u, up>>}

Vote(u, c, up) ==
    /\ register[c] # NoRow
    /\ (IF up THEN register[c].credited ELSE register[c].discredited) < VoteLimit
    /\ register' = [register EXCEPT ![c] = Count(@, up)]
    /\ ballots' = Recast(u, c, up)
    /\ standing' = [standing EXCEPT ![register[c].uid] = @ + IF up THEN 15 ELSE -2]

RegisterNext ==
    \E u \in Users, c \in Charts :
        \/ Discover(u, c)
        \/ \E up \in BOOLEAN : Vote(u, c, up)

RegisterSpec == RegisterInit /\ [][RegisterNext]_entries
=============================================================================
