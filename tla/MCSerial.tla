------------------------------ MODULE MCSerial ------------------------------
(***************************************************************************)
(* The handlers of charts and those of observations, one request at a      *)
(* time, against what each of them implements.  They are checked side by   *)
(* side, one in each behaviour, and the other stays as it is at first.     *)
(* What belongs to observations, beside the requests, has names of its own.*)
(***************************************************************************)
EXTENDS DiscoverySerial, TLC

CONSTANTS Authors, Seeded, Operations    \* of ObservationCredits

VARIABLES
    part,
    observations, standing, votes, acts, request, at, found, points, counted, paid

Observation == INSTANCE ObservationSerial WITH
    Users <- Authors, table <- observations, reputation <- standing, credits <- votes,
    activity <- acts, call <- request, pc <- at, copy <- found, seen <- points, saved <- counted

ASSUME EmptyIsEmpty == NoRowIsNoEntry /\ Observation!NoRowIsNoEntry

observationVars ==
    <<observations, standing, votes, acts, request, at, found, points, counted, paid>>
allVars == <<part, vars, observationVars>>

\* a component that stays as it is at first
IdleCharts ==
    /\ table = [d \in DiscoveredIds |-> NoRow]
    /\ \E u \in Users, c \in TableCharts :
         call = [r \in Requests |-> [op |-> "view", uid |-> u, chart |-> c]]
    /\ Init
IdleObservations ==
    /\ \E o \in Seeded : request = [r \in Requests |-> [op |-> "flag", oid |-> o]]
    /\ Observation!Init

SerialInit ==
    \/ part = "charts" /\ Init /\ IdleObservations
    \/ part = "observations" /\ Observation!Init /\ IdleCharts

SerialNext ==
    /\ UNCHANGED part
    /\ \/ part = "charts" /\ Next /\ UNCHANGED observationVars
       \/ part = "observations" /\ Observation!Next /\ UNCHANGED vars

SerialSpec == SerialInit /\ [][SerialNext]_allVars

\* users are interchangeable, and so are requests
Symmetry == Permutations(Users) \cup Permutations(Authors) \cup Permutations(Requests)

\* The handlers of observations implement the ledger (ObservationSerial); those
\* of charts implement the register (ImplementsRegister, of DiscoverySerial).
ImplementsLedger == Observation!ImplementsLedger
=============================================================================
