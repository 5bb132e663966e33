\* Three requests of any kind, interleaved statement by statement; any statement
\* of the third may fail, and the node that handles it may die.
CONSTANTS
    Users = {u1, u2}
    Nobody = nobody
    Seeded = {o1}
    Requests = {r1, r2, r3}
    NoRow = NoRow
    Operations = {"credit", "comment", "flag", "delete"}
    Workers = 3
    Faulty = {r3}
SYMMETRY Symmetry
SPECIFICATION Spec
CHECK_DEADLOCK FALSE
INVARIANTS
    TypeOK
    CountersNeverOverstate
    VoteLeavesTrace
    RatingIsCurrent
    NoSelfVotes
    WritesInOrder
    ReputationIsExplained
    FinedObservationIsGone
PROPERTY OnlyInsertCreates
