\* Two requests at a time, either of which may fail at any statement.
CONSTANTS
    Names = {n1, n2}
    Addresses = {a1, a2}
    Words = {w1, w2}
    None = none
    Unguessed = unguessed
    Requests = {r1, r2}
    Earlier = earlier
    Bonus = 5
    Workers = 2
    Faulty = {r1, r2}
SYMMETRY Symmetry
SPECIFICATION Spec
CHECK_DEADLOCK FALSE
INVARIANTS
    AddressesAreUnique
    RowsAreExplained
    TokensAreSpentOnce
    AnswersMatchSessions
