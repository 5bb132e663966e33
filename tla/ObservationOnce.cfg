\* Two identical votes race past the look-up for an earlier credit.
CONSTANTS
    Users = {u1, u2}
    Nobody = nobody
    Seeded = {o1}
    Requests = {r1, r2}
    NoRow = NoRow
    Operations = {"credit"}
    Workers = 2
    Faulty = {}
SYMMETRY Symmetry
SPECIFICATION Spec
CHECK_DEADLOCK FALSE
INVARIANT CreditedOnlyOnce
