\* Three requests one after the other, no faults.
CONSTANTS
    Nobody = nobody
    Requests = {r1, r2, r3}
    NoRow = NoRow
    Workers = 1
    Faulty = {}
    Users = {u1, u2}
    TableCharts = {t1}
    Correlated = {c1}
    NoChart = nochart
    Zero = zero
    Outsiders = {}
    Authors = {a1, a2}
    Seeded = {o1}
    Operations = {"credit", "comment", "flag", "delete"}
SYMMETRY Symmetry
SPECIFICATION SerialSpec
CHECK_DEADLOCK FALSE
PROPERTIES ImplementsLedger ImplementsRegister
