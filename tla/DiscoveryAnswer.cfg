\* The first view of a correlated chart, by one request alone.
CONSTANTS
    Users = {u1, u2}
    Nobody = nobody
    TableCharts = {}
    Correlated = {c1}
    NoChart = nochart
    Requests = {r1}
    NoRow = NoRow
    Zero = zero
    Outsiders = {u1}
    Workers = 1
    Faulty = {}
SPECIFICATION Spec
CHECK_DEADLOCK FALSE
INVARIANT AnswersNameTheirRow
