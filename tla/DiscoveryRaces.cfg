\* Three requests for one chart, a table's or a correlated one, interleaved
\* statement by statement; any statement of the third may fail.
CONSTANTS
    Users = {u1, u2}
    Nobody = nobody
    TableCharts = {t1}
    Correlated = {c1}
    NoChart = nochart
    Requests = {r1, r2, r3}
    NoRow = NoRow
    Zero = zero
    Outsiders = {}
    Workers = 3
    Faulty = {r3}
SYMMETRY Symmetry
SPECIFICATION RacesSpec
CHECK_DEADLOCK FALSE
INVARIANTS
    TypeOK
    CountersNeverOverstate
    CreditsAreCounted
    OrphansHaveOneVote
    AnswersAreEarned
PROPERTIES
    DiscoveryIsForGood
    OnlyOwnVoteTurns
