\* A period of twenty days.
CONSTANTS
    t1 = t1  t2 = t2
    Tables = {t1, t2}
    NoTable = none
    Jobs = {j1}
    Series <- TwentyDays
SYMMETRY Symmetry
SPECIFICATION CorrelationsSpec
CHECK_DEADLOCK FALSE
INVARIANT TenBucketsAtMost
