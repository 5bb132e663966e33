\* A period of four days.
CONSTANTS
    t1 = t1  t2 = t2
    Tables = {t1, t2}
    NoTable = none
    Jobs = {j1}
    Series <- FewDays
SYMMETRY Symmetry
SPECIFICATION CorrelationsSpec
CHECK_DEADLOCK FALSE
INVARIANT RelevantDaysAreCounted
