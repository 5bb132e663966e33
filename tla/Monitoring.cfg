\* Three samples, whose appends race one another and the flush; Redis may fail,
\* but not forever.
CONSTANTS
    Samples = {s1, s2, s3}
    Blank = blank
    Failures = TRUE
SPECIFICATION FairSpec
CHECK_DEADLOCK FALSE
INVARIANTS
    TypeOK
    IndexedHasHash
    RemovalsInRange
PROPERTIES
    UndisturbedFlush
    EverySampleLeaves
