\* Four samples; Redis is up.
CONSTANTS
    Samples = {s1, s2, s3, s4}
    Blank = blank
    Failures = FALSE
SYMMETRY Symmetry
SPECIFICATION Spec
CHECK_DEADLOCK FALSE
INVARIANT NoSampleLost
