\* Three nodes and three calls of their scripts, any of which may fail, be cut
\* off or be repeated.
CONSTANTS
    Nodes = {n1, n2, n3}
    Requests = {r1, r2, r3}
    None = None
SYMMETRY Symmetry
SPECIFICATION Spec
CHECK_DEADLOCK FALSE
INVARIANTS
    NoDuplicates
    MembersAreListed
    ConfigurationFollows
PROPERTY NeverEmptied
