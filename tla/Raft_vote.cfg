\* A voter that crashes and recovers within a term.
CONSTANTS
    Node = {n1, n2, n3}
    Message = {m1}
    None = None
    MaxTerm = 1
    MaxLog = 1
    MaxFaulty = 1
SPECIFICATION Spec
INVARIANTS ElectionSafety
SYMMETRY Symmetry
VIEW View
CHECK_DEADLOCK FALSE
