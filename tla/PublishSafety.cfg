CONSTANTS
    Process = {p1, p2}
    Run = {r1, r2}
    None = None
SPECIFICATION Spec
SYMMETRY Symmetry
INVARIANTS TypeOK PublishedOnce SuccessIsEarned  
CHECK_DEADLOCK FALSE
