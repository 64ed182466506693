CONSTANTS
    Process = {p1, p2}
    Txn = {t1}
    None = None
    LeaseWait = TRUE
    DbErrors = TRUE
SPECIFICATION FairSpec
PROPERTIES ReplacementSettles
CHECK_DEADLOCK FALSE
