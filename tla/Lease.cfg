\* DbErrors: every failure of the model; the wait thread may die.
CONSTANTS
    Process = {p1, p2}
    Txn = {t1, t2}
    None = None
    LeaseWait = TRUE
    DbErrors = TRUE
SPECIFICATION FairSpec
INVARIANTS TypeOK OnlyWriterInBody
PROPERTIES WaitersSettle FencedWriterSpec
CHECK_DEADLOCK FALSE
