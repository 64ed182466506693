CONSTANTS
    j1 = j1
    j2 = j2
    Process = {1, 2}
    None = None
    Job = {j1, j2}
    MaxJobs = 2
    Workers = 1
    Batch = 1
    Scene <- EarlyScenes
SPECIFICATION Spec
INVARIANT RecoverySparesFreshWork
CHECK_DEADLOCK FALSE
