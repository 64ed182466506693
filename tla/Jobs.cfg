\* Two slots and one thread: an analysis waits behind another.
CONSTANTS
    j1 = j1
    j2 = j2
    Process = {1, 2}
    None = None
    Job = {j1, j2}
    MaxJobs = 2
    Workers = 1
    Batch = 1
    Scene <- Scenes
SPECIFICATION FairSpec
INVARIANTS TypeOK SlotsMatchHolders NoOrphan LateHttpSparesFreshWork
PROPERTIES TerminalIsFinal GracefulExitSettles AcceptedSettles
CHECK_DEADLOCK FALSE
