SPECIFICATION FairSpec
CONSTANTS
    Files <- MCFiles
    Keys = {"k"}
    Requests <- MCRequests
    Sent <- MCSent
    JobIds = {"j"}
INVARIANT LifeInv
INVARIANT ExitClosesSink
PROPERTY ServedAsConfigured
PROPERTY CleanExitCutsNothing
PROPERTY SignalEndsProcess
PROPERTY ImplementsProcess
