SPECIFICATION FairSpec
CONSTANTS
    Task = {a, b}
    Gpus <- MCGpus
    Wants <- MCWants
    KillIsPrompt = TRUE
    MaxRestarts = 1
    MaxRescans = 1
CHECK_DEADLOCK FALSE
INVARIANTS
    NoSharedCard
    LeasesMatch
    DirectoryOutlivesProcess
    NothingRunsUncounted
PROPERTY
    TakenComesBack
