SPECIFICATION Spec
CONSTANTS
    A1 = A1
    A2 = A2
    c1 = c1
    c2 = c2
    c3 = c3
    k1 = k1
    k2 = k2
    Agent = {A1, A2}
    Caller = {c1, c2, c3}
    Key = {k1, k2}
    Home <- CacheHome
    Wants <- CacheWants
    NoOne = NoOne
    Quota = 1
    MaxCrashes = 1
    Task = {"a", "b", "c", "d"}
    Host = {"m", "n"}
    Wanted <- CardsWanted
    Cards <- CardsOfHost
    Job <- Submissions
    Named = {"d"}
    MaxInFlight = 1
    User = {u1, u2}
    Pieces = 3
    MaxBreaks = 1
    Msgs = 2
    Depth = 1
    Slack = 1
    MaxTurns = 1
    Opener = {"T1"}
    Conn = {"d1", "d2"}
    PortsOf <- OpenedPorts
    PortOf <- Dialled
    CarriedFor <- ForTheirs
    Outside = {"d2"}
    MaxConns = 1
    Phrases = 2
    MaxFailures = 1
    Node <- ThreeNodes
    Group <- ThreeGroups
    Needs = {0, 2, 3}
    Times = {1, 2}
    Roles = {"model", "protected"}
CHECK_DEADLOCK FALSE
INVARIANTS
    BuiltOnce
    
    AnswersDoNotCross
    OrderOnOnePath
    
    PlanSuffices
    RefusalIsJust

    
