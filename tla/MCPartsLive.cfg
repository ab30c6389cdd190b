SPECIFICATION Spec
CONSTANTS
    File <- InputFiles
    Pieces = 2
    Top = 2
    Qualities = {"good", "crash"}
    MaxPublish = 3
    MaxKills = 2
    Peer = {"a", "b"}
    Attempts = 3
    MaxFalls = 1
    MaxRestarts = 2
    Ticket = {"r1", "r2", "r3"}
    Place = {"m", "n"}
    Size <- TicketSizes
    Spoilt = {"r3"}
    Base = 200
    Stride = 20
    WindowEnd = 420
    FirstWorker = 8
    ClientPorts = 6
    RayFirst = 270
    RayLast = 300
    MaxSize = 6
    MaxHash = 20
    Stages = 3
    Steps = 2
    Micros = 2
    MaxPings = 2
    MaxUpsets = 1
    Viewer = {"sweep", "page"}
    MaxBreaks = 1
CHECK_DEADLOCK FALSE
INVARIANTS
    InputIsWhole
    OneClusterATicket
    NobodyCollides
    TrainedAlike
    
PROPERTIES
    BackwardsOnlyByRollback
    
    
    TicketsEnd
    TrainingEnds
    SweepCloses
