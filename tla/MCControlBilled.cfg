SPECIFICATION Spec
CONSTANTS
    Parts = {"rental"}
    Task = {a}
    MaxQueue = 1
    MaxBreaks = 1
    MaxStale = 0
    Node <- OneNode
    Model = {}
    Stands <- OnOwnNode
    Guarded = {}
    Owned = {}
    Rent <- OneRent
    Size <- OfOne
    Spare <- OneSpare
    Drop = {d}
    MayRefuse = FALSE
    MaxCrashes = 0
    Bill = {}
    Trains = {}
    Devices <- TwoCards
    Prices = {}
    TicksPerHour = 1
    MaxClock = 0
    MaxChanges = 0
    MaxAnswers = 0
CHECK_DEADLOCK FALSE
INVARIANT RunningIsBilled
