SPECIFICATION FairSpec
CONSTANTS
    Parts = {"hub", "rental"}
    Task = {a}
    MaxQueue = 1
    MaxBreaks = 1
    MaxStale = 0
    Node <- TwoNodes
    Model <- OneModel
    Stands <- OnOwnNode
    Guarded = {}
    Owned <- FirstModel
    Rent <- OneRent
    Size <- OfTwo
    Spare <- OneSpare
    Drop = {d}
    MayRefuse = TRUE
    MaxCrashes = 1
    Bill = {}
    Trains = {}
    Devices <- TwoCards
    Prices = {}
    TicksPerHour = 1
    MaxClock = 0
    MaxChanges = 0
    MaxAnswers = 0
CHECK_DEADLOCK FALSE
PROPERTIES
    RecordsSettle
    
