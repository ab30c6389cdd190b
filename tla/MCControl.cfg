SPECIFICATION Spec
CONSTANTS
    Parts = {"hub", "rental", "billing"}
    Task = {a}
    MaxQueue = 1
    MaxBreaks = 1
    MaxStale = 1
    Node <- TwoNodes
    Model <- TwoModels
    Stands <- OnOwnNode
    Guarded = {}
    Owned = {}
    Rent <- TwoRents
    Size <- Sizes
    Spare <- OneSpare
    Drop = {d}
    MayRefuse = TRUE
    MaxCrashes = 0
    Bill = {"t"}
    Trains = {"t"}
    Devices <- TwoCards
    Prices = {1, 3}
    TicksPerHour = 2
    MaxClock = 3
    MaxChanges = 2
    MaxAnswers = 1
CHECK_DEADLOCK FALSE
INVARIANTS
    
    RentedNeverYields
    
PROPERTY BillsAreFinal
