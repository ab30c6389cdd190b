SPECIFICATION Spec
CONSTANTS
    Parts = {"pipeline", "ray"}
    Box = {1}
    Depths = {1}
    Amounts = {1}
    MaxCards = 1
    Layers = 1
    Towers = {0}
    Request = {"r1", "r2"}
    Length <- Prompts
    Seats = {1}
    MaxBatchTokens = 7
    Want = 2
    MaxFaults = 1
    Card = {1, 2}
    Asked = 2
    MaxLen = 6
    BlockSize = 2
    Budgets = {12}
    Rooms = {12}
    Size = 2
    Host <- TwoMachines
    Leftovers <- Remains
    MaxDeaths = 1
CHECK_DEADLOCK FALSE
PROPERTIES
    EveryTicketEnds
    StopIsHeeded
