SPECIFICATION Spec
CONSTANTS
    Parts = {"pipeline", "ray", "cut", "weights"}
    Box = {1, 2, 3}
    Depths = {2, 7}
    Amounts = {1, 3}
    MaxCards = 3
    Layers = 3
    Towers = {0, 2, 4}
    Request = {"r1", "r2"}
    Length <- Prompts
    Seats = {1}
    MaxBatchTokens = 7
    Want = 2
    MaxFaults = 1
    Card = {1, 2}
    Asked = 2
    MaxLen = 6
    BlockSize = 2
    Budgets = {5, 7, 12}
    Rooms = {5, 7, 12}
    Size = 3
    Host <- Machines
    Leftovers <- Remains
    MaxDeaths = 1
CHECK_DEADLOCK FALSE
INVARIANTS
    NoBlockIsLost
    
    WholeOrNothing
    NeighbourSpared
    RoomIsHeeded
    
    PartIsEnough
PROPERTY
    TokensInStep
