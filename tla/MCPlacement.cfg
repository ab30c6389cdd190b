SPECIFICATION PlaceSpec
CONSTANTS
    Task = {"a", "b", "c", "d"}
    Host = {"m", "n"}
    Wanted <- CardsWanted
    Cards <- CardsOfHost
    Job <- Submissions
    Named = {"d"}
    MaxInFlight = 1
CHECK_DEADLOCK FALSE
INVARIANT FreeCardsAreOffered
