SPECIFICATION TunnelSpec
CONSTANTS
    Opener = {"T1"}
    Conn = {"d1", "d2"}
    PortsOf <- OpenedPorts
    PortOf <- Dialled
    CarriedFor <- ForTheirs
    Outside = {"d2"}
    MaxConns = 1
    Phrases = 2
    MaxFailures = 1
CHECK_DEADLOCK FALSE
INVARIANT
    DeadEntriesAreClosed
