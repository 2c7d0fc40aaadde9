SPECIFICATION Spec
CONSTANTS
    Modes = {"memory", "postgres"}
    Calls = {1, 2, 3, 5, 6}
    Key <- MCKey
    Ts <- MCTs
    IDOf <- MCIDOf
    CooldownWindowMs = 3
    EventLimit = 2
    MaxFailures = 1
    MaxRestarts = 1
INVARIANTS TypeOK NeighboursApart SeenIsNewest VisibleOnce
CHECK_DEADLOCK FALSE
