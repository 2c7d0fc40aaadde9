SPECIFICATION Spec
CONSTANTS
    Modes = {"postgres"}
    Calls = {1, 2}
    Key <- MCKey
    Ts <- MCTs
    IDOf <- MCIDOf
    CooldownWindowMs = 3
    EventLimit = 3
    MaxFailures = 1
    MaxRestarts = 0
INVARIANTS SuppressedHasOriginal
CHECK_DEADLOCK FALSE
