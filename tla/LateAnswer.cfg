SPECIFICATION DialogSpec
CONSTANTS
    MaxClicks = 3
    Timeout = 2
CHECK_DEADLOCK FALSE
INVARIANTS AcceptedIsConnected
