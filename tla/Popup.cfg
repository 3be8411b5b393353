\* The anchored popup and the standalone window, with calls of their own.
SPECIFICATION Spec
CONSTANTS
    Windows = {"popup", "window"}
    Calls = {1, 2}
    MaxCalls = 2
    Modes = {"always", "tfa", "never"}
    MaxPair = 3
    MaxFaults = 1
CHECK_DEADLOCK FALSE
INVARIANT WaitsEnd
PROPERTIES DroppedForCause StaysLocked
