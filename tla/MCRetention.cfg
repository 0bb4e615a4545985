SPECIFICATION Spec
CONSTANTS
    Keys = {1}
    Life = 1
    Buffer = 264
    Every = 12
    Deadline = 288
    MaxTime = 400
INVARIANT HardBound
CHECK_DEADLOCK FALSE
