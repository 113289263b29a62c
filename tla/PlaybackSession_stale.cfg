CONSTANTS
    LastEntry = 1
    Duration <- MCDuration
    Unknown = Unknown
    MaxGrace = 3
    Samples = {8, 12, 19}
    Operations <- PlayerOperations
    Requests = {q1, q2}
    MaxCount = 2
SPECIFICATION Spec
CHECK_DEADLOCK FALSE
SYMMETRY Symmetry
PROPERTY NewerPositionRetained
