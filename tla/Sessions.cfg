CONSTANTS
    LastEntry = 1
    Duration <- MCDuration
    Unknown = Unknown
    MaxGrace = 3
    Samples = {1, 8, 12, 19}
    Operations <- AllOperations
    Requests = {q0}
    Overlapping = {q1, q2}
    MaxCount = 2
SPECIFICATION SessionsSpec
SYMMETRY Symmetry
INVARIANTS CompletedOnce AdvancesMatchPosition
PROPERTIES NewerPositionRetained PlayCountedOnCompletion CompletionSurvivesOverlap
CHECK_DEADLOCK FALSE
