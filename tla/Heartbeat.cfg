CONSTANTS
    BatchSize = 3
    RecoveryStreak = 2
    AttemptsPerSecond = 2
    MaxAttempts = 6
    MaxDbFailures = 1
    MaxObserved = 1
SPECIFICATION Spec
INVARIANTS TypeOK LostOnlyAtTheEnd DetectionMatchesHistory LabelledForward RecoveryIsItsOwn
CHECK_DEADLOCK FALSE
