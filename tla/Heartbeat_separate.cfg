CONSTANTS
    BatchSize = 6
    RecoveryStreak = 3
    AttemptsPerSecond = 2
    MaxAttempts = 7
    MaxDbFailures = 0
    MaxObserved = 0
SPECIFICATION Spec
INVARIANTS TrackedSeparately
CHECK_DEADLOCK FALSE
