CONSTANTS
    BatchSize = 2
    MaxEvents = 4
    MaxFailures = 2
SPECIFICATION CallerFairSpec
INVARIANTS TypeOK NothingDropped OneCopyInMemory StopDrains
PROPERTIES ImplementsLog EventuallyStored StopReturns
CHECK_DEADLOCK FALSE
