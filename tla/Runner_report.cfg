CONSTANTS
    Scenarios = {"takeOut", "all"}
    Iterations = 2
    GenerateReport = TRUE
    Batch = 2
    Enough = 0
    Truncation = 1
    MaxAttempts = 3
SPECIFICATION Spec
INVARIANT ReportGenerated
CHECK_DEADLOCK FALSE
