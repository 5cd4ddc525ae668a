CONSTANTS
    Registry <- TwoCombos
    Filters <- FilterChoices
    Skips <- SkipChoices
    ScenarioLists <- RepeatedOrAll
    Outcomes <- SomeOutcomes
    MaxStrays = 1
SPECIFICATION Spec
INVARIANTS TypeOK StacksAccounted SessionsAreOwn BatchReportPairs DbReportPairs SessionReportCharts
CHECK_DEADLOCK FALSE
