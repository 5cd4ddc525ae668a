SPECIFICATION Spec
CONSTANTS
    Kinds = {"ok", "fail", "deleted", "promoted", "promoteAsked", "ready", "primaryUp", "replicaUp", "down"}
    WindowBefore = 2
    WindowAfter = 3
    WindowShort = 2
    TimelinePad = 1
    TimelineCap = 2
    SpanLimit = 3
    RowLimit = 2
    KillTimes = {0, 1}
    MaxRows = 5
INVARIANTS
    TypeOK
    OneOutageAgreement
    ViewUnderstatesFlapping
    ChartTotalIsDowntime
    OutagesAreShown
    WaterfallMatchesMilestones
PROPERTIES
    MeasuresSettle
CHECK_DEADLOCK FALSE
