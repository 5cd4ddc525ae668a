SPECIFICATION Spec
CONSTANTS
    Kinds = {"ok", "fail"}
    WindowBefore = 2
    WindowAfter = 3
    WindowShort = 2
    TimelinePad = 1
    TimelineCap = 2
    SpanLimit = 4
    RowLimit = 4
    KillTimes = {0}
    MaxRows = 4
INVARIANTS
    DowntimeAsDocumented
CHECK_DEADLOCK FALSE
