SPECIFICATION MCSpec
CONSTANTS
    Task = {t1, t2}
    Root = t1
    Value = {1}
    MaxObject = 4
    Programs <- MCSpanPrograms
    SpanProtect = TRUE
INVARIANT WritablePagesPrivate
CHECK_DEADLOCK FALSE
