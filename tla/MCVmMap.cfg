SPECIFICATION MCSpec
CONSTANTS
    Task = {t1, t2}
    Root = t1
    Value = {1}
    MaxObject = 4
    Programs <- MCPrograms
    SpanProtect = FALSE
CHECK_DEADLOCK FALSE
INVARIANTS MapInv MappingsAgree WritablePagesPrivate
PROPERTIES ImplementsAddrSpace
