SPECIFICATION FairSpec
CONSTANTS
    Thread = {t1, t2}
    NoThread = NoThread
    Event = {e1}
    NCPUS = 1
    MaxStop = 1
    MaxHold = 2
    Workload <- LiveWorkload
CHECK_DEADLOCK FALSE
PROPERTIES OperationsReturn DyingIsDestroyed
