SPECIFICATION Spec
CONSTANTS
    Thread = {t1, t2, t3}
    NoThread = NoThread
    Event = {e1}
    NCPUS = 1
    MaxStop = 1
    MaxHold = 2
    Workload <- OneCpuWorkload
SYMMETRY Symmetry
CHECK_DEADLOCK FALSE
INVARIANTS NoPanic TimerBelongsToWait StoppedWhileExamined HaltedAtCleanPoint DeadIsForgotten
 
