SPECIFICATION Spec
CONSTANTS
    Thread = {t1, t2}
    NoThread = NoThread
    Event = {e1}
    NCPUS = 2
    MaxStop = 1
    MaxHold = 2
    Workload <- TwoCpuWorkload
SYMMETRY Symmetry
CHECK_DEADLOCK FALSE
INVARIANTS ThreadInv HoldsInv
