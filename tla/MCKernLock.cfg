SPECIFICATION FairSpec
CONSTANTS
    Thread = {t1, t2, t3}
    NoThread = NoThread
    SpinFirst = TRUE
    MaxNest = 2
    Liberties = {}
INVARIANTS LockInv
PROPERTIES ImplementsRWLock WriterGetsLock UpgradeCompletes SleepersWake
