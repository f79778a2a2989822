SPECIFICATION FairSpec
CONSTANTS
    Threads = {t1, t2, t3, t4}
    maxReaders = 3
INVARIANTS
    Exclusion
    NobodyForgotten
PROPERTY LockGranted
