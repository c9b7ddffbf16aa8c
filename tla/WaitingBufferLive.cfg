SPECIFICATION FairSpec
CONSTANTS
    Size = 2
    Writers = {w1}
    Readers = {r1}
    Waiters = {t1}
    NoThread = NoThread
    MaxLen = 3
    MaxBytes = 3
INVARIANTS NoLostWakeup
PROPERTY WriteFinishes
