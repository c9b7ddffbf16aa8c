SPECIFICATION Spec
CONSTANTS
    Size = 2
    Writers = {w1, w2}
    Readers = {r1}
    Waiters = {}
    NoThread = NoThread
    MaxLen = 3
    MaxBytes = 3
SYMMETRY Symmetry
INVARIANTS TypeOK RingHoldsStream CallsContiguous ShortOnlyIfCancelled
PROPERTY ImplementsFifo
