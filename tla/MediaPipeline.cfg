SPECIFICATION Spec
CONSTANTS
    Callers = {owner}
    Owner = owner
    NoThread = NoThread
    Size = 4
    PerRead = 4
INVARIANTS TypeOK NoLostWakeup
PROPERTY StopsReturn
