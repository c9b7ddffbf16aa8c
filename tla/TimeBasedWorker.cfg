SPECIFICATION TimerSpec
CONSTANTS
    Callers = {c1, c2}
    NoThread = NoThread
INVARIANTS TimerTypeOK AtMostOneLateTick
PROPERTIES TimerStopReturns KeepsTicking TimerImplementsAsyncBase
