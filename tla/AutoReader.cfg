SPECIFICATION Spec
CONSTANTS
    Callers = {c1, c2, c3}
    NoThread = NoThread
INVARIANTS TypeOK NoTerminate NoForgottenSleeper StoppedMeansJoined AtMostOneLateDelivery
PROPERTIES StopReturns ImplementsAsyncBase
