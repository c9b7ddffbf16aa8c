SPECIFICATION Spec
CONSTANTS
    Callers = {owner}
    NoThread = NoThread
    Sender = Sender
    SenderWait = SenderWait
    Thread = Thread
    Size = 2
    MaxLen = 2
    MaxBytes = 3
    MaxPkg = 2
    BufSize = 2
    MaxMsg = 3
    ShortSend = FALSE
    SocketFails = TRUE
INVARIANTS TypeOK WriteNeverBlocks AtMostOnceInOrder WholeUntilDisturbed
PROPERTIES SendReleased CloseReturns
