SPECIFICATION SpecReaders
CONSTANTS
    Base = 2
    Payload = {0, 1}
    MaxLen = 3
    MaxMsgs = 2
    FrameSize = 2
    BufSize = 2
CHECK_DEADLOCK FALSE
INVARIANTS TypeOK DeliversMessages NothingHeldBack FramesDelivered
