\* Segments of 2 and 1 bytes fill a window of 3; no sequence number wraps.
CONSTANTS
    MAX_SEQ_NUM = 100
    MAX_SEGMENT_SIZE = 2
    MessageSizes = {0, 2, 3}
    window_size = 3
    Isn = 4
    RecvSizes = {3}
    MaxBytes = 5
SPECIFICATION Spec
INVARIANTS
    TypeOK
    InOrderDelivery
    AckedIsHeld
    UnackedWithinWindow
    UnackedAcceptable
    IInv
PROPERTIES
    ResendUntilHeld
    ImplementsStream
