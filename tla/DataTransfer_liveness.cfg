\* A window of two bytes, which the first segment fills, so that the third byte
\* waits until in_seq has moved the window; small enough for the fairness of
\* every thread and datagram.  Either side of the connection sends.
CONSTANTS
    MAX_SEQ_NUM = 20
    MAX_SEGMENT_SIZE = 2
    MessageSizes = {0, 2, 3}
    window_size = 2
    Isn = 3
    RecvSizes = {3}
    MaxBytes = 3
SPECIFICATION FairSpec
PROPERTIES
    EverythingArrives
    SendPointUnblocked
