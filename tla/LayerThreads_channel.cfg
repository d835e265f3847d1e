\* One service point, which may or may not be connected, and a send queue of
\* one slot, so that it is full again and again.  The host stops when the
\* point's recv_thread does.
CONSTANTS
    Points = {p}
    MAX_SEND_WAITING = 1
SPECIFICATION FairSpec
INVARIANTS
    TypeOK
    WholeFrames
PROPERTIES
    ImplementsChannel
    ListensOn
CHECK_DEADLOCK FALSE
