\* The accepting side sends a byte as soon as it is connected.
CONSTANTS
    a = a
    b = b
    Points = {a, b}
    Clients = {a}
    Senders = {b}
    MaxCalls = 1
    MaxIsn = 2
    MaxData = 1
    MaxNet = 8
SPECIFICATION FairSpec
PROPERTY
    ConnectCompletes
CHECK_DEADLOCK FALSE
