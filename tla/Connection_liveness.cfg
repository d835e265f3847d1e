\* No data; the SYN is accepted once.  MaxNet is never reached.
CONSTANTS
    a = a
    b = b
    Points = {a, b}
    Clients = {a}
    Senders = {}
    MaxCalls = 1
    MaxIsn = 2
    MaxData = 0
    MaxNet = 8
SPECIFICATION FairSpec
PROPERTIES
    ConnectCompletes
    ClientCloses
CHECK_DEADLOCK FALSE
