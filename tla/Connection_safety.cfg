\* One call of connect_point; its repeated SYN can be accepted twice, and
\* either side sends one byte and closes when it likes.
CONSTANTS
    a = a
    b = b
    Points = {a, b}
    Clients = {a}
    Senders = {a}
    MaxCalls = 1
    MaxIsn = 3
    MaxData = 1
    MaxNet = 2
SPECIFICATION Spec
INVARIANTS
    TypeOK
    ClientHasServer
    OrderlyClose
CHECK_DEADLOCK FALSE
