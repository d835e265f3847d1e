\* Two threads in net_send and the forwarding thread put three packets into a
\* ring of two slots, so that one waits and a slot is used again.  The bounded
\* calls end the run.
CONSTANTS
    MAX_SEND_WAITING = 2
    Senders = {transport, route}
    Forwarders = {recv}
    MaxCalls = 1
    MaxRestarts = 0
SPECIFICATION FairSpec
INVARIANTS
    TypeOK
    ForwardedWhole
PROPERTIES
    ImplementsQueue
    EverythingLeaves
CHECK_DEADLOCK FALSE
