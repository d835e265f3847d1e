\* A thread of the transport layer and the route thread are both in net_send.
CONSTANTS
    MAX_SEND_WAITING = 2
    Senders = {transport, route}
    Forwarders = {}
    MaxCalls = 1
    MaxRestarts = 0
SPECIFICATION Spec
INVARIANT WholeItems
CHECK_DEADLOCK FALSE
