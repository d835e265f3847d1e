\* The program is killed with items in the queue and started again.
CONSTANTS
    MAX_SEND_WAITING = 2
    Senders = {transport}
    Forwarders = {}
    MaxCalls = 2
    MaxRestarts = 1
SPECIFICATION RestartSpec
INVARIANT RemovedAsInserted
CHECK_DEADLOCK FALSE
