\* A packet of 28 is cut in two, and its first piece in three by the router, one
\* of 10 is not cut; the largest MTU is that of a link elsewhere;
\* two datagrams are lost, repeated or swapped, on either link.  The bound on
\* packets ends the run.
CONSTANTS
    Sources = {a, b}
    Sizes = {10, 28}
    FirstMtu = 47
    SecondMtu = 31
    MaxMtu = 64
    ID_MODULUS = 2
    MaxPackets = 2
    MaxFaults = 2
SYMMETRY SourceSymmetry
SPECIFICATION Spec
INVARIANTS
    TypeOK
    NeverMixed
    DeliveredIntact
    NeverStops
    AllHandedUp
CHECK_DEADLOCK FALSE
