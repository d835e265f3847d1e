\* Two hosts use their menus, also on hosts they have no link to; a link that is
\* disabled, or enabled where there is none, excuses the liveness after it.
CONSTANTS
    N = 3
    Topology <- Row
    COST_MODULUS = 256
    Dests = {3}
    Menu = {1, 2}
    MaxChanges = 2
    MaxNet = 1
SPECIFICATION FairSpec
INVARIANTS
    TypeOK
    CostIsDistance
    RoutesDescend
    LoopFree
PROPERTY
    ShortestInTheEnd
