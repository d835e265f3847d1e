------------------------------ MODULE Routing -------------------------------
(***************************************************************************)
(* The routing tables of the hosts: internalsendroute, which announces the *)
(* table of its host to the neighbours again and again, the threads of     *)
(* internalhandleroute, one for each announcement that arrives, the menu   *)
(* of the application, which disables and enables links, and               *)
(* hostreachable, which reads the table to choose the next hop.            *)
(*                                                                         *)
(* The entry of a table holds a cost and a gateway; 0 is INFINITE_ROUTE.   *)
(* An announcement is in "net" from net_send until its thread has the      *)
(* table's mutex: it may be delayed, overtaken or lost.  A repeated one is *)
(* one announced twice.                                                    *)
(*                                                                         *)
(* Hosts are numbered from 1, and are fewer than MAX_HOSTS.  A process     *)
(* knows the links of the topology in an array; the array of another       *)
(* process is another array.                                               *)
(***************************************************************************)
EXTENDS Integers, FiniteSets, FiniteSetsExt

CONSTANTS N,           \* number of hosts
          Topology,    \* the links of the configuration file, as {a, b}
          COST_MODULUS,\* cost is a uint8_t: 256
          Dests,       \* bound: destinations whose entries are followed
          Menu,        \* bound: hosts whose menu is used
          MaxChanges,  \* bound: uses of the menu
          MaxNet       \* bound: announcements on the way over one link

Hosts == 1..N

ASSUME RoutingAssumption ==
    /\ N \in Nat
    /\ Topology \subseteq {l \in SUBSET Hosts : \E a, b \in Hosts : a # b /\ l = {a, b}}
    /\ COST_MODULUS \in Nat /\ N + 1 < COST_MODULUS
    /\ Dests \subseteq Hosts /\ Menu \subseteq Hosts /\ MaxChanges \in Nat /\ MaxNet \in Nat

INFINITE_ROUTE == 0
Cost     == 0..(COST_MODULUS - 1)
NoRoute  == [cost |-> INFINITE_ROUTE, gateway |-> INFINITE_ROUTE]
Entry    == [cost : Cost, gateway : Hosts \cup {INFINITE_ROUTE}]
Packet   == [to : Hosts, dest : Dests, cost : Cost, gateway : Hosts]
Nothing  == [to |-> 0]
FirstDest    == Min(Dests \cup {N + 1})
DestAfter(d) == Min({e \in Dests : e > d} \cup {N + 1})
Linked(h) == {g \in Hosts : {h, g} \in Topology}

VARIABLES
    routes,     \* each host's table
    neighbors,  \* each host's neighbours
    links,      \* the hosts each host can send to: getmtu is not -1
    started,    \* internalsendroute has entered its neighbours in the table
    serving,    \* the neighbour internalsendroute is sending the table to, 0
                \* while it sleeps
    numberhost, \* the entry it comes to next
    aux,        \* the packet it has read from the table and not sent
    net,        \* announcements on the way
    changes,    \* uses of the menu so far
    disabled,   \* history: a link has been disabled
    enabled     \* history: the links that have been enabled

vars == <<routes, neighbors, links, started, serving, numberhost, aux, net,
          changes, disabled, enabled>>

(* net_init: neighbors_init and fillallroutes.                             *)
Init ==
    /\ routes = [h \in Hosts |-> [d \in Dests |-> NoRoute]]
    /\ neighbors = [h \in Hosts |-> Linked(h)]
    /\ links = [h \in Hosts |-> Linked(h)]
    /\ started = [h \in Hosts |-> FALSE]
    /\ serving = [h \in Hosts |-> 0] /\ numberhost = [h \in Hosts |-> FirstDest]
    /\ aux = [h \in Hosts |-> Nothing]
    /\ net = {}
    /\ changes = 0 /\ disabled = FALSE /\ enabled = {}

-----------------------------------------------------------------------------
(* internalsendroute enters the neighbours and the host itself. *)
StartRoutes(h) ==
    /\ ~started[h]
    /\ started' = [started EXCEPT ![h] = TRUE]
    /\ routes' = [routes EXCEPT ![h] =
                    [d \in Dests |-> IF d \in neighbors[h] \cup {h}
                                     THEN [cost |-> 1, gateway |-> h]
                                     ELSE @[d]]]
    /\ UNCHANGED <<neighbors, links, serving, numberhost, aux, net, changes, disabled, enabled>>

(* The outer loop goes to the next neighbour.  It looks at neighbors once, *)
(* without the mutex, and then sends the whole table; after the last one   *)
(* internalsendroute sleeps and begins again.                              *)
Serve(h) ==
    LET rest == {n \in neighbors[h] : n > serving[h]}
    IN  /\ started[h] /\ aux[h] = Nothing
        /\ serving[h] = 0 \/ numberhost[h] > N
        /\ serving' = [serving EXCEPT ![h] = IF rest = {} THEN 0 ELSE Min(rest)]
        /\ numberhost' = [numberhost EXCEPT ![h] = FirstDest]
        /\ UNCHANGED <<routes, neighbors, links, started, aux, net, changes, disabled, enabled>>

(* The inner loop copies the next entry that has a route, under the mutex. *)
Copy(h, hops) ==
    /\ serving[h] # 0 /\ numberhost[h] <= N /\ aux[h] = Nothing
    /\ numberhost' = [numberhost EXCEPT ![h] = DestAfter(@)]
    /\ aux' = IF routes[h][numberhost[h]].cost = INFINITE_ROUTE THEN aux
              ELSE [aux EXCEPT ![h] =
                     [to |-> serving[h], dest |-> numberhost[h],
                      cost |-> (routes[h][numberhost[h]].cost + hops) % COST_MODULUS,
                      gateway |-> h]]
    /\ UNCHANGED <<routes, neighbors, links, started, serving, net, changes, disabled, enabled>>

ReadEntrySameCost(h) == Copy(h, 0)  \* variant: the hop to the neighbour is not counted
ReadEntry(h) == Copy(h, 1)

(* net_send, after the mutex is released: protocol 0 goes to the neighbour *)
(* itself and link_send refuses it when there is no MTU; it may be lost.   *)
SendRoute(h) ==
    /\ aux[h] # Nothing
    /\ Cardinality({m \in net : m.to = aux[h].to /\ m.gateway = h}) < MaxNet
    /\ aux' = [aux EXCEPT ![h] = Nothing]
    /\ net' \in {net} \cup (IF aux[h].to \in links[h] THEN {net \cup {aux[h]}} ELSE {})
    /\ UNCHANGED <<routes, neighbors, links, started, serving, numberhost,
                   changes, disabled, enabled>>

-----------------------------------------------------------------------------
(* internalhandleroute keeps a route that is new or cheaper. *)
Better(m) == LET old == routes[m.to][m.dest].cost
             IN  old = INFINITE_ROUTE \/ m.cost < old

HandleRouteAny(m) ==   \* variant: the last announcement wins
    /\ m \in net /\ net' = net \ {m}
    /\ routes' = [routes EXCEPT ![m.to][m.dest] = [cost |-> m.cost, gateway |-> m.gateway]]
    /\ UNCHANGED <<neighbors, links, started, serving, numberhost, aux,
                   changes, disabled, enabled>>
HandleRouteLess(m) ==  \* variant: INFINITE_ROUTE, which is 0, is not treated apart
    /\ m \in net /\ net' = net \ {m}
    /\ routes' = IF m.cost < routes[m.to][m.dest].cost
                 THEN [routes EXCEPT ![m.to][m.dest] =
                            [cost |-> m.cost, gateway |-> m.gateway]]
                 ELSE routes
    /\ UNCHANGED <<neighbors, links, started, serving, numberhost, aux,
                   changes, disabled, enabled>>
HandleRoute(m) ==
    /\ m \in net /\ net' = net \ {m}
    /\ routes' = IF Better(m)
                 THEN [routes EXCEPT ![m.to][m.dest] =
                            [cost |-> m.cost, gateway |-> m.gateway]]
                 ELSE routes
    /\ UNCHANGED <<neighbors, links, started, serving, numberhost, aux,
                   changes, disabled, enabled>>

-----------------------------------------------------------------------------
(* The menu takes any host for the other end of the link, also one that is *)
(* no neighbour, and the host itself.  config_link takes the numbers of    *)
(* the hosts for indices of the array, getmtu takes 1 from both: what      *)
(* changes for h is the link to h + 1, when r is h - 1, and otherwise no   *)
(* link of h.  A number as large as the array, or 0, would be written past *)
(* its end or before it: Hosts leaves both out.                            *)
ConfiguredLink(h, r) == IF r + 1 = h THEN {h + 1} \cap Hosts ELSE {}

DisableLinkMinus(h, r) == \* variant: marks the route with -1, as links does
    /\ changes < MaxChanges /\ started[h]
    /\ neighbors' = [neighbors EXCEPT ![h] = @ \ {r}]
    /\ routes' = [routes EXCEPT ![h] =
                    [d \in Dests |-> IF d = r \/ @[d].gateway = r
                                     THEN [cost |-> -1, gateway |-> -1] ELSE @[d]]]
    /\ links' = [links EXCEPT ![h] = @ \ ConfiguredLink(h, r)]
    /\ changes' = changes + 1 /\ disabled' = TRUE
    /\ UNCHANGED <<started, serving, numberhost, aux, net, enabled>>
DisableLink(h, r) ==
    /\ changes < MaxChanges /\ started[h]
    /\ neighbors' = [neighbors EXCEPT ![h] = @ \ {r}]
    /\ routes' = [routes EXCEPT ![h] =
                    [d \in Dests |-> IF d = r \/ @[d].gateway = r THEN NoRoute
                                                                  ELSE @[d]]]
    /\ links' = [links EXCEPT ![h] = @ \ ConfiguredLink(h, r)]
    /\ changes' = changes + 1 /\ disabled' = TRUE
    /\ UNCHANGED <<started, serving, numberhost, aux, net, enabled>>

EnableLink(h, r) ==
    /\ changes < MaxChanges /\ started[h]
    /\ neighbors' = [neighbors EXCEPT ![h] = @ \cup {r}]
    /\ routes' = [routes EXCEPT ![h] =
                    [d \in Dests |-> IF d = r THEN [cost |-> 1, gateway |-> r] ELSE @[d]]]
    /\ links' = [links EXCEPT ![h] = @ \cup ConfiguredLink(h, r)]
    /\ changes' = changes + 1 /\ enabled' = enabled \cup {{h, r}}
    /\ UNCHANGED <<started, serving, numberhost, aux, net, disabled>>

Announce(h) == StartRoutes(h) \/ Serve(h) \/ ReadEntry(h) \/ SendRoute(h)

Next == \/ \E h \in Hosts : Announce(h)
        \/ \E m \in net : HandleRoute(m)
        \/ \E h \in Menu : \E r \in Hosts : DisableLink(h, r) \/ EnableLink(h, r)

Spec == Init /\ [][Next]_vars

(* The threads run.  Announcements are lost, but of those a neighbour      *)
(* repeats for ever some arrive: this is asked of the hosts that are not   *)
(* neighbours themselves, whose routes come from announcements.            *)
Fairness ==
    \A h \in Hosts :
        /\ WF_vars(Announce(h))
        /\ \A g \in Linked(h) :
             /\ WF_vars(\E m \in net : m.to = h /\ m.gateway = g /\ HandleRoute(m))
             /\ \A d \in Dests \ (Linked(h) \cup {h}) :
                  SF_vars(/\ SendRoute(g) /\ net' # net
                          /\ aux[g].to = h /\ aux[g].dest = d)

FairSpec == Spec /\ Fairness

-----------------------------------------------------------------------------
(* hostreachable: the neighbour a packet for d goes to, 0 for none. *)
NextHop(h, d) == LET g == routes[h][d].gateway IN IF g = h THEN d ELSE g

(* What is reached from a in k steps of f, as a function of k. *)
Steps(f, a) == LET s[k \in Nat] == IF k = 0 THEN a ELSE f[s[k - 1]] IN s

(* The hosts at most k hops from h, as a function of k, in the network     *)
(* that has the links E as well.                                           *)
Near(E, h)   == {g \in Hosts : {h, g} \in Topology \cup E}
Spread(E)    == [S \in SUBSET Hosts |-> S \cup UNION {Near(E, g) : g \in S}]
Within(E, h) == Steps(Spread(E), {h})

(* The host a packet for d has reached k hops after h; it stops at d, and  *)
(* 0 stands for a host that has no route for it.                           *)
Forward(d) == [h \in Hosts \cup {0} |-> IF h \in {0, d} THEN h ELSE NextHop(h, d)]
Walk(h, d) == Steps(Forward(d), h)

TypeOK ==
    /\ routes \in [Hosts -> [Dests -> Entry]]
    /\ neighbors \in [Hosts -> SUBSET Hosts] /\ links \in [Hosts -> SUBSET Hosts]
    /\ started \in [Hosts -> BOOLEAN] /\ serving \in [Hosts -> Hosts \cup {0}]
    /\ numberhost \in [Hosts -> Dests \cup {N + 1}]
    /\ aux \in [Hosts -> Packet \cup {Nothing}] /\ net \subseteq Packet
    /\ changes \in 0..MaxChanges /\ disabled \in BOOLEAN
    /\ enabled \subseteq SUBSET Hosts

(* No table is better than the network: a host that has a route of cost c  *)
(* is at most c hops from the destination, and the host it sends to is at  *)
(* the other end of one of its own links.  Whatever announcements are lost *)
(* or late, and whichever links are disabled and enabled: one that is      *)
(* enabled counts as a link of the network, since the menu asks nobody     *)
(* whether it is there.                                                    *)
CostIsDistance ==
    \A h \in Hosts : \A d \in Dests \ {h} :
        routes[h][d].cost # INFINITE_ROUTE =>
            /\ d \in Within(enabled, h)[routes[h][d].cost]
            /\ NextHop(h, d) \in Near(enabled, h)

(* The next hop "can reach the destination" (hostreachable): it is the     *)
(* destination or has a cheaper route to it.  So as long as no link has    *)
(* been disabled.                                                          *)
RoutesDescend ==
    ~disabled =>
        \A h \in Hosts : \A d \in Dests \ {h} :
            routes[h][d].cost # INFINITE_ROUTE =>
                LET n == NextHop(h, d)
                IN  \/ n = d
                    \/ /\ n \in Hosts
                       /\ routes[n][d].cost # INFINITE_ROUTE
                       /\ routes[n][d].cost < routes[h][d].cost

(* A packet that is sent arrives, if the tables stay as they are, after no *)
(* more hops than the cost says: it does not go round.  The ttl would not  *)
(* stop it, as no host looks at it.                                        *)
LoopFree ==
    ~disabled =>
        \A h \in Hosts : \A d \in Dests \ {h} :
            routes[h][d].cost # INFINITE_ROUTE => Walk(h, d)[routes[h][d].cost] = d

(* While no link is disabled, and none enabled that is not there, every    *)
(* host comes to know the shortest way to every host it is connected to,   *)
(* and keeps it.                                                           *)
Shortest(h, d) == \A k \in 1..N :
    d \in Within({}, h)[k] /\ d \notin Within({}, h)[k - 1] => routes[h][d].cost = k

ShortestInTheEnd ==
    \/ <>(disabled \/ ~(enabled \subseteq Topology))
    \/ <>[](\A h \in Hosts : \A d \in Dests \ {h} : Shortest(h, d))
=============================================================================
