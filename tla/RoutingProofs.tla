---------------------------- MODULE RoutingProofs ----------------------------
(***************************************************************************)
(* Proofs about the routing tables, for every number of hosts, every       *)
(* topology and every use of the menu: TypeOK, CostIsDistance,             *)
(* RoutesDescend and LoopFree of module Routing are invariants.            *)
(*                                                                         *)
(* The argument for CostIsDistance is that an entry is true of its host    *)
(* and an announcement of its receiver.  Disabling a link only takes       *)
(* entries away.  RoutesDescend needs more: the host that announced a      *)
(* route still has one as cheap when the announcement is handled, however  *)
(* late.  That is so because entries only improve (Improves), until a link *)
(* is disabled, and because no cost comes round until then (PassedInv):    *)
(* the hosts a route has passed are different ones.  LoopFree then follows *)
(* in the state itself.                                                    *)
(***************************************************************************)
EXTENDS Routing, LeastNumber, FiniteSetTheorems

(* From "every initial segment of the steps exists and is one only" to the *)
(* function of all steps.                                                  *)
Start(S, F, a, n) == {s \in [0..n -> S] : s[0] = a /\ \A i \in 0..(n - 1) : s[i + 1] = F[s[i]]}

(* Two runs of the same steps agree as far as both go. *)
LEMMA StartUnique ==
    ASSUME NEW S, NEW F, NEW a, NEW n \in Nat, NEW m \in Nat,
           NEW s \in Start(S, F, a, n), NEW t \in Start(S, F, a, m),
           NEW i \in Nat, i <= n, i <= m
    PROVE  s[i] = t[i]
  <1> DEFINE T == {j \in Nat : j <= n /\ j <= m /\ s[j] # t[j]}
  <1>1. SUFFICES ASSUME T # {} PROVE FALSE
    OBVIOUS
  <1>2. PICK x \in T : \A y \in T : x <= y
    BY <1>1, Least
  <1>3. x \in Nat /\ x <= n /\ x <= m /\ s[x] # t[x]
    OBVIOUS
  <1>4. s[0] = a /\ t[0] = a
    BY DEF Start
  <1>5. x - 1 \in Nat /\ x - 1 <= n /\ x - 1 <= m /\ x - 1 \in 0..(n - 1)
        /\ x - 1 \in 0..(m - 1) /\ (x - 1) + 1 = x
    BY <1>3, <1>4
  <1>6. s[x] = F[s[x - 1]] /\ t[x] = F[t[x - 1]]
    <2>1. (\A k \in 0..(n - 1) : s[k + 1] = F[s[k]]) /\ (\A k \in 0..(m - 1) : t[k + 1] = F[t[k]])
      BY DEF Start
    <2>2. s[(x - 1) + 1] = F[s[x - 1]] /\ t[(x - 1) + 1] = F[t[x - 1]]
      BY <2>1, <1>5
    <2> QED BY <2>2, <1>5
  <1>7. s[x - 1] # t[x - 1]
    BY <1>3, <1>6
  <1>8. x - 1 \in T
    BY <1>5, <1>7
  <1> QED BY <1>2, <1>3, <1>8

(* There is a run of every length. *)
LEMMA StartExists ==
    ASSUME NEW S, NEW a \in S, NEW F \in [S -> S], NEW n \in Nat
    PROVE  Start(S, F, a, n) # {}
  <1> DEFINE T == {j \in Nat : Start(S, F, a, j) = {}}
  <1>1. SUFFICES ASSUME T # {} PROVE FALSE
    OBVIOUS
  <1>2. PICK x \in T : \A y \in T : x <= y
    BY <1>1, Least
  <1>3. x \in Nat /\ Start(S, F, a, x) = {}
    OBVIOUS
  <1>4. CASE x = 0
    <2>1. [i \in 0..0 |-> a] \in Start(S, F, a, 0)
      BY DEF Start
    <2> QED BY <2>1, <1>3, <1>4
  <1>5. CASE x # 0
    <2>1. x - 1 \in Nat /\ ~(x <= x - 1)
      BY <1>3, <1>5
    <2>2. x - 1 \notin T
      BY <1>2, <2>1
    <2>3. PICK s : s \in Start(S, F, a, x - 1)
      BY <2>1, <2>2
    <2> DEFINE t == [i \in 0..x |-> IF i = x THEN F[s[x - 1]] ELSE s[i]]
    <2>4. s \in [0..(x - 1) -> S] /\ s[0] = a /\ \A i \in 0..((x - 1) - 1) : s[i + 1] = F[s[i]]
      BY <2>3 DEF Start
    <2>5. t \in [0..x -> S]
      BY <2>4, <1>3, <1>5
    <2>6. t[0] = a
      BY <2>4, <1>3, <1>5
    <2>7. ASSUME NEW i \in 0..(x - 1) PROVE t[i + 1] = F[t[i]]
      <3>1. CASE i = x - 1
        BY <3>1, <1>3, <1>5
      <3>2. CASE i # x - 1
        <4>1. i \in 0..((x - 1) - 1) /\ i \in 0..x /\ i + 1 \in 0..x /\ i # x /\ i + 1 # x
          BY <3>2, <1>3, <1>5
        <4> QED BY <4>1, <2>4
      <3> QED BY <3>1, <3>2
    <2>8. t \in Start(S, F, a, x)
      BY <2>5, <2>6, <2>7 DEF Start
    <2> QED BY <2>8, <1>3
  <1> QED BY <1>4, <1>5

(* Steps(F, a) is what its definition says: a at 0 and F of the step before. *)
LEMMA StepsFacts ==
    ASSUME NEW S, NEW a \in S, NEW F \in [S -> S]
    PROVE  /\ Steps(F, a) \in [Nat -> S]
           /\ Steps(F, a)[0] = a
           /\ \A k \in Nat : Steps(F, a)[k + 1] = F[Steps(F, a)[k]]
  <1> DEFINE P(n) == CHOOSE s : s \in Start(S, F, a, n)
             g == [n \in Nat |-> P(n)[n]]
  <1>1. ASSUME NEW n \in Nat PROVE P(n) \in Start(S, F, a, n)
    BY StartExists
  <1> HIDE DEF P
  <1>2. ASSUME NEW n \in Nat PROVE g[n] \in S
    <2>1. P(n) \in [0..n -> S]
      BY <1>1 DEF Start
    <2> QED BY <2>1
  <1>3. g[0] = a
    <2>1. P(0)[0] = a
      BY <1>1 DEF Start
    <2> QED BY <2>1
  <1>4. ASSUME NEW n \in Nat PROVE g[n + 1] = F[g[n]]
    <2>1. P(n + 1) \in Start(S, F, a, n + 1) /\ P(n) \in Start(S, F, a, n)
      BY <1>1
    <2>2. P(n + 1)[n] = P(n)[n]
      BY <2>1, StartUnique
    <2>3. \A i \in 0..((n + 1) - 1) : P(n + 1)[i + 1] = F[P(n + 1)[i]]
      BY <2>1 DEF Start
    <2>4. P(n + 1)[n + 1] = F[P(n + 1)[n]]
      BY <2>3
    <2> QED BY <2>2, <2>4
  <1> HIDE DEF g
  <1>5. g = [k \in Nat |-> IF k = 0 THEN a ELSE F[g[k - 1]]]
    <2>1. ASSUME NEW k \in Nat PROVE g[k] = IF k = 0 THEN a ELSE F[g[k - 1]]
      <3>1. CASE k = 0
        BY <3>1, <1>3
      <3>2. CASE k # 0
        <4>1. k - 1 \in Nat /\ (k - 1) + 1 = k
          BY <3>2
        <4>2. g[(k - 1) + 1] = F[g[k - 1]]
          BY <4>1, <1>4
        <4> QED BY <4>1, <4>2, <3>2
      <3> QED BY <3>1, <3>2
    <2>2. g = [k \in Nat |-> g[k]]
      BY DEF g
    <2> QED BY <2>1, <2>2
  <1> DEFINE s == Steps(F, a)
  <1>6. s = [k \in Nat |-> IF k = 0 THEN a ELSE F[s[k - 1]]]
    BY <1>5 DEF Steps
  <1> HIDE DEF s
  <1>7. s[0] = a
    BY <1>6
  <1>8. ASSUME NEW k \in Nat PROVE s[k + 1] = F[s[k]]
    <2>1. k + 1 \in Nat /\ k + 1 # 0 /\ (k + 1) - 1 = k
      OBVIOUS
    <2> QED BY <2>1, <1>6
  <1>9. ASSUME NEW k \in Nat PROVE s[k] \in S
    <2> DEFINE T == {j \in Nat : s[j] \notin S}
    <2>1. SUFFICES ASSUME T # {} PROVE FALSE
      OBVIOUS
    <2>2. PICK x \in T : \A y \in T : x <= y
      BY <2>1, Least
    <2>3. x \in Nat /\ s[x] \notin S
      OBVIOUS
    <2>4. x - 1 \in Nat /\ (x - 1) + 1 = x /\ ~(x <= x - 1)
      BY <1>7, <2>3
    <2>5. s[x - 1] \in S
      BY <2>2, <2>4
    <2>6. s[(x - 1) + 1] = F[s[x - 1]]
      BY <1>8, <2>4
    <2> QED BY <2>3, <2>4, <2>5, <2>6
  <1>10. s \in [Nat -> S]
    BY <1>6, <1>9
  <1> QED BY <1>7, <1>8, <1>10 DEF s

-----------------------------------------------------------------------------
(* A link joins two different hosts and goes both ways. *)
LEMMA LinkedFacts ==
    ASSUME NEW h \in Hosts, NEW g \in Linked(h)
    PROVE  g \in Hosts /\ g # h /\ h \in Linked(g)
  <1>1. {h, g} \in Topology /\ g \in Hosts
    BY DEF Linked
  <1>2. PICK a \in Hosts, b \in Hosts : a # b /\ {h, g} = {a, b}
    BY <1>1, RoutingAssumption
  <1>3. g # h
    BY <1>2
  <1>4. {g, h} = {h, g}
    OBVIOUS
  <1> QED BY <1>1, <1>3, <1>4 DEF Linked

(* In a network with further links one host is near another the same way,  *)
(* but may be near itself.                                                 *)
LEMMA NearFacts ==
    ASSUME NEW E, NEW h \in Hosts, NEW g \in Near(E, h)
    PROVE  g \in Hosts /\ h \in Near(E, g)
  <1>1. {g, h} = {h, g}
    OBVIOUS
  <1> QED BY <1>1 DEF Near

(* Within(E, h) starts with h alone and adds the neighbours of what it has. *)
LEMMA WithinFacts ==
    ASSUME NEW E, NEW h \in Hosts
    PROVE  /\ Within(E, h) \in [Nat -> SUBSET Hosts]
           /\ Within(E, h)[0] = {h}
           /\ \A k \in Nat : Within(E, h)[k + 1] =
                 Within(E, h)[k] \cup UNION {Near(E, g) : g \in Within(E, h)[k]}
  <1>1. Spread(E) \in [SUBSET Hosts -> SUBSET Hosts]
    BY DEF Spread, Near
  <1>2. {h} \in SUBSET Hosts
    OBVIOUS
  <1>3. /\ Within(E, h) \in [Nat -> SUBSET Hosts]
        /\ Within(E, h)[0] = {h}
        /\ \A k \in Nat : Within(E, h)[k + 1] = Spread(E)[Within(E, h)[k]]
    <2> DEFINE D == SUBSET Hosts
               b == {h}
    <2>1. Spread(E) \in [D -> D] /\ b \in D
      BY <1>1, <1>2
    <2> HIDE DEF D, b
    <2>2. /\ Steps(Spread(E), b) \in [Nat -> D]
          /\ Steps(Spread(E), b)[0] = b
          /\ \A k \in Nat : Steps(Spread(E), b)[k + 1] = Spread(E)[Steps(Spread(E), b)[k]]
      BY <2>1, StepsFacts
    <2> QED BY <2>2 DEF Within, D, b
  <1>4. \A k \in Nat : Within(E, h)[k] \in SUBSET Hosts
    BY <1>3
  <1>5. \A D \in SUBSET Hosts : Spread(E)[D] = D \cup UNION {Near(E, g) : g \in D}
    BY DEF Spread
  <1> QED BY <1>3, <1>4, <1>5

(* A host is at most any number of hops from itself. *)
LEMMA SelfWithin ==
    ASSUME NEW E, NEW h \in Hosts, NEW k \in Nat
    PROVE  h \in Within(E, h)[k]
  <1> DEFINE T == {j \in Nat : h \notin Within(E, h)[j]}
  <1>1. SUFFICES ASSUME T # {} PROVE FALSE
    OBVIOUS
  <1>2. PICK x \in T : \A y \in T : x <= y
    BY <1>1, Least
  <1>3. x \in Nat /\ h \notin Within(E, h)[x] /\ x # 0
    BY WithinFacts
  <1>4. x - 1 \in Nat /\ (x - 1) + 1 = x /\ ~(x <= x - 1)
    BY <1>3
  <1>5. h \in Within(E, h)[x - 1]
    BY <1>2, <1>4
  <1>6. h \in Within(E, h)[(x - 1) + 1]
    BY <1>4, <1>5, WithinFacts
  <1> QED BY <1>3, <1>4, <1>6

(* What is k hops from a neighbour is k + 1 hops away. *)
LEMMA WithinNeighbour ==
    ASSUME NEW E, NEW h \in Hosts, NEW g \in Near(E, h), NEW k \in Nat
    PROVE  Within(E, g)[k] \subseteq Within(E, h)[k + 1]
  <1> DEFINE T == {j \in Nat : ~(Within(E, g)[j] \subseteq Within(E, h)[j + 1])}
  <1>1. SUFFICES ASSUME T # {} PROVE FALSE
    OBVIOUS
  <1>2. PICK x \in T : \A y \in T : x <= y
    BY <1>1, Least
  <1>3. x \in Nat /\ ~(Within(E, g)[x] \subseteq Within(E, h)[x + 1])
    OBVIOUS
  <1>4. g \in Hosts
    BY NearFacts
  <1>5. CASE x = 0
    <2>1. Within(E, g)[0] = {g} /\ Within(E, h)[0] = {h} /\ 0 + 1 = 1
      BY <1>4, WithinFacts
    <2>2. Within(E, h)[0 + 1] = Within(E, h)[0] \cup UNION {Near(E, f) : f \in Within(E, h)[0]}
      BY WithinFacts
    <2>3. g \in Within(E, h)[0 + 1]
      BY <2>1, <2>2
    <2> QED BY <2>1, <2>3, <1>3, <1>5
  <1>6. CASE x # 0
    <2>1. x - 1 \in Nat /\ (x - 1) + 1 = x /\ ~(x <= x - 1) /\ x + 1 \in Nat
      BY <1>3, <1>6
    <2>2. Within(E, g)[x - 1] \subseteq Within(E, h)[(x - 1) + 1]
      BY <2>1, <1>2
    <2>3. Within(E, g)[(x - 1) + 1] =
             Within(E, g)[x - 1] \cup UNION {Near(E, f) : f \in Within(E, g)[x - 1]}
      BY <2>1, <1>4, WithinFacts
    <2>4. Within(E, h)[x + 1] = Within(E, h)[x] \cup UNION {Near(E, f) : f \in Within(E, h)[x]}
      BY <1>3, WithinFacts
    <2>5. Within(E, g)[x] \subseteq Within(E, h)[x + 1]
      BY <2>1, <2>2, <2>3, <2>4
    <2> QED BY <2>5, <1>3
  <1> QED BY <1>5, <1>6

(* Further links make no way longer. *)
LEMMA WithinGrows ==
    ASSUME NEW E, NEW D, E \subseteq D, NEW h \in Hosts, NEW k \in Nat
    PROVE  Within(E, h)[k] \subseteq Within(D, h)[k]
  <1> DEFINE T == {j \in Nat : ~(Within(E, h)[j] \subseteq Within(D, h)[j])}
  <1>1. SUFFICES ASSUME T # {} PROVE FALSE
    OBVIOUS
  <1>2. PICK x \in T : \A y \in T : x <= y
    BY <1>1, Least
  <1>3. x \in Nat /\ ~(Within(E, h)[x] \subseteq Within(D, h)[x]) /\ x # 0
    BY WithinFacts
  <1>4. x - 1 \in Nat /\ (x - 1) + 1 = x /\ ~(x <= x - 1)
    BY <1>3
  <1>5. Within(E, h)[x - 1] \subseteq Within(D, h)[x - 1]
    BY <1>2, <1>4
  <1>6. Within(E, h)[(x - 1) + 1] =
           Within(E, h)[x - 1] \cup UNION {Near(E, f) : f \in Within(E, h)[x - 1]}
    BY <1>4, WithinFacts
  <1>7. Within(D, h)[(x - 1) + 1] =
           Within(D, h)[x - 1] \cup UNION {Near(D, f) : f \in Within(D, h)[x - 1]}
    BY <1>4, WithinFacts
  <1>8. \A f : Near(E, f) \subseteq Near(D, f)
    BY DEF Near
  <1> QED BY <1>3, <1>4, <1>5, <1>6, <1>7, <1>8

(* The minimum of a set of numbers is one of them. *)
LEMMA MinFacts ==
    ASSUME NEW T \in SUBSET Nat, T # {}
    PROVE  Min(T) \in T
  <1>1. \E x \in T : \A y \in T : x <= y
    BY Least
  <1> QED BY <1>1 DEF Min

(* The range of the loop over the entries of the table. *)
LEMMA DestFacts ==
    /\ N + 1 \in Nat /\ N + 1 \notin Hosts /\ 0 \notin Hosts /\ Hosts \subseteq Nat /\ Dests \subseteq Hosts
    /\ FirstDest \in Dests \cup {N + 1}
    /\ \A d : DestAfter(d) \in Dests \cup {N + 1}
  <1>1. N + 1 \in Nat /\ N + 1 \notin Hosts /\ 0 \notin Hosts /\ Hosts \subseteq Nat /\ Dests \subseteq Hosts
    BY RoutingAssumption DEF Hosts
  <1>2. FirstDest \in Dests \cup {N + 1}
    BY <1>1, MinFacts DEF FirstDest
  <1>3. ASSUME NEW d PROVE DestAfter(d) \in Dests \cup {N + 1}
    <2>1. {e \in Dests : e > d} \cup {N + 1} \in SUBSET Nat
      BY <1>1
    <2> QED BY <2>1, MinFacts DEF DestAfter
  <1> QED BY <1>1, <1>2, <1>3

-----------------------------------------------------------------------------
(* What follows from each action follows from a step. *)
LEMMA NextCases ==
    ASSUME Next, NEW P,
           \A h \in Hosts : StartRoutes(h) => P,
           \A h \in Hosts : Serve(h) => P,
           \A h \in Hosts : ReadEntry(h) => P,
           \A h \in Hosts : SendRoute(h) => P,
           \A m \in net : HandleRoute(m) => P,
           \A h \in Hosts : \A r \in Hosts : DisableLink(h, r) => P,
           \A h \in Hosts : \A r \in Hosts : EnableLink(h, r) => P
    PROVE  P
  <1>1. Menu \subseteq Hosts
    BY RoutingAssumption
  <1> QED BY <1>1 DEF Next, Announce

(* A packet is told from no packet, and its fields have their types. *)
LEMMA NothingFacts ==
    /\ Nothing \notin Packet
    /\ \A m \in Packet : /\ m.to \in Hosts /\ m.dest \in Dests
                         /\ m.cost \in Cost /\ m.cost \in Nat /\ m.gateway \in Hosts
  BY DestFacts, RoutingAssumption DEF Nothing, Packet, Cost

(* Costs are numbers of eight bits; a host more does not come round.       *)
LEMMA CostFacts ==
    /\ Cost \subseteq Nat /\ INFINITE_ROUTE \in Cost /\ 1 \in Cost
    /\ \A c \in Cost : /\ (c + 1) % COST_MODULUS \in Cost
                       /\ (c + 1) % COST_MODULUS \in {0, c + 1}
                       /\ c <= N => (c + 1) % COST_MODULUS = c + 1
  <1>1. COST_MODULUS \in Nat /\ N \in Nat /\ N + 1 < COST_MODULUS
    BY RoutingAssumption
  <1>2. Cost \subseteq Nat /\ INFINITE_ROUTE \in Cost /\ 1 \in Cost
    BY <1>1 DEF Cost, INFINITE_ROUTE
  <1>3. ASSUME NEW c \in Cost
        PROVE  (c + 1) % COST_MODULUS = IF c + 1 = COST_MODULUS THEN 0 ELSE c + 1
    BY <1>1 DEF Cost
  <1> QED BY <1>1, <1>2, <1>3 DEF Cost

(* The costs in the tables are numbers. *)
LEMMA EntryFacts ==
    ASSUME TypeOK
    PROVE  \A h \in Hosts : \A d \in Dests :
              routes[h][d].cost \in Cost /\ routes[h][d].cost \in Nat
  <1>1. ASSUME NEW h \in Hosts, NEW d \in Dests PROVE routes[h][d].cost \in Cost
    BY DEF TypeOK, Entry
  <1> QED BY <1>1, CostFacts

(* The initial state has the right types. *)
LEMMA TypeInit ==
    ASSUME Init
    PROVE  TypeOK
  <1>1. NoRoute \in Entry
    BY CostFacts DEF NoRoute, Entry
  <1>2. routes \in [Hosts -> [Dests -> Entry]]
    BY <1>1 DEF Init
  <1>3. numberhost \in [Hosts -> Dests \cup {N + 1}]
    BY DestFacts DEF Init
  <1>4. neighbors \in [Hosts -> SUBSET Hosts] /\ links \in [Hosts -> SUBSET Hosts]
    BY DEF Init, Linked
  <1>5. /\ started \in [Hosts -> BOOLEAN] /\ serving \in [Hosts -> Hosts \cup {0}]
        /\ aux \in [Hosts -> Packet \cup {Nothing}] /\ net \subseteq Packet
        /\ enabled \subseteq SUBSET Hosts
    BY DEF Init
  <1>6. changes \in 0..MaxChanges /\ disabled \in BOOLEAN
    <2>1. changes = 0 /\ disabled = FALSE
      BY DEF Init
    <2>2. MaxChanges \in Nat
      BY RoutingAssumption
    <2>3. changes \in 0..MaxChanges
      BY <2>1, <2>2
    <2>4. disabled \in BOOLEAN
      BY <2>1, Zenon
    <2> QED BY <2>3, <2>4
  <1> QED BY <1>2, <1>3, <1>4, <1>5, <1>6 DEF TypeOK

(* A step keeps the types. *)
LEMMA TypeStep ==
    ASSUME TypeOK, [Next]_vars
    PROVE  TypeOK'
  <1>1. CASE UNCHANGED vars
    BY <1>1 DEF TypeOK, vars
  <1>2. ASSUME NEW h \in Hosts, StartRoutes(h) PROVE TypeOK'
    <2> DEFINE row == [d \in Dests |-> IF d \in neighbors[h] \cup {h}
                                       THEN [cost |-> 1, gateway |-> h]
                                       ELSE routes[h][d]]
    <2>1. row \in [Dests -> Entry]
      <3>1. ASSUME NEW d \in Dests PROVE routes[h][d] \in Entry
        BY DEF TypeOK
      <3>2. [cost |-> 1, gateway |-> h] \in Entry
        BY CostFacts DEF Entry
      <3> QED BY <3>1, <3>2
    <2>2. routes' = [routes EXCEPT ![h] = row] /\ started' = [started EXCEPT ![h] = TRUE]
      BY <1>2 DEF StartRoutes
    <2> HIDE DEF row
    <2>3. routes' \in [Hosts -> [Dests -> Entry]] /\ started' \in [Hosts -> BOOLEAN]
      BY <2>1, <2>2 DEF TypeOK
    <2> QED BY <2>3, <1>2 DEF StartRoutes, TypeOK
  <1>3. ASSUME NEW h \in Hosts, Serve(h) PROVE TypeOK'
    <2> DEFINE rest == {n \in neighbors[h] : n > serving[h]}
               v    == IF rest = {} THEN 0 ELSE Min(rest)
    <2>1. rest \in SUBSET Nat /\ rest \subseteq Hosts
      BY DestFacts DEF TypeOK
    <2>2. v \in Hosts \cup {0}
      BY <2>1, MinFacts
    <2>3. serving' = [serving EXCEPT ![h] = v] /\ numberhost' = [numberhost EXCEPT ![h] = FirstDest]
      BY <1>3 DEF Serve
    <2> HIDE DEF v
    <2>4. serving' \in [Hosts -> Hosts \cup {0}] /\ numberhost' \in [Hosts -> Dests \cup {N + 1}]
      BY <2>2, <2>3, DestFacts DEF TypeOK
    <2> QED BY <2>4, <1>3 DEF Serve, TypeOK
  <1>4. ASSUME NEW h \in Hosts, ReadEntry(h) PROVE TypeOK'
    <2> DEFINE d == numberhost[h]
               c == (routes[h][d].cost + 1) % COST_MODULUS
               m == [to |-> serving[h], dest |-> d, cost |-> c, gateway |-> h]
    <2>1. d \in Dests /\ serving[h] \in Hosts
      <3>1. d <= N /\ serving[h] # 0
        BY <1>4 DEF ReadEntry, Copy
      <3>2. d \in Dests \cup {N + 1} /\ serving[h] \in Hosts \cup {0}
        BY DEF TypeOK
      <3>3. N \in Nat
        BY RoutingAssumption
      <3> QED BY <3>1, <3>2, <3>3
    <2>2. c \in Cost
      BY <2>1, EntryFacts, CostFacts
    <2>3. m \in Packet
      <3> HIDE DEF c
      <3> QED BY <2>1, <2>2 DEF Packet
    <2>4. /\ numberhost' = [numberhost EXCEPT ![h] = DestAfter(d)]
          /\ aux' = aux \/ aux' = [aux EXCEPT ![h] = m]
      BY <1>4 DEF ReadEntry, Copy
    <2> HIDE DEF m, d
    <2>5. numberhost' \in [Hosts -> Dests \cup {N + 1}] /\ aux' \in [Hosts -> Packet \cup {Nothing}]
      BY <2>3, <2>4, DestFacts DEF TypeOK
    <2> QED BY <2>5, <1>4 DEF ReadEntry, Copy, TypeOK
  <1>5. ASSUME NEW h \in Hosts, SendRoute(h) PROVE TypeOK'
    <2>1. aux[h] \in Packet
      BY <1>5 DEF SendRoute, TypeOK
    <2>2. net' \subseteq Packet /\ aux' \in [Hosts -> Packet \cup {Nothing}]
      BY <2>1, <1>5 DEF SendRoute, TypeOK
    <2> QED BY <2>2, <1>5 DEF SendRoute, TypeOK
  <1>6. ASSUME NEW m \in net, HandleRoute(m) PROVE TypeOK'
    <2>1. m.to \in Hosts /\ m.dest \in Dests /\ m.cost \in Cost /\ m.gateway \in Hosts
      BY NothingFacts DEF TypeOK
    <2> DEFINE e == [cost |-> m.cost, gateway |-> m.gateway]
    <2>2. e \in Entry
      BY <2>1 DEF Entry
    <2>3. routes' = routes \/ routes' = [routes EXCEPT ![m.to][m.dest] = e]
      BY <1>6 DEF HandleRoute
    <2> HIDE DEF e
    <2>4. routes' \in [Hosts -> [Dests -> Entry]]
      <3>1. routes \in [Hosts -> [Dests -> Entry]]
        BY DEF TypeOK
      <3> DEFINE row == [routes[m.to] EXCEPT ![m.dest] = e]
      <3>2. row \in [Dests -> Entry]
        BY <2>1, <2>2, <3>1
      <3>3. routes' = routes \/ routes' = [routes EXCEPT ![m.to] = row]
        BY <2>1, <2>3, <3>1
      <3> HIDE DEF row
      <3> QED BY <2>1, <3>1, <3>2, <3>3
    <2> QED BY <2>4, <1>6 DEF HandleRoute, TypeOK
  <1>7. ASSUME NEW h \in Hosts, NEW r \in Hosts, DisableLink(h, r) PROVE TypeOK'
    <2> DEFINE row == [d \in Dests |-> IF d = r \/ routes[h][d].gateway = r THEN NoRoute
                                                                           ELSE routes[h][d]]
    <2>1. row \in [Dests -> Entry]
      <3>1. ASSUME NEW d \in Dests PROVE routes[h][d] \in Entry
        BY DEF TypeOK
      <3>2. NoRoute \in Entry
        BY CostFacts DEF Entry, NoRoute
      <3> QED BY <3>1, <3>2
    <2>2. routes' = [routes EXCEPT ![h] = row]
      BY <1>7 DEF DisableLink
    <2> HIDE DEF row
    <2>3. routes' \in [Hosts -> [Dests -> Entry]]
      BY <2>1, <2>2 DEF TypeOK
    <2>4. neighbors' \in [Hosts -> SUBSET Hosts] /\ links' \in [Hosts -> SUBSET Hosts]
      BY <1>7 DEF DisableLink, TypeOK
    <2>5. changes' \in 0..MaxChanges
      BY <1>7, RoutingAssumption DEF DisableLink, TypeOK
    <2> QED BY <2>3, <2>4, <2>5, <1>7 DEF DisableLink, TypeOK
  <1>8. ASSUME NEW h \in Hosts, NEW r \in Hosts, EnableLink(h, r) PROVE TypeOK'
    <2> DEFINE row == [d \in Dests |-> IF d = r THEN [cost |-> 1, gateway |-> r]
                                                ELSE routes[h][d]]
    <2>1. row \in [Dests -> Entry]
      <3>1. ASSUME NEW d \in Dests PROVE routes[h][d] \in Entry
        BY DEF TypeOK
      <3>2. [cost |-> 1, gateway |-> r] \in Entry
        BY CostFacts DEF Entry
      <3> QED BY <3>1, <3>2
    <2>2. routes' = [routes EXCEPT ![h] = row]
      BY <1>8 DEF EnableLink
    <2> HIDE DEF row
    <2>3. routes' \in [Hosts -> [Dests -> Entry]]
      BY <2>1, <2>2 DEF TypeOK
    <2>4. neighbors' \in [Hosts -> SUBSET Hosts] /\ links' \in [Hosts -> SUBSET Hosts]
      BY <1>8 DEF EnableLink, ConfiguredLink, TypeOK
    <2>5. changes' \in 0..MaxChanges
      BY <1>8, RoutingAssumption DEF EnableLink, TypeOK
    <2>6. enabled' \subseteq SUBSET Hosts
      BY <1>8 DEF EnableLink, TypeOK
    <2> QED BY <2>3, <2>4, <2>5, <2>6, <1>8 DEF EnableLink, TypeOK
  <1> QED BY <1>1, <1>2, <1>3, <1>4, <1>5, <1>6, <1>7, <1>8, NextCases

(* The tables, the neighbours, the packet that is read and the announcements *)
(* have the types the C structures give them, in every reachable state.    *)
THEOREM TypeCorrect == Spec => []TypeOK
  BY TypeInit, TypeStep, PTL DEF Spec

-----------------------------------------------------------------------------
(* What a step does to one entry, and where an announcement comes from. *)
EntrySteps(h, d) ==
    \/ routes'[h][d] = routes[h][d]
    \/ d \in neighbors[h] \cup {h} /\ routes'[h][d] = [cost |-> 1, gateway |-> h]
    \/ {h, d} \in enabled' /\ routes'[h][d] = [cost |-> 1, gateway |-> d]
    \/ disabled' /\ routes'[h][d] = NoRoute
    \/ \E m \in net : /\ m.to = h /\ m.dest = d /\ Better(m)
                      /\ routes'[h][d] = [cost |-> m.cost, gateway |-> m.gateway]

(* Every step does one of these to every entry. *)
LEMMA EntryStep ==
    ASSUME TypeOK, [Next]_vars, NEW h \in Hosts, NEW d \in Dests
    PROVE  EntrySteps(h, d)
  <1>0. routes \in [Hosts -> [Dests -> Entry]]
    BY DEF TypeOK
  <1>1. CASE routes' = routes
    BY <1>1 DEF EntrySteps
  <1>2. CASE UNCHANGED vars
    BY <1>1, <1>2 DEF vars
  <1>3. ASSUME NEW a \in Hosts, StartRoutes(a) PROVE EntrySteps(h, d)
    BY <1>0, <1>3 DEF StartRoutes, EntrySteps
  <1>4. ASSUME NEW a \in Hosts, Serve(a) PROVE EntrySteps(h, d)
    BY <1>1, <1>4 DEF Serve
  <1>5. ASSUME NEW a \in Hosts, ReadEntry(a) PROVE EntrySteps(h, d)
    BY <1>1, <1>5 DEF ReadEntry, Copy
  <1>6. ASSUME NEW a \in Hosts, SendRoute(a) PROVE EntrySteps(h, d)
    BY <1>1, <1>6 DEF SendRoute
  <1>7. ASSUME NEW m \in net, HandleRoute(m) PROVE EntrySteps(h, d)
    <2>1. m.to \in Hosts /\ m.dest \in Dests
      BY NothingFacts DEF TypeOK
    <2>2. CASE Better(m) /\ m.to = h /\ m.dest = d
      <3>1. routes' = [routes EXCEPT ![h][d] = [cost |-> m.cost, gateway |-> m.gateway]]
        BY <2>2, <1>7 DEF HandleRoute
      <3>2. routes'[h][d] = [cost |-> m.cost, gateway |-> m.gateway]
        BY <3>1, <1>0
      <3> QED BY <3>2, <2>2 DEF EntrySteps
    <2>3. CASE ~(Better(m) /\ m.to = h /\ m.dest = d)
      <3>1. \/ routes' = routes
            \/ /\ routes' = [routes EXCEPT ![m.to][m.dest] =
                                [cost |-> m.cost, gateway |-> m.gateway]]
               /\ ~(m.to = h /\ m.dest = d)
        BY <2>3, <1>7 DEF HandleRoute
      <3>2. routes'[h][d] = routes[h][d]
        BY <3>1, <1>0, <2>1
      <3> QED BY <3>2 DEF EntrySteps
    <2> QED BY <2>2, <2>3
  <1>8. ASSUME NEW a \in Hosts, NEW r \in Hosts, DisableLink(a, r) PROVE EntrySteps(h, d)
    BY <1>0, <1>8 DEF DisableLink, EntrySteps
  <1>9. ASSUME NEW a \in Hosts, NEW r \in Hosts, EnableLink(a, r) PROVE EntrySteps(h, d)
    BY <1>0, <1>9 DEF EnableLink, EntrySteps
  <1> QED BY <1>2, <1>3, <1>4, <1>5, <1>6, <1>7, <1>8, <1>9, NextCases

(* What a step does to the packet a host has read from its table. *)
AuxSteps(h) ==
    \/ aux'[h] = aux[h] \/ aux'[h] = Nothing
    \/ /\ serving[h] # 0 /\ numberhost[h] \in Dests
       /\ routes[h][numberhost[h]].cost # INFINITE_ROUTE
       /\ routes' = routes
       /\ aux'[h] = [to |-> serving[h], dest |-> numberhost[h],
                     cost |-> (routes[h][numberhost[h]].cost + 1) % COST_MODULUS,
                     gateway |-> h]

(* Every step does one of these to every packet. *)
LEMMA AuxStep ==
    ASSUME TypeOK, [Next]_vars, NEW h \in Hosts
    PROVE  AuxSteps(h)
  <1>0. aux \in [Hosts -> Packet \cup {Nothing}]
    BY DEF TypeOK
  <1>1. CASE aux' = aux
    BY <1>1 DEF AuxSteps
  <1>2. CASE UNCHANGED vars
    BY <1>1, <1>2 DEF vars
  <1>3. ASSUME NEW a \in Hosts, StartRoutes(a) PROVE AuxSteps(h)
    BY <1>1, <1>3 DEF StartRoutes
  <1>4. ASSUME NEW a \in Hosts, Serve(a) PROVE AuxSteps(h)
    BY <1>1, <1>4 DEF Serve
  <1>5. ASSUME NEW a \in Hosts, ReadEntry(a) PROVE AuxSteps(h)
    <2>1. CASE a # h
      BY <2>1, <1>0, <1>5 DEF ReadEntry, Copy, AuxSteps
    <2>2. CASE a = h
      <3>1. numberhost[h] <= N /\ serving[h] # 0 /\ routes' = routes
        BY <2>2, <1>5 DEF ReadEntry, Copy
      <3>2. numberhost[h] \in Dests \cup {N + 1} /\ N \in Nat
        BY RoutingAssumption DEF TypeOK
      <3>3. numberhost[h] \in Dests
        BY <3>1, <3>2
      <3> QED BY <2>2, <3>1, <3>3, <1>0, <1>5 DEF ReadEntry, Copy, AuxSteps
    <2> QED BY <2>1, <2>2
  <1>6. ASSUME NEW a \in Hosts, SendRoute(a) PROVE AuxSteps(h)
    BY <1>0, <1>6 DEF SendRoute, AuxSteps
  <1>7. ASSUME NEW m \in net, HandleRoute(m) PROVE AuxSteps(h)
    BY <1>1, <1>7 DEF HandleRoute
  <1>8. ASSUME NEW a \in Hosts, NEW r \in Hosts, DisableLink(a, r) PROVE AuxSteps(h)
    BY <1>1, <1>8 DEF DisableLink
  <1>9. ASSUME NEW a \in Hosts, NEW r \in Hosts, EnableLink(a, r) PROVE AuxSteps(h)
    BY <1>1, <1>9 DEF EnableLink
  <1> QED BY <1>2, <1>3, <1>4, <1>5, <1>6, <1>7, <1>8, <1>9, NextCases

(* An announcement on the way was on the way or had been read, for a host  *)
(* there is a link to.                                                     *)
NetSteps(m) ==
    m \in net \/ \E h \in Hosts : aux[h] # Nothing /\ m = aux[h] /\ m.to \in links[h]

(* No step makes up an announcement. *)
LEMMA NetStep ==
    ASSUME TypeOK, [Next]_vars, NEW m \in net'
    PROVE  NetSteps(m)
  <1>2. CASE UNCHANGED vars
    BY <1>2 DEF vars, NetSteps
  <1>3. ASSUME NEW a \in Hosts, StartRoutes(a) PROVE NetSteps(m)
    BY <1>3 DEF StartRoutes, NetSteps
  <1>4. ASSUME NEW a \in Hosts, Serve(a) PROVE NetSteps(m)
    BY <1>4 DEF Serve, NetSteps
  <1>5. ASSUME NEW a \in Hosts, ReadEntry(a) PROVE NetSteps(m)
    BY <1>5 DEF ReadEntry, Copy, NetSteps
  <1>6. ASSUME NEW a \in Hosts, SendRoute(a) PROVE NetSteps(m)
    BY <1>6 DEF SendRoute, NetSteps
  <1>7. ASSUME NEW p \in net, HandleRoute(p) PROVE NetSteps(m)
    BY <1>7 DEF HandleRoute, NetSteps
  <1>8. ASSUME NEW a \in Hosts, NEW r \in Hosts, DisableLink(a, r) PROVE NetSteps(m)
    BY <1>8 DEF DisableLink, NetSteps
  <1>9. ASSUME NEW a \in Hosts, NEW r \in Hosts, EnableLink(a, r) PROVE NetSteps(m)
    BY <1>9 DEF EnableLink, NetSteps
  <1> QED BY <1>2, <1>3, <1>4, <1>5, <1>6, <1>7, <1>8, <1>9, NextCases

-----------------------------------------------------------------------------
(* Links are enabled for good in the history. *)
LEMMA EnabledStep ==
    ASSUME [Next]_vars
    PROVE  enabled \subseteq enabled'
  <1>1. CASE enabled' = enabled
    BY <1>1
  <1>2. CASE UNCHANGED vars
    BY <1>1, <1>2 DEF vars
  <1>3. ASSUME NEW a \in Hosts, StartRoutes(a) PROVE enabled \subseteq enabled'
    BY <1>1, <1>3 DEF StartRoutes
  <1>4. ASSUME NEW a \in Hosts, Serve(a) PROVE enabled \subseteq enabled'
    BY <1>1, <1>4 DEF Serve
  <1>5. ASSUME NEW a \in Hosts, ReadEntry(a) PROVE enabled \subseteq enabled'
    BY <1>1, <1>5 DEF ReadEntry, Copy
  <1>6. ASSUME NEW a \in Hosts, SendRoute(a) PROVE enabled \subseteq enabled'
    BY <1>1, <1>6 DEF SendRoute
  <1>7. ASSUME NEW m \in net, HandleRoute(m) PROVE enabled \subseteq enabled'
    BY <1>1, <1>7 DEF HandleRoute
  <1>8. ASSUME NEW a \in Hosts, NEW r \in Hosts, DisableLink(a, r) PROVE enabled \subseteq enabled'
    BY <1>1, <1>8 DEF DisableLink
  <1>9. ASSUME NEW a \in Hosts, NEW r \in Hosts, EnableLink(a, r) PROVE enabled \subseteq enabled'
    BY <1>9 DEF EnableLink
  <1> QED BY <1>2, <1>3, <1>4, <1>5, <1>6, <1>7, <1>8, <1>9, NextCases

(* So what is near or within some hops stays so. *)
LEMMA NearStays ==
    ASSUME [Next]_vars, NEW h \in Hosts
    PROVE  /\ Near(enabled, h) \subseteq Near(enabled', h)
           /\ \A k \in Nat : Within(enabled, h)[k] \subseteq Within(enabled', h)[k]
  <1>1. enabled \subseteq enabled'
    BY EnabledStep
  <1>2. Near(enabled, h) \subseteq Near(enabled', h)
    BY <1>1 DEF Near
  <1> QED BY <1>1, <1>2, WithinGrows

(* internalsendroute knows and serves only neighbours of the topology and  *)
(* hosts that were enabled; a host has no link to itself.                  *)
LinksInv ==
    \A h \in Hosts : /\ neighbors[h] \subseteq Near(enabled, h)
                     /\ serving[h] # 0 => serving[h] \in Near(enabled, h)
                     /\ h \notin links[h]

(* A step serves and keeps only such hosts. *)
LEMMA LinksStep ==
    ASSUME TypeOK, LinksInv, [Next]_vars
    PROVE  LinksInv'
  <1>0. SUFFICES \A h \in Hosts : /\ neighbors'[h] \subseteq Near(enabled', h)
                                  /\ serving'[h] # 0 => serving'[h] \in Near(enabled', h)
                                  /\ h \notin links'[h]
    BY DEF LinksInv
  <1> DEFINE G == \A h \in Hosts : /\ neighbors'[h] \subseteq Near(enabled', h)
                                   /\ serving'[h] # 0 => serving'[h] \in Near(enabled', h)
                                   /\ h \notin links'[h]
  <1>a. \A h \in Hosts : Near(enabled, h) \subseteq Near(enabled', h)
    BY NearStays
  <1>1. CASE neighbors' = neighbors /\ serving' = serving /\ links' = links
    BY <1>1, <1>a DEF LinksInv
  <1>2. CASE UNCHANGED vars
    BY <1>1, <1>2 DEF vars
  <1>3. ASSUME NEW a \in Hosts, StartRoutes(a) PROVE G
    BY <1>1, <1>3 DEF StartRoutes
  <1>4. ASSUME NEW a \in Hosts, Serve(a) PROVE G
    <2> DEFINE rest == {n \in neighbors[a] : n > serving[a]}
               v    == IF rest = {} THEN 0 ELSE Min(rest)
    <2>1. rest \in SUBSET Nat /\ rest \subseteq Near(enabled, a)
      BY DestFacts DEF TypeOK, LinksInv
    <2>2. v = 0 \/ v \in Near(enabled, a)
      BY <2>1, MinFacts
    <2>3. serving' = [serving EXCEPT ![a] = v] /\ neighbors' = neighbors /\ links' = links
      BY <1>4 DEF Serve
    <2> HIDE DEF v
    <2> QED BY <2>2, <2>3, <1>a DEF LinksInv, TypeOK
  <1>5. ASSUME NEW a \in Hosts, ReadEntry(a) PROVE G
    BY <1>1, <1>5 DEF ReadEntry, Copy
  <1>6. ASSUME NEW a \in Hosts, SendRoute(a) PROVE G
    BY <1>1, <1>6 DEF SendRoute
  <1>7. ASSUME NEW m \in net, HandleRoute(m) PROVE G
    BY <1>1, <1>7 DEF HandleRoute
  <1>8. ASSUME NEW a \in Hosts, NEW r \in Hosts, DisableLink(a, r) PROVE G
    BY <1>8, <1>a DEF DisableLink, LinksInv, TypeOK
  <1>9. ASSUME NEW a \in Hosts, NEW r \in Hosts, EnableLink(a, r) PROVE G
    <2>1. /\ neighbors' = [neighbors EXCEPT ![a] = @ \cup {r}] /\ serving' = serving
          /\ links' = [links EXCEPT ![a] = @ \cup ConfiguredLink(a, r)]
          /\ enabled' = enabled \cup {{a, r}}
      BY <1>9 DEF EnableLink
    <2>2. r \in Near(enabled', a)
      BY <2>1 DEF Near
    <2>3. a \notin ConfiguredLink(a, r)
      BY DestFacts DEF ConfiguredLink
    <2> QED BY <2>1, <2>2, <2>3, <1>a DEF LinksInv, TypeOK
  <1> QED BY <1>2, <1>3, <1>4, <1>5, <1>6, <1>7, <1>8, <1>9, NextCases

(* An announcement that is read or on the way is true of its receiver.  It *)
(* comes from another host.                                                *)
Sound(m) == /\ m.to \in Near(enabled, m.gateway)
            /\ m.cost # INFINITE_ROUTE => m.dest \in Within(enabled, m.to)[m.cost]
StaysSound(m) == /\ m.to \in Near(enabled', m.gateway)
                 /\ m.cost # INFINITE_ROUTE => m.dest \in Within(enabled', m.to)[m.cost]

MessagesInv ==
    /\ \A h \in Hosts : aux[h] # Nothing => Sound(aux[h]) /\ aux[h].gateway = h
    /\ \A m \in net : Sound(m) /\ m.to # m.gateway

(* An entry is true of its host: CostIsDistance, and the own entry too. *)
TablesInv ==
    \A h \in Hosts : \A d \in Dests :
        routes[h][d].cost # INFINITE_ROUTE =>
            /\ d \in Within(enabled, h)[routes[h][d].cost]
            /\ d # h => NextHop(h, d) \in Near(enabled, h)

(* What is true of an announcement stays so. *)
LEMMA SoundStays ==
    ASSUME [Next]_vars, NEW m \in Packet, Sound(m)
    PROVE  StaysSound(m)
  <1>1. m.to \in Hosts /\ m.gateway \in Hosts /\ m.cost \in Nat
    BY NothingFacts
  <1> QED BY <1>1, NearStays DEF Sound, StaysSound

(* A step reads an entry that is true of its host, and so, with one hop    *)
(* more, of the neighbour it is announced to.                              *)
LEMMA MessagesStep ==
    ASSUME TypeOK, LinksInv, MessagesInv, TablesInv, [Next]_vars
    PROVE  MessagesInv'
  <1>0. SUFFICES /\ \A h \in Hosts : aux'[h] # Nothing =>
                       StaysSound(aux'[h]) /\ aux'[h].gateway = h
                 /\ \A m \in net' : StaysSound(m) /\ m.to # m.gateway
    BY DEF MessagesInv, Sound, StaysSound
  <1>1. ASSUME NEW h \in Hosts, aux'[h] # Nothing
        PROVE  StaysSound(aux'[h]) /\ aux'[h].gateway = h
    <2>1. CASE aux'[h] = aux[h]
      <3>1. aux[h] \in Packet /\ Sound(aux[h]) /\ aux[h].gateway = h
        BY <1>1, <2>1 DEF MessagesInv, TypeOK
      <3> QED BY <2>1, <3>1, SoundStays
    <2>2. CASE /\ serving[h] # 0 /\ numberhost[h] \in Dests
               /\ routes[h][numberhost[h]].cost # INFINITE_ROUTE
               /\ aux'[h] = [to |-> serving[h], dest |-> numberhost[h],
                             cost |-> (routes[h][numberhost[h]].cost + 1) % COST_MODULUS,
                             gateway |-> h]
      <3> DEFINE g == serving[h]
                 d == numberhost[h]
                 c == routes[h][d].cost
                 p == (c + 1) % COST_MODULUS
      <3>1. g \in Near(enabled, h) /\ g \in Hosts /\ h \in Near(enabled, g)
        BY <2>2, NearFacts DEF LinksInv
      <3>2. c \in Cost /\ c \in Nat /\ p \in {0, c + 1}
        BY <2>2, EntryFacts, CostFacts
      <3>3. d \in Within(enabled, h)[c]
        BY <2>2 DEF TablesInv
      <3>4. d \in Within(enabled, g)[c + 1]
        BY <3>1, <3>2, <3>3, WithinNeighbour
      <3> DEFINE m == aux'[h]
      <3>5. m.to = g /\ m.dest = d /\ m.cost = p /\ m.gateway = h
        BY <2>2
      <3>6. p # INFINITE_ROUTE => d \in Within(enabled, g)[p]
        BY <3>2, <3>4 DEF INFINITE_ROUTE
      <3>7. p \in Nat
        BY <3>2
      <3> HIDE DEF g, d, p, c, m
      <3>8. StaysSound(m)
        BY <3>1, <3>5, <3>6, <3>7, NearStays DEF StaysSound
      <3> QED BY <3>5, <3>8 DEF m
    <2> QED BY <1>1, <2>1, <2>2, AuxStep DEF AuxSteps
  <1>2. ASSUME NEW m \in net' PROVE StaysSound(m) /\ m.to # m.gateway
    <2>1. CASE m \in net
      <3>1. m \in Packet /\ Sound(m) /\ m.to # m.gateway
        BY <2>1 DEF MessagesInv, TypeOK
      <3> QED BY <3>1, SoundStays
    <2>2. ASSUME NEW h \in Hosts, aux[h] # Nothing, m = aux[h], m.to \in links[h]
          PROVE  StaysSound(m) /\ m.to # m.gateway
      <3>1. m \in Packet /\ Sound(m) /\ m.gateway = h
        BY <2>2 DEF MessagesInv, TypeOK
      <3>2. m.to # h
        BY <2>2 DEF LinksInv
      <3> QED BY <3>1, <3>2, SoundStays
    <2> QED BY <2>1, <2>2, NetStep DEF NetSteps
  <1> QED BY <1>1, <1>2

(* A step enters a neighbour, the host itself or what was announced. *)
LEMMA TablesStep ==
    ASSUME TypeOK, LinksInv, MessagesInv, TablesInv, [Next]_vars
    PROVE  TablesInv'
  <1> SUFFICES ASSUME NEW h \in Hosts, NEW d \in Dests,
                      routes'[h][d].cost # INFINITE_ROUTE
               PROVE  /\ d \in Within(enabled', h)[routes'[h][d].cost]
                      /\ d # h => NextHop(h, d)' \in Near(enabled', h)
    BY DEF TablesInv
  <1>0. d \in Hosts
    BY DestFacts
  <1>a. /\ Near(enabled, h) \subseteq Near(enabled', h)
        /\ \A k \in Nat : Within(enabled, h)[k] \subseteq Within(enabled', h)[k]
    BY NearStays
  <1>1. CASE routes'[h][d] = routes[h][d]
    <2>1. routes[h][d].cost \in Nat
      BY EntryFacts
    <2>2. NextHop(h, d)' = NextHop(h, d)
      BY <1>1 DEF NextHop
    <2>3. /\ d \in Within(enabled, h)[routes[h][d].cost]
          /\ d # h => NextHop(h, d) \in Near(enabled, h)
      BY <1>1 DEF TablesInv
    <2> QED BY <1>1, <1>a, <2>1, <2>2, <2>3
  <1>2. CASE \/ d \in neighbors[h] \cup {h} /\ routes'[h][d] = [cost |-> 1, gateway |-> h]
             \/ {h, d} \in enabled' /\ routes'[h][d] = [cost |-> 1, gateway |-> d]
    <2>1. d \in Near(enabled', h) \cup {h}
      BY <1>0, <1>2, <1>a DEF LinksInv, Near
    <2>2. routes'[h][d].cost = 1 /\ routes'[h][d].gateway \in {h, d}
      BY <1>2
    <2>3. d \in Within(enabled', h)[1]
      <3>1. CASE d = h
        BY <3>1, SelfWithin
      <3>2. CASE d \in Near(enabled', h)
        <4>1. d \in Within(enabled', d)[0] /\ 0 \in Nat /\ 0 + 1 = 1
          BY <1>0, SelfWithin
        <4>2. Within(enabled', d)[0] \subseteq Within(enabled', h)[0 + 1]
          BY <3>2, WithinNeighbour
        <4> QED BY <4>1, <4>2
      <3> QED BY <2>1, <3>1, <3>2
    <2>4. NextHop(h, d)' = d
      BY <2>2 DEF NextHop
    <2> QED BY <2>1, <2>2, <2>3, <2>4
  <1>3. CASE routes'[h][d] = NoRoute
    BY <1>3 DEF NoRoute
  <1>4. ASSUME NEW m \in net, m.to = h, m.dest = d,
               routes'[h][d] = [cost |-> m.cost, gateway |-> m.gateway]
        PROVE  /\ d \in Within(enabled', h)[routes'[h][d].cost]
               /\ d # h => NextHop(h, d)' \in Near(enabled', h)
    <2>1. routes'[h][d].cost = m.cost /\ routes'[h][d].gateway = m.gateway
      BY <1>4
    <2>2. /\ m.gateway \in Hosts /\ m.cost \in Nat /\ m.gateway # h
          /\ h \in Near(enabled, m.gateway) /\ d \in Within(enabled, h)[m.cost]
      BY <1>4, <2>1, NothingFacts DEF MessagesInv, Sound, TypeOK
    <2>3. m.gateway \in Near(enabled, h)
      BY <2>2, NearFacts
    <2>4. NextHop(h, d)' = m.gateway
      BY <2>1, <2>2 DEF NextHop
    <2> QED BY <2>1, <2>2, <2>3, <2>4, <1>a
  <1>5. EntrySteps(h, d)
    BY EntryStep
  <1>6. \/ routes'[h][d] = routes[h][d]
        \/ d \in neighbors[h] \cup {h} /\ routes'[h][d] = [cost |-> 1, gateway |-> h]
        \/ {h, d} \in enabled' /\ routes'[h][d] = [cost |-> 1, gateway |-> d]
        \/ routes'[h][d] = NoRoute
        \/ \E m \in net : /\ m.to = h /\ m.dest = d
                          /\ routes'[h][d] = [cost |-> m.cost, gateway |-> m.gateway]
    BY <1>5 DEF EntrySteps
  <1> QED BY <1>1, <1>2, <1>3, <1>4, <1>6

-----------------------------------------------------------------------------
(* As long as no link has been disabled the host an announcement comes     *)
(* from still has a route as cheap as the one it announced.                *)
Cheaper(g, d, c) == routes[g][d].cost # INFINITE_ROUTE /\ routes[g][d].cost < c
StaysCheaper(g, d, c) == routes'[g][d].cost # INFINITE_ROUTE /\ routes'[g][d].cost < c

AnnouncedInv ==
    ~disabled =>
        /\ \A h \in Hosts : aux[h] # Nothing => Cheaper(h, aux[h].dest, aux[h].cost)
        /\ \A m \in net : Cheaper(m.gateway, m.dest, m.cost)

(* And no cost comes round: a route of cost c has passed c - 1 other hosts *)
(* that still have a cheaper one.                                          *)
Ahead(d, c) == {x \in Hosts : Cheaper(x, d, c)}
StaysAhead(d, c) == {x \in Hosts : StaysCheaper(x, d, c)}
Passed(d, c) == Cardinality(Ahead(d, c)) >= c - 1
StaysPassed(d, c) == Cardinality(StaysAhead(d, c)) >= c - 1

PassedInv ==
    ~disabled =>
        /\ \A h \in Hosts : \A d \in Dests :
              routes[h][d].cost # INFINITE_ROUTE => Passed(d, routes[h][d].cost)
        /\ \A h \in Hosts : aux[h] # Nothing => Passed(aux[h].dest, aux[h].cost)
        /\ \A m \in net : Passed(m.dest, m.cost)

(* The inductive invariant. *)
RoutingInv ==
    /\ TypeOK /\ LinksInv /\ MessagesInv /\ TablesInv
    /\ AnnouncedInv /\ PassedInv /\ RoutesDescend

(* The history of disabled links is not forgotten. *)
LEMMA DisabledStep ==
    ASSUME TypeOK, [Next]_vars, disabled
    PROVE  disabled'
  <1>2. CASE UNCHANGED vars
    BY <1>2 DEF vars
  <1>3. ASSUME NEW a \in Hosts, StartRoutes(a) PROVE disabled'
    BY <1>3 DEF StartRoutes
  <1>4. ASSUME NEW a \in Hosts, Serve(a) PROVE disabled'
    BY <1>4 DEF Serve
  <1>5. ASSUME NEW a \in Hosts, ReadEntry(a) PROVE disabled'
    BY <1>5 DEF ReadEntry, Copy
  <1>6. ASSUME NEW a \in Hosts, SendRoute(a) PROVE disabled'
    BY <1>6 DEF SendRoute
  <1>7. ASSUME NEW p \in net, HandleRoute(p) PROVE disabled'
    BY <1>7 DEF HandleRoute
  <1>8. ASSUME NEW a \in Hosts, NEW r \in Hosts, DisableLink(a, r) PROVE disabled'
    BY <1>8 DEF DisableLink
  <1>9. ASSUME NEW a \in Hosts, NEW r \in Hosts, EnableLink(a, r) PROVE disabled'
    BY <1>9 DEF EnableLink
  <1> QED BY <1>2, <1>3, <1>4, <1>5, <1>6, <1>7, <1>8, <1>9, NextCases

(* Without a disabled link a step makes no route dearer and loses none. *)
LEMMA Improves ==
    ASSUME TypeOK, AnnouncedInv, [Next]_vars, ~disabled', NEW h \in Hosts, NEW d \in Dests,
           NEW c \in Nat, Cheaper(h, d, c)
    PROVE  StaysCheaper(h, d, c)
  <1>0. ~disabled
    BY DisabledStep
  <1>1. routes[h][d].cost \in Nat /\ routes[h][d].cost # 0 /\ routes[h][d].cost < c
    BY EntryFacts DEF Cheaper, INFINITE_ROUTE
  <1>2. CASE routes'[h][d] = routes[h][d]
    BY <1>2 DEF Cheaper, StaysCheaper
  <1>3. CASE routes'[h][d].cost = 1
    BY <1>1, <1>3 DEF StaysCheaper, INFINITE_ROUTE
  <1>4. ASSUME NEW m \in net, m.to = h, m.dest = d, Better(m),
               routes'[h][d] = [cost |-> m.cost, gateway |-> m.gateway]
        PROVE  StaysCheaper(h, d, c)
    <2>1. m.cost \in Nat /\ m.cost # 0
      <3>1. m.cost \in Nat /\ m.gateway \in Hosts /\ m.dest \in Dests
        BY NothingFacts DEF TypeOK
      <3>2. Cheaper(m.gateway, m.dest, m.cost)
        BY <1>0 DEF AnnouncedInv
      <3>3. routes[m.gateway][m.dest].cost \in Nat
        BY <3>1, EntryFacts
      <3> QED BY <3>1, <3>2, <3>3 DEF Cheaper
    <2>2. m.cost < routes[h][d].cost
      BY <1>1, <1>4 DEF Better, INFINITE_ROUTE
    <2>3. routes'[h][d].cost = m.cost
      BY <1>4
    <2> QED BY <1>1, <2>1, <2>2, <2>3 DEF StaysCheaper, INFINITE_ROUTE
  <1>5. EntrySteps(h, d)
    BY EntryStep
  <1>6. \/ routes'[h][d] = routes[h][d] \/ routes'[h][d].cost = 1
        \/ \E m \in net : /\ m.to = h /\ m.dest = d /\ Better(m)
                          /\ routes'[h][d] = [cost |-> m.cost, gateway |-> m.gateway]
    BY <1>5 DEF EntrySteps
  <1> QED BY <1>2, <1>3, <1>4, <1>6

(* So whom a route has passed stays ahead. *)
LEMMA PassedStays ==
    ASSUME TypeOK, AnnouncedInv, [Next]_vars, ~disabled', NEW d \in Dests, NEW c \in Nat,
           Passed(d, c)
    PROVE  StaysPassed(d, c)
  <1>1. Ahead(d, c) \subseteq StaysAhead(d, c)
    BY Improves DEF Ahead, StaysAhead
  <1>2. IsFiniteSet(Hosts)
    BY FS_Interval, RoutingAssumption DEF Hosts
  <1>3. Ahead(d, c) \subseteq Hosts /\ StaysAhead(d, c) \subseteq Hosts
    BY DEF Ahead, StaysAhead
  <1> DEFINE A == Ahead(d, c)
             B == StaysAhead(d, c)
  <1>4. A \subseteq B /\ A \subseteq Hosts /\ B \subseteq Hosts
    BY <1>1, <1>3
  <1>5. Cardinality(A) >= c - 1
    BY DEF Passed
  <1> HIDE DEF A, B
  <1>6. IsFiniteSet(A) /\ IsFiniteSet(B)
    BY <1>2, <1>4, FS_Subset
  <1>7. Cardinality(A) <= Cardinality(B) /\ Cardinality(A) \in Nat /\ Cardinality(B) \in Nat
    BY <1>4, <1>6, FS_Subset, FS_CardinalityType
  <1>8. Cardinality(B) >= c - 1
    BY <1>5, <1>7
  <1> QED BY <1>8 DEF StaysPassed, B

(* A host that has passed others is not ahead of itself: costs stay below  *)
(* the number of hosts, and with its own route one more has been passed.   *)
LEMMA PassedMore ==
    ASSUME TypeOK, NEW h \in Hosts, NEW d \in Dests,
           routes[h][d].cost # INFINITE_ROUTE, Passed(d, routes[h][d].cost)
    PROVE  /\ routes[h][d].cost <= N
           /\ Passed(d, routes[h][d].cost + 1)
  <1> DEFINE c == routes[h][d].cost
             A == Ahead(d, c)
             B == Ahead(d, c + 1)
  <1>1. \A x \in Hosts : routes[x][d].cost \in Nat
    BY EntryFacts
  <1>2. c \in Nat /\ c # INFINITE_ROUTE
    BY <1>1
  <1>3. A \subseteq Hosts /\ B \subseteq Hosts /\ h \notin A /\ h \in B
    BY <1>1, <1>2 DEF Ahead, Cheaper
  <1>4. A \subseteq B
    BY <1>1, <1>2 DEF Ahead, Cheaper
  <1>5. Cardinality(A) >= c - 1
    BY DEF Passed
  <1>6. IsFiniteSet(Hosts) /\ Cardinality(Hosts) = N
    BY FS_Interval, RoutingAssumption DEF Hosts
  <1> HIDE DEF c, A, B
  <1>7. A \cup {h} \subseteq B /\ A \cup {h} \subseteq Hosts
    BY <1>3, <1>4
  <1>8. IsFiniteSet(A) /\ IsFiniteSet(B) /\ IsFiniteSet(A \cup {h})
    BY <1>3, <1>6, <1>7, FS_Subset
  <1>9. Cardinality(A \cup {h}) = Cardinality(A) + 1
    BY <1>3, <1>8, FS_AddElement
  <1>10. Cardinality(A \cup {h}) <= N /\ Cardinality(A \cup {h}) <= Cardinality(B)
    BY <1>6, <1>7, <1>8, FS_Subset
  <1>11. Cardinality(A) \in Nat /\ Cardinality(B) \in Nat /\ N \in Nat
    BY <1>8, FS_CardinalityType, RoutingAssumption
  <1>12. c <= N /\ Cardinality(B) >= (c + 1) - 1
    BY <1>2, <1>5, <1>9, <1>10, <1>11
  <1> QED BY <1>12 DEF Passed, B, c

(* So what was announced stays true of the host that announced it ... *)
LEMMA AnnouncedStep ==
    ASSUME TypeOK, MessagesInv, AnnouncedInv, PassedInv, [Next]_vars
    PROVE  AnnouncedInv'
  <1> SUFFICES ASSUME ~disabled'
               PROVE  /\ \A h \in Hosts : aux'[h] # Nothing =>
                            StaysCheaper(h, aux'[h].dest, aux'[h].cost)
                      /\ \A m \in net' : StaysCheaper(m.gateway, m.dest, m.cost)
    BY DEF AnnouncedInv, Cheaper, StaysCheaper
  <1>1. ~disabled
    BY DisabledStep
  <1>2. ASSUME NEW h \in Hosts, aux[h] # Nothing
        PROVE  StaysCheaper(h, aux[h].dest, aux[h].cost) /\ aux[h].gateway = h
    <2>1. aux[h] \in Packet
      BY <1>2 DEF TypeOK
    <2>2. aux[h].dest \in Dests /\ aux[h].cost \in Nat /\ aux[h].gateway = h
      BY <1>2, <2>1, NothingFacts DEF MessagesInv
    <2>3. Cheaper(h, aux[h].dest, aux[h].cost)
      BY <1>1, <1>2 DEF AnnouncedInv
    <2> QED BY <2>2, <2>3, Improves
  <1>3. ASSUME NEW m \in net PROVE StaysCheaper(m.gateway, m.dest, m.cost)
    <2>1. m.dest \in Dests /\ m.cost \in Nat /\ m.gateway \in Hosts
      BY NothingFacts DEF TypeOK
    <2>2. Cheaper(m.gateway, m.dest, m.cost)
      BY <1>1 DEF AnnouncedInv
    <2> QED BY <2>1, <2>2, Improves
  <1>4. ASSUME NEW h \in Hosts, aux'[h] # Nothing
        PROVE  StaysCheaper(h, aux'[h].dest, aux'[h].cost)
    <2>1. CASE aux'[h] = aux[h]
      BY <2>1, <1>2, <1>4
    <2>2. CASE /\ numberhost[h] \in Dests
               /\ routes[h][numberhost[h]].cost # INFINITE_ROUTE
               /\ routes' = routes
               /\ aux'[h] = [to |-> serving[h], dest |-> numberhost[h],
                             cost |-> (routes[h][numberhost[h]].cost + 1) % COST_MODULUS,
                             gateway |-> h]
      <3>1. routes[h][numberhost[h]].cost \in Cost /\ routes[h][numberhost[h]].cost \in Nat
        BY <2>2, EntryFacts
      <3>2. routes[h][numberhost[h]].cost <= N
        BY <1>1, <2>2, PassedMore DEF PassedInv
      <3>3. /\ aux'[h].dest = numberhost[h]
            /\ aux'[h].cost = routes[h][numberhost[h]].cost + 1
        BY <2>2, <3>1, <3>2, CostFacts
      <3> QED BY <2>2, <3>1, <3>3 DEF StaysCheaper
    <2> QED BY <1>4, <2>1, <2>2, AuxStep DEF AuxSteps
  <1>5. ASSUME NEW m \in net' PROVE StaysCheaper(m.gateway, m.dest, m.cost)
    <2>1. m \in net \/ \E h \in Hosts : aux[h] # Nothing /\ m = aux[h]
      BY NetStep DEF NetSteps
    <2> QED BY <2>1, <1>2, <1>3
  <1> QED BY <1>4, <1>5

(* ... and so does what it has passed. *)
LEMMA PassedStep ==
    ASSUME TypeOK, AnnouncedInv, PassedInv, [Next]_vars
    PROVE  PassedInv'
  <1> SUFFICES ASSUME ~disabled'
               PROVE  /\ \A h \in Hosts : \A d \in Dests :
                            routes'[h][d].cost # INFINITE_ROUTE =>
                                StaysPassed(d, routes'[h][d].cost)
                      /\ \A h \in Hosts : aux'[h] # Nothing =>
                            StaysPassed(aux'[h].dest, aux'[h].cost)
                      /\ \A m \in net' : StaysPassed(m.dest, m.cost)
    BY DEF PassedInv, Passed, StaysPassed, Ahead, StaysAhead, Cheaper, StaysCheaper
  <1>1. ~disabled
    BY DisabledStep
  <1>2. ASSUME NEW m \in Packet, Passed(m.dest, m.cost)
        PROVE  StaysPassed(m.dest, m.cost)
    BY <1>2, NothingFacts, PassedStays
  <1>3. ASSUME NEW h \in Hosts, NEW d \in Dests, routes'[h][d].cost # INFINITE_ROUTE
        PROVE  StaysPassed(d, routes'[h][d].cost)
    <2>1. CASE routes'[h][d] = routes[h][d]
      <3>1. routes[h][d].cost \in Nat
        BY EntryFacts
      <3>2. Passed(d, routes[h][d].cost)
        BY <1>1, <1>3, <2>1 DEF PassedInv
      <3> QED BY <2>1, <3>1, <3>2, PassedStays
    <2>2. CASE routes'[h][d].cost = 1
      <3>1. IsFiniteSet(Hosts) /\ StaysAhead(d, 1) \subseteq Hosts
        BY FS_Interval, RoutingAssumption DEF Hosts, StaysAhead
      <3>2. IsFiniteSet(StaysAhead(d, 1))
        BY <3>1, FS_Subset
      <3>3. Cardinality(StaysAhead(d, 1)) \in Nat
        BY <3>2, FS_CardinalityType
      <3> QED BY <2>2, <3>3 DEF StaysPassed
    <2>3. ASSUME NEW m \in net, m.dest = d,
                 routes'[h][d] = [cost |-> m.cost, gateway |-> m.gateway]
          PROVE  StaysPassed(d, routes'[h][d].cost)
      <3>1. m \in Packet /\ Passed(m.dest, m.cost)
        BY <1>1 DEF TypeOK, PassedInv
      <3> QED BY <1>2, <2>3, <3>1
    <2>4. EntrySteps(h, d)
      BY EntryStep
    <2>5. \/ routes'[h][d] = routes[h][d] \/ routes'[h][d].cost = 1
          \/ \E m \in net : /\ m.dest = d
                            /\ routes'[h][d] = [cost |-> m.cost, gateway |-> m.gateway]
      BY <2>4 DEF EntrySteps
    <2> QED BY <2>1, <2>2, <2>3, <2>5
  <1>4. ASSUME NEW h \in Hosts, aux'[h] # Nothing
        PROVE  StaysPassed(aux'[h].dest, aux'[h].cost)
    <2>1. CASE aux'[h] = aux[h]
      <3>1. aux[h] \in Packet /\ Passed(aux[h].dest, aux[h].cost)
        BY <1>1, <1>4, <2>1 DEF TypeOK, PassedInv
      <3> QED BY <1>2, <2>1, <3>1
    <2>2. CASE /\ numberhost[h] \in Dests
               /\ routes[h][numberhost[h]].cost # INFINITE_ROUTE
               /\ aux'[h] = [to |-> serving[h], dest |-> numberhost[h],
                             cost |-> (routes[h][numberhost[h]].cost + 1) % COST_MODULUS,
                             gateway |-> h]
      <3> DEFINE d == numberhost[h]
                 c == routes[h][d].cost
      <3>1. c \in Cost /\ c \in Nat
        BY <2>2, EntryFacts
      <3>2. c <= N /\ Passed(d, c + 1)
        BY <1>1, <2>2, PassedMore DEF PassedInv
      <3>3. aux'[h].dest = d /\ aux'[h].cost = c + 1
        BY <2>2, <3>1, <3>2, CostFacts
      <3>4. StaysPassed(d, c + 1)
        BY <2>2, <3>1, <3>2, PassedStays
      <3> QED BY <3>3, <3>4
    <2> QED BY <1>4, <2>1, <2>2, AuxStep DEF AuxSteps
  <1>5. ASSUME NEW m \in net' PROVE StaysPassed(m.dest, m.cost)
    <2>1. m \in net \/ \E h \in Hosts : aux[h] # Nothing /\ m = aux[h]
      BY NetStep DEF NetSteps
    <2>2. m \in Packet /\ Passed(m.dest, m.cost)
      BY <1>1, <2>1 DEF TypeOK, PassedInv
    <2> QED BY <1>2, <2>2
  <1> QED BY <1>3, <1>4, <1>5

(* The route of h for d leads to d or to a host with a cheaper one. *)
Descends(h, d) ==
    NextHop(h, d) = d \/ (NextHop(h, d) \in Hosts /\ Cheaper(NextHop(h, d), d, routes[h][d].cost))

(* RoutesDescend, host by host. *)
LEMMA DescendsDef ==
    RoutesDescend <=>
        (~disabled => \A h \in Hosts : \A d \in Dests \ {h} :
                          routes[h][d].cost # INFINITE_ROUTE => Descends(h, d))
  BY DEF RoutesDescend, Descends, Cheaper

(* ... and a route that is taken over leads to a host with a cheaper one. *)
LEMMA DescendStep ==
    ASSUME TypeOK, MessagesInv, AnnouncedInv, RoutesDescend, [Next]_vars
    PROVE  RoutesDescend'
  <1> SUFFICES ASSUME ~disabled', NEW h \in Hosts, NEW d \in Dests \ {h},
                      routes'[h][d].cost # INFINITE_ROUTE
               PROVE  \/ NextHop(h, d)' = d
                      \/ /\ NextHop(h, d)' \in Hosts
                         /\ StaysCheaper(NextHop(h, d)', d, routes'[h][d].cost)
    BY DEF RoutesDescend, StaysCheaper
  <1>1. ~disabled
    BY DisabledStep
  <1>2. CASE routes'[h][d] = routes[h][d]
    <2>1. NextHop(h, d)' = NextHop(h, d)
      BY <1>2 DEF NextHop
    <2>2. routes[h][d].cost \in Nat
      BY EntryFacts
    <2>3. Descends(h, d)
      BY <1>1, <1>2, DescendsDef
    <2>4. CASE NextHop(h, d) = d
      BY <2>1, <2>4
    <2>5. CASE NextHop(h, d) \in Hosts /\ Cheaper(NextHop(h, d), d, routes[h][d].cost)
      <3>1. StaysCheaper(NextHop(h, d), d, routes[h][d].cost)
        BY <2>2, <2>5, Improves
      <3> QED BY <1>2, <2>1, <2>5, <3>1
    <2> QED BY <2>3, <2>4, <2>5 DEF Descends
  <1>3. CASE \/ routes'[h][d] = [cost |-> 1, gateway |-> h]
             \/ routes'[h][d] = [cost |-> 1, gateway |-> d]
    BY <1>3 DEF NextHop
  <1>4. ASSUME NEW m \in net, m.to = h, m.dest = d,
               routes'[h][d] = [cost |-> m.cost, gateway |-> m.gateway]
        PROVE  \/ NextHop(h, d)' = d
               \/ /\ NextHop(h, d)' \in Hosts
                  /\ StaysCheaper(NextHop(h, d)', d, routes'[h][d].cost)
    <2>1. m.gateway \in Hosts /\ m.cost \in Nat
      BY NothingFacts DEF TypeOK
    <2>2. StaysCheaper(m.gateway, d, m.cost)
      BY <1>1, <1>4, <2>1, Improves DEF AnnouncedInv
    <2>3. routes'[h][d].cost = m.cost /\ NextHop(h, d)' \in {d, m.gateway}
      BY <1>4 DEF NextHop
    <2> QED BY <2>1, <2>2, <2>3
  <1>5. EntrySteps(h, d)
    BY EntryStep
  <1>6. \/ routes'[h][d] = routes[h][d]
        \/ routes'[h][d] = [cost |-> 1, gateway |-> h]
        \/ routes'[h][d] = [cost |-> 1, gateway |-> d]
        \/ \E m \in net : /\ m.to = h /\ m.dest = d
                          /\ routes'[h][d] = [cost |-> m.cost, gateway |-> m.gateway]
    BY <1>5 DEF EntrySteps
  <1> QED BY <1>2, <1>3, <1>4, <1>6

-----------------------------------------------------------------------------
(* k + 1 steps from a are k steps from F[a]. *)
LEMMA StepsShift ==
    ASSUME NEW S, NEW a \in S, NEW F \in [S -> S], NEW k \in Nat
    PROVE  Steps(F, a)[k + 1] = Steps(F, F[a])[k]
  <1> DEFINE s == Steps(F, a)
             t == Steps(F, F[a])
             T == {j \in Nat : s[j + 1] # t[j]}
  <1>1. F[a] \in S
    OBVIOUS
  <1>2. s[0] = a /\ \A j \in Nat : s[j + 1] = F[s[j]]
    BY StepsFacts
  <1>3. t[0] = F[a] /\ \A j \in Nat : t[j + 1] = F[t[j]]
    BY <1>1, StepsFacts
  <1> HIDE DEF s, t
  <1>4. SUFFICES ASSUME T # {} PROVE FALSE
    BY DEF s, t
  <1>5. PICK x \in T : \A y \in T : x <= y
    BY <1>4, Least
  <1>6. x \in Nat /\ s[x + 1] # t[x]
    OBVIOUS
  <1>7. x # 0
    BY <1>2, <1>3, <1>6
  <1>8. x - 1 \in Nat /\ (x - 1) + 1 = x /\ ~(x <= x - 1)
    BY <1>6, <1>7
  <1>9. s[(x - 1) + 1] = t[x - 1]
    BY <1>5, <1>8
  <1>10. s[x + 1] = F[s[x]] /\ t[(x - 1) + 1] = F[t[x - 1]]
    BY <1>2, <1>3, <1>6, <1>8
  <1> QED BY <1>6, <1>8, <1>9, <1>10

(* Who arrives where F stands still stays there. *)
LEMMA StepsStay ==
    ASSUME NEW S, NEW a \in S, NEW F \in [S -> S], NEW d \in S, F[d] = d,
           NEW k \in Nat, NEW j \in Nat, k <= j, Steps(F, a)[k] = d
    PROVE  Steps(F, a)[j] = d
  <1> DEFINE s == Steps(F, a)
             T == {i \in Nat : k <= i /\ s[i] # d}
  <1>1. s[k] = d /\ \A i \in Nat : s[i + 1] = F[s[i]]
    BY StepsFacts
  <1> HIDE DEF s
  <1>2. SUFFICES ASSUME T # {} PROVE FALSE
    BY DEF s
  <1>3. PICK x \in T : \A y \in T : x <= y
    BY <1>2, Least
  <1>4. x \in Nat /\ k <= x /\ s[x] # d /\ x # k
    BY <1>1
  <1>5. x - 1 \in Nat /\ (x - 1) + 1 = x /\ ~(x <= x - 1) /\ k <= x - 1
    BY <1>4
  <1>6. s[x - 1] = d
    BY <1>3, <1>5
  <1>7. s[(x - 1) + 1] = F[s[x - 1]]
    BY <1>1, <1>5
  <1> QED BY <1>4, <1>5, <1>6, <1>7

(* A packet for d stops at d and goes to the next hop from elsewhere. *)
LEMMA ForwardFacts ==
    ASSUME TypeOK, NEW d \in Dests
    PROVE  /\ Forward(d) \in [Hosts \cup {0} -> Hosts \cup {0}]
           /\ Forward(d)[d] = d
           /\ \A h \in Hosts \ {d} : Forward(d)[h] = NextHop(h, d)
  <1>1. d \in Hosts /\ 0 \notin Hosts
    BY DestFacts
  <1>2. ASSUME NEW h \in Hosts PROVE NextHop(h, d) \in Hosts \cup {0}
    BY <1>1 DEF TypeOK, Entry, NextHop, INFINITE_ROUTE
  <1> QED BY <1>1, <1>2 DEF Forward

(* Where every next hop has a cheaper route, a packet arrives: a packet of *)
(* least cost that did not would be one of a cheaper host the hop after.   *)
LEMMA DescendArrives ==
    ASSUME TypeOK, RoutesDescend
    PROVE  LoopFree
  <1> SUFFICES ASSUME ~disabled PROVE \A h \in Hosts : \A d \in Dests \ {h} :
            routes[h][d].cost # INFINITE_ROUTE => Walk(h, d)[routes[h][d].cost] = d
    BY DEF LoopFree
  <1> DEFINE Astray(h, d) == /\ routes[h][d].cost # INFINITE_ROUTE
                             /\ Walk(h, d)[routes[h][d].cost] # d
             T == {c \in Nat : \E h \in Hosts : \E d \in Dests \ {h} :
                                  routes[h][d].cost = c /\ Astray(h, d)}
  <1>1. \A h \in Hosts, d \in Dests : routes[h][d].cost \in Nat
    BY EntryFacts
  <1>2. SUFFICES ASSUME T # {} PROVE FALSE
    BY <1>1
  <1>3. PICK c \in T : \A y \in T : c <= y
    BY <1>2, Least
  <1>4. PICK h \in Hosts : \E d \in Dests \ {h} : routes[h][d].cost = c /\ Astray(h, d)
    BY <1>3
  <1>5. PICK d \in Dests \ {h} : routes[h][d].cost = c /\ Astray(h, d)
    BY <1>4
  <1>6. c \in Nat /\ c # 0 /\ Walk(h, d)[c] # d
    BY <1>5 DEF INFINITE_ROUTE
  <1>7. c - 1 \in Nat /\ (c - 1) + 1 = c
    BY <1>6
  <1> DEFINE n == NextHop(h, d)
             S == Hosts \cup {0}
             F == Forward(d)
  <1>8. F \in [S -> S] /\ F[d] = d /\ F[h] = n /\ h \in S /\ d \in S
    BY ForwardFacts, DestFacts
  <1>9. Walk(h, d) = Steps(F, h) /\ Walk(n, d) = Steps(F, n)
    BY DEF Walk
  <1>10. Descends(h, d)
    BY <1>5, DescendsDef
  <1> HIDE DEF F, S, n
  <1>11. n \in S
    BY <1>8
  <1>12. Walk(h, d)[c] = Walk(n, d)[c - 1]
    <2>1. Steps(F, h)[(c - 1) + 1] = Steps(F, F[h])[c - 1]
      BY <1>7, <1>8, StepsShift
    <2> QED BY <2>1, <1>7, <1>8, <1>9
  <1>13. CASE n = d
    <2>1. Walk(n, d)[0] = d
      BY <1>8, <1>9, <1>11, <1>13, StepsFacts
    <2>2. 0 \in Nat /\ 0 <= c - 1
      BY <1>7
    <2>3. Steps(F, n)[c - 1] = d
      BY <2>1, <2>2, <1>7, <1>8, <1>9, <1>11, StepsStay
    <2> QED BY <2>3, <1>6, <1>9, <1>12
  <1>14. CASE n # d /\ n \in Hosts /\ Cheaper(n, d, c)
    <2> DEFINE b == routes[n][d].cost
    <2>1. b \in Nat /\ b # INFINITE_ROUTE /\ b < c /\ d \in Dests \ {n}
      BY <1>1, <1>14 DEF Cheaper
    <2>2. b \notin T
      BY <2>1, <1>3, <1>6
    <2>3. Walk(n, d)[b] = d
      BY <2>1, <2>2, <1>14
    <2>4. b <= c - 1
      BY <2>1, <1>6
    <2> HIDE DEF b
    <2>5. Steps(F, n)[c - 1] = d
      BY <2>1, <2>3, <2>4, <1>7, <1>8, <1>9, <1>11, StepsStay
    <2> QED BY <2>5, <1>6, <1>9, <1>12
  <1> QED BY <1>5, <1>10, <1>13, <1>14 DEF Descends, n

-----------------------------------------------------------------------------
(* The tables are empty and nothing is announced at first. *)
LEMMA RoutingInit ==
    ASSUME Init
    PROVE  RoutingInv
  <1>1. TypeOK
    BY TypeInit
  <1>2. LinksInv
    <2>1. ASSUME NEW h \in Hosts PROVE Linked(h) \subseteq Near(enabled, h) /\ h \notin Linked(h)
      BY LinkedFacts DEF Linked, Near
    <2> QED BY <2>1 DEF Init, LinksInv
  <1>3. MessagesInv /\ AnnouncedInv
    BY DEF Init, MessagesInv, AnnouncedInv
  <1>4. \A h \in Hosts, d \in Dests : routes[h][d].cost = INFINITE_ROUTE
    BY DEF Init, NoRoute
  <1>5. PassedInv
    BY <1>4 DEF Init, PassedInv
  <1> QED BY <1>1, <1>2, <1>3, <1>4, <1>5 DEF TablesInv, RoutesDescend, RoutingInv

(* The invariant is inductive. *)
LEMMA RoutingStep ==
    ASSUME RoutingInv, [Next]_vars
    PROVE  RoutingInv'
  BY TypeStep, LinksStep, MessagesStep, TablesStep, AnnouncedStep, PassedStep, DescendStep
     DEF RoutingInv

(* The inductive invariant holds in every reachable state of any topology. *)
THEOREM TablesConsistent == Spec => []RoutingInv
  BY RoutingInit, RoutingStep, PTL DEF Spec

(* No table is better than the network (CostIsDistance), whatever is lost, *)
(* late, disabled or enabled: the cost internalhandleroute keeps bounds the *)
(* distance in the network with the links that were enabled, and           *)
(* hostreachable names a neighbour in it.                                  *)
THEOREM CostBound == Spec => []CostIsDistance
  <1>1. RoutingInv => CostIsDistance
    BY DEF RoutingInv, TablesInv, CostIsDistance
  <1> QED BY <1>1, TablesConsistent, PTL

(* Until the menu disables a link, the neighbour hostreachable names is the *)
(* destination or has a cheaper route to it (RoutesDescend).               *)
THEOREM NextHopCloser == Spec => []RoutesDescend
  <1>1. RoutingInv => RoutesDescend
    BY DEF RoutingInv
  <1> QED BY <1>1, TablesConsistent, PTL

(* Until then no packet goes round: following the tables from any host leads *)
(* to the destination in at most as many hops as the cost says (LoopFree). *)
THEOREM PacketsArrive == Spec => []LoopFree
  <1>1. RoutingInv => LoopFree
    BY DescendArrives DEF RoutingInv
  <1> QED BY <1>1, TablesConsistent, PTL
=============================================================================
