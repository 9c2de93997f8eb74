--------------------------------- MODULE Routes ---------------------------------
(***************************************************************************)
(* What the routers of Computer Networks/Project 2 have in common, and the *)
(* reference their routes are compared with.                               *)
(***************************************************************************)
EXTENDS RoutingSimulator

Least(S) == CHOOSE x \in S : \A y \in S : x <= y

\* The cheapest route through one of some neighbours, the first that offers
\* it; via is the cost through each.
Cheapest(via) ==
    LET min == Least({CostInfinity} \cup {via[j] : j \in DOMAIN via})
    IN  IF min = CostInfinity THEN NoRoute
        ELSE [hop |-> Least({j \in DOMAIN via : via[j] = min}), cost |-> min]

\* The ends of a link that comes up.
CameUp ==
    LET a == event.node
        b == event.neighbor
    IN  IF event.type = "link" /\ LinkCost(topology, a, b) = CostInfinity
                               /\ LinkCost(Topology, a, b) # CostInfinity
        THEN {<<a, b>>, <<b, a>>} ELSE {}

-----------------------------------------------------------------------------
\* Paths with costs closer are continued over one more link, from one of near.
Farther(closer, near, cost) ==
    [d \in Node |-> Least({closer[d]} \cup {COST_ADD(closer[m], cost[m][d]) : m \in near})]

\* The costs of the shortest paths; if near, of the shortest of those whose
\* nodes between the ends are all neighbours of the first.
ShortestWithin(near) ==
    LET cost == [n \in Node |-> [d \in Node |-> LinkCost(topology, n, d)]]
        inner(n) == IF near THEN Neighbors(topology, n) ELSE Node
        dist[k \in 0..N] ==
          IF k = 0 THEN cost
          ELSE [n \in Node |-> Farther(dist[k - 1][n], inner(n), cost)]
    IN  dist[N]

\* Node n is about to be told of a link change.
Pending(n) == \E k \in DOMAIN events : events[k].type = "link" /\ events[k].node = n

\* Where a packet from n to d gets by the routes, to one of ends or after N
\* hops at most.
Follow(n, d, ends) ==
    LET at[k \in 0..N] ==
          IF k = 0 THEN n
          ELSE LET m == at[k - 1] IN IF m \in {0} \cup ends THEN m ELSE routes[m][d].hop
    IN  at[N]
=================================================================================
