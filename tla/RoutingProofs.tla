------------------------------ MODULE RoutingProofs ------------------------------
(***************************************************************************)
(* Proofs about the four routing protocols, for any number of nodes, any   *)
(* cost that stands for infinity, any networks and any link changes at any *)
(* times: types, routes that use links, the versions of flooded link       *)
(* states, and the routes that link states, distance vectors and path      *)
(* vectors settle on.                                                      *)
(* SimInv is all of the inductive invariant but what is particular to link *)
(* states; each router is shown to make something Sound of an event, and   *)
(* ProcessStep that what is sound keeps SimInv.                            *)
(***************************************************************************)
EXTENDS Routing, FiniteSetTheorems, WellFoundedInduction, TLAPS

-----------------------------------------------------------------------------
(* The inductive invariants. *)

\* Two notifications of one change, to the one end of the link and the other.
Mates(e, f) == f.node = e.neighbor /\ f.neighbor = e.node /\ f.cost = e.cost

\* First p pairs of notifications, then messages.
PairsFirst(q, p) ==
    /\ 2 * p <= Len(q)
    /\ \A k \in 1..p : /\ q[2 * k - 1] \in LinkEvents /\ q[2 * k] \in LinkEvents
                      /\ Mates(q[2 * k - 1], q[2 * k])
    /\ \A k \in (2 * p + 1)..Len(q) : q[k] \in Messages

InPairs(q) == \E p \in 0..Len(q) : PairsFirst(q, p)

\* The other end of the link was told before: the topology has the change.
HalfTold ==
    /\ events # <<>> /\ event \in LinkEvents
    /\ topology[LinkOf(event.node, event.neighbor)] = event.cost

\* Nothing comes between the two notifications of a change, and the link
\* changes of a time come before its messages.
EventsInOrder == InPairs(events) \/ (HalfTold /\ InPairs(Tail(events)))

\* With link states, a node knows its own links as they are, up to a change
\* that it is told of next.
OwnLinksKnown ==
    protocol = "ls" =>
        \A n, j \in Node :
            \/ node_states[n][n].link_cost[j] = LinkCost(topology, n, j)
            \/ HalfTold /\ event.node = n /\ event.neighbor = j

\* There is no route to oneself.
NoRouteToOneself == \A n \in Node : routes[n][n].hop = 0

IndInv ==
    /\ TypeOK /\ EventsInOrder /\ OwnLinksKnown /\ NoRouteToOneself
    /\ RoutesUseLinks /\ CopiesAreOld

\* With link states, the routes are at all times the shortest by what the node
\* knows.
RoutesAsKnown ==
    protocol = "ls" =>
        \A n, d \in Node :
            n # d => routes[n][d].cost = LS!ShortestKnown(node_states[n], n)[d]

\* Each end of a link knows the other end's link state, or it is on its way,
\* or the other end is told of the link next.
NeighborsHeard ==
    protocol = "ls" =>
        \A c \in Node : \A n \in Neighbors(topology, c) :
            LS!Heard(n, c) \/ (HalfTold /\ event.node = c /\ event.neighbor = n)

\* With distance vectors, a node's routes are the cheapest by its table, unless
\* it is told next of a link, and its own costs are those of its routes.
RoutesByTable ==
    protocol \in {"dv", "dvrpp"} =>
        \A n \in Node :
            /\ \/ HalfTold /\ event.node = n
               \/ \A i \in Node \ {n} :
                     routes[n][i] =
                         Cheapest([j \in Neighbors(topology, n) |->
                             COST_ADD(LinkCost(topology, n, j), node_states[n].cost[j][i])])
            /\ \A i \in Node :
                  node_states[n].cost[n][i] = IF i = n THEN 0 ELSE routes[n][i].cost

\* What node c tells node n of its costs, when its table is s.
Offered(s, c, n) == IF protocol = "dv" THEN DV!Vector(s, c, n) ELSE RPP!Vector(s, c, n)

\* A message from node c to node n.
Tells(e, n, c) == e.type = "message" /\ e.node = n /\ e.neighbor = c

\* Once all messages of q have come, node n, which has x of node c, has v of it:
\* the last one is v.
Latest(q, n, c, x, v) ==
    /\ \A k \in 1..Len(q) :
          Tells(q[k], n, c) /\ (\A j \in (k + 1)..Len(q) : ~Tells(q[j], n, c))
              => q[k].content = v
    /\ (\A k \in 1..Len(q) : ~Tells(q[k], n, c)) => x = v

\* Each end of a link has, or is being told of, the other's costs, unless the
\* other has told nothing since the link came up.
VectorsHeard ==
    protocol \in {"dv", "dvrpp"} =>
        \A c \in Node : \A n \in Neighbors(topology, c) :
            \/ <<c, n>> \in unheard
            \/ Latest(events \o later, n, c, node_states[n].cost[c],
                      Offered(node_states[c], c, n))

\* No link costs nothing, nor will one.
LinksCost ==
    /\ \A l \in Links : topology[l] # 0
    /\ \A k \in DOMAIN events : events[k].type = "link" => events[k].cost # 0

-----------------------------------------------------------------------------
(* Least members, and recursive functions. *)

\* A nonempty set of natural numbers has a least member.
LEMMA LeastNatural ==
    ASSUME NEW S \in SUBSET Nat, S # {}
    PROVE  Least(S) \in S /\ \A y \in S : Least(S) =< y
<1>1. PICK m \in S : \A n \in S : ~ (<<n, m>> \in OpToRel(<, Nat))
  BY WFMin, NatLessThanWellFounded
<1>2. \A n \in S : ~(n < m)
  BY <1>1 DEF OpToRel
<1> DEFINE IsLeast(x) == x \in S /\ \A y \in S : x =< y
<1>3. IsLeast(CHOOSE x : IsLeast(x))
  <2> HIDE DEF IsLeast
  <2>1. IsLeast(m)
    BY <1>2 DEF IsLeast
  <2> QED
    BY <2>1, Zenon
<1>4. Least(S) = CHOOSE x : IsLeast(x)
  BY Zenon DEF Least
<1> QED
  BY <1>3, <1>4, Zenon

\* What the first number has and each hands on to the next, all have.
LEMMA FromStepToStep ==
    ASSUME NEW M \in Nat, NEW S, 0 \in S, \A k \in 1..M : k - 1 \in S => k \in S
    PROVE  \A k \in 0..M : k \in S
<1> DEFINE Missing == {k \in 0..M : k \notin S}
<1>1. SUFFICES ASSUME Missing # {} PROVE FALSE
  OBVIOUS
<1>2. Missing \in SUBSET Nat
  OBVIOUS
<1>3. PICK m \in Missing : \A k \in Missing : m =< k
  BY <1>1, <1>2, LeastNatural
<1>4. m # 0 /\ m \in 1..M /\ m - 1 \in 0..M /\ ~(m =< m - 1)
  BY <1>3
<1> QED
  BY <1>3, <1>4

\* A recursive definition by steps within a set T has a solution.
LEMMA RecursionDefined ==
    ASSUME NEW M \in Nat, NEW T, NEW a \in T, NEW F \in [1..M -> [T -> T]]
    PROVE  \E f \in [0..M -> T] :
               /\ f[0] = a
               /\ \A k \in 1..M : f[k] = F[k][f[k - 1]]
<1> DEFINE Solves(f, m) == \A k \in 0..m : f[k] = IF k = 0 THEN a ELSE F[k][f[k - 1]]
           Solved == {m \in 0..M : \E f \in [0..m -> T] : Solves(f, m)}
<1>1. \A m : m \in Solved <=> m \in 0..M /\ \E f \in [0..m -> T] : Solves(f, m)
  OBVIOUS
<1> HIDE DEF Solved
<1>2. 0 \in Solved
  <2> DEFINE f == [k \in 0..0 |-> a]
  <2>1. f \in [0..0 -> T]
    OBVIOUS
  <2>2. Solves(f, 0)
    <3>1. \A k \in 0..0 : k = 0 /\ f[k] = a
      OBVIOUS
    <3> QED
      BY <3>1
  <2>3. 0 \in 0..M
    OBVIOUS
  <2> HIDE DEF f, Solves
  <2> QED
    BY <1>1, <2>1, <2>2, <2>3, Zenon
<1>3. ASSUME NEW m \in 1..M, m - 1 \in Solved PROVE m \in Solved
  <2>1. PICK g \in [0..(m - 1) -> T] : Solves(g, m - 1)
    BY <1>1, <1>3
  <2> DEFINE f == [k \in 0..m |-> IF k = m THEN F[m][g[m - 1]] ELSE g[k]]
  <2>2. m - 1 \in 0..(m - 1) /\ g[m - 1] \in T
    OBVIOUS
  <2>3. F[m][g[m - 1]] \in T
    BY <2>2
  <2>4. f \in [0..m -> T]
    BY <2>3
  <2>5. ASSUME NEW k \in 0..m PROVE f[k] = IF k = 0 THEN a ELSE F[k][f[k - 1]]
    <3>1. CASE k = m
      <4>1. f[k] = F[m][g[m - 1]] /\ f[k - 1] = g[m - 1] /\ k # 0
        BY <3>1
      <4> QED
        BY <3>1, <4>1
    <3>2. CASE k # m
      <4>1. k \in 0..(m - 1) /\ f[k] = g[k]
        BY <3>2
      <4>2. g[k] = IF k = 0 THEN a ELSE F[k][g[k - 1]]
        BY <2>1, <4>1
      <4>3. k # 0 => f[k - 1] = g[k - 1]
        BY <3>2
      <4> QED
        BY <4>1, <4>2, <4>3
    <3> QED
      BY <3>1, <3>2
  <2>6. Solves(f, m)
    BY <2>5
  <2> HIDE DEF f, Solves
  <2> QED
    BY <1>1, <2>4, <2>6
<1>4. M \in Solved
  <2>1. \A k \in 0..M : k \in Solved
    BY <1>2, <1>3, FromStepToStep
  <2> QED
    BY <2>1
<1>5. PICK f \in [0..M -> T] : Solves(f, M)
  <2> HIDE DEF Solves
  <2> QED
    BY <1>1, <1>4
<1>6. f[0] = a /\ \A k \in 1..M : f[k] = F[k][f[k - 1]]
  BY <1>5
<1> QED
  BY <1>6

\* f starts at a and takes the steps F, one for each node, within T.
Steps(T) == [1..N -> [T -> T]]
TakesSteps(f, T, a, F) ==
    f \in [0..N -> T] /\ f[0] = a /\ \A k \in 1..N : f[k] = F[k][f[k - 1]]

LEMMA StepsTaken ==
    ASSUME NEW T, NEW a \in T, NEW F \in Steps(T)
    PROVE  \E f : TakesSteps(f, T, a, F)
BY SimulatorAssumption, RecursionDefined DEF Steps, TakesSteps

-----------------------------------------------------------------------------
(* What the operators of the simulator and the routers return. *)

LEMMA LinkOfEnds ==
    ASSUME NEW a \in Node, NEW b \in Node, a # b
    PROVE  /\ LinkOf(a, b) \in Links /\ LinkOf(a, b) = LinkOf(b, a)
           /\ \A c, d \in Node : LinkOf(c, d) = LinkOf(a, b) =>
                  (c = a /\ d = b) \/ (c = b /\ d = a)
BY SimulatorAssumption DEF LinkOf, Links, Node

LEMMA LinkCostType ==
    ASSUME NEW top \in [Links -> Cost], NEW a \in Node, NEW b \in Node
    PROVE  LinkCost(top, a, b) \in Cost /\ (a # b => LinkCost(top, a, b) = LinkCost(top, b, a))
<1>1. CASE a = b
  BY <1>1, SimulatorAssumption DEF LinkCost, Cost
<1>2. CASE a # b
  BY <1>2, LinkOfEnds DEF LinkCost
<1> QED
  BY <1>1, <1>2

LEMMA CostSum ==
    ASSUME NEW a \in Cost, NEW b \in Cost
    PROVE  COST_ADD(a, b) \in Cost
BY SimulatorAssumption DEF COST_ADD, Cost

LEMMA CheapestRoute ==
    ASSUME NEW D \in SUBSET Node, NEW via \in [D -> Cost]
    PROVE  Cheapest(via) \in Route /\ Cheapest(via).hop \in D \cup {0}
<1> DEFINE costs == {CostInfinity} \cup {via[j] : j \in DOMAIN via}
           min == Least(costs)
           best == {j \in DOMAIN via : via[j] = min}
<1>0. CostInfinity \in Cost /\ Cost \in SUBSET Nat
  BY SimulatorAssumption DEF Cost
<1>1. costs \in SUBSET Cost /\ costs # {} /\ costs \in SUBSET Nat
  <2>1. \A j \in DOMAIN via : via[j] \in Cost
    OBVIOUS
  <2>2. \A c \in costs : c \in Cost
    BY <1>0, <2>1
  <2> QED
    BY <1>0, <2>2
<1>2. min \in costs
  BY <1>1, LeastNatural
<1>3. CASE min = CostInfinity
  BY <1>3, SimulatorAssumption DEF Cheapest, NoRoute, Route, Cost
<1>4. CASE min # CostInfinity
  <2>0. \E j \in DOMAIN via : via[j] = min
    <3> HIDE DEF min
    <3> QED
      BY <1>2, <1>4
  <2>1. best # {} /\ best \in SUBSET D /\ best \in SUBSET Nat
    <3> HIDE DEF min
    <3>1. DOMAIN via = D /\ D \in SUBSET Nat
      BY DEF Node
    <3>2. \A j : j \in best <=> j \in D /\ via[j] = min
      BY <3>1
    <3> QED
      BY <2>0, <3>1, <3>2
  <2>2. Least(best) \in D
    BY <2>1, LeastNatural
  <2>3. Cheapest(via) = [hop |-> Least(best), cost |-> min]
    BY <1>4 DEF Cheapest
  <2>4. Least(best) \in 0..N /\ min \in Cost
    BY <1>1, <1>2, <2>2, SimulatorAssumption DEF Node
  <2> HIDE DEF best, min
  <2> QED
    BY <2>2, <2>3, <2>4 DEF Route
<1> QED
  BY <1>3, <1>4

\* A message is sent to each of the nodes told.
LEMMA MessagesToTold ==
    ASSUME NEW told \in SUBSET Node, NEW content, NEW Sent,
           \A m \in told : Message(m, content[m]) \in Sent
    PROVE  LET ms == MessagesTo(told, content)
           IN  /\ ms \in Seq(Sent)
               /\ \A j \in told : \E k \in 1..Len(ms) : ms[k] = Message(j, content[j])
<1> DEFINE upTo[m \in 0..N] ==
             IF m = 0 THEN <<>>
             ELSE IF m \in told THEN Append(upTo[m - 1], Message(m, content[m]))
             ELSE upTo[m - 1]
           Step(q, m) == IF m \in told THEN Append(q, Message(m, content[m])) ELSE q
           F == [m \in 1..N |-> [q \in Seq(Sent) |-> Step(q, m)]]
           Has(q, j) == \E k \in 1..Len(q) : q[k] = Message(j, content[j])
           Fine == {m \in 0..N : /\ upTo[m] \in Seq(Sent)
                                 /\ \A j \in told : j =< m => Has(upTo[m], j)}
<1>0. MessagesTo(told, content) = upTo[N]
  BY DEF MessagesTo
<1>1. N \in Nat
  BY SimulatorAssumption
<1>2. \A m \in 1..N, q \in Seq(Sent) : Step(q, m) \in Seq(Sent)
  OBVIOUS
<1>3. F \in Steps(Seq(Sent))
  BY <1>2 DEF Steps
<1>4. PICK f : TakesSteps(f, Seq(Sent), <<>>, F)
  <2>1. <<>> \in Seq(Sent)
    OBVIOUS
  <2> HIDE DEF F
  <2> QED
    BY <1>3, <2>1, StepsTaken
<1> DEFINE G(g) == [m \in 0..N |-> IF m = 0 THEN <<>>
                                  ELSE IF m \in told
                                       THEN Append(g[m - 1], Message(m, content[m]))
                                       ELSE g[m - 1]]
<1>5. f = G(f)
  <2>0. f \in [0..N -> Seq(Sent)]
    BY <1>4 DEF TakesSteps
  <2>1. ASSUME NEW k \in 0..N PROVE f[k] = G(f)[k]
    <3>1. CASE k = 0
      BY <1>4, <3>1 DEF TakesSteps
    <3>2. CASE k # 0
      <4>1. k \in 1..N /\ k - 1 \in 0..N
        BY <1>1, <3>2
      <4>2. F[k][f[k - 1]] = Step(f[k - 1], k)
        BY <2>0, <4>1
      <4>3. f[k] = Step(f[k - 1], k)
        <5> HIDE DEF F, Step
        <5> QED
          BY <1>4, <4>1, <4>2 DEF TakesSteps
      <4> QED
        BY <3>2, <4>3
    <3> QED
      BY <3>1, <3>2
  <2> HIDE DEF F
  <2> QED
    BY <2>0, <2>1
<1>6. upTo = G(upTo)
  <2>1. upTo = CHOOSE g : g = G(g)
    OBVIOUS
  <2> HIDE DEF upTo, G
  <2> QED
    BY <1>5, <2>1
<1>7. \A m \in 0..N : upTo[m] = IF m = 0 THEN <<>> ELSE Step(upTo[m - 1], m)
  <2> HIDE DEF upTo
  <2> QED
    BY <1>6
<1> HIDE DEF upTo
<1>8. \A j \in told : j \in Nat /\ j # 0 /\ j =< N
  BY <1>1 DEF Node
<1>9. 0 \in Fine
  <2>1. 0 \in 0..N /\ <<>> \in Seq(Sent) /\ \A j \in told : ~(j =< 0)
    BY <1>1, <1>8
  <2> HIDE DEF Has
  <2> QED
    BY <1>7, <2>1
<1>10. ASSUME NEW m \in 1..N, m - 1 \in Fine PROVE m \in Fine
  <2> DEFINE q == upTo[m - 1]
             p == upTo[m]
  <2>1. m \in 0..N /\ m # 0 /\ m \in Nat
    BY <1>1
  <2>2. q \in Seq(Sent) /\ \A j \in told : j =< m - 1 => Has(q, j)
    BY <1>10
  <2>3. p = Step(q, m)
    <3> HIDE DEF Step
    <3> QED
      BY <1>7, <2>1
  <2> HIDE DEF q, p, Fine
  <2>4. p \in Seq(Sent)
    BY <1>2, <2>2, <2>3
  <2>5. ASSUME NEW j \in told, j =< m PROVE Has(p, j)
    <3>1. CASE m \notin told
      <4>1. j # m /\ j =< m - 1
        BY <1>8, <2>1, <2>5, <3>1
      <4> QED
        BY <2>2, <2>3, <3>1, <4>1
    <3>2. CASE m \in told
      <4>1. p = Append(q, Message(m, content[m]))
        BY <2>3, <3>2
      <4>2. CASE j = m
        <5>1. Len(p) \in 1..Len(p) /\ p[Len(p)] = Message(m, content[m])
          BY <2>2, <3>2, <4>1
        <5> QED
          BY <4>2, <5>1
      <4>3. CASE j # m
        <5>1. j =< m - 1
          BY <1>8, <2>1, <2>5, <4>3
        <5>2. PICK k \in 1..Len(q) : q[k] = Message(j, content[j])
          BY <2>2, <5>1
        <5>3. k \in 1..Len(p) /\ p[k] = q[k]
          BY <2>2, <3>2, <4>1
        <5> QED
          BY <5>2, <5>3
      <4> QED
        BY <4>2, <4>3
    <3> QED
      BY <3>1, <3>2
  <2> HIDE DEF Has
  <2> QED
    BY <2>1, <2>4, <2>5 DEF Fine, p
<1>11. \A m \in 0..N : m \in Fine
  <2> HIDE DEF Fine
  <2> QED
    BY <1>1, <1>9, <1>10, FromStepToStep
<1>12. upTo[N] \in Seq(Sent) /\ \A j \in told : Has(upTo[N], j)
  <2> HIDE DEF Has
  <2> QED
    BY <1>1, <1>8, <1>11
<1> QED
  BY <1>0, <1>12

-----------------------------------------------------------------------------
(* The rounds of Dijkstra. *)

Near(n) == Neighbors(Topology, n)

LEMMA LSNear == \A n : LS!Neighbors(LS!Topology, n) = Near(n)
BY Zenon DEF Near, LS!Neighbors, Neighbors, LS!LinkCost, LinkCost, LS!LinkOf, LinkOf,
       LS!Topology, Topology, LS!event, event, LS!Node, Node

LEMMA ClosestIsOpen ==
    ASSUME NEW open \in SUBSET Node, open # {}, NEW dist \in Vectors
    PROVE  /\ LS!Closest(open, dist) \in open
           /\ \A j \in open : dist[LS!Closest(open, dist)] =< dist[j]
<1> DEFINE costs == {dist[i] : i \in open}
           best == {i \in open : \A j \in open : dist[i] <= dist[j]}
<1>1. \A i \in open : dist[i] \in Nat /\ i \in Nat
  BY SimulatorAssumption DEF Vectors, Cost, Node
<1>2. costs \in SUBSET Nat /\ costs # {}
  BY <1>1
<1>3. \E c \in costs : \A d \in costs : c =< d
  <2> HIDE DEF costs
  <2> QED
    BY <1>2, LeastNatural
<1>4. PICK i \in open : \A j \in open : dist[i] =< dist[j]
  BY <1>3
<1>5. best \in SUBSET Nat /\ best # {} /\ best \in SUBSET open
  BY <1>1, <1>4
<1>6. Least(best) \in best
  <2> HIDE DEF best
  <2> QED
    BY <1>5, LeastNatural
<1>7. LS!Closest(open, dist) = Least(best)
  BY DEF LS!Closest, LS!Least, Least
<1> QED
  BY <1>5, <1>6, <1>7

\* Distances, first steps and visited nodes at node n: whatever can be reached
\* is reached by a neighbour.
Ways(n) ==
    {r \in [dist : Vectors, hop : [Node -> Node], visited : SUBSET Node] :
        \A i \in Node : i # n /\ r.dist[i] # CostInfinity => r.hop[i] \in Near(n)}

LEMMA VisitKeepsWays ==
    ASSUME NEW lks \in LinkStates, NEW n \in Node, NEW r \in Ways(n)
    PROVE  LS!Visit(lks, n, r) \in Ways(n)
<1> DEFINE open == {i \in Near(n) \ r.visited : r.dist[i] < CostInfinity}
           c == LS!Closest(open, r.dist)
           cost(i) == COST_ADD(r.dist[c], lks[c].link_cost[i])
           closer == {i \in Node \ (r.visited \cup {c}) : cost(i) < r.dist[i]}
           s == [dist    |-> [i \in Node |-> IF i \in closer THEN cost(i) ELSE r.dist[i]],
                 hop     |-> [i \in Node |-> IF i \in closer THEN r.hop[c] ELSE r.hop[i]],
                 visited |-> r.visited \cup {c}]
<1>1. LS!Visit(lks, n, r) = IF open = {} THEN r ELSE s
  BY Zenon DEF LS!Visit, LS!COST_ADD, COST_ADD, LS!Node, Node, Near, LS!Neighbors, Neighbors,
       LS!LinkCost, LinkCost, LS!LinkOf, LinkOf, LS!Topology, Topology, LS!event, event
<1>2. SUFFICES ASSUME open # {} PROVE s \in Ways(n)
  BY <1>1
<1>3. /\ r.dist \in Vectors /\ r.hop \in [Node -> Node] /\ r.visited \in SUBSET Node
      /\ \A i \in Node : i # n /\ r.dist[i] # CostInfinity => r.hop[i] \in Near(n)
  BY DEF Ways
<1>4. c \in Near(n) /\ c \in Node /\ c # n /\ r.dist[c] # CostInfinity
  <2>1. open \in SUBSET Node
    BY DEF Near, Neighbors
  <2>2. c \in open
    <3> HIDE DEF open
    <3> QED
      BY <1>2, <1>3, <2>1, ClosestIsOpen
  <2>3. \A i \in open : i \in Near(n) /\ r.dist[i] # CostInfinity
    BY <2>1, <1>3, SimulatorAssumption DEF Vectors, Cost
  <2> HIDE DEF open, c
  <2> QED
    BY <2>1, <2>2, <2>3 DEF Near, Neighbors
<1> HIDE DEF open, c
<1>5. r.hop[c] \in Near(n) /\ r.hop[c] \in Node
  BY <1>3, <1>4
<1>6. \A i \in Node : cost(i) \in Cost
  <2> TAKE i \in Node
  <2>1. r.dist[c] \in Cost /\ lks[c].link_cost[i] \in Cost
    BY <1>3, <1>4 DEF LinkStates, Vectors
  <2> QED
    BY <2>1, CostSum
<1> HIDE DEF cost, closer
<1>7. s.dist \in Vectors /\ s.hop \in [Node -> Node] /\ s.visited \in SUBSET Node
  BY <1>3, <1>4, <1>5, <1>6 DEF Vectors
<1>8. \A i \in Node : i # n /\ s.dist[i] # CostInfinity => s.hop[i] \in Near(n)
  BY <1>3, <1>5
<1>9. s \in [dist : Vectors, hop : [Node -> Node], visited : SUBSET Node]
  BY <1>7
<1> HIDE DEF s
<1> QED
  BY <1>8, <1>9 DEF Ways

\* The rounds that Dijkstra takes, and the routes they lead to.
RoundsOf(round, lks, n) ==
    /\ round \in [0..N -> Ways(n)]
    /\ round[0].dist = lks[n].link_cost /\ round[0].visited = {n}
    /\ \A k \in 1..N : round[k] = LS!Visit(lks, n, round[k - 1])
    /\ LS!Dijkstra(lks, n) =
          [i \in Node |->
             IF i = n \/ round[N].dist[i] = CostInfinity THEN NoRoute
             ELSE [hop |-> round[N].hop[i], cost |-> round[N].dist[i]]]

LEMMA DijkstraRounds ==
    ASSUME NEW lks \in LinkStates, NEW n \in Node,
           \A j \in Node : lks[n].link_cost[j] = LinkCost(Topology, n, j)
    PROVE  \E round : RoundsOf(round, lks, n)
<1> DEFINE start == [dist |-> lks[n].link_cost, hop |-> [i \in Node |-> i], visited |-> {n}]
           round[k \in 0..N] == IF k = 0 THEN start ELSE LS!Visit(lks, n, round[k - 1])
           F == [k \in 1..N |-> [r \in Ways(n) |-> LS!Visit(lks, n, r)]]
           Fine == {k \in 0..N : round[k] \in Ways(n)}
<1>1. LS!Dijkstra(lks, n) =
          [i \in Node |->
             IF i = n \/ round[N].dist[i] = CostInfinity THEN NoRoute
             ELSE [hop |-> round[N].hop[i], cost |-> round[N].dist[i]]]
  BY Zenon DEF LS!Dijkstra, LS!Node, Node, LS!NoRoute, NoRoute
<1>2. start \in Ways(n)
  <2>1. lks[n].link_cost \in Vectors
    BY DEF LinkStates
  <2>2. \A i \in Node : i # n /\ lks[n].link_cost[i] # CostInfinity => i \in Near(n)
    BY DEF Near, Neighbors
  <2> QED
    BY <2>1, <2>2 DEF Ways
<1>3. F \in Steps(Ways(n))
  BY VisitKeepsWays DEF Steps
<1>4. PICK f : TakesSteps(f, Ways(n), start, F)
  <2> HIDE DEF F, start
  <2> QED
    BY <1>2, <1>3, StepsTaken
<1> DEFINE G(g) == [k \in 0..N |-> IF k = 0 THEN start ELSE LS!Visit(lks, n, g[k - 1])]
<1>5. f = G(f)
  <2>1. f \in [0..N -> Ways(n)]
    BY <1>4 DEF TakesSteps
  <2>2. ASSUME NEW k \in 0..N PROVE f[k] = G(f)[k]
    <3>1. CASE k = 0
      <4> HIDE DEF start
      <4> QED
        BY <1>4, <3>1 DEF TakesSteps
    <3>2. CASE k # 0
      <4>1. k \in 1..N /\ k - 1 \in 0..N
        BY <3>2, SimulatorAssumption
      <4>2. F[k][f[k - 1]] = LS!Visit(lks, n, f[k - 1])
        BY <2>1, <4>1
      <4>3. f[k] = LS!Visit(lks, n, f[k - 1])
        <5> HIDE DEF F
        <5> QED
          BY <1>4, <4>1, <4>2 DEF TakesSteps
      <4> QED
        BY <3>2, <4>3
    <3> QED
      BY <3>1, <3>2
  <2> HIDE DEF F, start
  <2> QED
    BY <2>1, <2>2
<1>6. round = G(round)
  <2>1. round = CHOOSE g : g = G(g)
    OBVIOUS
  <2> HIDE DEF round, G
  <2> QED
    BY <1>5, <2>1
<1>7. \A k \in 0..N : round[k] = IF k = 0 THEN start ELSE LS!Visit(lks, n, round[k - 1])
  <2> HIDE DEF round, start
  <2> QED
    BY <1>6
<1>8. round[0].dist = lks[n].link_cost /\ round[0].visited = {n}
  <2>1. round[0] = start
    <3> HIDE DEF round, start
    <3> QED
      BY <1>7, SimulatorAssumption
  <2> HIDE DEF round
  <2> QED
    BY <2>1
<1>9. round \in [0..N -> Ways(n)]
  <2> HIDE DEF round, start, F
  <2>1. 0 \in Fine
    BY <1>2, <1>7, SimulatorAssumption
  <2>2. ASSUME NEW k \in 1..N, k - 1 \in Fine PROVE k \in Fine
    <3>1. k \in 0..N /\ k # 0
      OBVIOUS
    <3> QED
      BY <1>7, <2>2, <3>1, VisitKeepsWays
  <2>3. \A k \in 0..N : k \in Fine
    <3> HIDE DEF Fine
    <3> QED
      BY <2>1, <2>2, FromStepToStep, SimulatorAssumption
  <2>4. \A k \in 0..N : round[k] \in Ways(n)
    BY <2>3
  <2>5. round = [k \in 0..N |-> round[k]]
    BY <1>6
  <2> QED
    BY <2>4, <2>5
<1>10. \A k \in 1..N : round[k] = LS!Visit(lks, n, round[k - 1])
  <2> HIDE DEF round, start, F
  <2> QED
    BY <1>7
<1> HIDE DEF round, F, G, start, Fine
<1>11. RoundsOf(round, lks, n)
  BY <1>1, <1>8, <1>9, <1>10 DEF RoundsOf
<1> QED
  BY <1>11

LEMMA DijkstraRoutes ==
    ASSUME NEW lks \in LinkStates, NEW n \in Node,
           \A j \in Node : lks[n].link_cost[j] = LinkCost(Topology, n, j)
    PROVE  /\ LS!Dijkstra(lks, n) \in [Node -> Route]
           /\ LS!Dijkstra(lks, n)[n].hop = 0
           /\ \A d \in Node : LS!Dijkstra(lks, n)[d].hop \in Near(n) \cup {0}
<1>0. PICK round : RoundsOf(round, lks, n)
  BY DijkstraRounds
<1> DEFINE last == round[N]
<1>1. LS!Dijkstra(lks, n) =
          [i \in Node |-> IF i = n \/ last.dist[i] = CostInfinity THEN NoRoute
                          ELSE [hop |-> last.hop[i], cost |-> last.dist[i]]]
  BY <1>0 DEF RoundsOf
<1>10. last \in Ways(n)
  BY <1>0, SimulatorAssumption DEF RoundsOf
<1>11. /\ last.dist \in Vectors /\ last.hop \in [Node -> Node]
       /\ \A i \in Node : i # n /\ last.dist[i] # CostInfinity => last.hop[i] \in Near(n)
  BY <1>10 DEF Ways
<1> HIDE DEF last
<1>12. NoRoute \in Route /\ NoRoute.hop = 0
  BY SimulatorAssumption DEF NoRoute, Route, Cost
<1>13. \A i \in Node : last.hop[i] \in 0..N /\ last.dist[i] \in Cost
  <2>1. \A i \in Node : i \in 0..N
    BY SimulatorAssumption DEF Node
  <2>2. \A i \in Node : last.hop[i] \in Node /\ last.dist[i] \in Cost
    BY <1>11 DEF Vectors
  <2> QED
    BY <2>1, <2>2
<1>14. \A i \in Node :
         /\ LS!Dijkstra(lks, n)[i] \in Route
         /\ i = n => LS!Dijkstra(lks, n)[i].hop = 0
         /\ LS!Dijkstra(lks, n)[i].hop \in Near(n) \cup {0}
  <2> TAKE i \in Node
  <2>1. CASE i = n \/ last.dist[i] = CostInfinity
    BY <1>1, <1>12, <2>1
  <2>2. CASE ~(i = n \/ last.dist[i] = CostInfinity)
    <3>1. LS!Dijkstra(lks, n)[i] = [hop |-> last.hop[i], cost |-> last.dist[i]]
      BY <1>1, <2>2
    <3> QED
      BY <1>11, <1>13, <2>2, <3>1 DEF Route
  <2> QED
    BY <2>1, <2>2
<1> DEFINE route(i) == IF i = n \/ last.dist[i] = CostInfinity THEN NoRoute
                       ELSE [hop |-> last.hop[i], cost |-> last.dist[i]]
<1>15. LS!Dijkstra(lks, n) = [i \in Node |-> route(i)]
  BY <1>1, Zenon
<1> HIDE DEF route
<1>16. \A i \in Node : route(i) \in Route
  BY <1>14, <1>15
<1>17. LS!Dijkstra(lks, n) \in [Node -> Route]
  BY <1>15, <1>16
<1> QED
  BY <1>14, <1>17

-----------------------------------------------------------------------------
(* Shortest routes by what a node knows. *)

LEMMA CostRange == CostInfinity \in Nat /\ \A a \in Cost : a \in Nat /\ a =< CostInfinity
BY SimulatorAssumption DEF Cost

LEMMA SumGrows ==
    ASSUME NEW a \in Cost, NEW b \in Cost, NEW x \in Cost
    PROVE  /\ COST_ADD(a, x) \in Cost /\ COST_ADD(a, x) \in Nat /\ a =< COST_ADD(a, x)
           /\ a =< b => COST_ADD(a, x) =< COST_ADD(b, x)
           /\ COST_ADD(CostInfinity, x) = CostInfinity
           /\ a \in Nat /\ a =< CostInfinity
BY SimulatorAssumption DEF COST_ADD, Cost

\* The cheapest way on is the cheapest of all that are offered.
LEMMA FartherCosts ==
    ASSUME NEW closer \in Vectors, NEW near \in SUBSET Node, NEW cost \in [Node -> Vectors]
    PROVE  LET far == Farther(closer, near, cost)
           IN  /\ far \in Vectors
               /\ \A d \in Node :
                    /\ far[d] =< closer[d]
                    /\ \A m \in near : far[d] =< COST_ADD(closer[m], cost[m][d])
                    /\ \/ far[d] = closer[d]
                       \/ \E m \in near : far[d] = COST_ADD(closer[m], cost[m][d])
<1> DEFINE far == Farther(closer, near, cost)
           ways(d) == {closer[d]} \cup {COST_ADD(closer[m], cost[m][d]) : m \in near}
<1>1. far = [d \in Node |-> Least(ways(d))]
  BY DEF Farther
<1>2. ASSUME NEW d \in Node
      PROVE  Least(ways(d)) \in ways(d) /\ \A c \in ways(d) : c \in Cost /\ Least(ways(d)) =< c
  <2>1. \A m \in near : COST_ADD(closer[m], cost[m][d]) \in Cost
    BY SumGrows DEF Vectors
  <2>2. closer[d] \in Cost
    BY DEF Vectors
  <2>3. \A c \in ways(d) : c \in Cost
    BY <2>1, <2>2
  <2>4. ways(d) # {} /\ closer[d] \in ways(d)
    OBVIOUS
  <2> HIDE DEF ways
  <2>5. ways(d) \in SUBSET Nat
    BY <2>3 DEF Cost
  <2> QED
    BY <2>3, <2>4, <2>5, LeastNatural
<1> HIDE DEF far
<1>3. ASSUME NEW d \in Node
      PROVE  /\ far[d] \in Cost /\ far[d] =< closer[d]
             /\ \A m \in near : far[d] =< COST_ADD(closer[m], cost[m][d])
             /\ \/ far[d] = closer[d]
                \/ \E m \in near : far[d] = COST_ADD(closer[m], cost[m][d])
  <2>1. far[d] = Least(ways(d))
    BY <1>1
  <2>2. \A c : c \in ways(d) <=> \/ c = closer[d]
                                  \/ \E m \in near : c = COST_ADD(closer[m], cost[m][d])
    OBVIOUS
  <2> HIDE DEF ways
  <2> QED
    BY <1>2, <2>1, <2>2
<1>4. far \in Vectors
  <2> HIDE DEF ways
  <2> QED
    BY <1>1, <1>3 DEF Vectors
<1> QED
  BY <1>3, <1>4 DEF far

\* The costs by at most k nodes between, and what is known at last.
KnownBy(dist, lks, n) ==
    /\ dist \in [0..N -> Vectors]
    /\ dist[0] = lks[n].link_cost
    /\ \A k \in 1..N :
          dist[k] = Farther(dist[k - 1], LS!KnownNeighbors(lks, n), LS!KnownCosts(lks))
    /\ LS!ShortestKnown(lks, n) = dist[N]

LEMMA KnownOperators ==
    /\ \A closer, near, cost : LS!Farther(closer, near, cost) = Farther(closer, near, cost)
    /\ \A lks, n : LS!KnownNeighbors(lks, n) =
                      {c \in Node \ {n} : lks[n].link_cost[c] # CostInfinity}
    /\ \A lks : LS!KnownCosts(lks) = [m \in Node |-> lks[m].link_cost]
<1>1. \A closer, near, cost : LS!Farther(closer, near, cost) = Farther(closer, near, cost)
  BY Zenon DEF LS!Farther, Farther, LS!Least, Least, LS!Node, Node, LS!COST_ADD, COST_ADD
<1>2. \A lks, n : LS!KnownNeighbors(lks, n) =
                      {c \in Node \ {n} : lks[n].link_cost[c] # CostInfinity}
  BY Zenon DEF LS!KnownNeighbors, LS!Node, Node
<1>3. \A lks : LS!KnownCosts(lks) = [m \in Node |-> lks[m].link_cost]
  BY Zenon DEF LS!KnownCosts, LS!Node, Node
<1> QED
  BY <1>1, <1>2, <1>3

LEMMA KnownDefined ==
    ASSUME NEW lks \in LinkStates, NEW n \in Node
    PROVE  \E dist : KnownBy(dist, lks, n)
<1> DEFINE near == LS!KnownNeighbors(lks, n)
           cost == LS!KnownCosts(lks)
           start == lks[n].link_cost
           dist[k \in 0..N] == IF k = 0 THEN start ELSE LS!Farther(dist[k - 1], near, cost)
           F == [k \in 1..N |-> [v \in Vectors |-> Farther(v, near, cost)]]
           G(g) == [k \in 0..N |-> IF k = 0 THEN start ELSE LS!Farther(g[k - 1], near, cost)]
<1>1. LS!ShortestKnown(lks, n) = dist[N]
  BY Zenon DEF LS!ShortestKnown
<1>2. near \in SUBSET Node /\ cost \in [Node -> Vectors] /\ start \in Vectors
  BY KnownOperators DEF LinkStates
<1>3. F \in Steps(Vectors)
  <2> HIDE DEF near, cost
  <2>1. \A v \in Vectors : Farther(v, near, cost) \in Vectors
    BY <1>2, FartherCosts
  <2> QED
    BY <2>1 DEF Steps
<1>4. PICK f : TakesSteps(f, Vectors, start, F)
  <2> HIDE DEF F, start
  <2> QED
    BY <1>2, <1>3, StepsTaken
<1> HIDE DEF near, cost, start
<1>5. /\ f \in [0..N -> Vectors] /\ f[0] = start
      /\ \A k \in 1..N : f[k] = Farther(f[k - 1], near, cost)
  <2>1. f \in [0..N -> Vectors] /\ f[0] = start /\ \A k \in 1..N : f[k] = F[k][f[k - 1]]
    <3> HIDE DEF F
    <3> QED
      BY <1>4 DEF TakesSteps
  <2>2. \A k \in 1..N : k - 1 \in 0..N
    BY SimulatorAssumption
  <2> QED
    BY <2>1, <2>2
<1> HIDE DEF F
<1>6. f = G(f)
  <2>1. ASSUME NEW k \in 0..N PROVE f[k] = G(f)[k]
    <3>1. CASE k = 0
      BY <1>5, <3>1
    <3>2. CASE k # 0
      <4>1. k \in 1..N
        BY <3>2, SimulatorAssumption
      <4> QED
        BY <1>5, <3>2, <4>1, KnownOperators
    <3> QED
      BY <3>1, <3>2
  <2> QED
    BY <1>5, <2>1
<1>7. dist = G(dist)
  <2>1. dist = CHOOSE g : g = G(g)
    OBVIOUS
  <2> HIDE DEF dist, G
  <2> QED
    BY <1>6, <2>1
<1> HIDE DEF dist
<1>8. dist[0] = start /\ \A k \in 1..N : dist[k] = Farther(dist[k - 1], near, cost)
  <2>1. \A k \in 0..N : dist[k] = IF k = 0 THEN start ELSE LS!Farther(dist[k - 1], near, cost)
    BY <1>7
  <2>2. \A k \in 1..N : dist[k] = LS!Farther(dist[k - 1], near, cost)
    BY <2>1
  <2> QED
    BY <2>1, <2>2, KnownOperators, SimulatorAssumption
<1>9. dist \in [0..N -> Vectors]
  <2> DEFINE Fine == {k \in 0..N : dist[k] \in Vectors}
  <2>1. 0 \in Fine
    BY <1>2, <1>8, SimulatorAssumption
  <2>2. ASSUME NEW k \in 1..N, k - 1 \in Fine PROVE k \in Fine
    <3>1. dist[k - 1] \in Vectors
      BY <2>2
    <3>2. dist[k] \in Vectors
      BY <1>2, <1>8, <3>1, FartherCosts
    <3> QED
      BY <3>2
  <2>3. \A k \in 0..N : k \in Fine
    <3> HIDE DEF Fine
    <3> QED
      BY <2>1, <2>2, FromStepToStep, SimulatorAssumption
  <2>4. \A k \in 0..N : dist[k] \in Vectors
    BY <2>3
  <2>5. dist = [k \in 0..N |-> dist[k]]
    BY <1>7
  <2> QED
    BY <2>4, <2>5
<1> QED
  BY <1>1, <1>8, <1>9 DEF KnownBy, near, cost, start

LEMMA KnownFarther ==
    ASSUME NEW lks \in LinkStates, NEW n \in Node, NEW closer \in Vectors
    PROVE  LET near == LS!KnownNeighbors(lks, n)
               far == Farther(closer, near, LS!KnownCosts(lks))
           IN  /\ near \in SUBSET Node /\ far \in Vectors
               /\ \A d \in Node :
                    /\ far[d] =< closer[d]
                    /\ \A m \in near : far[d] =< COST_ADD(closer[m], lks[m].link_cost[d])
                    /\ \/ far[d] = closer[d]
                       \/ \E m \in near : far[d] = COST_ADD(closer[m], lks[m].link_cost[d])
<1> DEFINE near == LS!KnownNeighbors(lks, n)
           cost == LS!KnownCosts(lks)
           far == Farther(closer, near, cost)
<1>1. near \in SUBSET Node /\ cost \in [Node -> Vectors]
      /\ \A m \in near : cost[m] = lks[m].link_cost
  BY KnownOperators DEF LinkStates
<1> HIDE DEF near, cost
<1>2. /\ far \in Vectors
      /\ \A d \in Node :
           /\ far[d] =< closer[d]
           /\ \A m \in near : far[d] =< COST_ADD(closer[m], cost[m][d])
           /\ \/ far[d] = closer[d]
              \/ \E m \in near : far[d] = COST_ADD(closer[m], cost[m][d])
  BY <1>1, FartherCosts
<1> HIDE DEF far
<1>3. ASSUME NEW d \in Node
      PROVE  /\ far[d] =< closer[d]
             /\ \A m \in near : far[d] =< COST_ADD(closer[m], lks[m].link_cost[d])
             /\ \/ far[d] = closer[d]
                \/ \E m \in near : far[d] = COST_ADD(closer[m], lks[m].link_cost[d])
  BY <1>1, <1>2
<1> QED
  BY <1>1, <1>2, <1>3 DEF near, cost, far

\* The neighbours that Dijkstra may visit next.
Open(n, r) == {i \in Near(n) \ r.visited : r.dist[i] < CostInfinity}

\* What a visit does: the closest open neighbour c is visited, and the ways by it
\* are compared.
LEMMA VisitClosest ==
    ASSUME NEW lks \in LinkStates, NEW n \in Node, NEW r \in Ways(n)
    PROVE  LET s == LS!Visit(lks, n, r)
           IN  /\ Open(n, r) = {} => s = r
               /\ Open(n, r) # {} =>
                    \E c \in Open(n, r) :
                       /\ \A j \in Open(n, r) : r.dist[c] =< r.dist[j]
                       /\ s.visited = r.visited \cup {c}
                       /\ \A i \in Node :
                            LET way == COST_ADD(r.dist[c], lks[c].link_cost[i])
                            IN  s.dist[i] = IF i \notin r.visited \cup {c} /\ way < r.dist[i]
                                            THEN way ELSE r.dist[i]
<1> DEFINE open == Open(n, r)
           c == LS!Closest(open, r.dist)
           cost(i) == COST_ADD(r.dist[c], lks[c].link_cost[i])
           closer == {i \in Node \ (r.visited \cup {c}) : cost(i) < r.dist[i]}
           s == [dist    |-> [i \in Node |-> IF i \in closer THEN cost(i) ELSE r.dist[i]],
                 hop     |-> [i \in Node |-> IF i \in closer THEN r.hop[c] ELSE r.hop[i]],
                 visited |-> r.visited \cup {c}]
<1>1. LS!Visit(lks, n, r) = IF open = {} THEN r ELSE s
  BY Zenon DEF LS!Visit, LS!COST_ADD, COST_ADD, LS!Node, Node, Near, LS!Neighbors, Neighbors,
       LS!LinkCost, LinkCost, LS!LinkOf, LinkOf, LS!Topology, Topology, LS!event, event, Open
<1>2. ASSUME open # {}
      PROVE  c \in open /\ \A j \in open : r.dist[c] =< r.dist[j]
  <2>1. open \in SUBSET Node
    BY DEF Open, Near, Neighbors
  <2>2. r.dist \in Vectors
    BY DEF Ways
  <2> HIDE DEF open
  <2> QED
    BY <1>2, <2>1, <2>2, ClosestIsOpen
<1> HIDE DEF open, c
<1>3. /\ s.visited = r.visited \cup {c}
      /\ \A i \in Node : s.dist[i] = IF i \notin r.visited \cup {c} /\ cost(i) < r.dist[i]
                                     THEN cost(i) ELSE r.dist[i]
  <2> HIDE DEF cost
  <2> QED
    OBVIOUS
<1> HIDE DEF s
<1>4. CASE open = {}
  BY <1>1, <1>4 DEF open
<1>5. CASE open # {}
  <2>1. LS!Visit(lks, n, r) = s
    BY <1>1, <1>5
  <2> QED
    BY <1>2, <1>3, <1>5, <2>1 DEF open
<1> QED
  BY <1>4, <1>5

\* No way by a visited neighbour is shorter, and no visited node is farther than
\* one that is still to be visited.
Relaxed(lks, n, r) ==
    /\ n \in r.visited /\ r.visited \subseteq Node
    /\ \A i \in Node : r.dist[i] =< lks[n].link_cost[i]
    /\ \A v \in r.visited \cap Near(n), i \in Node :
          r.dist[i] =< COST_ADD(r.dist[v], lks[v].link_cost[i])
    /\ \A v \in r.visited, i \in Near(n) \ r.visited : r.dist[v] =< r.dist[i]

LEMMA VisitRelaxes ==
    ASSUME NEW lks \in LinkStates, NEW n \in Node, NEW r \in Ways(n), Relaxed(lks, n, r)
    PROVE  Relaxed(lks, n, LS!Visit(lks, n, r))
<1> DEFINE s == LS!Visit(lks, n, r)
           way(c, i) == COST_ADD(r.dist[c], lks[c].link_cost[i])
<1>1. CASE Open(n, r) = {}
  <2>1. s = r
    BY <1>1, VisitClosest
  <2> QED
    BY <2>1
<1>2. CASE Open(n, r) # {}
  <2>1. PICK c \in Open(n, r) :
              /\ \A j \in Open(n, r) : r.dist[c] =< r.dist[j]
              /\ s.visited = r.visited \cup {c}
              /\ \A i \in Node : s.dist[i] = IF i \notin r.visited \cup {c} /\ way(c, i) < r.dist[i]
                                             THEN way(c, i) ELSE r.dist[i]
    BY <1>2, VisitClosest
  <2> HIDE DEF s
  <2>2. c \in Near(n) \ r.visited /\ c \in Node /\ Near(n) \subseteq Node
    BY DEF Open, Near, Neighbors
  <2>3. \A i \in Node : r.dist[i] \in Cost /\ r.dist[i] \in Nat /\ r.dist[i] =< CostInfinity
    <3>1. r.dist \in Vectors
      BY DEF Ways
    <3> QED
      BY <3>1, SimulatorAssumption DEF Vectors, Cost
  <2>4. \A v, i \in Node : /\ way(v, i) \in Nat /\ r.dist[v] =< way(v, i)
                           /\ lks[v].link_cost[i] \in Cost /\ lks[v].link_cost[i] \in Nat
    <3> TAKE v, i \in Node
    <3>1. lks[v].link_cost[i] \in Cost
      BY DEF LinkStates, Vectors
    <3>2. way(v, i) \in Nat /\ r.dist[v] =< way(v, i)
      BY <2>3, <3>1, SumGrows
    <3> HIDE DEF way
    <3> QED
      BY <3>1, <3>2, SumGrows
  <2>5. ASSUME NEW i \in Node PROVE s.dist[i] \in Nat /\ s.dist[i] =< r.dist[i]
    <3> HIDE DEF way
    <3> QED
      BY <2>1, <2>2, <2>3, <2>4
  <2>6. \A v \in r.visited \cup {c} : v \in Node /\ s.dist[v] = r.dist[v]
    BY <2>1, <2>2 DEF Relaxed
  <2>7. \A i \in Node : s.dist[i] =< lks[n].link_cost[i]
    BY <2>3, <2>4, <2>5 DEF Relaxed
  <2>8. ASSUME NEW v \in s.visited \cap Near(n), NEW i \in Node
        PROVE  s.dist[i] =< COST_ADD(s.dist[v], lks[v].link_cost[i])
    <3>1. v \in r.visited \cup {c} /\ v \in Node /\ s.dist[v] = r.dist[v]
      BY <2>1, <2>6
    <3>2. SUFFICES s.dist[i] =< way(v, i)
      BY <3>1
    <3> HIDE DEF way
    <3>3. CASE v \in r.visited
      <4>1. r.dist[i] =< way(v, i)
        BY <2>8, <3>3 DEF Relaxed, way
      <4> QED
        BY <2>3, <2>4, <2>5, <3>1, <4>1
    <3>4. CASE v = c /\ i \in r.visited
      <4>1. r.dist[i] =< r.dist[c]
        BY <2>2, <3>4 DEF Relaxed
      <4> QED
        BY <2>2, <2>3, <2>4, <2>5, <3>4, <4>1
    <3>5. CASE v = c /\ i = c
      BY <2>2, <2>3, <2>4, <2>5, <3>5
    <3>6. CASE v = c /\ i \notin r.visited \cup {c}
      <4>1. s.dist[i] = IF way(c, i) < r.dist[i] THEN way(c, i) ELSE r.dist[i]
        BY <2>1, <3>6 DEF way
      <4> QED
        BY <2>2, <2>3, <2>4, <3>6, <4>1
    <3> QED
      BY <3>1, <3>3, <3>4, <3>5, <3>6
  <2>9. ASSUME NEW v \in s.visited, NEW i \in Near(n) \ s.visited
        PROVE  s.dist[v] =< s.dist[i]
    <3>1. /\ v \in r.visited \cup {c} /\ v \in Node /\ s.dist[v] = r.dist[v]
          /\ i \in Near(n) \ r.visited /\ i # c /\ i \in Node
      BY <2>1, <2>2, <2>6
    <3>2. r.dist[v] =< r.dist[c] /\ r.dist[c] =< r.dist[i]
      <4>1. v \in r.visited => r.dist[v] =< r.dist[c]
        BY <2>2 DEF Relaxed
      <4>2. CASE i \in Open(n, r)
        BY <2>1, <2>2, <2>3, <3>1, <4>1, <4>2
      <4>3. CASE i \notin Open(n, r)
        <5>1. ~(r.dist[i] < CostInfinity)
          BY <3>1, <4>3 DEF Open
        <5> QED
          BY <2>2, <2>3, <3>1, <4>1, <5>1, SimulatorAssumption
      <4> QED
        BY <4>2, <4>3
    <3>3. r.dist[c] =< way(c, i) /\ way(c, i) \in Nat
      BY <2>2, <2>4, <3>1
    <3>4. s.dist[i] = way(c, i) \/ s.dist[i] = r.dist[i]
      BY <2>1, <3>1
    <3> HIDE DEF way
    <3> QED
      BY <2>2, <2>3, <3>1, <3>2, <3>3, <3>4
  <2>10. n \in s.visited /\ s.visited \subseteq Node
    BY <2>1, <2>2 DEF Relaxed
  <2> QED
    BY <2>7, <2>8, <2>9, <2>10 DEF Relaxed, s
<1> QED
  BY <1>1, <1>2

LEMMA FiniteNode == IsFiniteSet(Node) /\ Cardinality(Node) = N
<1>1. IsFiniteSet(1..N) /\ Cardinality(1..N) = IF 1 > N THEN 0 ELSE N - 1 + 1
  BY FS_Interval, SimulatorAssumption
<1> QED
  BY <1>1, SimulatorAssumption DEF Node

\* A visit visits one more, or none is left to be visited.
LEMMA VisitCounts ==
    ASSUME NEW lks \in LinkStates, NEW n \in Node, NEW r \in Ways(n), r.visited \subseteq Node,
           NEW k \in Nat, Open(n, r) = {} \/ Cardinality(r.visited) = k
    PROVE  LET s == LS!Visit(lks, n, r)
           IN  Open(n, s) = {} \/ Cardinality(s.visited) = k + 1
<1> DEFINE s == LS!Visit(lks, n, r)
<1>1. CASE Open(n, r) = {}
  BY <1>1, VisitClosest
<1>2. CASE Open(n, r) # {}
  <2>1. PICK c \in Open(n, r) : s.visited = r.visited \cup {c}
    BY <1>2, VisitClosest
  <2>2. c \notin r.visited
    BY DEF Open
  <2>3. IsFiniteSet(r.visited)
    BY FiniteNode, FS_Subset
  <2>4. Cardinality(r.visited \cup {c}) = k + 1
    BY <1>2, <2>2, <2>3, FS_AddElement
  <2> QED
    BY <2>1, <2>4
<1> QED
  BY <1>1, <1>2

\* In the end no neighbour is left to be visited, and the distances are relaxed
\* and not below what is known.
LEMMA DijkstraEnds ==
    ASSUME NEW lks \in LinkStates, NEW n \in Node,
           \A j \in Node : lks[n].link_cost[j] = LinkCost(Topology, n, j),
           NEW round, RoundsOf(round, lks, n), NEW dist, KnownBy(dist, lks, n)
    PROVE  LET last == round[N]
           IN  /\ last \in Ways(n) /\ Relaxed(lks, n, last)
               /\ Open(n, last) = {}
               /\ \A i \in Node : dist[N][i] =< last.dist[i]
<1>1. LS!KnownNeighbors(lks, n) = Near(n) /\ Near(n) \in SUBSET Node
      /\ LS!KnownCosts(lks) = [m \in Node |-> lks[m].link_cost]
      /\ LS!KnownCosts(lks) \in [Node -> Vectors]
  BY KnownOperators DEF LinkStates, Near, Neighbors
<1> DEFINE Fine == {k \in 0..N :
                       /\ Relaxed(lks, n, round[k])
                       /\ Open(n, round[k]) = {} \/ Cardinality(round[k].visited) = k + 1
                       /\ \A i \in Node : dist[k][i] =< round[k].dist[i]}
<1>2. /\ \A k \in 0..N : round[k] \in Ways(n) /\ dist[k] \in Vectors
      /\ round[0].dist = lks[n].link_cost /\ round[0].visited = {n}
      /\ \A k \in 1..N : round[k] = LS!Visit(lks, n, round[k - 1])
      /\ dist[0] = lks[n].link_cost
      /\ \A k \in 1..N :
            dist[k] = Farther(dist[k - 1], Near(n), LS!KnownCosts(lks))
  BY <1>1 DEF RoundsOf, KnownBy
<1>3. \A i \in Node : lks[n].link_cost[i] \in Cost /\ lks[n].link_cost[i] \in Nat
  <2> TAKE i \in Node
  <2>1. lks[n].link_cost[i] \in Cost
    BY DEF LinkStates, Vectors
  <2> QED
    BY <2>1, SumGrows
<1>4. 0 \in Fine
  <2>1. lks[n].link_cost[n] = 0
    BY DEF LinkCost
  <2>2. n \notin Near(n)
    BY DEF Near, Neighbors
  <2>3. \A i \in Near(n) : 0 =< lks[n].link_cost[i]
    BY <1>1, <1>3
  <2>4. Relaxed(lks, n, round[0])
    BY <1>2, <1>3, <2>1, <2>2, <2>3 DEF Relaxed
  <2>5. Cardinality(round[0].visited) = 0 + 1
    <3>1. Cardinality({n}) = 1
      BY FS_Singleton
    <3> QED
      BY <1>2, <3>1
  <2>6. \A i \in Node : dist[0][i] =< round[0].dist[i]
    BY <1>2, <1>3
  <2> QED
    BY <2>4, <2>5, <2>6, SimulatorAssumption
<1>5. ASSUME NEW k \in 1..N, k - 1 \in Fine PROVE k \in Fine
  <2> DEFINE r == round[k - 1]
             s == round[k]
             closer == dist[k - 1]
             far == dist[k]
  <2>1. /\ k - 1 \in 0..N /\ k \in 0..N /\ k \in Nat /\ (k - 1) + 1 = k
        /\ Relaxed(lks, n, r)
        /\ Open(n, r) = {} \/ Cardinality(r.visited) = k
        /\ \A i \in Node : closer[i] =< r.dist[i]
    BY <1>5
  <2>2. /\ r \in Ways(n) /\ s \in Ways(n) /\ closer \in Vectors
        /\ s = LS!Visit(lks, n, r)
        /\ far = Farther(closer, Near(n), LS!KnownCosts(lks))
    BY <1>2, <2>1
  <2> HIDE DEF r, s, closer, far, Fine
  <2>3. Relaxed(lks, n, s)
    BY <2>1, <2>2, VisitRelaxes
  <2>4. Open(n, s) = {} \/ Cardinality(s.visited) = k + 1
    <3>1. r.visited \subseteq Node
      BY <2>1 DEF Relaxed
    <3> QED
      BY <2>1, <2>2, <3>1, VisitCounts
  <2>5. /\ far \in Vectors
        /\ \A i \in Node :
              /\ far[i] =< closer[i]
              /\ \A m \in Near(n) : far[i] =< COST_ADD(closer[m], lks[m].link_cost[i])
    BY <1>1, <2>2, KnownFarther
  <2>6. \A i \in Node : /\ closer[i] \in Cost /\ r.dist[i] \in Cost /\ far[i] \in Cost
                        /\ closer[i] \in Nat /\ r.dist[i] \in Nat /\ far[i] \in Nat
    <3> TAKE i \in Node
    <3>1. r.dist \in Vectors
      BY <2>2 DEF Ways
    <3>2. closer[i] \in Cost /\ r.dist[i] \in Cost /\ far[i] \in Cost
      BY <2>2, <2>5, <3>1 DEF Vectors
    <3> QED
      BY <3>2, SumGrows
  <2>7. ASSUME NEW i \in Node PROVE far[i] =< s.dist[i]
    <3>1. s.dist[i] = r.dist[i]
          \/ \E c \in Near(n) : s.dist[i] = COST_ADD(r.dist[c], lks[c].link_cost[i])
      <4>1. CASE Open(n, r) = {}
        BY <2>2, <4>1, VisitClosest
      <4>2. CASE Open(n, r) # {}
        <5>1. PICK c \in Open(n, r) :
                 s.dist[i] = IF /\ i \notin r.visited \cup {c}
                                /\ COST_ADD(r.dist[c], lks[c].link_cost[i]) < r.dist[i]
                             THEN COST_ADD(r.dist[c], lks[c].link_cost[i]) ELSE r.dist[i]
          BY <2>2, <4>2, VisitClosest
        <5>2. c \in Near(n)
          BY DEF Open
        <5> QED
          BY <5>1, <5>2
      <4> QED
        BY <4>1, <4>2
    <3>2. CASE s.dist[i] = r.dist[i]
      BY <2>1, <2>5, <2>6, <3>2
    <3>3. ASSUME NEW c \in Near(n), s.dist[i] = COST_ADD(r.dist[c], lks[c].link_cost[i])
          PROVE  far[i] =< s.dist[i]
      <4>1. c \in Node /\ lks[c].link_cost[i] \in Cost
        BY <1>1 DEF LinkStates, Vectors
      <4>2. /\ COST_ADD(closer[c], lks[c].link_cost[i]) =< s.dist[i]
            /\ COST_ADD(closer[c], lks[c].link_cost[i]) \in Nat
            /\ s.dist[i] \in Nat
        BY <2>1, <2>6, <3>3, <4>1, SumGrows
      <4> QED
        BY <2>5, <2>6, <4>2
    <3> QED
      BY <3>1, <3>2, <3>3
  <2> QED
    BY <2>1, <2>3, <2>4, <2>7 DEF Fine, s, far
<1>6. N \in Fine
  <2>1. \A k \in 0..N : k \in Fine
    <3> HIDE DEF Fine
    <3> QED
      BY <1>4, <1>5, FromStepToStep, SimulatorAssumption
  <2> QED
    BY <2>1, SimulatorAssumption
<1>7. Cardinality(round[N].visited) # N + 1
  <2>1. round[N].visited \in SUBSET Node
    BY <1>6 DEF Relaxed
  <2>2. Cardinality(round[N].visited) =< N
    BY <2>1, FiniteNode, FS_Subset
  <2> QED
    BY <2>2, SimulatorAssumption
<1>8. round[N] \in Ways(n)
  BY <1>2, SimulatorAssumption
<1> QED
  BY <1>6, <1>7, <1>8

\* Distances that are relaxed are no more than what is known.
LEMMA RelaxedAreShort ==
    ASSUME NEW lks \in LinkStates, NEW n \in Node,
           \A j \in Node : lks[n].link_cost[j] = LinkCost(Topology, n, j),
           NEW r \in Ways(n), Relaxed(lks, n, r), Open(n, r) = {},
           NEW dist, KnownBy(dist, lks, n)
    PROVE  \A i \in Node : r.dist[i] =< dist[N][i]
<1>1. LS!KnownNeighbors(lks, n) = Near(n) /\ Near(n) \in SUBSET Node
      /\ LS!KnownCosts(lks) = [m \in Node |-> lks[m].link_cost]
      /\ LS!KnownCosts(lks) \in [Node -> Vectors]
  BY KnownOperators DEF LinkStates, Near, Neighbors
<1>2. /\ \A k \in 0..N : dist[k] \in Vectors
      /\ dist[0] = lks[n].link_cost
      /\ \A k \in 1..N :
            dist[k] = Farther(dist[k - 1], Near(n), LS!KnownCosts(lks))
  BY <1>1 DEF KnownBy
<1>3. \A i \in Node : r.dist[i] \in Cost /\ r.dist[i] \in Nat
  <2> TAKE i \in Node
  <2>1. r.dist[i] \in Cost
    BY DEF Ways, Vectors
  <2> QED
    BY <2>1, SumGrows
<1>4. ASSUME NEW m \in Near(n), NEW i \in Node
      PROVE  /\ r.dist[i] =< COST_ADD(r.dist[m], lks[m].link_cost[i])
             /\ m \in Node /\ lks[m].link_cost[i] \in Cost
  <2>1. m \in Node /\ lks[m].link_cost[i] \in Cost
    BY <1>1 DEF LinkStates, Vectors
  <2>2. CASE m \in r.visited
    BY <2>1, <2>2 DEF Relaxed
  <2>3. CASE m \notin r.visited
    <3>1. ~(r.dist[m] < CostInfinity)
      BY <2>3 DEF Open
    <3>2. r.dist[m] = CostInfinity
      BY <1>3, <2>1, <3>1, CostRange
    <3>3. COST_ADD(CostInfinity, lks[m].link_cost[i]) = CostInfinity /\ r.dist[i] =< CostInfinity
      BY <1>3, <2>1, SumGrows
    <3> QED
      BY <2>1, <3>2, <3>3
  <2> QED
    BY <2>1, <2>2, <2>3
<1> DEFINE Fine == {k \in 0..N : \A i \in Node : r.dist[i] =< dist[k][i]}
<1>5. 0 \in Fine
  BY <1>2, SimulatorAssumption DEF Relaxed
<1>6. ASSUME NEW k \in 1..N, k - 1 \in Fine PROVE k \in Fine
  <2> DEFINE closer == dist[k - 1]
             far == dist[k]
  <2>1. k - 1 \in 0..N /\ k \in 0..N /\ \A i \in Node : r.dist[i] =< closer[i]
    BY <1>6
  <2>2. closer \in Vectors /\ far = Farther(closer, Near(n), LS!KnownCosts(lks))
    BY <1>2, <2>1
  <2> HIDE DEF closer, far, Fine
  <2>3. ASSUME NEW i \in Node PROVE r.dist[i] =< far[i]
    <3>1. \/ far[i] = closer[i]
          \/ \E m \in Near(n) : far[i] = COST_ADD(closer[m], lks[m].link_cost[i])
      BY <1>1, <2>2, KnownFarther
    <3>2. ASSUME NEW m \in Near(n), far[i] = COST_ADD(closer[m], lks[m].link_cost[i])
          PROVE  r.dist[i] =< far[i]
      <4>1. /\ r.dist[i] =< COST_ADD(r.dist[m], lks[m].link_cost[i])
            /\ m \in Node /\ lks[m].link_cost[i] \in Cost
        BY <1>4
      <4>2. closer[m] \in Cost
        BY <2>2, <4>1 DEF Vectors
      <4>3. /\ COST_ADD(r.dist[m], lks[m].link_cost[i]) =< far[i]
            /\ COST_ADD(r.dist[m], lks[m].link_cost[i]) \in Nat /\ far[i] \in Nat
        BY <1>3, <2>1, <3>2, <4>1, <4>2, SumGrows
      <4> QED
        BY <1>3, <4>1, <4>3
    <3> QED
      BY <2>1, <3>1, <3>2
  <2> QED
    BY <2>1, <2>3 DEF Fine, far
<1>7. \A k \in 0..N : k \in Fine
  <2> HIDE DEF Fine
  <2> QED
    BY <1>5, <1>6, FromStepToStep, SimulatorAssumption
<1> QED
  BY <1>7, SimulatorAssumption

\* Dijkstra finds the cheapest routes by what the node knows.
LEMMA DijkstraShortest ==
    ASSUME NEW lks \in LinkStates, NEW n \in Node, NEW d \in Node, n # d,
           \A j \in Node : lks[n].link_cost[j] = LinkCost(Topology, n, j)
    PROVE  LS!Dijkstra(lks, n)[d].cost = LS!ShortestKnown(lks, n)[d]
<1>1. PICK round : RoundsOf(round, lks, n)
  BY DijkstraRounds
<1>2. PICK dist : KnownBy(dist, lks, n)
  BY KnownDefined
<1> DEFINE last == round[N]
<1>3. /\ last \in Ways(n) /\ Relaxed(lks, n, last) /\ Open(n, last) = {}
      /\ dist[N][d] =< last.dist[d]
  BY <1>1, <1>2, DijkstraEnds
<1>4. LS!Dijkstra(lks, n) =
          [i \in Node |-> IF i = n \/ last.dist[i] = CostInfinity THEN NoRoute
                          ELSE [hop |-> last.hop[i], cost |-> last.dist[i]]]
  BY <1>1 DEF RoundsOf
<1>5. LS!ShortestKnown(lks, n) = dist[N] /\ dist[N] \in Vectors
  BY <1>2, SimulatorAssumption DEF KnownBy
<1> HIDE DEF last
<1>6. last.dist[d] =< dist[N][d]
  BY <1>2, <1>3, RelaxedAreShort
<1>7. last.dist[d] \in Cost /\ dist[N][d] \in Cost
  BY <1>3, <1>5 DEF Ways, Vectors
<1>8. last.dist[d] = dist[N][d]
  BY <1>3, <1>6, <1>7, SumGrows
<1>9. LS!Dijkstra(lks, n)[d].cost = last.dist[d]
  BY <1>4 DEF NoRoute
<1> QED
  BY <1>5, <1>8, <1>9

-----------------------------------------------------------------------------
(* The queue and the topology. *)

LEMMA SameTypes ==
    ASSUME protocol' = protocol
    PROVE  Content' = Content /\ RouterState' = RouterState /\ Messages' = Messages
<1>1. Content' = Content /\ RouterState' = RouterState
  BY DEF Content, RouterState
<1> QED
  BY <1>1 DEF Messages

LEMMA EventKinds ==
    /\ \A e \in LinkEvents : /\ e.type = "link" /\ e.node \in Node /\ e.neighbor \in Node
                             /\ e.node # e.neighbor /\ e.cost \in Cost
    /\ \A e \in Messages : /\ e.type = "message" /\ e.node \in Node /\ e.neighbor \in Node
                           /\ e.node # e.neighbor /\ e.content \in Content
BY DEF LinkEvents, Messages

LEMMA PairTaken ==
    ASSUME NEW q \in Seq(LinkEvents \cup Messages), NEW p \in 1..Len(q), PairsFirst(q, p)
    PROVE  /\ q # <<>> /\ Tail(q) # <<>>
           /\ Head(q) \in LinkEvents /\ Head(Tail(q)) \in LinkEvents
           /\ Mates(Head(q), Head(Tail(q)))
           /\ InPairs(Tail(Tail(q)))
<1> DEFINE t == Tail(Tail(q))
<1>1. Len(q) \in Nat /\ 2 * p =< Len(q) /\ p >= 1 /\ p - 1 \in Nat
  BY DEF PairsFirst
<1>2. /\ t \in Seq(LinkEvents \cup Messages) /\ Len(t) = Len(q) - 2
      /\ \A k \in 1..Len(t) : t[k] = q[k + 2]
      /\ q # <<>> /\ Tail(q) # <<>> /\ Head(q) = q[1] /\ Head(Tail(q)) = q[2]
  <2>1. Len(q) >= 2
    BY <1>1
  <2>2. /\ q # <<>> /\ Tail(q) \in Seq(LinkEvents \cup Messages)
        /\ Len(Tail(q)) = Len(q) - 1 /\ Head(q) = q[1]
        /\ \A k \in 1..Len(Tail(q)) : Tail(q)[k] = q[k + 1]
    BY <2>1
  <2> HIDE DEF t
  <2>3. /\ Tail(q) # <<>> /\ t \in Seq(LinkEvents \cup Messages)
        /\ Len(t) = Len(q) - 2 /\ Head(Tail(q)) = Tail(q)[1]
        /\ \A k \in 1..Len(t) : t[k] = Tail(q)[k + 1] /\ k + 1 \in 1..Len(Tail(q))
    <3> DEFINE u == Tail(q)
    <3>1. u \in Seq(LinkEvents \cup Messages) /\ Len(u) >= 1
      BY <2>1, <2>2
    <3>2. t = Tail(u)
      BY DEF t
    <3> HIDE DEF u
    <3>3. /\ u # <<>> /\ t \in Seq(LinkEvents \cup Messages)
          /\ Len(t) = Len(u) - 1 /\ Head(u) = u[1]
          /\ \A k \in 1..Len(t) : t[k] = u[k + 1] /\ k + 1 \in 1..Len(u)
      BY <3>1, <3>2
    <3> QED
      BY <2>1, <2>2, <3>3 DEF u
  <2>4. \A k \in 1..Len(t) : t[k] = q[k + 2]
    <3> TAKE k \in 1..Len(t)
    <3>1. t[k] = Tail(q)[k + 1] /\ Tail(q)[k + 1] = q[(k + 1) + 1]
      BY <2>2, <2>3
    <3>2. (k + 1) + 1 = k + 2
      BY <2>1, <2>3
    <3> QED
      BY <3>1, <3>2
  <2>5. Len(q) \in Nat /\ Head(Tail(q)) = q[2]
    <3>1. 1 \in 1..Len(Tail(q))
      BY <2>1, <2>2
    <3> QED
      BY <2>2, <2>3, <3>1
  <2> QED
    BY <2>2, <2>3, <2>4, <2>5
<1>3. q[2 * 1 - 1] \in LinkEvents /\ q[2 * 1] \in LinkEvents /\ Mates(q[2 * 1 - 1], q[2 * 1])
  <2>1. 1 \in 1..p
    BY <1>1
  <2> QED
    BY <2>1 DEF PairsFirst
<1> HIDE DEF t
<1>4. ASSUME NEW k \in 1..(p - 1)
      PROVE  /\ t[2 * k - 1] \in LinkEvents /\ t[2 * k] \in LinkEvents
             /\ Mates(t[2 * k - 1], t[2 * k])
  <2>1. /\ k + 1 \in 1..p /\ 2 * k - 1 \in 1..Len(t) /\ 2 * k \in 1..Len(t)
        /\ (2 * k - 1) + 2 = 2 * (k + 1) - 1 /\ 2 * k + 2 = 2 * (k + 1)
    BY <1>1, <1>2
  <2>2. t[2 * k - 1] = q[2 * (k + 1) - 1] /\ t[2 * k] = q[2 * (k + 1)]
    BY <1>2, <2>1
  <2> QED
    BY <2>1, <2>2 DEF PairsFirst
<1>5. ASSUME NEW k \in (2 * (p - 1) + 1)..Len(t) PROVE t[k] \in Messages
  <2>1. k \in 1..Len(t) /\ k + 2 \in (2 * p + 1)..Len(q)
    BY <1>1, <1>2
  <2> QED
    BY <1>2, <2>1 DEF PairsFirst
<1>6. 2 * (p - 1) =< Len(t) /\ p - 1 \in 0..Len(t)
  BY <1>1, <1>2
<1>7. PairsFirst(t, p - 1)
  BY <1>4, <1>5, <1>6 DEF PairsFirst
<1>8. InPairs(t)
  BY <1>6, <1>7 DEF InPairs
<1> QED
  BY <1>2, <1>3, <1>8 DEF t

LEMMA OnlyMessages ==
    ASSUME NEW q \in Seq(LinkEvents \cup Messages), PairsFirst(q, 0)
    PROVE  /\ \A k \in 1..Len(q) : q[k] \in Messages
           /\ q # <<>> => InPairs(Tail(q))
<1>1. \A k \in 1..Len(q) : q[k] \in Messages
  <2>1. \A k \in 1..Len(q) : k \in (2 * 0 + 1)..Len(q)
    OBVIOUS
  <2> QED
    BY <2>1 DEF PairsFirst
<1>2. ASSUME q # <<>> PROVE InPairs(Tail(q))
  <2>1. Tail(q) \in Seq(LinkEvents \cup Messages) /\ Len(Tail(q)) \in Nat
        /\ \A k \in 1..Len(Tail(q)) : Tail(q)[k] = q[k + 1] /\ k + 1 \in 1..Len(q)
    BY <1>2
  <2>2. \A k \in (2 * 0 + 1)..Len(Tail(q)) : Tail(q)[k] \in Messages
    BY <1>1, <2>1
  <2>3. PairsFirst(Tail(q), 0)
    BY <2>1, <2>2 DEF PairsFirst
  <2> QED
    BY <2>1, <2>3 DEF InPairs
<1> QED
  BY <1>1, <1>2

\* The event that is processed is the first notification of a change, the second
\* one, or a message, and then only messages follow.
LEMMA EventAtHead ==
    ASSUME TypeOK, EventsInOrder, events # <<>>
    PROVE  /\ Tail(events) \in Seq(LinkEvents \cup Messages)
           /\ \/ /\ event \in LinkEvents /\ Tail(events) # <<>>
                 /\ Head(Tail(events)) \in LinkEvents /\ Mates(event, Head(Tail(events)))
                 /\ InPairs(Tail(Tail(events)))
              \/ event \in LinkEvents /\ HalfTold /\ InPairs(Tail(events))
              \/ /\ event \in Messages /\ InPairs(Tail(events))
                 /\ \A k \in 1..Len(events) : events[k] \in Messages
<1>1. events \in Seq(LinkEvents \cup Messages) /\ Tail(events) \in Seq(LinkEvents \cup Messages)
  BY DEF TypeOK
<1>2. CASE HalfTold /\ InPairs(Tail(events))
  BY <1>1, <1>2 DEF HalfTold
<1>3. CASE InPairs(events)
  <2>1. PICK p \in 0..Len(events) : PairsFirst(events, p)
    BY <1>3 DEF InPairs
  <2>2. CASE p = 0
    <3>1. PairsFirst(events, 0)
      BY <2>1, <2>2
    <3>2. 1 \in 1..Len(events) /\ event = events[1]
      BY <1>1 DEF event
    <3> QED
      BY <1>1, <3>1, <3>2, OnlyMessages
  <2>3. CASE p # 0
    <3>1. p \in 1..Len(events)
      BY <2>3, <1>1
    <3> QED
      BY <1>1, <2>1, <3>1, PairTaken DEF event
  <2> QED
    BY <2>2, <2>3
<1> QED
  BY <1>2, <1>3 DEF EventsInOrder

\* What the event makes of the topology.
LEMMA NextTopology ==
    ASSUME TypeOK, event \in LinkEvents \cup Messages
    PROVE  /\ Topology \in [Links -> Cost]
           /\ event \in Messages => Topology = topology
           /\ HalfTold => Topology = topology
           /\ event \in LinkEvents =>
                /\ LinkCost(Topology, event.node, event.neighbor) = event.cost
                /\ \A n, j \in Node :
                      \/ LinkCost(Topology, n, j) = LinkCost(topology, n, j)
                      \/ n = event.node /\ j = event.neighbor
                      \/ n = event.neighbor /\ j = event.node
<1>1. topology \in [Links -> Cost]
  BY DEF TypeOK
<1>2. CASE event \in Messages
  <2>1. event.type # "link"
    BY <1>2, EventKinds
  <2>2. event \notin LinkEvents /\ ~HalfTold
    BY <2>1, EventKinds DEF HalfTold
  <2> QED
    BY <1>1, <1>2, <2>1, <2>2 DEF Topology
<1>3. CASE event \in LinkEvents
  <2> DEFINE a == event.node
             b == event.neighbor
  <2>1. event.type = "link" /\ a \in Node /\ b \in Node /\ a # b /\ event.cost \in Cost
    BY <1>3, EventKinds
  <2>2. LinkOf(a, b) \in Links
    BY <2>1, LinkOfEnds
  <2>3. Topology = [topology EXCEPT ![LinkOf(a, b)] = event.cost]
    BY <2>1 DEF Topology
  <2>4. Topology \in [Links -> Cost] /\ (HalfTold => Topology = topology)
    BY <1>1, <2>1, <2>2, <2>3 DEF HalfTold
  <2>5. LinkCost(Topology, a, b) = event.cost
    BY <1>1, <2>1, <2>2, <2>3 DEF LinkCost
  <2>6. ASSUME NEW n \in Node, NEW j \in Node, ~(n = a /\ j = b), ~(n = b /\ j = a)
        PROVE  LinkCost(Topology, n, j) = LinkCost(topology, n, j)
    <3>1. CASE n = j
      BY <3>1 DEF LinkCost
    <3>2. CASE n # j
      <4>1. LinkOf(n, j) \in Links /\ LinkOf(n, j) # LinkOf(a, b)
        BY <2>1, <2>6, <3>2, LinkOfEnds
      <4> QED
        BY <1>1, <2>3, <3>2, <4>1 DEF LinkCost
    <3> QED
      BY <3>1, <3>2
  <2>7. event \notin Messages
    BY <2>1, EventKinds
  <2> QED
    BY <2>4, <2>5, <2>6, <2>7
<1> QED
  BY <1>2, <1>3

\* Who is not at the end of a changed link has the neighbours it had.
LEMMA NearOthers ==
    ASSUME TypeOK, event \in LinkEvents \cup Messages, NEW n \in Node,
           \/ Topology = topology
           \/ event \in LinkEvents /\ n # event.node /\ n # event.neighbor
    PROVE  Near(n) = Neighbors(topology, n)
<1>1. \A j \in Node : LinkCost(Topology, n, j) = LinkCost(topology, n, j)
  BY NextTopology
<1> QED
  BY <1>1 DEF Near, Neighbors

-----------------------------------------------------------------------------
(* A step of the simulator. *)

\* All of the invariant but the flooded copies.
SimInv == TypeOK /\ EventsInOrder /\ OwnLinksKnown /\ NoRouteToOneself /\ RoutesUseLinks

\* What a router must make of an event: routes that use links, or are left where
\* it passes over the destination, and its own links, if it keeps them, as they are.
Sound(s, r) ==
    LET n == event.node
    IN  /\ s \in RouterState /\ r \in [Node -> Route] /\ r[n].hop = 0
        /\ \A d \in Node :
             \/ r[d].hop \in Near(n) \cup {0}
             \/ /\ protocol = "pv" /\ PV!LastNode \in Near(n)
                /\ PV!inPath(s, n, PV!LastNode, d)
        /\ protocol = "ls" => \A j \in Node : s[n].link_cost[j] = LinkCost(Topology, n, j)

\* The rest of the queue is in order, and next is who was not told of a change.
LEMMA NextEvents ==
    ASSUME TypeOK, EventsInOrder, events # <<>>, protocol' = protocol,
           topology' = Topology, events' = Tail(events)
    PROVE  /\ event \in LinkEvents \cup Messages
           /\ EventsInOrder'
           /\ \/ Topology = topology
              \/ /\ event \in LinkEvents /\ HalfTold' /\ events' # <<>>
                 /\ Head(events').type = "link"
                 /\ Head(events').node = event.neighbor /\ Head(events').neighbor = event.node
<1>1. Messages' = Messages
  BY SameTypes
<1>2. /\ InPairs(events)' <=> InPairs(events')
      /\ InPairs(Tail(events))' <=> InPairs(Tail(events'))
  BY <1>1 DEF InPairs, PairsFirst, LinkEvents
<1>3. CASE /\ event \in LinkEvents /\ Tail(events) # <<>>
           /\ Head(Tail(events)) \in LinkEvents /\ Mates(event, Head(Tail(events)))
           /\ InPairs(Tail(Tail(events)))
  <2> DEFINE f == Head(events')
  <2>1. /\ events' # <<>> /\ f \in LinkEvents /\ f.type = "link" /\ f.node = event.neighbor
        /\ f.neighbor = event.node /\ f.cost = event.cost
    BY <1>3, EventKinds DEF Mates
  <2>2. topology'[LinkOf(f.node, f.neighbor)] = f.cost
    <3>1. event.node \in Node /\ event.neighbor \in Node /\ event.node # event.neighbor
      BY <1>3, EventKinds
    <3>2. Topology[LinkOf(event.node, event.neighbor)] = event.cost
      BY <1>3, <3>1, NextTopology DEF LinkCost
    <3>3. LinkOf(f.node, f.neighbor) = LinkOf(event.node, event.neighbor)
      BY <2>1, <3>1, LinkOfEnds
    <3> QED
      BY <2>1, <3>2, <3>3
  <2>3. event' = f
    BY DEF event
  <2> HIDE DEF f
  <2>4. HalfTold'
    BY <2>1, <2>2, <2>3 DEF HalfTold, LinkOf, LinkEvents, f
  <2>5. EventsInOrder'
    BY <1>2, <1>3, <2>4 DEF EventsInOrder
  <2> QED
    BY <1>3, <2>1, <2>4, <2>5 DEF f
<1>4. CASE event \in LinkEvents /\ HalfTold /\ InPairs(Tail(events))
  BY <1>2, <1>4, NextTopology DEF EventsInOrder
<1>5. CASE event \in Messages /\ InPairs(Tail(events))
  BY <1>2, <1>5, NextTopology DEF EventsInOrder
<1> QED
  BY <1>3, <1>4, <1>5, EventAtHead

LEMMA StepTypes ==
    ASSUME TypeOK, EventsInOrder, protocol' = protocol, events # <<>>,
           NEW s, NEW r, NEW ms, Process(s, r, ms), Sound(s, r), ms \in Seq(Messages)
    PROVE  TypeOK'
<1>1. event \in LinkEvents \cup Messages /\ Tail(events) \in Seq(LinkEvents \cup Messages)
  BY EventAtHead
<1>2. event.node \in Node /\ Topology \in [Links -> Cost]
  BY <1>1, EventKinds, NextTopology
<1>3. node_states' \in [Node -> RouterState] /\ routes' \in [Node -> [Node -> Route]]
  BY <1>2 DEF TypeOK, Process, Sound
<1>4. events' \in Seq(LinkEvents \cup Messages) /\ later' \in Seq(Messages)
  BY <1>1 DEF TypeOK, Process
<1>5. topology' \in [Links -> Cost] /\ running' \in BOOLEAN /\ changed' \in 0..MaxChanges
      /\ protocol' \in {"dv", "dvrpp", "pv", "ls"}
  BY <1>2 DEF TypeOK, Process
<1>6. Messages' = Messages /\ RouterState' = RouterState
  BY SameTypes
<1> QED
  BY <1>3, <1>4, <1>5, <1>6 DEF TypeOK, LinkEvents, Links, Node, Cost, Route

LEMMA StepOwnLinks ==
    ASSUME SimInv, protocol' = protocol, events # <<>>,
           NEW s, NEW r, NEW ms, Process(s, r, ms), Sound(s, r)
    PROVE  OwnLinksKnown' /\ NoRouteToOneself'
<1>1. /\ TypeOK /\ EventsInOrder /\ OwnLinksKnown /\ NoRouteToOneself
      /\ topology' = Topology /\ events' = Tail(events)
      /\ node_states' = [node_states EXCEPT ![event.node] = s]
      /\ routes' = [routes EXCEPT ![event.node] = r]
  BY DEF SimInv, Process
<1>2. event \in LinkEvents \cup Messages /\ event.node \in Node
  BY <1>1, NextEvents, EventKinds
<1>3. \A n \in Node : /\ n = event.node => node_states'[n] = s /\ routes'[n] = r
                      /\ n # event.node => node_states'[n] = node_states[n]
                                           /\ routes'[n] = routes[n]
  BY <1>1, <1>2 DEF TypeOK
<1>4. NoRouteToOneself'
  BY <1>1, <1>3 DEF NoRouteToOneself, Sound
<1>5. ASSUME protocol = "ls", NEW n \in Node, NEW j \in Node
      PROVE  \/ node_states'[n][n].link_cost[j] = LinkCost(topology', n, j)
             \/ HalfTold' /\ event'.node = n /\ event'.neighbor = j
  <2>1. CASE n = event.node
    BY <1>1, <1>3, <1>5, <2>1 DEF Sound
  <2>2. CASE n # event.node
    <3>1. node_states'[n][n].link_cost[j] = LinkCost(topology, n, j)
      BY <1>1, <1>3, <1>5, <2>2 DEF OwnLinksKnown
    <3>2. CASE Topology = topology
      BY <1>1, <3>1, <3>2
    <3>3. CASE Topology # topology
      <4>1. /\ event \in LinkEvents /\ HalfTold'
            /\ event'.node = event.neighbor /\ event'.neighbor = event.node
        BY <1>1, <3>3, NextEvents DEF event
      <4> QED
        BY <1>1, <2>2, <3>1, <4>1, NextTopology
    <3> QED
      BY <3>2, <3>3
  <2> QED
    BY <2>1, <2>2
<1>6. OwnLinksKnown'
  BY <1>5 DEF OwnLinksKnown, LinkCost, LinkOf
<1> QED
  BY <1>4, <1>6

LEMMA StepRoutes ==
    ASSUME SimInv, protocol' = protocol, events # <<>>,
           NEW s, NEW r, NEW ms, Process(s, r, ms), Sound(s, r)
    PROVE  RoutesUseLinks'
<1>1. /\ TypeOK /\ EventsInOrder /\ RoutesUseLinks
      /\ topology' = Topology /\ events' = Tail(events)
      /\ node_states' = [node_states EXCEPT ![event.node] = s]
      /\ routes' = [routes EXCEPT ![event.node] = r]
      /\ events \in Seq(LinkEvents \cup Messages) /\ Tail(events) \in Seq(LinkEvents \cup Messages)
  BY DEF SimInv, Process, TypeOK
<1>2. event \in LinkEvents \cup Messages /\ event.node \in Node
  BY <1>1, NextEvents, EventKinds
<1>3. \A n \in Node : /\ n = event.node => node_states'[n] = s /\ routes'[n] = r
                      /\ n # event.node => node_states'[n] = node_states[n]
                                           /\ routes'[n] = routes[n]
  BY <1>1, <1>2 DEF TypeOK
<1> DEFINE Passed(n, d) ==
             /\ protocol = "pv" /\ PV!LastNode \in Near(n)
             /\ PV!inPath(node_states'[n], n, PV!LastNode, d)
<1>4. \A n, d \in Node : Passed(n, d) => PassedOver(n, d)'
  BY <1>1 DEF PassedOver, Near, Neighbors, LinkCost, LinkOf, PV!LastNode, PV!inPath, PV!Node, Node
<1>5. \A n \in Node : Neighbors(topology, n)' = Near(n)
  BY <1>1 DEF Near, Neighbors, LinkCost, LinkOf
<1>6. ASSUME NEW n \in Node, NEW d \in Node
      PROVE  routes'[n][d].hop \in Near(n) \cup {0} \/ Passed(n, d) \/ Pending(n)'
  <2>1. CASE n = event.node
    BY <1>3, <2>1 DEF Sound
  <2>2. CASE n # event.node
    <3>1. Pending(n) => Pending(n)'
      <4> SUFFICES ASSUME NEW k \in DOMAIN events, events[k].type = "link", events[k].node = n
                   PROVE  Pending(n)'
        BY DEF Pending
      <4>1. k # 1
        BY <2>2 DEF event
      <4>2. k - 1 \in DOMAIN Tail(events) /\ Tail(events)[k - 1] = events[k]
        BY <1>1, <4>1
      <4> QED
        BY <1>1, <4>2 DEF Pending
    <3>2. CASE n = event.neighbor /\ Topology # topology
      <4>1. events' # <<>> /\ Head(events').type = "link" /\ Head(events').node = n
        BY <1>1, <3>2, NextEvents
      <4>2. 1 \in DOMAIN Tail(events) /\ Head(Tail(events)) = Tail(events)[1]
        BY <1>1, <4>1
      <4> QED
        BY <1>1, <4>1, <4>2 DEF Pending
    <3>3. CASE n # event.neighbor \/ Topology = topology
      <4>1. Near(n) = Neighbors(topology, n)
        BY <1>1, <1>2, <2>2, <3>3, NearOthers, NextEvents
      <4>2. \/ routes[n][d].hop \in Neighbors(topology, n) \cup {0}
            \/ PassedOver(n, d) \/ Pending(n)
        BY <1>1 DEF RoutesUseLinks
      <4>3. PassedOver(n, d) => Passed(n, d)
        BY <1>3, <2>2, <4>1 DEF PassedOver
      <4> QED
        BY <1>3, <2>2, <3>1, <4>1, <4>2, <4>3
    <3> QED
      BY <3>2, <3>3
  <2> QED
    BY <2>1, <2>2
<1> HIDE DEF Passed
<1>7. Node' = Node
  BY DEF Node
<1> QED
  BY <1>4, <1>5, <1>6, <1>7 DEF RoutesUseLinks

LEMMA ProcessStep ==
    ASSUME SimInv, protocol' = protocol, events # <<>>,
           NEW s, NEW r, NEW ms, Process(s, r, ms), Sound(s, r), ms \in Seq(Messages)
    PROVE  SimInv'
<1>1. TypeOK' /\ OwnLinksKnown' /\ NoRouteToOneself' /\ RoutesUseLinks'
  BY StepTypes, StepOwnLinks, StepRoutes DEF SimInv
<1>2. EventsInOrder'
  BY NextEvents DEF SimInv, Process
<1> QED
  BY <1>1, <1>2 DEF SimInv

-----------------------------------------------------------------------------
(* The beginning, and the steps from one time to the next. *)

LEMMA NotificationsPaired ==
    ASSUME NEW cs \in Seq(LinkChange), NEW ms \in Seq(Messages)
    PROVE  LET q == Notifications(cs) \o ms
           IN  /\ Notifications(cs) \in Seq(LinkEvents)
               /\ q \in Seq(LinkEvents \cup Messages) /\ InPairs(q)
<1> DEFINE p == Len(cs)
           ns == Notifications(cs)
           q == ns \o ms
<1>1. ASSUME NEW k \in 1..p
      PROVE  /\ Notification(cs[k], 1, 2) \in LinkEvents
             /\ Notification(cs[k], 2, 1) \in LinkEvents
             /\ Mates(Notification(cs[k], 1, 2), Notification(cs[k], 2, 1))
  <2>1. cs[k].link \in Links /\ cs[k].cost \in Cost
    <3>1. cs[k] \in LinkChange
      OBVIOUS
    <3> QED
      BY <3>1 DEF LinkChange
  <2>2. /\ cs[k].link[1] \in Node /\ cs[k].link[2] \in Node
        /\ cs[k].link[1] # cs[k].link[2]
    <3>1. cs[k].link \in Node \X Node /\ cs[k].link[1] < cs[k].link[2]
      BY <2>1 DEF Links
    <3>2. cs[k].link[1] \in Node /\ cs[k].link[2] \in Node
      BY <3>1
    <3> QED
      BY <3>1, <3>2 DEF Node
  <2> QED
    BY <2>1, <2>2 DEF Notification, LinkEvents, Mates
<1>2. p \in Nat /\ ns = [k \in 1..(2 * p) |->
                           IF k % 2 = 1 THEN Notification(cs[(k + 1) \div 2], 1, 2)
                                        ELSE Notification(cs[k \div 2], 2, 1)]
  BY DEF Notifications
<1>3. \A k \in 1..p : /\ 2 * k - 1 \in 1..(2 * p) /\ 2 * k \in 1..(2 * p)
                      /\ (2 * k - 1) % 2 = 1 /\ (2 * k) % 2 = 0
                      /\ ((2 * k - 1) + 1) \div 2 = k /\ (2 * k) \div 2 = k
  BY <1>2
<1>4. \A k \in 1..p : /\ ns[2 * k - 1] = Notification(cs[k], 1, 2)
                      /\ ns[2 * k] = Notification(cs[k], 2, 1)
  <2> HIDE DEF ns, p
  <2> QED
    BY <1>2, <1>3
<1>5. \A k \in 1..(2 * p) : \E j \in 1..p : k = 2 * j - 1 \/ k = 2 * j
  <2> TAKE k \in 1..(2 * p)
  <2>1. CASE k % 2 = 1
    <3>1. k = 2 * (k \div 2) + 1 /\ k \div 2 \in Int
      BY <1>2, <2>1
    <3>2. k \div 2 + 1 \in 1..p /\ k = 2 * (k \div 2 + 1) - 1
      BY <1>2, <3>1
    <3> QED
      BY <3>2
  <2>2. CASE k % 2 # 1
    <3>1. k % 2 = 0
      BY <1>2, <2>2
    <3>2. k = 2 * (k \div 2) /\ k \div 2 \in Int
      BY <1>2, <3>1
    <3>3. k \div 2 \in 1..p
      BY <1>2, <3>2
    <3> QED
      BY <3>2, <3>3
  <2> QED
    BY <2>1, <2>2
<1> HIDE DEF p
<1>6. ns \in Seq(LinkEvents) /\ Len(ns) = 2 * p
  <2>1. \A k \in 1..(2 * p) : ns[k] \in LinkEvents
    <3> HIDE DEF ns
    <3> QED
      BY <1>1, <1>4, <1>5
  <2>2. DOMAIN ns = 1..(2 * p) /\ 2 * p \in Nat
    BY <1>2
  <2>3. ns \in [1..(2 * p) -> LinkEvents]
    BY <1>2, <2>1
  <2> HIDE DEF ns
  <2> QED
    BY <2>2, <2>3
<1> HIDE DEF ns
<1>7. /\ q \in Seq(LinkEvents \cup Messages) /\ Len(q) = 2 * p + Len(ms)
      /\ \A k \in 1..(2 * p) : q[k] = ns[k]
      /\ \A k \in (2 * p + 1)..Len(q) : q[k] = ms[k - 2 * p] /\ k - 2 * p \in 1..Len(ms)
  <2>1. ns \in Seq(LinkEvents \cup Messages) /\ ms \in Seq(LinkEvents \cup Messages)
    BY <1>6
  <2> QED
    BY <1>2, <1>6, <2>1
<1> HIDE DEF q
<1>8. PairsFirst(q, p)
  <2>1. 2 * p =< Len(q)
    BY <1>2, <1>7
  <2>2. \A k \in 1..p : /\ q[2 * k - 1] \in LinkEvents /\ q[2 * k] \in LinkEvents
                        /\ Mates(q[2 * k - 1], q[2 * k])
    BY <1>1, <1>3, <1>4, <1>7
  <2>3. \A k \in (2 * p + 1)..Len(q) : q[k] \in Messages
    BY <1>7
  <2> QED
    BY <2>1, <2>2, <2>3 DEF PairsFirst
<1>9. p \in 0..Len(q)
  BY <1>2, <1>7
<1> QED
  BY <1>6, <1>7, <1>8, <1>9 DEF q, ns, InPairs

LEMMA InitTables ==
    /\ DV!init_state \in [Node -> [cost : [Node -> Vectors], next_hop : [Node -> 0..N]]]
    /\ PV!init_state \in [Node -> [cost : [Node -> Vectors], next_hop : [Node -> 0..N],
                                   paths : [Node -> [Node -> Paths]]]]
    /\ LS!init_state \in [Node -> LinkStates]
    /\ \A n, j \in Node : LS!init_state[n][n].link_cost[j] = IF n = j THEN 0 ELSE CostInfinity
<1>1. 0 \in Cost /\ CostInfinity \in Cost /\ 0 \in 0..N /\ 0 \in Nat
  BY SimulatorAssumption DEF Cost
<1>2. \A i \in Node : [j \in Node |-> IF i = j THEN 0 ELSE CostInfinity] \in Vectors
  BY <1>1 DEF Vectors
<1> DEFINE cost == [i \in Node |-> [j \in Node |-> IF i = j THEN 0 ELSE CostInfinity]]
           hops == [i \in Node |-> 0]
           paths == [i \in Node |-> [j \in Node |-> [hop \in Node |-> 0]]]
           ls == [i \in Node |-> [version |-> 0,
                    link_cost |-> [j \in Node |-> IF i = j THEN 0 ELSE CostInfinity]]]
<1>3. cost \in [Node -> Vectors] /\ hops \in [Node -> 0..N] /\ ls \in LinkStates
  BY <1>1, <1>2 DEF LinkStates
<1>4. paths \in [Node -> [Node -> Paths]]
  BY <1>1 DEF Paths
<1>5. DV!init_state = [n \in Node |-> [cost |-> cost, next_hop |-> hops]]
  BY Zenon DEF DV!init_state, DV!Node, Node
<1>6. PV!init_state = [n \in Node |-> [cost |-> cost, next_hop |-> hops, paths |-> paths]]
  BY Zenon DEF PV!init_state, PV!NoPath, PV!Node, Node
<1>7. LS!init_state = [n \in Node |-> ls]
  BY Zenon DEF LS!init_state, LS!Node, Node
<1>8. \A n, j \in Node : ls[n].link_cost[j] = IF n = j THEN 0 ELSE CostInfinity
  OBVIOUS
<1> HIDE DEF cost, hops, paths, ls
<1> QED
  BY <1>3, <1>4, <1>5, <1>6, <1>7, <1>8

LEMMA InitSim ==
    ASSUME Init
    PROVE  SimInv
<1>1. PICK init \in {DV!init_state, PV!init_state, LS!init_state} :
        /\ SimInit(init)
        /\ \/ protocol \in {"dv", "dvrpp"} /\ init = DV!init_state
           \/ protocol = "pv" /\ init = PV!init_state
           \/ protocol = "ls" /\ init = LS!init_state
  BY DEF Init
<1>2. init \in [Node -> RouterState]
  BY <1>1, InitTables DEF RouterState
<1>3. PICK cs \in Networks : events = Notifications(cs)
  BY <1>1 DEF SimInit
<1>4. /\ topology = [l \in Links |-> CostInfinity]
      /\ later = <<>> /\ node_states = init /\ running = TRUE /\ changed = 0
      /\ routes = [n \in Node |-> [d \in Node |-> NoRoute]]
  BY <1>1 DEF SimInit
<1>5. events \in Seq(LinkEvents \cup Messages) /\ InPairs(events)
  <2>1. cs \in Seq(LinkChange) /\ <<>> \in Seq(Messages)
    BY SimulatorAssumption
  <2>2. events \o <<>> \in Seq(LinkEvents \cup Messages) /\ InPairs(events \o <<>>)
    BY <1>3, <2>1, NotificationsPaired
  <2>3. events \o <<>> = events
    <3>1. events \in Seq(LinkEvents)
      BY <1>3, <2>1, NotificationsPaired
    <3> QED
      BY <3>1
  <2> QED
    BY <2>2, <2>3
<1>6. NoRoute \in Route /\ NoRoute.hop = 0
  BY SimulatorAssumption DEF NoRoute, Route, Cost
<1>7. TypeOK
  <2>1. topology \in [Links -> Cost] /\ changed \in 0..MaxChanges
    BY <1>4, SimulatorAssumption DEF Cost
  <2>2. routes \in [Node -> [Node -> Route]]
    BY <1>4, <1>6
  <2>3. protocol \in {"dv", "dvrpp", "pv", "ls"}
    BY <1>1
  <2> QED
    BY <1>2, <1>4, <1>5, <2>1, <2>2, <2>3 DEF TypeOK
<1>8. OwnLinksKnown
  <2> SUFFICES ASSUME protocol = "ls", NEW n \in Node, NEW j \in Node
               PROVE  node_states[n][n].link_cost[j] = LinkCost(topology, n, j)
    BY DEF OwnLinksKnown
  <2>1. node_states[n][n].link_cost[j] = IF n = j THEN 0 ELSE CostInfinity
    BY <1>1, <1>4, InitTables
  <2>2. n # j => LinkOf(n, j) \in Links
    BY LinkOfEnds
  <2> QED
    BY <1>4, <2>1, <2>2 DEF LinkCost
<1>9. NoRouteToOneself /\ RoutesUseLinks
  BY <1>4, <1>6 DEF NoRouteToOneself, RoutesUseLinks
<1> QED
  BY <1>5, <1>7, <1>8, <1>9 DEF SimInv, EventsInOrder

\* On to a time that begins with the notifications of some changes, perhaps none.
LEMMA TimeStep ==
    ASSUME SimInv, NextTime \/ LinkChanges, UNCHANGED protocol
    PROVE  SimInv'
<1>1. /\ TypeOK /\ OwnLinksKnown /\ NoRouteToOneself /\ RoutesUseLinks
      /\ events = <<>> /\ later \in Seq(Messages)
  BY DEF SimInv, TypeOK, NextTime, LinkChanges
<1>2. PICK cs \in Seq(LinkChange) : events' = Notifications(cs) \o later
  <2>1. CASE NextTime
    <3>1. <<>> \in Seq(LinkChange) /\ Notifications(<<>>) = <<>>
      BY DEF Notifications
    <3>2. events' = <<>> \o later
      BY <1>1, <2>1 DEF NextTime
    <3> QED
      BY <3>1, <3>2
  <2>2. CASE LinkChanges
    BY <2>2, SimulatorAssumption DEF LinkChanges
  <2> QED
    BY <2>1, <2>2
<1>3. events' \in Seq(LinkEvents \cup Messages) /\ InPairs(events')
  BY <1>1, <1>2, NotificationsPaired
<1>4. /\ later' = <<>> /\ UNCHANGED <<topology, node_states, routes, running>>
      /\ changed' \in 0..MaxChanges
  <2>1. later' = <<>> /\ UNCHANGED <<topology, node_states, routes, running>>
    BY DEF NextTime, LinkChanges
  <2>2. changed \in 0..MaxChanges
    BY <1>1 DEF TypeOK
  <2>3. changed' \in 0..MaxChanges
    BY <2>2, SimulatorAssumption DEF NextTime, LinkChanges
  <2> QED
    BY <2>1, <2>3
<1>5. Messages' = Messages /\ RouterState' = RouterState
  BY SameTypes
<1>6. TypeOK'
  <2>1. later' \in Seq(Messages)
    BY <1>4
  <2>2. /\ topology' \in [Links -> Cost] /\ node_states' \in [Node -> RouterState]
        /\ routes' \in [Node -> [Node -> Route]] /\ running' \in BOOLEAN
        /\ protocol' \in {"dv", "dvrpp", "pv", "ls"}
    BY <1>1, <1>4 DEF TypeOK
  <2> QED
    BY <1>3, <1>4, <1>5, <2>1, <2>2 DEF TypeOK, LinkEvents, Links, Node, Cost, Route
<1>7. EventsInOrder'
  BY <1>3, <1>5 DEF EventsInOrder, InPairs, PairsFirst, LinkEvents
<1>8. OwnLinksKnown'
  <2>1. ~HalfTold
    BY <1>1 DEF HalfTold
  <2> QED
    BY <1>1, <1>4, <2>1 DEF OwnLinksKnown, LinkCost, LinkOf, Node
<1>9. NoRouteToOneself'
  BY <1>1, <1>4 DEF NoRouteToOneself, Node
<1>10. RoutesUseLinks'
  <2>1. \A n \in Node : ~Pending(n)
    BY <1>1 DEF Pending
  <2>2. \A n \in Node : Neighbors(topology, n)' = Neighbors(topology, n)
    BY <1>4 DEF Neighbors, LinkCost, LinkOf, Node
  <2>3. \A n, d \in Node : PassedOver(n, d)' <=> PassedOver(n, d)
    BY <1>4 DEF PassedOver, Neighbors, LinkCost, LinkOf, Node, PV!LastNode, PV!inPath, PV!Node
  <2>4. Node' = Node
    BY DEF Node
  <2> QED
    BY <1>1, <1>4, <2>1, <2>2, <2>3, <2>4 DEF RoutesUseLinks
<1> QED
  BY <1>6, <1>7, <1>8, <1>9, <1>10 DEF SimInv

-----------------------------------------------------------------------------
(* The distance vector routers. *)

VectorState == [cost : [Node -> Vectors], next_hop : [Node -> 0..N]]

LEMMA Fields ==
    /\ \A c \in [Node -> Vectors], h \in [Node -> 0..N] :
           [cost |-> c, next_hop |-> h] \in VectorState
    /\ \A s \in VectorState : /\ s = [cost |-> s.cost, next_hop |-> s.next_hop]
                              /\ s.cost \in [Node -> Vectors] /\ s.next_hop \in [Node -> 0..N]
BY DEF VectorState

LEMMA CheapestThrough ==
    ASSUME topology \in [Links -> Cost], Topology \in [Links -> Cost],
           NEW n \in Node, NEW i \in Node, NEW cost \in [Node -> Vectors], NEW D \in SUBSET Near(n)
    PROVE  LET via == [j \in D |-> COST_ADD(LinkCost(Topology, n, j), cost[j][i])]
           IN  Cheapest(via) \in Route /\ Cheapest(via).hop \in Near(n) \cup {0}
<1> DEFINE via == [j \in D |-> COST_ADD(LinkCost(Topology, n, j), cost[j][i])]
<1>1. D \in SUBSET Node
  BY DEF Near, Neighbors
<1>2. \A j \in D : COST_ADD(LinkCost(Topology, n, j), cost[j][i]) \in Cost
  <2> TAKE j \in D
  <2>1. j \in Node /\ cost[j][i] \in Cost
    BY <1>1 DEF Vectors
  <2> QED
    BY <2>1, LinkCostType, CostSum
<1>3. via \in [D -> Cost]
  BY <1>2
<1> HIDE DEF via
<1>4. Cheapest(via) \in Route /\ Cheapest(via).hop \in D \cup {0}
  BY <1>1, <1>3, CheapestRoute
<1> QED
  BY <1>4 DEF via

LEMMA VectorRoutes ==
    ASSUME TypeOK, event \in LinkEvents \cup Messages, NEW s \in VectorState
    PROVE  LET r == DV!bellmond_ford(s, event.node)
           IN  /\ r \in [Node -> Route] /\ r[event.node].hop = 0
               /\ \A d \in Node : r[d].hop \in Near(event.node) \cup {0}
<1> DEFINE n == event.node
           via(i) == [j \in Near(n) |-> COST_ADD(LinkCost(Topology, n, j), s.cost[j][i])]
           r == DV!bellmond_ford(s, n)
<1>1. r = [i \in Node |-> IF i = n THEN NoRoute ELSE Cheapest(via(i))]
  BY Zenon DEF DV!bellmond_ford, DV!Node, Node, DV!NoRoute, NoRoute, DV!Cheapest, Cheapest,
       DV!Least, Least, DV!COST_ADD, COST_ADD, Near, DV!Neighbors, Neighbors,
       DV!LinkCost, LinkCost, DV!LinkOf, LinkOf, DV!Topology, Topology, DV!event, event
<1>2. n \in Node /\ topology \in [Links -> Cost] /\ Topology \in [Links -> Cost]
  BY EventKinds, NextTopology DEF TypeOK
<1>3. s.cost \in [Node -> Vectors]
  BY Fields
<1>4. \A i \in Node : Cheapest(via(i)) \in Route /\ Cheapest(via(i)).hop \in Near(n) \cup {0}
  BY <1>2, <1>3, CheapestThrough
<1>5. NoRoute \in Route /\ NoRoute.hop = 0
  BY SimulatorAssumption DEF NoRoute, Route, Cost
<1> HIDE DEF r, via
<1> QED
  BY <1>1, <1>2, <1>4, <1>5 DEF r

LEMMA VectorUpdated ==
    ASSUME NEW n \in Node, NEW s \in VectorState, NEW r \in [Node -> Route]
    PROVE  DV!Updated(s, n, r) \in VectorState
<1> DEFINE row == [i \in Node |-> IF i = n THEN s.cost[n][n] ELSE r[i].cost]
           cost == [s.cost EXCEPT ![n] = row]
           hop == [i \in Node |-> IF i \in DV!Changed(s, n, r) THEN r[i].hop ELSE s.next_hop[i]]
<1>1. DV!Updated(s, n, r) = [cost |-> cost, next_hop |-> hop]
  BY Zenon DEF DV!Updated, DV!Node, Node
<1>2. /\ s.cost \in [Node -> Vectors] /\ s.next_hop \in [Node -> 0..N]
      /\ \A i \in Node : r[i].hop \in 0..N /\ r[i].cost \in Cost
  BY Fields DEF Route
<1>3. row \in Vectors
  <2>1. s.cost[n][n] \in Cost
    BY <1>2 DEF Vectors
  <2> QED
    BY <1>2, <2>1 DEF Vectors
<1> HIDE DEF row
<1>4. cost \in [Node -> Vectors] /\ hop \in [Node -> 0..N]
  BY <1>2, <1>3
<1> HIDE DEF cost, hop
<1> QED
  BY <1>1, <1>4, Fields

LEMMA VectorReceived ==
    ASSUME TypeOK, protocol \in {"dv", "dvrpp"}, event \in LinkEvents \cup Messages
    PROVE  DV!Received \in VectorState
<1> DEFINE s == node_states[event.node]
           b == event.neighbor
<1>1. event.node \in Node /\ b \in Node
  BY EventKinds
<1>2. s \in VectorState /\ (event.type = "message" => event.content \in Vectors)
  <2>1. RouterState = VectorState /\ Content = Vectors
    BY DEF RouterState, Content, VectorState
  <2>2. s \in VectorState
    BY <1>1, <2>1 DEF TypeOK
  <2>3. event.type = "message" => event \in Messages
    BY EventKinds
  <2> QED
    BY <2>1, <2>2, <2>3, EventKinds
<1>3. DV!Received = IF event.type = "message" THEN [s EXCEPT !.cost[b] = event.content] ELSE s
  BY Zenon DEF DV!Received, DV!event, event
<1> HIDE DEF s
<1>4. ASSUME event.type = "message" PROVE [s EXCEPT !.cost[b] = event.content] \in VectorState
  <2> DEFINE c == [s.cost EXCEPT ![b] = event.content]
  <2>1. s.cost \in [Node -> Vectors] /\ s.next_hop \in [Node -> 0..N]
        /\ s = [cost |-> s.cost, next_hop |-> s.next_hop]
    BY <1>2, Fields
  <2>2. [s EXCEPT !.cost[b] = event.content] = [cost |-> c, next_hop |-> s.next_hop]
    BY <2>1
  <2>3. c \in [Node -> Vectors]
    BY <1>1, <1>2, <1>4, <2>1
  <2> HIDE DEF c
  <2> QED
    BY <2>1, <2>2, <2>3, Fields
<1> QED
  BY <1>2, <1>3, <1>4

LEMMA MessagesOf ==
    ASSUME event \in LinkEvents \cup Messages, NEW m \in Near(event.node), NEW c \in Content
    PROVE  Message(m, c) \in Messages /\ Message(m, c).content = c
<1>1. event.node \in Node /\ m \in Node /\ m # event.node
  BY EventKinds DEF Near, Neighbors
<1> QED
  BY <1>1 DEF Message, Messages

LEMMA NearNodes == \A n : Near(n) \in SUBSET Node
BY DEF Near, Neighbors

\* The operators of the simulator are the same in every router.
LEMMA DVSimulator ==
    /\ \A n : DV!Neighbors(DV!Topology, n) = Near(n)
    /\ \A s, r, ms : DV!Process(s, r, ms) <=> Process(s, r, ms)
    /\ \A told, content : DV!MessagesTo(told, content) = MessagesTo(told, content)
<1>1. \A n : DV!Neighbors(DV!Topology, n) = Near(n)
  BY Zenon DEF Near, DV!Neighbors, Neighbors, DV!LinkCost, LinkCost, DV!LinkOf, LinkOf,
         DV!Topology, Topology, DV!event, event, DV!Node, Node
<1>2. \A s, r, ms : DV!Process(s, r, ms) <=> Process(s, r, ms)
  BY Zenon DEF DV!Process, Process, DV!event, event, DV!Topology, Topology, DV!LinkOf, LinkOf
<1>3. \A told, content : DV!MessagesTo(told, content) = MessagesTo(told, content)
  BY Zenon DEF DV!MessagesTo, MessagesTo, DV!event, event, DV!Message, Message
<1> QED
  BY <1>1, <1>2, <1>3

LEMMA RPPSimulator ==
    /\ \A n : RPP!Neighbors(RPP!Topology, n) = Near(n)
    /\ \A s, r, ms : RPP!Process(s, r, ms) <=> Process(s, r, ms)
    /\ \A told, content : RPP!MessagesTo(told, content) = MessagesTo(told, content)
<1>1. \A n : RPP!Neighbors(RPP!Topology, n) = Near(n)
  BY Zenon DEF Near, RPP!Neighbors, Neighbors, RPP!LinkCost, LinkCost, RPP!LinkOf, LinkOf,
         RPP!Topology, Topology, RPP!event, event, RPP!Node, Node
<1>2. \A s, r, ms : RPP!Process(s, r, ms) <=> Process(s, r, ms)
  BY Zenon DEF RPP!Process, Process, RPP!event, event, RPP!Topology, Topology, RPP!LinkOf, LinkOf
<1>3. \A told, content : RPP!MessagesTo(told, content) = MessagesTo(told, content)
  BY Zenon DEF RPP!MessagesTo, MessagesTo, RPP!event, event, RPP!Message, Message
<1> QED
  BY <1>1, <1>2, <1>3

\* With and without poison the routes are the same.
LEMMA SameVectors ==
    /\ RPP!Received = DV!Received /\ RPP!CameUp = DV!CameUp
    /\ \A s, n : RPP!bellmond_ford(s, n) = DV!bellmond_ford(s, n)
    /\ \A s, n, r : RPP!Updated(s, n, r) = DV!Updated(s, n, r)
    /\ \A s, n, r : RPP!Changed(s, n, r) = DV!Changed(s, n, r)
<1>1. RPP!Received = DV!Received /\ RPP!CameUp = DV!CameUp
  BY Zenon DEF RPP!Received, DV!Received, RPP!event, DV!event, RPP!CameUp, DV!CameUp,
       RPP!LinkCost, DV!LinkCost, RPP!LinkOf, DV!LinkOf, RPP!Topology, DV!Topology
<1>2. \A s, n : RPP!bellmond_ford(s, n) = DV!bellmond_ford(s, n)
  <2> SUFFICES ASSUME NEW s, NEW n PROVE RPP!bellmond_ford(s, n) = DV!bellmond_ford(s, n)
    OBVIOUS
  <2> DEFINE all == [i \in Node |-> IF i = n THEN NoRoute ELSE
                       Cheapest([j \in Near(n) |->
                           COST_ADD(LinkCost(Topology, n, j), s.cost[j][i])])]
  <2>1. DV!bellmond_ford(s, n) = all
    BY Zenon DEF DV!bellmond_ford, DV!Node, Node, DV!NoRoute, NoRoute, DV!Cheapest, Cheapest,
         DV!Least, Least, DV!COST_ADD, COST_ADD, Near, DV!Neighbors, Neighbors,
         DV!LinkCost, LinkCost, DV!LinkOf, LinkOf, DV!Topology, Topology, DV!event, event
  <2>2. RPP!bellmond_ford(s, n) = all
    BY Zenon DEF RPP!bellmond_ford, RPP!Node, Node, RPP!NoRoute, NoRoute, RPP!Cheapest, Cheapest,
         RPP!Least, Least, RPP!COST_ADD, COST_ADD, Near, RPP!Neighbors, Neighbors,
         RPP!LinkCost, LinkCost, RPP!LinkOf, LinkOf, RPP!Topology, Topology, RPP!event, event
  <2> QED
    BY <2>1, <2>2, Zenon
<1>3. \A s, n, r : RPP!Changed(s, n, r) = DV!Changed(s, n, r)
  BY Zenon DEF RPP!Changed, DV!Changed, RPP!Node, DV!Node
<1>4. \A s, n, r : RPP!Updated(s, n, r) = DV!Updated(s, n, r)
  BY Zenon DEF RPP!Updated, DV!Updated, RPP!Changed, DV!Changed, RPP!Node, DV!Node
<1> QED
  BY <1>1, <1>2, <1>3, <1>4

\* What the node of the event makes of it, whom it tells, and what.
NewRoutes == DV!bellmond_ford(DV!Received, event.node)
NewTable == DV!Updated(DV!Received, event.node, NewRoutes)
ToldNow == IF DV!Changed(DV!Received, event.node, NewRoutes) = {} THEN {} ELSE Near(event.node)
SentNow == [m \in ToldNow |-> Offered(NewTable, event.node, m)]

VectorUpdate == (protocol = "dv" /\ DV!update) \/ (protocol = "dvrpp" /\ RPP!update)

LEMMA VectorProcess ==
    ASSUME VectorUpdate
    PROVE  /\ events # <<>> /\ Process(NewTable, NewRoutes, MessagesTo(ToldNow, SentNow))
           /\ unheard' = (unheard \cup DV!CameUp) \ ({event.node} \X ToldNow)
<1> DEFINE n == event.node
           s0 == DV!Received
<1>1. CASE protocol = "dv" /\ DV!update
  <2>1. /\ running /\ events # <<>>
        /\ \E r1 \in {DV!bellmond_ford(s0, n)} :
           \E s1 \in {DV!Updated(s0, n, r1)} :
           \E t1 \in {IF DV!Changed(s0, n, r1) = {} THEN {} ELSE DV!Neighbors(DV!Topology, n)} :
             /\ DV!Process(s1, r1, DV!MessagesTo(t1, [m \in t1 |-> DV!Vector(s1, n, m)]))
             /\ unheard' = (unheard \cup DV!CameUp) \ ({n} \X t1)
    BY <1>1, Zenon DEF DV!update, DV!event, event
  <2>2. SentNow = [m \in ToldNow |-> DV!Vector(NewTable, n, m)]
    BY <1>1 DEF SentNow, Offered
  <2>3. PICK t1 : /\ t1 = ToldNow
                  /\ DV!Process(NewTable, NewRoutes,
                         DV!MessagesTo(t1, [m \in t1 |-> DV!Vector(NewTable, n, m)]))
                  /\ unheard' = (unheard \cup DV!CameUp) \ ({n} \X t1)
    BY <2>1, DVSimulator DEF NewTable, NewRoutes, ToldNow
  <2> HIDE DEF s0
  <2> QED
    BY <2>1, <2>2, <2>3, DVSimulator
<1>2. CASE protocol = "dvrpp" /\ RPP!update
  <2>1. /\ running /\ events # <<>>
        /\ \E r1 \in {RPP!bellmond_ford(RPP!Received, n)} :
           \E s1 \in {RPP!Updated(RPP!Received, n, r1)} :
           \E t1 \in {IF RPP!Changed(RPP!Received, n, r1) = {} THEN {}
                      ELSE RPP!Neighbors(RPP!Topology, n)} :
             /\ RPP!Process(s1, r1, RPP!MessagesTo(t1, [m \in t1 |-> RPP!Vector(s1, n, m)]))
             /\ unheard' = (unheard \cup RPP!CameUp) \ ({n} \X t1)
    BY <1>2, Zenon DEF RPP!update, RPP!event, event
  <2>2. SentNow = [m \in ToldNow |-> RPP!Vector(NewTable, n, m)]
    BY <1>2 DEF SentNow, Offered
  <2>3. PICK t1 : /\ t1 = ToldNow
                  /\ RPP!Process(NewTable, NewRoutes,
                         RPP!MessagesTo(t1, [m \in t1 |-> RPP!Vector(NewTable, n, m)]))
                  /\ unheard' = (unheard \cup RPP!CameUp) \ ({n} \X t1)
    BY <2>1, RPPSimulator, SameVectors DEF NewTable, NewRoutes, ToldNow
  <2> QED
    BY <2>1, <2>2, <2>3, RPPSimulator, SameVectors
<1> QED
  BY <1>1, <1>2 DEF VectorUpdate

\* The types of all this.
LEMMA VectorTypes ==
    ASSUME TypeOK, EventsInOrder, protocol \in {"dv", "dvrpp"}, events # <<>>
    PROVE  /\ event \in LinkEvents \cup Messages /\ event.node \in Node /\ event.neighbor \in Node
           /\ event.node # event.neighbor
           /\ RouterState = VectorState /\ Content = Vectors
           /\ DV!Received \in VectorState /\ NewTable \in VectorState
           /\ NewRoutes \in [Node -> Route] /\ NewRoutes[event.node].hop = 0
           /\ \A d \in Node : NewRoutes[d].hop \in Near(event.node) \cup {0}
           /\ ToldNow \in SUBSET Near(event.node)
           /\ \A m \in ToldNow : SentNow[m] \in Content /\ Message(m, SentNow[m]) \in Messages
<1> DEFINE n == event.node
<1>1. /\ event \in LinkEvents \cup Messages /\ n \in Node /\ event.neighbor \in Node
      /\ n # event.neighbor
  BY EventAtHead, EventKinds
<1>2. DV!Received \in VectorState
  BY <1>1, VectorReceived
<1>3. /\ NewRoutes \in [Node -> Route] /\ NewRoutes[n].hop = 0
      /\ \A d \in Node : NewRoutes[d].hop \in Near(n) \cup {0}
  BY <1>1, <1>2, VectorRoutes DEF NewRoutes
<1>4. NewTable \in VectorState
  BY <1>1, <1>2, <1>3, VectorUpdated DEF NewTable
<1>5. RouterState = VectorState /\ Content = Vectors
  BY DEF RouterState, Content, VectorState
<1>6. ToldNow \in SUBSET Near(n)
  BY DEF ToldNow
<1>7. ASSUME NEW m \in ToldNow PROVE SentNow[m] \in Content /\ Message(m, SentNow[m]) \in Messages
  <2>1. \A j \in Node : NewTable.cost[n][j] \in Cost
    BY <1>1, <1>4, Fields DEF Vectors
  <2>2. CostInfinity \in Cost
    BY SimulatorAssumption DEF Cost
  <2>3. Offered(NewTable, n, m) \in Vectors
    BY <2>1, <2>2 DEF Offered, DV!Vector, RPP!Vector, DV!Node, RPP!Node, Node, Vectors
  <2>4. SentNow[m] \in Content
    BY <1>5, <2>3 DEF SentNow
  <2> QED
    BY <1>1, <1>6, <2>4, MessagesOf
<1> QED
  BY <1>1, <1>2, <1>3, <1>4, <1>5, <1>6, <1>7

LEMMA VectorStep ==
    ASSUME SimInv, UNCHANGED protocol, VectorUpdate
    PROVE  SimInv'
<1> DEFINE ms == MessagesTo(ToldNow, SentNow)
<1>1. events # <<>> /\ Process(NewTable, NewRoutes, ms)
  BY VectorProcess
<1>2. TypeOK /\ EventsInOrder /\ protocol \in {"dv", "dvrpp"}
  BY DEF SimInv, VectorUpdate
<1>3. Sound(NewTable, NewRoutes)
  BY <1>1, <1>2, VectorTypes DEF Sound
<1>4. ms \in Seq(Messages)
  BY <1>1, <1>2, VectorTypes, NearNodes, MessagesToTold
<1> HIDE DEF ms
<1> QED
  BY <1>1, <1>3, <1>4, ProcessStep

-----------------------------------------------------------------------------
(* The path vector router. *)

PathState == [cost : [Node -> Vectors], next_hop : [Node -> 0..N],
              paths : [Node -> [Node -> Paths]]]

LEMMA PathFields ==
    /\ \A c \in [Node -> Vectors], h \in [Node -> 0..N], p \in [Node -> [Node -> Paths]] :
           [cost |-> c, next_hop |-> h, paths |-> p] \in PathState
    /\ \A s \in PathState :
           /\ s = [cost |-> s.cost, next_hop |-> s.next_hop, paths |-> s.paths]
           /\ s.cost \in [Node -> Vectors] /\ s.next_hop \in [Node -> 0..N]
           /\ s.paths \in [Node -> [Node -> Paths]]
BY DEF PathState

LEMMA PVSimulator ==
    /\ \A n : PV!Neighbors(PV!Topology, n) = Near(n)
    /\ \A s, r, ms : PV!Process(s, r, ms) <=> Process(s, r, ms)
    /\ \A told, content : PV!MessagesTo(told, content) = MessagesTo(told, content)
<1>1. \A n : PV!Neighbors(PV!Topology, n) = Near(n)
  BY Zenon DEF Near, PV!Neighbors, Neighbors, PV!LinkCost, LinkCost, PV!LinkOf, LinkOf,
         PV!Topology, Topology, PV!event, event, PV!Node, Node
<1>2. \A s, r, ms : PV!Process(s, r, ms) <=> Process(s, r, ms)
  BY Zenon DEF PV!Process, Process, PV!event, event, PV!Topology, Topology, PV!LinkOf, LinkOf
<1>3. \A told, content : PV!MessagesTo(told, content) = MessagesTo(told, content)
  BY Zenon DEF PV!MessagesTo, MessagesTo, PV!event, event, PV!Message, Message
<1> QED
  BY <1>1, <1>2, <1>3

\* The routes of all destinations that are not passed over.
LEMMA PathRoutes ==
    ASSUME TypeOK, event \in LinkEvents \cup Messages, NEW s \in PathState
    PROVE  LET n == event.node
               r == PV!bellmond_ford(s, n)
           IN  /\ DOMAIN r \in SUBSET Node /\ n \notin DOMAIN r
               /\ \A d \in DOMAIN r : r[d] \in Route /\ r[d].hop \in Near(n) \cup {0}
               /\ \A d \in Node \ DOMAIN r :
                     \/ d = n
                     \/ PV!LastNode \in Near(n) /\ PV!inPath(s, n, PV!LastNode, d)
<1> DEFINE n == event.node
           D(i) == {m \in Near(n) : ~PV!inPath(s, n, m, i)}
           via(i) == [j \in D(i) |-> COST_ADD(LinkCost(Topology, n, j), s.cost[j][i])]
           dests == {d \in Node \ {n} : ~PV!Skipped(s, n, d)}
           r == PV!bellmond_ford(s, n)
<1>1. r = [i \in dests |-> Cheapest(via(i))]
  BY Zenon DEF PV!bellmond_ford, PV!Node, Node, PV!NoRoute, NoRoute, PV!Cheapest, Cheapest,
       PV!Least, Least, PV!COST_ADD, COST_ADD, Near, PV!Neighbors, Neighbors,
       PV!LinkCost, LinkCost, PV!LinkOf, LinkOf, PV!Topology, Topology, PV!event, event
<1>2. n \in Node /\ topology \in [Links -> Cost] /\ Topology \in [Links -> Cost]
  BY EventKinds, NextTopology DEF TypeOK
<1>3. s.cost \in [Node -> Vectors]
  BY PathFields
<1>4. \A i \in Node : Cheapest(via(i)) \in Route /\ Cheapest(via(i)).hop \in Near(n) \cup {0}
  <2> TAKE i \in Node
  <2>1. D(i) \in SUBSET Near(n)
    OBVIOUS
  <2> HIDE DEF D
  <2> QED
    BY <1>2, <1>3, <2>1, CheapestThrough
<1>5. \A d : PV!Skipped(s, n, d) <=> PV!LastNode \in Near(n) /\ PV!inPath(s, n, PV!LastNode, d)
  BY PVSimulator DEF PV!Skipped
<1> HIDE DEF r, via
<1> QED
  BY <1>1, <1>2, <1>4, <1>5 DEF r

LEMMA PathUpdated ==
    ASSUME NEW n \in Node, NEW s \in PathState, NEW r, DOMAIN r \in SUBSET Node,
           \A d \in DOMAIN r : r[d] \in Route
    PROVE  /\ PV!Updated(s, n, r) \in PathState
           /\ \A m \in Node : m # n => PV!Updated(s, n, r).paths[m] = s.paths[m]
<1> DEFINE row == [i \in Node |-> IF i \in DOMAIN r THEN r[i].cost ELSE s.cost[n][i]]
           cost == [s.cost EXCEPT ![n] = row]
           hop == [i \in Node |-> IF i \in PV!Changed(s, n, r) THEN r[i].hop ELSE s.next_hop[i]]
           path == [i \in Node |->
                       IF i \notin DOMAIN r THEN s.paths[n][i]
                       ELSE IF r[i].hop = 0 THEN PV!NoPath
                       ELSE PV!set_path(s.paths[n][i], r[i].hop)]
           paths == [s.paths EXCEPT ![n] = path]
<1>1. PV!Updated(s, n, r) = [cost |-> cost, next_hop |-> hop, paths |-> paths]
  BY Zenon DEF PV!Updated, PV!Node, Node
<1>2. /\ s.cost \in [Node -> Vectors] /\ s.next_hop \in [Node -> 0..N]
      /\ s.paths \in [Node -> [Node -> Paths]]
      /\ \A i \in DOMAIN r : r[i].hop \in 0..N /\ r[i].cost \in Cost
  BY PathFields DEF Route
<1>3. row \in Vectors
  <2>1. \A i \in Node : s.cost[n][i] \in Cost
    BY <1>2 DEF Vectors
  <2> QED
    BY <1>2, <2>1 DEF Vectors
<1>4. hop \in [Node -> 0..N]
  <2>1. \A i \in PV!Changed(s, n, r) : i \in DOMAIN r
    BY DEF PV!Changed
  <2> QED
    BY <1>2, <2>1
<1>5. path \in [Node -> Paths]
  <2>1. \A i \in Node : s.paths[n][i] \in Paths
    BY <1>2
  <2>2. PV!NoPath \in Paths
    BY SimulatorAssumption DEF PV!NoPath, Paths, PV!Node, Node
  <2>3. ASSUME NEW p \in Paths, NEW h \in 0..N PROVE PV!set_path(p, h) \in Paths
    <3>1. \A k \in Node : k # 1 => k - 1 \in Node
      BY SimulatorAssumption DEF Node
    <3>2. \A k \in Node : (IF k = 1 THEN h ELSE p[k - 1]) \in 0..N
      BY <3>1 DEF Paths
    <3>3. PV!set_path(p, h) = [k \in Node |-> IF k = 1 THEN h ELSE p[k - 1]]
      BY Zenon DEF PV!set_path, PV!Node, Node
    <3> QED
      BY <3>2, <3>3 DEF Paths
  <2>4. \A i \in Node : path[i] \in Paths
    <3> TAKE i \in Node
    <3>1. CASE i \notin DOMAIN r
      BY <2>1, <3>1
    <3>2. CASE i \in DOMAIN r /\ r[i].hop = 0
      BY <2>2, <3>2
    <3>3. CASE i \in DOMAIN r /\ r[i].hop # 0
      BY <1>2, <2>1, <2>3, <3>3
    <3> QED
      BY <3>1, <3>2, <3>3
  <2>5. path = [i \in Node |-> path[i]]
    OBVIOUS
  <2> HIDE DEF path
  <2> QED
    BY <2>4, <2>5
<1> HIDE DEF row, path
<1>6. /\ cost \in [Node -> Vectors] /\ paths \in [Node -> [Node -> Paths]]
      /\ \A m \in Node : m # n => paths[m] = s.paths[m]
  BY <1>2, <1>3, <1>5
<1> HIDE DEF cost, hop, paths
<1> QED
  <2> DEFINE u == PV!Updated(s, n, r)
  <2>1. [cost |-> cost, next_hop |-> hop, paths |-> paths] \in PathState
    BY <1>4, <1>6, PathFields
  <2>2. u \in PathState /\ u.paths = paths
    BY <1>1, <2>1
  <2> HIDE DEF u
  <2>3. \A m \in Node : m # n => u.paths[m] = s.paths[m]
    BY <1>6, <2>2
  <2> QED
    BY <2>2, <2>3 DEF u

LEMMA RowsReplaced ==
    ASSUME NEW A, NEW B, NEW C, NEW s \in [cost : A, next_hop : B, paths : C],
           NEW b, NEW x, NEW y, [s.cost EXCEPT ![b] = x] \in A, [s.paths EXCEPT ![b] = y] \in C
    PROVE  [s EXCEPT !.cost[b] = x, !.paths[b] = y] \in [cost : A, next_hop : B, paths : C]
OBVIOUS

LEMMA PathReceived ==
    ASSUME TypeOK, protocol = "pv", event \in LinkEvents \cup Messages
    PROVE  PV!Received \in PathState
<1> DEFINE s == node_states[event.node]
           b == event.neighbor
           c == [s.cost EXCEPT ![b] = event.content.data]
           p == [s.paths EXCEPT ![b] = event.content.path]
<1>1. event.node \in Node /\ b \in Node
  BY EventKinds
<1>2. /\ s \in PathState
      /\ event.type = "message" => /\ event.content.data \in Vectors
                                   /\ event.content.path \in [Node -> Paths]
  <2>1. RouterState = PathState /\ Content = [data : Vectors, path : [Node -> Paths]]
    BY DEF RouterState, Content, PathState
  <2>2. s \in PathState
    BY <1>1, <2>1 DEF TypeOK
  <2>3. event.type = "message" => event.content \in Content
    BY EventKinds
  <2> QED
    BY <2>1, <2>2, <2>3
<1>3. PV!Received = IF event.type = "message"
                    THEN [s EXCEPT !.cost[b] = event.content.data,
                                   !.paths[b] = event.content.path]
                    ELSE s
  BY Zenon DEF PV!Received, PV!event, event
<1> HIDE DEF s
<1>4. ASSUME event.type = "message"
      PROVE  [s EXCEPT !.cost[b] = event.content.data, !.paths[b] = event.content.path]
                 \in PathState
  <2>1. s.cost \in [Node -> Vectors] /\ s.paths \in [Node -> [Node -> Paths]]
    BY <1>2, PathFields
  <2>2. c \in [Node -> Vectors] /\ p \in [Node -> [Node -> Paths]]
    BY <1>1, <1>2, <1>4, <2>1
  <2> QED
    BY <1>2, <2>2, RowsReplaced DEF PathState
<1> QED
  BY <1>2, <1>3, <1>4

\* What the node of the event makes of it, whom it tells, and what.
PathsFound == PV!bellmond_ford(PV!Received, event.node)
PathTable == PV!Updated(PV!Received, event.node, PathsFound)
PathsSet == [d \in Node |-> IF d \in DOMAIN PathsFound THEN PathsFound[d]
                            ELSE routes[event.node][d]]
PathsTold == IF PV!Changed(PV!Received, event.node, PathsFound) = {} THEN {} ELSE Near(event.node)
PathsSent == [m \in PathsTold |->
                 [data |-> PathTable.cost[event.node], path |-> PathTable.paths[event.node]]]

LEMMA PathProcess ==
    ASSUME PV!update
    PROVE  /\ running /\ events # <<>> /\ Process(PathTable, PathsSet, MessagesTo(PathsTold, PathsSent))
           /\ unheard' = (unheard \cup PV!CameUp) \ ({event.node} \X PathsTold)
<1> DEFINE n == event.node
           s0 == PV!Received
           differ(r) == PV!Changed(s0, n, r)
           set(r) == [d \in Node |-> IF d \in DOMAIN r THEN r[d] ELSE routes[n][d]]
           row(s) == [data |-> s.cost[n], path |-> s.paths[n]]
<1>1. /\ running /\ events # <<>>
      /\ \E r1 \in {PV!bellmond_ford(s0, n)} :
         \E s1 \in {PV!Updated(s0, n, r1)} :
         \E t1 \in {IF differ(r1) = {} THEN {} ELSE PV!Neighbors(PV!Topology, n)} :
           /\ PV!Process(s1, set(r1), PV!MessagesTo(t1, [m \in t1 |-> row(s1)]))
           /\ unheard' = (unheard \cup PV!CameUp) \ ({n} \X t1)
  BY Zenon DEF PV!update, PV!event, event, PV!Node, Node
<1> HIDE DEF set, row
<1>2. PICK t1 : /\ t1 = PathsTold
                /\ PV!Process(PathTable, set(PathsFound),
                              PV!MessagesTo(t1, [m \in t1 |-> row(PathTable)]))
                /\ unheard' = (unheard \cup PV!CameUp) \ ({n} \X t1)
  BY <1>1, PVSimulator DEF PathTable, PathsFound, PathsTold
<1> HIDE DEF s0
<1>3. PathsSet = set(PathsFound) /\ PathsSent = [m \in PathsTold |-> row(PathTable)]
  BY DEF PathsSet, PathsSent, set, row
<1> QED
  BY <1>1, <1>2, <1>3, PVSimulator

\* The types of all this.
LEMMA PathTypes ==
    ASSUME TypeOK, EventsInOrder, NoRouteToOneself, protocol = "pv", events # <<>>
    PROVE  /\ event \in LinkEvents \cup Messages /\ event.node \in Node /\ event.neighbor \in Node
           /\ event.node # event.neighbor
           /\ RouterState = PathState /\ Content = [data : Vectors, path : [Node -> Paths]]
           /\ PV!Received \in PathState /\ PathTable \in PathState
           /\ DOMAIN PathsFound \in SUBSET Node /\ event.node \notin DOMAIN PathsFound
           /\ \A d \in DOMAIN PathsFound :
                 PathsFound[d] \in Route /\ PathsFound[d].hop \in Near(event.node) \cup {0}
           /\ \A m \in Node : m # event.node => PathTable.paths[m] = PV!Received.paths[m]
           /\ PathsSet \in [Node -> Route] /\ PathsSet[event.node].hop = 0
           /\ \A d \in Node \ DOMAIN PathsFound :
                 \/ d = event.node
                 \/ /\ PV!LastNode \in Near(event.node) /\ PV!LastNode \in Node
                    /\ PV!LastNode # event.node
                    /\ PV!inPath(PathTable, event.node, PV!LastNode, d)
           /\ PathsTold \in SUBSET Near(event.node) /\ PathsTold \in SUBSET Node
           /\ \A m \in PathsTold :
                 PathsSent[m] \in Content /\ Message(m, PathsSent[m]) \in Messages
<1> DEFINE n == event.node
           s0 == PV!Received
<1>1. /\ event \in LinkEvents \cup Messages /\ n \in Node /\ event.neighbor \in Node
      /\ n # event.neighbor
  BY EventAtHead, EventKinds
<1> HIDE DEF s0
<1>2. s0 \in PathState
  BY <1>1, PathReceived DEF s0
<1>3. /\ DOMAIN PathsFound \in SUBSET Node /\ n \notin DOMAIN PathsFound
      /\ \A d \in DOMAIN PathsFound :
            PathsFound[d] \in Route /\ PathsFound[d].hop \in Near(n) \cup {0}
      /\ \A d \in Node \ DOMAIN PathsFound :
            \/ d = n
            \/ PV!LastNode \in Near(n) /\ PV!inPath(s0, n, PV!LastNode, d)
  BY <1>1, <1>2, PathRoutes DEF PathsFound, s0
<1>4. PathTable \in PathState /\ \A m \in Node : m # n => PathTable.paths[m] = s0.paths[m]
  BY <1>1, <1>2, <1>3, PathUpdated DEF PathTable, s0
<1>5. RouterState = PathState /\ Content = [data : Vectors, path : [Node -> Paths]]
  BY DEF RouterState, Content, PathState
<1>6. PathsSet \in [Node -> Route] /\ PathsSet[n].hop = 0
  <2>1. \A d \in Node : routes[n][d] \in Route
    BY <1>1 DEF TypeOK
  <2>2. routes[n][n].hop = 0
    BY <1>1 DEF NoRouteToOneself
  <2> QED
    BY <1>1, <1>3, <2>1, <2>2 DEF PathsSet
<1>7. ASSUME NEW d \in Node \ DOMAIN PathsFound, d # n
      PROVE  /\ PV!LastNode \in Near(n) /\ PV!LastNode \in Node /\ PV!LastNode # n
             /\ PV!inPath(PathTable, n, PV!LastNode, d)
  <2>1. PV!LastNode \in Near(n) /\ PV!inPath(s0, n, PV!LastNode, d)
    BY <1>3, <1>7
  <2>2. PV!LastNode \in Node /\ PV!LastNode # n
    BY <2>1 DEF Near, Neighbors
  <2>3. PathTable.paths[PV!LastNode] = s0.paths[PV!LastNode]
    BY <1>4, <2>2
  <2> QED
    BY <2>1, <2>2, <2>3 DEF PV!inPath
<1>8. PathsTold \in SUBSET Near(n) /\ PathsTold \in SUBSET Node
  BY NearNodes DEF PathsTold
<1>9. ASSUME NEW m \in PathsTold
      PROVE  PathsSent[m] \in Content /\ Message(m, PathsSent[m]) \in Messages
  <2>1. PathTable.cost[n] \in Vectors /\ PathTable.paths[n] \in [Node -> Paths]
    BY <1>1, <1>4, PathFields
  <2>2. PathsSent[m] \in Content
    BY <1>5, <2>1 DEF PathsSent
  <2> QED
    BY <1>1, <1>8, <2>2, MessagesOf
<1> QED
  BY <1>1, <1>2, <1>3, <1>4, <1>5, <1>6, <1>7, <1>8, <1>9 DEF s0

LEMMA PathStep ==
    ASSUME SimInv, UNCHANGED protocol, protocol = "pv", PV!update
    PROVE  SimInv'
<1> DEFINE ms == MessagesTo(PathsTold, PathsSent)
<1>1. running /\ events # <<>> /\ Process(PathTable, PathsSet, ms)
  BY PathProcess
<1>2. TypeOK /\ EventsInOrder /\ NoRouteToOneself
  BY DEF SimInv
<1>3. ASSUME NEW d \in Node
      PROVE  \/ PathsSet[d].hop \in Near(event.node) \cup {0}
             \/ /\ PV!LastNode \in Near(event.node)
                /\ PV!inPath(PathTable, event.node, PV!LastNode, d)
  <2>1. CASE d \in DOMAIN PathsFound
    BY <1>1, <1>2, <2>1, PathTypes DEF PathsSet
  <2>2. CASE d \notin DOMAIN PathsFound
    BY <1>1, <1>2, <2>2, PathTypes
  <2> QED
    BY <2>1, <2>2
<1>4. Sound(PathTable, PathsSet)
  BY <1>1, <1>2, <1>3, PathTypes DEF Sound
<1>5. ms \in Seq(Messages)
  BY <1>1, <1>2, PathTypes, MessagesToTold
<1> HIDE DEF ms
<1> QED
  BY <1>1, <1>4, <1>5, ProcessStep

-----------------------------------------------------------------------------
(* The link state router. *)

LEMMA LSSimulator ==
    /\ \A s, r, ms : LS!Process(s, r, ms) <=> Process(s, r, ms)
    /\ \A told, content : LS!MessagesTo(told, content) = MessagesTo(told, content)
<1>1. \A s, r, ms : LS!Process(s, r, ms) <=> Process(s, r, ms)
  BY Zenon DEF LS!Process, Process, LS!event, event, LS!Topology, Topology, LS!LinkOf, LinkOf
<1>2. \A told, content : LS!MessagesTo(told, content) = MessagesTo(told, content)
  BY Zenon DEF LS!MessagesTo, MessagesTo, LS!event, event, LS!Message, Message
<1> QED
  BY <1>1, <1>2

LEMMA OwnLinksReplaced ==
    ASSUME NEW A, NEW ls \in [version : Nat, link_cost : A], NEW b, NEW x,
           [ls.link_cost EXCEPT ![b] = x] \in A
    PROVE  LET new == [ls EXCEPT !.link_cost[b] = x, !.version = @ + 1]
           IN  /\ new \in [version : Nat, link_cost : A]
               /\ new.version = ls.version + 1
               /\ new.link_cost = [ls.link_cost EXCEPT ![b] = x]
<1> DEFINE l == [ls EXCEPT !.link_cost[b] = x]
           new == [l EXCEPT !.version = @ + 1]
<1>1. [ls EXCEPT !.link_cost[b] = x, !.version = @ + 1] = new
  BY Zenon
<1>2. /\ l \in [version : Nat, link_cost : A] /\ l.version = ls.version
      /\ l.link_cost = [ls.link_cost EXCEPT ![b] = x]
  OBVIOUS
<1> HIDE DEF l
<1>3. /\ new \in [version : Nat, link_cost : A]
      /\ new.version = l.version + 1 /\ new.link_cost = l.link_cost
  BY <1>2
<1> QED
  BY <1>1, <1>2, <1>3

\* What a node that is told of something takes over: its own link state is as
\* before, or newer and as its links are; the others' are old.
LEMMA LinkStatesReceived ==
    ASSUME TypeOK, EventsInOrder, OwnLinksKnown, LS!CopiesAreOld, protocol = "ls", events # <<>>
    PROVE  LET n == event.node
               own == node_states[n][n]
           IN  /\ LS!Received \in LinkStates
               /\ \/ LS!Received[n] = own
                  \/ LS!Received[n].version = own.version + 1
               /\ \A i \in Node \ {n} : LS!OldCopy(LS!Received[i], i)
               /\ \A j \in Node : LS!Received[n].link_cost[j] = LinkCost(Topology, n, j)
<1> DEFINE n == event.node
           b == event.neighbor
           lks == node_states[n]
           new == LS!Received
<1>1. /\ event \in LinkEvents \cup Messages
      /\ event \in LinkEvents => event.type = "link" /\ event.cost \in Cost
      /\ event \in Messages => event.type = "message" /\ ~HalfTold
      /\ n \in Node /\ b \in Node
  <2>1. event \in LinkEvents \cup Messages
    BY EventAtHead
  <2>2. event \in Messages => event \notin LinkEvents
    BY EventKinds
  <2> QED
    BY <2>1, <2>2, EventKinds DEF HalfTold
<1>2. Content = LinkStates /\ RouterState = LinkStates
  BY DEF Content, RouterState
<1>3. lks \in LinkStates
  BY <1>1, <1>2 DEF TypeOK
<1>4. \A i \in Node : /\ lks[i].version \in Nat /\ lks[i].link_cost \in Vectors
                      /\ lks[i] = [version |-> lks[i].version, link_cost |-> lks[i].link_cost]
                      /\ LS!OldCopy(lks[i], i)
  BY <1>1, <1>3 DEF LinkStates, LS!CopiesAreOld, LS!Node, Node
<1>5. \A j \in Node : \/ lks[n].link_cost[j] = LinkCost(topology, n, j)
                      \/ HalfTold /\ b = j
  BY <1>1 DEF OwnLinksKnown
<1>6. CASE event \in LinkEvents
  <2> DEFINE ls == lks[n]
             costs == [ls.link_cost EXCEPT ![b] = event.cost]
             mine == LS!OwnLinks(ls)
  <2>1. new = [lks EXCEPT ![n] = mine]
    BY <1>1, <1>6 DEF LS!Received, LS!event, event
  <2>2. ls \in [version : Nat, link_cost : Vectors]
    BY <1>1, <1>3 DEF LinkStates
  <2>3. costs \in Vectors
    BY <1>1, <1>6, <2>2 DEF Vectors
  <2>4. /\ mine \in [version : Nat, link_cost : Vectors]
        /\ mine.version = ls.version + 1 /\ mine.link_cost = costs
    <3>1. mine = [ls EXCEPT !.link_cost[b] = event.cost, !.version = @ + 1]
      BY Zenon DEF LS!OwnLinks, LS!event, event
    <3> HIDE DEF ls, mine
    <3> QED
      BY <2>2, <2>3, <3>1, OwnLinksReplaced
  <2> HIDE DEF mine
  <2>5. /\ new \in LinkStates
        /\ new[n].version = lks[n].version + 1 /\ new[n].link_cost = costs
        /\ \A i \in Node \ {n} : new[i] = lks[i]
    <3> HIDE DEF new, costs
    <3>1. new \in LinkStates /\ new[n] = mine /\ \A i \in Node \ {n} : new[i] = lks[i]
      BY <1>1, <1>3, <2>1, <2>4 DEF LinkStates
    <3> QED
      BY <2>4, <3>1
  <2>6. ASSUME NEW j \in Node PROVE costs[j] = LinkCost(Topology, n, j)
    <3>1. ls.link_cost \in [Node -> Cost]
      BY <1>1, <1>4 DEF Vectors
    <3>2. CASE j = b
      BY <1>1, <1>6, <3>1, <3>2, NextTopology
    <3>3. CASE j # b
      <4>1. costs[j] = LinkCost(topology, n, j)
        BY <1>5, <3>1, <3>3
      <4>2. n # b
        BY <1>6, EventKinds
      <4> QED
        BY <1>1, <1>6, <3>3, <4>1, <4>2, NextTopology
    <3> QED
      BY <3>2, <3>3
  <2> HIDE DEF costs, new
  <2> QED
    BY <1>1, <1>4, <2>5, <2>6 DEF new
<1>7. CASE event \in Messages
  <2> DEFINE theirs == event.content
  <2>1. new = [i \in Node |-> LS!Newer(i, lks[i], theirs[i])]
    BY <1>1, <1>7 DEF LS!Received, LS!event, event, LS!Node, Node
  <2>2. theirs \in LinkStates
    BY <1>2, <1>7, EventKinds
  <2>3. \A i \in Node : LS!OldCopy(theirs[i], i)
    <3>1. 1 \in DOMAIN events /\ event = events[1]
      BY DEF event, TypeOK
    <3> QED
      BY <1>1, <1>7, <3>1 DEF LS!CopiesAreOld, LS!Node, Node
  <2> HIDE DEF theirs
  <2>4. \A i \in Node : new[i] \in {lks[i], theirs[i]} /\ LS!OldCopy(new[i], i)
    BY <1>4, <2>1, <2>3 DEF LS!Newer
  <2>5. new[n] = lks[n]
    <3>1. theirs[n].version =< lks[n].version
      BY <1>1, <2>3 DEF LS!OldCopy
    <3>2. theirs[n].version \in Nat /\ lks[n].version \in Nat
      BY <1>1, <1>4, <2>2 DEF LinkStates
    <3> QED
      BY <1>1, <2>1, <3>1, <3>2 DEF LS!Newer
  <2>6. new \in LinkStates
    <3>1. \A i \in Node : new[i] \in [version : Nat, link_cost : Vectors]
      BY <1>3, <2>2, <2>4 DEF LinkStates
    <3> QED
      BY <2>1, <3>1 DEF LinkStates
  <2>7. \A j \in Node : new[n].link_cost[j] = LinkCost(Topology, n, j)
    BY <1>1, <1>5, <1>7, <2>5, NextTopology
  <2> HIDE DEF new
  <2> QED
    BY <2>4, <2>5, <2>6, <2>7 DEF new
<1> QED
  BY <1>1, <1>6, <1>7

\* An old copy stays one, whatever a node's own link state becomes.
LEMMA CopiesStep ==
    ASSUME TypeOK, EventsInOrder, LS!CopiesAreOld, protocol = "ls", events # <<>>,
           NEW lks \in LinkStates, NEW r, NEW ms, Process(lks, r, ms), TypeOK', UNCHANGED protocol,
           ms \in Seq({m \in Messages : m.content = lks}),
           LET n == event.node
               own == node_states[n][n]
           IN  /\ lks[n] = own \/ lks[n].version = own.version + 1
               /\ \A i \in Node \ {n} : LS!OldCopy(lks[i], i)
    PROVE  LS!CopiesAreOld'
<1> DEFINE n == event.node
           Copies == [version : Nat, link_cost : Vectors]
           Old(c, i) == LS!OldCopy(c, i)
           Still(c, i) == /\ c.version =< node_states'[i][i].version
                          /\ c.version = node_states'[i][i].version => c = node_states'[i][i]
<1>1. event \in LinkEvents \cup Messages /\ n \in Node
  BY EventAtHead, EventKinds
<1>2. Content = LinkStates /\ RouterState = LinkStates
  BY DEF Content, RouterState
<1>3. \A i \in Node : /\ i = n => node_states'[i] = lks
                      /\ i # n => node_states'[i] = node_states[i]
                      /\ node_states[i] \in LinkStates
  BY <1>1, <1>2 DEF Process, TypeOK
<1>4. \A i \in Node : node_states[i][i].version \in Nat
  BY <1>3 DEF LinkStates
<1>5. ASSUME NEW i \in Node, NEW c, c.version \in Nat, Old(c, i) PROVE Still(c, i)
  <2>1. c.version =< node_states[i][i].version
        /\ (c.version = node_states[i][i].version => c = node_states[i][i])
    BY <1>5 DEF LS!OldCopy
  <2>2. CASE i # n \/ lks[n] = node_states[n][n]
    BY <1>1, <1>3, <2>1, <2>2
  <2>3. CASE i = n /\ lks[n].version = node_states[n][n].version + 1
    BY <1>1, <1>3, <1>4, <1>5, <2>1, <2>3
  <2> QED
    BY <2>2, <2>3
<1>6. \A i \in Node : lks[i].version \in Nat /\ Still(lks[i], i)
  <2> TAKE i \in Node
  <2>1. lks[i].version \in Nat
    BY DEF LinkStates
  <2>2. CASE i = n
    BY <1>1, <1>3, <2>1, <2>2
  <2>3. CASE i # n
    BY <1>5, <2>1, <2>3
  <2> QED
    BY <2>1, <2>2, <2>3
<1>7. \A m, i \in Node : Still(node_states'[m][i], i)
  <2> TAKE m, i \in Node
  <2>1. CASE m = n
    BY <1>3, <1>6, <2>1
  <2>2. CASE m # n
    <3>1. node_states'[m][i] = node_states[m][i] /\ node_states[m][i].version \in Nat
      BY <1>3, <2>2 DEF LinkStates
    <3>2. Old(node_states[m][i], i)
      BY DEF LS!CopiesAreOld, LS!Node, Node
    <3> QED
      BY <1>5, <3>1, <3>2
  <2> QED
    BY <2>1, <2>2
<1>8. ASSUME NEW k \in DOMAIN events', NEW i \in Node, events'[k].type = "message"
      PROVE  Still(events'[k].content[i], i)
  <2>1. /\ events \in Seq(LinkEvents \cup Messages) /\ events' = Tail(events)
        /\ k + 1 \in DOMAIN events /\ events'[k] = events[k + 1]
    BY <1>8 DEF TypeOK, Process
  <2>2. events[k + 1] \in Messages
    BY <1>8, <2>1, EventKinds
  <2>3. events[k + 1].content[i].version \in Nat
    BY <1>2, <2>2, EventKinds DEF LinkStates
  <2>4. Old(events[k + 1].content[i], i)
    BY <1>8, <2>1 DEF LS!CopiesAreOld, LS!Node, Node
  <2> QED
    BY <1>5, <2>1, <2>3, <2>4
<1>9. ASSUME NEW k \in DOMAIN later', NEW i \in Node
      PROVE  Still(later'[k].content[i], i)
  <2>1. later \in Seq(Messages) /\ later' = later \o ms
    BY DEF TypeOK, Process
  <2>2. \/ k \in DOMAIN later /\ later'[k] = later[k]
        \/ k - Len(later) \in DOMAIN ms /\ later'[k] = ms[k - Len(later)]
    BY <2>1
  <2>3. CASE k \in DOMAIN later /\ later'[k] = later[k]
    <3>1. later[k] \in Messages
      BY <2>1, <2>3
    <3>2. later[k].content[i].version \in Nat
      BY <1>2, <3>1, EventKinds DEF LinkStates
    <3>3. Old(later[k].content[i], i)
      BY <2>3 DEF LS!CopiesAreOld, LS!Node, Node
    <3> QED
      BY <1>5, <2>3, <3>2, <3>3
  <2>4. CASE k - Len(later) \in DOMAIN ms /\ later'[k] = ms[k - Len(later)]
    <3>1. later'[k].content = lks
      BY <2>4
    <3> QED
      BY <1>6, <3>1
  <2> QED
    BY <2>2, <2>3, <2>4
<1> QED
  BY <1>7, <1>8, <1>9 DEF LS!CopiesAreOld, LS!OldCopy, LS!Node, Node

\* A message that is ignored changes nothing; of anything else the node makes
\* new routes and tells its neighbours.
LEMMA LinkStateProcess ==
    ASSUME LS!update
    PROVE  LET n == event.node
               lks == LS!Received
           IN  /\ running /\ events # <<>>
               /\ \/ LS!Ignored /\ Process(lks, routes[n], <<>>)
                  \/ ~LS!Ignored /\ Process(lks, LS!Dijkstra(lks, n),
                                            MessagesTo(Near(n), [m \in Near(n) |-> lks]))
<1> DEFINE n == event.node
           lks == LS!Received
<1>1. /\ running /\ events # <<>>
      /\ \E l \in {lks} :
           IF LS!Ignored THEN LS!Process(l, routes[n], <<>>)
           ELSE LET t == LS!Neighbors(LS!Topology, n)
                IN  LS!Process(l, LS!Dijkstra(l, n), LS!MessagesTo(t, [m \in t |-> l]))
  BY Zenon DEF LS!update, LS!event, event
<1> HIDE DEF lks
<1> QED
  BY <1>1, LSNear, LSSimulator DEF lks

LEMMA LinkStateStep ==
    ASSUME SimInv, LS!CopiesAreOld, UNCHANGED protocol, protocol = "ls", LS!update
    PROVE  SimInv' /\ LS!CopiesAreOld'
<1> DEFINE n == event.node
           lks == LS!Received
           told == Near(n)
           sent == [m \in told |-> lks]
           ms == MessagesTo(told, sent)
<1>1. /\ running /\ events # <<>>
      /\ \/ LS!Ignored /\ Process(lks, routes[n], <<>>)
         \/ ~LS!Ignored /\ Process(lks, LS!Dijkstra(lks, n), ms)
  BY LinkStateProcess
<1>2. /\ TypeOK /\ EventsInOrder /\ OwnLinksKnown /\ NoRouteToOneself /\ RoutesUseLinks
  BY DEF SimInv
<1>3. event \in LinkEvents \cup Messages /\ n \in Node
  BY <1>1, <1>2, EventAtHead, EventKinds
<1>4. RouterState = LinkStates /\ Content = LinkStates
  BY DEF RouterState, Content
<1>5. LS!Ignored <=> event.type = "message" /\ lks = node_states[n]
  BY DEF LS!Ignored, LS!event, event
<1> HIDE DEF lks
<1>6. /\ lks \in LinkStates
      /\ lks[n] = node_states[n][n] \/ lks[n].version = node_states[n][n].version + 1
      /\ \A i \in Node \ {n} : LS!OldCopy(lks[i], i)
      /\ \A j \in Node : lks[n].link_cost[j] = LinkCost(Topology, n, j)
  BY <1>1, <1>2, LinkStatesReceived DEF lks
<1>7. CASE LS!Ignored /\ Process(lks, routes[n], <<>>)
  <2>1. /\ event \in Messages /\ Topology = topology
        /\ \A k \in 1..Len(events) : events[k] \in Messages
    <3>1. event.type = "message"
      BY <1>5, <1>7
    <3>2. event \notin LinkEvents
      BY <3>1, EventKinds
    <3> QED
      BY <1>1, <1>2, <3>2, EventAtHead, NextTopology
  <2>2. ~Pending(n)
    <3>1. events \in Seq(LinkEvents \cup Messages)
      BY <1>2 DEF TypeOK
    <3> QED
      BY <2>1, <3>1, EventKinds DEF Pending
  <2>3. \A d \in Node : routes[n][d].hop \in Near(n) \cup {0}
    BY <1>3, <1>2, <2>1, <2>2 DEF RoutesUseLinks, PassedOver, Near
  <2>4. routes[n] \in [Node -> Route] /\ routes[n][n].hop = 0
    BY <1>2, <1>3 DEF TypeOK, NoRouteToOneself
  <2>5. Sound(lks, routes[n])
    BY <1>4, <1>6, <2>3, <2>4 DEF Sound
  <2>6. <<>> \in Seq(Messages) /\ <<>> \in Seq({m \in Messages : m.content = lks})
    OBVIOUS
  <2>7. SimInv'
    BY <1>1, <1>7, <2>5, <2>6, ProcessStep
  <2>8. TypeOK'
    BY <2>7 DEF SimInv
  <2> QED
    BY <1>1, <1>2, <1>6, <1>7, <2>6, <2>7, <2>8, CopiesStep
<1>8. CASE Process(lks, LS!Dijkstra(lks, n), ms)
  <2> DEFINE r == LS!Dijkstra(lks, n)
  <2>1. r \in [Node -> Route] /\ r[n].hop = 0 /\ \A d \in Node : r[d].hop \in Near(n) \cup {0}
    BY <1>3, <1>6, DijkstraRoutes
  <2> HIDE DEF r
  <2>2. Sound(lks, r)
    BY <1>4, <1>6, <2>1 DEF Sound
  <2>3. ms \in Seq({m \in Messages : m.content = lks})
    <3>1. told \in SUBSET Near(n) /\ told \in SUBSET Node
      BY NearNodes
    <3> HIDE DEF told
    <3>2. \A m \in told : sent[m] = lks
      OBVIOUS
    <3> HIDE DEF sent
    <3>3. \A m \in told : Message(m, sent[m]) \in {x \in Messages : x.content = lks}
      BY <1>3, <1>4, <1>6, <3>1, <3>2, MessagesOf
    <3> QED
      BY <3>1, <3>3, MessagesToTold
  <2> HIDE DEF ms
  <2>4. ms \in Seq(Messages)
    BY <2>3
  <2>5. SimInv'
    BY <1>1, <1>8, <2>2, <2>4, ProcessStep DEF r
  <2>6. TypeOK'
    BY <2>5 DEF SimInv
  <2> QED
    BY <1>1, <1>2, <1>6, <1>8, <2>3, <2>5, <2>6, CopiesStep
<1> QED
  BY <1>1, <1>7, <1>8

-----------------------------------------------------------------------------
(* Every step. *)

LEMMA InitInv == Init => IndInv
<1> SUFFICES ASSUME Init PROVE IndInv
  OBVIOUS
<1>1. SimInv
  BY InitSim
<1>2. CopiesAreOld
  <2> SUFFICES ASSUME protocol = "ls" PROVE LS!CopiesAreOld
    BY DEF CopiesAreOld
  <2>1. SimInit(LS!init_state)
    BY DEF Init
  <2>2. later = <<>> /\ node_states = LS!init_state
    BY <2>1 DEF SimInit
  <2>3. \A m, i \in Node : node_states[m][i] = node_states[i][i]
                           /\ node_states[i][i].version \in Nat
    BY <2>2 DEF LS!init_state, LS!Node, Node
  <2>4. PICK cs \in Networks : events = Notifications(cs)
    BY <2>1 DEF SimInit
  <2>5. \A k \in DOMAIN events : events[k].type = "link"
    <3>1. cs \in Seq(LinkChange) /\ <<>> \in Seq(Messages)
      BY SimulatorAssumption
    <3>2. events \in Seq(LinkEvents)
      BY <2>4, <3>1, NotificationsPaired
    <3> QED
      BY <3>2, EventKinds
  <2> QED
    BY <2>2, <2>3, <2>5 DEF LS!CopiesAreOld, LS!OldCopy, LS!Node, Node
<1> QED
  BY <1>1, <1>2 DEF SimInv, IndInv

LEMMA TimeKeepsCopies ==
    ASSUME SimInv, CopiesAreOld, NextTime \/ LinkChanges, UNCHANGED protocol
    PROVE  CopiesAreOld'
<1> SUFFICES ASSUME protocol = "ls" PROVE LS!CopiesAreOld'
  BY DEF CopiesAreOld
<1>1. /\ LS!CopiesAreOld /\ later' = <<>> /\ node_states' = node_states
      /\ later \in Seq(Messages)
  BY DEF CopiesAreOld, SimInv, TypeOK, NextTime, LinkChanges
<1>2. ASSUME NEW k \in DOMAIN events', events'[k].type = "message"
      PROVE  \E j \in DOMAIN later : events'[k] = later[j]
  <2>1. CASE NextTime
    BY <2>1 DEF NextTime
  <2>2. CASE LinkChanges
    <3>1. PICK cs \in Seq(LinkChange) : events' = Notifications(cs) \o later
      BY <2>2, SimulatorAssumption DEF LinkChanges
    <3> DEFINE ns == Notifications(cs)
    <3>2. ns \in Seq(LinkEvents)
      BY <1>1, NotificationsPaired
    <3> HIDE DEF ns
    <3>3. \/ k \in DOMAIN ns /\ events'[k] = ns[k]
          \/ k - Len(ns) \in DOMAIN later /\ events'[k] = later[k - Len(ns)]
      BY <1>1, <3>1, <3>2 DEF ns
    <3>4. ~(k \in DOMAIN ns /\ events'[k] = ns[k])
      BY <1>2, <3>2, EventKinds
    <3> QED
      BY <3>3, <3>4
  <2> QED
    BY <2>1, <2>2
<1> QED
  BY <1>1, <1>2 DEF LS!CopiesAreOld, LS!OldCopy, LS!Node, Node

LEMMA NothingMoves ==
    ASSUME IndInv, running' \in BOOLEAN,
           UNCHANGED <<topology, events, later, node_states, routes, changed, protocol>>
    PROVE  IndInv'
<1>1. /\ TypeOK /\ EventsInOrder /\ OwnLinksKnown /\ NoRouteToOneself
      /\ RoutesUseLinks /\ CopiesAreOld
  BY DEF IndInv
<1>2. Messages' = Messages /\ RouterState' = RouterState
  BY SameTypes
<1>3. TypeOK'
  BY <1>1, <1>2 DEF TypeOK, LinkEvents, Links, Node, Cost, Route
<1>4. HalfTold' <=> HalfTold
  BY DEF HalfTold, event, LinkEvents, LinkOf
<1>5. EventsInOrder'
  BY <1>1, <1>2, <1>4 DEF EventsInOrder, InPairs, PairsFirst, LinkEvents
<1>6. OwnLinksKnown'
  BY <1>1, <1>4 DEF OwnLinksKnown, LinkCost, LinkOf, Node, event
<1>7. NoRouteToOneself'
  BY <1>1 DEF NoRouteToOneself, Node
<1>8. RoutesUseLinks'
  BY <1>1 DEF RoutesUseLinks, PassedOver, Pending, Neighbors, LinkCost, LinkOf, Node,
              PV!LastNode, PV!inPath, PV!Node
<1>9. CopiesAreOld'
  BY <1>1 DEF CopiesAreOld, LS!CopiesAreOld, LS!OldCopy, LS!Node, Node
<1> QED
  BY <1>3, <1>5, <1>6, <1>7, <1>8, <1>9 DEF IndInv

LEMMA StepInv == IndInv /\ [Next]_vars => IndInv'
<1> SUFFICES ASSUME IndInv, [Next]_vars PROVE IndInv'
  OBVIOUS
<1>1. SimInv /\ CopiesAreOld
  BY DEF SimInv, IndInv
<1>2. CASE protocol = "dv" /\ DV!update /\ UNCHANGED protocol
  <2>1. SimInv'
    BY <1>1, <1>2, VectorStep DEF VectorUpdate
  <2> QED
    BY <1>2, <2>1 DEF SimInv, IndInv, CopiesAreOld
<1>3. CASE protocol = "dvrpp" /\ RPP!update /\ UNCHANGED protocol
  <2>1. SimInv'
    BY <1>1, <1>3, VectorStep DEF VectorUpdate
  <2> QED
    BY <1>3, <2>1 DEF SimInv, IndInv, CopiesAreOld
<1>4. CASE protocol = "pv" /\ PV!update /\ UNCHANGED protocol
  <2>1. SimInv'
    BY <1>1, <1>4, PathStep
  <2> QED
    BY <1>4, <2>1 DEF SimInv, IndInv, CopiesAreOld
<1>5. CASE protocol = "ls" /\ LS!update /\ UNCHANGED protocol
  <2>1. SimInv' /\ LS!CopiesAreOld'
    BY <1>1, <1>5, LinkStateStep DEF CopiesAreOld
  <2> QED
    BY <1>5, <2>1 DEF SimInv, IndInv, CopiesAreOld
<1>6. CASE (NextTime \/ LinkChanges) /\ UNCHANGED protocol
  <2>1. SimInv' /\ CopiesAreOld'
    BY <1>1, <1>6, TimeStep, TimeKeepsCopies
  <2> QED
    BY <2>1 DEF SimInv, IndInv
<1>7. CASE LS!CrashInDijkstra /\ UNCHANGED protocol
  <2>1. /\ UNCHANGED <<topology, events, later, node_states, routes, changed, protocol>>
        /\ running' \in BOOLEAN
    BY <1>7 DEF LS!CrashInDijkstra, LS!Crash
  <2> QED
    BY <2>1, NothingMoves
<1>8. CASE UNCHANGED vars
  <2>1. /\ UNCHANGED <<topology, events, later, node_states, routes, changed, protocol>>
        /\ running' = running
    BY <1>8 DEF vars, simVars
  <2>2. running \in BOOLEAN
    BY DEF IndInv, TypeOK
  <2> QED
    BY <2>1, <2>2, NothingMoves
<1> QED
  BY <1>2, <1>3, <1>4, <1>5, <1>6, <1>7, <1>8 DEF Next, Router

LEMMA AlwaysInv == Spec => []IndInv
BY InitInv, StepInv, PTL DEF Spec

-----------------------------------------------------------------------------
(* What link states settle on. *)

\* Of a message a node takes over what is newer, and it misses nothing that is
\* as it should be.
LEMMA MessageReceived ==
    ASSUME TypeOK, LS!CopiesAreOld, protocol = "ls", events # <<>>, event \in Messages
    PROVE  LET n == event.node
           IN  /\ LS!Received[n] = node_states[n][n]
               /\ \A i \in Node :
                     \/ node_states[n][i] = node_states[i][i]
                     \/ event.content[i] = node_states[i][i]
                     => LS!Received[i] = node_states[i][i]
<1> DEFINE n == event.node
           lks == node_states[n]
           theirs == event.content
<1>1. event.type = "message" /\ n \in Node
  BY EventKinds
<1>2. Content = LinkStates /\ RouterState = LinkStates
  BY DEF Content, RouterState
<1>3. LS!Received = [i \in Node |-> LS!Newer(i, lks[i], theirs[i])]
  BY <1>1 DEF LS!Received, LS!event, event, LS!Node, Node
<1>4. lks \in LinkStates /\ theirs \in LinkStates
  BY <1>1, <1>2, EventKinds DEF TypeOK
<1>5. \A i \in Node : LS!OldCopy(lks[i], i) /\ LS!OldCopy(theirs[i], i)
  <2>1. 1 \in DOMAIN events /\ event = events[1]
    BY DEF event, TypeOK
  <2> QED
    BY <1>1, <2>1 DEF LS!CopiesAreOld, LS!Node, Node
<1>6. \A i \in Node : /\ lks[i].version \in Nat /\ theirs[i].version \in Nat
                      /\ node_states[i][i].version \in Nat
  BY <1>2, <1>4 DEF TypeOK, LinkStates
<1> HIDE DEF lks, theirs
<1>7. ASSUME NEW i \in Node, lks[i] = node_states[i][i] \/ theirs[i] = node_states[i][i]
      PROVE  LS!Newer(i, lks[i], theirs[i]) = node_states[i][i]
  BY <1>5, <1>6, <1>7 DEF LS!Newer, LS!OldCopy
<1>8. \A i \in Node : lks[i] = node_states[i][i] \/ theirs[i] = node_states[i][i]
                      => LS!Received[i] = node_states[i][i]
  BY <1>3, <1>7
<1> QED
  BY <1>1, <1>8 DEF lks, theirs

LEMMA LinkReceived ==
    ASSUME TypeOK, protocol = "ls", event \in LinkEvents
    PROVE  \A i \in Node : i # event.node => LS!Received[i] = node_states[event.node][i]
<1>1. event.type = "link" /\ event.node \in Node
  BY EventKinds
<1>2. node_states[event.node] \in LinkStates
  BY <1>1 DEF TypeOK, RouterState
<1>3. LS!Received = [node_states[event.node] EXCEPT ![event.node] = LS!OwnLinks(@)]
  BY <1>1 DEF LS!Received, LS!event, event
<1> QED
  BY <1>2, <1>3 DEF LinkStates

LEMMA KnownPrime ==
    ASSUME NEW n
    PROVE  (LS!ShortestKnown(node_states[n], n))' = LS!ShortestKnown(node_states'[n], n)
BY Zenon DEF LS!ShortestKnown, LS!Farther, LS!KnownNeighbors, LS!KnownCosts, LS!Least,
             LS!COST_ADD, LS!Node

LEMMA RoutesKnownStep ==
    ASSUME SimInv, LS!CopiesAreOld, RoutesAsKnown, UNCHANGED protocol, protocol = "ls", LS!update
    PROVE  RoutesAsKnown'
<1> DEFINE e == event.node
           lks == LS!Received
<1>1. /\ events # <<>>
      /\ \E r, ms : /\ Process(lks, r, ms)
                    /\ r = LS!Dijkstra(lks, e) \/ (lks = node_states[e] /\ r = routes[e])
  <2>1. LS!Ignored => lks = node_states[e]
    BY DEF LS!Ignored, LS!event, event
  <2> HIDE DEF lks
  <2> QED
    BY <2>1, LinkStateProcess DEF lks
<1>2. TypeOK /\ EventsInOrder /\ OwnLinksKnown
  BY DEF SimInv
<1>3. e \in Node
  BY <1>1, <1>2, EventAtHead, EventKinds
<1>4. lks \in LinkStates /\ \A j \in Node : lks[e].link_cost[j] = LinkCost(Topology, e, j)
  BY <1>1, <1>2, LinkStatesReceived
<1> HIDE DEF lks
<1>5. PICK r, ms : /\ Process(lks, r, ms)
                   /\ r = LS!Dijkstra(lks, e) \/ (lks = node_states[e] /\ r = routes[e])
  BY <1>1
<1>6. ASSUME NEW n \in Node, NEW d \in Node, n # d
      PROVE  routes'[n][d].cost = LS!ShortestKnown(node_states'[n], n)[d]
  <2>1. /\ n = e => node_states'[n] = lks /\ routes'[n] = r
        /\ n # e => node_states'[n] = node_states[n] /\ routes'[n] = routes[n]
    BY <1>2, <1>3, <1>5 DEF TypeOK, Process
  <2>2. routes[n][d].cost = LS!ShortestKnown(node_states[n], n)[d]
    BY <1>6 DEF RoutesAsKnown
  <2>3. n = e => LS!Dijkstra(lks, e)[d].cost = LS!ShortestKnown(lks, e)[d]
    BY <1>3, <1>4, <1>6, DijkstraShortest
  <2> QED
    BY <1>5, <2>1, <2>2, <2>3
<1> QED
  BY <1>6, KnownPrime DEF RoutesAsKnown, Node

LEMMA HeardStep ==
    ASSUME SimInv, LS!CopiesAreOld, NeighborsHeard, UNCHANGED protocol, protocol = "ls", LS!update
    PROVE  NeighborsHeard'
<1> DEFINE e == event.node
           lks == LS!Received
           Knows(n, c) == node_states'[n][c] = node_states'[c][c]
           Told(m, n, c) == /\ m.type = "message" /\ m.node = n
                            /\ m.content[c] = node_states'[c][c]
           Hears(n, c) == \/ Knows(n, c)
                          \/ \E k \in DOMAIN events' : Told(events'[k], n, c)
                          \/ \E k \in DOMAIN later' : Told(later'[k], n, c)
           Half(n, c) == HalfTold' /\ Head(events').node = c /\ Head(events').neighbor = n
<1>1. PICK r, ms : /\ Process(lks, r, ms) /\ events # <<>>
                   /\ \/ LS!Ignored /\ ms = <<>>
                      \/ ms = MessagesTo(Near(e), [m \in Near(e) |-> lks])
  <2> HIDE DEF lks
  <2> QED
    BY LinkStateProcess DEF lks
<1>2. TypeOK /\ EventsInOrder /\ OwnLinksKnown
  BY DEF SimInv
<1>3. /\ event \in LinkEvents \cup Messages /\ e \in Node
      /\ event \in LinkEvents => event.type = "link" /\ event \notin Messages
      /\ event \in Messages => Topology = topology /\ ~HalfTold
  <2>1. event \in LinkEvents \cup Messages
    BY <1>1, <1>2, EventAtHead
  <2> QED
    BY <1>2, <2>1, EventKinds, NextTopology DEF HalfTold
<1>4. lks \in LinkStates
  BY <1>1, <1>2, LinkStatesReceived
<1>5. ms \in Seq(Messages) /\ (event \in LinkEvents => \A n \in Near(e) :
          \E k \in 1..Len(ms) : ms[k] = Message(n, lks))
  <2> DEFINE told == Near(e)
             sent == [m \in told |-> lks]
  <2>1. LS!Ignored => event \notin LinkEvents
    BY <1>3 DEF LS!Ignored, LS!event, event
  <2>2. /\ told \in SUBSET Near(e) /\ told \in SUBSET Node
        /\ \A m \in told : sent[m] = lks
    BY NearNodes
  <2>3. Content = LinkStates
    BY DEF Content
  <2> HIDE DEF told, sent, lks
  <2>4. \A m \in told : Message(m, sent[m]) \in Messages
    BY <1>3, <1>4, <2>2, <2>3, MessagesOf
  <2> DEFINE all == MessagesTo(told, sent)
  <2>5. /\ all \in Seq(Messages)
        /\ \A n \in told : \E k \in 1..Len(all) : all[k] = Message(n, sent[n])
    BY <2>2, <2>4, MessagesToTold
  <2> HIDE DEF all
  <2>6. \A n \in told : \E k \in 1..Len(all) : all[k] = Message(n, lks)
    BY <2>2, <2>5
  <2>7. CASE LS!Ignored /\ ms = <<>>
    BY <2>1, <2>7
  <2>8. CASE ms = all
    BY <2>5, <2>6, <2>8 DEF told
  <2> QED
    BY <1>1, <2>7, <2>8 DEF told, sent, all
<1>6. /\ events' = Tail(events) /\ later' = later \o ms /\ topology' = Topology
      /\ events \in Seq(LinkEvents \cup Messages) /\ later \in Seq(Messages)
      /\ \A i \in Node : /\ i = e => node_states'[i] = lks
                         /\ i # e => node_states'[i] = node_states[i]
  BY <1>1, <1>2, <1>3 DEF Process, TypeOK
<1>7. \A k \in DOMAIN later : k \in DOMAIN later' /\ later'[k] = later[k]
  BY <1>5, <1>6
<1>8. \A k \in DOMAIN events : k # 1 => k - 1 \in DOMAIN events' /\ events'[k - 1] = events[k]
  BY <1>1, <1>6
<1> HIDE DEF lks
<1>9. ASSUME NEW c \in Node, NEW n \in Node, n # c, event \in LinkEvents,
             n \in Neighbors(topology', c)
      PROVE  Hears(n, c) \/ Half(n, c)
  <2>1. CASE c = e
    <3>1. n \in Near(e)
      BY <1>6, <1>9, <2>1 DEF Near
    <3>2. PICK k \in 1..Len(ms) : ms[k] = Message(n, lks)
      BY <1>5, <1>9, <3>1
    <3>3. Len(later) + k \in DOMAIN later' /\ later'[Len(later) + k] = Message(n, lks)
      BY <1>5, <1>6, <3>2
    <3>4. Told(Message(n, lks), n, c)
      BY <1>3, <1>6, <2>1 DEF Message
    <3> HIDE DEF Told
    <3> QED
      BY <3>3, <3>4
  <2>2. CASE c # e /\ n \in Neighbors(topology, c)
    <3>1. node_states'[c][c] = node_states[c][c]
          /\ (node_states[n][c] = node_states[c][c] => Knows(n, c))
      <4>1. n = e => node_states'[n][c] = node_states[n][c]
        BY <1>2, <1>6, <1>9, <2>2, LinkReceived DEF lks
      <4> QED
        BY <1>6, <2>2, <4>1
    <3>2. LS!Heard(n, c)
      BY <2>2 DEF NeighborsHeard
    <3>3. ASSUME NEW k \in DOMAIN events, LS!Tells(events[k], n, c)
          PROVE  \E j \in DOMAIN events' : Told(events'[j], n, c)
      <4>1. k # 1
        BY <1>3, <1>9, <3>3 DEF LS!Tells, event
      <4>2. Told(events[k], n, c)
        BY <3>1, <3>3 DEF LS!Tells
      <4> HIDE DEF Told
      <4> QED
        BY <1>8, <4>1, <4>2
    <3>4. ASSUME NEW k \in DOMAIN later, LS!Tells(later[k], n, c)
          PROVE  \E j \in DOMAIN later' : Told(later'[j], n, c)
      <4>1. Told(later[k], n, c)
        BY <3>1, <3>4 DEF LS!Tells
      <4> HIDE DEF Told
      <4> QED
        BY <1>7, <4>1
    <3> HIDE DEF Knows, Told
    <3> QED
      BY <3>1, <3>2, <3>3, <3>4 DEF LS!Heard
  <2>3. CASE c # e /\ n \notin Neighbors(topology, c)
    <3>1. LinkCost(Topology, c, n) # LinkCost(topology, c, n)
      BY <1>6, <1>9, <2>3 DEF Neighbors
    <3>2. Topology # topology /\ c = event.neighbor /\ n = e
      BY <1>2, <1>3, <1>9, <2>3, <3>1, NextTopology
    <3>3. /\ HalfTold' /\ Head(events').node = event.neighbor
          /\ Head(events').neighbor = event.node
      BY <1>1, <1>2, <1>6, <3>2, NextEvents
    <3> QED
      BY <3>2, <3>3
  <2> QED
    BY <2>1, <2>2, <2>3
<1>10. ASSUME NEW c \in Node, NEW n \in Node, n # c, event \in Messages,
              n \in Neighbors(topology', c)
       PROVE  Hears(n, c)
  <2>1. LS!Heard(n, c)
    BY <1>3, <1>6, <1>10 DEF NeighborsHeard
  <2>2. lks[e] = node_states[e][e]
        /\ \A i \in Node : \/ node_states[e][i] = node_states[i][i]
                           \/ event.content[i] = node_states[i][i]
                           => lks[i] = node_states[i][i]
    BY <1>1, <1>2, <1>10, MessageReceived DEF lks
  <2>3. node_states'[c][c] = node_states[c][c]
    BY <1>3, <1>6, <2>2
  <2>4. CASE node_states[n][c] = node_states[c][c]
    BY <1>6, <2>2, <2>3, <2>4
  <2>5. ASSUME NEW k \in DOMAIN events, LS!Tells(events[k], n, c)
        PROVE  Hears(n, c)
    <3>1. CASE k = 1
      <4>1. event.node = n /\ event.content[c] = node_states[c][c]
        BY <2>5, <3>1, <1>6 DEF LS!Tells, event
      <4>2. node_states'[n][c] = node_states'[c][c]
        BY <1>3, <1>6, <2>2, <2>3, <4>1
      <4> QED
        BY <4>2
    <3>2. CASE k # 1
      <4>1. Told(events[k], n, c)
        BY <2>3, <2>5 DEF LS!Tells
      <4> HIDE DEF Told
      <4> QED
        BY <1>8, <3>2, <4>1
    <3> QED
      BY <3>1, <3>2
  <2>6. ASSUME NEW k \in DOMAIN later, LS!Tells(later[k], n, c)
        PROVE  Hears(n, c)
    <3>1. Told(later[k], n, c)
      BY <2>3, <2>6 DEF LS!Tells
    <3> HIDE DEF Told
    <3> QED
      BY <1>7, <3>1
  <2> HIDE DEF Hears
  <2> QED
    BY <2>1, <2>4, <2>5, <2>6 DEF LS!Heard
<1>11. \A c \in Node : \A n \in Neighbors(topology', c) : n \in Node /\ n # c
  BY DEF Neighbors
<1>12. ASSUME NEW c \in Node, NEW n \in Neighbors(topology', c)
       PROVE  Hears(n, c) \/ Half(n, c)
  <2> HIDE DEF Hears, Half
  <2> QED
    BY <1>3, <1>9, <1>10, <1>11
<1>13. /\ \A n, c : LS!Heard(n, c)' <=> Hears(n, c)
       /\ Node' = Node /\ event' = Head(events')
       /\ \A c : Neighbors(topology, c)' = Neighbors(topology', c)
  BY Zenon DEF LS!Heard, LS!Tells, Node, event, Neighbors, LinkCost, LinkOf
<1> HIDE DEF Hears
<1> QED
  BY <1>12, <1>13 DEF NeighborsHeard

LEMMA InitLinkStates ==
    ASSUME Init
    PROVE  RoutesAsKnown /\ NeighborsHeard
<1>1. SUFFICES ASSUME protocol = "ls" PROVE RoutesAsKnown /\ NeighborsHeard
  BY DEF RoutesAsKnown, NeighborsHeard
<1>2. SimInit(LS!init_state)
  BY <1>1 DEF Init
<1>3. /\ topology = [l \in Links |-> CostInfinity] /\ node_states = LS!init_state
      /\ routes = [n \in Node |-> [d \in Node |-> NoRoute]]
  BY <1>2 DEF SimInit
<1>4. NeighborsHeard
  <2>1. \A c, n \in Node : n # c => LinkCost(topology, c, n) = CostInfinity
    BY <1>3, LinkOfEnds DEF LinkCost
  <2> QED
    BY <2>1 DEF NeighborsHeard, Neighbors
<1>5. ASSUME NEW n \in Node, NEW d \in Node, n # d
      PROVE  routes[n][d].cost = LS!ShortestKnown(node_states[n], n)[d]
  <2> DEFINE lks == node_states[n]
  <2>1. lks \in LinkStates /\ \A j \in Node : n # j => lks[n].link_cost[j] = CostInfinity
    BY <1>3, InitTables
  <2> HIDE DEF lks
  <2>2. PICK dist : KnownBy(dist, lks, n)
    BY <2>1, KnownDefined
  <2>3. LS!KnownNeighbors(lks, n) = {}
    BY <2>1, KnownOperators
  <2> DEFINE Fine == {k \in 0..N : dist[k][d] = CostInfinity}
  <2>4. 0 \in Fine
    BY <1>5, <2>1, <2>2, SimulatorAssumption DEF KnownBy
  <2>5. ASSUME NEW k \in 1..N, k - 1 \in Fine PROVE k \in Fine
    <3> DEFINE closer == dist[k - 1]
               far == dist[k]
    <3>1. k \in 0..N /\ k - 1 \in 0..N /\ closer[d] = CostInfinity
      BY <2>5
    <3>2. closer \in Vectors /\ far = Farther(closer, LS!KnownNeighbors(lks, n), LS!KnownCosts(lks))
      BY <2>2, <3>1 DEF KnownBy
    <3> HIDE DEF closer, far, Fine
    <3>3. far[d] = closer[d]
      BY <2>1, <2>3, <3>2, KnownFarther
    <3> QED
      BY <3>1, <3>3 DEF Fine, far
  <2>6. \A k \in 0..N : k \in Fine
    <3> HIDE DEF Fine
    <3> QED
      BY <2>4, <2>5, FromStepToStep, SimulatorAssumption
  <2>7. dist[N][d] = CostInfinity
    BY <2>6, SimulatorAssumption
  <2>8. routes[n][d].cost = CostInfinity
    BY <1>3 DEF NoRoute
  <2> QED
    BY <2>2, <2>7, <2>8 DEF KnownBy, lks
<1> QED
  BY <1>4, <1>5 DEF RoutesAsKnown

LEMMA TimeKeepsHeard ==
    ASSUME SimInv, NeighborsHeard, NextTime \/ LinkChanges, UNCHANGED protocol
    PROVE  NeighborsHeard'
<1> DEFINE Hears(n, c) == \/ node_states[n][c] = node_states[c][c]
                          \/ \E k \in DOMAIN events' : LS!Tells(events'[k], n, c)
                          \/ \E k \in DOMAIN later' : LS!Tells(later'[k], n, c)
<1>1. SUFFICES ASSUME protocol = "ls" PROVE NeighborsHeard'
  BY DEF NeighborsHeard
<1>2. /\ events = <<>> /\ later' = <<>> /\ node_states' = node_states /\ topology' = topology
      /\ later \in Seq(Messages)
  BY DEF SimInv, TypeOK, NextTime, LinkChanges
<1>3. ASSUME NEW k \in DOMAIN later
      PROVE  \E j \in DOMAIN events' : events'[j] = later[k]
  <2>1. CASE NextTime
    BY <2>1 DEF NextTime
  <2>2. CASE LinkChanges
    <3>1. PICK cs \in Seq(LinkChange) : events' = Notifications(cs) \o later
      BY <2>2, SimulatorAssumption DEF LinkChanges
    <3> DEFINE ns == Notifications(cs)
    <3>2. ns \in Seq(LinkEvents)
      BY <1>2, NotificationsPaired
    <3> HIDE DEF ns
    <3>3. Len(ns) + k \in DOMAIN events' /\ events'[Len(ns) + k] = later[k]
      BY <1>2, <3>1, <3>2 DEF ns
    <3> QED
      BY <3>3
  <2> QED
    BY <2>1, <2>2
<1>4. ASSUME NEW c \in Node, NEW n \in Neighbors(topology, c) PROVE Hears(n, c)
  <2>1. LS!Heard(n, c)
    BY <1>1, <1>2, <1>4 DEF NeighborsHeard, HalfTold
  <2>2. ~ \E k \in DOMAIN events : LS!Tells(events[k], n, c)
    BY <1>2
  <2> QED
    BY <1>3, <2>1, <2>2 DEF LS!Heard
<1>5. /\ \A n, c : LS!Heard(n, c)' <=> Hears(n, c)
      /\ Node' = Node /\ \A c : Neighbors(topology, c)' = Neighbors(topology, c)
  BY <1>2 DEF LS!Heard, LS!Tells, Node, Neighbors, LinkCost, LinkOf
<1> HIDE DEF Hears
<1> QED
  BY <1>4, <1>5 DEF NeighborsHeard

LEMMA NothingMovesHeard ==
    ASSUME RoutesAsKnown, NeighborsHeard,
           UNCHANGED <<topology, events, later, node_states, routes, protocol>>
    PROVE  RoutesAsKnown' /\ NeighborsHeard'
<1>1. RoutesAsKnown'
  <2>1. \A n : (LS!ShortestKnown(node_states[n], n))' = LS!ShortestKnown(node_states[n], n)
    BY KnownPrime
  <2> QED
    BY <2>1 DEF RoutesAsKnown, Node
<1>2. NeighborsHeard'
  BY DEF NeighborsHeard, LS!Heard, LS!Tells, Node, Neighbors, LinkCost, LinkOf, HalfTold,
         event, LinkEvents, Links, Cost
<1> QED
  BY <1>1, <1>2

LEMMA LinkStatesInv == Spec => [](RoutesAsKnown /\ NeighborsHeard)
<1>1. Init => RoutesAsKnown /\ NeighborsHeard
  BY InitLinkStates
<1>2. IndInv /\ RoutesAsKnown /\ NeighborsHeard /\ [Next]_vars => RoutesAsKnown' /\ NeighborsHeard'
  <2> SUFFICES ASSUME IndInv, RoutesAsKnown, NeighborsHeard, [Next]_vars
               PROVE  RoutesAsKnown' /\ NeighborsHeard'
    OBVIOUS
  <2>1. SimInv /\ CopiesAreOld
    BY DEF SimInv, IndInv
  <2>2. CASE protocol # "ls" /\ UNCHANGED protocol
    BY <2>2 DEF RoutesAsKnown, NeighborsHeard
  <2>3. CASE protocol = "ls" /\ LS!update /\ UNCHANGED protocol
    BY <2>1, <2>3, RoutesKnownStep, HeardStep DEF CopiesAreOld
  <2>4. CASE (NextTime \/ LinkChanges) /\ UNCHANGED protocol
    <3>1. node_states' = node_states /\ routes' = routes
      BY <2>4 DEF NextTime, LinkChanges
    <3>2. RoutesAsKnown'
      <4>1. \A n : (LS!ShortestKnown(node_states[n], n))' = LS!ShortestKnown(node_states[n], n)
        BY <3>1, KnownPrime
      <4> QED
        BY <2>4, <3>1, <4>1 DEF RoutesAsKnown, Node
    <3> QED
      BY <2>1, <2>4, <3>2, TimeKeepsHeard
  <2>5. CASE LS!CrashInDijkstra /\ UNCHANGED protocol
    BY <2>5, NothingMovesHeard DEF LS!CrashInDijkstra, LS!Crash
  <2>6. CASE UNCHANGED vars
    BY <2>6, NothingMovesHeard DEF vars, simVars
  <2>7. \/ protocol # "ls" /\ UNCHANGED protocol
        \/ protocol = "ls" /\ LS!update /\ UNCHANGED protocol
        \/ (NextTime \/ LinkChanges) /\ UNCHANGED protocol
        \/ LS!CrashInDijkstra /\ UNCHANGED protocol
        \/ UNCHANGED vars
    BY DEF Next, Router
  <2> QED
    BY <2>2, <2>3, <2>4, <2>5, <2>6, <2>7
<1> QED
  BY <1>1, <1>2, AlwaysInv, PTL DEF Spec

\* The reference: the rounds it takes over all nodes at once.
Inner(near, n) == IF near THEN Neighbors(topology, n) ELSE Node

ReferenceBy(dist, near) ==
    /\ dist \in [0..N -> [Node -> Vectors]]
    /\ \A n, d \in Node : dist[0][n][d] = LinkCost(topology, n, d)
    /\ \A k \in 1..N, n \in Node :
          dist[k][n] = Farther(dist[k - 1][n], Inner(near, n),
                               [m \in Node |-> [d \in Node |-> LinkCost(topology, m, d)]])
    /\ ShortestWithin(near) = dist[N]

LEMMA ReferenceDefined ==
    ASSUME TypeOK, NEW near \in BOOLEAN
    PROVE  \E dist : ReferenceBy(dist, near)
<1> DEFINE Matrices == [Node -> Vectors]
           cost == [n \in Node |-> [d \in Node |-> LinkCost(topology, n, d)]]
           Step(v) == [n \in Node |-> Farther(v[n], Inner(near, n), cost)]
           dist[k \in 0..N] == IF k = 0 THEN cost ELSE Step(dist[k - 1])
           F == [k \in 1..N |-> [v \in Matrices |-> Step(v)]]
           G(g) == [k \in 0..N |-> IF k = 0 THEN cost ELSE Step(g[k - 1])]
<1>1. ShortestWithin(near) = dist[N]
  BY Zenon DEF ShortestWithin, Inner
<1>2. cost \in Matrices
  BY LinkCostType DEF TypeOK, Vectors
<1>3. ASSUME NEW v \in Matrices PROVE Step(v) \in Matrices
  <2>1. \A n \in Node : v[n] \in Vectors /\ Inner(near, n) \in SUBSET Node
    BY <1>3 DEF Neighbors, Inner
  <2> HIDE DEF cost
  <2>2. \A n \in Node : Farther(v[n], Inner(near, n), cost) \in Vectors
    BY <1>2, <2>1, FartherCosts
  <2> QED
    BY <2>2
<1> HIDE DEF Matrices, cost, Step
<1>4. F \in Steps(Matrices)
  BY <1>3 DEF Steps
<1>5. PICK f : TakesSteps(f, Matrices, cost, F)
  <2> HIDE DEF F
  <2> QED
    BY <1>2, <1>4, StepsTaken
<1>6. f \in [0..N -> Matrices] /\ f[0] = cost /\ \A k \in 1..N : f[k] = Step(f[k - 1])
  <2>1. f \in [0..N -> Matrices] /\ f[0] = cost /\ \A k \in 1..N : f[k] = F[k][f[k - 1]]
    <3> HIDE DEF F
    <3> QED
      BY <1>5 DEF TakesSteps
  <2>2. \A k \in 1..N : k - 1 \in 0..N
    BY SimulatorAssumption
  <2> QED
    BY <2>1, <2>2
<1> HIDE DEF F
<1>7. f = G(f)
  <2>1. ASSUME NEW k \in 0..N PROVE f[k] = G(f)[k]
    <3>1. k # 0 => k \in 1..N
      BY SimulatorAssumption
    <3> QED
      BY <1>6, <3>1
  <2> QED
    BY <1>6, <2>1
<1>8. dist = G(dist)
  <2>1. dist = CHOOSE g : g = G(g)
    OBVIOUS
  <2> HIDE DEF dist, G
  <2> QED
    BY <1>7, <2>1
<1> HIDE DEF dist
<1>9. dist[0] = cost /\ \A k \in 1..N : dist[k] = Step(dist[k - 1])
  <2>1. \A k \in 0..N : dist[k] = IF k = 0 THEN cost ELSE Step(dist[k - 1])
    BY <1>8
  <2>2. \A k \in 1..N : dist[k] = Step(dist[k - 1])
    BY <2>1
  <2> QED
    BY <2>1, <2>2, SimulatorAssumption
<1>10. dist \in [0..N -> Matrices]
  <2> DEFINE Fine == {k \in 0..N : dist[k] \in Matrices}
  <2>1. 0 \in Fine
    BY <1>2, <1>9, SimulatorAssumption
  <2>2. ASSUME NEW k \in 1..N, k - 1 \in Fine PROVE k \in Fine
    BY <1>3, <1>9, <2>2
  <2>3. \A k \in 0..N : k \in Fine
    <3> HIDE DEF Fine
    <3> QED
      BY <2>1, <2>2, FromStepToStep, SimulatorAssumption
  <2>4. \A k \in 0..N : dist[k] \in Matrices
    BY <2>3
  <2>5. dist = [k \in 0..N |-> dist[k]]
    BY <1>8
  <2> QED
    BY <2>4, <2>5
<1>11. \A n, d \in Node : dist[0][n][d] = LinkCost(topology, n, d)
  BY <1>9 DEF cost
<1>12. \A k \in 1..N, n \in Node :
          dist[k][n] = Farther(dist[k - 1][n], Inner(near, n), cost)
  BY <1>9 DEF Step
<1> QED
  BY <1>1, <1>10, <1>11, <1>12 DEF ReferenceBy, Matrices, cost

LEMMA FartherAgrees ==
    ASSUME NEW closer, NEW near, NEW c1, NEW c2, \A m \in near : c1[m] = c2[m]
    PROVE  Farther(closer, near, c1) = Farther(closer, near, c2)
<1>1. ASSUME NEW d \in Node
      PROVE  {COST_ADD(closer[m], c1[m][d]) : m \in near} = {COST_ADD(closer[m], c2[m][d]) : m \in near}
  OBVIOUS
<1> QED
  BY <1>1, Zenon DEF Farther

\* When all has settled, a node knows its own links and those of its neighbours,
\* and that is all the reference looks at.
LEMMA SettledKnown ==
    ASSUME TypeOK, OwnLinksKnown, NeighborsHeard, Settled, protocol = "ls",
           NEW n \in Node
    PROVE  ShortestWithin(TRUE)[n] = LS!ShortestKnown(node_states[n], n)
<1> DEFINE lks == node_states[n]
           near == Neighbors(topology, n)
           cost == [m \in Node |-> [d \in Node |-> LinkCost(topology, m, d)]]
<1>1. events = <<>> /\ later = <<>>
  BY DEF Settled
<1>2. \A m \in Node : /\ node_states[m] \in LinkStates
                      /\ node_states[m][m].link_cost = cost[m]
  <2> TAKE m \in Node
  <2>1. node_states[m] \in LinkStates
    BY DEF TypeOK, RouterState
  <2>2. \A j \in Node : node_states[m][m].link_cost[j] = LinkCost(topology, m, j)
    BY <1>1 DEF OwnLinksKnown, HalfTold
  <2>3. node_states[m][m].link_cost \in [Node -> Cost]
    BY <2>1 DEF LinkStates, Vectors
  <2> QED
    BY <2>1, <2>2, <2>3
<1>3. \A c \in near : c \in Node /\ lks[c].link_cost = cost[c]
  <2> TAKE c \in near
  <2>1. c \in Node /\ c # n
    BY DEF Neighbors
  <2>2. n \in Neighbors(topology, c)
    <3>1. LinkCost(topology, c, n) = LinkCost(topology, n, c)
      BY <2>1, LinkCostType DEF TypeOK
    <3> QED
      BY <2>1, <3>1 DEF Neighbors
  <2>3. LS!Heard(n, c)
    BY <1>1, <2>1, <2>2 DEF NeighborsHeard, HalfTold
  <2>4. lks[c] = node_states[c][c]
    BY <1>1, <2>3 DEF LS!Heard
  <2> QED
    BY <1>2, <2>1, <2>4
<1>4. LS!KnownNeighbors(lks, n) = near
  <2>1. \A c \in Node : lks[n].link_cost[c] = LinkCost(topology, n, c)
    BY <1>2
  <2> HIDE DEF lks
  <2> QED
    BY <2>1, KnownOperators DEF Neighbors
<1>5. PICK known : KnownBy(known, lks, n)
  BY <1>2, KnownDefined
<1>6. PICK dist : ReferenceBy(dist, TRUE)
  BY ReferenceDefined
<1>7. \A closer : Farther(closer, near, LS!KnownCosts(lks)) = Farther(closer, near, cost)
  <2>1. \A c \in near : LS!KnownCosts(lks)[c] = cost[c]
    BY <1>3, KnownOperators
  <2> HIDE DEF near, cost
  <2> QED
    BY <2>1, FartherAgrees
<1> DEFINE Fine == {k \in 0..N : dist[k][n] = known[k]}
<1>8. 0 \in Fine
  <2>1. dist[0] \in [Node -> Vectors] /\ known[0] \in Vectors
    BY <1>5, <1>6, SimulatorAssumption DEF ReferenceBy, KnownBy
  <2>2. ASSUME NEW d \in Node PROVE dist[0][n][d] = known[0][d]
    <3>1. dist[0][n][d] = LinkCost(topology, n, d)
      BY <1>6 DEF ReferenceBy
    <3>2. known[0] = cost[n]
      BY <1>2, <1>5 DEF KnownBy
    <3> QED
      BY <3>1, <3>2
  <2>3. dist[0][n] \in [Node -> Cost] /\ known[0] \in [Node -> Cost]
    BY <2>1 DEF Vectors
  <2>4. dist[0][n] = known[0]
    BY <2>2, <2>3
  <2> QED
    BY <2>4, SimulatorAssumption
<1>9. ASSUME NEW k \in 1..N, k - 1 \in Fine PROVE k \in Fine
  <2>1. dist[k - 1][n] = known[k - 1] /\ k \in 0..N
    BY <1>9
  <2>2. dist[k][n] = Farther(dist[k - 1][n], near, cost)
    BY <1>6 DEF ReferenceBy, Inner
  <2>3. known[k] = Farther(known[k - 1], near, LS!KnownCosts(lks))
    BY <1>4, <1>5 DEF KnownBy
  <2> HIDE DEF near, cost, lks
  <2>4. dist[k][n] = known[k]
    BY <1>7, <2>1, <2>2, <2>3
  <2> QED
    BY <2>1, <2>4
<1>10. N \in Fine
  <2>1. \A k \in 0..N : k \in Fine
    <3> HIDE DEF Fine
    <3> QED
      BY <1>8, <1>9, FromStepToStep, SimulatorAssumption
  <2> QED
    BY <2>1, SimulatorAssumption
<1> HIDE DEF lks
<1> QED
  BY <1>5, <1>6, <1>10 DEF KnownBy, ReferenceBy, lks

-----------------------------------------------------------------------------
(* What distance vectors settle on. *)

\* The queue after an event: its first is gone, and ms follow.
LEMMA QueueNext ==
    ASSUME NEW S, NEW e \in Seq(S), e # <<>>, NEW l \in Seq(S), NEW ms \in Seq(S)
    PROVE  LET q == e \o l
               t == Tail(e) \o (l \o ms)
           IN  /\ q \in Seq(S) /\ t \in Seq(S) /\ Len(q) \in Nat \ {0} /\ q[1] = Head(e)
               /\ Len(t) = Len(q) - 1 + Len(ms)
               /\ \A k \in 1..(Len(q) - 1) : t[k] = q[k + 1]
               /\ \A k \in 1..Len(ms) : t[Len(q) - 1 + k] = ms[k]
<1> DEFINE u == Tail(e)
           r == l \o ms
<1>1. /\ u \in Seq(S) /\ Len(u) = Len(e) - 1 /\ Len(e) \in Nat \ {0}
      /\ \A k \in 1..Len(u) : u[k] = e[k + 1]
      /\ Head(e) = e[1]
  OBVIOUS
<1>2. /\ r \in Seq(S) /\ Len(r) = Len(l) + Len(ms) /\ Len(l) \in Nat /\ Len(ms) \in Nat
      /\ \A k \in 1..Len(l) : r[k] = l[k]
      /\ \A k \in 1..Len(ms) : r[Len(l) + k] = ms[k]
  OBVIOUS
<1> DEFINE q == e \o l
           t == u \o r
<1>3. /\ q \in Seq(S) /\ Len(q) = Len(e) + Len(l)
      /\ \A k \in 1..Len(e) : q[k] = e[k]
      /\ \A k \in 1..Len(l) : q[Len(e) + k] = l[k]
  BY <1>1
<1> HIDE DEF u, r
<1>4. /\ t \in Seq(S) /\ Len(t) = Len(u) + Len(r)
      /\ \A k \in 1..Len(u) : t[k] = u[k]
      /\ \A k \in 1..Len(r) : t[Len(u) + k] = r[k]
  <2>1. u \in Seq(S) /\ r \in Seq(S)
    BY <1>1, <1>2
  <2> QED
    BY <2>1
<1> HIDE DEF q, t
<1>5. ASSUME NEW k \in 1..(Len(q) - 1) PROVE t[k] = q[k + 1]
  <2>1. CASE k =< Len(u)
    <3>1. t[k] = u[k] /\ u[k] = e[k + 1] /\ k + 1 \in 1..Len(e)
      BY <1>1, <1>4, <2>1
    <3> QED
      BY <1>3, <3>1
  <2>2. CASE ~(k =< Len(u))
    <3> DEFINE j == k - Len(u)
    <3>1. j \in 1..Len(l) /\ j \in 1..Len(r) /\ k = Len(u) + j /\ k + 1 = Len(e) + j
      BY <1>1, <1>2, <1>3, <2>2
    <3> HIDE DEF j
    <3>2. t[k] = r[j] /\ r[j] = l[j] /\ q[k + 1] = l[j]
      BY <1>2, <1>3, <1>4, <3>1
    <3> QED
      BY <3>2
  <2> QED
    BY <2>1, <2>2
<1>6. ASSUME NEW k \in 1..Len(ms) PROVE t[Len(q) - 1 + k] = ms[k]
  <2> DEFINE j == Len(l) + k
  <2>1. j \in 1..Len(r) /\ Len(q) - 1 + k = Len(u) + j
    BY <1>1, <1>2, <1>3
  <2>2. r[j] = ms[k]
    BY <1>2
  <2> HIDE DEF j
  <2> QED
    BY <1>4, <2>1, <2>2
<1>7. q[1] = Head(e) /\ Len(q) \in Nat \ {0} /\ Len(t) = Len(q) - 1 + Len(ms)
  BY <1>1, <1>2, <1>3, <1>4
<1> QED
  BY <1>3, <1>4, <1>5, <1>6, <1>7 DEF q, t, u, r

\* A message that was just sent is the latest.
LEMMA LatestSent ==
    ASSUME NEW S, NEW e \in Seq(S), e # <<>>, NEW l \in Seq(S), NEW ms \in Seq(S),
           NEW n, NEW c, NEW x, NEW v,
           \E k \in 1..Len(ms) : Tells(ms[k], n, c),
           \A k \in 1..Len(ms) : Tells(ms[k], n, c) => ms[k].content = v
    PROVE  Latest(Tail(e) \o (l \o ms), n, c, x, v)
<1> DEFINE q == e \o l
           t == Tail(e) \o (l \o ms)
<1>1. /\ Len(q) \in Nat \ {0} /\ Len(t) = Len(q) - 1 + Len(ms)
      /\ \A k \in 1..Len(ms) : t[Len(q) - 1 + k] = ms[k]
  BY QueueNext
<1> HIDE DEF q, t
<1>2. Len(ms) \in Nat
  OBVIOUS
<1>3. PICK i \in 1..Len(ms) : Tells(ms[i], n, c)
  OBVIOUS
<1>4. Len(q) - 1 + i \in 1..Len(t) /\ Tells(t[Len(q) - 1 + i], n, c)
  BY <1>1, <1>2, <1>3
<1>5. ASSUME NEW k \in 1..Len(t), Tells(t[k], n, c),
             \A j \in (k + 1)..Len(t) : ~Tells(t[j], n, c)
      PROVE  t[k].content = v
  <2>1. Len(q) - 1 + i \notin (k + 1)..Len(t)
    BY <1>4, <1>5
  <2>2. k >= Len(q) - 1 + i
    BY <1>1, <1>2, <1>4, <2>1
  <2> DEFINE j == k - (Len(q) - 1)
  <2>3. j \in 1..Len(ms) /\ k = Len(q) - 1 + j
    BY <1>1, <1>2, <2>2
  <2> HIDE DEF j
  <2>4. t[k] = ms[j]
    BY <1>1, <2>3
  <2> QED
    BY <1>5, <2>3, <2>4
<1>6. Latest(t, n, c, x, v)
  BY <1>4, <1>5 DEF Latest
<1> QED
  BY <1>6 DEF t

\* If no such message is sent, the latest one stays it; the one that came counts.
LEMMA LatestKept ==
    ASSUME NEW S, NEW e \in Seq(S), e # <<>>, NEW l \in Seq(S), NEW ms \in Seq(S),
           NEW n, NEW c, NEW x, NEW y, NEW v,
           \A k \in 1..Len(ms) : ~Tells(ms[k], n, c),
           Latest(e \o l, n, c, x, v),
           Tells(Head(e), n, c) => y = Head(e).content,
           ~Tells(Head(e), n, c) => y = x
    PROVE  Latest(Tail(e) \o (l \o ms), n, c, y, v)
<1> DEFINE q == e \o l
           t == Tail(e) \o (l \o ms)
<1>0. Latest(q, n, c, x, v)
  OBVIOUS
<1>1. /\ Len(q) \in Nat \ {0} /\ q[1] = Head(e) /\ Len(t) = Len(q) - 1 + Len(ms)
      /\ \A k \in 1..(Len(q) - 1) : t[k] = q[k + 1]
      /\ \A k \in 1..Len(ms) : t[Len(q) - 1 + k] = ms[k]
  BY QueueNext
<1> HIDE DEF q, t
<1>2. Len(ms) \in Nat
  OBVIOUS
<1>3. ASSUME NEW k \in 1..Len(t), Tells(t[k], n, c)
      PROVE  k \in 1..(Len(q) - 1) /\ t[k] = q[k + 1]
  <2>1. CASE k > Len(q) - 1
    <3> DEFINE j == k - (Len(q) - 1)
    <3>1. j \in 1..Len(ms) /\ k = Len(q) - 1 + j
      BY <1>1, <1>2, <2>1
    <3> HIDE DEF j
    <3>2. t[k] = ms[j]
      BY <1>1, <3>1
    <3> QED
      BY <1>3, <3>1, <3>2
  <2>2. CASE ~(k > Len(q) - 1)
    BY <1>1, <2>2
  <2> QED
    BY <2>1, <2>2
<1>4. ASSUME NEW k \in 1..Len(q), k # 1 PROVE k - 1 \in 1..Len(t) /\ t[k - 1] = q[k]
  <2>1. k - 1 \in 1..(Len(q) - 1) /\ (k - 1) + 1 = k
    BY <1>1, <1>4
  <2>2. k - 1 \in 1..Len(t)
    BY <1>1, <1>2, <2>1
  <2> QED
    BY <1>1, <2>1, <2>2
<1>5. ASSUME NEW k \in 1..Len(t), Tells(t[k], n, c),
             \A j \in (k + 1)..Len(t) : ~Tells(t[j], n, c)
      PROVE  t[k].content = v
  <2>1. k + 1 \in 1..Len(q) /\ t[k] = q[k + 1]
    BY <1>1, <1>3, <1>5
  <2>2. ASSUME NEW j \in (k + 2)..Len(q) PROVE ~Tells(q[j], n, c)
    <3>1. j \in 1..Len(q) /\ j # 1 /\ j - 1 >= k + 1
      BY <1>1, <2>2
    <3>2. j - 1 \in 1..Len(t) /\ t[j - 1] = q[j]
      BY <1>4, <3>1
    <3>3. j - 1 \in (k + 1)..Len(t)
      BY <3>1, <3>2
    <3> QED
      BY <1>5, <3>2, <3>3
  <2>3. (k + 1) + 1 = k + 2
    OBVIOUS
  <2> QED
    BY <1>0, <1>5, <2>1, <2>2, <2>3 DEF Latest
<1>6. ASSUME \A k \in 1..Len(t) : ~Tells(t[k], n, c) PROVE y = v
  <2>1. \A k \in 1..Len(q) : k # 1 => ~Tells(q[k], n, c)
    BY <1>4, <1>6
  <2>2. 1 \in 1..Len(q) /\ \A j \in 2..Len(q) : j \in 1..Len(q) /\ j # 1
    BY <1>1
  <2>3. CASE Tells(Head(e), n, c)
    <3>1. \A j \in (1 + 1)..Len(q) : ~Tells(q[j], n, c)
      BY <2>1, <2>2
    <3>2. q[1].content = v
      BY <1>0, <1>1, <2>2, <2>3, <3>1 DEF Latest
    <3> QED
      BY <1>1, <2>3, <3>2
  <2>4. CASE ~Tells(Head(e), n, c)
    <3>1. \A k \in 1..Len(q) : ~Tells(q[k], n, c)
      BY <1>1, <2>1, <2>4
    <3> QED
      BY <1>0, <2>4, <3>1 DEF Latest
  <2> QED
    BY <2>3, <2>4
<1>7. Latest(t, n, c, y, v)
  BY <1>5, <1>6 DEF Latest
<1> QED
  BY <1>7 DEF t

\* Link changes before it make no message later or earlier than another.
LEMMA LatestAfter ==
    ASSUME NEW S, NEW p \in Seq(S), NEW q \in Seq(S), NEW n, NEW c, NEW x, NEW v,
           \A k \in 1..Len(p) : ~Tells(p[k], n, c), Latest(q, n, c, x, v)
    PROVE  Latest(p \o q, n, c, x, v)
<1> DEFINE t == p \o q
<1>1. /\ Len(p) \in Nat /\ Len(q) \in Nat /\ Len(t) = Len(p) + Len(q)
      /\ \A k \in 1..Len(p) : t[k] = p[k]
      /\ \A k \in 1..Len(q) : t[Len(p) + k] = q[k]
  OBVIOUS
<1> HIDE DEF t
<1>2. ASSUME NEW k \in 1..Len(t), Tells(t[k], n, c)
      PROVE  \E j \in 1..Len(q) : k = Len(p) + j
  <2>1. ~(k =< Len(p))
    <3> SUFFICES ASSUME k =< Len(p) PROVE FALSE
      OBVIOUS
    <3>1. k \in 1..Len(p)
      BY <1>1
    <3> QED
      BY <1>1, <1>2, <3>1
  <2>2. k - Len(p) \in 1..Len(q) /\ k = Len(p) + (k - Len(p))
    BY <1>1, <2>1
  <2> QED
    BY <2>2
<1>3. ASSUME NEW k \in 1..Len(t), Tells(t[k], n, c),
             \A j \in (k + 1)..Len(t) : ~Tells(t[j], n, c)
      PROVE  t[k].content = v
  <2>1. PICK i \in 1..Len(q) : k = Len(p) + i
    BY <1>2, <1>3
  <2>2. t[k] = q[i]
    BY <1>1, <2>1
  <2>3. ASSUME NEW j \in (i + 1)..Len(q) PROVE ~Tells(q[j], n, c)
    <3>1. j \in 1..Len(q) /\ Len(p) + j \in (k + 1)..Len(t)
      BY <1>1, <2>1, <2>3
    <3> QED
      BY <1>1, <1>3, <3>1
  <2> QED
    BY <1>3, <2>2, <2>3 DEF Latest
<1>4. ASSUME \A k \in 1..Len(t) : ~Tells(t[k], n, c) PROVE x = v
  <2>1. ASSUME NEW j \in 1..Len(q) PROVE ~Tells(q[j], n, c)
    <3>1. Len(p) + j \in 1..Len(t)
      BY <1>1
    <3> QED
      BY <1>1, <1>4, <3>1
  <2> QED
    BY <2>1 DEF Latest
<1> QED
  BY <1>3, <1>4 DEF Latest, t

\* The routes a node is given are the cheapest by the table it then has.
LEMMA TableOfRoutes ==
    ASSUME TypeOK, EventsInOrder, protocol \in {"dv", "dvrpp"}, events # <<>>,
           node_states[event.node].cost[event.node][event.node] = 0
    PROVE  LET n == event.node
           IN  /\ \A i \in Node \ {n} :
                     NewRoutes[i] = Cheapest([j \in Near(n) |->
                         COST_ADD(LinkCost(Topology, n, j), NewTable.cost[j][i])])
               /\ \A i \in Node :
                     NewTable.cost[n][i] = IF i = n THEN 0 ELSE NewRoutes[i].cost
               /\ \A j \in Node \ {n} :
                     NewTable.cost[j] = IF event \in Messages /\ j = event.neighbor
                                        THEN event.content ELSE node_states[n].cost[j]
               /\ ToldNow = {} /\ Near(n) # {} =>
                     /\ NewTable.cost[n] = node_states[n].cost[n]
                     /\ NewTable.next_hop = node_states[n].next_hop
<1> DEFINE n == event.node
           b == event.neighbor
           old == node_states[n]
           s0 == DV!Received
           row == [i \in Node |-> IF i = n THEN s0.cost[n][n] ELSE NewRoutes[i].cost]
<1>1. /\ event \in LinkEvents \cup Messages /\ n \in Node /\ b \in Node /\ n # b
      /\ s0 \in VectorState /\ NewTable \in VectorState /\ NewRoutes \in [Node -> Route]
      /\ old \in VectorState
  BY VectorTypes DEF TypeOK
<1>2. s0 = IF event.type = "message" THEN [old EXCEPT !.cost[b] = event.content] ELSE old
  BY Zenon DEF DV!Received, DV!event, event
<1>3. /\ s0.cost \in [Node -> Vectors] /\ NewTable.cost \in [Node -> Vectors]
      /\ old.cost \in [Node -> Vectors] /\ old = [cost |-> old.cost, next_hop |-> old.next_hop]
  BY <1>1, Fields
<1>4. event.type = "message" <=> event \in Messages
  BY <1>1, EventKinds
<1>5. /\ s0.next_hop = old.next_hop
      /\ \A j \in Node : s0.cost[j] = IF event \in Messages /\ j = b THEN event.content
                                      ELSE old.cost[j]
  BY <1>1, <1>2, <1>3, <1>4
<1>6. /\ NewTable = [cost |-> [s0.cost EXCEPT ![n] = row],
                     next_hop |-> [i \in Node |-> IF i \in DV!Changed(s0, n, NewRoutes)
                                       THEN NewRoutes[i].hop ELSE s0.next_hop[i]]]
  BY Zenon DEF NewTable, DV!Updated, DV!Node, Node
<1>7. NewTable.cost[n] = row /\ \A j \in Node \ {n} : NewTable.cost[j] = s0.cost[j]
  <2> HIDE DEF row, s0
  <2>1. NewTable.cost = [s0.cost EXCEPT ![n] = row]
    BY <1>6
  <2> QED
    BY <1>1, <1>3, <2>1
<1>8. s0.cost[n] = old.cost[n]
  BY <1>1, <1>5
<1> DEFINE via(i, cost) == [j \in Near(n) |-> COST_ADD(LinkCost(Topology, n, j), cost[j][i])]
<1>9. NewRoutes = [i \in Node |-> IF i = n THEN NoRoute ELSE Cheapest(via(i, s0.cost))]
  BY Zenon DEF NewRoutes, DV!bellmond_ford, DV!Node, Node, DV!NoRoute, NoRoute, DV!Cheapest, Cheapest,
       DV!Least, Least, DV!COST_ADD, COST_ADD, Near, DV!Neighbors, Neighbors,
       DV!LinkCost, LinkCost, DV!LinkOf, LinkOf, DV!Topology, Topology, DV!event, event
<1>10. ASSUME NEW i \in Node \ {n} PROVE NewRoutes[i] = Cheapest(via(i, NewTable.cost))
  <2>1. \A j \in Near(n) : NewTable.cost[j] = s0.cost[j]
    BY <1>7 DEF Near, Neighbors
  <2> HIDE DEF s0
  <2>2. via(i, s0.cost) = via(i, NewTable.cost)
    BY <2>1, Zenon
  <2>3. NewRoutes[i] = Cheapest(via(i, s0.cost))
    <3> HIDE DEF via
    <3> QED
      BY <1>9
  <2> QED
    BY <2>2, <2>3, Zenon
<1>11. ASSUME NEW i \in Node PROVE NewTable.cost[n][i] = IF i = n THEN 0 ELSE NewRoutes[i].cost
  <2>1. row[i] = IF i = n THEN s0.cost[n][n] ELSE NewRoutes[i].cost
    OBVIOUS
  <2> QED
    BY <1>7, <1>8, <2>1
<1>12. ASSUME ToldNow = {}, Near(n) # {}
       PROVE  NewTable.cost[n] = old.cost[n] /\ NewTable.next_hop = old.next_hop
  <2>1. DV!Changed(s0, n, NewRoutes) = {}
    BY <1>12 DEF ToldNow
  <2>2. NewTable.cost[n] = old.cost[n]
    <3>1. \A i \in Node \ {n} : NewRoutes[i].cost = s0.cost[n][i]
      BY <2>1 DEF DV!Changed, DV!Node, Node
    <3>2. \A i \in Node : row[i] = old.cost[n][i]
      BY <1>8, <3>1
    <3>3. NewTable.cost[n] \in [Node -> Cost] /\ old.cost[n] \in [Node -> Cost]
      BY <1>1, <1>3 DEF Vectors
    <3> HIDE DEF row, old
    <3> QED
      BY <1>7, <3>2, <3>3
  <2>3. NewTable.next_hop = old.next_hop
    <3>1. old.next_hop \in [Node -> 0..N]
      BY <1>1, Fields
    <3>2. NewTable.next_hop = [i \in Node |-> s0.next_hop[i]]
      <4> HIDE DEF s0, row
      <4> QED
        BY <1>6, <2>1
    <3> HIDE DEF s0, old
    <3> QED
      BY <1>5, <3>1, <3>2
  <2> QED
    BY <2>2, <2>3
<1> QED
  BY <1>1, <1>5, <1>7, <1>10, <1>11, <1>12

\* After a step these invariants are about the state after it.
LEMMA TablePrime ==
    RoutesByTable' <=>
        (protocol' \in {"dv", "dvrpp"} =>
            \A n \in Node :
                /\ \/ HalfTold' /\ event'.node = n
                   \/ \A i \in Node \ {n} :
                         routes'[n][i] =
                             Cheapest([j \in Neighbors(topology', n) |->
                                 COST_ADD(LinkCost(topology', n, j), node_states'[n].cost[j][i])])
                /\ \A i \in Node :
                      node_states'[n].cost[n][i] = IF i = n THEN 0 ELSE routes'[n][i].cost)
BY Zenon DEF RoutesByTable, Cheapest, Least, NoRoute, COST_ADD, Neighbors, LinkCost, LinkOf, Node

LEMMA HeardPrime ==
    ASSUME UNCHANGED protocol
    PROVE  VectorsHeard' <=>
        (protocol \in {"dv", "dvrpp"} =>
            \A c \in Node : \A n \in Neighbors(topology', c) :
                \/ <<c, n>> \in unheard'
                \/ Latest(events' \o later', n, c, node_states'[n].cost[c],
                          Offered(node_states'[c], c, n)))
<1> DEFINE Told(p, s, c, n) == IF p = "dv" THEN DV!Vector(s, c, n) ELSE RPP!Vector(s, c, n)
           Heard(p) ==
               p \in {"dv", "dvrpp"} =>
                   \A c \in Node : \A n \in Neighbors(topology', c) :
                       \/ <<c, n>> \in unheard'
                       \/ Latest(events' \o later', n, c, node_states'[n].cost[c],
                                 Told(p, node_states'[c], c, n))
<1>1. VectorsHeard' <=> Heard(protocol')
  BY Zenon DEF VectorsHeard, Latest, Tells, Offered, DV!Vector, RPP!Vector, DV!Node, RPP!Node,
               Neighbors, LinkCost, LinkOf, Node
<1>2. Heard(protocol') <=> Heard(protocol)
  <2> HIDE DEF Heard
  <2> QED
    OBVIOUS
<1>3. \A s, c, n : Offered(s, c, n) = Told(protocol, s, c, n)
  BY Zenon DEF Offered
<1> QED
  BY <1>1, <1>2, <1>3, Zenon

\* What an event does to the node it is for, and to others.
LEMMA VectorEffect ==
    ASSUME SimInv, UNCHANGED protocol, VectorUpdate
    PROVE  /\ TypeOK /\ EventsInOrder /\ protocol \in {"dv", "dvrpp"} /\ events # <<>>
           /\ topology' = Topology /\ events' = Tail(events)
           /\ node_states'[event.node] = NewTable /\ routes'[event.node] = NewRoutes
           /\ \A n \in Node \ {event.node} :
                 node_states'[n] = node_states[n] /\ routes'[n] = routes[n]
           /\ \A n : Neighbors(topology', n) = Near(n)
<1>1. /\ TypeOK /\ EventsInOrder /\ protocol \in {"dv", "dvrpp"}
  BY DEF SimInv, VectorUpdate
<1>2. events # <<>> /\ Process(NewTable, NewRoutes, MessagesTo(ToldNow, SentNow))
  BY VectorProcess
<1>3. event.node \in Node
  BY <1>1, <1>2, VectorTypes
<1> QED
  BY <1>1, <1>2, <1>3 DEF Process, TypeOK, Near

LEMMA TableStep ==
    ASSUME SimInv, RoutesByTable, UNCHANGED protocol, VectorUpdate
    PROVE  RoutesByTable'
<1> DEFINE e == event.node
           ByTable(n) == \A i \in Node \ {n} :
                             routes'[n][i] =
                                 Cheapest([j \in Neighbors(topology', n) |->
                                     COST_ADD(LinkCost(topology', n, j), node_states'[n].cost[j][i])])
           OwnRow(n) == \A i \in Node :
                            node_states'[n].cost[n][i] = IF i = n THEN 0 ELSE routes'[n][i].cost
<1>1. /\ TypeOK /\ EventsInOrder /\ protocol \in {"dv", "dvrpp"} /\ events # <<>>
      /\ topology' = Topology /\ events' = Tail(events)
      /\ node_states'[e] = NewTable /\ routes'[e] = NewRoutes
      /\ \A n \in Node \ {e} : node_states'[n] = node_states[n] /\ routes'[n] = routes[n]
      /\ \A n : Neighbors(topology', n) = Near(n)
  BY VectorEffect
<1>2. event \in LinkEvents \cup Messages /\ e \in Node
  BY <1>1, VectorTypes
<1>3. node_states[e].cost[e][e] = 0
  BY <1>1, <1>2 DEF RoutesByTable
<1>4. ByTable(e) /\ OwnRow(e)
  <2>1. \A i \in Node \ {e} :
            NewRoutes[i] = Cheapest([j \in Near(e) |->
                COST_ADD(LinkCost(Topology, e, j), NewTable.cost[j][i])])
    BY <1>1, <1>3, TableOfRoutes
  <2>2. \A i \in Node : NewTable.cost[e][i] = IF i = e THEN 0 ELSE NewRoutes[i].cost
    BY <1>1, <1>3, TableOfRoutes
  <2> QED
    BY <1>1, <2>1, <2>2
<1>5. ASSUME NEW n \in Node, n # e
      PROVE  OwnRow(n) /\ (ByTable(n) \/ (HalfTold' /\ event'.node = n))
  <2>1. node_states'[n] = node_states[n] /\ routes'[n] = routes[n]
    BY <1>1, <1>5
  <2>2. OwnRow(n)
    BY <1>1, <2>1 DEF RoutesByTable
  <2>3. CASE Topology = topology \/ n # event.neighbor
    <3>1. /\ Near(n) = Neighbors(topology, n)
          /\ \A j \in Node : LinkCost(Topology, n, j) = LinkCost(topology, n, j)
      BY <1>1, <1>2, <1>5, <2>3, NextTopology, NearOthers
    <3>2. \A i \in Node \ {n} :
              routes[n][i] = Cheapest([j \in Neighbors(topology, n) |->
                  COST_ADD(LinkCost(topology, n, j), node_states[n].cost[j][i])])
      BY <1>1, <1>5 DEF RoutesByTable
    <3>3. ASSUME NEW i \in Node \ {n}
          PROVE  [j \in Neighbors(topology, n) |->
                     COST_ADD(LinkCost(topology, n, j), node_states[n].cost[j][i])]
                 = [j \in Near(n) |->
                     COST_ADD(LinkCost(Topology, n, j), node_states[n].cost[j][i])]
      <4>1. \A j \in Near(n) : LinkCost(Topology, n, j) = LinkCost(topology, n, j)
        BY <3>1, NearNodes
      <4> QED
        BY <3>1, <4>1, Zenon
    <3>4. ByTable(n)
      BY <1>1, <2>1, <3>2, <3>3
    <3> QED
      BY <2>2, <3>4
  <2>4. CASE Topology # topology /\ n = event.neighbor
    <3>1. HalfTold' /\ Head(events').node = event.neighbor
      BY <1>1, <2>4, NextEvents
    <3> QED
      BY <2>2, <2>4, <3>1 DEF event
  <2> QED
    BY <2>3, <2>4
<1> HIDE DEF ByTable, OwnRow
<1>6. \A n \in Node : OwnRow(n) /\ (ByTable(n) \/ (HalfTold' /\ event'.node = n))
  BY <1>4, <1>5
<1> QED
  BY <1>6, TablePrime, Zenon DEF ByTable, OwnRow


\* Messages are sent to the nodes told, with what each is sent.
LEMMA SentOnly ==
    ASSUME TypeOK, EventsInOrder, protocol \in {"dv", "dvrpp"}, events # <<>>
    PROVE  LET ms == MessagesTo(ToldNow, SentNow)
           IN  /\ ms \in Seq(Messages)
               /\ \A k \in 1..Len(ms) : \E m \in ToldNow :
                      ms[k] = Message(m, SentNow[m])
               /\ \A m \in ToldNow : \E k \in 1..Len(ms) : ms[k] = Message(m, SentNow[m])
<1> DEFINE Sent == {Message(m, SentNow[m]) : m \in ToldNow}
           ms == MessagesTo(ToldNow, SentNow)
<1>1. ToldNow \in SUBSET Node /\ \A m \in ToldNow : Message(m, SentNow[m]) \in Messages
  BY VectorTypes, NearNodes
<1>2. \A m \in ToldNow : Message(m, SentNow[m]) \in Sent
  OBVIOUS
<1>3. \A x \in Sent : \E m \in ToldNow : x = Message(m, SentNow[m])
  OBVIOUS
<1> HIDE DEF Sent
<1>4. ms \in Seq(Sent) /\ \A m \in ToldNow : \E k \in 1..Len(ms) : ms[k] = Message(m, SentNow[m])
  BY <1>1, <1>2, MessagesToTold
<1>5. ms \in Seq(Messages)
  BY <1>1, MessagesToTold
<1> HIDE DEF ms
<1>6. \A k \in 1..Len(ms) : ms[k] \in Sent
  BY <1>4
<1> QED
  BY <1>3, <1>4, <1>5, <1>6 DEF ms

LEMMA VectorsStep ==
    ASSUME SimInv, RoutesByTable, VectorsHeard, UNCHANGED protocol, VectorUpdate
    PROVE  VectorsHeard'
<1> DEFINE a == event.node
           b == event.neighbor
           ms == MessagesTo(ToldNow, SentNow)
           All == LinkEvents \cup Messages
           Hears(c, n) == Latest(events' \o later', n, c, node_states'[n].cost[c],
                                 Offered(node_states'[c], c, n))
<1>1. /\ TypeOK /\ EventsInOrder /\ protocol \in {"dv", "dvrpp"} /\ events # <<>>
      /\ topology' = Topology
      /\ node_states'[a] = NewTable
      /\ \A n \in Node \ {a} : node_states'[n] = node_states[n]
      /\ \A n : Neighbors(topology', n) = Near(n)
  BY VectorEffect
<1>2. /\ event \in All /\ a \in Node /\ b \in Node /\ a # b
      /\ ToldNow \in SUBSET Near(a)
  BY <1>1, VectorTypes
<1>3. /\ ms \in Seq(All)
      /\ \A k \in 1..Len(ms) : \E m \in ToldNow : ms[k] = Message(m, SentNow[m])
      /\ \A m \in ToldNow : \E k \in 1..Len(ms) : ms[k] = Message(m, SentNow[m])
  <2>1. ms \in Seq(Messages)
    BY <1>1, SentOnly
  <2> HIDE DEF ms
  <2>2. ms \in Seq(All)
    BY <2>1
  <2> QED
    BY <1>1, <2>2, SentOnly DEF ms
<1>4. /\ events' = Tail(events) /\ later' = later \o ms
      /\ events \in Seq(All) /\ later \in Seq(All)
      /\ unheard' = (unheard \cup DV!CameUp) \ ({a} \X ToldNow)
  <2>1. later \in Seq(Messages) /\ events \in Seq(All)
    BY <1>1 DEF TypeOK
  <2>2. later \in Seq(All)
    BY <2>1
  <2> QED
    BY <2>1, <2>2, VectorProcess DEF Process
<1>5. node_states[a].cost[a][a] = 0
  BY <1>1, <1>2 DEF RoutesByTable
<1>6. /\ \A j \in Node \ {a} :
            NewTable.cost[j] = IF event \in Messages /\ j = b
                               THEN event.content ELSE node_states[a].cost[j]
      /\ ToldNow = {} /\ Near(a) # {} =>
            /\ NewTable.cost[a] = node_states[a].cost[a]
            /\ NewTable.next_hop = node_states[a].next_hop
  BY <1>1, <1>5, TableOfRoutes
<1>7. /\ \A k \in 1..Len(ms) : \A n, c :
            Tells(ms[k], n, c) => c = a /\ n \in ToldNow /\ ms[k].content = SentNow[n]
      /\ \A n \in ToldNow : \E k \in 1..Len(ms) : Tells(ms[k], n, a)
  <2> HIDE DEF ms
  <2>1. ASSUME NEW k \in 1..Len(ms), NEW n, NEW c, Tells(ms[k], n, c)
        PROVE  c = a /\ n \in ToldNow /\ ms[k].content = SentNow[n]
    <3>1. PICK m \in ToldNow : ms[k] = Message(m, SentNow[m])
      BY <1>3
    <3>2. m = n /\ c = a
      BY <2>1, <3>1 DEF Tells, Message
    <3> QED
      BY <3>1, <3>2 DEF Message
  <2>2. ASSUME NEW n \in ToldNow PROVE \E k \in 1..Len(ms) : Tells(ms[k], n, a)
    <3>1. PICK k \in 1..Len(ms) : ms[k] = Message(n, SentNow[n])
      BY <1>3
    <3>2. Tells(ms[k], n, a)
      BY <3>1 DEF Tells, Message
    <3> QED
      BY <3>2
  <2> QED
    BY <2>1, <2>2
<1>8. \A n, c : Tells(event, n, c) <=> event \in Messages /\ a = n /\ b = c
  BY <1>2, EventKinds DEF Tells
<1> HIDE DEF ms, All
<1>9. ASSUME NEW n \in ToldNow PROVE Hears(a, n)
  <2>1. \E k \in 1..Len(ms) : Tells(ms[k], n, a)
    BY <1>7
  <2>2. \A k \in 1..Len(ms) : Tells(ms[k], n, a) => ms[k].content = SentNow[n]
    BY <1>7
  <2>3. SentNow[n] = Offered(node_states'[a], a, n)
    BY <1>1 DEF SentNow
  <2> QED
    BY <1>1, <1>4, <1>3, <2>1, <2>2, <2>3, LatestSent
<1>10. ASSUME NEW c \in Node, NEW n \in Node, n # c, ~(c = a /\ n \in ToldNow),
              c = a => n \in Near(a),
              Latest(events \o later, n, c, node_states[n].cost[c], Offered(node_states[c], c, n))
       PROVE  Hears(c, n)
  <2>1. \A k \in 1..Len(ms) : ~Tells(ms[k], n, c)
    BY <1>7, <1>10
  <2>2. Offered(node_states'[c], c, n) = Offered(node_states[c], c, n)
    <3>1. CASE c = a
      <4>1. ToldNow = {} /\ Near(a) # {}
        BY <1>10, <3>1 DEF ToldNow
      <4>2. /\ NewTable.cost[a] = node_states[a].cost[a]
            /\ NewTable.next_hop = node_states[a].next_hop
        BY <1>6, <4>1
      <4> QED
        BY <1>1, <3>1, <4>2 DEF Offered, DV!Vector, RPP!Vector
    <3>2. CASE c # a
      BY <1>1, <3>2
    <3> QED
      BY <3>1, <3>2
  <2>3. node_states'[n].cost[c] = IF Tells(event, n, c) THEN event.content
                                  ELSE node_states[n].cost[c]
    <3>1. CASE n = a
      BY <1>1, <1>6, <1>8, <1>10, <3>1
    <3>2. CASE n # a
      BY <1>1, <1>8, <3>2
    <3> QED
      BY <3>1, <3>2
  <2>4. event = Head(events)
    BY DEF event
  <2> QED
    BY <1>1, <1>3, <1>4, <1>10, <2>1, <2>2, <2>3, <2>4, LatestKept
<1>11. ASSUME NEW c \in Node, NEW n \in Near(c)
       PROVE  <<c, n>> \in unheard' \/ Hears(c, n)
  <2>1. n \in Node /\ n # c /\ LinkCost(Topology, c, n) # CostInfinity
    BY DEF Near, Neighbors
  <2>2. CASE c = a /\ n \in ToldNow
    BY <1>9, <2>2
  <2>3. CASE ~(c = a /\ n \in ToldNow) /\ n \notin Neighbors(topology, c)
    <3>1. LinkCost(topology, c, n) = CostInfinity
      BY <2>1, <2>3 DEF Neighbors
    <3>2. event \in LinkEvents /\ ((c = a /\ n = b) \/ (c = b /\ n = a))
      BY <1>1, <1>2, <2>1, <3>1, NextTopology DEF All
    <3>3. LinkCost(topology, a, b) = CostInfinity /\ LinkCost(Topology, a, b) # CostInfinity
      <4>1. topology \in [Links -> Cost] /\ Topology \in [Links -> Cost]
        BY <1>1, <1>2, NextTopology DEF TypeOK, All
      <4>2. LinkCost(topology, a, b) = LinkCost(topology, b, a)
        BY <1>2, <4>1, LinkCostType
      <4>3. LinkCost(Topology, a, b) = LinkCost(Topology, b, a)
        BY <1>2, <4>1, LinkCostType
      <4> QED
        BY <2>1, <3>1, <3>2, <4>2, <4>3
    <3>4. event.type = "link"
      BY <3>2, EventKinds
    <3>5. DV!CameUp = {<<a, b>>, <<b, a>>}
      <4>1. DV!CameUp = IF event.type = "link" /\ LinkCost(topology, a, b) = CostInfinity
                                               /\ LinkCost(Topology, a, b) # CostInfinity
                        THEN {<<a, b>>, <<b, a>>} ELSE {}
        BY Zenon DEF DV!CameUp, DV!event, event, DV!LinkCost, LinkCost, DV!LinkOf, LinkOf,
                     DV!Topology, Topology
      <4> QED
        BY <3>3, <3>4, <4>1
    <3>6. <<c, n>> \in DV!CameUp
      BY <3>2, <3>5
    <3>7. <<c, n>> \notin {a} \X ToldNow
      BY <2>3
    <3> QED
      BY <1>4, <3>6, <3>7
  <2>4. CASE ~(c = a /\ n \in ToldNow) /\ n \in Neighbors(topology, c)
    <3>1. \/ <<c, n>> \in unheard
          \/ Latest(events \o later, n, c, node_states[n].cost[c], Offered(node_states[c], c, n))
      BY <1>1, <2>4 DEF VectorsHeard
    <3>2. CASE <<c, n>> \in unheard
      <4>1. <<c, n>> \notin {a} \X ToldNow
        BY <2>4
      <4> QED
        BY <1>4, <3>2, <4>1
    <3>3. CASE Latest(events \o later, n, c, node_states[n].cost[c], Offered(node_states[c], c, n))
      <4> HIDE DEF Hears
      <4> QED
        BY <1>10, <2>1, <2>4, <3>3
    <3> QED
      BY <3>1, <3>2, <3>3
  <2> QED
    BY <2>2, <2>3, <2>4
<1> HIDE DEF Hears
<1>12. \A c \in Node : \A n \in Neighbors(topology', c) : <<c, n>> \in unheard' \/ Hears(c, n)
  BY <1>1, <1>11
<1> QED
  BY <1>12, HeardPrime, Zenon DEF Hears

\* No link costs nothing: not in the file, and then not in the network.
PositiveCosts == \A cs \in Networks \cup Changes : \A k \in DOMAIN cs : cs[k].cost # 0

LEMMA NotificationsCost ==
    ASSUME NEW cs \in Networks \cup Changes, PositiveCosts
    PROVE  /\ Notifications(cs) \in Seq(LinkEvents)
           /\ \A k \in 1..Len(Notifications(cs)) :
                 Notifications(cs)[k].type = "link" /\ Notifications(cs)[k].cost # 0
<1> DEFINE ns == Notifications(cs)
<1>1. cs \in Seq(LinkChange) /\ <<>> \in Seq(Messages)
  BY SimulatorAssumption
<1>2. ns \in Seq(LinkEvents)
  BY <1>1, NotificationsPaired
<1>3. ns = [k \in 1..(2 * Len(cs)) |->
               IF k % 2 = 1 THEN Notification(cs[(k + 1) \div 2], 1, 2)
               ELSE Notification(cs[k \div 2], 2, 1)]
  BY DEF Notifications
<1>4. Len(ns) = 2 * Len(cs) /\ Len(cs) \in Nat
  BY <1>1, <1>3
<1> HIDE DEF ns
<1>5. ASSUME NEW k \in 1..Len(ns) PROVE ns[k].cost # 0
  <2>1. CASE k % 2 = 1
    <3>1. (k + 1) \div 2 \in 1..Len(cs)
      BY <1>4, <2>1
    <3>2. ns[k].cost = cs[(k + 1) \div 2].cost
      BY <1>3, <1>4, <2>1 DEF Notification
    <3> QED
      BY <1>1, <3>1, <3>2 DEF PositiveCosts
  <2>2. CASE k % 2 # 1
    <3>1. k \div 2 \in 1..Len(cs)
      BY <1>4, <2>2
    <3>2. ns[k].cost = cs[k \div 2].cost
      BY <1>3, <1>4, <2>2 DEF Notification
    <3> QED
      BY <1>1, <3>1, <3>2 DEF PositiveCosts
  <2> QED
    BY <2>1, <2>2
<1>6. \A k \in 1..Len(ns) : ns[k].type = "link"
  BY <1>2, EventKinds
<1> QED
  BY <1>2, <1>5, <1>6 DEF ns

LEMMA VectorsInit ==
    ASSUME Init
    PROVE  RoutesByTable /\ VectorsHeard
<1> SUFFICES ASSUME protocol \in {"dv", "dvrpp"} PROVE RoutesByTable /\ VectorsHeard
  BY DEF RoutesByTable, VectorsHeard
<1>1. SimInit(DV!init_state)
  BY DEF Init
<1>2. /\ topology = [l \in Links |-> CostInfinity] /\ node_states = DV!init_state
      /\ routes = [n \in Node |-> [d \in Node |-> NoRoute]]
  BY <1>1 DEF SimInit
<1>3. \A n \in Node : Neighbors(topology, n) = {}
  <2>1. \A n, m \in Node : m # n => LinkCost(topology, n, m) = CostInfinity
    BY <1>2, LinkOfEnds DEF LinkCost
  <2> QED
    BY <2>1 DEF Neighbors
<1>4. VectorsHeard
  BY <1>3 DEF VectorsHeard
<1>5. ASSUME NEW n \in Node, NEW i \in Node
      PROVE  /\ i # n => routes[n][i] =
                             Cheapest([j \in Neighbors(topology, n) |->
                                 COST_ADD(LinkCost(topology, n, j), node_states[n].cost[j][i])])
             /\ node_states[n].cost[n][i] = IF i = n THEN 0 ELSE routes[n][i].cost
  <2> DEFINE via == [j \in Neighbors(topology, n) |->
                       COST_ADD(LinkCost(topology, n, j), node_states[n].cost[j][i])]
  <2>1. routes[n][i] = NoRoute
    BY <1>2
  <2>2. DOMAIN via = {}
    BY <1>3
  <2> HIDE DEF via
  <2>3. {CostInfinity} \cup {via[j] : j \in DOMAIN via} = {CostInfinity}
    BY <2>2
  <2>4. {CostInfinity} \in SUBSET Nat
    BY SimulatorAssumption
  <2>5. Least({CostInfinity}) = CostInfinity
    BY <2>4, LeastNatural
  <2>6. Cheapest(via) = NoRoute
    BY <2>3, <2>5 DEF Cheapest
  <2>7. node_states[n].cost[n][i] = IF n = i THEN 0 ELSE CostInfinity
    BY <1>2 DEF DV!init_state, DV!Node, Node
  <2> QED
    BY <2>1, <2>6, <2>7 DEF via, NoRoute
<1>6. RoutesByTable
  BY <1>5, Zenon DEF RoutesByTable
<1> QED
  BY <1>4, <1>6

\* Nothing of this changes when only running does, or the time.
LEMMA TableKept ==
    ASSUME RoutesByTable, UNCHANGED <<topology, node_states, routes, protocol>>,
           HalfTold => HalfTold' /\ event' = event
    PROVE  RoutesByTable'
<1> DEFINE ByTable(top, ns, r, n) ==
             \A i \in Node \ {n} :
                 r[n][i] = Cheapest([j \in Neighbors(top, n) |->
                               COST_ADD(LinkCost(top, n, j), ns[n].cost[j][i])])
           OwnRow(ns, r, n) ==
             \A i \in Node : ns[n].cost[n][i] = IF i = n THEN 0 ELSE r[n][i].cost
<1>1. protocol \in {"dv", "dvrpp"} =>
          \A n \in Node : /\ (HalfTold /\ event.node = n) \/ ByTable(topology, node_states, routes, n)
                          /\ OwnRow(node_states, routes, n)
  BY Zenon DEF RoutesByTable
<1>2. RoutesByTable' <=>
          (protocol' \in {"dv", "dvrpp"} =>
              \A n \in Node :
                  /\ \/ HalfTold' /\ event'.node = n
                     \/ ByTable(topology', node_states', routes', n)
                  /\ OwnRow(node_states', routes', n))
  BY TablePrime, Zenon
<1> HIDE DEF ByTable, OwnRow
<1> QED
  BY <1>1, <1>2

\* On to the next time, no message becomes later or earlier than another.
LEMMA LatestInTime ==
    ASSUME TypeOK, NextTime \/ LinkChanges
    PROVE  \A n, c, x, v :
               Latest(events \o later, n, c, x, v) => Latest(events' \o later', n, c, x, v)
<1>1. events = <<>> /\ later' = <<>> /\ later \in Seq(Messages)
  BY DEF TypeOK, NextTime, LinkChanges
<1>2. PICK cs \in Seq(LinkChange) : events' = Notifications(cs) \o later
  <2>1. CASE NextTime
    <3>1. <<>> \in Seq(LinkChange) /\ Notifications(<<>>) = <<>>
      BY DEF Notifications
    <3>2. events' = <<>> \o later
      BY <1>1, <2>1 DEF NextTime
    <3> QED
      BY <3>1, <3>2
  <2>2. CASE LinkChanges
    BY <2>2, SimulatorAssumption DEF LinkChanges
  <2> QED
    BY <2>1, <2>2
<1> DEFINE ns == Notifications(cs)
           All == LinkEvents \cup Messages
<1>3. ns \in Seq(LinkEvents)
  BY <1>1, NotificationsPaired
<1>4. ns \in Seq(All) /\ later \in Seq(All) /\ \A k \in 1..Len(ns) : ns[k].type = "link"
  <2> HIDE DEF ns
  <2> QED
    BY <1>1, <1>3, EventKinds
<1> HIDE DEF ns, All
<1>5. events \o later = later /\ events' \o later' = ns \o later
  <2>1. ns \o later \in Seq(All)
    BY <1>4
  <2> QED
    BY <1>1, <1>2, <1>4, <2>1 DEF ns
<1> SUFFICES ASSUME NEW n, NEW c, NEW x, NEW v, Latest(later, n, c, x, v)
             PROVE  Latest(ns \o later, n, c, x, v)
  BY <1>5, Zenon
<1>6. \A k \in 1..Len(ns) : ~Tells(ns[k], n, c)
  BY <1>4 DEF Tells
<1> QED
  BY <1>4, <1>6, LatestAfter

LEMMA VectorsTime ==
    ASSUME SimInv, RoutesByTable, VectorsHeard, NextTime \/ LinkChanges,
           UNCHANGED <<protocol, unheard>>
    PROVE  RoutesByTable' /\ VectorsHeard'
<1>1. TypeOK /\ events = <<>> /\ UNCHANGED <<topology, node_states, routes>>
  BY DEF SimInv, NextTime, LinkChanges
<1>2. ~HalfTold
  BY <1>1 DEF HalfTold
<1>3. RoutesByTable'
  BY <1>1, <1>2, TableKept
<1>4. \A n, c, x, v :
          Latest(events \o later, n, c, x, v) => Latest(events' \o later', n, c, x, v)
  BY <1>1, LatestInTime
<1>5. VectorsHeard'
  BY <1>1, <1>4, HeardPrime, Zenon DEF VectorsHeard
<1> QED
  BY <1>3, <1>5

LEMMA VectorsStay ==
    ASSUME RoutesByTable, VectorsHeard,
           UNCHANGED <<topology, events, later, node_states, routes, protocol, unheard>>
    PROVE  RoutesByTable' /\ VectorsHeard'
<1>1. HalfTold' <=> HalfTold
  BY DEF HalfTold, event, LinkEvents, Links, LinkOf, Cost, Node
<1>2. event' = event
  BY DEF event
<1>3. RoutesByTable'
  BY <1>1, <1>2, TableKept
<1>4. VectorsHeard'
  BY HeardPrime, Zenon DEF VectorsHeard
<1> QED
  BY <1>3, <1>4

LEMMA VectorsInv == Spec => [](RoutesByTable /\ VectorsHeard)
<1>1. Init => RoutesByTable /\ VectorsHeard
  BY VectorsInit
<1>2. IndInv /\ RoutesByTable /\ VectorsHeard /\ [Next]_vars => RoutesByTable' /\ VectorsHeard'
  <2> SUFFICES ASSUME IndInv, RoutesByTable, VectorsHeard, [Next]_vars
               PROVE  RoutesByTable' /\ VectorsHeard'
    OBVIOUS
  <2>1. SimInv
    BY DEF SimInv, IndInv
  <2>2. CASE protocol \notin {"dv", "dvrpp"} /\ UNCHANGED protocol
    BY <2>2 DEF RoutesByTable, VectorsHeard
  <2>3. CASE VectorUpdate /\ UNCHANGED protocol
    BY <2>1, <2>3, TableStep, VectorsStep
  <2>4. CASE (NextTime \/ LinkChanges) /\ UNCHANGED <<protocol, unheard>>
    BY <2>1, <2>4, VectorsTime
  <2>5. CASE UNCHANGED vars
    BY <2>5, VectorsStay DEF vars, simVars
  <2>6. \/ protocol \notin {"dv", "dvrpp"} /\ UNCHANGED protocol
        \/ VectorUpdate /\ UNCHANGED protocol
        \/ (NextTime \/ LinkChanges) /\ UNCHANGED <<protocol, unheard>>
        \/ UNCHANGED vars
    BY DEF Next, Router, VectorUpdate
  <2> QED
    BY <2>2, <2>3, <2>4, <2>5, <2>6
<1> QED
  BY <1>1, <1>2, AlwaysInv, PTL DEF Spec

LEMMA LinksCostStep ==
    ASSUME TypeOK, LinksCost, events # <<>>, topology' = Topology, events' = Tail(events)
    PROVE  LinksCost'
<1>1. /\ events \in Seq(LinkEvents \cup Messages) /\ event = events[1] /\ 1 \in DOMAIN events
      /\ topology \in [Links -> Cost]
  BY DEF TypeOK, event
<1>2. \A k \in DOMAIN Tail(events) : k + 1 \in DOMAIN events /\ Tail(events)[k] = events[k + 1]
  BY <1>1
<1>3. \A l \in Links : Topology[l] # 0
  BY <1>1 DEF Topology, LinksCost
<1>4. \A k \in DOMAIN Tail(events) : Tail(events)[k].type = "link" => Tail(events)[k].cost # 0
  BY <1>2 DEF LinksCost
<1> QED
  BY <1>3, <1>4 DEF LinksCost, Links, Node

LEMMA LinksCostTime ==
    ASSUME PositiveCosts, SimInv, LinksCost, NextTime \/ LinkChanges
    PROVE  LinksCost'
<1>1. topology' = topology /\ later \in Seq(Messages)
  BY DEF NextTime, LinkChanges, SimInv, TypeOK
<1>2. \A k \in 1..Len(later) : later[k].type # "link"
  BY <1>1, EventKinds
<1>3. \A k \in DOMAIN events' : events'[k].type = "link" => events'[k].cost # 0
  <2>1. CASE NextTime
    BY <1>1, <1>2, <2>1 DEF NextTime
  <2>2. CASE LinkChanges
    <3>1. PICK cs \in Changes : events' = Notifications(cs) \o later
      BY <2>2 DEF LinkChanges
    <3> DEFINE ns == Notifications(cs)
    <3>2. ns \in Seq(LinkEvents) /\ \A k \in 1..Len(ns) : ns[k].cost # 0
      BY NotificationsCost
    <3> HIDE DEF ns
    <3>3. ASSUME NEW k \in DOMAIN events', events'[k].type = "link" PROVE events'[k].cost # 0
      <4>1. \/ k \in 1..Len(ns) /\ events'[k] = ns[k]
            \/ k - Len(ns) \in 1..Len(later) /\ events'[k] = later[k - Len(ns)]
        BY <1>1, <3>1, <3>2 DEF ns
      <4> QED
        BY <1>2, <3>2, <3>3, <4>1
    <3> QED
      BY <3>3
  <2> QED
    BY <2>1, <2>2
<1> QED
  BY <1>1, <1>3 DEF LinksCost, Links, Node

LEMMA LinksCostInit ==
    ASSUME PositiveCosts, Init
    PROVE  LinksCost
<1>1. PICK cs \in Networks : events = Notifications(cs)
  BY DEF Init, SimInit
<1>2. topology = [l \in Links |-> CostInfinity]
  BY DEF Init, SimInit
<1> DEFINE ns == Notifications(cs)
<1>3. ns \in Seq(LinkEvents) /\ \A k \in 1..Len(ns) : ns[k].cost # 0
  BY NotificationsCost
<1> HIDE DEF ns
<1>4. \A k \in DOMAIN ns : ns[k].cost # 0
  BY <1>3
<1> QED
  BY <1>1, <1>2, <1>4, SimulatorAssumption DEF LinksCost, ns

LEMMA LinksCostInv ==
    ASSUME PositiveCosts
    PROVE  Spec => [](protocol # "ls" => LinksCost)
<1> DEFINE Inv == protocol # "ls" => LinksCost
<1>1. Init => Inv
  BY LinksCostInit
<1>2. IndInv /\ Inv /\ [Next]_vars => Inv'
  <2> SUFFICES ASSUME IndInv, Inv, [Next]_vars, (protocol # "ls")'
               PROVE  LinksCost'
    OBVIOUS
  <2>1. SimInv /\ TypeOK
    BY DEF SimInv, IndInv
  <2>2. UNCHANGED protocol /\ LinksCost /\ protocol # "ls"
    BY DEF Next, vars
  <2>3. CASE VectorUpdate
    BY <2>1, <2>2, <2>3, VectorEffect, LinksCostStep
  <2>4. CASE protocol = "pv" /\ PV!update
    BY <2>1, <2>2, <2>4, PathProcess, LinksCostStep DEF Process
  <2>5. CASE NextTime \/ LinkChanges
    BY <2>1, <2>2, <2>5, LinksCostTime
  <2>6. CASE UNCHANGED vars
    BY <2>2, <2>6 DEF vars, simVars, LinksCost, Links, Node
  <2> QED
    BY <2>2, <2>3, <2>4, <2>5, <2>6 DEF Next, Router, VectorUpdate
<1> HIDE DEF Inv
<1>3. Spec => []Inv
  BY <1>1, <1>2, AlwaysInv, PTL DEF Spec
<1> QED
  BY <1>3, PTL DEF Inv

\* Sums of costs are associative and monotone.
LEMMA SumLaws ==
    ASSUME NEW a \in Cost, NEW b \in Cost, NEW c \in Cost
    PROVE  /\ COST_ADD(COST_ADD(a, b), c) = COST_ADD(a, COST_ADD(b, c))
           /\ b =< c => COST_ADD(a, b) =< COST_ADD(a, c) /\ COST_ADD(b, a) =< COST_ADD(c, a)
           /\ COST_ADD(a, b) \in Cost /\ COST_ADD(0, a) = a /\ COST_ADD(a, 0) = a
           /\ COST_ADD(CostInfinity, a) = CostInfinity
           /\ a \in Nat /\ a =< CostInfinity
BY SimulatorAssumption DEF COST_ADD, Cost

\* Costs of d each of which some link explains.
Explained(D, d) ==
    /\ D \in [Node -> Vectors] /\ D[d][d] = 0
    /\ \A n \in Node \ {d} :
          D[n][d] < CostInfinity =>
              \E j \in Neighbors(topology, n) :
                  D[n][d] = COST_ADD(LinkCost(topology, n, j), D[j][d])

\* Such costs of all nodes, that no node can better by its links either.
Balanced(D) ==
    /\ D \in [Node -> Vectors] /\ \A d \in Node : Explained(D, d)
    /\ \A n, i \in Node, j \in Node :
          j \in Neighbors(topology, n) => D[n][i] =< COST_ADD(LinkCost(topology, n, j), D[j][i])

\* One round of the reference.
Round(near, far) ==
    /\ near \in [Node -> Vectors] /\ far \in [Node -> Vectors]
    /\ \A n, d \in Node : near[n][d] \in Cost /\ far[n][d] \in Cost /\ far[n][d] =< near[n][d]
    /\ \A n, m, d \in Node : far[n][d] =< COST_ADD(near[n][m], LinkCost(topology, m, d))
    /\ \A n, d \in Node :
          \/ far[n][d] = near[n][d]
          \/ \E m \in Node : far[n][d] = COST_ADD(near[n][m], LinkCost(topology, m, d))

LEMMA ReferenceRound ==
    ASSUME TypeOK, NEW dist, ReferenceBy(dist, FALSE)
    PROVE  \A k \in 1..N : k \in 0..N /\ Round(dist[k - 1], dist[k])
<1> TAKE k \in 1..N
<1> DEFINE cost == [m \in Node |-> [d \in Node |-> LinkCost(topology, m, d)]]
           far == dist[k]
           near == dist[k - 1]
<1>1. k \in 0..N /\ k - 1 \in 0..N
  BY SimulatorAssumption
<1>2. far \in [Node -> Vectors] /\ near \in [Node -> Vectors]
  BY <1>1 DEF ReferenceBy
<1>3. cost \in [Node -> Vectors] /\ \A m, d \in Node : cost[m][d] = LinkCost(topology, m, d)
  BY LinkCostType DEF TypeOK, Vectors
<1>4. \A n \in Node : far[n] = Farther(near[n], Node, cost)
  BY DEF ReferenceBy, Inner
<1> HIDE DEF far, near, cost
<1>5. ASSUME NEW n \in Node, NEW d \in Node
      PROVE  /\ far[n][d] \in Cost /\ near[n][d] \in Cost /\ far[n][d] =< near[n][d]
             /\ \A m \in Node : far[n][d] =< COST_ADD(near[n][m], LinkCost(topology, m, d))
             /\ \/ far[n][d] = near[n][d]
                \/ \E m \in Node : far[n][d] = COST_ADD(near[n][m], LinkCost(topology, m, d))
  <2> DEFINE closer == near[n]
             next == Farther(closer, Node, cost)
  <2>1. closer \in Vectors /\ far[n] = next
    BY <1>2, <1>4
  <2> HIDE DEF closer
  <2>2. /\ next[d] =< closer[d]
        /\ \A m \in Node : next[d] =< COST_ADD(closer[m], cost[m][d])
        /\ \/ next[d] = closer[d]
           \/ \E m \in Node : next[d] = COST_ADD(closer[m], cost[m][d])
    <3>1. Node \in SUBSET Node
      OBVIOUS
    <3> QED
      BY <1>3, <2>1, <3>1, FartherCosts
  <2>3. next \in Vectors
    BY <1>2, <2>1
  <2> HIDE DEF next
  <2>4. next[d] \in Cost /\ closer[d] \in Cost
    BY <2>1, <2>3 DEF Vectors
  <2> QED
    BY <1>3, <2>1, <2>2, <2>4 DEF closer
<1>6. Round(near, far)
  BY <1>2, <1>5 DEF Round
<1> QED
  BY <1>1, <1>6 DEF far, near

\* Balanced costs hold over every single link, or none.
LEMMA BalancedLink ==
    ASSUME TypeOK, NEW D, Balanced(D), NEW n \in Node, NEW m \in Node, NEW d \in Node
    PROVE  /\ D[n][d] \in Cost /\ LinkCost(topology, n, m) \in Cost
           /\ D[n][d] =< COST_ADD(LinkCost(topology, n, m), D[m][d])
<1>1. D[n][d] \in Cost /\ D[m][d] \in Cost /\ LinkCost(topology, n, m) \in Cost
  BY LinkCostType DEF TypeOK, Balanced, Vectors
<1>2. CASE m = n
  <2>1. LinkCost(topology, n, m) = 0
    BY <1>2 DEF LinkCost
  <2> QED
    BY <1>1, <1>2, <2>1, SumLaws
<1>3. CASE m # n /\ m \in Neighbors(topology, n)
  BY <1>1, <1>3 DEF Balanced
<1>4. CASE m # n /\ m \notin Neighbors(topology, n)
  <2>1. LinkCost(topology, n, m) = CostInfinity
    BY <1>4 DEF Neighbors
  <2> QED
    BY <1>1, <2>1, SumLaws
<1> QED
  BY <1>1, <1>2, <1>3, <1>4

\* No path costs less than balanced costs say.
LEMMA NotCheaper ==
    ASSUME TypeOK, NEW dist, ReferenceBy(dist, FALSE), NEW D, Balanced(D)
    PROVE  \A n, d \in Node : D[n][d] =< dist[N][n][d]
<1> DEFINE Fine == {k \in 0..N : \A n, m, d \in Node :
                                     D[n][d] =< COST_ADD(dist[k][n][m], D[m][d])}
<1>1. 0 \in Fine
  <2>1. \A n, m \in Node : dist[0][n][m] = LinkCost(topology, n, m)
    BY DEF ReferenceBy
  <2>2. \A n, m, d \in Node : D[n][d] =< COST_ADD(dist[0][n][m], D[m][d])
    BY <2>1, BalancedLink
  <2> QED
    BY <2>2, SimulatorAssumption
<1>2. ASSUME NEW k \in 1..N, k - 1 \in Fine PROVE k \in Fine
  <2> DEFINE near == dist[k - 1]
             far == dist[k]
  <2>1. Round(near, far) /\ k \in 0..N
    BY ReferenceRound
  <2>2. \A n, p, d \in Node : D[n][d] =< COST_ADD(near[n][p], D[p][d])
    BY <1>2
  <2> HIDE DEF near, far
  <2>3. ASSUME NEW n \in Node, NEW m \in Node, NEW d \in Node
        PROVE  D[n][d] =< COST_ADD(far[n][m], D[m][d])
    <3>1. CASE far[n][m] = near[n][m]
      BY <2>2, <3>1
    <3>2. CASE \E p \in Node : far[n][m] = COST_ADD(near[n][p], LinkCost(topology, p, m))
      <4>1. PICK p \in Node : far[n][m] = COST_ADD(near[n][p], LinkCost(topology, p, m))
        BY <3>2
      <4> DEFINE a == near[n][p]
                 b == LinkCost(topology, p, m)
                 c == D[m][d]
                 x == D[p][d]
                 y == D[n][d]
      <4>2. a \in Cost /\ b \in Cost /\ c \in Cost /\ x \in Cost /\ y \in Cost
        BY <2>1, BalancedLink DEF Round
      <4>3. x =< COST_ADD(b, c) /\ y =< COST_ADD(a, x) /\ far[n][m] = COST_ADD(a, b)
        BY <2>2, <4>1, BalancedLink
      <4> HIDE DEF a, b, c, x, y
      <4>4. COST_ADD(b, c) \in Cost
        BY <4>2, SumLaws
      <4>5. COST_ADD(a, x) =< COST_ADD(a, COST_ADD(b, c))
        BY <4>2, <4>3, <4>4, SumLaws
      <4>6. COST_ADD(a, COST_ADD(b, c)) = COST_ADD(far[n][m], c)
        BY <4>2, <4>3, SumLaws
      <4>7. COST_ADD(a, x) \in Cost /\ COST_ADD(a, COST_ADD(b, c)) \in Cost
        BY <4>2, <4>4, SumLaws
      <4>8. y =< COST_ADD(far[n][m], c)
        BY <4>2, <4>3, <4>5, <4>6, <4>7, CostRange
      <4> QED
        BY <4>8 DEF y, c
    <3> QED
      BY <2>1, <3>1, <3>2 DEF Round
  <2> QED
    BY <2>1, <2>3 DEF far
<1>3. \A k \in 0..N : k \in Fine
  <2> HIDE DEF Fine
  <2> QED
    BY <1>1, <1>2, FromStepToStep, SimulatorAssumption
<1>4. ASSUME NEW n \in Node, NEW d \in Node PROVE D[n][d] =< dist[N][n][d]
  <2>1. N \in 0..N
    BY SimulatorAssumption
  <2>2. D[n][d] =< COST_ADD(dist[N][n][d], D[d][d])
    BY <1>3, <2>1
  <2>3. D[d][d] = 0
    BY DEF Balanced, Explained
  <2>4. dist[N][n][d] \in Cost
    <3>1. dist[N] \in [Node -> Vectors]
      BY <2>1 DEF ReferenceBy
    <3> QED
      BY <3>1 DEF Vectors
  <2> QED
    BY <2>2, <2>3, <2>4, SumLaws
<1> QED
  BY <1>4

\* Paths of the reference can also be extended by a first link.
LEMMA FirstLink ==
    ASSUME TypeOK, NEW dist, ReferenceBy(dist, FALSE)
    PROVE  \A k \in 1..N : \A n, j, d \in Node :
               dist[k][n][d] =< COST_ADD(LinkCost(topology, n, j), dist[k - 1][j][d])
<1> DEFINE Fine == {k \in 0..N : k # 0 => \A n, j, d \in Node :
                        dist[k][n][d] =< COST_ADD(LinkCost(topology, n, j), dist[k - 1][j][d])}
<1>1. 0 \in Fine
  BY SimulatorAssumption
<1>2. ASSUME NEW k \in 1..N, k - 1 \in Fine PROVE k \in Fine
  <2> DEFINE near == dist[k - 1]
             far == dist[k]
  <2>1. Round(near, far) /\ k \in 0..N
    BY ReferenceRound
  <2>2. \A m, d \in Node : LinkCost(topology, m, d) \in Cost
    BY LinkCostType DEF TypeOK
  <2>3. CASE k = 1
    <3>1. \A m, d \in Node : near[m][d] = LinkCost(topology, m, d)
      BY <2>3 DEF ReferenceBy
    <3> HIDE DEF near, far
    <3>2. \A n, j, d \in Node : far[n][d] =< COST_ADD(LinkCost(topology, n, j), near[j][d])
      BY <2>1, <3>1 DEF Round
    <3> QED
      BY <2>1, <3>2 DEF near, far
  <2>4. CASE k # 1
    <3> DEFINE first == dist[(k - 1) - 1]
    <3>1. k - 1 \in 1..N /\ k - 1 # 0
      BY <2>4, SimulatorAssumption
    <3>2. Round(first, near)
      BY <3>1, ReferenceRound
    <3>3. \A n, j, d \in Node : near[n][d] =< COST_ADD(LinkCost(topology, n, j), first[j][d])
      BY <1>2, <3>1
    <3> HIDE DEF first, near, far
    <3>4. ASSUME NEW n \in Node, NEW j \in Node, NEW d \in Node
          PROVE  far[n][d] =< COST_ADD(LinkCost(topology, n, j), near[j][d])
      <4> DEFINE c == LinkCost(topology, n, j)
      <4>1. c \in Cost /\ far[n][d] \in Cost /\ near[n][d] \in Cost /\ near[j][d] \in Cost
        BY <2>1, <2>2 DEF Round
      <4>2. CASE near[j][d] = first[j][d]
        <5>1. far[n][d] =< near[n][d] /\ near[n][d] =< COST_ADD(c, near[j][d])
          BY <2>1, <3>3, <4>2 DEF Round
        <5> HIDE DEF c
        <5>2. COST_ADD(c, near[j][d]) \in Cost
          BY <4>1, SumLaws
        <5> QED
          BY <4>1, <5>1, <5>2, CostRange DEF c
      <4>3. CASE \E m \in Node : near[j][d] = COST_ADD(first[j][m], LinkCost(topology, m, d))
        <5>1. PICK m \in Node : near[j][d] = COST_ADD(first[j][m], LinkCost(topology, m, d))
          BY <4>3
        <5> DEFINE a == first[j][m]
                   b == LinkCost(topology, m, d)
                   x == near[n][m]
                   y == far[n][d]
        <5>2. a \in Cost /\ b \in Cost /\ x \in Cost /\ y \in Cost
          BY <2>1, <2>2, <3>2 DEF Round
        <5>3. y =< COST_ADD(x, b) /\ x =< COST_ADD(c, a) /\ near[j][d] = COST_ADD(a, b)
          BY <2>1, <3>3, <5>1 DEF Round
        <5> HIDE DEF a, b, x, y, c
        <5>4. COST_ADD(c, a) \in Cost /\ COST_ADD(x, b) \in Cost
          BY <4>1, <5>2, SumLaws
        <5>5. COST_ADD(x, b) =< COST_ADD(COST_ADD(c, a), b)
          BY <5>2, <5>3, <5>4, SumLaws
        <5>6. COST_ADD(COST_ADD(c, a), b) = COST_ADD(c, COST_ADD(a, b))
              /\ COST_ADD(COST_ADD(c, a), b) \in Cost
          BY <4>1, <5>2, <5>4, SumLaws
        <5>7. y =< COST_ADD(c, COST_ADD(a, b))
          BY <5>2, <5>3, <5>4, <5>5, <5>6, CostRange
        <5> QED
          BY <5>3, <5>7 DEF c, y
      <4> QED
        BY <3>2, <4>2, <4>3 DEF Round
    <3> QED
      BY <2>1, <3>4 DEF near, far
  <2> QED
    BY <2>3, <2>4
<1>3. \A k \in 0..N : k \in Fine
  <2> HIDE DEF Fine
  <2> QED
    BY <1>1, <1>2, FromStepToStep, SimulatorAssumption
<1>4. \A k \in 1..N : k \in 0..N /\ k # 0
  BY SimulatorAssumption
<1> QED
  BY <1>3, <1>4

\* Nodes that a round of the reference brings to the cost of d by D.
Reached(dist, D, d, k) == {n \in Node : dist[k][n][d] =< D[n][d]}

\* Each round brings another node there, until all are: the nearest of the others
\* has its cost by a link to a node that is nearer still.
LEMMA RoundReaches ==
    ASSUME TypeOK, LinksCost, NEW dist, ReferenceBy(dist, FALSE),
           NEW D, NEW d \in Node, Explained(D, d), NEW k \in 1..N, d \in Reached(dist, D, d, k - 1)
    PROVE  LET old == Reached(dist, D, d, k - 1)
               new == Reached(dist, D, d, k)
           IN  /\ old \subseteq new
               /\ old # Node => \E n \in Node \ old : n \in new
<1> DEFINE near == dist[k - 1]
           far == dist[k]
           old == Reached(dist, D, d, k - 1)
           new == Reached(dist, D, d, k)
<1>1. Round(near, far)
  BY ReferenceRound
<1>2. \A n, j \in Node : far[n][d] =< COST_ADD(LinkCost(topology, n, j), near[j][d])
  BY FirstLink
<1>3. /\ \A n : n \in old <=> n \in Node /\ near[n][d] =< D[n][d]
      /\ \A n : n \in new <=> n \in Node /\ far[n][d] =< D[n][d]
  BY DEF Reached
<1> HIDE DEF near, far, old, new
<1>4. \A n \in Node : /\ D[n][d] \in Cost /\ D[n][d] \in Nat
                      /\ near[n][d] \in Cost /\ far[n][d] \in Cost
                      /\ near[n][d] \in Nat /\ far[n][d] \in Nat /\ near[n][d] =< CostInfinity
                      /\ far[n][d] =< near[n][d]
  <2>1. \A n \in Node : D[n][d] \in Cost
    BY DEF Explained, Vectors
  <2> QED
    BY <1>1, <2>1, CostRange DEF Round
<1>5. old \subseteq new
  BY <1>3, <1>4
<1>6. ASSUME old # Node PROVE \E n \in Node \ old : n \in new
  <2> DEFINE Costs == {D[m][d] : m \in Node \ old}
  <2>1. Node \ old # {}
    BY <1>3, <1>6
  <2>2. Costs \in SUBSET Nat /\ Costs # {}
    BY <1>4, <2>1
  <2>3. PICK n \in Node \ old : D[n][d] = Least(Costs)
    BY <2>2, LeastNatural
  <2>4. \A m \in Node \ old : D[n][d] =< D[m][d]
    <3>1. \A m \in Node \ old : D[m][d] \in Costs
      OBVIOUS
    <3> HIDE DEF Costs
    <3>2. \A y \in Costs : Least(Costs) =< y
      BY <2>2, LeastNatural
    <3> QED
      BY <2>3, <3>1, <3>2
  <2> HIDE DEF Costs
  <2>5. n \in Node /\ D[n][d] < near[n][d] /\ D[n][d] < CostInfinity /\ CostInfinity \in Nat
    BY <1>3, <1>4, CostRange
  <2>6. n # d
    <3>1. d \in old
      BY DEF old
    <3> QED
      BY <3>1
  <2>7. PICK j \in Neighbors(topology, n) :
            D[n][d] = COST_ADD(LinkCost(topology, n, j), D[j][d])
    BY <2>5, <2>6 DEF Explained
  <2>8. j \in Node /\ j # n
    BY DEF Neighbors
  <2> DEFINE c == LinkCost(topology, n, j)
  <2>9. c \in Cost /\ c # 0
    <3>1. c \in Cost
      BY <2>5, <2>8, LinkCostType DEF TypeOK
    <3>2. LinkOf(n, j) \in Links
      BY <2>5, <2>8, LinkOfEnds
    <3> QED
      BY <2>8, <3>1, <3>2 DEF LinksCost, LinkCost
  <2> HIDE DEF c
  <2>10. D[j][d] < D[n][d]
    BY <1>4, <2>5, <2>7, <2>8, <2>9, CostRange DEF COST_ADD, c
  <2>11. j \in old
    BY <1>4, <2>4, <2>5, <2>8, <2>10
  <2>12. far[n][d] =< COST_ADD(c, near[j][d])
    BY <1>2, <2>5, <2>8 DEF c
  <2>13. COST_ADD(c, near[j][d]) =< COST_ADD(c, D[j][d])
    BY <1>3, <1>4, <2>8, <2>9, <2>11, SumLaws
  <2>14. far[n][d] =< D[n][d]
    <3>1. COST_ADD(c, near[j][d]) \in Cost /\ COST_ADD(c, D[j][d]) \in Cost
      BY <1>4, <2>8, <2>9, SumLaws
    <3> QED
      BY <1>4, <2>5, <2>7, <2>12, <2>13, <3>1, CostRange DEF c
  <2> QED
    BY <1>3, <2>5, <2>14
<1> QED
  BY <1>5, <1>6 DEF old, new

LEMMA NotDearer ==
    ASSUME TypeOK, LinksCost, NEW dist, ReferenceBy(dist, FALSE),
           NEW D, NEW d \in Node, Explained(D, d)
    PROVE  \A n \in Node : dist[N][n][d] =< D[n][d]
<1> DEFINE at(k) == Reached(dist, D, d, k)
           Fine == {k \in 0..N : /\ d \in at(k)
                                 /\ at(k) = Node \/ Cardinality(at(k)) >= k + 1}
<1>1. \A k : at(k) \in SUBSET Node /\ IsFiniteSet(at(k)) /\ Cardinality(at(k)) \in Nat
                                   /\ Cardinality(at(k)) =< N
  <2> SUFFICES ASSUME NEW k
               PROVE  /\ at(k) \in SUBSET Node /\ IsFiniteSet(at(k))
                      /\ Cardinality(at(k)) \in Nat /\ Cardinality(at(k)) =< N
    OBVIOUS
  <2>1. at(k) \in SUBSET Node
    BY DEF Reached
  <2> HIDE DEF at
  <2> QED
    BY <2>1, FiniteNode, FS_Subset, FS_CardinalityType
<1>2. 0 \in Fine
  <2>1. dist[0][d][d] = 0 /\ D[d][d] = 0
    BY DEF ReferenceBy, Explained, LinkCost
  <2>2. d \in at(0)
    BY <2>1 DEF Reached
  <2> HIDE DEF at
  <2>3. Cardinality(at(0)) # 0
    BY <1>1, <2>2, FS_EmptySet
  <2>4. Cardinality(at(0)) >= 0 + 1
    BY <1>1, <2>3
  <2> QED
    BY <2>2, <2>4, SimulatorAssumption
<1>3. ASSUME NEW k \in 1..N, k - 1 \in Fine PROVE k \in Fine
  <2> DEFINE old == at(k - 1)
             new == at(k)
  <2>1. /\ old \subseteq new
        /\ old # Node => \E n \in Node \ old : n \in new
    BY <1>3, RoundReaches
  <2>2. d \in old /\ (old = Node \/ Cardinality(old) >= k)
    <3> HIDE DEF at
    <3> QED
      BY <1>3
  <2>3. /\ old \in SUBSET Node /\ new \in SUBSET Node /\ IsFiniteSet(old) /\ IsFiniteSet(new)
        /\ Cardinality(old) \in Nat /\ Cardinality(new) \in Nat
    BY <1>1
  <2> HIDE DEF old, new, at
  <2>4. CASE old = Node
    <3>1. new = Node /\ d \in new
      BY <2>1, <2>3, <2>4
    <3> QED
      BY <3>1, SimulatorAssumption DEF new
  <2>5. CASE old # Node
    <3>1. PICK n \in Node \ old : n \in new
      BY <2>1, <2>5
    <3>2. Cardinality(old \cup {n}) = Cardinality(old) + 1 /\ IsFiniteSet(old \cup {n})
      BY <2>3, <3>1, FS_AddElement
    <3>3. old \cup {n} \subseteq new
      BY <2>1, <3>1
    <3>4. Cardinality(old \cup {n}) =< Cardinality(new)
      BY <2>3, <3>3, FS_Subset
    <3>5. Cardinality(new) >= k + 1
      BY <2>2, <2>3, <2>5, <3>2, <3>4
    <3> QED
      BY <2>1, <2>2, <3>5, SimulatorAssumption DEF new
  <2> QED
    BY <2>4, <2>5
<1>4. N \in Fine
  <2>1. \A k \in 0..N : k \in Fine
    <3> HIDE DEF Fine
    <3> QED
      BY <1>2, <1>3, FromStepToStep, SimulatorAssumption
  <2> QED
    BY <2>1, SimulatorAssumption
<1>5. at(N) = Node
  <2> HIDE DEF at
  <2> QED
    BY <1>1, <1>4, SimulatorAssumption
<1> QED
  BY <1>5 DEF Reached

\* What a settled node's neighbour tells it is what that neighbour pays, or, with
\* reverse poisoning, nothing when it is the next hop.
LEMMA SettledOffers ==
    ASSUME TypeOK, RoutesByTable, VectorsHeard, Settled, protocol \in {"dv", "dvrpp"},
           unheard = {}, NEW n \in Node, NEW j \in Neighbors(topology, n), NEW i \in Node
    PROVE  node_states[n].cost[j][i] =
               IF protocol = "dvrpp" /\ node_states[j].next_hop[i] = n
               THEN CostInfinity ELSE node_states[j].cost[j][i]
<1>1. events = <<>> /\ later = <<>> /\ j \in Node /\ j # n
  BY DEF Settled, Neighbors
<1>2. n \in Neighbors(topology, j)
  <2>1. LinkCost(topology, j, n) = LinkCost(topology, n, j)
    BY <1>1, LinkCostType DEF TypeOK
  <2> QED
    BY <1>1, <2>1 DEF Neighbors
<1>3. Latest(events \o later, n, j, node_states[n].cost[j], Offered(node_states[j], j, n))
  <2>1. <<j, n>> \notin unheard
    OBVIOUS
  <2> QED
    BY <1>1, <1>2, <2>1 DEF VectorsHeard
<1>4. node_states[n].cost[j] = Offered(node_states[j], j, n)
  <2>1. Len(events \o later) = 0
    BY <1>1
  <2>2. \A k \in 1..Len(events \o later) : FALSE
    BY <2>1
  <2> HIDE DEF Settled
  <2> QED
    BY <1>3, <2>2 DEF Latest
<1> QED
  BY <1>4 DEF Offered, DV!Vector, RPP!Vector, DV!Node, RPP!Node, Node

\* The cheapest route costs no more than any way there, and what one of them does.
LEMMA CheapestCost ==
    ASSUME NEW D \in SUBSET Node, NEW via \in [D -> Cost]
    PROVE  /\ Cheapest(via).cost \in Cost
           /\ \A j \in D : Cheapest(via).cost =< via[j]
           /\ Cheapest(via).cost < CostInfinity =>
                  Cheapest(via).hop \in D /\ Cheapest(via).cost = via[Cheapest(via).hop]
           /\ Cheapest(via).hop # 0 => Cheapest(via).cost < CostInfinity
<1> DEFINE costs == {CostInfinity} \cup {via[j] : j \in DOMAIN via}
           min == Least(costs)
           best == {j \in DOMAIN via : via[j] = min}
<1>1. costs \in SUBSET Nat /\ costs # {}
  <2>1. \A c \in costs : c \in Cost
    BY SimulatorAssumption DEF Cost
  <2> QED
    BY <2>1, CostRange
<1>2. min \in costs /\ \A c \in costs : min =< c
  BY <1>1, LeastNatural
<1>3. \A j \in D : via[j] \in costs
  OBVIOUS
<1>4. min \in Cost /\ (\A j \in D : min =< via[j])
      /\ (min # CostInfinity => \E j \in D : via[j] = min)
  <2>1. \A c \in costs : c \in Cost /\ (c = CostInfinity \/ \E j \in D : via[j] = c)
    BY SimulatorAssumption DEF Cost
  <2> HIDE DEF costs, min
  <2> QED
    BY <1>2, <1>3, <2>1
<1>5. CASE min = CostInfinity
  <2>1. Cheapest(via) = NoRoute /\ NoRoute.cost = CostInfinity /\ NoRoute.hop = 0
    BY <1>5 DEF Cheapest, NoRoute
  <2> HIDE DEF min
  <2> QED
    BY <1>4, <1>5, <2>1, CostRange
<1>6. CASE min # CostInfinity
  <2>1. \A j : j \in best <=> j \in D /\ via[j] = min
    <3> HIDE DEF min
    <3> QED
      OBVIOUS
  <2>2. best # {} /\ best \in SUBSET Nat
    <3> HIDE DEF min, best
    <3>1. \A j \in D : j \in Nat
      BY DEF Node
    <3>2. best # {}
      <4>1. PICK j \in D : via[j] = min
        BY <1>4, <1>6
      <4> QED
        BY <2>1, <4>1
    <3> QED
      BY <2>1, <3>1, <3>2
  <2>3. Least(best) \in best
    BY <2>2, LeastNatural
  <2>4. Cheapest(via) = [hop |-> Least(best), cost |-> min]
    BY <1>6 DEF Cheapest
  <2> HIDE DEF best, min
  <2>5. Cheapest(via).hop = Least(best) /\ Cheapest(via).cost = min
    BY <2>4
  <2>6. min < CostInfinity
    BY <1>4, <1>6, CostRange
  <2> QED
    BY <1>4, <2>1, <2>3, <2>5, <2>6
<1> QED
  BY <1>5, <1>6

\* Once nothing is on its way, a node's costs are the cheapest by its table.
LEMMA SettledTable ==
    ASSUME TypeOK, RoutesByTable, Settled, protocol \in {"dv", "dvrpp"},
           NEW n \in Node, NEW i \in Node, i # n
    PROVE  LET c == node_states[n].cost[n][i]
               way(j) == COST_ADD(LinkCost(topology, n, j), node_states[n].cost[j][i])
           IN  /\ c = routes[n][i].cost /\ c \in Cost
               /\ \A j \in Neighbors(topology, n) : c =< way(j)
               /\ c < CostInfinity => /\ routes[n][i].hop \in Neighbors(topology, n)
                                      /\ c = way(routes[n][i].hop)
<1> DEFINE way(j) == COST_ADD(LinkCost(topology, n, j), node_states[n].cost[j][i])
           D == Neighbors(topology, n)
           via == [j \in D |-> way(j)]
           r == routes[n][i]
<1>1. ~HalfTold
  BY DEF Settled, HalfTold
<1>2. r = Cheapest(via)
  BY <1>1 DEF RoutesByTable
<1>3. node_states[n].cost[n][i] = r.cost
  BY DEF RoutesByTable
<1>4. D \in SUBSET Node
  BY DEF Neighbors
<1>5. \A j \in D : way(j) \in Cost
  <2> TAKE j \in D
  <2>1. node_states[n].cost \in [Node -> Vectors]
    BY DEF TypeOK, RouterState
  <2>2. j \in Node /\ node_states[n].cost[j][i] \in Cost
    BY <1>4, <2>1 DEF Vectors
  <2>3. LinkCost(topology, n, j) \in Cost
    BY <2>2, LinkCostType DEF TypeOK
  <2> QED
    BY <2>2, <2>3, SumLaws
<1> HIDE DEF D, way
<1>6. via \in [D -> Cost] /\ \A j \in D : via[j] = way(j)
  BY <1>5
<1> HIDE DEF via, r
<1>7. /\ r.cost \in Cost /\ \A j \in D : r.cost =< via[j]
      /\ r.cost < CostInfinity => r.hop \in D /\ r.cost = via[r.hop]
  BY <1>2, <1>4, <1>6, CheapestCost
<1> QED
  BY <1>3, <1>6, <1>7 DEF r, D, way

\* What a settled node knows of a neighbour's cost is that cost, unless it is the
\* neighbour's next hop and is poisoned; then it is nearer than the neighbour.
LEMMA SettledBalanced ==
    ASSUME TypeOK, RoutesByTable, VectorsHeard, NoRouteToOneself, Settled,
           protocol \in {"dv", "dvrpp"}, unheard = {}, protocol = "dvrpp" => HopsAgree
    PROVE  Balanced([n \in Node |-> node_states[n].cost[n]])
<1> DEFINE D == [n \in Node |-> node_states[n].cost[n]]
           T(n, j, i) == node_states[n].cost[j][i]
           poisoned(j, i, n) == protocol = "dvrpp" /\ node_states[j].next_hop[i] = n
<1>1. /\ D \in [Node -> Vectors]
      /\ \A n, i \in Node : D[n][i] = T(n, n, i) /\ D[n][i] \in Cost
      /\ \A n, j, i \in Node : T(n, j, i) \in Cost
  <2>1. \A n \in Node : node_states[n].cost \in [Node -> Vectors]
    BY DEF TypeOK, RouterState
  <2>2. \A n, j \in Node : node_states[n].cost[j] \in Vectors
    BY <2>1
  <2>3. D \in [Node -> Vectors] /\ \A n \in Node : D[n] = node_states[n].cost[n]
    BY <2>2
  <2> HIDE DEF D
  <2> QED
    BY <2>2, <2>3 DEF Vectors
<1>2. \A n \in Node : D[n][n] = 0
  BY <1>1 DEF RoutesByTable
<1>3. ASSUME NEW n \in Node, NEW i \in Node, i # n
      PROVE  /\ D[n][i] = routes[n][i].cost
             /\ \A j \in Neighbors(topology, n) :
                   D[n][i] =< COST_ADD(LinkCost(topology, n, j), T(n, j, i))
             /\ D[n][i] < CostInfinity =>
                   /\ routes[n][i].hop \in Neighbors(topology, n)
                   /\ D[n][i] = COST_ADD(LinkCost(topology, n, routes[n][i].hop),
                                         T(n, routes[n][i].hop, i))
  BY <1>1, <1>3, SettledTable
<1>4. \A n, i \in Node : \A j \in Neighbors(topology, n) :
          T(n, j, i) = IF poisoned(j, i, n) THEN CostInfinity ELSE D[j][i]
  <2> SUFFICES ASSUME NEW n \in Node, NEW i \in Node, NEW j \in Neighbors(topology, n)
               PROVE  T(n, j, i) = IF poisoned(j, i, n) THEN CostInfinity ELSE D[j][i]
    OBVIOUS
  <2>1. D[j][i] = node_states[j].cost[j][i]
    BY <1>1 DEF Neighbors
  <2> HIDE DEF D, Settled
  <2> QED
    BY <2>1, SettledOffers
<1>5. ASSUME NEW n \in Node, NEW i \in Node, NEW j \in Neighbors(topology, n), poisoned(j, i, n)
      PROVE  j \in Node /\ i # j /\ routes[j][i].hop = n
  <2>1. j \in Node /\ n # 0
    BY SimulatorAssumption DEF Neighbors, Node
  <2>2. routes[j][i].hop = n
    BY <1>5, <2>1 DEF HopsAgree
  <2>3. i # j
    BY <2>1, <2>2 DEF NoRouteToOneself
  <2> QED
    BY <2>1, <2>2, <2>3
<1> HIDE DEF D, T, poisoned
<1>6. \A n, j \in Node : LinkCost(topology, n, j) \in Cost
  BY LinkCostType DEF TypeOK
<1>7. ASSUME NEW n \in Node, NEW i \in Node, NEW j \in Neighbors(topology, n)
      PROVE  D[n][i] =< COST_ADD(LinkCost(topology, n, j), D[j][i])
  <2> DEFINE c == LinkCost(topology, n, j)
  <2>1. j \in Node /\ c \in Cost /\ D[n][i] \in Cost /\ D[j][i] \in Cost
    BY <1>1, <1>6 DEF Neighbors
  <2>2. CASE i = n
    <3>1. D[n][i] = 0
      BY <1>2, <2>2
    <3>2. COST_ADD(c, D[j][i]) \in Nat
      <4> HIDE DEF c
      <4> QED
        BY <2>1, SumLaws
    <3> QED
      BY <3>1, <3>2
  <2>3. CASE i # n /\ ~poisoned(j, i, n)
    <3>1. T(n, j, i) = D[j][i]
      BY <1>4, <2>3
    <3> QED
      BY <1>3, <2>3, <3>1
  <2>4. CASE i # n /\ poisoned(j, i, n)
    <3> DEFINE b == LinkCost(topology, j, n)
    <3>1. i # j /\ routes[j][i].hop = n
      BY <1>5, <2>4
    <3>2. b = c /\ b \in Cost
      <4>1. n # j
        BY DEF Neighbors
      <4> QED
        BY <2>1, <4>1, LinkCostType DEF TypeOK
    <3>3. CASE D[j][i] = CostInfinity
      <4>1. COST_ADD(c, D[j][i]) = CostInfinity
        <5> HIDE DEF c
        <5> QED
          BY <2>1, <3>3, CostRange DEF COST_ADD
      <4> QED
        BY <2>1, <4>1, CostRange
    <3>4. CASE D[j][i] # CostInfinity
      <4>1. D[j][i] < CostInfinity
        BY <2>1, <3>4, CostRange
      <4>2. n \in Neighbors(topology, j) /\ D[j][i] = COST_ADD(b, T(j, n, i))
        BY <1>3, <2>1, <3>1, <4>1
      <4>3. T(j, n, i) = CostInfinity \/ T(j, n, i) = D[n][i]
        BY <1>4, <2>1, <4>2
      <4> HIDE DEF b, c
      <4>4. T(j, n, i) # CostInfinity
        BY <3>2, <4>1, <4>2, CostRange DEF COST_ADD
      <4>5. D[n][i] =< D[j][i] /\ D[j][i] =< COST_ADD(c, D[j][i])
        BY <2>1, <3>2, <4>2, <4>3, <4>4, CostRange DEF COST_ADD
      <4>6. COST_ADD(c, D[j][i]) \in Cost
        BY <2>1, SumLaws
      <4> QED
        BY <2>1, <4>5, <4>6, CostRange DEF c
    <3> QED
      BY <3>3, <3>4
  <2> QED
    BY <2>2, <2>3, <2>4
<1>8. ASSUME NEW n \in Node, NEW i \in Node, i # n, D[n][i] < CostInfinity
      PROVE  \E j \in Neighbors(topology, n) :
                 D[n][i] = COST_ADD(LinkCost(topology, n, j), D[j][i])
  <2> DEFINE j == routes[n][i].hop
             c == LinkCost(topology, n, j)
  <2>1. j \in Neighbors(topology, n) /\ D[n][i] = COST_ADD(c, T(n, j, i))
    BY <1>3, <1>8
  <2>2. j \in Node /\ c \in Cost
    BY <1>6, <2>1 DEF Neighbors
  <2>3. T(n, j, i) = CostInfinity \/ T(n, j, i) = D[j][i]
    BY <1>4, <2>1
  <2>4. T(n, j, i) # CostInfinity
    <3> HIDE DEF c, j
    <3> QED
      BY <1>8, <2>1, <2>2, CostRange DEF COST_ADD
  <2> HIDE DEF j
  <2> QED
    BY <2>1, <2>3, <2>4
<1> QED
  BY <1>1, <1>2, <1>7, <1>8 DEF Balanced, Explained, D

-----------------------------------------------------------------------------
(* What path vectors settle on. *)

\* The cheapest ways from n to i by the tables s of costs and paths, over the
\* links of top: those of the neighbours whose paths do not come by n.
PathVia(top, s, n, i) ==
    [j \in {m \in Neighbors(top, n) : ~PV!inPath(s, n, m, i)} |->
        COST_ADD(LinkCost(top, n, j), s.cost[j][i])]

\* A path vector router's routes are the cheapest by its table, unless it is told
\* next of a link or passed over the destination; its own costs are those of them.
RouteByPaths(top, s, r, n, i) ==
    \/ PV!LastNode \in Neighbors(top, n) /\ PV!inPath(s, n, PV!LastNode, i)
    \/ r[i] = Cheapest(PathVia(top, s, n, i))

OwnCosts(s, r, n) == \A i \in Node : s.cost[n][i] = IF i = n THEN 0 ELSE r[i].cost

PathsByTable ==
    protocol = "pv" =>
        \A n \in Node :
            /\ \/ HalfTold /\ event.node = n
               \/ \A i \in Node \ {n} :
                     RouteByPaths(topology, node_states[n], routes[n], n, i)
            /\ OwnCosts(node_states[n], routes[n], n)

\* Each end of a link has, or is being told of, the other's costs, with some paths,
\* unless the other has told nothing since the link came up.
PathsHeard ==
    protocol = "pv" =>
        \A c \in Node : \A n \in Neighbors(topology, c) :
            \/ <<c, n>> \in unheard
            \/ \E p \in [Node -> Paths] :
                  Latest(events \o later, n, c,
                         [data |-> node_states[n].cost[c], path |-> node_states[n].paths[c]],
                         [data |-> node_states[c].cost[c], path |-> p])

\* What the event leaves in the table, and the routes it makes of it.
LEMMA TableOfPaths ==
    ASSUME TypeOK, EventsInOrder, NoRouteToOneself, protocol = "pv", events # <<>>,
           OwnCosts(node_states[event.node], routes[event.node], event.node)
    PROVE  LET n == event.node
           IN  /\ \A i \in Node \ {n} : RouteByPaths(Topology, PathTable, PathsSet, n, i)
               /\ OwnCosts(PathTable, PathsSet, n)
               /\ \A j \in Node \ {n} :
                     IF event \in Messages /\ j = event.neighbor
                     THEN /\ PathTable.cost[j] = event.content.data
                          /\ PathTable.paths[j] = event.content.path
                     ELSE /\ PathTable.cost[j] = node_states[n].cost[j]
                          /\ PathTable.paths[j] = node_states[n].paths[j]
               /\ PathsTold = {} /\ Near(n) # {} =>
                     PathTable.cost[n] = node_states[n].cost[n]
<1> DEFINE n == event.node
           b == event.neighbor
           old == node_states[n]
           s0 == PV!Received
           row == [i \in Node |-> IF i \in DOMAIN PathsFound THEN PathsFound[i].cost
                                  ELSE s0.cost[n][i]]
<1>1. /\ event \in LinkEvents \cup Messages /\ n \in Node /\ b \in Node /\ n # b
      /\ s0 \in PathState /\ PathTable \in PathState /\ old \in PathState
      /\ DOMAIN PathsFound \in SUBSET Node /\ n \notin DOMAIN PathsFound
      /\ \A m \in Node : m # n => PathTable.paths[m] = s0.paths[m]
      /\ \A d \in Node \ DOMAIN PathsFound :
            d = n \/ (PV!LastNode \in Near(n) /\ PV!inPath(PathTable, n, PV!LastNode, d))
  BY PathTypes DEF TypeOK
<1>2. s0 = IF event.type = "message"
           THEN [old EXCEPT !.cost[b] = event.content.data, !.paths[b] = event.content.path]
           ELSE old
  BY Zenon DEF PV!Received, PV!event, event
<1>3. /\ s0.cost \in [Node -> Vectors] /\ PathTable.cost \in [Node -> Vectors]
      /\ old.cost \in [Node -> Vectors] /\ old.paths \in [Node -> [Node -> Paths]]
      /\ old = [cost |-> old.cost, next_hop |-> old.next_hop, paths |-> old.paths]
  BY <1>1, PathFields
<1>4. event.type = "message" <=> event \in Messages
  BY <1>1, EventKinds
<1>5. \A j \in Node :
          IF event \in Messages /\ j = b
          THEN s0.cost[j] = event.content.data /\ s0.paths[j] = event.content.path
          ELSE s0.cost[j] = old.cost[j] /\ s0.paths[j] = old.paths[j]
  <2> HIDE DEF s0
  <2>1. CASE event.type = "message"
    <3>1. s0.cost = [old.cost EXCEPT ![b] = event.content.data]
          /\ s0.paths = [old.paths EXCEPT ![b] = event.content.path]
      <4> HIDE DEF old
      <4> QED
        BY <1>2, <1>3, <2>1
    <3> HIDE DEF old
    <3> QED
      BY <1>1, <1>3, <1>4, <2>1, <3>1
  <2>2. CASE event.type # "message"
    BY <1>2, <1>4, <2>2
  <2> QED
    BY <2>1, <2>2
<1>6. PathTable.cost = [s0.cost EXCEPT ![n] = row]
  BY Zenon DEF PathTable, PV!Updated, PV!Node, Node
<1> HIDE DEF s0
<1>7. PathTable.cost[n] = row /\ \A j \in Node \ {n} : PathTable.cost[j] = s0.cost[j]
  <2> HIDE DEF row
  <2> QED
    BY <1>1, <1>3, <1>6
<1>8. s0.cost[n] = old.cost[n]
  BY <1>1, <1>5
<1>9. PathsFound = [i \in {d \in Node \ {n} : ~PV!Skipped(s0, n, d)} |->
                       Cheapest(PathVia(Topology, s0, n, i))]
  BY Zenon DEF PathsFound, PathVia, PV!bellmond_ford, PV!Node, Node, PV!NoRoute, NoRoute,
       PV!Cheapest, Cheapest, PV!Least, Least, PV!COST_ADD, COST_ADD, PV!Neighbors, Neighbors,
       PV!LinkCost, LinkCost, PV!LinkOf, LinkOf, PV!Topology, Topology, PV!event, event, s0
<1>10. ASSUME NEW i \in Node \ {n} PROVE RouteByPaths(Topology, PathTable, PathsSet, n, i)
  <2>1. CASE i \in DOMAIN PathsFound
    <3>1. PathsSet[i] = Cheapest(PathVia(Topology, s0, n, i))
      BY <1>9, <2>1 DEF PathsSet
    <3>2. \A j \in Neighbors(Topology, n) :
              /\ PathTable.cost[j] = s0.cost[j] /\ PathTable.paths[j] = s0.paths[j]
      BY <1>1, <1>7 DEF Neighbors
    <3>3. \A j \in Neighbors(Topology, n) :
              PV!inPath(PathTable, n, j, i) <=> PV!inPath(s0, n, j, i)
      BY <3>2, Zenon DEF PV!inPath
    <3>4. {m \in Neighbors(Topology, n) : ~PV!inPath(PathTable, n, m, i)}
          = {m \in Neighbors(Topology, n) : ~PV!inPath(s0, n, m, i)}
      BY <3>3, Zenon
    <3>5. \A j \in Neighbors(Topology, n) :
              COST_ADD(LinkCost(Topology, n, j), PathTable.cost[j][i])
              = COST_ADD(LinkCost(Topology, n, j), s0.cost[j][i])
      BY <3>2, Zenon
    <3>6. PathVia(Topology, PathTable, n, i) = PathVia(Topology, s0, n, i)
      BY <3>4, <3>5, Zenon DEF PathVia
    <3> QED
      BY <3>1, <3>6 DEF RouteByPaths
  <2>2. CASE i \notin DOMAIN PathsFound
    BY <1>1, <2>2 DEF RouteByPaths, Near
  <2> QED
    BY <2>1, <2>2
<1>11. ASSUME NEW i \in Node
       PROVE  PathTable.cost[n][i] = IF i = n THEN 0 ELSE PathsSet[i].cost
  <2>1. PathTable.cost[n][i] = IF i \in DOMAIN PathsFound THEN PathsFound[i].cost
                               ELSE old.cost[n][i]
    <3>1. row[i] = IF i \in DOMAIN PathsFound THEN PathsFound[i].cost ELSE s0.cost[n][i]
      OBVIOUS
    <3> QED
      BY <1>7, <1>8, <3>1
  <2>2. old.cost[n][i] = IF i = n THEN 0 ELSE routes[n][i].cost
    BY DEF OwnCosts
  <2>3. PathsSet[i] = IF i \in DOMAIN PathsFound THEN PathsFound[i] ELSE routes[n][i]
    BY DEF PathsSet
  <2> HIDE DEF old, row
  <2> QED
    BY <1>1, <2>1, <2>2, <2>3
<1>12. ASSUME PathsTold = {}, Near(n) # {} PROVE PathTable.cost[n] = old.cost[n]
  <2>1. PV!Changed(s0, n, PathsFound) = {}
    BY <1>12 DEF PathsTold, s0
  <2>2. \A i \in DOMAIN PathsFound : PathsFound[i].cost = s0.cost[n][i]
    BY <2>1 DEF PV!Changed
  <2>3. \A i \in Node : row[i] = old.cost[n][i]
    BY <1>8, <2>2
  <2>4. PathTable.cost[n] \in [Node -> Cost] /\ old.cost[n] \in [Node -> Cost]
    BY <1>1, <1>3 DEF Vectors
  <2> HIDE DEF row, old
  <2> QED
    BY <1>7, <2>3, <2>4
<1>13. OwnCosts(PathTable, PathsSet, n)
  BY <1>11 DEF OwnCosts
<1> QED
  BY <1>1, <1>5, <1>7, <1>10, <1>12, <1>13

\* After a step these invariants are about the state after it.
LEMMA PathsTablePrime ==
    PathsByTable' <=>
        (protocol' = "pv" =>
            \A n \in Node :
                /\ \/ HalfTold' /\ event'.node = n
                   \/ \A i \in Node \ {n} :
                         RouteByPaths(topology', node_states'[n], routes'[n], n, i)
                /\ OwnCosts(node_states'[n], routes'[n], n))
BY Zenon DEF PathsByTable, RouteByPaths, PathVia, OwnCosts, Cheapest, Least, NoRoute, COST_ADD,
             Neighbors, LinkCost, LinkOf, Node, PV!LastNode, PV!inPath, PV!Node

LEMMA PathsHeardPrime ==
    PathsHeard' <=>
        (protocol' = "pv" =>
            \A c \in Node : \A n \in Neighbors(topology', c) :
                \/ <<c, n>> \in unheard'
                \/ \E p \in [Node -> Paths] :
                      Latest(events' \o later', n, c,
                             [data |-> node_states'[n].cost[c], path |-> node_states'[n].paths[c]],
                             [data |-> node_states'[c].cost[c], path |-> p]))
BY Zenon DEF PathsHeard, Latest, Tells, Paths, Neighbors, LinkCost, LinkOf, Node

\* What an event does to the node it is for, and to others.
LEMMA PathEffect ==
    ASSUME SimInv, PV!update, protocol = "pv"
    PROVE  /\ TypeOK /\ EventsInOrder /\ NoRouteToOneself /\ events # <<>>
           /\ topology' = Topology /\ events' = Tail(events)
           /\ node_states'[event.node] = PathTable /\ routes'[event.node] = PathsSet
           /\ \A n \in Node \ {event.node} :
                 node_states'[n] = node_states[n] /\ routes'[n] = routes[n]
           /\ \A n : Neighbors(topology', n) = Near(n)
<1>1. /\ TypeOK /\ EventsInOrder /\ NoRouteToOneself
  BY DEF SimInv
<1>2. events # <<>> /\ Process(PathTable, PathsSet, MessagesTo(PathsTold, PathsSent))
  BY PathProcess
<1>3. event.node \in Node
  BY <1>1, <1>2, PathTypes
<1> QED
  BY <1>1, <1>2, <1>3 DEF Process, TypeOK, Near

LEMMA PathsTableStep ==
    ASSUME SimInv, PathsByTable, UNCHANGED protocol, protocol = "pv", PV!update
    PROVE  PathsByTable'
<1> DEFINE e == event.node
           ByTable(n) == \A i \in Node \ {n} :
                             RouteByPaths(topology', node_states'[n], routes'[n], n, i)
           Own(n) == OwnCosts(node_states'[n], routes'[n], n)
<1>1. /\ TypeOK /\ EventsInOrder /\ NoRouteToOneself /\ events # <<>>
      /\ topology' = Topology /\ events' = Tail(events)
      /\ node_states'[e] = PathTable /\ routes'[e] = PathsSet
      /\ \A n \in Node \ {e} : node_states'[n] = node_states[n] /\ routes'[n] = routes[n]
      /\ \A n : Neighbors(topology', n) = Near(n)
  BY PathEffect
<1>2. event \in LinkEvents \cup Messages /\ e \in Node
  BY <1>1, PathTypes
<1>3. OwnCosts(node_states[e], routes[e], e)
  BY <1>2 DEF PathsByTable
<1>4. ByTable(e) /\ Own(e)
  <2>1. \A i \in Node \ {e} : RouteByPaths(Topology, PathTable, PathsSet, e, i)
    BY <1>1, <1>3, TableOfPaths
  <2>2. OwnCosts(PathTable, PathsSet, e)
    BY <1>1, <1>3, TableOfPaths
  <2> QED
    BY <1>1, <2>1, <2>2
<1>5. ASSUME NEW n \in Node, n # e
      PROVE  Own(n) /\ (ByTable(n) \/ (HalfTold' /\ event'.node = n))
  <2>1. node_states'[n] = node_states[n] /\ routes'[n] = routes[n]
    BY <1>1, <1>5
  <2>2. Own(n)
    BY <2>1 DEF PathsByTable
  <2>3. CASE Topology = topology \/ n # event.neighbor
    <3>1. /\ Near(n) = Neighbors(topology, n)
          /\ \A j \in Node : LinkCost(Topology, n, j) = LinkCost(topology, n, j)
      BY <1>1, <1>2, <1>5, <2>3, NextTopology, NearOthers
    <3>2. \A i \in Node \ {n} : RouteByPaths(topology, node_states[n], routes[n], n, i)
      BY <1>1, <1>5 DEF PathsByTable
    <3>3. Neighbors(Topology, n) = Neighbors(topology, n)
      BY <3>1 DEF Near
    <3>4. ASSUME NEW i
          PROVE  PathVia(Topology, node_states[n], n, i) = PathVia(topology, node_states[n], n, i)
      <4> DEFINE D == {m \in Neighbors(topology, n) : ~PV!inPath(node_states[n], n, m, i)}
      <4>1. \A j \in D : LinkCost(Topology, n, j) = LinkCost(topology, n, j)
        BY <3>1 DEF Neighbors
      <4>2. PathVia(Topology, node_states[n], n, i) =
                [j \in D |-> COST_ADD(LinkCost(Topology, n, j), node_states[n].cost[j][i])]
        BY <3>3, Zenon DEF PathVia
      <4>3. PathVia(topology, node_states[n], n, i) =
                [j \in D |-> COST_ADD(LinkCost(topology, n, j), node_states[n].cost[j][i])]
        BY Zenon DEF PathVia
      <4> QED
        BY <4>1, <4>2, <4>3, Zenon
    <3>5. ASSUME NEW i \in Node \ {n}
          PROVE  RouteByPaths(Topology, node_states[n], routes[n], n, i)
      BY <3>2, <3>3, <3>4, Zenon DEF RouteByPaths
    <3>6. ByTable(n)
      BY <1>1, <2>1, <3>5
    <3> QED
      BY <2>2, <3>6
  <2>4. CASE Topology # topology /\ n = event.neighbor
    <3>1. HalfTold' /\ Head(events').node = event.neighbor
      BY <1>1, <2>4, NextEvents
    <3> QED
      BY <2>2, <2>4, <3>1 DEF event
  <2> QED
    BY <2>3, <2>4
<1> HIDE DEF ByTable, Own
<1>6. \A n \in Node : Own(n) /\ (ByTable(n) \/ (HalfTold' /\ event'.node = n))
  BY <1>4, <1>5
<1> QED
  BY <1>6, PathsTablePrime, Zenon DEF ByTable, Own

\* A message is sent to each node told, and to nobody else, of the node's costs.
LEMMA PathsSentOnly ==
    ASSUME TypeOK, EventsInOrder, NoRouteToOneself, protocol = "pv", events # <<>>
    PROVE  LET ms == MessagesTo(PathsTold, PathsSent)
           IN  /\ ms \in Seq(Messages)
               /\ \A k \in 1..Len(ms) : \A n, c :
                     Tells(ms[k], n, c) =>
                         c = event.node /\ n \in PathsTold /\ ms[k].content = PathsSent[n]
               /\ \A n \in PathsTold : \E k \in 1..Len(ms) : Tells(ms[k], n, event.node)
<1> DEFINE Sent == {Message(m, PathsSent[m]) : m \in PathsTold}
           ms == MessagesTo(PathsTold, PathsSent)
<1>1. PathsTold \in SUBSET Node /\ \A m \in PathsTold : Message(m, PathsSent[m]) \in Messages
  BY PathTypes
<1>2. \A m \in PathsTold : Message(m, PathsSent[m]) \in Sent
  OBVIOUS
<1>3. \A x \in Sent : \E m \in PathsTold : x = Message(m, PathsSent[m])
  OBVIOUS
<1> HIDE DEF Sent
<1>4. /\ ms \in Seq(Sent)
      /\ \A m \in PathsTold : \E k \in 1..Len(ms) : ms[k] = Message(m, PathsSent[m])
  BY <1>1, <1>2, MessagesToTold
<1>5. ms \in Seq(Messages)
  BY <1>1, MessagesToTold
<1> HIDE DEF ms
<1>6. \A k \in 1..Len(ms) : \E m \in PathsTold : ms[k] = Message(m, PathsSent[m])
  BY <1>3, <1>4
<1>7. ASSUME NEW k \in 1..Len(ms), NEW n, NEW c, Tells(ms[k], n, c)
      PROVE  c = event.node /\ n \in PathsTold /\ ms[k].content = PathsSent[n]
  <2>1. PICK m \in PathsTold : ms[k] = Message(m, PathsSent[m])
    BY <1>6
  <2>2. m = n /\ c = event.node
    BY <1>7, <2>1 DEF Tells, Message
  <2> QED
    BY <2>1, <2>2 DEF Message
<1>8. ASSUME NEW n \in PathsTold PROVE \E k \in 1..Len(ms) : Tells(ms[k], n, event.node)
  <2>1. PICK k \in 1..Len(ms) : ms[k] = Message(n, PathsSent[n])
    BY <1>4
  <2>2. Tells(ms[k], n, event.node)
    BY <2>1 DEF Tells, Message
  <2> QED
    BY <2>2
<1> QED
  BY <1>5, <1>7, <1>8 DEF ms

LEMMA PathsHeardStep ==
    ASSUME SimInv, PathsByTable, PathsHeard, UNCHANGED protocol, protocol = "pv", PV!update
    PROVE  PathsHeard'
<1> DEFINE a == event.node
           b == event.neighbor
           ms == MessagesTo(PathsTold, PathsSent)
           All == LinkEvents \cup Messages
           has(s, c) == [data |-> s.cost[c], path |-> s.paths[c]]
           is(s, c, p) == [data |-> s.cost[c], path |-> p]
           Hears(c, n) == \E p \in [Node -> Paths] :
                              Latest(events' \o later', n, c, has(node_states'[n], c),
                                     is(node_states'[c], c, p))
<1>1. /\ TypeOK /\ EventsInOrder /\ NoRouteToOneself /\ events # <<>>
      /\ topology' = Topology
      /\ node_states'[a] = PathTable
      /\ \A n \in Node \ {a} : node_states'[n] = node_states[n]
      /\ \A n : Neighbors(topology', n) = Near(n)
  BY PathEffect
<1>2. /\ event \in All /\ a \in Node /\ b \in Node /\ a # b
      /\ PathsTold \in SUBSET Near(a) /\ PathTable \in PathState
  BY <1>1, PathTypes
<1>3. /\ ms \in Seq(All)
      /\ \A k \in 1..Len(ms) : \A n, c :
            Tells(ms[k], n, c) => c = a /\ n \in PathsTold /\ ms[k].content = PathsSent[n]
      /\ \A n \in PathsTold : \E k \in 1..Len(ms) : Tells(ms[k], n, a)
  <2>1. ms \in Seq(Messages)
    BY <1>1, PathsSentOnly
  <2> HIDE DEF ms
  <2>2. ms \in Seq(All)
    BY <2>1
  <2> QED
    BY <1>1, <2>2, PathsSentOnly DEF ms
<1>4. /\ events' = Tail(events) /\ later' = later \o ms
      /\ events \in Seq(All) /\ later \in Seq(All)
      /\ unheard' = (unheard \cup PV!CameUp) \ ({a} \X PathsTold)
  <2>1. later \in Seq(Messages) /\ events \in Seq(All)
    BY <1>1 DEF TypeOK
  <2>2. later \in Seq(All)
    BY <2>1
  <2> QED
    BY <2>1, <2>2, PathProcess DEF Process
<1>5. OwnCosts(node_states[a], routes[a], a)
  BY <1>2 DEF PathsByTable
<1>6. /\ \A j \in Node \ {a} :
            IF event \in Messages /\ j = b
            THEN has(PathTable, j) = [data |-> event.content.data, path |-> event.content.path]
            ELSE has(PathTable, j) = has(node_states[a], j)
      /\ PathsTold = {} /\ Near(a) # {} => PathTable.cost[a] = node_states[a].cost[a]
  <2>1. \A j \in Node \ {a} :
            IF event \in Messages /\ j = b
            THEN PathTable.cost[j] = event.content.data /\ PathTable.paths[j] = event.content.path
            ELSE /\ PathTable.cost[j] = node_states[a].cost[j]
                 /\ PathTable.paths[j] = node_states[a].paths[j]
    BY <1>1, <1>5, TableOfPaths
  <2>2. PathsTold = {} /\ Near(a) # {} => PathTable.cost[a] = node_states[a].cost[a]
    BY <1>1, <1>5, TableOfPaths
  <2> QED
    BY <2>1, <2>2
<1>7. event \in Messages =>
          event.content = [data |-> event.content.data, path |-> event.content.path]
  <2>1. event \in Messages => event.content \in Content
    BY EventKinds
  <2>2. Content = [data : Vectors, path : [Node -> Paths]]
    BY DEF Content
  <2> QED
    BY <2>1, <2>2
<1>8. \A n, c : Tells(event, n, c) <=> event \in Messages /\ a = n /\ b = c
  BY <1>2, EventKinds DEF Tells
<1> HIDE DEF ms, All
<1>9. ASSUME NEW n \in PathsTold PROVE Hears(a, n)
  <2>1. \E k \in 1..Len(ms) : Tells(ms[k], n, a)
    BY <1>3
  <2>2. \A k \in 1..Len(ms) : Tells(ms[k], n, a) => ms[k].content = PathsSent[n]
    BY <1>3
  <2>3. PathsSent[n] = is(node_states'[a], a, PathTable.paths[a])
    BY <1>1 DEF PathsSent
  <2>4. PathTable.paths[a] \in [Node -> Paths]
    BY <1>2, PathFields
  <2>5. Latest(events' \o later', n, a, has(node_states'[n], a), PathsSent[n])
    BY <1>1, <1>4, <1>3, <2>1, <2>2, LatestSent
  <2> QED
    BY <2>3, <2>4, <2>5
<1>10. ASSUME NEW c \in Node, NEW n \in Node, n # c, ~(c = a /\ n \in PathsTold),
              c = a => n \in Near(a), NEW p \in [Node -> Paths],
              Latest(events \o later, n, c, has(node_states[n], c), is(node_states[c], c, p))
       PROVE  Hears(c, n)
  <2>1. \A k \in 1..Len(ms) : ~Tells(ms[k], n, c)
    BY <1>3, <1>10
  <2>2. is(node_states'[c], c, p) = is(node_states[c], c, p)
    <3>1. CASE c = a
      <4>1. PathsTold = {} /\ Near(a) # {}
        BY <1>10, <3>1 DEF PathsTold
      <4> QED
        BY <1>1, <1>6, <3>1, <4>1
    <3>2. CASE c # a
      BY <1>1, <3>2
    <3> QED
      BY <3>1, <3>2
  <2>3. has(node_states'[n], c) = IF Tells(event, n, c) THEN event.content
                                  ELSE has(node_states[n], c)
    <3> HIDE DEF has
    <3>1. CASE n = a
      BY <1>1, <1>6, <1>7, <1>8, <1>10, <3>1
    <3>2. CASE n # a
      BY <1>1, <1>8, <3>2
    <3> QED
      BY <3>1, <3>2
  <2>4. event = Head(events)
    BY DEF event
  <2> HIDE DEF has, is
  <2>5. Latest(events' \o later', n, c, has(node_states'[n], c), is(node_states[c], c, p))
    BY <1>1, <1>3, <1>4, <1>10, <2>1, <2>3, <2>4, LatestKept
  <2> QED
    BY <2>2, <2>5
<1>11. ASSUME NEW c \in Node, NEW n \in Near(c)
       PROVE  <<c, n>> \in unheard' \/ Hears(c, n)
  <2>1. n \in Node /\ n # c /\ LinkCost(Topology, c, n) # CostInfinity
    BY DEF Near, Neighbors
  <2>2. CASE c = a /\ n \in PathsTold
    BY <1>9, <2>2
  <2>3. CASE ~(c = a /\ n \in PathsTold) /\ n \notin Neighbors(topology, c)
    <3>1. LinkCost(topology, c, n) = CostInfinity
      BY <2>1, <2>3 DEF Neighbors
    <3>2. event \in LinkEvents /\ ((c = a /\ n = b) \/ (c = b /\ n = a))
      BY <1>1, <1>2, <2>1, <3>1, NextTopology DEF All
    <3>3. LinkCost(topology, a, b) = CostInfinity /\ LinkCost(Topology, a, b) # CostInfinity
      <4>1. topology \in [Links -> Cost] /\ Topology \in [Links -> Cost]
        BY <1>1, <1>2, NextTopology DEF TypeOK, All
      <4>2. LinkCost(topology, a, b) = LinkCost(topology, b, a)
        BY <1>2, <4>1, LinkCostType
      <4>3. LinkCost(Topology, a, b) = LinkCost(Topology, b, a)
        BY <1>2, <4>1, LinkCostType
      <4> QED
        BY <2>1, <3>1, <3>2, <4>2, <4>3
    <3>4. event.type = "link"
      BY <3>2, EventKinds
    <3>5. PV!CameUp = {<<a, b>>, <<b, a>>}
      <4>1. PV!CameUp = IF event.type = "link" /\ LinkCost(topology, a, b) = CostInfinity
                                               /\ LinkCost(Topology, a, b) # CostInfinity
                        THEN {<<a, b>>, <<b, a>>} ELSE {}
        BY Zenon DEF PV!CameUp, PV!event, event, PV!LinkCost, LinkCost, PV!LinkOf, LinkOf,
                     PV!Topology, Topology
      <4> QED
        BY <3>3, <3>4, <4>1
    <3>6. <<c, n>> \in PV!CameUp
      BY <3>2, <3>5
    <3>7. <<c, n>> \notin {a} \X PathsTold
      BY <2>3
    <3> QED
      BY <1>4, <3>6, <3>7
  <2>4. CASE ~(c = a /\ n \in PathsTold) /\ n \in Neighbors(topology, c)
    <3>1. \/ <<c, n>> \in unheard
          \/ \E p \in [Node -> Paths] :
                Latest(events \o later, n, c, has(node_states[n], c), is(node_states[c], c, p))
      BY <1>1, <2>4 DEF PathsHeard
    <3>2. CASE <<c, n>> \in unheard
      <4>1. <<c, n>> \notin {a} \X PathsTold
        BY <2>4
      <4> QED
        BY <1>4, <3>2, <4>1
    <3>3. CASE \E p \in [Node -> Paths] :
                  Latest(events \o later, n, c, has(node_states[n], c), is(node_states[c], c, p))
      <4> HIDE DEF Hears, has, is
      <4> QED
        BY <1>10, <2>1, <2>4, <3>3
    <3> QED
      BY <3>1, <3>2, <3>3
  <2> QED
    BY <2>2, <2>3, <2>4
<1> HIDE DEF Hears
<1>12. \A c \in Node : \A n \in Neighbors(topology', c) : <<c, n>> \in unheard' \/ Hears(c, n)
  BY <1>1, <1>11
<1> QED
  BY <1>12, PathsHeardPrime, Zenon DEF Hears

LEMMA PathsInit ==
    ASSUME Init
    PROVE  PathsByTable /\ PathsHeard
<1> SUFFICES ASSUME protocol = "pv" PROVE PathsByTable /\ PathsHeard
  BY DEF PathsByTable, PathsHeard
<1>1. SimInit(PV!init_state)
  BY DEF Init
<1>2. /\ topology = [l \in Links |-> CostInfinity] /\ node_states = PV!init_state
      /\ routes = [n \in Node |-> [d \in Node |-> NoRoute]]
  BY <1>1 DEF SimInit
<1>3. \A n \in Node : Neighbors(topology, n) = {}
  <2>1. \A n, m \in Node : m # n => LinkCost(topology, n, m) = CostInfinity
    BY <1>2, LinkOfEnds DEF LinkCost
  <2> QED
    BY <2>1 DEF Neighbors
<1>4. PathsHeard
  BY <1>3 DEF PathsHeard
<1>5. ASSUME NEW n \in Node, NEW i \in Node
      PROVE  /\ RouteByPaths(topology, node_states[n], routes[n], n, i)
             /\ node_states[n].cost[n][i] = IF i = n THEN 0 ELSE routes[n][i].cost
  <2> DEFINE via == PathVia(topology, node_states[n], n, i)
  <2>1. routes[n][i] = NoRoute
    BY <1>2
  <2>2. DOMAIN via = {}
    BY <1>3 DEF PathVia
  <2> HIDE DEF via
  <2>3. {CostInfinity} \cup {via[j] : j \in DOMAIN via} = {CostInfinity}
    BY <2>2
  <2>4. {CostInfinity} \in SUBSET Nat
    BY SimulatorAssumption
  <2>5. Least({CostInfinity}) = CostInfinity
    BY <2>4, LeastNatural
  <2>6. Cheapest(via) = NoRoute
    BY <2>3, <2>5 DEF Cheapest
  <2>7. node_states[n].cost[n][i] = IF n = i THEN 0 ELSE CostInfinity
    BY <1>2 DEF PV!init_state, PV!Node, Node
  <2>8. RouteByPaths(topology, node_states[n], routes[n], n, i)
    BY <2>1, <2>6, Zenon DEF via, RouteByPaths
  <2> QED
    BY <2>1, <2>7, <2>8 DEF NoRoute
<1>6. PathsByTable
  BY <1>5, Zenon DEF PathsByTable, OwnCosts
<1> QED
  BY <1>4, <1>6

\* Nothing of this changes when only running does, or the time.
LEMMA PathsTableKept ==
    ASSUME PathsByTable, UNCHANGED <<topology, node_states, routes, protocol>>,
           HalfTold => HalfTold' /\ event' = event
    PROVE  PathsByTable'
<1> DEFINE ByTable(top, ns, r, n) == \A i \in Node \ {n} : RouteByPaths(top, ns[n], r[n], n, i)
           Own(ns, r, n) == OwnCosts(ns[n], r[n], n)
<1>1. protocol = "pv" =>
          \A n \in Node : /\ (HalfTold /\ event.node = n) \/ ByTable(topology, node_states, routes, n)
                          /\ Own(node_states, routes, n)
  BY Zenon DEF PathsByTable
<1>2. PathsByTable' <=>
          (protocol' = "pv" =>
              \A n \in Node :
                  /\ \/ HalfTold' /\ event'.node = n
                     \/ ByTable(topology', node_states', routes', n)
                  /\ Own(node_states', routes', n))
  BY PathsTablePrime, Zenon
<1> HIDE DEF ByTable, Own
<1> QED
  BY <1>1, <1>2

LEMMA PathsTime ==
    ASSUME SimInv, PathsByTable, PathsHeard, NextTime \/ LinkChanges,
           UNCHANGED <<protocol, unheard>>
    PROVE  PathsByTable' /\ PathsHeard'
<1>1. TypeOK /\ events = <<>> /\ UNCHANGED <<topology, node_states, routes>>
  BY DEF SimInv, NextTime, LinkChanges
<1>2. ~HalfTold
  BY <1>1 DEF HalfTold
<1>3. PathsByTable'
  BY <1>1, <1>2, PathsTableKept
<1>4. \A n, c, x, v :
          Latest(events \o later, n, c, x, v) => Latest(events' \o later', n, c, x, v)
  BY <1>1, LatestInTime
<1>5. PathsHeard'
  BY <1>1, <1>4, PathsHeardPrime, Zenon DEF PathsHeard
<1> QED
  BY <1>3, <1>5

LEMMA PathsStay ==
    ASSUME PathsByTable, PathsHeard,
           UNCHANGED <<topology, events, later, node_states, routes, protocol, unheard>>
    PROVE  PathsByTable' /\ PathsHeard'
<1>1. HalfTold' <=> HalfTold
  BY DEF HalfTold, event, LinkEvents, Links, LinkOf, Cost, Node
<1>2. event' = event
  BY DEF event
<1>3. PathsByTable'
  BY <1>1, <1>2, PathsTableKept
<1>4. PathsHeard'
  BY PathsHeardPrime, Zenon DEF PathsHeard
<1> QED
  BY <1>3, <1>4

LEMMA PathsInv == Spec => [](PathsByTable /\ PathsHeard)
<1>1. Init => PathsByTable /\ PathsHeard
  BY PathsInit
<1>2. IndInv /\ PathsByTable /\ PathsHeard /\ [Next]_vars => PathsByTable' /\ PathsHeard'
  <2> SUFFICES ASSUME IndInv, PathsByTable, PathsHeard, [Next]_vars
               PROVE  PathsByTable' /\ PathsHeard'
    OBVIOUS
  <2>1. SimInv
    BY DEF SimInv, IndInv
  <2>2. CASE protocol # "pv" /\ UNCHANGED protocol
    BY <2>2 DEF PathsByTable, PathsHeard
  <2>3. CASE protocol = "pv" /\ PV!update /\ UNCHANGED protocol
    BY <2>1, <2>3, PathsTableStep, PathsHeardStep
  <2>4. CASE (NextTime \/ LinkChanges) /\ UNCHANGED <<protocol, unheard>>
    BY <2>1, <2>4, PathsTime
  <2>5. CASE UNCHANGED vars
    BY <2>5, PathsStay DEF vars, simVars
  <2>6. \/ protocol # "pv" /\ UNCHANGED protocol
        \/ protocol = "pv" /\ PV!update /\ UNCHANGED protocol
        \/ (NextTime \/ LinkChanges) /\ UNCHANGED <<protocol, unheard>>
        \/ UNCHANGED vars
    BY DEF Next, Router
  <2> QED
    BY <2>2, <2>3, <2>4, <2>5, <2>6
<1> QED
  BY <1>1, <1>2, AlwaysInv, PTL DEF Spec

\* Once nothing is on its way and nothing was passed over, a node's costs are those
\* of its routes, and what the cost of the next hop and of the link there add up to.
LEMMA SettledPaths ==
    ASSUME TypeOK, PathsByTable, PathsHeard, Settled, protocol = "pv", unheard = {},
           NEW n \in Node, NEW i \in Node, i # n, ~PassedOver(n, i)
    PROVE  LET c == node_states[n].cost[n][i]
               h == routes[n][i].hop
           IN  /\ c = routes[n][i].cost
               /\ h # 0 => c < CostInfinity
               /\ c < CostInfinity =>
                     /\ h \in Neighbors(topology, n)
                     /\ c = COST_ADD(LinkCost(topology, n, h), node_states[h].cost[h][i])
<1> DEFINE way(j) == COST_ADD(LinkCost(topology, n, j), node_states[n].cost[j][i])
           D == {m \in Neighbors(topology, n) : ~PV!inPath(node_states[n], n, m, i)}
           via == PathVia(topology, node_states[n], n, i)
           r == routes[n][i]
<1>1. ~HalfTold /\ events = <<>> /\ later = <<>>
  BY DEF Settled, HalfTold
<1>2. r = Cheapest(via)
  BY <1>1 DEF PathsByTable, RouteByPaths, PassedOver
<1>3. node_states[n].cost[n][i] = r.cost
  BY DEF PathsByTable, OwnCosts
<1>4. D \in SUBSET Neighbors(topology, n) /\ D \in SUBSET Node
  BY DEF Neighbors
<1>5. \A j \in D : way(j) \in Cost
  <2> TAKE j \in D
  <2>1. node_states[n].cost \in [Node -> Vectors]
    BY DEF TypeOK, RouterState
  <2>2. j \in Node /\ node_states[n].cost[j][i] \in Cost
    BY <1>4, <2>1 DEF Vectors
  <2>3. LinkCost(topology, n, j) \in Cost
    BY <2>2, LinkCostType DEF TypeOK
  <2> QED
    BY <2>2, <2>3, SumLaws
<1>6. via = [j \in D |-> way(j)]
  BY Zenon DEF PathVia
<1> HIDE DEF D, way, via
<1>7. via \in [D -> Cost] /\ \A j \in D : via[j] = way(j)
  BY <1>5, <1>6
<1> HIDE DEF r
<1>8. /\ r.cost < CostInfinity => r.hop \in D /\ r.cost = via[r.hop]
      /\ r.hop # 0 => r.cost < CostInfinity
  BY <1>2, <1>4, <1>7, CheapestCost
<1>9. \A j \in Neighbors(topology, n) : node_states[n].cost[j] = node_states[j].cost[j]
  <2> SUFFICES ASSUME NEW j \in Neighbors(topology, n)
               PROVE  node_states[n].cost[j] = node_states[j].cost[j]
    OBVIOUS
  <2>1. j \in Node /\ j # n
    BY DEF Neighbors
  <2>2. LinkCost(topology, j, n) = LinkCost(topology, n, j)
    BY <2>1, LinkCostType DEF TypeOK
  <2>3. n \in Neighbors(topology, j)
    BY <2>1, <2>2 DEF Neighbors
  <2> DEFINE has == [data |-> node_states[n].cost[j], path |-> node_states[n].paths[j]]
             is(p) == [data |-> node_states[j].cost[j], path |-> p]
  <2>4. PICK p \in [Node -> Paths] : Latest(events \o later, n, j, has, is(p))
    <3>1. <<j, n>> \notin unheard
      OBVIOUS
    <3> QED
      BY <2>1, <2>3, <3>1 DEF PathsHeard
  <2>5. \A k \in 1..Len(events \o later) : FALSE
    <3>1. Len(events \o later) = 0
      BY <1>1
    <3> QED
      BY <3>1
  <2>6. has = is(p)
    <3> HIDE DEF has, is, Settled
    <3> QED
      BY <2>4, <2>5 DEF Latest
  <2>7. has.data = is(p).data
    BY <2>6
  <2> QED
    BY <2>7
<1> HIDE DEF Settled
<1>10. ASSUME r.cost < CostInfinity
       PROVE  /\ r.hop \in Neighbors(topology, n)
              /\ r.cost = COST_ADD(LinkCost(topology, n, r.hop), node_states[r.hop].cost[r.hop][i])
  BY <1>4, <1>7, <1>8, <1>9, <1>10 DEF way
<1> QED
  BY <1>3, <1>8, <1>10 DEF r

\* Costs that fall with every hop of the routes to d, up to the nodes of ends.
Falling(D, d, ends) ==
    \A n \in Node \ ends :
        routes[n][d].hop # 0 =>
            LET h == routes[n][d].hop
            IN  h \in Node /\ D[h] < D[n] /\ (h \in ends \/ routes[h][d].hop # 0)

\* If they fall, a packet gets to one of ends: after k hops it is there or passed k
\* nodes that cost more than where it is.
LEMMA FollowArrives ==
    ASSUME NEW d \in Node, NEW ends \in SUBSET Node, NEW D \in [Node -> Nat],
           Falling(D, d, ends), NEW n \in Node, n \in ends \/ routes[n][d].hop # 0,
           \A m \in Node : routes[m][d].hop \in 0..N
    PROVE  Follow(n, d, ends) \in ends
<1> DEFINE Places == 0..N
           Step(m) == IF m \in {0} \cup ends THEN m ELSE routes[m][d].hop
           at[k \in 0..N] == IF k = 0 THEN n ELSE Step(at[k - 1])
           F == [k \in 1..N |-> [m \in Places |-> Step(m)]]
           G(g) == [k \in 0..N |-> IF k = 0 THEN n ELSE Step(g[k - 1])]
<1>1. Follow(n, d, ends) = at[N]
  BY Zenon DEF Follow
<1>2. n \in Places /\ 0 \in Places /\ \A m \in Places : m = 0 \/ m \in Node
  BY SimulatorAssumption DEF Node
<1>3. ASSUME NEW m \in Places PROVE Step(m) \in Places
  BY <1>2
<1>4. \A m \in Node \ ends : Step(m) = routes[m][d].hop
  <2>1. 0 \notin Node
    BY DEF Node
  <2> QED
    BY <2>1
<1>5. \A m \in ends : Step(m) = m
  OBVIOUS
<1> HIDE DEF Places, Step
<1>6. F \in Steps(Places)
  BY <1>3 DEF Steps
<1>7. PICK f : TakesSteps(f, Places, n, F)
  <2> HIDE DEF F
  <2> QED
    BY <1>2, <1>6, StepsTaken
<1>8. f \in [0..N -> Places] /\ f[0] = n /\ \A k \in 1..N : f[k] = Step(f[k - 1])
  <2>1. f \in [0..N -> Places] /\ f[0] = n /\ \A k \in 1..N : f[k] = F[k][f[k - 1]]
    <3> HIDE DEF F
    <3> QED
      BY <1>7 DEF TakesSteps
  <2>2. \A k \in 1..N : k - 1 \in 0..N
    BY SimulatorAssumption
  <2> QED
    BY <2>1, <2>2
<1> HIDE DEF F
<1>9. f = G(f)
  <2>1. ASSUME NEW k \in 0..N PROVE f[k] = G(f)[k]
    <3>1. k # 0 => k \in 1..N
      BY SimulatorAssumption
    <3> QED
      BY <1>8, <3>1
  <2> QED
    BY <1>8, <2>1
<1>10. at = G(at)
  <2>1. at = CHOOSE g : g = G(g)
    OBVIOUS
  <2> HIDE DEF at, G
  <2> QED
    BY <1>9, <2>1
<1> HIDE DEF at
<1>11. at[0] = n /\ \A k \in 1..N : at[k] = Step(at[k - 1])
  <2>1. \A k \in 0..N : at[k] = IF k = 0 THEN n ELSE Step(at[k - 1])
    BY <1>10
  <2>2. \A k \in 1..N : at[k] = Step(at[k - 1])
    BY <2>1
  <2> QED
    BY <2>1, <2>2, SimulatorAssumption
<1> DEFINE Passed(m) == {p \in Node : D[p] > D[m]}
           OnWay(m, k) == /\ m \in Node \ ends /\ routes[m][d].hop # 0
                          /\ Cardinality(Passed(m)) >= k
           Fine == {k \in 0..N : at[k] \in ends \/ OnWay(at[k], k)}
<1>12. \A m \in Node : /\ Passed(m) \in SUBSET Node /\ m \notin Passed(m)
                        /\ IsFiniteSet(Passed(m)) /\ Cardinality(Passed(m)) \in Nat
  <2> TAKE m \in Node
  <2>1. Passed(m) \in SUBSET Node /\ m \notin Passed(m)
    OBVIOUS
  <2> HIDE DEF Passed
  <2> QED
    BY <2>1, FiniteNode, FS_Subset, FS_CardinalityType
<1>13. 0 \in Fine
  <2> HIDE DEF Passed
  <2> QED
    BY <1>11, <1>12, SimulatorAssumption
<1>14. ASSUME NEW k \in 1..N, k - 1 \in Fine PROVE k \in Fine
  <2> DEFINE m == at[k - 1]
             h == at[k]
  <2>1. k \in 0..N /\ h = Step(m) /\ (m \in ends \/ OnWay(m, k - 1))
    BY <1>11, <1>14, SimulatorAssumption
  <2> HIDE DEF m, h
  <2>2. CASE m \in ends
    BY <1>5, <2>1, <2>2 DEF h
  <2>3. CASE m \notin ends
    <3>1. m \in Node \ ends /\ routes[m][d].hop # 0 /\ h = routes[m][d].hop
      BY <1>4, <2>1, <2>3
    <3>2. h \in Node /\ D[h] < D[m] /\ (h \in ends \/ routes[h][d].hop # 0)
      BY <3>1 DEF Falling
    <3>3. Passed(m) \cup {m} \subseteq Passed(h)
      BY <3>1, <3>2
    <3>4. Cardinality(Passed(m)) >= k - 1
      BY <2>1, <2>3
    <3> HIDE DEF Passed
    <3>5. /\ Cardinality(Passed(m) \cup {m}) = Cardinality(Passed(m)) + 1
          /\ Cardinality(Passed(m) \cup {m}) =< Cardinality(Passed(h))
      <4>1. IsFiniteSet(Passed(m)) /\ m \notin Passed(m) /\ IsFiniteSet(Passed(h))
        BY <1>12, <3>1, <3>2
      <4> QED
        BY <3>3, <4>1, FS_AddElement, FS_Subset
    <3>6. Cardinality(Passed(h)) >= k
      <4>1. Cardinality(Passed(m)) \in Nat /\ Cardinality(Passed(h)) \in Nat
        BY <1>12, <3>1, <3>2
      <4> QED
        BY <3>4, <3>5, <4>1
    <3> QED
      BY <2>1, <3>2, <3>6 DEF h
  <2> QED
    BY <2>2, <2>3
<1>15. N \in Fine
  <2>1. \A k \in 0..N : k \in Fine
    <3> HIDE DEF Fine
    <3> QED
      BY <1>13, <1>14, FromStepToStep, SimulatorAssumption
  <2> QED
    BY <2>1, SimulatorAssumption
<1>16. ASSUME at[N] \notin ends PROVE FALSE
  <2> DEFINE m == at[N]
  <2>1. m \in Node /\ Cardinality(Passed(m)) >= N
    BY <1>15, <1>16
  <2> HIDE DEF m, Passed
  <2>2. /\ IsFiniteSet(Passed(m)) /\ m \notin Passed(m) /\ Cardinality(Passed(m)) \in Nat
        /\ Passed(m) \cup {m} \subseteq Node
    BY <1>12, <2>1
  <2>3. Cardinality(Passed(m) \cup {m}) = Cardinality(Passed(m)) + 1
    BY <2>2, FS_AddElement
  <2>4. Cardinality(Passed(m) \cup {m}) =< N
    BY <2>2, FiniteNode, FS_Subset
  <2> QED
    BY <2>1, <2>2, <2>3, <2>4, SimulatorAssumption
<1> QED
  BY <1>1, <1>16

-----------------------------------------------------------------------------
(* The theorems. *)

\* Tables, routes, events and messages keep their types, whichever router runs.
THEOREM TypeCorrect == Spec => []TypeOK
<1>1. IndInv => TypeOK
  BY DEF IndInv
<1> QED
  BY <1>1, AlwaysInv, PTL

\* No route leads over a link that is down once its end was told, but for the
\* destinations that a path vector router passed over (set_route's assertion,
\* routing-simulator.cpp 490-491, kept ever after).
THEOREM RoutesKeepUsingLinks == Spec => []RoutesUseLinks
<1>1. IndInv => RoutesUseLinks
  BY DEF IndInv
<1> QED
  BY <1>1, AlwaysInv, PTL

\* However link states are flooded, nobody has a version the node itself does not
\* have, or another link state with its version (ls.c 180-191).
THEOREM CopiesStayOld == Spec => []CopiesAreOld
<1>1. IndInv => CopiesAreOld
  BY DEF IndInv
<1> QED
  BY <1>1, AlwaysInv, PTL

\* Link states settle: once nothing is on its way, every node has the shortest
\* routes, except where all of them leave its neighbours; there it has the
\* cheapest that does not (ls.c 82-115, with the condition of 89, and 138-198).
THEOREM LinkRoutesSettleShortest == Spec => []LinkRoutesAreShortest
<1>1. IndInv /\ RoutesAsKnown /\ NeighborsHeard => LinkRoutesAreShortest
  <2> SUFFICES ASSUME IndInv, RoutesAsKnown, NeighborsHeard, Settled, protocol = "ls",
                      NEW n \in Node, NEW d \in Node, n # d
               PROVE  \/ routes[n][d].cost = ShortestWithin(FALSE)[n][d]
                      \/ /\ ShortestWithin(TRUE)[n][d] # ShortestWithin(FALSE)[n][d]
                         /\ routes[n][d].cost = ShortestWithin(TRUE)[n][d]
    BY Zenon DEF LinkRoutesAreShortest
  <2>1. TypeOK /\ OwnLinksKnown
    BY DEF IndInv
  <2>2. ShortestWithin(TRUE)[n] = LS!ShortestKnown(node_states[n], n)
    BY <2>1, SettledKnown
  <2>3. routes[n][d].cost = LS!ShortestKnown(node_states[n], n)[d]
    BY DEF RoutesAsKnown
  <2>4. routes[n][d].cost = ShortestWithin(TRUE)[n][d]
    BY <2>2, <2>3
  <2> QED
    BY <2>4, Zenon
<1> QED
  BY <1>1, AlwaysInv, LinkStatesInv, PTL

\* Distance vectors settle: once nothing is on its way and every link that came up
\* was told of, every node's costs are those of the shortest paths, if no link ever
\* costs nothing (dv.c and dvrpp.c, the handlers and bellmond_ford).
THEOREM DistancesSettleShortest ==
    ASSUME PositiveCosts
    PROVE  Spec => []DistancesAreShortest
<1>1. IndInv /\ (RoutesByTable /\ VectorsHeard) /\ (protocol # "ls" => LinksCost)
          => DistancesAreShortest
  <2> SUFFICES ASSUME IndInv, RoutesByTable, VectorsHeard, LinksCost, Settled,
                      protocol \in {"dv", "dvrpp"}, unheard = {},
                      protocol = "dvrpp" => HopsAgree,
                      NEW n \in Node, NEW d \in Node, n # d
               PROVE  routes[n][d].cost = ShortestWithin(FALSE)[n][d]
    BY Zenon DEF DistancesAreShortest
  <2> DEFINE D == [m \in Node |-> node_states[m].cost[m]]
  <2>1. TypeOK /\ NoRouteToOneself
    BY DEF IndInv
  <2>2. Balanced(D) /\ Explained(D, d)
    BY <2>1, SettledBalanced DEF Balanced
  <2>3. PICK dist : ReferenceBy(dist, FALSE)
    BY <2>1, ReferenceDefined
  <2>4. D[n][d] = routes[n][d].cost
    BY DEF RoutesByTable
  <2> HIDE DEF D
  <2>5. D[n][d] =< dist[N][n][d] /\ dist[N][n][d] =< D[n][d]
    BY <2>1, <2>2, <2>3, NotCheaper, NotDearer
  <2>6. D[n][d] \in Nat /\ dist[N][n][d] \in Nat
    <3>1. N \in 0..N
      BY SimulatorAssumption
    <3>2. dist[N] \in [Node -> Vectors]
      BY <2>3, <3>1 DEF ReferenceBy
    <3>3. dist[N][n][d] \in Cost /\ D[n][d] \in Cost
      BY <2>2, <3>2 DEF Vectors, Explained
    <3> QED
      BY <3>3, CostRange
  <2>7. ShortestWithin(FALSE) = dist[N]
    BY <2>3 DEF ReferenceBy
  <2>8. D[n][d] = dist[N][n][d]
    <3> DEFINE x == D[n][d]
               y == dist[N][n][d]
    <3>1. x =< y /\ y =< x /\ x \in Nat /\ y \in Nat
      BY <2>5, <2>6
    <3> HIDE DEF x, y
    <3>2. x = y
      BY <3>1
    <3> QED
      BY <3>2 DEF x, y
  <2> QED
    BY Zenon, <2>4, <2>7, <2>8
<1> QED
  BY <1>1, AlwaysInv, VectorsInv, LinksCostInv, PTL

\* Path vectors settle: once nothing is on its way and every link that came up was
\* told of, every route leads to its destination or to a node that passed it over, and
\* promises no less than the shortest path costs where no node did, if no link ever
\* costs nothing (pv.c, both handlers and bellmond_ford).
THEOREM PathRoutesSettle ==
    ASSUME PositiveCosts
    PROVE  Spec => []PathRoutesArrive
<1>1. IndInv /\ (PathsByTable /\ PathsHeard) /\ (protocol # "ls" => LinksCost)
          => PathRoutesArrive
  <2> DEFINE over(d) == {m \in Node \ {d} : PassedOver(m, d)}
  <2> SUFFICES ASSUME IndInv, PathsByTable, PathsHeard, LinksCost, Settled, protocol = "pv",
                      unheard = {}, NEW d \in Node, NEW n \in Node \ {d}, routes[n][d].hop # 0
               PROVE  /\ Follow(n, d, over(d) \cup {d}) \in over(d) \cup {d}
                      /\ over(d) = {} => routes[n][d].cost >= ShortestWithin(FALSE)[n][d]
    BY Zenon DEF PathRoutesArrive
  <2> DEFINE D == [m \in Node |-> node_states[m].cost[m]]
             Dd == [m \in Node |-> D[m][d]]
             ends == over(d) \cup {d}
  <2>1. TypeOK
    BY DEF IndInv
  <2>2. \A m \in Node : node_states[m].cost \in [Node -> Vectors]
    BY <2>1 DEF TypeOK, RouterState
  <2>3. D \in [Node -> Vectors] /\ \A m \in Node : D[m] = node_states[m].cost[m]
    BY <2>2
  <2>4. D[d][d] = 0 /\ \A m \in Node \ {d} : D[m][d] = routes[m][d].cost
    BY <2>3 DEF PathsByTable, OwnCosts
  <2>5. ends \in SUBSET Node /\ d \in ends /\ (over(d) = {} => ends = {d})
        /\ \A m \in Node \ ends : m # d /\ ~PassedOver(m, d)
    OBVIOUS
  <2>6. ASSUME NEW m \in Node \ ends
        PROVE  LET h == routes[m][d].hop
               IN  /\ h # 0 => D[m][d] < CostInfinity
                   /\ D[m][d] < CostInfinity =>
                         /\ h \in Neighbors(topology, m) /\ h \in Node
                         /\ D[m][d] = COST_ADD(LinkCost(topology, m, h), D[h][d])
    <3>1. \A j : j \in Neighbors(topology, m) => j \in Node
      BY DEF Neighbors
    <3> HIDE DEF D, ends
    <3>2. m \in Node /\ m # d /\ ~PassedOver(m, d)
      BY <2>5
    <3> QED
      BY <2>1, <2>3, <3>1, <3>2, SettledPaths
  <2> HIDE DEF D, over
  <2>7. \A m \in Node : /\ D[m][d] \in Cost /\ D[m][d] \in Nat
                        /\ routes[m][d].hop \in 0..N
    BY <2>1, <2>3, CostRange DEF Vectors, TypeOK, Route
  <2> HIDE DEF ends
  <2>8. Falling(Dd, d, ends)
    <3> SUFFICES ASSUME NEW m \in Node \ ends, routes[m][d].hop # 0
                 PROVE  LET h == routes[m][d].hop
                        IN  h \in Node /\ D[h][d] < D[m][d]
                            /\ (h \in ends \/ routes[h][d].hop # 0)
      BY DEF Falling
    <3> DEFINE h == routes[m][d].hop
               c == LinkCost(topology, m, h)
    <3>1. /\ h \in Node /\ h \in Neighbors(topology, m) /\ D[m][d] < CostInfinity
          /\ D[m][d] = COST_ADD(c, D[h][d])
      BY <2>6
    <3>2. c \in Cost /\ c # 0
      <4>1. h # m /\ LinkOf(m, h) \in Links
        BY <3>1, LinkOfEnds DEF Neighbors
      <4>2. c \in Cost
        BY <2>1, <3>1, LinkCostType DEF TypeOK
      <4> QED
        BY <4>1, <4>2 DEF LinksCost, LinkCost
    <3> HIDE DEF h, c
    <3>3. D[h][d] < D[m][d]
      BY <2>7, <3>1, <3>2, CostRange DEF COST_ADD
    <3>4. ASSUME h \notin ends PROVE routes[h][d].hop # 0
      <4>1. D[h][d] < CostInfinity
        BY <2>7, <3>1, <3>3, CostRange
      <4>2. routes[h][d].hop \in Node
        BY <2>6, <3>1, <3>4, <4>1
      <4> QED
        BY <4>2 DEF Node
    <3> QED
      BY <3>1, <3>3, <3>4 DEF h
  <2>9. Dd \in [Node -> Nat]
    BY <2>7
  <2>10. Follow(n, d, ends) \in ends
    <3> HIDE DEF Dd
    <3> QED
      BY <2>5, <2>7, <2>8, <2>9, FollowArrives
  <2>11. ASSUME over(d) = {} PROVE routes[n][d].cost >= ShortestWithin(FALSE)[n][d]
    <3>1. Explained(D, d)
      BY <2>3, <2>4, <2>5, <2>6, <2>11 DEF Explained
    <3>2. PICK dist : ReferenceBy(dist, FALSE)
      BY <2>1, ReferenceDefined
    <3>3. dist[N][n][d] =< D[n][d] /\ dist[N][n][d] \in Nat
      <4>1. N \in 0..N
        BY SimulatorAssumption
      <4>2. dist[N] \in [Node -> Vectors]
        BY <3>2, <4>1 DEF ReferenceBy
      <4>3. dist[N][n][d] \in Cost
        BY <4>2 DEF Vectors
      <4> QED
        BY <2>1, <3>1, <3>2, <4>3, NotDearer, CostRange
    <3>4. ShortestWithin(FALSE) = dist[N]
      BY <3>2 DEF ReferenceBy
    <3>5. routes[n][d].cost >= dist[N][n][d]
      BY <2>4, <2>7, <3>3
    <3> QED
      BY <3>4, <3>5
  <2> QED
    BY <2>10, <2>11 DEF ends
<1> QED
  BY <1>1, AlwaysInv, PathsInv, LinksCostInv, PTL
==================================================================================
