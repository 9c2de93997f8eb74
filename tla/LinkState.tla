------------------------------- MODULE LinkState -------------------------------
(***************************************************************************)
(* The link state router of Computer Networks/Project 2, ls.c.             *)
(***************************************************************************)
EXTENDS Routes

vars == simVars

\* lks is all a node keeps: per node, the costs of its links and their version.
init_state ==
    [n \in Node |-> [i \in Node |->
        [version |-> 0,
         link_cost |-> [j \in Node |-> IF i = j THEN 0 ELSE CostInfinity]]]]

Init == SimInit(init_state)

\* Mutant: an end of a link does not believe in bad news.
OwnLinks_OnlyBetter(ls) ==
    [ls EXCEPT !.link_cost[event.neighbor] = Least({@, event.cost}), !.version = @ + 1]

\* Mutant: a change does not make a new version.
OwnLinks_SameVersion(ls) == [ls EXCEPT !.link_cost[event.neighbor] = event.cost]

\* A node's own link state after a change of one of its links.
OwnLinks(ls) ==
    [ls EXCEPT !.link_cost[event.neighbor] = event.cost, !.version = @ + 1]

\* Mutant: a link state must be two versions newer.
Newer_ByTwo(i, mine, theirs) == IF mine.version + 1 < theirs.version THEN theirs ELSE mine

\* What a node keeps of node i's link state when it is told of another copy.
Newer(i, mine, theirs) == IF mine.version < theirs.version THEN theirs ELSE mine

\* Both handlers take over what they are told.
Received ==
    LET n   == event.node
        lks == node_states[n]
    IN  IF event.type = "link" THEN [lks EXCEPT ![n] = OwnLinks(@)]
        ELSE [i \in Node |-> Newer(i, lks[i], event.content[i])]

\* The closest of the open nodes, the first of those.
Closest(open, dist) == Least({i \in open : \A j \in open : dist[i] <= dist[j]})

\* A round of Dijkstra at node n: the closest open node c is visited.  Only
\* neighbours ever are; hop is the first step of the way that pred describes.
Visit(lks, n, r) ==
    LET open == {i \in Neighbors(Topology, n) \ r.visited : r.dist[i] < CostInfinity}
        c == Closest(open, r.dist)
        cost(i) == COST_ADD(r.dist[c], lks[c].link_cost[i])
        closer == {i \in Node \ (r.visited \cup {c}) : cost(i) < r.dist[i]}
    IN  IF open = {} THEN r
        ELSE [dist    |-> [i \in Node |-> IF i \in closer THEN cost(i) ELSE r.dist[i]],
              hop     |-> [i \in Node |-> IF i \in closer THEN r.hop[c] ELSE r.hop[i]],
              visited |-> r.visited \cup {c}]

\* As many rounds as there are nodes, and the routes they lead to.
Dijkstra(lks, n) ==
    LET start == [dist |-> lks[n].link_cost, hop |-> [i \in Node |-> i], visited |-> {n}]
        round[k \in 0..N] == IF k = 0 THEN start ELSE Visit(lks, n, round[k - 1])
        last == round[N]
    IN  [i \in Node |-> IF i = n \/ last.dist[i] = CostInfinity THEN NoRoute
                        ELSE [hop |-> last.hop[i], cost |-> last.dist[i]]]

\* A message that brings nothing new changes nothing.
Ignored == event.type = "message" /\ Received = node_states[event.node]

update ==
    /\ running /\ events # <<>>
    /\ \E lks \in {Received} :
         IF Ignored THEN Process(lks, routes[event.node], <<>>)
         ELSE LET told == Neighbors(Topology, event.node)
              IN  Process(lks, Dijkstra(lks, event.node),
                          MessagesTo(told, [m \in told |-> lks]))

\* Without a neighbour, Dijkstra uses next_hop before it has a value.
CrashInDijkstra ==
    /\ running /\ events # <<>> /\ ~Ignored
    /\ Neighbors(Topology, event.node) = {}
    /\ Crash

Next == update \/ CrashInDijkstra \/ NextTime \/ LinkChanges
Spec == Init /\ [][Next]_vars /\ WF_events(Progress)
-----------------------------------------------------------------------------
\* A copy c of node i's link state is not ahead of it, nor other than it is.
OldCopy(c, i) ==
    /\ c.version <= node_states[i][i].version
    /\ c.version = node_states[i][i].version => c = node_states[i][i]

\* Wherever a copy of a link state is, at a node or on its way, its version
\* tells which of two is newer: the node whose it is has it, or a later one.
CopiesAreOld ==
    /\ \A n, i \in Node : OldCopy(node_states[n][i], i)
    /\ \A k \in DOMAIN events, i \in Node :
           events[k].type = "message" => OldCopy(events[k].content[i], i)
    /\ \A k \in DOMAIN later, i \in Node : OldCopy(later[k].content[i], i)

\* What the cheapest routes of node n cost by the copies it has: they pass its
\* own neighbours only.
KnownNeighbors(lks, n) == {c \in Node \ {n} : lks[n].link_cost[c] # CostInfinity}
KnownCosts(lks) == [m \in Node |-> lks[m].link_cost]
ShortestKnown(lks, n) ==
    LET dist[k \in 0..N] ==
          IF k = 0 THEN lks[n].link_cost
          ELSE Farther(dist[k - 1], KnownNeighbors(lks, n), KnownCosts(lks))
    IN  dist[N]

\* A message to node n has the link state of node c as it is.
Tells(e, n, c) ==
    e.type = "message" /\ e.node = n /\ e.content[c] = node_states[c][c]

\* Node n knows the link state of node c as it is, or is told of it.
Heard(n, c) ==
    \/ node_states[n][c] = node_states[c][c]
    \/ \E k \in DOMAIN events : Tells(events[k], n, c)
    \/ \E k \in DOMAIN later : Tells(later[k], n, c)
=================================================================================
