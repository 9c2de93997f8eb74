------------------------------- MODULE PathVector -------------------------------
(***************************************************************************)
(* The path vector router of Computer Networks/Project 2, pv.c.            *)
(***************************************************************************)
EXTENDS Routes

VARIABLE unheard     \* <<n, m>>: their link came up, n sent m nothing since

vars == <<simVars, unheard>>

NoPath == [hop \in Node |-> 0]

init_state ==
    [n \in Node |->
        [cost |-> [i \in Node |-> [j \in Node |-> IF i = j THEN 0 ELSE CostInfinity]],
         next_hop |-> [i \in Node |-> 0],
         paths |-> [i \in Node |-> [j \in Node |-> NoPath]]]]

Init == SimInit(init_state) /\ unheard = {}

\* The path j announced to i comes by node n.
inPath(s, n, j, i) == \E hop \in Node : s.paths[j][i][hop] = n

LastNode == N

\* inPath is left from the last node looked at: if it comes by n, nothing of
\* what was found for i is used.
Skipped(s, n, i) ==
    LastNode \in Neighbors(Topology, n) /\ inPath(s, n, LastNode, i)

\* The destinations bellmond_ford updates, with their routes: the cheapest
\* through a neighbour whose path does not come by n.
bellmond_ford(s, n) ==
    [i \in {d \in Node \ {n} : ~Skipped(s, n, d)} |->
        Cheapest([j \in {m \in Neighbors(Topology, n) : ~inPath(s, n, m, i)} |->
                     COST_ADD(LinkCost(Topology, n, j), s.cost[j][i])])]

\* set_path puts the next hop in front of the path node n had, at each update.
set_path(path, next_hop) ==
    [hop \in Node |-> IF hop = 1 THEN next_hop ELSE path[hop - 1]]

Changed(s, n, r) == {i \in DOMAIN r : r[i].cost # s.cost[n][i]}

Updated(s, n, r) ==
    [cost     |-> [s.cost EXCEPT ![n] = [i \in Node |->
                       IF i \in DOMAIN r THEN r[i].cost ELSE s.cost[n][i]]],
     next_hop |-> [i \in Node |-> IF i \in Changed(s, n, r) THEN r[i].hop
                                  ELSE s.next_hop[i]],
     paths    |-> [s.paths EXCEPT ![n] = [i \in Node |->
                       IF i \notin DOMAIN r THEN s.paths[n][i]
                       ELSE IF r[i].hop = 0 THEN NoPath
                       ELSE set_path(s.paths[n][i], r[i].hop)]]]

\* Mutant: only good news is believed.
Received_OnlyBetter ==
    LET s == node_states[event.node]
        c == s.cost[event.neighbor]
    IN  IF event.type = "message"
        THEN [s EXCEPT !.cost[event.neighbor] =
                           [i \in Node |-> Least({c[i], event.content.data[i]})],
                       !.paths[event.neighbor] = event.content.path]
        ELSE s

\* Both handlers: a message first replaces what is known of its sender.
Received ==
    LET s == node_states[event.node]
    IN  IF event.type = "message"
        THEN [s EXCEPT !.cost[event.neighbor] = event.content.data,
                       !.paths[event.neighbor] = event.content.path]
        ELSE s

update ==
    /\ running /\ events # <<>>
    /\ \E r \in {bellmond_ford(Received, event.node)} :
       \E s \in {Updated(Received, event.node, r)} :
       \E told \in {IF Changed(Received, event.node, r) = {} THEN {}
                    ELSE Neighbors(Topology, event.node)} :
        /\ Process(s, [d \in Node |-> IF d \in DOMAIN r THEN r[d]
                                      ELSE routes[event.node][d]],
                   MessagesTo(told, [m \in told |->
                       [data |-> s.cost[event.node], path |-> s.paths[event.node]]]))
        /\ unheard' = (unheard \cup CameUp) \ ({event.node} \X told)

Next == update \/ ((NextTime \/ LinkChanges) /\ UNCHANGED unheard)
Spec == Init /\ [][Next]_vars /\ WF_events(Progress)
=================================================================================
