----------------------------- MODULE DistanceVector -----------------------------
(***************************************************************************)
(* The distance vector routers of Computer Networks/Project 2: dv.c, and   *)
(* dvrpp.c, which differs in the messages it sends.                        *)
(***************************************************************************)
EXTENDS Routes

CONSTANT Poisoned    \* dvrpp.c: tell a next hop that what it leads to is far

VARIABLE unheard     \* <<n, m>>: their link came up, n sent m nothing since

vars == <<simVars, unheard>>

init_state ==
    [n \in Node |->
        [cost |-> [i \in Node |-> [j \in Node |-> IF i = j THEN 0 ELSE CostInfinity]],
         next_hop |-> [i \in Node |-> 0]]]

Init == SimInit(init_state) /\ unheard = {}

\* The routes bellmond_ford sets: all of them, changed or not.
bellmond_ford(s, n) ==
    [i \in Node |-> IF i = n THEN NoRoute ELSE
        Cheapest([j \in Neighbors(Topology, n) |->
                     COST_ADD(LinkCost(Topology, n, j), s.cost[j][i])])]

\* Mutant: only good news is told.
Changed_OnlyBetter(s, n, r) == {i \in Node \ {n} : r[i].cost < s.cost[n][i]}

\* Mutant: every vector is told, changed or not.
Changed_Always(s, n, r) == Node \ {n}

\* Destinations whose cost is not the one n has.
Changed(s, n, r) == {i \in Node \ {n} : r[i].cost # s.cost[n][i]}

Updated(s, n, r) ==
    [cost     |-> [s.cost EXCEPT ![n] = [i \in Node |->
                       IF i = n THEN s.cost[n][n] ELSE r[i].cost]],
     next_hop |-> [i \in Node |-> IF i \in Changed(s, n, r) THEN r[i].hop
                                  ELSE s.next_hop[i]]]

\* What node n in state s tells m.
Vector(s, n, m) ==
    [j \in Node |-> IF Poisoned /\ m = s.next_hop[j] THEN CostInfinity ELSE s.cost[n][j]]

\* Both handlers: a message first replaces what is known of its sender.
Received ==
    LET s == node_states[event.node]
    IN  IF event.type = "message" THEN [s EXCEPT !.cost[event.neighbor] = event.content]
        ELSE s

\* Neighbours are told if a cost changed.
update ==
    /\ running /\ events # <<>>
    /\ \E r \in {bellmond_ford(Received, event.node)} :
       \E s \in {Updated(Received, event.node, r)} :
       \E told \in {IF Changed(Received, event.node, r) = {} THEN {}
                    ELSE Neighbors(Topology, event.node)} :
        /\ Process(s, r, MessagesTo(told, [m \in told |-> Vector(s, event.node, m)]))
        /\ unheard' = (unheard \cup CameUp) \ ({event.node} \X told)

Next == \/ update
        \/ (NextTime \/ LinkChanges) /\ UNCHANGED unheard

\* The simulator goes on while there are events.
Spec == Init /\ [][Next]_vars /\ WF_events(Progress)
=================================================================================
