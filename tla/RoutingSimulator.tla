---------------------------- MODULE RoutingSimulator ----------------------------
(***************************************************************************)
(* The simulator of Computer Networks/Project 2, routing-simulator.cpp: a  *)
(* network of nodes, each running the same router module, driven by one    *)
(* queue of events ordered by time.  The topology file puts link changes   *)
(* into it, two notifications each, which precede the messages of their    *)
(* time; a message sent at some time is delivered at the next one, in the  *)
(* order of sending.  Which file is read is the only choice there is.      *)
(*                                                                         *)
(* Nodes are numbered from 1, and 0 stands for the -1 of the source.       *)
(***************************************************************************)
EXTENDS Integers, Sequences

CONSTANTS
    N,              \* how many nodes
    CostInfinity,   \* 255 in the source
    Networks,       \* lists of link changes a file may begin with
    Changes,        \* lists of link changes it may have at a later time
    MaxChanges      \* bound on how many times that may be

Node == 1..N
Links == {l \in Node \X Node : l[1] < l[2]}
Cost == 0..CostInfinity
LinkChange == [link : Links, cost : Cost]

ASSUME SimulatorAssumption ==
    /\ N \in Nat /\ CostInfinity \in Nat \ {0} /\ MaxChanges \in Nat
    /\ Networks \subseteq Seq(LinkChange) /\ Changes \subseteq Seq(LinkChange)

VARIABLES
    topology,      \* per link, its cost
    events,        \* the events of the current time, in order
    later,         \* the messages of the next time
    node_states,   \* per node, what its router module keeps
    routes,        \* per node and destination, the route set_route gave it
    running,       \* the simulator has not crashed
    changed        \* how many times the file changed links so far

simVars == <<topology, events, later, node_states, routes, running, changed>>

COST_ADD(a, b) == IF a + b < CostInfinity THEN a + b ELSE CostInfinity

LinkOf(a, b) == IF a < b THEN <<a, b>> ELSE <<b, a>>
LinkCost(top, a, b) == IF a = b THEN 0 ELSE top[LinkOf(a, b)]
Neighbors(top, n) == {m \in Node \ {n} : LinkCost(top, n, m) # CostInfinity}

NoRoute == [hop |-> 0, cost |-> CostInfinity]

Notification(c, a, b) ==
    [type |-> "link", node |-> c.link[a], neighbor |-> c.link[b], cost |-> c.cost]

\* Each change is notified to the two ends of its link.
Notifications(cs) ==
    [k \in 1..(2 * Len(cs)) |-> IF k % 2 = 1 THEN Notification(cs[(k + 1) \div 2], 1, 2)
                                             ELSE Notification(cs[k \div 2], 2, 1)]

SimInit(init_state) ==
    /\ topology = [l \in Links |-> CostInfinity]
    /\ \E cs \in Networks : events = Notifications(cs)
    /\ later = <<>>
    /\ node_states = init_state
    /\ routes = [n \in Node |-> [d \in Node |-> NoRoute]]
    /\ running = TRUE
    /\ changed = 0

\* All events of a time are processed: on to the next time that has any.
NextTime ==
    /\ running /\ events = <<>> /\ later # <<>>
    /\ events' = later /\ later' = <<>>
    /\ UNCHANGED <<topology, node_states, routes, running, changed>>

\* The same, where the file has link changes at the next time.
LinkChanges ==
    /\ running /\ events = <<>>
    /\ changed < MaxChanges
    /\ \E cs \in Changes : events' = Notifications(cs) \o later
    /\ later' = <<>>
    /\ changed' = changed + 1
    /\ UNCHANGED <<topology, node_states, routes, running>>

event == Head(events)

\* The topology the handler of the event sees.
Topology ==
    IF event.type = "link"
    THEN [topology EXCEPT ![LinkOf(event.node, event.neighbor)] = event.cost]
    ELSE topology

Message(m, content) ==
    [type |-> "message", node |-> m, neighbor |-> event.node, content |-> content]

\* A message to each of the nodes told, in the order of their numbers.
MessagesTo(told, content) ==
    LET upTo[m \in 0..N] ==
          IF m = 0 THEN <<>>
          ELSE IF m \in told THEN Append(upTo[m - 1], Message(m, content[m]))
          ELSE upTo[m - 1]
    IN  upTo[N]

\* The event is processed: its node goes on in state s with routes r, and
\* sends messages ms.
Process(s, r, ms) ==
    /\ running /\ events # <<>>
    /\ topology' = Topology
    /\ node_states' = [node_states EXCEPT ![event.node] = s]
    /\ routes' = [routes EXCEPT ![event.node] = r]
    /\ events' = Tail(events)
    /\ later' = later \o ms
    /\ UNCHANGED <<running, changed>>

Crash ==
    /\ running' = FALSE
    /\ UNCHANGED <<topology, events, later, node_states, routes, changed>>

\* process_events goes on while there are events.
Progress ==
    /\ running
    /\ \/ events # <<>> /\ events' = Tail(events)
       \/ events = <<>> /\ later # <<>> /\ events' = later

\* All is processed.
Settled == running /\ events = <<>> /\ later = <<>>
=================================================================================
