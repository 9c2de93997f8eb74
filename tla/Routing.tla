--------------------------------- MODULE Routing ---------------------------------
(***************************************************************************)
(* The four simulators of Computer Networks/Project 2: all nodes of a      *)
(* network run one of the router modules on the one simulator.             *)
(***************************************************************************)
EXTENDS Routes

VARIABLES
    protocol,    \* which simulator was built
    unheard      \* of DistanceVector and PathVector

vars == <<simVars, protocol, unheard>>

DV  == INSTANCE DistanceVector WITH Poisoned <- FALSE
RPP == INSTANCE DistanceVector WITH Poisoned <- TRUE
PV  == INSTANCE PathVector
LS  == INSTANCE LinkState

Init ==
    /\ unheard = {}
    /\ \/ protocol \in {"dv", "dvrpp"} /\ SimInit(DV!init_state)
       \/ protocol = "pv" /\ SimInit(PV!init_state)
       \/ protocol = "ls" /\ SimInit(LS!init_state)

Router ==
    \/ protocol = "dv" /\ DV!update
    \/ protocol = "dvrpp" /\ RPP!update
    \/ protocol = "pv" /\ PV!update
    \/ protocol = "ls" /\ (LS!update \/ LS!CrashInDijkstra) /\ UNCHANGED unheard

Next ==
    \/ Router /\ UNCHANGED protocol
    \/ (NextTime \/ LinkChanges) /\ UNCHANGED <<protocol, unheard>>

Spec == Init /\ [][Next]_vars /\ WF_events(Progress)

-----------------------------------------------------------------------------
(***************************************************************************)
(* Properties                                                              *)
(***************************************************************************)

\* A path vector router passes over a destination whose path from the last
\* node comes by it (pv.c 127), and keeps whatever route it had.
PassedOver(n, d) ==
    protocol = "pv" /\ PV!LastNode \in Neighbors(topology, n)
                    /\ PV!inPath(node_states[n], n, PV!LastNode, d)

\* No route leads over a link that is down once its end was told, whatever
\* messages are on their way, except where a path vector router passed over
\* the destination (set_route's assertion, routing-simulator.cpp 490-491).
RoutesUseLinks ==
    \A n, d \in Node :
        \/ routes[n][d].hop \in Neighbors(topology, n) \cup {0}
        \/ PassedOver(n, d) \/ Pending(n)

\* The next hop a node tells of is the one it uses (dvrpp.c 80-83: it is
\* kept only with a new cost).
HopsAgree ==
    \A n, d \in Node : routes[n][d].hop = node_states[n].next_hop[d]

\* Distance vectors settle on shortest paths after any link changes, bad news
\* counted up to the end, unless a link came up without changing any cost of
\* one of its ends, which then keeps it to itself; with reverse poisoning also
\* unless a next hop changed and its cost did not.  The instances have no link
\* that costs nothing: bad news does not count up along such links.
DistancesAreShortest ==
    Settled /\ protocol \in {"dv", "dvrpp"} /\ unheard = {}
            /\ (protocol = "dvrpp" => HopsAgree) =>
        LET dist == ShortestWithin(FALSE)
        IN  \A n, d \in Node : n # d => routes[n][d].cost = dist[n][d]

\* Path vectors settle on routes that lead to the destination or to a node that
\* passed it over, and promise no less than the way costs where nobody did,
\* unless a link came up of which one end kept its costs to itself.
PathRoutesArrive ==
    Settled /\ protocol = "pv" /\ unheard = {} =>
        LET dist == ShortestWithin(FALSE)
            over(d) == {m \in Node \ {d} : PassedOver(m, d)}
        IN  \A d \in Node : \A n \in Node \ {d} :
                routes[n][d].hop # 0 =>
                    /\ Follow(n, d, over(d) \cup {d}) \in over(d) \cup {d}
                    /\ over(d) = {} => routes[n][d].cost >= dist[n][d]

\* Once link states settle, each node has the shortest route to each destination
\* of which a shortest way passes only neighbours of the node; elsewhere it has
\* the cheapest of the ways that do, or none, as Dijkstra visits no other nodes
\* (ls.c 89).  Whatever floods crossed, all it needs of the others' link states
\* is what they have.
LinkRoutesAreShortest ==
    Settled /\ protocol = "ls" =>
        LET dist == ShortestWithin(FALSE)
            near == ShortestWithin(TRUE)
        IN  \A n, d \in Node : n # d =>
                \/ routes[n][d].cost = dist[n][d]
                \/ near[n][d] # dist[n][d] /\ routes[n][d].cost = near[n][d]

\* Dijkstra visits every node (the comments of ls.c 80, 85 and 88), so that each
\* node has the shortest route to each destination.  It does not.
EveryNodeIsVisited ==
    Settled /\ protocol = "ls" =>
        LET dist == ShortestWithin(FALSE)
        IN  \A n, d \in Node : n # d => routes[n][d].cost = dist[n][d]

\* Nobody has a version of a node's link state the node does not have, or
\* another link state with its version.
CopiesAreOld == protocol = "ls" => LS!CopiesAreOld

\* After the last link change the messages die out, or the simulator crashed:
\* even costs that count up end, and floods of stale link states too.
Settles == <>[](Settled \/ ~running)

-----------------------------------------------------------------------------
(***************************************************************************)
(* Types                                                                   *)
(***************************************************************************)

Vectors == [Node -> Cost]
Paths == [Node -> 0..N]
LinkStates == [Node -> [version : Nat, link_cost : Vectors]]

Content ==
    CASE protocol \in {"dv", "dvrpp"} -> Vectors
      [] protocol = "pv" -> [data : Vectors, path : [Node -> Paths]]
      [] protocol = "ls" -> LinkStates

RouterState ==
    CASE protocol \in {"dv", "dvrpp"} ->
             [cost : [Node -> Vectors], next_hop : [Node -> 0..N]]
      [] protocol = "pv" ->
             [cost : [Node -> Vectors], next_hop : [Node -> 0..N],
              paths : [Node -> [Node -> Paths]]]
      [] protocol = "ls" -> LinkStates

Messages ==
    {m \in [type : {"message"}, node : Node, neighbor : Node, content : Content] :
        m.node # m.neighbor}

LinkEvents ==
    {e \in [type : {"link"}, node : Node, neighbor : Node, cost : Cost] :
        e.node # e.neighbor}

Route == [hop : 0..N, cost : Cost]

TypeOK ==
    /\ protocol \in {"dv", "dvrpp", "pv", "ls"}
    /\ topology \in [Links -> Cost]
    /\ events \in Seq(LinkEvents \cup Messages)
    /\ later \in Seq(Messages)
    /\ node_states \in [Node -> RouterState]
    /\ routes \in [Node -> [Node -> Route]]
    /\ running \in BOOLEAN
    /\ changed \in 0..MaxChanges

=================================================================================
