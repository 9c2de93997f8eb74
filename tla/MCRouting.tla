-------------------------------- MODULE MCRouting --------------------------------
(* Four nodes, networks like those of the repository's .net files, and one or  *)
(* two link changes while their messages are on the way or after, for TLC.     *)
EXTENDS Routing

At(a, b, c) == [link |-> <<a, b>>, cost |-> c]

Pair    == <<At(1, 2, 1)>>
Line    == <<At(1, 2, 1), At(2, 3, 1), At(3, 4, 1)>>
Ring    == <<At(1, 2, 1), At(2, 3, 1), At(1, 3, 2)>>
Diamond == <<At(1, 2, 1), At(1, 3, 3), At(2, 3, 1), At(2, 4, 3), At(3, 4, 1)>>
Kite    == <<At(1, 2, 1), At(2, 3, 1), At(1, 3, 1), At(2, 4, 1)>>

FiveNetworks == {Pair, Line, Ring, Diamond, Kite}
OneLine == {Line}

\* One link at a time, or two of node 3's at once, or one end of a link that
\* comes up loses another.
SomeChanges ==
    {<<At(l[1], l[2], c)>> : l \in Links, c \in {1, 2, CostInfinity}} \cup
    {<<At(2, 3, c), At(3, 4, CostInfinity)>> : c \in {1, CostInfinity}} \cup
    {<<At(2, 4, CostInfinity), At(1, 2, 2)>>}
==================================================================================
