--------------------------- MODULE MCTecnicoFSServer ---------------------------
(* Two clients of two users, two buckets and a full table, for TLC. *)
EXTENDS TecnicoFSServer

CONSTANTS c1, c2, a1, a2, b1

TwoUsers == [c \in {c1, c2} |-> IF c = c1 THEN 1 ELSE 2]

\* Two names that begin alike, and one that does not.
FirstLetter == [n \in {a1, a2, b1} |-> IF n = b1 THEN "b" ELSE "a"]

SomeRequests ==
    [op : {"create"}, name : {a1, a2, b1}, owner : {RW}, others : {READ}]
        \cup [op : {"delete"}, name : {a1, a2}]
        \cup [op : {"open"}, name : {a1}, mode : {READ, WRITE}]
        \cup {[op |-> "rename", name |-> n[1], new |-> n[2]] :
                 n \in {<<a1, a2>>, <<a1, b1>>, <<b1, a2>>}}
        \cup [op : {"read", "write"}, fd : {0}]
        \cup [op : {"close"}, name : {a1}]
=================================================================================
