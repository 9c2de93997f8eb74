---------------------------- MODULE ReliableDelivery ----------------------------
(***************************************************************************)
(* What the file transfer promises: chunks come into the file one at a     *)
(* time, in their order and each once, for as long as the receiver runs,   *)
(* and either program reports success only when the whole file is there.   *)
(***************************************************************************)
EXTENDS Naturals, FiniteSets

CONSTANT LastChunk  \* the last chunk of the file; empty ones may come after it

VARIABLES
    file,        \* the chunks that were written
    sender,      \* "running", or what the program reported
    receiver

vars == <<file, sender, receiver>>

Init == file = {} /\ sender = "running" /\ receiver = "running"

Reports == {"failure"} \cup IF 0 .. LastChunk \subseteq file THEN {"success"} ELSE {}

Write ==
    /\ receiver = "running"
    /\ file' = file \cup {Cardinality(file)}
    /\ UNCHANGED <<sender, receiver>>

SenderEnds ==
    /\ sender = "running" /\ sender' \in Reports
    /\ UNCHANGED <<file, receiver>>

ReceiverEnds ==
    /\ receiver = "running" /\ receiver' \in Reports
    /\ UNCHANGED <<file, sender>>

Next == Write \/ SenderEnds \/ ReceiverEnds

Spec == Init /\ [][Next]_vars
=================================================================================
