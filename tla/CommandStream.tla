---------------------------- MODULE CommandStream ----------------------------
(***************************************************************************)
(* What the workers of the batch TecnicoFS promise together: the commands of *)
(* the input are handed out one at a time, in their order and each once, and *)
(* a worker stops only when all of them have been handed out.                *)
(***************************************************************************)
EXTENDS Naturals, Sequences

CONSTANTS Workers, Commands

VARIABLES
    taken,   \* the commands handed out so far
    stopped  \* the workers that have ended

Init == taken = <<>> /\ stopped = {}

HandOut ==
    /\ Len(taken) < Len(Commands)
    /\ taken' = Append(taken, Commands[Len(taken) + 1])
    /\ UNCHANGED stopped

Stop(w) ==
    /\ taken = Commands
    /\ w \notin stopped
    /\ stopped' = stopped \cup {w}
    /\ UNCHANGED taken

Next == HandOut \/ \E w \in Workers : Stop(w)

Spec == Init /\ [][Next]_<<taken, stopped>>
=============================================================================
