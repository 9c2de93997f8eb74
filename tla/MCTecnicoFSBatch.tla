-------------------------- MODULE MCTecnicoFSBatch --------------------------
(* Small instances of TecnicoFSBatch for TLC. *)
EXTENDS TecnicoFSBatch

CONSTANTS a, b, d

Cmd(token, name) == [token |-> token, name |-> name, newName |-> name]
Ren(name, newName) == [token |-> "r", name |-> name, newName |-> newName]

\* Every kind of line, and names that other commands use while they are renamed.
EveryCommand ==
    <<Cmd("c", a), Cmd("#", a), Ren(a, b), Cmd("c", a), Ren(b, d), Cmd("l", b), Cmd("d", a)>>

\* Two files are created.
TwoCommands == <<Cmd("c", a), Cmd("c", b)>>
=============================================================================
