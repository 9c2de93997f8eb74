------------------------------ MODULE MCTurmas ------------------------------
(* Small instances of Turmas for TLC. *)
EXTENDS Turmas

CONSTANTS p, s1

TwoServers == {p, s1}

OneStudent == {1}
TwoStudents == {1, 2}

ClientCommands == {"enroll", "discard", "open", "close"}
NoClosing == {"enroll", "discard", "open"}
EveryCommand == AllCommands
=============================================================================
