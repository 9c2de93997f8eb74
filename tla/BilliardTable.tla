----------------------------- MODULE BilliardTable -----------------------------
(* What is on the table of Billiard, for it and for the pages together. *)
EXTENDS Integers

CONSTANTS
    NumCues,      \* cues, and balls in front of them: 6 in the source
    NumBalls,     \* all balls: 21 in the source
    AngleLimit    \* PI/3 in steps of PI/1000: 333 in the source

ASSUME TableAssumption ==
    /\ NumCues \in Nat \ {0}
    /\ NumBalls \in Nat /\ NumBalls >= NumCues
    /\ AngleLimit \in Nat
===============================================================================
