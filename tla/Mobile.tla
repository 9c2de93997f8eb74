-------------------------------- MODULE Mobile --------------------------------
(***************************************************************************)
(* The mobile of Computer Graphics/Proj1/Proj1.js: branches that hang from *)
(* one another, each turned by a pair of keys, one for either direction,   *)
(* and the wireframe key.  Which camera shows the scene, the angle a       *)
(* branch has reached, the direction and the slide of the whole mobile are *)
(* numbers that no key and no branch depends on and are left out.          *)
(***************************************************************************)
EXTENDS Integers

CONSTANT NumBranches    \* 3 in the source: each hangs from the one before

Branches == 1..NumBranches

VARIABLES
    rotating,    \* userData.rotating of ramo_1, ramo_2 and ramo_3
    wireframe    \* per material

vars == <<rotating, wireframe>>

\* All rods of the three branches are made with one material, 4, 5 and 2 of
\* them; every hanging figure has a material of its own.
MeshesWith == [rods |-> 4 + 5 + 2, figures |-> 1]
Materials == DOMAIN MeshesWith

Init ==
    /\ rotating = [b \in Branches |-> FALSE]
    /\ wireframe = [rods |-> TRUE, figures |-> FALSE]

\* Mutant: only the branch right above is asked.
BranchKey_AsksOne(b) ==
    /\ b > 1 => ~rotating[b - 1]
    /\ rotating' = [c \in Branches |-> IF c < b THEN rotating[c]
                                       ELSE c = b /\ ~rotating[b]]
    /\ UNCHANGED wireframe

\* q and e, a and d, z and c: start or stop branch b, unless a branch it hangs
\* from turns; what hangs from it stops.
BranchKey(b) ==
    /\ \A c \in 1..(b - 1) : ~rotating[c]
    /\ rotating' = [c \in Branches |-> IF c < b THEN rotating[c]
                                       ELSE c = b /\ ~rotating[b]]
    /\ UNCHANGED wireframe

\* 4: the traversal negates wireframe once for every mesh, not per material.
WireframeKey ==
    /\ wireframe' = [m \in Materials |-> IF MeshesWith[m] % 2 = 1
                                         THEN ~wireframe[m] ELSE wireframe[m]]
    /\ UNCHANGED rotating

Next == (\E b \in Branches : BranchKey(b)) \/ WireframeKey

Spec == Init /\ [][Next]_vars

-----------------------------------------------------------------------------
\* At most one branch turns, whichever keys are pressed in whichever order: a
\* branch never turns under one that turns (onKeyDown 226-275).
OneBranchTurns ==
    \A b, c \in Branches : rotating[b] /\ rotating[c] => b = c

\* The rods and the figures are never both drawn as wireframe, nor both solid:
\* the key only swaps them (createRamo1 83, onKeyDown 276-283).
WireframeNeverUniform == wireframe["rods"] # wireframe["figures"]
=============================================================================
