-------------------------------- MODULE Scenes --------------------------------
(***************************************************************************)
(* The pages of Computer Graphics: the mobile (Proj1), the billiard table  *)
(* (Proj2), the truck (Proj3) and the golf course (Proj4).  Each is a      *)
(* program of its own; a browser window shows one of them, and the         *)
(* programs of the others do not run.                                      *)
(***************************************************************************)
EXTENDS BilliardTable

CONSTANTS
    NumBranches,                            \* of Mobile
    Sizes,                                  \* of Truck
    Meshes, Floor, Pointers, MaxFingers     \* of Golf

ASSUME ScenesAssumption ==
    /\ NumBranches \in Nat /\ MaxFingers \in Nat
    /\ Floor \in Meshes
    /\ Sizes \subseteq Nat /\ Sizes \ {0} # {}

VARIABLES
    page,
    rotating, mobileWireframe,
    selectedTaco, selectedBall, changeColor, tacada, cue, ball,
    infinite, ballInfinite, camera, mount, running, at, careless,
    truckMaterial, truckLight, spotLight, spotLightHelper,
    activeCamera, cameraPersp, cameraSide, larg, comp, seen, win,
    pause_screen, reset, dirLight, pointLight, material, wireframe,
    movingBall, ballHome, state, listening, pressed, fingers, cancelled, view

M == INSTANCE Mobile WITH wireframe <- mobileWireframe
B == INSTANCE Billiard
T == INSTANCE Truck WITH material <- truckMaterial, dirLight <- truckLight
G == INSTANCE Golf
O == INSTANCE OrbitControls

mobileVars == <<rotating, mobileWireframe>>
tableVars  == <<selectedTaco, selectedBall, changeColor, tacada, cue, ball,
                infinite, ballInfinite, camera, mount, running, at, careless>>
truckVars  == <<truckMaterial, truckLight, spotLight, spotLightHelper,
                activeCamera, cameraPersp, cameraSide, larg, comp, seen, win>>
golfVars   == <<pause_screen, reset, dirLight, pointLight, material, wireframe,
                movingBall, ballHome, state, listening, pressed, fingers,
                cancelled, view>>
vars == <<page, mobileVars, tableVars, truckVars, golfVars>>

\* The pages that are closed stay as they would first appear, in one window.
Init ==
    /\ page \in {"mobile", "billiard", "truck", "golf"}
    /\ M!Init /\ B!Init /\ T!Init /\ G!Init
    /\ page # "truck" => win = CHOOSE w \in (Sizes \ {0}) \X (Sizes \ {0}) : TRUE

Mobile   == /\ page = "mobile" /\ M!Next
            /\ UNCHANGED <<page, tableVars, truckVars, golfVars>>
Billiard == /\ page = "billiard" /\ B!Next
            /\ UNCHANGED <<page, mobileVars, truckVars, golfVars>>
Truck    == /\ page = "truck" /\ T!Next
            /\ UNCHANGED <<page, mobileVars, tableVars, golfVars>>
Golf     == /\ page = "golf" /\ G!Next
            /\ UNCHANGED <<page, mobileVars, tableVars, truckVars>>

Next == Mobile \/ Billiard \/ Truck \/ Golf

GolfFrame ==
    /\ page = "golf" /\ G!animate
    /\ UNCHANGED <<page, mobileVars, tableVars, truckVars>>

\* The browser goes on asking for frames.
Spec == Init /\ [][Next]_vars /\ WF_vars(GolfFrame)

-----------------------------------------------------------------------------
\* What several handlers change stays together, whichever keys are pressed in
\* whichever order: one branch of the mobile turns at a time and never under
\* another, its rods and figures are never both wireframe nor both solid, the
\* truck has one kind of material and its helpers are on with their lights, the
\* golf course's meshes look alike with either kind of material (onKeyDown and
\* what it calls, of Proj1.js, Proj3.js and Proj4.js).
HandlersAgree ==
    /\ M!OneBranchTurns /\ M!WireframeNeverUniform
    /\ T!PartsAndHelpersAgree /\ G!MeshesLookAlike

\* The truck's side camera fits the window of the last resize that happened
\* while it was active, unless that window is square (Proj3.js 447-463).
SideCameraFits == T!SideCameraFits

\* A refresh of the golf course that was asked for is done, completely, even
\* when the pause screen was closed first (Proj4.js 326-405).
RefreshIsDone == G!RefreshIsDone

\* A gesture under way is attended to, and only while it is made, whatever
\* pointers and fingers do at once (OrbitControls.js 767-1151).
GesturesAreHeld == O!GesturesAreHeld

\* At most the selected cue of the billiard table is red or turned (Proj2.js
\* 367-463).
OneRedCue == B!OneRedCue

\* The ball put in front of a chosen cue lies there, in line with the cue, until
\* the shot, whatever updates are still queued (Proj2.js 513-648).
AimedBallIsHome == B!AimedBallIsHome

\* The table's frames only end after a careless key (Proj2.js 382-511, 650-662).
KeepsRunning == B!KeepsRunning

\* A shot asked for with one cue is never taken with another (Proj2.js 367-511).
ShotsAreAimed == B!ShotsAreAimed
=============================================================================
