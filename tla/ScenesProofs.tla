------------------------------ MODULE ScenesProofs ------------------------------
(***************************************************************************)
(* The pages of the mobile, the truck and the golf course keep what they   *)
(* promise for any number of branches, any meshes, any window sizes, and   *)
(* any pointers and fingers.  The pages share no state, so that each has   *)
(* an invariant of its own; what BilliardProofs shows of the billiard      *)
(* table holds of it as one of the pages.                                  *)
(***************************************************************************)
EXTENDS Scenes, TLAPS

-----------------------------------------------------------------------------
(* The mobile: which branch turns, and what is drawn as wireframe.         *)

MobileInv ==
    /\ rotating \in [M!Branches -> BOOLEAN]
    /\ \A m \in {"rods", "figures"} : mobileWireframe[m] \in BOOLEAN
    /\ M!OneBranchTurns /\ M!WireframeNeverUniform

\* The first branch is still and the rods alone are wireframe.
LEMMA InitMobile == M!Init => MobileInv
  <1> SUFFICES ASSUME M!Init PROVE MobileInv
    OBVIOUS
  <1>1. \A b \in M!Branches : rotating[b] = FALSE
    BY DEF M!Init
  <1>2. rotating \in [M!Branches -> BOOLEAN] /\ M!OneBranchTurns
    BY <1>1 DEF M!Init, M!OneBranchTurns
  <1>3. mobileWireframe["rods"] = TRUE /\ mobileWireframe["figures"] = FALSE
    BY DEF M!Init
  <1> QED
    BY <1>2, <1>3 DEF MobileInv, M!WireframeNeverUniform

\* Both materials are used by an odd number of meshes, eleven and one.
LEMMA OddMeshes ==
    /\ M!Materials = {"rods", "figures"}
    /\ \A m \in M!Materials : M!MeshesWith[m] % 2 = 1
  <1>1. M!Materials = {"rods", "figures"}
    BY DEF M!Materials, M!MeshesWith
  <1>2. M!MeshesWith["rods"] = 11 /\ M!MeshesWith["figures"] = 1
    BY DEF M!MeshesWith
  <1>3. 11 % 2 = 1 /\ 1 % 2 = 1
    OBVIOUS
  <1>4. \A m \in M!Materials : M!MeshesWith[m] = 11 \/ M!MeshesWith[m] = 1
    BY <1>1, <1>2
  <1> QED
    BY <1>1, <1>3, <1>4

\* A key of a branch leaves no other turning; the wireframe key negates both.
LEMMA MobileKeeps == MobileInv /\ M!Next => MobileInv'
  <1> SUFFICES ASSUME MobileInv, M!Next PROVE MobileInv'
    OBVIOUS
  <1> USE DEF MobileInv, M!OneBranchTurns, M!WireframeNeverUniform
  <1>1. CASE \E b \in M!Branches : M!BranchKey(b)
    <2>1. PICK b \in M!Branches : M!BranchKey(b)
      BY <1>1
    <2>2. /\ mobileWireframe' = mobileWireframe
          /\ rotating' = [c \in M!Branches |-> IF c < b THEN rotating[c]
                                               ELSE c = b /\ ~rotating[b]]
      BY <2>1 DEF M!BranchKey
    <2>3. \A c \in M!Branches : c < b => ~rotating[c]
      BY <2>1, ScenesAssumption DEF M!BranchKey, M!Branches
    <2>4. \A c \in M!Branches : rotating'[c] => c = b
      BY <2>2, <2>3
    <2>5. rotating' \in [M!Branches -> BOOLEAN]
      BY <2>2
    <2> QED
      BY <2>2, <2>4, <2>5
  <1>2. CASE M!WireframeKey
    <2>1. /\ rotating' = rotating
          /\ mobileWireframe' = [m \in M!Materials |-> ~mobileWireframe[m]]
      BY <1>2, OddMeshes DEF M!WireframeKey
    <2> QED
      BY <2>1, OddMeshes
  <1> QED
    BY <1>1, <1>2 DEF M!Next

-----------------------------------------------------------------------------
(* The truck: its materials, its lights and its side camera.  What is      *)
(* remembered of the window is the height the camera fits, and its width   *)
(* or the same height again.                                               *)

TruckInv ==
    /\ truckMaterial \in [T!Parts -> 0..2]
    /\ T!PartsAndHelpersAgree
    /\ spotLight \in [0..2 -> BOOLEAN]
    /\ cameraSide \in Nat \X Nat /\ seen \in Nat \X Nat
    /\ larg = cameraSide[2]
    /\ comp = cameraSide[1] \/ comp = larg
    /\ seen = cameraSide \/ seen[1] = seen[2]

\* The basic materials, no spotlight, and the cameras fit the window.
LEMMA InitTruck == T!Init => TruckInv
  <1> SUFFICES ASSUME T!Init PROVE TruckInv
    OBVIOUS
  <1> USE ScenesAssumption DEF T!Init, T!Basic, T!Spots
  <1>1. truckMaterial \in [T!Parts -> 0..2] /\ T!PartsAndHelpersAgree
        /\ spotLight \in [0..2 -> BOOLEAN]
    <2>1. "floor_mesh" \in T!Parts
      BY DEF T!Parts
    <2> QED
      BY <2>1 DEF T!PartsAndHelpersAgree
  <1>2. PICK w, h \in Sizes \ {0} : /\ cameraSide = <<w, h>> /\ seen = <<w, h>>
                                    /\ larg = h /\ comp = w
    OBVIOUS
  <1>3. w \in Nat /\ h \in Nat
    OBVIOUS
  <1> QED
    BY <1>1, <1>2, <1>3 DEF TruckInv

\* A resize that the side camera sees is a new fit, the fit it has, or that of
\* a square window.
LEMMA ResizeKeeps ==
    ASSUME TruckInv, NEW w \in Nat, NEW h \in Nat, T!FitSideCamera(w, h), seen' = <<w, h>>
    PROVE  /\ cameraSide' \in Nat \X Nat /\ seen' \in Nat \X Nat
           /\ larg' = cameraSide'[2]
           /\ comp' = cameraSide'[1] \/ comp' = larg'
           /\ seen' = cameraSide' \/ seen'[1] = seen'[2]
  <1>1. CASE cameraSide' = <<w, h>> /\ larg' = h /\ comp' \in {w, h}
    BY <1>1
  <1>2. CASE h = larg /\ w = comp /\ UNCHANGED <<cameraSide, larg, comp>>
    <2>1. CASE comp = larg
      BY <1>2, <2>1 DEF TruckInv
    <2>2. CASE comp = cameraSide[1]
      BY <1>2, <2>2 DEF TruckInv
    <2> QED
      BY <2>1, <2>2 DEF TruckInv
  <1> QED
    BY <1>1, <1>2 DEF T!FitSideCamera

\* Every key and every resize keeps the truck's invariant.
LEMMA TruckKeeps == TruckInv /\ T!Next => TruckInv'
  <1> SUFFICES ASSUME TruckInv, T!Next PROVE TruckInv'
    OBVIOUS
  <1> USE DEF T!cameras, T!lights
  <1>1. ASSUME NEW i \in T!Spots \cup {-1}, T!turnOnOffLight(i) PROVE TruckInv'
    <2>1. UNCHANGED <<truckMaterial, cameraSide, larg, comp, seen>>
      BY <1>1 DEF T!turnOnOffLight
    <2>2. spotLight' = spotLightHelper' /\ spotLight' \in [0..2 -> BOOLEAN]
      BY <1>1 DEF T!turnOnOffLight, TruckInv, T!PartsAndHelpersAgree, T!Spots
    <2> QED
      BY <2>1, <2>2 DEF TruckInv, T!PartsAndHelpersAgree
  <1>2. ASSUME NEW k \in 0..2, T!Assign(T!Body \cup T!Tires, k) PROVE TruckInv'
    <2>1. T!Body \cup T!Tires = T!Parts /\ "floor_mesh" \in T!Parts
      BY DEF T!Body, T!Tires, T!Parts
    <2>2. truckMaterial' = [p \in T!Parts |-> k]
      BY <1>2, <2>1 DEF T!Assign
    <2> QED
      BY <1>2, <2>1, <2>2 DEF T!Assign, TruckInv, T!PartsAndHelpersAgree
  <1>3. CASE T!changeCalcusMaterial \/ T!changeShading
    BY <1>2, <1>3 DEF T!changeCalcusMaterial, T!changeShading, T!Basic, T!Lambert, T!Phong
  <1>4. ASSUME NEW c, T!ChooseCamera(c) PROVE TruckInv'
    BY <1>4 DEF T!ChooseCamera, TruckInv, T!PartsAndHelpersAgree
  <1>5. ASSUME NEW w \in Sizes, NEW h \in Sizes, T!onResize(w, h) PROVE TruckInv'
    <2>1. UNCHANGED <<truckMaterial, spotLight, spotLightHelper>>
      BY <1>5 DEF T!onResize
    <2>2. CASE UNCHANGED <<cameraSide, larg, comp, seen>>
      BY <2>1, <2>2 DEF TruckInv, T!PartsAndHelpersAgree
    <2>3. CASE T!FitSideCamera(w, h) /\ seen' = <<w, h>>
      BY <2>1, <2>3, ResizeKeeps, ScenesAssumption DEF TruckInv, T!PartsAndHelpersAgree
    <2> QED
      BY <1>5, <2>2, <2>3 DEF T!onResize
  <1> QED
    BY <1>1, <1>3, <1>4, <1>5 DEF T!Next, T!onKeyDown

-----------------------------------------------------------------------------
(* The golf course: its meshes, and the gestures of OrbitControls.         *)

GolfInv ==
    /\ material \in [Meshes -> 0..1]
    /\ wireframe \in [Meshes -> [0..1 -> BOOLEAN]]
    /\ G!MeshesLookAlike
    /\ O!GesturesAreHeld

\* The Phong materials, nothing as wireframe, and no gesture.
LEMMA InitGolf == G!Init => GolfInv
  <1> SUFFICES ASSUME G!Init PROVE GolfInv
    OBVIOUS
  <1>1. /\ material \in [Meshes -> 0..1] /\ wireframe \in [Meshes -> [0..1 -> BOOLEAN]]
        /\ G!MeshesLookAlike
    BY ScenesAssumption DEF G!Init, G!Kinds, G!MeshesLookAlike
  <1>2. O!GesturesAreHeld
    BY DEF G!Init, G!Orbit!Init, O!GesturesAreHeld, O!DragIsListenedTo,
           O!ListenersHaveAPointer, O!GestureHasItsFingers, O!DragStates
  <1> QED
    BY <1>1, <1>2 DEF GolfInv

\* Setting one kind of material of all meshes keeps them alike.
LEMMA ShownAlike ==
    ASSUME GolfInv, NEW k \in 0..1, NEW mat, mat = [m \in Meshes |-> k],
           NEW on \in BOOLEAN, G!SetShown(mat, on)
    PROVE  /\ wireframe' \in [Meshes -> [0..1 -> BOOLEAN]]
           /\ \A m \in Meshes : wireframe'[m] = wireframe'[Floor]
  <1>1. \A m \in Meshes : wireframe'[m] = [wireframe[m] EXCEPT ![k] = on]
    BY DEF G!SetShown
  <1>2. \A m \in Meshes : wireframe'[m] \in [0..1 -> BOOLEAN]
    <2> TAKE m \in Meshes
    <2>1. wireframe[m] \in [0..1 -> BOOLEAN]
      BY DEF GolfInv
    <2> QED
      BY <1>1, <2>1, Zenon
  <1>3. wireframe' \in [Meshes -> [0..1 -> BOOLEAN]]
    BY <1>2 DEF G!SetShown
  <1>4. \A m \in Meshes : wireframe'[m] = wireframe'[Floor]
    BY <1>1, ScenesAssumption DEF GolfInv, G!MeshesLookAlike
  <1> QED
    BY <1>3, <1>4

\* The meshes look alike after any step of the page.
LEMMA LookKeeps ==
    ASSUME GolfInv, G!Next
    PROVE  /\ material' \in [Meshes -> 0..1]
           /\ wireframe' \in [Meshes -> [0..1 -> BOOLEAN]]
           /\ G!MeshesLookAlike'
  <1> DEFINE Goal == /\ material' \in [Meshes -> 0..1]
                     /\ wireframe' \in [Meshes -> [0..1 -> BOOLEAN]]
                     /\ G!MeshesLookAlike'
  <1> USE DEF G!flags, G!look, G!ball, G!orbit
  <1>0. Floor \in Meshes
    BY ScenesAssumption
  <1>1. CASE UNCHANGED <<material, wireframe>>
    BY <1>1 DEF GolfInv, G!MeshesLookAlike
  <1>2. ASSUME NEW k \in 0..1, material' = [m \in Meshes |-> k],
               wireframe' \in [Meshes -> [0..1 -> BOOLEAN]],
               \A m \in Meshes : wireframe'[m] = wireframe'[Floor]
        PROVE  Goal
    BY <1>0, <1>2 DEF G!MeshesLookAlike
  <1>3. CASE G!changeCalcusMaterial
    <2> DEFINE k == 1 - material[Floor]
               mat == [m \in Meshes |-> k]
    <2>1. k \in 0..1
      BY <1>0 DEF GolfInv
    <2>2. material' = mat
      BY <1>3 DEF G!changeCalcusMaterial
    <2>3. CASE UNCHANGED wireframe
      BY <1>2, <2>1, <2>2, <2>3 DEF GolfInv, G!MeshesLookAlike
    <2>4. CASE G!SetShown(mat, ~wireframe[Floor][k])
      <3>1. (~wireframe[Floor][k]) \in BOOLEAN
        OBVIOUS
      <3> HIDE DEF k
      <3> QED
        BY <1>2, <2>1, <2>2, <2>4, <3>1, ShownAlike
    <2> QED
      BY <1>3, <2>3, <2>4 DEF G!changeCalcusMaterial
  <1>4. CASE G!changeWireframe
    <2>1. material' = material /\ G!SetShown(material, ~G!Shown(Floor))
      BY <1>4 DEF G!changeWireframe
    <2>2. material = [m \in Meshes |-> material[Floor]] /\ material[Floor] \in 0..1
      BY <1>0 DEF GolfInv, G!MeshesLookAlike
    <2>3. (~G!Shown(Floor)) \in BOOLEAN
      OBVIOUS
    <2> QED
      BY <1>2, <2>1, <2>2, <2>3, ShownAlike
  <1>5. CASE G!resetScene
    <2>1. /\ material' = [m \in Meshes |-> 1]
          /\ G!SetShown([m \in Meshes |-> 1], FALSE)
      BY <1>5 DEF G!resetScene
    <2>2. 1 \in 0..1 /\ FALSE \in BOOLEAN
      OBVIOUS
    <2>3. /\ wireframe' \in [Meshes -> [0..1 -> BOOLEAN]]
          /\ \A m \in Meshes : wireframe'[m] = wireframe'[Floor]
      BY <2>1, <2>2, ShownAlike
    <2> QED
      BY <1>2, <2>1, <2>2, <2>3
  <1>6. CASE G!SceneKey
    BY <1>1, <1>3, <1>4, <1>6 DEF G!SceneKey
  <1>7. CASE G!PauseKey \/ G!RefreshKey \/ G!OrbitEvent
    BY <1>1, <1>7 DEF G!PauseKey, G!RefreshKey, G!OrbitEvent
  <1>8. CASE G!animate
    BY <1>1, <1>5, <1>8 DEF G!animate
  <1> QED
    BY <1>6, <1>7, <1>8 DEF G!Next

\* Every handler of OrbitControls leaves the gestures held.
LEMMA OrbitKeeps == O!GesturesAreHeld /\ O!Next => O!GesturesAreHeld'
  <1> SUFFICES ASSUME O!GesturesAreHeld, O!Next PROVE O!GesturesAreHeld'
    OBVIOUS
  <1> USE DEF O!GesturesAreHeld, O!DragIsListenedTo, O!ListenersHaveAPointer,
              O!GestureHasItsFingers, O!DragStates
  <1>1. ASSUME NEW p \in Pointers, NEW a \in O!DragStates \cup {"NONE"}, O!onMouseDown(p, a)
        PROVE  O!GesturesAreHeld'
    BY <1>1 DEF O!onMouseDown
  <1>2. ASSUME NEW p \in Pointers, O!onMouseUp(p) PROVE O!GesturesAreHeld'
    BY <1>2 DEF O!onMouseUp
  <1>3. ASSUME NEW p \in Pointers, O!PointerCancelled(p) PROVE O!GesturesAreHeld'
    BY <1>3 DEF O!PointerCancelled
  <1>4. CASE O!onMouseMove \/ O!onMouseWheel
    BY <1>4 DEF O!onMouseMove, O!onMouseWheel
  <1>5. CASE O!onTouchStart
    BY <1>5 DEF O!onTouchStart
  <1>6. CASE O!onTouchMove \/ O!onTouchEnd \/ O!TouchCancelled
    BY <1>6 DEF O!onTouchMove, O!onTouchEnd, O!TouchCancelled
  <1> QED
    BY <1>1, <1>2, <1>3, <1>4, <1>5, <1>6 DEF O!Next

\* The controls in the page are the controls on their own.
LEMMA SameControls == G!Orbit!Next => O!Next
  BY DEF G!Orbit!Next, O!Next, G!Orbit!DragStates, O!DragStates,
         G!Orbit!onMouseDown, O!onMouseDown, G!Orbit!onMouseUp, O!onMouseUp,
         G!Orbit!PointerCancelled, O!PointerCancelled, G!Orbit!onMouseMove, O!onMouseMove,
         G!Orbit!onMouseWheel, O!onMouseWheel, G!Orbit!onTouchStart, O!onTouchStart,
         G!Orbit!onTouchMove, O!onTouchMove, G!Orbit!onTouchEnd, O!onTouchEnd,
         G!Orbit!TouchCancelled, O!TouchCancelled

\* No step of the page but the controls' own touches a gesture.
LEMMA GolfKeeps == GolfInv /\ G!Next => GolfInv'
  <1> SUFFICES ASSUME GolfInv, G!Next PROVE GolfInv'
    OBVIOUS
  <1>1. O!GesturesAreHeld'
    <2>1. CASE UNCHANGED <<state, listening, pressed, fingers, cancelled>>
      BY <2>1 DEF GolfInv, O!GesturesAreHeld, O!DragIsListenedTo,
                  O!ListenersHaveAPointer, O!GestureHasItsFingers
    <2>2. CASE G!OrbitEvent
      BY <2>2, SameControls, OrbitKeeps DEF G!OrbitEvent, GolfInv
    <2> QED
      BY <2>1, <2>2 DEF G!Next, G!SceneKey, G!PauseKey, G!RefreshKey, G!animate,
                        G!resetScene, G!orbit
  <1> QED
    BY <1>1, LookKeeps DEF GolfInv

-----------------------------------------------------------------------------
(* The pages together: a page that is closed does not change.              *)

PagesInv == MobileInv /\ TruckInv /\ GolfInv

\* All pages start as their invariants say.
LEMMA InitPages == Init => PagesInv
  BY InitMobile, InitTruck, InitGolf DEF Init, PagesInv

\* A step is one of the page that is open, or none.
LEMMA StepPages == PagesInv /\ [Next]_vars => PagesInv'
  <1> SUFFICES ASSUME PagesInv, [Next]_vars PROVE PagesInv'
    OBVIOUS
  <1>1. UNCHANGED mobileVars => MobileInv'
    BY DEF mobileVars, PagesInv, MobileInv, M!OneBranchTurns, M!WireframeNeverUniform
  <1>2. UNCHANGED truckVars => TruckInv'
    BY DEF truckVars, PagesInv, TruckInv, T!PartsAndHelpersAgree
  <1>3. UNCHANGED golfVars => GolfInv'
    BY DEF golfVars, PagesInv, GolfInv, G!MeshesLookAlike, O!GesturesAreHeld,
           O!DragIsListenedTo, O!ListenersHaveAPointer, O!GestureHasItsFingers
  <1>4. CASE Mobile
    BY <1>2, <1>3, <1>4, MobileKeeps DEF Mobile, PagesInv
  <1>5. CASE Truck
    BY <1>1, <1>3, <1>5, TruckKeeps DEF Truck, PagesInv
  <1>6. CASE Golf
    BY <1>1, <1>2, <1>6, GolfKeeps DEF Golf, PagesInv
  <1>7. CASE Billiard
    BY <1>1, <1>2, <1>3, <1>7 DEF Billiard, PagesInv
  <1>8. CASE UNCHANGED vars
    BY <1>1, <1>2, <1>3, <1>8 DEF vars, PagesInv
  <1> QED
    BY <1>4, <1>5, <1>6, <1>7, <1>8 DEF Next

\* Whatever keys are pressed in whichever order: one branch of the mobile turns
\* at a time, rods and figures are never both wireframe nor both solid, the
\* truck's parts have one kind of material and its spotlights their helpers, and
\* the golf course's meshes look alike (onKeyDown of these pages).
THEOREM HandlersKeepAgreeing == Spec => []HandlersAgree
  <1>1. PagesInv => HandlersAgree
    BY DEF PagesInv, MobileInv, TruckInv, GolfInv, HandlersAgree
  <1> QED
    BY <1>1, InitPages, StepPages, PTL DEF Spec

\* Whatever sizes the window is given: the side camera of the truck fits the
\* window of the last resize that happened while it was the active camera, or
\* that window was square (onResize of Proj3.js).
THEOREM SideCameraKeepsFitting == Spec => []SideCameraFits
  <1>1. PagesInv => SideCameraFits
    <2> SUFFICES ASSUME PagesInv, seen = cameraSide
                 PROVE  cameraSide[1] * seen[2] = cameraSide[2] * seen[1]
      BY DEF PagesInv, TruckInv, SideCameraFits, T!SideCameraFits, T!Fits
    <2>1. cameraSide[1] \in Nat /\ cameraSide[2] \in Nat
      BY DEF PagesInv, TruckInv
    <2> QED
      BY <2>1
  <1> QED
    BY <1>1, InitPages, StepPages, PTL DEF Spec

\* However many mice, pens and fingers share the one state of OrbitControls, a
\* drag under way is listened to, nobody listens without a button held, and a
\* pinch has its two fingers, but for what the browser cancels.
THEOREM GesturesStayHeld == Spec => []GesturesAreHeld
  <1>1. PagesInv => GesturesAreHeld
    BY DEF PagesInv, GolfInv, GesturesAreHeld
  <1> QED
    BY <1>1, InitPages, StepPages, PTL DEF Spec

-----------------------------------------------------------------------------
(* The billiard table is proved by itself; the other pages leave it alone. *)
BP == INSTANCE BilliardProofs

\* The table that is proved is the table of the pages.
LEMMA SameTable ==
    /\ B!Init => BP!Init
    /\ B!Next => BP!Next
    /\ BP!vars = B!vars
  <1>1. ASSUME NEW k, B!callTaco(k) PROVE BP!callTaco(k)
    BY <1>1 DEF B!callTaco, BP!callTaco, B!checkBallPlace, BP!checkBallPlace,
                B!createBall, BP!createBall, B!Idle, BP!Idle, B!falling, BP!falling,
                B!view, BP!view
  <1>2. B!Space => BP!Space
    BY DEF B!Space, BP!Space, B!RedCue, BP!RedCue, B!Idle, BP!Idle, B!falling, BP!falling,
           B!view, BP!view
  <1>3. B!FixedCamera => BP!FixedCamera
    BY DEF B!FixedCamera, BP!FixedCamera, B!Idle, BP!Idle, B!selection, BP!selection,
           B!falling, BP!falling
  <1>4. B!MobileCamera => BP!MobileCamera
    BY DEF B!MobileCamera, BP!MobileCamera, B!Idle, BP!Idle, B!selection, BP!selection,
           B!falling, BP!falling
  <1>5. ASSUME NEW keys, B!FrameThrows(keys) PROVE BP!FrameThrows(keys)
    BY <1>5 DEF B!FrameThrows, BP!FrameThrows, B!ColourThrows, BP!ColourThrows,
                B!SteerThrows, BP!SteerThrows, B!Steers, BP!Steers, B!TacoAfterColour,
                BP!TacoAfterColour, B!CueAfterColour, BP!CueAfterColour, B!RedCue,
                BP!RedCue, B!Idle, BP!Idle, B!falling, BP!falling, B!view, BP!view
  <1>6. ASSUME NEW keys, B!FrameCompletes(keys) PROVE BP!FrameCompletes(keys)
    BY <1>6 DEF B!FrameCompletes, BP!FrameCompletes, B!ColourThrows, BP!ColourThrows,
                B!SteerThrows, BP!SteerThrows, B!Steers, BP!Steers, B!Steered, BP!Steered,
                B!TacoAfterColour, BP!TacoAfterColour, B!CueAfterColour,
                BP!CueAfterColour, B!RedCue, BP!RedCue, B!AfterShot, BP!AfterShot,
                B!Balls, BP!Balls, B!Idle, BP!Idle, B!falling, BP!falling, B!view, BP!view
  <1>7. ASSUME NEW i, B!UpdateBall(i) PROVE BP!UpdateBall(i)
    <2>1. ASSUME NEW b PROVE BP!Moved(b) = B!Moved(b)
      BY DEF B!Moved, BP!Moved, B!Rolled, BP!Rolled
    <2>2. ASSUME NEW bs, B!checkCollisionBall(bs, i) PROVE BP!checkCollisionBall(bs, i)
      BY <2>2, Zenon DEF B!checkCollisionBall, BP!checkCollisionBall, B!Balls, BP!Balls,
                         B!Speeds, BP!Speeds
    <2>3. PICK b \in B!Moved(ball[i]), o \in BOOLEAN :
              /\ ~ball[i].moving => o = ball[i].over
              /\ B!StopEffects(i, ball[i].moving /\ ~b.moving)
              /\ B!checkCollisionBall([ball EXCEPT ![i] = [b EXCEPT !.over = o]], i)
              /\ B!checkCollisionHoles(i, o)
      BY <1>7, Zenon DEF B!UpdateBall
    <2>4. /\ BP!StopEffects(i, ball[i].moving /\ ~b.moving)
          /\ BP!checkCollisionHoles(i, o)
      BY <2>3, Zenon DEF B!StopEffects, BP!StopEffects, B!view, BP!view, B!checkCollisionHoles,
                         BP!checkCollisionHoles
    <2>5. BP!checkCollisionBall([ball EXCEPT ![i] = [b EXCEPT !.over = o]], i)
      BY <2>2, <2>3
    <2>6. b \in BP!Moved(ball[i])
      BY <2>1, <2>3
    <2> QED
      BY <1>7, <2>3, <2>4, <2>5, <2>6, Zenon
         DEF B!UpdateBall, BP!UpdateBall, B!Idle, BP!Idle
  <1>8. B!Init => BP!Init
    BY DEF B!Init, BP!Init, B!Cues, BP!Cues, B!Balls, BP!Balls, B!createBall,
           BP!createBall, B!Idle, BP!Idle
  <1>9. BP!vars = B!vars
    BY DEF B!vars, BP!vars, B!selection, BP!selection, B!falling, BP!falling, B!view,
           BP!view
  <1>10. B!Next => BP!Next
    BY <1>1, <1>2, <1>3, <1>4, <1>5, <1>6, <1>7, Zenon
       DEF B!Next, BP!Next, B!onKeyDown, BP!onKeyDown, B!animate, BP!animate,
           B!update, BP!update, B!Cues, BP!Cues, B!Balls, BP!Balls, B!Keys, BP!Keys
  <1> QED
    BY <1>8, <1>9, <1>10

\* Whatever page is open, the table does what it would by itself.
LEMMA TableByItself == Spec => BP!Spec
  <1>1. Init => BP!Init
    BY SameTable DEF Init
  <1>2. [Next]_vars => [BP!Next]_(BP!vars)
    <2>1. CASE Billiard
      BY <2>1, SameTable DEF Billiard
    <2>2. CASE Mobile \/ Truck \/ Golf \/ UNCHANGED vars
      BY <2>2 DEF Mobile, Truck, Golf, vars, tableVars, BP!vars, BP!selection, BP!falling, BP!view
    <2> QED
      BY <2>1, <2>2 DEF Next
  <1> QED
    BY <1>1, <1>2, PTL DEF Spec, BP!Spec

\* At most one cue of the table is red or turned, and it is the selected one, for
\* any numbers of cues and balls (AtMostOneRedCue of BilliardProofs).
THEOREM TableHasOneRedCue == Spec => []OneRedCue
  <1>1. BP!Spec => []BP!OneRedCue
    BY TableAssumption, BP!AtMostOneRedCue
  <1>2. BP!OneRedCue => OneRedCue
    BY DEF OneRedCue, B!OneRedCue, BP!OneRedCue, B!Cues, BP!Cues
  <1> QED
    BY <1>1, <1>2, TableByItself, PTL

\* The ball of a chosen cue lies where it was put until the shot (AimedBallStays
\* of BilliardProofs).
THEOREM TableAimedBallStays == Spec => []AimedBallIsHome
  <1>1. BP!Spec => []BP!AimedBallIsHome
    BY TableAssumption, BP!AimedBallStays
  <1>2. BP!AimedBallIsHome => AimedBallIsHome
    BY Zenon DEF AimedBallIsHome, B!AimedBallIsHome, BP!AimedBallIsHome, B!Aimed, BP!Aimed,
                 B!Cues, BP!Cues, B!createBall, BP!createBall
  <1> QED
    BY <1>1, <1>2, TableByItself, PTL

\* Only a careless key ends the table's frames (CarefulUserKeepsFrames of
\* BilliardProofs).
THEOREM TableKeepsFrames == Spec => []KeepsRunning
  <1>1. BP!Spec => []BP!KeepsRunning
    BY TableAssumption, BP!CarefulUserKeepsFrames
  <1>2. BP!KeepsRunning => KeepsRunning
    BY DEF KeepsRunning, B!KeepsRunning, BP!KeepsRunning
  <1> QED
    BY <1>1, <1>2, TableByItself, PTL

\* A shot asked for with one cue is never taken with another
\* (ShotsTakenWithRedCue of BilliardProofs).
THEOREM TableShotsAimed == Spec => ShotsAreAimed
  <1>1. BP!Spec => BP!ShotsAreAimed
    BY TableAssumption, BP!ShotsTakenWithRedCue
  <1>2. BP!ShotsAreAimed => ShotsAreAimed
    BY PTL DEF ShotsAreAimed, B!ShotsAreAimed, BP!ShotsAreAimed, B!Cues, BP!Cues,
               B!vars, BP!vars, B!selection, BP!selection, B!falling, BP!falling,
               B!view, BP!view
  <1> QED
    BY <1>1, <1>2, TableByItself, PTL
=============================================================================
