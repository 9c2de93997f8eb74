-------------------------------- MODULE Truck ---------------------------------
(***************************************************************************)
(* The lit truck of Computer Graphics/Proj3/Proj3.js: materials that are   *)
(* exchanged together, spotlights with their helpers, and two cameras that *)
(* must follow the size of the window.  A camera is represented by the     *)
(* window size it was last fitted to.  The turning of the base by the      *)
(* arrow keys changes an angle that nothing else reads and is left out.    *)
(***************************************************************************)
EXTENDS Integers

CONSTANT Sizes     \* widths and heights the window may have

\* The meshes that have three materials and whose material changes; the lamps
\* keep theirs.
Tires == {"chassiTires0", "chassiTires1", "chassiTires2", "chassiTires3"}
Parts == {"floor_mesh", "base_mesh", "chassi", "carrocaria", "glassSide", "glassFront"}
             \cup Tires

\* The three materials of a part, by their index in its array.
Basic == 0
Lambert == 1
Phong == 2
Spots == 0..2

VARIABLES
    material,          \* per part, the index of the one in use
    dirLight,          \* the directional light is visible
    spotLight,         \* per spotlight, visible or not
    spotLightHelper,
    activeCamera,
    cameraPersp,       \* the window size the perspective camera fits
    cameraSide,        \* the window size the side camera fits
    larg, comp,        \* last height and width, as onResize keeps them
    seen,              \* the size at the last resize with the side camera
    win                \* window.innerWidth and window.innerHeight

lights  == <<dirLight, spotLight, spotLightHelper>>
cameras == <<activeCamera, cameraPersp, cameraSide, larg, comp, seen, win>>
vars == <<material, lights, cameras>>

\* The spotlights are switched off by init, helpers with them.
Init ==
    /\ material = [p \in Parts |-> Basic]
    /\ dirLight = TRUE
    /\ spotLight = [i \in Spots |-> FALSE]
    /\ spotLightHelper = [i \in Spots |-> FALSE]
    /\ activeCamera = "persp"
    /\ \E w, h \in Sizes \ {0} :
        /\ win = <<w, h>> /\ cameraPersp = win /\ cameraSide = win /\ seen = win
        /\ larg = h /\ comp = w

turnOnOffLight(i) ==
    /\ \/ /\ i \in Spots
          /\ spotLight' = [spotLight EXCEPT ![i] = ~@]
          /\ spotLightHelper' = [spotLightHelper EXCEPT ![i] = ~@]
          /\ UNCHANGED dirLight
       \/ /\ i = -1
          /\ dirLight' = ~dirLight
          /\ UNCHANGED <<spotLight, spotLightHelper>>
    /\ UNCHANGED <<material, cameras>>

\* The parts named are given the material k of their arrays.
Assign(parts, k) ==
    /\ material' = [p \in Parts |-> IF p \in parts THEN k ELSE material[p]]
    /\ UNCHANGED <<lights, cameras>>

\* The assignments written out in each branch of the two functions, before the
\* loop over the tires.
Body == {"floor_mesh", "base_mesh", "chassi", "carrocaria", "glassSide", "glassFront"}

changeCalcusMaterial ==
    \/ /\ material["floor_mesh"] = Basic
       /\ Assign(Body \cup Tires, Lambert)
    \/ /\ material["floor_mesh"] \in {Lambert, Phong}
       /\ Assign(Body \cup Tires, Basic)

\* Mutant: one of the two branches forgets the tires.
changeShading_ForgetsTires ==
    \/ /\ material["floor_mesh"] = Lambert
       /\ Assign(Body \cup Tires, Phong)
    \/ /\ material["floor_mesh"] = Phong
       /\ Assign(Body, Lambert)

changeShading ==
    \/ /\ material["floor_mesh"] = Lambert
       /\ Assign(Body \cup Tires, Phong)
    \/ /\ material["floor_mesh"] = Phong
       /\ Assign(Body \cup Tires, Lambert)

ChooseCamera(c) ==
    /\ activeCamera' = c
    /\ UNCHANGED <<material, lights, cameraPersp, cameraSide, larg, comp, seen, win>>

\* Mutant: only the height is looked at.
FitSideCamera_ByHeight(w, h) ==
    \/ h # larg /\ cameraSide' = <<w, h>> /\ larg' = h /\ comp' = h
    \/ h = larg /\ UNCHANGED <<cameraSide, larg, comp>>

\* The side camera is fitted to a change of height, or else of width, against
\* what is remembered of the last time; a change of height is remembered as
\* both (line 453).
FitSideCamera(w, h) ==
    \/ h # larg /\ cameraSide' = <<w, h>> /\ larg' = h /\ comp' = h
    \/ h = larg /\ w # comp /\ cameraSide' = <<w, h>> /\ comp' = w /\ UNCHANGED larg
    \/ h = larg /\ w = comp /\ UNCHANGED <<cameraSide, larg, comp>>

\* Only the active camera is fitted, and none to a window without a size.
onResize(w, h) ==
    /\ win' = <<w, h>>
    /\ IF h = 0 \/ w = 0 THEN UNCHANGED <<cameraPersp, cameraSide, larg, comp, seen>>
       ELSE IF activeCamera = "persp"
       THEN cameraPersp' = win' /\ UNCHANGED <<cameraSide, larg, comp, seen>>
       ELSE FitSideCamera(w, h) /\ seen' = win' /\ UNCHANGED cameraPersp
    /\ UNCHANGED <<material, lights, activeCamera>>

onKeyDown ==
    \/ \E i \in Spots \cup {-1} : turnOnOffLight(i)
    \/ changeCalcusMaterial \/ changeShading
    \/ \E c \in {"persp", "side"} : ChooseCamera(c)

Next == onKeyDown \/ \E w, h \in Sizes : onResize(w, h)

Spec == Init /\ [][Next]_vars

-----------------------------------------------------------------------------
\* The camera draws a picture of the window's proportions.
Fits(c, w) == c[1] * w[2] = c[2] * w[1]

\* All parts are drawn with the same kind of material, and a spotlight and its
\* helper are on together, after any keys: each branch of changeCalcusMaterial
\* and changeShading looks at the floor alone and exchanges ten materials.
PartsAndHelpersAgree ==
    /\ \A p \in Parts : material[p] = material["floor_mesh"]
    /\ spotLight = spotLightHelper

\* The side camera fits the window of the last resize it saw, except that a
\* window that became square may have gone unnoticed, because a change of
\* height was remembered as one of width too (onResize 447-463).
SideCameraFits == Fits(cameraSide, seen) \/ seen[1] = seen[2]
=============================================================================
