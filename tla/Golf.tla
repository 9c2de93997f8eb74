--------------------------------- MODULE Golf ---------------------------------
(***************************************************************************)
(* The golf course of Computer Graphics/Proj4/Proj4.js: keys that change   *)
(* the look of the scene, a pause screen on top of it, and a refresh that  *)
(* is asked for by a key and done by the next frame.  The camera is moved  *)
(* by OrbitControls, which knows nothing of the pause.  The waving flag    *)
(* never stops outside the pause and is left out, as is onResize: the      *)
(* active camera is always cameraPersp, which it fits to the window.       *)
(***************************************************************************)
EXTENDS Integers

CONSTANTS
    Meshes,    \* floor, flag pole, flag and ball
    Floor,     \* the one whose material says which kind is in use
    Pointers, MaxFingers    \* of OrbitControls

VARIABLES
    pause_screen, reset,
    dirLight, pointLight,    \* visible or not
    material,                \* per mesh: 0 basic, 1 Phong
    wireframe,               \* per mesh, of each of its two materials
    movingBall,
    ballHome,                \* the ball lies where it started
    state, listening, pressed, fingers, cancelled, view    \* of OrbitControls

Orbit == INSTANCE OrbitControls

flags == <<pause_screen, reset>>
look  == <<dirLight, pointLight, material, wireframe>>
ball  == <<movingBall, ballHome>>
orbit == <<state, listening, pressed, fingers, cancelled, view>>
vars  == <<flags, look, ball, orbit>>

Kinds == 0..1

Init ==
    /\ pause_screen = FALSE /\ reset = FALSE
    /\ dirLight = TRUE /\ pointLight = TRUE
    /\ material = [m \in Meshes |-> 1]
    /\ wireframe = [m \in Meshes |-> [k \in Kinds |-> FALSE]]
    /\ movingBall = FALSE /\ ballHome = TRUE
    /\ Orbit!Init

\* Does mesh m appear as wireframe?
Shown(m) == wireframe[m][material[m]]

\* Mutant: the other meshes are forgotten.
SetShown_FloorOnly(mat, on) ==
    wireframe' = [wireframe EXCEPT ![Floor] = [@ EXCEPT ![mat[Floor]] = on]]

\* Sets the wireframe of the material each mesh has in mat, and of no other.
SetShown(mat, on) ==
    wireframe' = [m \in Meshes |-> [wireframe[m] EXCEPT ![mat[m]] = on]]

changeWireframe == SetShown(material, ~Shown(Floor)) /\ UNCHANGED material

\* The other materials are brought to the floor's wireframe by toggling them,
\* if the floor's two materials differ.
changeCalcusMaterial ==
    LET k   == 1 - material[Floor]
        mat == [m \in Meshes |-> k]
    IN  /\ material' = mat
        /\ IF wireframe[Floor][k] # Shown(Floor)
           THEN SetShown(mat, ~wireframe[Floor][k])
           ELSE UNCHANGED wireframe

\* D, P, I, W and B do nothing under the pause screen.
SceneKey ==
    /\ ~pause_screen
    /\ \/ dirLight' = ~dirLight /\ UNCHANGED <<pointLight, material, wireframe, ball>>
       \/ pointLight' = ~pointLight /\ UNCHANGED <<dirLight, material, wireframe, ball>>
       \/ changeCalcusMaterial /\ UNCHANGED <<dirLight, pointLight, ball>>
       \/ changeWireframe /\ UNCHANGED <<dirLight, pointLight, ball>>
       \/ movingBall' = ~movingBall /\ UNCHANGED <<ballHome, look>>
    /\ UNCHANGED <<flags, orbit>>

\* S, and R, which only counts under the pause screen.
PauseKey ==
    /\ pause_screen' = ~pause_screen
    /\ UNCHANGED <<reset, look, ball, orbit>>

RefreshKey ==
    /\ pause_screen
    /\ reset' = TRUE
    /\ UNCHANGED <<pause_screen, look, ball, orbit>>

\* Mutant: the camera stays where it was moved.
resetScene_KeepsCamera ==
    /\ material' = [m \in Meshes |-> 1]
    /\ SetShown(material', FALSE)
    /\ dirLight' = TRUE /\ pointLight' = TRUE
    /\ movingBall' = FALSE /\ ballHome' = TRUE
    /\ reset' = FALSE /\ pause_screen' = FALSE
    /\ UNCHANGED orbit

\* The wireframe of the basic materials is left as it was.  Where a drag is
\* under way it goes on from the camera's first place.
resetScene ==
    /\ material' = [m \in Meshes |-> 1]
    /\ SetShown(material', FALSE)
    /\ dirLight' = TRUE /\ pointLight' = TRUE
    /\ movingBall' = FALSE /\ ballHome' = TRUE
    /\ view' = "home"
    /\ reset' = FALSE /\ pause_screen' = FALSE
    /\ UNCHANGED <<state, listening, pressed, fingers, cancelled>>

animate ==
    IF reset THEN resetScene
    ELSE /\ ballHome' = (ballHome /\ (pause_screen \/ ~movingBall))
         /\ UNCHANGED <<flags, look, movingBall, orbit>>

OrbitEvent == Orbit!Next /\ UNCHANGED <<flags, look, ball>>

Next == SceneKey \/ PauseKey \/ RefreshKey \/ animate \/ OrbitEvent

\* The browser goes on asking for frames.
Spec == Init /\ [][Next]_vars /\ WF_vars(animate)

-----------------------------------------------------------------------------
\* The scene as init builds it, as far as it can be seen.
Fresh ==
    /\ ~pause_screen /\ ~reset
    /\ dirLight /\ pointLight
    /\ \A m \in Meshes : material[m] = 1 /\ ~Shown(m)
    /\ ~movingBall /\ ballHome /\ view = "home"

\* The four meshes look alike, and so would they with the other kind of
\* material: toggling from the floor's flag alone never splits them, although
\* a refresh resets only one kind (changeWireframe, changeCalcusMaterial).
MeshesLookAlike ==
    \A m \in Meshes : material[m] = material[Floor] /\ wireframe[m] = wireframe[Floor]

\* A refresh that was asked for is done, completely, even when the pause
\* screen was closed and keys were pressed before the frame that does it.
RefreshIsDone == reset ~> Fresh
=============================================================================
