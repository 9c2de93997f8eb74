----------------------------- MODULE OrbitControls -----------------------------
(***************************************************************************)
(* The event handlers of Computer Graphics/Proj4/OrbitControls.js, with    *)
(* the options Proj4 leaves as they are: everything enabled, no damping.   *)
(* A mouse or a pen drags the camera from pointerdown to pointerup, fingers *)
(* from touchstart to touchend; one variable says which gesture is under   *)
(* way, and all devices share it.  The browser may also cancel a pointer   *)
(* or the touches, and no handler listens for that.  The arrow keys are    *)
(* left out: their handler is on a canvas that cannot take the focus.      *)
(***************************************************************************)
EXTENDS Integers

CONSTANTS
    Pointers,     \* pointers that are no fingers: a mouse, a pen
    MaxFingers    \* bound on the fingers on the screen

DragStates == {"ROTATE", "DOLLY", "PAN"}
States == DragStates \cup {"NONE", "TOUCH_ROTATE", "TOUCH_DOLLY_PAN"}

VARIABLES
    state,        \* the gesture under way
    listening,    \* pointermove and pointerup are listened to
    pressed,      \* the pointers that have a button down
    fingers,      \* how many fingers are down
    cancelled,    \* the browser has cancelled a pointer or a touch
    view          \* is the camera where it was put, or moved

vars == <<state, listening, pressed, fingers, cancelled, view>>

Init ==
    /\ state = "NONE" /\ listening = FALSE
    /\ pressed = {} /\ fingers = 0
    /\ cancelled = FALSE
    /\ view = "home"

\* What a button, with or without a modifier key, stands for; a fourth button
\* stands for nothing and ends the gesture without taking the listeners off.
onMouseDown(p, action) ==
    /\ p \notin pressed
    /\ pressed' = pressed \cup {p}
    /\ state' = action
    /\ listening' = (listening \/ action # "NONE")
    /\ UNCHANGED <<fingers, cancelled, view>>

\* Any pointer's move, its button down or not.
onMouseMove ==
    /\ listening
    /\ state \in DragStates
    /\ view' = "moved"
    /\ UNCHANGED <<state, listening, pressed, fingers, cancelled>>

\* Mutant: the listeners are not taken off.
onMouseUp_KeepsListening(p) ==
    /\ p \in pressed
    /\ pressed' = pressed \ {p}
    /\ state' = IF listening THEN "NONE" ELSE state
    /\ UNCHANGED <<listening, fingers, cancelled, view>>

onMouseUp(p) ==
    /\ p \in pressed
    /\ pressed' = pressed \ {p}
    /\ listening' = FALSE
    /\ state' = IF listening THEN "NONE" ELSE state
    /\ UNCHANGED <<fingers, cancelled, view>>

onMouseWheel ==
    /\ state \in {"NONE", "ROTATE"}
    /\ view' = "moved"
    /\ UNCHANGED <<state, listening, pressed, fingers, cancelled>>

onTouchStart ==
    /\ fingers < MaxFingers
    /\ fingers' = fingers + 1
    /\ state' = CASE fingers' = 1 -> "TOUCH_ROTATE"
                  [] fingers' = 2 -> "TOUCH_DOLLY_PAN"
                  [] OTHER -> "NONE"
    /\ UNCHANGED <<listening, pressed, cancelled, view>>

\* A pinch reads a second finger: without one the handler throws, having
\* changed nothing.  A finger that moves during another gesture ends it.
onTouchMove ==
    /\ fingers > 0
    /\ \/ /\ state = "TOUCH_ROTATE" \/ (state = "TOUCH_DOLLY_PAN" /\ fingers > 1)
          /\ view' = "moved" /\ UNCHANGED state
       \/ /\ state \notin {"TOUCH_ROTATE", "TOUCH_DOLLY_PAN"}
          /\ state' = "NONE" /\ UNCHANGED view
    /\ UNCHANGED <<listening, pressed, fingers, cancelled>>

onTouchEnd ==
    /\ fingers > 0
    /\ fingers' = fingers - 1
    /\ state' = "NONE"
    /\ UNCHANGED <<listening, pressed, cancelled, view>>

PointerCancelled(p) ==
    /\ p \in pressed
    /\ pressed' = pressed \ {p}
    /\ cancelled' = TRUE
    /\ UNCHANGED <<state, listening, fingers, view>>

TouchCancelled ==
    /\ fingers > 0
    /\ fingers' \in 0..(fingers - 1)
    /\ cancelled' = TRUE
    /\ UNCHANGED <<state, listening, pressed, view>>

Next ==
    \/ \E p \in Pointers : \/ \E a \in DragStates \cup {"NONE"} : onMouseDown(p, a)
                           \/ onMouseUp(p)
                           \/ PointerCancelled(p)
    \/ onMouseMove \/ onMouseWheel
    \/ onTouchStart \/ onTouchMove \/ onTouchEnd \/ TouchCancelled

Spec == Init /\ [][Next]_vars

-----------------------------------------------------------------------------
\* While a drag is under way its moves and its end are listened to, whatever
\* other pointers and fingers do meanwhile (onMouseDown, onMouseUp, onTouch*).
DragIsListenedTo == state \in DragStates => listening

\* The listeners are only there while some pointer has a button down: the
\* camera does not follow a pointer nobody holds, unless one was cancelled.
ListenersHaveAPointer == listening => pressed # {} \/ cancelled

\* A touch gesture under way has as many fingers as it reads, unless touches
\* were cancelled: a pinch always finds its second finger (lines 649, 726).
GestureHasItsFingers ==
    \/ cancelled
    \/ /\ state = "TOUCH_ROTATE" => fingers = 1
       /\ state = "TOUCH_DOLLY_PAN" => fingers = 2

\* However mouse, pen and fingers mix on the one state and the one pair of
\* listeners, a gesture under way is attended to, and only while it is made.
GesturesAreHeld == DragIsListenedTo /\ ListenersHaveAPointer /\ GestureHasItsFingers
=============================================================================
