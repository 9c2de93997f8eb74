------------------------------- MODULE Billiard -------------------------------
(***************************************************************************)
(* The billiard table of Computer Graphics/Proj2/Proj2.js.                 *)
(*                                                                         *)
(* The page runs on one event loop.  A key event changes flags; animate    *)
(* runs once per frame, reads the flags and queues update with setTimeout, *)
(* a second later; update moves the balls and looks for collisions.  Keys, *)
(* frames and updates therefore interleave, each run to its end.  An       *)
(* exception inside animate is the end of the animation: the next frame is *)
(* only requested on its last line, while keys and queued updates go on.   *)
(*                                                                         *)
(* Geometry is left to chance: which balls touch, whether a moved ball is  *)
(* over a hole and how fast it slows down are choices, and walls, which    *)
(* only turn a ball, are left out.  A cue and its ball have the same       *)
(* number.  Number 0 is "none".                                            *)
(***************************************************************************)
EXTENDS BilliardTable

Cues  == 1..NumCues
Balls == 1..NumBalls
Keys  == {"left", "right"}

\* speedinit below 0.1, where a ball may stop at any move, and from 0.1 up.
Speeds == {"slow", "fast"}

VARIABLES
    selectedTaco,   \* the cue the user chose, until it is deselected
    selectedBall,   \* the ball in front of it; outlives selectedTaco
    changeColor,    \* the chosen cue is to be (de)selected at the next frame
    tacada,         \* a shot is to be taken at the next frame
    cue,            \* per cue: is it red, and its angle
    ball,           \* per ball: its userData and what its position amounts to
    infinite, ballInfinite,   \* some ball is falling, and which one
    camera,         \* cameraAtiva
    mount,          \* the ball whose pivot carries the active camera, 0 when it
                    \* is a fixed one or the pivot has left the scene
    running,        \* animate asked for another frame
    at,             \* the ball update is at, 0 when it is not running
    careless        \* the user pressed a key that asks for trouble (see Keys)

selection == <<selectedTaco, selectedBall, changeColor, tacada>>
falling   == <<infinite, ballInfinite>>
view      == <<camera, mount>>
vars == <<selection, cue, ball, falling, view, running, at, careless>>

Idle == 0

\* A new ball at rest in front of cue n, or rolling on the table.
createBall(n) ==
    [moving |-> n > NumCues, playable |-> n > NumCues, speed |-> "fast",
     ang |-> 0, home |-> TRUE, over |-> FALSE, sunk |-> FALSE]

Ball == [moving : BOOLEAN, playable : BOOLEAN, speed : Speeds, ang : Int,
         home : BOOLEAN, over : BOOLEAN, sunk : BOOLEAN]

Init ==
    /\ selectedTaco = 0 /\ selectedBall = 0
    /\ changeColor = FALSE /\ tacada = FALSE
    /\ cue = [k \in Cues |-> [selected |-> FALSE, ang |-> 0]]
    /\ ball = [n \in Balls |-> createBall(n)]
    /\ infinite = FALSE /\ ballInfinite = 0
    /\ camera = "fixed" /\ mount = 0
    /\ running = TRUE /\ at = Idle
    /\ careless = FALSE

-----------------------------------------------------------------------------
(* Keys.  A cue key presses the cue's button: the first press selects it   *)
(* and puts its ball back, a second one deselects it, and the keys of the  *)
(* other cues do nothing in between.  careless remembers that the user     *)
(* pressed a cue key before a frame had seen the one before or the shot,   *)
(* or asked for a shot without a red cue.                                  *)

\* Mutant: the ball itself is put back, with the motion it had.
checkBallPlace_KeepsMotion(k) ==
    /\ infinite' = FALSE
    /\ ball' = [ball EXCEPT ![k].ang = 0, ![k].home = TRUE,
                            ![k].over = FALSE, ![k].sunk = FALSE]
    /\ mount' = IF mount = k THEN 0 ELSE mount
    /\ UNCHANGED <<ballInfinite, camera>>

\* A ball put back has a new pivot; the camera stays with the old one.
checkBallPlace(k) ==
    /\ infinite' = FALSE
    /\ ball' = [ball EXCEPT ![k] = createBall(k)]
    /\ mount' = IF mount = k THEN 0 ELSE mount
    /\ UNCHANGED <<ballInfinite, camera>>

callTaco(k) ==
    /\ at = Idle
    /\ \/ /\ selectedTaco = 0
          /\ changeColor' = TRUE
          /\ selectedTaco' = k /\ selectedBall' = k
          /\ checkBallPlace(k)
       \/ /\ selectedTaco = k
          /\ changeColor' = TRUE
          /\ selectedBall' = 0
          /\ UNCHANGED <<selectedTaco, ball, falling, view>>
    /\ careless' = (careless \/ changeColor \/ tacada)
    /\ UNCHANGED <<tacada, cue, running, at>>

RedCue == selectedTaco # 0 /\ cue[selectedTaco].selected

Space ==
    /\ at = Idle
    /\ tacada' = TRUE
    /\ careless' = (careless \/ changeColor \/ ~RedCue)
    /\ UNCHANGED <<selectedTaco, selectedBall, changeColor, cue, ball, falling,
                   view, running, at>>

\* Keys 1, 2 and 3: the two fixed cameras, and the one that rides the ball.
FixedCamera ==
    /\ at = Idle
    /\ camera' = "fixed" /\ mount' = 0
    /\ UNCHANGED <<selection, cue, ball, falling, running, at, careless>>

MobileCamera ==
    /\ at = Idle
    /\ IF selectedBall # 0
       THEN camera' = "mobile" /\ mount' = selectedBall
       ELSE camera' = "fixed" /\ mount' = 0
    /\ UNCHANGED <<selection, cue, ball, falling, running, at, careless>>

-----------------------------------------------------------------------------
(* A frame.  Which arrow keys are down is the user's choice at each frame. *)

\* Mutant: a cue that is let go keeps its angle.
CueAfterColour_KeepsAngle ==
    IF changeColor THEN [cue EXCEPT ![selectedTaco].selected = ~@] ELSE cue

\* mudaCorTaco: the chosen cue turns red, or straightens and is let go.
CueAfterColour ==
    IF changeColor
    THEN [cue EXCEPT ![selectedTaco] =
            [selected |-> ~@.selected, ang |-> IF @.selected THEN 0 ELSE @.ang]]
    ELSE cue

TacoAfterColour == IF changeColor /\ RedCue THEN 0 ELSE selectedTaco

\* direcionaTaco, for a cue at angle a: right is looked at before left.
Steered(a, keys) ==
    LET r == IF "right" \in keys /\ a <= AngleLimit THEN a + 1 ELSE a
    IN  IF "left" \in keys /\ r >= -AngleLimit THEN r - 1 ELSE r

Steers(a, keys) == \/ "right" \in keys /\ a <= AngleLimit
                   \/ "left" \in keys /\ a >= -AngleLimit

\* tacoGroup[0] and ballGroup[0] are undefined: the frames end.
ColourThrows == changeColor /\ selectedTaco = 0

SteerThrows(keys) ==
    /\ TacoAfterColour # 0 /\ selectedBall = 0
    /\ Steers(CueAfterColour[TacoAfterColour].ang, keys)

FrameThrows(keys) ==
    /\ at = Idle /\ running
    /\ \/ ColourThrows /\ UNCHANGED <<selectedTaco, changeColor, cue, ball>>
       \/ /\ ~ColourThrows
          /\ selectedTaco' = TacoAfterColour
          /\ changeColor' = FALSE
          /\ cue' = CueAfterColour
          /\ \/ SteerThrows(keys) /\ UNCHANGED ball
             \/ /\ ~SteerThrows(keys)
                /\ tacada /\ selectedBall = 0
                /\ ball' = IF infinite
                           THEN [ball EXCEPT ![ballInfinite].sunk = TRUE]
                           ELSE ball
    /\ running' = FALSE
    /\ UNCHANGED <<selectedBall, tacada, falling, view, at, careless>>

\* Mutant: the shot is still asked for after it was taken.
AfterShot_KeepsAsking == changeColor' = tacada /\ UNCHANGED tacada

\* daTacada leaves it to the next frame to deselect the cue.
AfterShot == changeColor' = tacada /\ tacada' = FALSE

\* The ball is steered with its cue, the falling ball is lowered, the shot
\* is taken.
FrameCompletes(keys) ==
    LET k    == TacoAfterColour
        a    == CueAfterColour[k].ang
        turn == IF k = 0 THEN 0 ELSE Steered(a, keys) - a
    IN
    /\ at = Idle /\ running
    /\ ~ColourThrows /\ ~SteerThrows(keys)
    /\ tacada => selectedBall # 0
    /\ selectedTaco' = k
    /\ cue' = IF k = 0 THEN CueAfterColour
              ELSE [CueAfterColour EXCEPT ![k].ang = @ + turn]
    /\ ball' = [b \in Balls |->
                 LET hit == tacada /\ b = selectedBall
                 IN  [ball[b] EXCEPT
                        !.ang = IF b = selectedBall THEN @ + turn ELSE @,
                        !.sunk = IF infinite /\ b = ballInfinite THEN TRUE ELSE @,
                        !.moving = IF hit THEN TRUE ELSE @,
                        !.playable = IF hit THEN TRUE ELSE @]]
    /\ AfterShot
    /\ UNCHANGED <<selectedBall, falling, view, running, at, careless>>

animate == \E keys \in SUBSET Keys : FrameThrows(keys) \/ FrameCompletes(keys)

-----------------------------------------------------------------------------
(* update, queued by every frame for a second later: for every ball in     *)
(* order, move it, collide it with every other ball in order, and look for *)
(* a hole under it.  Some sixty updates are always waiting, so that one    *)
(* may be due at any time; nothing else runs until it is back at Idle.     *)

\* A ball moved on, at the speed it has left.
Rolled(b, s, m) == [b EXCEPT !.home = FALSE, !.speed = s, !.moving = m]

\* What moveBall makes of a ball: it may have slowed down and, once slow, it
\* may stop, which a long last frame can put off.
Moved(b) ==
    IF ~b.moving THEN {b}
    ELSE {Rolled(b, s, m) : s \in {b.speed, "slow"},
                            m \in IF b.speed = "slow" THEN BOOLEAN ELSE {TRUE}}

\* Mutant: a ball that is touched comes into play.
checkCollisionBall_BringsIntoPlay(bs, i) ==
    \E hit \in SUBSET {d \in Balls \ {i} : bs[i].moving} :
    \E s \in [hit \cup {i} -> Speeds] :
        ball' = [d \in Balls |->
                  IF d \in hit \/ (d = i /\ hit # {})
                  THEN [bs[d] EXCEPT !.moving = TRUE, !.playable = TRUE,
                                     !.home = FALSE, !.speed = s[d]]
                  ELSE bs[d]]

\* Ball i, if it moves, may touch any balls in play, one after the other: both
\* go at its speed, raised above 0.1 if it was not, and both move on at once.
checkCollisionBall(bs, i) ==
    \E hit \in SUBSET {d \in Balls \ {i} : bs[i].moving /\ bs[d].playable} :
    \E s \in [hit \cup {i} -> Speeds] :
        ball' = [d \in Balls |->
                  IF d \in hit \/ (d = i /\ hit # {})
                  THEN [bs[d] EXCEPT !.moving = TRUE, !.home = FALSE, !.speed = s[d]]
                  ELSE bs[d]]

\* The chosen ball stopping calls off a shot and brings the camera back.
StopEffects(i, stopped) ==
    IF stopped /\ i = selectedBall
    THEN tacada' = FALSE /\ camera' = "fixed" /\ mount' = 0
    ELSE UNCHANGED <<tacada, view>>

\* o: ball i is over a hole, which is looked at when its turn ends.
checkCollisionHoles(i, o) ==
    /\ infinite' = (infinite \/ o)
    /\ ballInfinite' = IF o THEN i ELSE ballInfinite

UpdateBall(i) ==
    /\ i = at + 1
    /\ \E b \in Moved(ball[i]), o \in BOOLEAN :
        /\ ~ball[i].moving => o = ball[i].over
        /\ StopEffects(i, ball[i].moving /\ ~b.moving)
        /\ checkCollisionBall([ball EXCEPT ![i] = [b EXCEPT !.over = o]], i)
        /\ checkCollisionHoles(i, o)
    /\ at' = IF i = NumBalls THEN Idle ELSE i
    /\ UNCHANGED <<selectedTaco, selectedBall, changeColor, cue, running, careless>>

update == \E i \in Balls : UpdateBall(i)

-----------------------------------------------------------------------------
onKeyDown ==
    \/ \E k \in Cues : callTaco(k)
    \/ Space
    \/ FixedCamera \/ MobileCamera

Next == onKeyDown \/ animate \/ update

Spec == Init /\ [][Next]_vars

-----------------------------------------------------------------------------
(***************************************************************************)
(* Properties                                                              *)
(***************************************************************************)

\* A cue that is red or turned is the selected one, so at most one is, and a
\* cue that was let go stands straight again, however cue keys, shots and
\* frames follow each other (callTaco, mudaCorTaco, direcionaTaco).
OneRedCue ==
    \A k \in Cues : cue[k].selected \/ cue[k].ang # 0 => selectedTaco = k

\* Cue k is chosen and has not taken its shot.
Aimed(k) == /\ selectedTaco = k /\ selectedBall = k
            /\ ~(changeColor /\ cue[k].selected)

\* The ball in front of a chosen cue lies where it was put, in line with the
\* cue, until the shot: updates queued before it was put back, rolling balls
\* and a falling ball's flag leave it alone (checkBallPlace, update).
AimedBallIsHome ==
    \A k \in Cues : Aimed(k) => ball[k] = [createBall(k) EXCEPT !.ang = cue[k].ang]

\* animate only stops asking for frames after a shot was asked for without a
\* red cue, or a cue key was pressed before the last one was seen.
KeepsRunning == running \/ careless

\* A ball is brought into play by a shot of its own cue while that cue is
\* red, unless the user was careless: a shot asked for with one cue is never
\* taken with another (callTaco, daTacada).
ShotsAreAimed ==
    [][\A k \in Cues : ~ball[k].playable /\ ball'[k].playable =>
          careless \/ (selectedTaco = k /\ cue[k].selected)]_vars

-----------------------------------------------------------------------------
\* Types.
TypeOK ==
    /\ selectedTaco \in 0..NumCues /\ selectedBall \in 0..NumCues
    /\ changeColor \in BOOLEAN /\ tacada \in BOOLEAN
    /\ cue \in [Cues -> [selected : BOOLEAN, ang : Int]]
    /\ ball \in [Balls -> Ball]
    /\ infinite \in BOOLEAN /\ ballInfinite \in 0..NumBalls
    /\ running \in BOOLEAN /\ careless \in BOOLEAN
=============================================================================
