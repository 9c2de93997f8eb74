----------------------------- MODULE BilliardProofs -----------------------------
(***************************************************************************)
(* What the run table shows for two cues and two balls holds for any       *)
(* number of both and any limit of the angle.                              *)
(***************************************************************************)
EXTENDS Billiard, TLAPS

-----------------------------------------------------------------------------
(* The inductive invariant. *)

\* A chosen cue is red, or is about to turn red at the next frame.
ChosenTurnsRed == selectedTaco # 0 /\ ~changeColor => RedCue

\* The flags as they are while nobody was careless: what the next frame reads
\* is there, and a shot is only asked for with a red cue that is kept.
FlagsInOrder ==
    /\ running
    /\ changeColor => selectedTaco # 0
    /\ selectedTaco # 0 /\ ~(changeColor /\ RedCue) => selectedBall = selectedTaco
    /\ tacada => RedCue /\ ~changeColor

\* The falling ball is never the one in front of a chosen cue.
NotFalling == \A k \in Cues : Aimed(k) => ~(infinite /\ ballInfinite = k)

\* The inductive invariant.
IndInv ==
    /\ TypeOK /\ OneRedCue /\ ChosenTurnsRed
    /\ careless \/ FlagsInOrder
    /\ AimedBallIsHome /\ NotFalling

USE TableAssumption DEF Cues, Balls, Idle

\* A new ball is a ball.
LEMMA NewBall == ASSUME NEW n \in Balls PROVE createBall(n) \in Ball
  BY DEF createBall, Ball, Speeds

\* The ball of a cue starts at rest and out of play.
LEMMA NewCueBall ==
    ASSUME NEW k \in Cues
    PROVE  createBall(k) = [moving |-> FALSE, playable |-> FALSE, speed |-> "fast", ang |-> 0,
                            home |-> TRUE, over |-> FALSE, sunk |-> FALSE]
  <1>1. (k > NumCues) = FALSE
    OBVIOUS
  <1> QED
    BY <1>1, Zenon DEF createBall

\* The initial state satisfies the invariant.
LEMMA InitIndInv == Init => IndInv
  <1> SUFFICES ASSUME Init PROVE IndInv
    OBVIOUS
  <1>1. ball \in [Balls -> Ball]
    BY NewBall DEF Init
  <1>2. /\ cue \in [Cues -> [selected : BOOLEAN, ang : Int]]
        /\ selectedTaco \in 0..NumCues /\ selectedBall \in 0..NumCues
        /\ ballInfinite \in 0..NumBalls
    BY DEF Init
  <1>3. OneRedCue /\ ChosenTurnsRed /\ FlagsInOrder /\ AimedBallIsHome /\ NotFalling
    BY DEF Init, OneRedCue, ChosenTurnsRed, FlagsInOrder, AimedBallIsHome, NotFalling, Aimed
  <1>4. TypeOK
    BY <1>1, <1>2, Zenon DEF Init, TypeOK
  <1> QED
    BY <1>3, <1>4 DEF IndInv

\* mudaCorTaco: after it the chosen cue, and no other, is red, and what was
\* aimed still is.
LEMMA AfterColour ==
    ASSUME IndInv, ~ColourThrows
    PROVE  /\ CueAfterColour \in [Cues -> [selected : BOOLEAN, ang : Int]]
           /\ TacoAfterColour \in {0, selectedTaco}
           /\ \A k \in Cues : CueAfterColour[k].selected \/ CueAfterColour[k].ang # 0 =>
                                  TacoAfterColour = k
           /\ TacoAfterColour # 0 => CueAfterColour[TacoAfterColour].selected
           /\ careless \/ (/\ running
                           /\ TacoAfterColour # 0 => selectedBall = TacoAfterColour
                           /\ tacada => TacoAfterColour # 0)
           /\ \A k \in Cues : TacoAfterColour = k /\ selectedBall = k =>
                                  Aimed(k) /\ CueAfterColour[k].ang = cue[k].ang
  <1> USE DEF IndInv, TypeOK, ColourThrows, CueAfterColour, TacoAfterColour, RedCue
  <1>1. CASE ~changeColor
    BY <1>1 DEF OneRedCue, ChosenTurnsRed, FlagsInOrder, Aimed
  <1>2. CASE changeColor /\ RedCue
    <2>1. /\ TacoAfterColour = 0
          /\ CueAfterColour = [cue EXCEPT ![selectedTaco] = [selected |-> FALSE, ang |-> 0]]
      BY <1>2
    <2>2. \A k \in Cues : ~CueAfterColour[k].selected /\ CueAfterColour[k].ang = 0
      BY <2>1 DEF OneRedCue
    <2>3. CueAfterColour \in [Cues -> [selected : BOOLEAN, ang : Int]]
      BY <2>1
    <2> QED
      BY <1>2, <2>1, <2>2, <2>3 DEF FlagsInOrder
  <1>3. CASE changeColor /\ ~RedCue
    BY <1>3 DEF OneRedCue, FlagsInOrder, Aimed
  <1> QED
    BY <1>1, <1>2, <1>3

-----------------------------------------------------------------------------
\* A cue key keeps the invariant: it puts the ball of a newly chosen cue back.
LEMMA CallTacoKeeps == ASSUME IndInv, NEW k \in Cues, callTaco(k) PROVE IndInv'
  <1> USE DEF IndInv, callTaco
  <1>1. TypeOK'
    <2>1. ball' \in [Balls -> Ball] /\ infinite' \in BOOLEAN /\ ballInfinite' = ballInfinite
      <3>1. CASE selectedTaco = 0 /\ checkBallPlace(k)
        <4>1. k \in Balls
          OBVIOUS
        <4> QED
          BY <3>1, <4>1, NewBall, Zenon DEF TypeOK, checkBallPlace
      <3>2. CASE UNCHANGED <<ball, falling>>
        BY <3>2 DEF TypeOK, falling
      <3> QED
        BY <3>1, <3>2
    <2>2. /\ selectedTaco' \in 0..NumCues /\ selectedBall' \in 0..NumCues
          /\ ballInfinite' \in 0..NumBalls
      BY <2>1 DEF TypeOK
    <2>3. changeColor' \in BOOLEAN /\ careless' \in BOOLEAN
      BY Zenon DEF TypeOK
    <2> QED
      BY <2>1, <2>2, <2>3, Zenon DEF TypeOK
  <1>2. OneRedCue' /\ ChosenTurnsRed' /\ (careless \/ FlagsInOrder)'
    BY DEF TypeOK, OneRedCue, ChosenTurnsRed, FlagsInOrder, RedCue
  <1>3. CASE selectedTaco = 0
    <2>1. cue[k] = [selected |-> FALSE, ang |-> 0]
      BY <1>3 DEF OneRedCue, TypeOK
    <2>2. ball'[k] = createBall(k) /\ ~infinite' /\ \A c \in Cues : Aimed(c)' => c = k
      BY <1>3 DEF TypeOK, checkBallPlace, Aimed
    <2> QED
      <3>1. cue'[k].ang = 0 /\ createBall(k) = [createBall(k) EXCEPT !.ang = 0]
        BY <2>1, NewCueBall
      <3> QED
        BY <1>1, <1>2, <2>2, <3>1 DEF AimedBallIsHome, NotFalling
  <1>4. CASE selectedTaco # 0
    BY <1>1, <1>2, <1>4 DEF AimedBallIsHome, NotFalling, Aimed
  <1> QED
    BY <1>3, <1>4

\* The other keys keep it.
LEMMA OtherKeysKeep ==
    ASSUME IndInv, Space \/ FixedCamera \/ MobileCamera PROVE IndInv'
  <1>1. /\ UNCHANGED <<selectedTaco, selectedBall, changeColor, cue, ball, falling, running>>
        /\ tacada' \in BOOLEAN /\ careless' \in BOOLEAN
        /\ careless' \/ (~careless /\ UNCHANGED tacada) \/ (RedCue /\ ~changeColor)
        /\ careless => careless'
    BY DEF Space, FixedCamera, MobileCamera, selection, IndInv, TypeOK
  <1>2. TypeOK'
    BY <1>1 DEF IndInv, TypeOK, falling
  <1>3. OneRedCue' /\ ChosenTurnsRed' /\ AimedBallIsHome' /\ NotFalling'
    BY <1>1 DEF IndInv, OneRedCue, ChosenTurnsRed, RedCue, AimedBallIsHome, NotFalling, Aimed,
                falling
  <1>4. careless' \/ FlagsInOrder'
    BY <1>1 DEF IndInv, FlagsInOrder, RedCue
  <1> QED
    BY <1>2, <1>3, <1>4 DEF IndInv

\* A frame that throws keeps it: only careless keys lead to one.
LEMMA FrameThrowsKeeps == ASSUME IndInv, NEW keys, FrameThrows(keys) PROVE IndInv'
  <1>1. CASE ColourThrows
    BY <1>1 DEF FrameThrows, falling, ColourThrows, IndInv, TypeOK, OneRedCue, ChosenTurnsRed,
                FlagsInOrder, RedCue, AimedBallIsHome, NotFalling, Aimed
  <1>2. CASE ~ColourThrows
    <2>1. TypeOK'
      <3>1. ball \in [Balls -> Ball] /\ infinite \in BOOLEAN
        BY DEF IndInv, TypeOK
      <3>2. ball' \in [Balls -> Ball]
        BY <1>2, <3>1 DEF FrameThrows, Ball
      <3>3. /\ selectedTaco' \in 0..NumCues
            /\ cue' \in [Cues -> [selected : BOOLEAN, ang : Int]]
        BY <1>2, AfterColour DEF FrameThrows, IndInv, TypeOK
      <3> QED
        BY <1>2, <3>2, <3>3, Zenon DEF FrameThrows, falling, IndInv, TypeOK
    <2>2. OneRedCue' /\ ChosenTurnsRed'
      BY <1>2, AfterColour DEF FrameThrows, OneRedCue, ChosenTurnsRed, RedCue
    <2>3. careless'
      BY <1>2, AfterColour DEF FrameThrows, SteerThrows
    <2>4. ASSUME NEW k \in Cues, Aimed(k)'
          PROVE  ball'[k] = [createBall(k) EXCEPT !.ang = cue'[k].ang]
                 /\ ~(infinite' /\ ballInfinite' = k)
      <3>1. Aimed(k) /\ CueAfterColour[k].ang = cue[k].ang
        BY <1>2, <2>4, AfterColour DEF FrameThrows, Aimed
      <3>2. ball[k] = [createBall(k) EXCEPT !.ang = cue[k].ang]
        BY <3>1 DEF IndInv, AimedBallIsHome
      <3>3. ball'[k] = ball[k]
        BY <1>2, <3>1 DEF FrameThrows, IndInv, TypeOK, NotFalling
      <3> QED
        BY <1>2, <3>1, <3>2, <3>3 DEF FrameThrows, falling, IndInv, NotFalling
    <2> QED
      BY <2>1, <2>2, <2>3, <2>4 DEF IndInv, AimedBallIsHome, NotFalling
  <1> QED
    BY <1>1, <1>2

\* A frame that completes keeps it: the ball is steered with its cue, and the
\* cue is let go after the shot.
LEMMA FrameCompletesKeeps == ASSUME IndInv, NEW keys, FrameCompletes(keys) PROVE IndInv'
  <1> DEFINE k == TacoAfterColour
             a == CueAfterColour[k].ang
             turn == IF k = 0 THEN 0 ELSE Steered(a, keys) - a
  <1>1. /\ ~ColourThrows /\ selectedTaco' = k
        /\ cue' = IF k = 0 THEN CueAfterColour ELSE [CueAfterColour EXCEPT ![k].ang = @ + turn]
        /\ changeColor' = tacada /\ tacada' = FALSE
        /\ UNCHANGED <<selectedBall, falling, running, careless>>
    BY DEF FrameCompletes, AfterShot
  <1>2. ball' = [b \in Balls |->
                   [ball[b] EXCEPT
                      !.ang = IF b = selectedBall THEN @ + turn ELSE @,
                      !.sunk = IF infinite /\ b = ballInfinite THEN TRUE ELSE @,
                      !.moving = IF tacada /\ b = selectedBall THEN TRUE ELSE @,
                      !.playable = IF tacada /\ b = selectedBall THEN TRUE ELSE @]]
    BY DEF FrameCompletes
  <1>3. k \in 0..NumCues /\ turn \in Int
    <2>1. k \in 0..NumCues
      BY <1>1, AfterColour DEF IndInv, TypeOK
    <2>2. k # 0 => a \in Int
      BY <1>1, <2>1, AfterColour
    <2> QED
      BY <2>1, <2>2 DEF Steered
  <1>4. /\ cue' \in [Cues -> [selected : BOOLEAN, ang : Int]]
        /\ \A c \in Cues : /\ cue'[c].selected = CueAfterColour[c].selected
                           /\ cue'[c].ang = IF c = k THEN CueAfterColour[c].ang + turn
                                            ELSE CueAfterColour[c].ang
    <2>1. CueAfterColour \in [Cues -> [selected : BOOLEAN, ang : Int]]
      BY <1>1, AfterColour
    <2> HIDE DEF k, turn
    <2> QED
      BY <1>1, <1>3, <2>1
  <1>5. TypeOK'
    <2> HIDE DEF k, turn
    <2>1. ASSUME NEW b \in Balls PROVE ball'[b] \in Ball
      <3>1. ball[b] \in Ball
        BY DEF IndInv, TypeOK
      <3>2. ball[b].ang + turn \in Int
        BY <1>3, <3>1 DEF Ball
      <3>3. ball'[b] = [ball[b] EXCEPT
                          !.ang = IF b = selectedBall THEN ball[b].ang + turn ELSE ball[b].ang,
                          !.sunk = IF infinite /\ b = ballInfinite THEN TRUE ELSE ball[b].sunk,
                          !.moving = IF tacada /\ b = selectedBall THEN TRUE
                                     ELSE ball[b].moving,
                          !.playable = IF tacada /\ b = selectedBall THEN TRUE
                                       ELSE ball[b].playable]
        BY <1>2, Zenon
      <3> HIDE DEF turn
      <3> QED
        BY <3>1, <3>2, <3>3 DEF Ball
    <2>2. ball' \in [Balls -> Ball]
      BY <1>2, <2>1
    <2> QED
      BY <1>1, <1>3, <1>4, <2>2, Zenon DEF IndInv, TypeOK, falling
  <1>6. OneRedCue' /\ ChosenTurnsRed' /\ (careless \/ FlagsInOrder)'
    <2>1. OneRedCue'
      <3> HIDE DEF turn
      <3> QED
        BY <1>1, <1>3, <1>4, AfterColour DEF OneRedCue
    <2>2. ChosenTurnsRed'
      BY <1>1, <1>3, <1>4, AfterColour DEF ChosenTurnsRed, RedCue
    <2>3. (careless \/ FlagsInOrder)'
      BY <1>1, AfterColour DEF FlagsInOrder
    <2> QED
      BY <2>1, <2>2, <2>3
  <1>7. ASSUME NEW c \in Cues, Aimed(c)'
        PROVE  ball'[c] = [createBall(c) EXCEPT !.ang = cue'[c].ang]
               /\ ~(infinite' /\ ballInfinite' = c)
    <2>1. k = c /\ selectedBall = c /\ ~tacada
      BY <1>1, <1>4, <1>7, AfterColour DEF Aimed
    <2>2. Aimed(c) /\ CueAfterColour[c].ang = cue[c].ang
      BY <1>1, <2>1, AfterColour
    <2>3. ball[c] = [createBall(c) EXCEPT !.ang = cue[c].ang] /\ ~(infinite /\ ballInfinite = c)
      BY <2>2 DEF IndInv, AimedBallIsHome, NotFalling
    <2>4. cue'[c].ang = cue[c].ang + turn
      BY <1>4, <2>1, <2>2
    <2> HIDE DEF turn
    <2>5. c \in Balls /\ ball[c] \in Ball
      BY DEF IndInv, TypeOK
    <2>6. ball'[c] = [ball[c] EXCEPT !.ang = @ + turn]
      BY <1>2, <2>1, <2>3, <2>5 DEF Ball
    <2>7. ball'[c] = [createBall(c) EXCEPT !.ang = cue'[c].ang]
      BY <2>3, <2>4, <2>6, NewCueBall
    <2> QED
      BY <1>1, <2>3, <2>7 DEF falling
  <1> QED
    BY <1>5, <1>6, <1>7 DEF IndInv, AimedBallIsHome, NotFalling

\* moveBall leaves a ball at rest alone and brings none into play.
LEMMA RollingKeepsPlay ==
    ASSUME NEW old \in Ball, NEW b \in Moved(old)
    PROVE  b \in Ball /\ (~old.moving => b = old) /\ b.playable = old.playable
  <1>1. CASE ~old.moving
    BY <1>1 DEF Moved
  <1>2. CASE old.moving
    <2> DEFINE S == {old.speed, "slow"}
               M == IF old.speed = "slow" THEN BOOLEAN ELSE {TRUE}
    <2>1. PICK s \in S, m \in M : b = Rolled(old, s, m)
      <3>1. Moved(old) = {Rolled(old, s, m) : s \in S, m \in M}
        BY <1>2 DEF Moved
      <3> HIDE DEF S, M
      <3>2. b \in {Rolled(old, s, m) : s \in S, m \in M}
        BY <3>1
      <3> QED
        BY <3>2
    <2>2. m \in BOOLEAN
      OBVIOUS
    <2> QED
      BY <1>2, <2>1, <2>2 DEF Rolled, Ball, Speeds
  <1> QED
    BY <1>1, <1>2

\* A turn of update keeps it: a ball that lies still, out of play and over no
\* hole is left alone.
LEMMA UpdateBallKeeps == ASSUME IndInv, NEW i \in Balls, UpdateBall(i) PROVE IndInv'
  <1>1. PICK b \in Moved(ball[i]), o \in BOOLEAN :
          /\ ~ball[i].moving => o = ball[i].over
          /\ StopEffects(i, ball[i].moving /\ ~b.moving)
          /\ checkCollisionBall([ball EXCEPT ![i] = [b EXCEPT !.over = o]], i)
          /\ checkCollisionHoles(i, o)
    BY DEF UpdateBall
  <1> DEFINE bs == [ball EXCEPT ![i] = [b EXCEPT !.over = o]]
  <1>2. ball \in [Balls -> Ball]
    BY DEF IndInv, TypeOK
  <1>3. b \in Ball /\ (~ball[i].moving => b = ball[i]) /\ b.playable = ball[i].playable
    BY <1>2, RollingKeepsPlay
  <1>4. bs \in [Balls -> Ball]
    BY <1>2, <1>3 DEF Ball
  <1>5. PICK hit \in SUBSET {d \in Balls \ {i} : bs[i].moving /\ bs[d].playable} :
        \E s \in [hit \cup {i} -> Speeds] :
          ball' = [d \in Balls |->
                     IF d \in hit \/ (d = i /\ hit # {})
                     THEN [bs[d] EXCEPT !.moving = TRUE, !.home = FALSE, !.speed = s[d]]
                     ELSE bs[d]]
    BY <1>1 DEF checkCollisionBall
  <1>6. ball' \in [Balls -> Ball]
    <2> HIDE DEF bs
    <2>1. PICK s \in [hit \cup {i} -> Speeds] :
            ball' = [d \in Balls |->
                       IF d \in hit \/ (d = i /\ hit # {})
                       THEN [bs[d] EXCEPT !.moving = TRUE, !.home = FALSE, !.speed = s[d]]
                       ELSE bs[d]]
      BY <1>5
    <2>2. ASSUME NEW d \in Balls, d \in hit \/ d = i
          PROVE  [bs[d] EXCEPT !.moving = TRUE, !.home = FALSE, !.speed = s[d]] \in Ball
      <3>1. bs[d] \in Ball /\ s[d] \in Speeds
        BY <1>4, <2>2
      <3> QED
        BY <3>1 DEF Ball
    <2> QED
      BY <1>4, <2>1, <2>2
  <1>7. tacada' \in {FALSE, tacada} /\
        UNCHANGED <<selectedTaco, selectedBall, changeColor, cue, running, careless>>
    BY <1>1 DEF UpdateBall, StopEffects, IndInv, TypeOK
  <1>8. TypeOK'
    <2>1. infinite' \in BOOLEAN /\ ballInfinite' \in 0..NumBalls
      BY <1>1 DEF IndInv, TypeOK, checkCollisionHoles
    <2> QED
      BY <1>6, <1>7, <2>1, Zenon DEF IndInv, TypeOK
  <1>9. OneRedCue' /\ ChosenTurnsRed' /\ (careless \/ FlagsInOrder)'
    <2>1. OneRedCue' /\ ChosenTurnsRed'
      BY <1>7 DEF IndInv, OneRedCue, ChosenTurnsRed, RedCue
    <2>2. (careless \/ FlagsInOrder)'
      BY <1>7 DEF IndInv, FlagsInOrder, RedCue
    <2> QED
      BY <2>1, <2>2
  <1>10. ASSUME NEW c \in Cues, Aimed(c)'
         PROVE  ball'[c] = [createBall(c) EXCEPT !.ang = cue'[c].ang]
                /\ ~(infinite' /\ ballInfinite' = c)
    <2>1. Aimed(c)
      BY <1>7, <1>10 DEF Aimed
    <2>2. ball[c] = [createBall(c) EXCEPT !.ang = cue[c].ang] /\ ~(infinite /\ ballInfinite = c)
      BY <2>1 DEF IndInv, AimedBallIsHome, NotFalling
    <2>3. ~ball[c].moving /\ ~ball[c].playable /\ ~ball[c].over
      BY <2>2, NewCueBall
    <2>4. c = i => bs[i] = ball[c] /\ o = FALSE
      BY <1>1, <1>2, <1>3, <2>3 DEF Ball
    <2>5. bs[c] = ball[c]
      BY <1>2, <2>4
    <2>6. c \notin hit /\ (c = i => hit = {})
      <3> HIDE DEF bs
      <3> QED
        BY <2>3, <2>4, <2>5
    <2>7. ball'[c] = ball[c]
      <3> HIDE DEF bs
      <3>1. PICK s \in [hit \cup {i} -> Speeds] :
              ball' = [d \in Balls |->
                         IF d \in hit \/ (d = i /\ hit # {})
                         THEN [bs[d] EXCEPT !.moving = TRUE, !.home = FALSE, !.speed = s[d]]
                         ELSE bs[d]]
        BY <1>5
      <3>2. c \in Balls
        OBVIOUS
      <3> QED
        BY <2>5, <2>6, <3>1, <3>2, Zenon
    <2> QED
      BY <1>1, <1>7, <2>2, <2>4, <2>7 DEF checkCollisionHoles
  <1> QED
    BY <1>8, <1>9, <1>10 DEF IndInv, AimedBallIsHome, NotFalling

-----------------------------------------------------------------------------
\* Every step keeps the invariant.
LEMMA NextIndInv == IndInv /\ [Next]_vars => IndInv'
  <1> SUFFICES ASSUME IndInv, [Next]_vars PROVE IndInv'
    OBVIOUS
  <1>1. CASE onKeyDown
    BY <1>1, CallTacoKeeps, OtherKeysKeep DEF onKeyDown
  <1>2. CASE animate
    BY <1>2, FrameThrowsKeeps, FrameCompletesKeeps DEF animate
  <1>3. CASE update
    BY <1>3, UpdateBallKeeps DEF update
  <1>4. CASE UNCHANGED vars
    BY <1>4 DEF vars, selection, falling, IndInv, TypeOK, OneRedCue, ChosenTurnsRed,
                FlagsInOrder, RedCue, AimedBallIsHome, NotFalling, Aimed
  <1> QED
    BY <1>1, <1>2, <1>3, <1>4 DEF Next

\* The inductive invariant holds in every reachable state.
LEMMA AlwaysIndInv == Spec => []IndInv
  BY InitIndInv, NextIndInv, PTL DEF Spec

\* For any table and any limit, a cue that is red or turned is the selected
\* one, however keys, frames and updates of a second ago follow each other.
THEOREM AtMostOneRedCue == Spec => []OneRedCue
  <1>1. IndInv => OneRedCue
    BY DEF IndInv
  <1> QED
    BY AlwaysIndInv, <1>1, PTL

\* For any table, the ball of a chosen cue lies where callTaco put it, in line
\* with the cue, until the shot: no waiting update, rolling ball or hole
\* disturbs it.
THEOREM AimedBallStays == Spec => []AimedBallIsHome
  <1>1. IndInv => AimedBallIsHome
    BY DEF IndInv
  <1> QED
    BY AlwaysIndInv, <1>1, PTL

\* For any table, animate only stops asking for frames after a careless key.
THEOREM CarefulUserKeepsFrames == Spec => []KeepsRunning
  <1>1. IndInv => KeepsRunning
    BY DEF IndInv, KeepsRunning, FlagsInOrder
  <1> QED
    BY AlwaysIndInv, <1>1, PTL

-----------------------------------------------------------------------------
\* A turn of update brings no ball into play.
LEMMA UpdateLeavesPlay ==
    ASSUME IndInv, NEW i \in Balls, UpdateBall(i), NEW c \in Balls
    PROVE  ball'[c].playable = ball[c].playable
  <1>1. PICK b \in Moved(ball[i]), o \in BOOLEAN :
          checkCollisionBall([ball EXCEPT ![i] = [b EXCEPT !.over = o]], i)
    BY DEF UpdateBall
  <1> DEFINE bs == [ball EXCEPT ![i] = [b EXCEPT !.over = o]]
  <1>2. ball \in [Balls -> Ball] /\ ball[i] \in Ball
    BY DEF IndInv, TypeOK
  <1>3. b \in Ball /\ b.playable = ball[i].playable
    BY <1>2, RollingKeepsPlay
  <1>4. bs \in [Balls -> Ball] /\ bs[c].playable = ball[c].playable
    BY <1>2, <1>3 DEF Ball
  <1>5. PICK hit \in SUBSET {d \in Balls \ {i} : bs[i].moving /\ bs[d].playable} :
        \E s \in [hit \cup {i} -> Speeds] :
          ball' = [d \in Balls |->
                     IF d \in hit \/ (d = i /\ hit # {})
                     THEN [bs[d] EXCEPT !.moving = TRUE, !.home = FALSE, !.speed = s[d]]
                     ELSE bs[d]]
    BY <1>1 DEF checkCollisionBall
  <1>6. ball'[c].playable = bs[c].playable
    <2> HIDE DEF bs
    <2>1. PICK s \in [hit \cup {i} -> Speeds] :
            ball' = [d \in Balls |->
                       IF d \in hit \/ (d = i /\ hit # {})
                       THEN [bs[d] EXCEPT !.moving = TRUE, !.home = FALSE, !.speed = s[d]]
                       ELSE bs[d]]
      BY <1>5
    <2>2. bs[c] \in Ball
      BY <1>4
    <2> QED
      BY <2>1, <2>2 DEF Ball
  <1> QED
    BY <1>4, <1>6

\* A frame brings no ball into play but the one a shot is taken at.
LEMMA FrameLeavesPlay ==
    ASSUME IndInv, NEW keys, FrameThrows(keys) \/ FrameCompletes(keys), NEW c \in Balls,
           ball'[c].playable, ~ball[c].playable
    PROVE  tacada /\ c = selectedBall
  <1>1. ball \in [Balls -> Ball] /\ ball[c] \in Ball
    BY DEF IndInv, TypeOK
  <1>2. ~FrameThrows(keys)
    BY <1>1 DEF FrameThrows, Ball
  <1> DEFINE turn == IF TacoAfterColour = 0 THEN 0
                     ELSE Steered(CueAfterColour[TacoAfterColour].ang, keys)
                          - CueAfterColour[TacoAfterColour].ang
  <1>3. ball'[c] = [ball[c] EXCEPT
                      !.ang = IF c = selectedBall THEN ball[c].ang + turn ELSE ball[c].ang,
                      !.sunk = IF infinite /\ c = ballInfinite THEN TRUE ELSE ball[c].sunk,
                      !.moving = IF tacada /\ c = selectedBall THEN TRUE ELSE ball[c].moving,
                      !.playable = IF tacada /\ c = selectedBall THEN TRUE
                                   ELSE ball[c].playable]
    BY <1>2, Zenon DEF FrameCompletes
  <1> HIDE DEF turn
  <1> QED
    BY <1>1, <1>3 DEF Ball

\* For any table, a ball comes into play by a shot of its own cue while that
\* cue is red, unless the user was careless: a shot asked for with one cue is
\* never taken with another.
THEOREM ShotsTakenWithRedCue == Spec => ShotsAreAimed
  <1>1. ASSUME IndInv, [Next]_vars, NEW k \in Cues, ~ball[k].playable, ball'[k].playable,
               ~careless
        PROVE  selectedTaco = k /\ cue[k].selected
    <2>1. k \in Balls
      OBVIOUS
    <2>2. ~update
      BY <1>1, <2>1, UpdateLeavesPlay DEF update
    <2>3. ~onKeyDown
      <3>1. ASSUME NEW n \in Cues, callTaco(n) PROVE FALSE
        <4>1. n \in Balls /\ ~createBall(n).playable
          BY NewCueBall
        <4> QED
          BY <1>1, <2>1, <3>1, <4>1 DEF callTaco, checkBallPlace, IndInv, TypeOK
      <3> QED
        BY <1>1, <3>1 DEF onKeyDown, Space, FixedCamera, MobileCamera
    <2>4. animate
      BY <1>1, <2>2, <2>3 DEF Next, vars
    <2>5. tacada /\ k = selectedBall
      BY <1>1, <2>1, <2>4, FrameLeavesPlay DEF animate
    <2> QED
      BY <1>1, <2>5 DEF IndInv, FlagsInOrder, RedCue
  <1>2. IndInv /\ [Next]_vars =>
          [\A k \in Cues : ~ball[k].playable /\ ball'[k].playable =>
              careless \/ (selectedTaco = k /\ cue[k].selected)]_vars
    BY <1>1
  <1> QED
    BY AlwaysIndInv, <1>2, PTL DEF Spec, ShotsAreAimed
=============================================================================
