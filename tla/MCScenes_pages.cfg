SPECIFICATION Spec
CONSTANTS
    floor = floor
    golf_ball = golf_ball
    mouse = mouse
    pen = pen
    NumBranches = 3
    NumCues = 2
    NumBalls = 2
    AngleLimit = 0
    Sizes = {0, 1, 2, 3}
    Meshes = {floor, golf_ball}
    Pointers = {mouse, pen}
    MaxFingers = 3
    Floor = floor
INVARIANT
    OneRedCue
    AimedBallIsHome
    KeepsRunning
    HandlersAgree
    SideCameraFits
    GesturesAreHeld
PROPERTY
    ShotsAreAimed
    RefreshIsDone
