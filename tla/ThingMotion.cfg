SPECIFICATION Spec
\* A worker that finds a freed map may end the game.
CHECK_DEADLOCK FALSE
CONSTANTS
    Bones = {b1, b2}
    Bone = b1
    Places <- MCPlaces
    Settings <- MCSettings
    Pushes <- MCPushes
    Turns = {0, 3}
    Garbage <- MCGarbage
    Limit = 6
    LagCap = 4
    CogCap = 1
    NaN = NaN
    NoThing = NoThing
    NoMap = NoMap
INVARIANTS
    TypeOK
    ToggleHonoured
    NoSpuriousReset
    SubstepsFitFrame

    
