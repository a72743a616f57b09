SPECIFICATION Spec
\* An exception ends the game.
CHECK_DEADLOCK FALSE
CONSTANTS
    Actors = {a1, a2}
    Races = {human, ghoul}
    Bones = {breast, belly}
    BreastBones = {breast}
    ChestRaces = {human}
    NoRace = NoRace
    NoPose = NoPose
    NoBone = NoBone
SYMMETRY Symmetry
INVARIANTS
    TypeOK
    SavedUnmoved
    MoveHasRest
PROPERTIES
    SavedOnce
