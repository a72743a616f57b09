SPECIFICATION Spec
CONSTANTS
    Names = {0, 1}
    CompatName = 0
    Priorities = {0, 1}
    CompatSlot = 11
    NoModel = NoModel
    Player = Player
    NoCell = NoCell
    Sexes = {"male", "female"}
    NoRace = NoRace
    b1 = b1
    b2 = b2
    npc = npc
    boots = boots
    bootsModel = bootsModel
    coat = coat
    coatModel = coatModel
    human = human
    ghoul = ghoul
    Skeleton <- MCSkeleton
    Forms <- MCForms
    EarlyForms <- MCEarlyForms
    Actors <- TwoActors
    Cells = {c1}
    Races = {human}
    Garments <- TwoGarments
    Inis <- Edits
    StartBodies <- HumanMen
    Quiet = TRUE
    Moves = {"leave", "delete", "worn", "disk"}
INVARIANTS
    TypeOK
    CacheCoherent
    SettingsCurrent
