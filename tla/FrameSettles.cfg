SPECIFICATION FairSpec
CONSTANTS
    Names = {0, 1}
    CompatName = 0
    Priorities = {0, 1}
    CompatSlot = 11
    NoModel = NoModel
    Player = Player
    NoCell = NoCell
    Sexes = {"male", "female"}
    NoRace = NoRace
    b1 = b1
    b2 = b2
    npc = npc
    boots = boots
    bootsModel = bootsModel
    coat = coat
    coatModel = coatModel
    human = human
    ghoul = ghoul
    Skeleton <- MCSkeleton
    Forms <- MCForms
    EarlyForms <- MCEarlyForms
    Actors <- OneActor
    Cells = {c1}
    Races = {human}
    Garments <- OneGarment
    Inis <- Layers
    StartBodies <- HumanMen
    Quiet = FALSE
    Moves = {"leave", "delete", "worn", "disk"}
INVARIANTS
    CacheFromPresentTables
PROPERTIES
    Settles
