SPECIFICATION Spec
CONSTANTS
    Names = {0, 1}
    CompatName = 0
    Priorities = {0, 1}
    CompatSlot = 11
    NoModel = NoModel
    Player = Player
    NoCell = NoCell
    Sexes = {"male", "female"}
    NoRace = NoRace
    b1 = b1
    b2 = b2
    npc = npc
    boots = boots
    bootsModel = bootsModel
    coat = coat
    coatModel = coatModel
    human = human
    ghoul = ghoul
    Skeleton <- MCSkeleton
    Forms <- MCForms
    EarlyForms <- MCEarlyForms
    Actors <- OneActor
    Cells = {c1, c2}
    Races = {human, ghoul}
    Garments <- OneGarment
    Inis <- Whitelists
    StartBodies <- AnyBodies
    Quiet = TRUE
    Moves = {"leave", "delete", "body", "cell", "disk"}
INVARIANTS
    SettingsCurrent
    FrameBinds
PROPERTIES
    StateRetained
