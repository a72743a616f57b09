SPECIFICATION Spec
CONSTANTS
    Names = {0, 1}
    CompatName = 0
    Priorities = {0, 1}
    CompatSlot = 11
    NoModel = NoModel
    b1 = b1
    b2 = b2
    player = player
    npc = npc
    boots = boots
    bootsModel = bootsModel
    coat = coat
    coatModel = coatModel
    Garments <- MCGarments
    Inis <- MCInis
    ActorIds <- MCActorIds
    EarlyForms <- MCEarlyForms
    Forms <- MCForms
INVARIANTS
    TypeOK
    UsedSlotsCover
    KeyDeterminesConfig
    PrioritiesCover
    LowestPriorityDecides
    ReloadIdempotent
    ClearedPartIsFresh
PROPERTIES
    StartupIsOneLoad
    NamesAreWriteOnce
