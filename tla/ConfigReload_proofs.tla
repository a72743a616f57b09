------------------------ MODULE ConfigReload_proofs ------------------------
(***************************************************************************)
(* For every set of files and every sequence of loads: the key determines  *)
(* the configuration, the slots and priorities looked at cover the         *)
(* overrides, names keep their priorities, a file loaded over itself       *)
(* changes nothing anyone can see, and the lowest applying priority        *)
(* decides on a bone.                                                      *)
(***************************************************************************)
EXTENDS ConfigReload, ActorConfig_proofs

\* A step either leaves the tables alone or loads a file of the menu.
LEMMA StepLoads ==
    ASSUME [Next]_vars, file \in Inis
    PROVE  /\ file' \in Inis
           /\ \/ g' = g
              \/ \E ini \in Inis, known \in {EarlyForms, Forms} : g' = LoadConfig(g, ini, known)
BY DEF Next, vars, GameDataReadyEarly, GameDataReady, HotReload

-----------------------------------------------------------------------------
(* Keys and configurations *)

\* The inductive invariant: nothing in it depends on the files loaded before.
KeyInv == file \in Inis /\ ProperTables(g) /\ Covers(g)

LEMMA KeyInvInit == ASSUME Init PROVE KeyInv
BY InitialTables DEF Init, KeyInv

LEMMA KeyInvNext == ASSUME KeyInv, [Next]_vars PROVE KeyInv'
<1>1. CASE g' = g
  BY <1>1, StepLoads DEF KeyInv, ProperTables, Covers
<1>2. ASSUME NEW ini \in Inis, NEW known, g' = LoadConfig(g, ini, known)
      PROVE  KeyInv'
  <2>1. ProperTables(LoadConfig(g, ini, known))
    BY LoadConfigProper, InisAssumption DEF KeyInv
  <2>2. Covers(LoadConfig(g, ini, known))
    BY LoadConfigCovers DEF KeyInv, ProperTables
  <2>3. file' \in Inis
    BY StepLoads DEF KeyInv
  <2>4. QED
    BY <1>2, <2>1, <2>2, <2>3 DEF KeyInv, ProperTables, Covers
<1>3. QED
  BY <1>1, <1>2, StepLoads DEF KeyInv

LEMMA KeyInvAlways == Spec => []KeyInv
BY KeyInvInit, KeyInvNext, PTL DEF Spec

\* The key looks at every slot an armor override looks at.
THEOREM UsedSlotsAlwaysCover == Spec => []UsedSlotsCover
<1>1. KeyInv => UsedSlotsCover
  BY DEF KeyInv, Covers, UsedSlotsCover
<1>2. QED
  BY <1>1, KeyInvAlways, PTL

\* Outfits with one key have one configuration, after any loads
\* (cachedConfigs, ActorUtils.cpp:269-275, and the test at scan.cpp:315).
THEOREM KeyAlwaysDeterminesConfig == Spec => []KeyDeterminesConfig
<1>1. KeyInv => KeyDeterminesConfig
  BY KeyFixesConfig DEF KeyInv, ProperTables, KeyDeterminesConfig
<1>2. QED
  BY <1>1, KeyInvAlways, PTL

-----------------------------------------------------------------------------
(* Names *)

\* A load keeps the names it finds, but for detectArmor's "A".
LEMMA LoadConfigKeepsNames ==
    ASSUME NEW h, NEW ini, NEW known, DOMAIN h = DOMAIN InitialGlobals, NEW n \in DOMAIN h.nameMap
    PROVE  /\ n \in DOMAIN LoadConfig(h, ini, known).nameMap
           /\ \/ LoadConfig(h, ini, known).nameMap[n] = h.nameMap[n]
              \/ n = CompatName /\ LoadConfig(h, ini, known).nameMap[n] = 0
<1>1. LoadConfig(h, ini, known).nameMap = MapNames(h.nameMap, ini)
  BY ClearedTables DEF LoadConfig
<1>2. /\ n \in DOMAIN MapNames(h.nameMap, ini)
      /\ \/ MapNames(h.nameMap, ini)[n] = h.nameMap[n]
         \/ n = CompatName /\ MapNames(h.nameMap, ini)[n] = 0
  BY DEF MapNames, Over, Restrict
<1>3. QED
  BY <1>1, <1>2

\* A name keeps its priority for the session (config.cpp:234-253).
THEOREM NamesStay == Spec => NamesAreWriteOnce
<1>1. ASSUME KeyInv, [Next]_vars
      PROVE  [\A n \in DOMAIN g.nameMap :
                /\ n \in DOMAIN g'.nameMap
                /\ g'.nameMap[n] = g.nameMap[n] \/ (n = CompatName /\ g'.nameMap[n] = 0)]_vars
  <2>1. CASE g' = g
    BY <2>1
  <2>2. CASE \E ini \in Inis, known \in {EarlyForms, Forms} : g' = LoadConfig(g, ini, known)
    BY <1>1, <2>2, LoadConfigKeepsNames DEF KeyInv, ProperTables
  <2>3. QED
    BY <1>1, <2>1, <2>2, StepLoads DEF KeyInv
<1>2. QED
  BY <1>1, KeyInvAlways, PTL DEF Spec, NamesAreWriteOnce

-----------------------------------------------------------------------------
(* Priorities *)

\* A priority that no name stands for gets no override from a file.
LEMMA UnnamedStaysEmpty ==
    ASSUME NEW nameMap, NEW ini, NEW known, NEW p \in Priorities,
           \A n \in DOMAIN nameMap : nameMap[n] # p,
           ~(p = 0 /\ DetectArmorCompat(ini))
    PROVE  /\ LoadArmor(NoArmorOverride, nameMap, ini, known, p) = NoArmorOverride
           /\ LoadActor(NoActorOverride, nameMap, ini, known, p) = NoActorOverride
<1>1. \A sections : NamesAt(nameMap, sections, p) = {}
  BY DEF NamesAt
<1>2. ArmorNamesAt(nameMap, ini, p) = {}
  BY <1>1 DEF ArmorNamesAt
<1>3. \A sections : Merged(sections, {}) = NoConfig
  BY DEF Merged, NoConfig
<1>4. WrittenOver(NoConfig, NoConfig) = NoConfig
  BY DEF WrittenOver, NoConfig
<1>5. Overridden(NoConfig, NoConfig) = NoConfig
  BY DEF Overridden, NoConfig
<1>6. LoadArmor(NoArmorOverride, nameMap, ini, known, p) = NoArmorOverride
  BY <1>1, <1>2, <1>3, <1>4, <1>5 DEF LoadArmor, NoArmorOverride
<1>7. LoadActor(NoActorOverride, nameMap, ini, known, p) = NoActorOverride
  BY <1>1, <1>3, <1>4, <1>5 DEF LoadActor, NoActorOverride
<1>8. QED
  BY <1>6, <1>7

\* What one load does to the priorities and to the overrides of one of them.
LEMMA LoadConfigPriorities ==
    ASSUME NEW h, NEW ini, NEW known, ProperTables(h), NEW p \in Priorities,
           h.actorMap[p] # NoActorOverride => p \in h.priorities
    PROVE  (\/ LoadConfig(h, ini, known).armorMap[p] # NoArmorOverride
            \/ LoadConfig(h, ini, known).actorMap[p] # NoActorOverride)
               => p \in LoadConfig(h, ini, known).priorities
<1> DEFINE k == LoadConfig(h, ini, known)
           nameMap == MapNames(h.nameMap, ini)
<1>1. /\ Cleared(h).armorMap[p] = NoArmorOverride
      /\ Cleared(h).nameMap = h.nameMap
      /\ Cleared(h).priorities = h.priorities
      /\ Cleared(h).actorMap = h.actorMap
  <2>1. "actorMap" \in DOMAIN h
    BY DEF ProperTables, InitialGlobals
  <2>2. Cleared(h).actorMap = h.actorMap
    BY <2>1 DEF Cleared
  <2>3. QED
    BY <2>2, ClearedTables DEF ProperTables
<1>2. /\ k.armorMap[p] = LoadArmor(NoArmorOverride, nameMap, ini, known, p)
      /\ k.actorMap[p] = LoadActor(h.actorMap[p], nameMap, ini, known, p)
      /\ k.priorities = h.priorities \cup Range(nameMap)
  BY <1>1 DEF LoadConfig, LoadPriorities
<1>3. DetectArmorCompat(ini) => CompatName \in DOMAIN nameMap /\ nameMap[CompatName] = 0
  BY DEF MapNames, Over
<1> HIDE DEF k, nameMap
<1> SUFFICES k.armorMap[p] # NoArmorOverride \/ k.actorMap[p] # NoActorOverride => p \in k.priorities
  BY DEF k
<1>4. CASE p \in Range(nameMap)
  BY <1>2, <1>4
<1>5. CASE p \notin Range(nameMap)
  <2>1. \A n \in DOMAIN nameMap : nameMap[n] # p
    BY <1>5 DEF Range
  <2>2. ~(p = 0 /\ DetectArmorCompat(ini))
    BY <1>3, <2>1
  <2>3. k.armorMap[p] = NoArmorOverride
    BY <1>2, <2>1, <2>2, UnnamedStaysEmpty
  <2>4. h.actorMap[p] = NoActorOverride => k.actorMap[p] = NoActorOverride
    BY <1>2, <2>1, <2>2, UnnamedStaysEmpty
  <2>5. QED
    BY <1>2, <2>3, <2>4
<1>6. QED
  BY <1>4, <1>5

\* Every override that was ever loaded is at a priority that is walked.
THEOREM PrioritiesAlwaysCover == Spec => []PrioritiesCover
<1>1. Init => PrioritiesCover
  BY DEF Init, InitialGlobals, PrioritiesCover
<1>2. ASSUME KeyInv, PrioritiesCover, [Next]_vars PROVE PrioritiesCover'
  <2>1. CASE g' = g
    BY <1>2, <2>1 DEF PrioritiesCover
  <2>2. CASE \E ini \in Inis, known \in {EarlyForms, Forms} : g' = LoadConfig(g, ini, known)
    BY <1>2, <2>2, LoadConfigPriorities DEF KeyInv, PrioritiesCover
  <2>3. QED
    BY <1>2, <2>1, <2>2, StepLoads DEF KeyInv
<1>3. QED
  BY <1>1, <1>2, KeyInvAlways, PTL DEF Spec

-----------------------------------------------------------------------------
(* One load over another *)

\* A file loaded over itself, first with fewer forms that resolve, has the effect
\* of one load.
LEMMA LoadTwiceSameEffect ==
    ASSUME NEW h, ProperTables(h), NEW ini, ProperIni(ini),
           NEW early, NEW known, early \subseteq known
    PROVE  SameEffect(LoadConfig(LoadConfig(h, ini, early), ini, known), LoadConfig(h, ini, known))
<1>1. SameTables(LoadConfig(LoadConfig(h, ini, early), ini, known), LoadConfig(h, ini, known))
  BY LoadTwice
<1>2. LoadConfig(h, ini, known).priorities \subseteq Priorities
  BY LoadConfigProper DEF ProperTables
<1>3. QED
  BY <1>1, <1>2, SameTablesSameConfig DEF SameEffect, SameTables

-----------------------------------------------------------------------------
(* What the tables are *)

\* Every load is of the present file over tables that were proper.
LoadedInv ==
    /\ stage \in {"loading", "early", "ready"}
    /\ stage = "loading" => g = InitialGlobals
    /\ stage = "early" => g = LoadConfig(InitialGlobals, file, EarlyForms)
    /\ stage = "ready" => \E h : ProperTables(h) /\ g = LoadConfig(h, file, Forms)

LEMMA LoadedInvNext == KeyInv /\ LoadedInv /\ [Next]_vars => LoadedInv'
<1> SUFFICES ASSUME KeyInv, LoadedInv, [Next]_vars PROVE LoadedInv'
  OBVIOUS
<1>1. CASE GameDataReadyEarly
  BY <1>1 DEF GameDataReadyEarly, LoadedInv
<1>2. CASE GameDataReady
  BY <1>2 DEF GameDataReady, LoadedInv, KeyInv
<1>3. ASSUME NEW ini \in Inis, HotReload(ini) PROVE LoadedInv'
  BY <1>3 DEF HotReload, LoadedInv, KeyInv
<1>4. CASE UNCHANGED vars
  BY <1>4 DEF vars, LoadedInv
<1>5. QED
  BY <1>1, <1>2, <1>3, <1>4 DEF Next

LEMMA LoadedInvAlways == Spec => []LoadedInv
<1>1. Init => LoadedInv
  BY DEF Init, LoadedInv
<1>2. QED
  BY <1>1, LoadedInvNext, KeyInvAlways, PTL DEF Spec

\* The shape of the tables is kept by every load.
THEOREM TypeCorrect == Spec => []TypeOK
<1> DEFINE Shape(k) == /\ k.flags \subseteq Flags /\ k.priorities \subseteq Priorities
                       /\ DOMAIN k.nameMap \subseteq Names /\ Range(k.nameMap) \subseteq Priorities
                       /\ DOMAIN k.armorMap = Priorities /\ DOMAIN k.actorMap = Priorities
<1>1. Shape(InitialGlobals)
  BY DEF InitialGlobals, Range
<1>2. ASSUME NEW h, ProperTables(h), DOMAIN h.nameMap \subseteq Names, NEW ini, ProperIni(ini), NEW known
      PROVE  Shape(LoadConfig(h, ini, known))
  <2> DEFINE k == LoadConfig(h, ini, known)
             nameMap == MapNames(h.nameMap, ini)
  <2>1. /\ k.flags = LoadFlags(ini) /\ k.nameMap = nameMap
        /\ DOMAIN k.armorMap = Priorities /\ DOMAIN k.actorMap = Priorities
    BY <1>2, LoadedTables
  <2>2. ProperTables(k)
    BY <1>2, LoadConfigProper
  <2>3. DOMAIN nameMap \subseteq DOMAIN h.nameMap \cup SectionNames(ini) \cup {CompatName}
    BY DEF MapNames, Over, Restrict
  <2> HIDE DEF k, nameMap
  <2>4. DOMAIN k.nameMap \subseteq Names
    BY <1>2, <2>1, <2>3, NamesAssumption DEF ProperIni
  <2>5. k.flags \subseteq Flags
    BY <1>2, <2>1 DEF LoadFlags, ProperIni
  <2>6. Shape(k)
    BY <2>1, <2>2, <2>4, <2>5 DEF ProperTables, Range
  <2>7. QED
    BY <2>6 DEF k
<1>3. KeyInv /\ LoadedInv /\ Shape(g) => TypeOK
  BY DEF KeyInv, LoadedInv, TypeOK
<1>4. KeyInv /\ Shape(g) /\ [Next]_vars => Shape(g)'
  <2> SUFFICES ASSUME KeyInv, Shape(g), [Next]_vars PROVE Shape(g')
    OBVIOUS
  <2> HIDE DEF Shape
  <2>1. CASE g' = g
    BY <2>1
  <2>2. CASE \E ini \in Inis, known \in {EarlyForms, Forms} : g' = LoadConfig(g, ini, known)
    <3>1. DOMAIN g.nameMap \subseteq Names
      BY DEF Shape
    <3>2. QED
      BY <1>2, <2>2, <3>1, InisAssumption DEF KeyInv
  <2>3. QED
    BY <2>1, <2>2, StepLoads DEF KeyInv
<1> HIDE DEF Shape
<1>5. Init => Shape(g)
  BY <1>1 DEF Init
<1>6. QED
  BY <1>3, <1>4, <1>5, KeyInvAlways, LoadedInvAlways, PTL DEF Spec

\* A reload of an unchanged file changes nothing for any actor.
THEOREM ReloadAlwaysIdempotent == Spec => []ReloadIdempotent
<1>1. KeyInv /\ LoadedInv => ReloadIdempotent
  <2> SUFFICES ASSUME KeyInv, LoadedInv, stage = "ready"
               PROVE  SameEffect(LoadConfig(g, file, Forms), g)
    BY DEF ReloadIdempotent
  <2>1. PICK h : ProperTables(h) /\ g = LoadConfig(h, file, Forms)
    BY DEF LoadedInv
  <2>2. QED
    BY <2>1, LoadTwiceSameEffect, InisAssumption DEF KeyInv
<1>2. QED
  BY <1>1, KeyInvAlways, LoadedInvAlways, PTL

\* The two loads of GameDataReady (main.cpp:33-43) have the effect of one.
THEOREM StartupAlwaysOneLoad == Spec => StartupIsOneLoad
<1>1. ASSUME KeyInv, LoadedInv, [Next]_vars
      PROVE  [GameDataReady => SameEffect(g', LoadConfig(InitialGlobals, file, Forms))]_vars
  <2> SUFFICES ASSUME GameDataReady
               PROVE  SameEffect(g', LoadConfig(InitialGlobals, file, Forms))
    OBVIOUS
  <2>1. g' = LoadConfig(LoadConfig(InitialGlobals, file, EarlyForms), file, Forms)
    BY <1>1 DEF GameDataReady, LoadedInv
  <2>2. QED
    BY <1>1, <2>1, LoadTwiceSameEffect, InitialTables, InisAssumption, FormsAssumption DEF KeyInv
<1>2. QED
  BY <1>1, KeyInvAlways, LoadedInvAlways, PTL DEF Spec, StartupIsOneLoad

\* As long as the names of the file stand for what they would stand for in a new
\* session, what LoadConfig clears (config.cpp:117-121) is as in a new session.
THEOREM ClearedPartAlwaysFresh == Spec => []ClearedPartIsFresh
<1>1. ASSUME NEW m, NEW f, NEW ini, NEW known,
             \A n \in SectionNames(ini) : n \in DOMAIN m <=> n \in DOMAIN f,
             \A n \in DOMAIN f : m[n] = f[n]
      PROVE  /\ LoadBoneNames(m, ini) = LoadBoneNames(f, ini)
             /\ LoadUsedSlots(m, ini) = LoadUsedSlots(f, ini)
             /\ \A p : LoadArmor(NoArmorOverride, m, ini, known, p)
                            = LoadArmor(NoArmorOverride, f, ini, known, p)
  <2>1. /\ DOMAIN ini.sub \cap DOMAIN m = DOMAIN ini.sub \cap DOMAIN f
        /\ DOMAIN ini.armor \cap DOMAIN m = DOMAIN ini.armor \cap DOMAIN f
        /\ DOMAIN ini.subOverride \cap DOMAIN m = DOMAIN ini.subOverride \cap DOMAIN f
    BY <1>1 DEF SectionNames
  <2>2. LoadBoneNames(m, ini) = LoadBoneNames(f, ini)
    BY <2>1 DEF LoadBoneNames
  <2>3. LoadUsedSlots(m, ini) = LoadUsedSlots(f, ini)
    BY <2>1 DEF LoadUsedSlots
  <2>4. ASSUME NEW p
        PROVE  LoadArmor(NoArmorOverride, m, ini, known, p)
                    = LoadArmor(NoArmorOverride, f, ini, known, p)
    <3>1. /\ NamesAt(m, ini.sub, p) = NamesAt(f, ini.sub, p)
          /\ NamesAt(m, ini.armor, p) = NamesAt(f, ini.armor, p)
          /\ NamesAt(m, ini.subOverride, p) = NamesAt(f, ini.subOverride, p)
      BY <1>1, <2>1 DEF NamesAt
    <3>2. ArmorNamesAt(m, ini, p) = ArmorNamesAt(f, ini, p)
      BY <3>1 DEF ArmorNamesAt
    <3>3. QED
      BY <2>2, <3>1, <3>2 DEF LoadArmor
  <2>5. QED
    BY <2>2, <2>3, <2>4
<1>2. KeyInv /\ LoadedInv => ClearedPartIsFresh
  <2> SUFFICES ASSUME KeyInv, LoadedInv, stage = "ready",
                      \A n \in SectionNames(file) : {n} \cap DOMAIN g.nameMap
                            = {n} \cap DOMAIN Fresh.nameMap,
                      \A n \in DOMAIN Fresh.nameMap : g.nameMap[n] = Fresh.nameMap[n]
               PROVE  /\ g.boneNames = Fresh.boneNames /\ g.config = Fresh.config
                      /\ g.armorMap = Fresh.armorMap /\ g.usedSlots = Fresh.usedSlots
    BY DEF ClearedPartIsFresh
  <2>1. PICK h : ProperTables(h) /\ g = LoadConfig(h, file, Forms)
    BY DEF LoadedInv
  <2>2. /\ g.boneNames = LoadBoneNames(g.nameMap, file)
        /\ g.config = WrittenOver(NoConfig, LoadAttach(file))
        /\ g.armorMap = [p \in Priorities |-> LoadArmor(NoArmorOverride, g.nameMap, file, Forms, p)]
        /\ g.usedSlots = LoadUsedSlots(g.nameMap, file)
    BY <2>1, LoadedTables
  <2>3. /\ Fresh.boneNames = LoadBoneNames(Fresh.nameMap, file)
        /\ Fresh.config = WrittenOver(NoConfig, LoadAttach(file))
        /\ Fresh.armorMap = [p \in Priorities |->
                                LoadArmor(NoArmorOverride, Fresh.nameMap, file, Forms, p)]
        /\ Fresh.usedSlots = LoadUsedSlots(Fresh.nameMap, file)
    BY InitialTables, LoadedTables DEF Fresh
  <2>4. \A n \in SectionNames(file) : n \in DOMAIN g.nameMap <=> n \in DOMAIN Fresh.nameMap
    OBVIOUS
  <2>5. QED
    BY <1>1, <2>2, <2>3, <2>4
<1>3. QED
  BY <1>2, KeyInvAlways, LoadedInvAlways, PTL

-----------------------------------------------------------------------------
(* Who decides on a bone *)

\* No bone of the base configuration has an entry without settings, also before
\* the first load.
BaseInv == PlainBase(g)

LEMMA BaseInvNext == KeyInv /\ BaseInv /\ [Next]_vars => BaseInv'
<1> SUFFICES ASSUME KeyInv, PlainBase(g), [Next]_vars PROVE PlainBase(g')
  BY DEF BaseInv
<1>1. CASE g' = g
  BY <1>1
<1>2. CASE \E ini \in Inis, known \in {EarlyForms, Forms} : g' = LoadConfig(g, ini, known)
  BY <1>2, LoadedBasePlain, InisAssumption DEF KeyInv
<1>3. QED
  BY <1>1, <1>2, StepLoads DEF KeyInv

\* After any loads every actor's settings for a bone come from the lowest
\* priority that applies to it and lists the bone, or from [Attach]
\* (ActorUtils.cpp:233-262).
THEOREM LowestPriorityAlwaysDecides == Spec => []LowestPriorityDecides
<1>1. Init => BaseInv
  BY DEF BaseInv, Init, InitialGlobals, PlainBase, NoConfig
<1>2. KeyInv /\ BaseInv => LowestPriorityDecides
  <2> SUFFICES ASSUME KeyInv, PlainBase(g), NEW a \in ActorIds, NEW o \in Outfits
               PROVE  LET ps == ApplyingPriorities(g, a, o)
                          config == BuildConfig(g, a, o)
                      IN  \A b : /\ b \in DOMAIN config <=> Decided(g, ps, b) # NoSettings
                                 /\ b \in DOMAIN config => config[b] = Decided(g, ps, b)
    BY DEF BaseInv, LowestPriorityDecides, Decided
  <2> DEFINE ps == ApplyingPriorities(g, a, o)
  <2>1. ps \in SUBSET Priorities
    BY DEF KeyInv, ProperTables, ApplyingPriorities
  <2>2. ps \in SUBSET Nat /\ IsFiniteSet(ps)
    BY <2>1, PrioritiesAssumption, FS_Subset
  <2>3. DecidedConfig(g, ps, BuildConfig(g, a, o))
    BY <2>2, ComposeDecides DEF BuildConfig
  <2>4. QED
    BY <2>3 DEF DecidedConfig
<1>3. QED
  BY <1>1, <1>2, BaseInvNext, KeyInvAlways, PTL DEF Spec
=============================================================================
