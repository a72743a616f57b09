------------------------- MODULE ActorConfig_proofs -------------------------
(***************************************************************************)
(* Facts about LoadConfig and about keys and composed configurations, for  *)
(* every file, table and outfit: what loading preserves and what loading   *)
(* twice changes, that the key fixes the configuration, and which priority *)
(* decides on a bone.  They carry the proofs about the frame loop and the  *)
(* reload sessions.                                                        *)
(***************************************************************************)
EXTENDS ActorConfig, FiniteSetTheorems, TLAPS

\* A record of all the tables, whose names and priorities BuildConfigForActor
\* can look up.
ProperTables(g) ==
    /\ DOMAIN g = DOMAIN InitialGlobals
    /\ \A n \in DOMAIN g.nameMap : g.nameMap[n] \in Priorities
    /\ g.priorities \subseteq Priorities

\* usedSlots covers the slots of every armor override.
Covers(g) == \A p \in Priorities : g.armorMap[p].slots \subseteq g.usedSlots

-----------------------------------------------------------------------------
(* LoadConfig *)

\* The names keep priorities one can look up (config.cpp:234-253 and its three
\* copies, 163).
LEMMA MapNamesProper ==
    ASSUME NEW nameMap, NEW ini, ProperIni(ini),
           \A n \in DOMAIN nameMap : nameMap[n] \in Priorities
    PROVE  \A n \in DOMAIN MapNames(nameMap, ini) : MapNames(nameMap, ini)[n] \in Priorities
<1> DEFINE mapped == IF DetectArmorCompat(ini) THEN Over([n \in {CompatName} |-> 0], nameMap)
                     ELSE nameMap
           unmapped == (SectionNames(ini) \cap DOMAIN ini.prio) \ DOMAIN mapped
<1>1. \A n \in DOMAIN mapped : mapped[n] \in Priorities
  BY PrioritiesAssumption DEF Over
<1>2. \A n \in unmapped : ini.prio[n] \in Priorities
  BY DEF ProperIni
<1>3. MapNames(nameMap, ini) = Over(mapped, Restrict(ini.prio, unmapped))
  BY DEF MapNames
<1> HIDE DEF mapped, unmapped
<1>4. QED
  BY <1>1, <1>2, <1>3 DEF Over, Restrict

\* What LoadConfig clears is empty when it starts to fill the tables, and the
\* names, priorities and whitelist are as they were (config.cpp:117-121).
LEMMA ClearedTables ==
    ASSUME NEW g, DOMAIN g = DOMAIN InitialGlobals
    PROVE  /\ Cleared(g).armorMap = [p \in Priorities |-> NoArmorOverride]
           /\ Cleared(g).usedSlots = {}
           /\ Cleared(g).nameMap = g.nameMap
           /\ Cleared(g).priorities = g.priorities
<1>1. {"armorMap", "usedSlots", "nameMap", "priorities"} \subseteq DOMAIN g
  BY DEF InitialGlobals
<1>2. QED
  BY <1>1 DEF Cleared

\* The tables before the first load are proper, and cover.
LEMMA InitialTables == ProperTables(InitialGlobals) /\ Covers(InitialGlobals)
BY DEF ProperTables, Covers, InitialGlobals, NoArmorOverride

\* LoadConfig keeps the tables proper, whatever the file says.
LEMMA LoadConfigProper ==
    ASSUME NEW g, NEW ini, NEW known, ProperTables(g), ProperIni(ini)
    PROVE  ProperTables(LoadConfig(g, ini, known))
<1> DEFINE h == LoadConfig(g, ini, known)
           nameMap == MapNames(g.nameMap, ini)
<1>1. \A n \in DOMAIN nameMap : nameMap[n] \in Priorities
  BY MapNamesProper DEF ProperTables
<1>2. Cleared(g).nameMap = g.nameMap /\ Cleared(g).priorities = g.priorities
  BY ClearedTables DEF ProperTables
<1>3. DOMAIN h = DOMAIN InitialGlobals
  BY DEF LoadConfig, InitialGlobals
<1>4. h.nameMap = nameMap /\ h.priorities = g.priorities \cup Range(nameMap)
  BY <1>2 DEF LoadConfig, LoadPriorities
<1> HIDE DEF h, nameMap
<1>5. ProperTables(h)
  BY <1>1, <1>3, <1>4 DEF ProperTables, Range
<1>6. QED
  BY <1>5 DEF h

\* LoadConfig fills usedSlots beside the slots of every override and clears
\* the two together (config.cpp:119-120, 164-165, 331-332).
LEMMA LoadConfigCovers ==
    ASSUME NEW g, NEW ini, NEW known, DOMAIN g = DOMAIN InitialGlobals
    PROVE  Covers(LoadConfig(g, ini, known))
<1> DEFINE h == LoadConfig(g, ini, known)
           nameMap == MapNames(g.nameMap, ini)
<1> SUFFICES ASSUME NEW p \in Priorities PROVE h.armorMap[p].slots \subseteq h.usedSlots
  BY DEF Covers
<1>1. Cleared(g).armorMap[p] = NoArmorOverride /\ Cleared(g).usedSlots = {}
      /\ Cleared(g).nameMap = g.nameMap
  BY ClearedTables
<1>2. h.armorMap[p] = LoadArmor(NoArmorOverride, nameMap, ini, known, p)
  BY <1>1 DEF LoadConfig
<1>3. h.usedSlots = LoadUsedSlots(nameMap, ini)
  BY <1>1 DEF LoadConfig
<1>4. LoadArmor(NoArmorOverride, nameMap, ini, known, p).slots
        = (UNION {ini.armor[n].slots : n \in ArmorNamesAt(nameMap, ini, p)})
            \cup (IF p = 0 /\ DetectArmorCompat(ini) THEN {CompatSlot} ELSE {})
  BY DEF LoadArmor, NoArmorOverride
<1>5. ArmorNamesAt(nameMap, ini, p)
        \subseteq {n \in DOMAIN ini.armor \cap DOMAIN nameMap : ini.armor[n].hasSlots}
  BY DEF ArmorNamesAt, NamesAt
<1> HIDE DEF h, nameMap
<1>6. QED
  BY <1>2, <1>3, <1>4, <1>5 DEF LoadUsedSlots

\* The flags and the rate are the file's, and the flags are flags.
LEMMA LoadConfigScalars ==
    ASSUME NEW g, NEW ini, NEW known
    PROVE  /\ LoadConfig(g, ini, known).rate = ini.rate
           /\ LoadConfig(g, ini, known).flags \subseteq ini.flags
BY DEF LoadConfig, LoadFlags

-----------------------------------------------------------------------------
(* Keys and configurations *)

\* A slot shows nothing or one garment of the outfit.
LEMMA EquippedIsShown ==
    ASSUME NEW o, NEW s
    PROVE  LET d == GetActorEquippedArmor(o, s)
           IN  /\ d = <<d[1], d[2]>>
               /\ d # Nothing => \E x \in o : s \in x.slots /\ d = Data(x)
<1> DEFINE shown == {x \in o : s \in x.slots}
<1>1. CASE shown = {}
  BY <1>1 DEF GetActorEquippedArmor, Nothing
<1>2. CASE shown # {}
  <2> DEFINE x == CHOOSE x \in shown : TRUE
  <2>1. x \in shown
    BY <1>2
  <2>2. GetActorEquippedArmor(o, s) = Data(x)
    BY <1>2 DEF GetActorEquippedArmor
  <2> HIDE DEF x
  <2>3. QED
    BY <2>1, <2>2 DEF Data
<1>3. QED
  BY <1>1, <1>2

\* Of an outfit only one garment covers a slot.
LEMMA CoveredByOne ==
    ASSUME NEW o \in Outfits, NEW x \in o, NEW s \in x.slots
    PROVE  GetActorEquippedArmor(o, s) = Data(x)
<1> DEFINE shown == {y \in o : s \in y.slots}
<1>1. shown = {x}
  BY DEF Outfits
<1>2. (CHOOSE y \in shown : TRUE) = x
  BY <1>1
<1>3. QED
  BY <1>1, <1>2 DEF GetActorEquippedArmor

\* Two outfits that give one key show the same in every slot that is used.
LEMMA KeyFixesEquipped ==
    ASSUME NEW g, NEW a, NEW o1 \in Outfits, NEW o2 \in Outfits,
           BuildActorKey(g, a, o1) = BuildActorKey(g, a, o2),
           NEW s \in g.usedSlots
    PROVE  GetActorEquippedArmor(o1, s) = GetActorEquippedArmor(o2, s)
<1> DEFINE read(o) == [t \in g.usedSlots |-> GetActorEquippedArmor(o, t)]
           bag(r) == [d \in Range(r) \ {Nothing} |-> Cardinality({t \in DOMAIN r : r[t] = d})]
<1>1. Range(read(o1)) \ {Nothing} = Range(read(o2)) \ {Nothing}
  <2>1. BuildActorKey(g, a, o1)[2] = bag(read(o1)) /\ BuildActorKey(g, a, o2)[2] = bag(read(o2))
    BY DEF BuildActorKey, KeyOf
  <2>2. \A r : DOMAIN bag(r) = Range(r) \ {Nothing}
    OBVIOUS
  <2> HIDE DEF bag, read
  <2>3. bag(read(o1)) = bag(read(o2))
    BY <2>1
  <2>4. QED
    BY <2>2, <2>3
<1>2. \A d : d \in Range(read(o1)) \ {Nothing} <=> d \in Range(read(o2)) \ {Nothing}
  BY <1>1
<1> HIDE DEF bag
<1>3. ASSUME NEW o \in Outfits, NEW p \in Outfits,
             \A d : d \in Range(read(o)) \ {Nothing} => d \in Range(read(p)) \ {Nothing},
             GetActorEquippedArmor(o, s) # Nothing
      PROVE  GetActorEquippedArmor(p, s) = GetActorEquippedArmor(o, s)
  <2> DEFINE d == GetActorEquippedArmor(o, s)
  <2>1. PICK x \in o : s \in x.slots /\ d = Data(x)
    BY <1>3, EquippedIsShown
  <2>2. d \in Range(read(o)) \ {Nothing}
    BY <1>3 DEF Range
  <2>3. PICK t \in g.usedSlots : GetActorEquippedArmor(p, t) = d
    BY <1>3, <2>2 DEF Range
  <2>4. PICK y \in p : d = Data(y)
    BY <1>3, <2>3, EquippedIsShown
  <2>5. x \in Garments /\ y \in Garments
    BY DEF Outfits
  <2>6. x = y
    BY <2>1, <2>4, <2>5, GarmentsAssumption DEF Data
  <2>7. QED
    BY <2>1, <2>4, <2>6, CoveredByOne
<1>4. QED
  BY <1>2, <1>3

\* BuildConfigForActor composes one configuration for all outfits with one key
\* (scan.cpp:314-320 and cachedConfigs rely on it).
THEOREM KeyFixesConfig ==
    ASSUME NEW g, g.priorities \subseteq Priorities, Covers(g),
           NEW a, NEW o1 \in Outfits, NEW o2 \in Outfits,
           BuildActorKey(g, a, o1) = BuildActorKey(g, a, o2)
    PROVE  BuildConfig(g, a, o1) = BuildConfig(g, a, o2)
<1>1. ASSUME NEW p \in g.priorities
      PROVE  MayApply(g, a, {o1}, p) <=> MayApply(g, a, {o2}, p)
  <2>1. \A s \in g.armorMap[p].slots :
            GetActorEquippedArmor(o1, s) = GetActorEquippedArmor(o2, s)
    BY KeyFixesEquipped DEF Covers
  <2>2. \A s \in g.armorMap[p].slots : SlotReads({o1}, s) = SlotReads({o2}, s)
    BY <2>1 DEF SlotReads
  <2>3. QED
    BY <2>2 DEF MayApply
<1>2. ApplyingPriorities(g, a, o1) = ApplyingPriorities(g, a, o2)
  BY <1>1 DEF ApplyingPriorities
<1>3. QED
  BY <1>2 DEF BuildConfig

-----------------------------------------------------------------------------
(* Reading an outfit that changes *)

\* While an outfit stays as it is, a slot reads as it is, and so there is one
\* key and one set of priorities to be read.
LEMMA SteadyReads ==
    ASSUME NEW o, NEW s PROVE SlotReads({o}, s) = {GetActorEquippedArmor(o, s)}
BY EquippedIsShown DEF SlotReads

LEMMA SteadyKey ==
    ASSUME NEW g, NEW a, NEW o PROVE KeysRead(g, a, {o}) = {BuildActorKey(g, a, o)}
<1> DEFINE steady == [s \in g.usedSlots |-> GetActorEquippedArmor(o, s)]
           reads == {r \in [g.usedSlots -> UNION {SlotReads({o}, s) : s \in g.usedSlots}] :
                        \A s \in g.usedSlots : r[s] \in SlotReads({o}, s)}
<1>1. \A s : SlotReads({o}, s) = {GetActorEquippedArmor(o, s)}
  BY SteadyReads
<1>2. reads = {steady}
  <2>1. steady \in reads
    BY <1>1
  <2>2. ASSUME NEW r \in reads PROVE r = steady
    BY <1>1
  <2>3. QED
    BY <2>1, <2>2
<1>3. KeysRead(g, a, {o}) = {KeyOf(a, r) : r \in reads}
  BY DEF KeysRead
<1>4. BuildActorKey(g, a, o) = KeyOf(a, steady)
  BY DEF BuildActorKey
<1> HIDE DEF steady, reads
<1>5. QED
  BY <1>2, <1>3, <1>4

LEMMA SteadyPriorities ==
    ASSUME NEW g, NEW a, NEW o PROVE PrioritiesRead(g, a, {o}) = {ApplyingPriorities(g, a, o)}
<1>1. ASSUME NEW p PROVE MaySkip(g, a, {o}, p) <=> ~MayApply(g, a, {o}, p)
  <2>1. ASSUME NEW s
        PROVE  (\E d \in SlotReads({o}, s) : ~Hits(g.armorMap[p], d))
                 <=> ~\E d \in SlotReads({o}, s) : Hits(g.armorMap[p], d)
    <3>1. SlotReads({o}, s) = {GetActorEquippedArmor(o, s)}
      BY SteadyReads
    <3>2. QED
      BY <3>1, Zenon
  <2>2. QED
    BY <2>1 DEF MayApply, MaySkip
<1>2. QED
  BY <1>1 DEF PrioritiesRead, ApplyingPriorities

\* The more outfits an actor shows meanwhile, the more can be read.
LEMMA MoreRead ==
    ASSUME NEW g, NEW a, NEW few, NEW many, few \subseteq many
    PROVE  PrioritiesRead(g, a, few) \subseteq PrioritiesRead(g, a, many)
<1>1. \A s : SlotReads(few, s) \subseteq SlotReads(many, s)
  BY DEF SlotReads
<1>2. ASSUME NEW p
      PROVE  /\ MayApply(g, a, few, p) => MayApply(g, a, many, p)
             /\ MaySkip(g, a, few, p) => MaySkip(g, a, many, p)
  BY <1>1 DEF MayApply, MaySkip
<1>3. QED
  BY <1>2 DEF PrioritiesRead

-----------------------------------------------------------------------------
(* The walk over the priorities *)

\* A set of numbers with 0 and every successor has all numbers: induction whose
\* hypothesis is a set.
LEMMA AllNumbers ==
    ASSUME NEW S, 0 \in S, \A n \in Nat : n \in S => n + 1 \in S
    PROVE  Nat \subseteq S
<1> SUFFICES ASSUME Nat \ S # {} PROVE FALSE
  OBVIOUS
<1>1. PICK n \in Nat \ S : \A m \in Nat \ S : <<m, n>> \notin OpToRel(<, Nat)
  BY NatLessThanWellFounded, WFMin
<1>2. n # 0 /\ n - 1 \in Nat
  OBVIOUS
<1>3. <<n - 1, n>> \in OpToRel(<, Nat)
  BY <1>2 DEF OpToRel
<1>4. n - 1 \in S
  BY <1>1, <1>2, <1>3
<1>5. (n - 1) + 1 = n
  OBVIOUS
<1>6. n \in S
  BY <1>2, <1>4, <1>5
<1>7. QED
  BY <1>6

\* A set of numbers has a least one, and Min is it.
LEMMA MinIsLeast ==
    ASSUME NEW s \in SUBSET Nat, s # {}
    PROVE  Min(s) \in s /\ \A y \in s : Min(s) <= y
<1>1. PICK x \in s : \A y \in s : <<y, x>> \notin OpToRel(<, Nat)
  BY NatLessThanWellFounded, WFMin
<1>2. ASSUME NEW y \in s PROVE x <= y
  <2>1. y < x => <<y, x>> \in OpToRel(<, Nat)
    BY DEF OpToRel
  <2>2. ~(y < x)
    BY <1>1, <2>1
  <2>3. x \in Nat /\ y \in Nat
    OBVIOUS
  <2>4. QED
    BY <2>2, <2>3
<1>3. QED
  BY <1>2 DEF Min

\* One step of BuildConfigForActor's walk over the sets of priorities it has
\* still to see, all at once: done gives the configurations for smaller sets.
WalkStep(g, done, s) ==
    IF s = {} THEN g.config
    ELSE ApplyOverride(OverrideConfig(g, Min(s)), done[s \ {Min(s)}])

Walk(g, ps) == CHOOSE done : done = [s \in SUBSET ps |-> WalkStep(g, done, s)]

LEMMA ComposeIsWalk ==
    ASSUME NEW g, NEW ps PROVE ComposeConfig(g, ps) = Walk(g, ps)[ps]
BY DEF ComposeConfig, MapThenFoldSet, Walk, WalkStep

\* The walk ends: there is a function that steps as the walk does.
LEMMA WalkEnds ==
    ASSUME NEW g, NEW ps \in SUBSET Nat, IsFiniteSet(ps)
    PROVE  Walk(g, ps) = [s \in SUBSET ps |-> WalkStep(g, Walk(g, ps), s)]
<1> DEFINE Upto(n) == {s \in SUBSET ps : Cardinality(s) <= n}
           Walks(n) == \E done : done = [s \in Upto(n) |-> WalkStep(g, done, s)]
           Lengths == {n \in Nat : Walks(n)}
<1>1. \A s \in SUBSET ps : IsFiniteSet(s) /\ Cardinality(s) \in Nat
                            /\ Cardinality(s) <= Cardinality(ps)
  BY FS_Subset, FS_CardinalityType
<1>2. \A s \in SUBSET ps : s # {} =>
          /\ s \ {Min(s)} \in SUBSET ps
          /\ Cardinality(s \ {Min(s)}) = Cardinality(s) - 1
  BY <1>1, MinIsLeast, FS_RemoveElement
<1>3. 0 \in Lengths
  <2>1. \A s \in Upto(0) : s = {}
    BY <1>1, FS_EmptySet
  <2> DEFINE done == [s \in Upto(0) |-> g.config]
  <2>2. done = [s \in Upto(0) |-> WalkStep(g, done, s)]
    BY <2>1 DEF WalkStep
  <2>3. QED
    BY <2>2
<1>4. ASSUME NEW n \in Nat, n \in Lengths PROVE n + 1 \in Lengths
  <2>1. PICK done : done = [s \in Upto(n) |-> WalkStep(g, done, s)]
    BY <1>4
  <2> DEFINE longer == [s \in Upto(n + 1) |-> WalkStep(g, done, s)]
  <2>2. \A s \in Upto(n) : s \in Upto(n + 1) /\ longer[s] = done[s]
    BY <1>1, <2>1
  <2>3. \A s \in Upto(n + 1) : s # {} => s \ {Min(s)} \in Upto(n)
    BY <1>1, <1>2
  <2>4. \A s \in Upto(n + 1) : WalkStep(g, longer, s) = WalkStep(g, done, s)
    BY <2>2, <2>3 DEF WalkStep
  <2>5. longer = [s \in Upto(n + 1) |-> WalkStep(g, longer, s)]
    BY <2>4
  <2> HIDE DEF longer
  <2>6. Walks(n + 1)
    BY <2>5
  <2> HIDE DEF Walks
  <2>7. QED
    BY <2>6
<1>5. Nat \subseteq Lengths
  BY <1>3, <1>4, AllNumbers
<1>6. Cardinality(ps) \in Nat /\ Upto(Cardinality(ps)) = SUBSET ps
  BY <1>1
<1>7. \E done : done = [s \in SUBSET ps |-> WalkStep(g, done, s)]
  BY <1>5, <1>6
<1>8. QED
  BY <1>7 DEF Walk

\* The walk says of a bone what the lowest priority of a set that lists it says,
\* and what [Attach] says when none does; an entry without settings is no entry.
Decided(g, s, b) ==
    LET listing == {p \in s : b \in DOMAIN OverrideConfig(g, p)}
    IN  IF listing = {} THEN SettingsOf(g.config, b) ELSE OverrideConfig(g, Min(listing))[b]

DecidedConfig(g, s, config) ==
    \A b : /\ b \in DOMAIN config <=> Decided(g, s, b) # NoSettings
           /\ b \in DOMAIN config => config[b] = Decided(g, s, b)

\* No bone of the base configuration has an entry without settings.
PlainBase(g) == \A b \in DOMAIN g.config : g.config[b] # NoSettings

LEMMA ApplyOverrideAt ==
    ASSUME NEW override, NEW config, NEW b
    PROVE  LET applied == ApplyOverride(override, config)
               given == IF b \in DOMAIN override THEN override[b] ELSE config[b]
           IN  /\ b \in DOMAIN applied
                     <=> b \in DOMAIN override \cup DOMAIN config /\ given # NoSettings
               /\ b \in DOMAIN applied => applied[b] = given
BY DEF ApplyOverride, RestrictValues, Restrict, Over

\* One step of the walk decides the bones of the priority it comes to, and
\* leaves those it does not list to the higher ones.
LEMMA StepDecides ==
    ASSUME NEW g, NEW s \in SUBSET Nat, s # {}, NEW config,
           DecidedConfig(g, s \ {Min(s)}, config)
    PROVE  DecidedConfig(g, s, ApplyOverride(OverrideConfig(g, Min(s)), config))
<1> DEFINE m == Min(s)
           override == OverrideConfig(g, m)
           applied == ApplyOverride(override, config)
           listing(t, b) == {p \in t : b \in DOMAIN OverrideConfig(g, p)}
<1>1. m \in s /\ \A y \in s : m <= y
  BY MinIsLeast
<1> SUFFICES ASSUME NEW b
             PROVE  /\ b \in DOMAIN applied <=> Decided(g, s, b) # NoSettings
                    /\ b \in DOMAIN applied => applied[b] = Decided(g, s, b)
  BY DEF DecidedConfig
<1>2. /\ b \in DOMAIN config <=> Decided(g, s \ {m}, b) # NoSettings
      /\ b \in DOMAIN config => config[b] = Decided(g, s \ {m}, b)
  BY DEF DecidedConfig
<1>3. /\ b \in DOMAIN applied
            <=> /\ b \in DOMAIN override \cup DOMAIN config
                /\ (IF b \in DOMAIN override THEN override[b] ELSE config[b]) # NoSettings
      /\ b \in DOMAIN applied
            => applied[b] = IF b \in DOMAIN override THEN override[b] ELSE config[b]
  BY ApplyOverrideAt
<1>4. CASE b \in DOMAIN override
  <2>1. m \in listing(s, b) /\ \A y \in listing(s, b) : m <= y
    BY <1>1, <1>4
  <2>2. listing(s, b) \in SUBSET Nat /\ listing(s, b) # {}
    BY <2>1
  <2>3. Min(listing(s, b)) \in listing(s, b) /\ \A y \in listing(s, b) : Min(listing(s, b)) <= y
    BY <2>2, MinIsLeast
  <2>4. Min(listing(s, b)) = m
    <3>1. Min(listing(s, b)) <= m /\ m <= Min(listing(s, b))
      BY <2>1, <2>3
    <3>2. Min(listing(s, b)) \in Nat /\ m \in Nat
      BY <1>1, <2>2, <2>3
    <3>3. QED
      BY <3>1, <3>2
  <2>5. Decided(g, s, b) = override[b]
    BY <2>2, <2>4 DEF Decided
  <2> HIDE DEF override, applied
  <2>6. QED
    BY <1>3, <1>4, <2>5
<1>5. CASE b \notin DOMAIN override
  <2>1. listing(s, b) = listing(s \ {m}, b)
    BY <1>5
  <2>2. Decided(g, s, b) = Decided(g, s \ {m}, b)
    BY <2>1 DEF Decided
  <2> HIDE DEF override, applied
  <2>3. QED
    BY <1>2, <1>3, <1>5, <2>2
<1>6. QED
  BY <1>4, <1>5

\* BuildConfigForActor (ActorUtils.cpp:277-401): of the priorities that apply, the
\* lowest number that lists a bone decides on it.
THEOREM ComposeDecides ==
    ASSUME NEW g, NEW ps \in SUBSET Nat, IsFiniteSet(ps), PlainBase(g)
    PROVE  DecidedConfig(g, ps, ComposeConfig(g, ps))
<1> DEFINE done == Walk(g, ps)
           Right(n) == \A s \in SUBSET ps : Cardinality(s) <= n => DecidedConfig(g, s, done[s])
           Lengths == {n \in Nat : Right(n)}
<1>1. \A s \in SUBSET ps : IsFiniteSet(s) /\ Cardinality(s) \in Nat
  BY FS_Subset, FS_CardinalityType
<1>2. \A s \in SUBSET ps : done[s] = WalkStep(g, done, s)
  <2>1. done = [s \in SUBSET ps |-> WalkStep(g, done, s)]
    BY WalkEnds
  <2> HIDE DEF done
  <2>2. QED
    BY <2>1
<1> HIDE DEF done
<1>3. DecidedConfig(g, {}, done[{}])
  <2>1. done[{}] = g.config
    BY <1>2 DEF WalkStep
  <2>2. \A b : Decided(g, {}, b) = SettingsOf(g.config, b)
    BY DEF Decided
  <2>3. QED
    BY <2>1, <2>2 DEF DecidedConfig, SettingsOf, PlainBase
<1>4. 0 \in Lengths
  <2>1. \A s \in SUBSET ps : Cardinality(s) <= 0 => s = {}
    BY <1>1, FS_EmptySet
  <2>2. QED
    BY <1>3, <2>1
<1>5. ASSUME NEW n \in Nat, n \in Lengths PROVE n + 1 \in Lengths
  <2> SUFFICES ASSUME NEW s \in SUBSET ps, Cardinality(s) <= n + 1
               PROVE  DecidedConfig(g, s, done[s])
    OBVIOUS
  <2>1. CASE s = {}
    BY <1>3, <2>1
  <2>2. CASE s # {}
    <3>1. s \in SUBSET Nat /\ Min(s) \in s
      BY <2>2, MinIsLeast
    <3>2. s \ {Min(s)} \in SUBSET ps /\ Cardinality(s \ {Min(s)}) = Cardinality(s) - 1
      BY <1>1, <3>1, FS_RemoveElement
    <3>3. DecidedConfig(g, s \ {Min(s)}, done[s \ {Min(s)}])
      BY <1>1, <1>5, <3>2
    <3>4. done[s] = ApplyOverride(OverrideConfig(g, Min(s)), done[s \ {Min(s)}])
      BY <1>2, <2>2 DEF WalkStep
    <3>5. QED
      BY <2>2, <3>1, <3>3, <3>4, StepDecides
  <2>3. QED
    BY <2>1, <2>2
<1>6. Nat \subseteq Lengths
  BY <1>4, <1>5, AllNumbers
<1>7. DecidedConfig(g, ps, done[ps])
  BY <1>1, <1>6
<1>8. QED
  BY <1>7, ComposeIsWalk DEF done

-----------------------------------------------------------------------------
(* One load over another *)

\* Every table after a load, with the names it mapped.
LEMMA LoadedTables ==
    ASSUME NEW h, NEW ini, NEW known, ProperTables(h)
    PROVE  LET k == LoadConfig(h, ini, known)
               nameMap == MapNames(h.nameMap, ini)
           IN  k = [ boneNames  |-> LoadBoneNames(nameMap, ini),
                     config     |-> WrittenOver(NoConfig, LoadAttach(ini)),
                     armorMap   |-> [p \in Priorities |->
                                        LoadArmor(NoArmorOverride, nameMap, ini, known, p)],
                     actorMap   |-> [p \in Priorities |->
                                        LoadActor(h.actorMap[p], nameMap, ini, known, p)],
                     nameMap    |-> nameMap,
                     usedSlots  |-> LoadUsedSlots(nameMap, ini),
                     priorities |-> h.priorities \cup Range(nameMap),
                     flags      |-> LoadFlags(ini),
                     rate       |-> ini.rate,
                     whitelist  |-> LoadWhitelist(h.whitelist, ini) ]
<1>1. {"boneNames", "config", "actorMap", "whitelist"} \subseteq DOMAIN h
  BY DEF ProperTables, InitialGlobals
<1>2. /\ Cleared(h).boneNames = {} /\ Cleared(h).config = NoConfig
      /\ Cleared(h).actorMap = h.actorMap /\ Cleared(h).whitelist = h.whitelist
  BY <1>1 DEF Cleared
<1>3. /\ Cleared(h).armorMap = [p \in Priorities |-> NoArmorOverride]
      /\ Cleared(h).usedSlots = {}
      /\ Cleared(h).nameMap = h.nameMap
      /\ Cleared(h).priorities = h.priorities
  BY ClearedTables DEF ProperTables
<1>4. QED
  BY <1>2, <1>3 DEF LoadConfig, LoadPriorities

LEMMA OverTwice ==
    ASSUME NEW o, NEW m, NEW x
    PROVE  Over(o, Over(m, Over(o, Over(m, x)))) = Over(o, Over(m, x))
BY DEF Over

\* A name is mapped once, so the second load of a file maps none.
LEMMA MapNamesTwice ==
    ASSUME NEW nameMap, NEW ini
    PROVE  MapNames(MapNames(nameMap, ini), ini) = MapNames(nameMap, ini)
<1> DEFINE compat == [n \in {CompatName} |-> 0]
           mapped == IF DetectArmorCompat(ini) THEN Over(compat, nameMap) ELSE nameMap
           unmapped == (SectionNames(ini) \cap DOMAIN ini.prio) \ DOMAIN mapped
           once == MapNames(nameMap, ini)
           again == IF DetectArmorCompat(ini) THEN Over(compat, once) ELSE once
           left == (SectionNames(ini) \cap DOMAIN ini.prio) \ DOMAIN again
<1>1. once = Over(mapped, Restrict(ini.prio, unmapped))
  BY DEF MapNames
<1>2. DOMAIN once = DOMAIN mapped \cup unmapped
  BY <1>1 DEF Over, Restrict
<1>3. DetectArmorCompat(ini) => CompatName \in DOMAIN once /\ once[CompatName] = 0
  BY <1>1 DEF Over
<1>4. once = [n \in DOMAIN once |-> once[n]]
  BY <1>1 DEF Over
<1>5. MapNames(once, ini) = Over(again, Restrict(ini.prio, left))
  BY DEF MapNames
<1> HIDE DEF once, unmapped, mapped
<1>6. again = once
  BY <1>3, <1>4 DEF Over
<1>7. left = {}
  BY <1>2, <1>6 DEF unmapped
<1>8. Over(once, Restrict(ini.prio, {})) = once
  BY <1>4 DEF Over, Restrict
<1> HIDE DEF again, left
<1>9. MapNames(once, ini) = once
  BY <1>5, <1>6, <1>7, <1>8
<1>10. QED
  BY <1>9 DEF once

\* The settings of an override after a load, given those before.
Loaded(old, m, o) == Overridden(WrittenOver(old, m), o)

IsFunction(f) == f = [x \in DOMAIN f |-> f[x]]

LEMMA SameFunction ==
    ASSUME NEW f, NEW h, IsFunction(f), IsFunction(h), DOMAIN f = DOMAIN h,
           \A x \in DOMAIN f : f[x] = h[x]
    PROVE  f = h
BY DEF IsFunction

LEMMA LoadedFacts ==
    ASSUME NEW old, NEW m, NEW o
    PROVE  /\ IsFunction(Loaded(old, m, o))
           /\ DOMAIN Loaded(old, m, o) = DOMAIN old \cup DOMAIN m
           /\ \A b \in DOMAIN Loaded(old, m, o) : Loaded(old, m, o)[b]
                    = Over(SettingsOf(o, b), Over(SettingsOf(m, b), SettingsOf(old, b)))
<1> DEFINE w == WrittenOver(old, m)
<1>1. DOMAIN w = DOMAIN old \cup DOMAIN m
  BY DEF WrittenOver
<1>2. \A b \in DOMAIN w : w[b] = Over(SettingsOf(m, b), SettingsOf(old, b))
  BY DEF WrittenOver
<1>3. Loaded(old, m, o) = [b \in DOMAIN w |-> Over(SettingsOf(o, b), w[b])]
  BY DEF Loaded, Overridden
<1> HIDE DEF w
<1>4. QED
  BY <1>1, <1>2, <1>3 DEF IsFunction

\* They are the same when they are loaded once more.
LEMMA LoadedTwice ==
    ASSUME NEW old, NEW m, NEW o
    PROVE  Loaded(Loaded(old, m, o), m, o) = Loaded(old, m, o)
<1> DEFINE one == Loaded(old, m, o)
           two == Loaded(one, m, o)
<1>1. /\ DOMAIN one = DOMAIN old \cup DOMAIN m
      /\ \A b \in DOMAIN one : one[b]
            = Over(SettingsOf(o, b), Over(SettingsOf(m, b), SettingsOf(old, b)))
      /\ IsFunction(one)
  BY LoadedFacts
<1> HIDE DEF one
<1>2. /\ DOMAIN two = DOMAIN one \cup DOMAIN m
      /\ \A b \in DOMAIN two : two[b]
            = Over(SettingsOf(o, b), Over(SettingsOf(m, b), SettingsOf(one, b)))
      /\ IsFunction(two)
  BY LoadedFacts
<1> HIDE DEF two
<1>3. DOMAIN two = DOMAIN one
  BY <1>1, <1>2
<1>4. ASSUME NEW b \in DOMAIN one PROVE two[b] = one[b]
  <2>1. SettingsOf(one, b) = one[b]
    BY <1>4 DEF SettingsOf
  <2>2. QED
    BY <1>1, <1>2, <1>3, <1>4, <2>1, OverTwice
<1>5. two = one
  BY <1>1, <1>2, <1>3, <1>4, SameFunction
<1>6. QED
  BY <1>5 DEF one, two

\* Actor overrides are added to and not replaced, and yet a second load of the
\* file adds only the forms that did not resolve in the first.  The settings of
\* detectArmor's priority are another matter: the bones it disables are there to
\* be overridden by the second load.
LEMMA LoadActorTwice ==
    ASSUME NEW old, NEW nameMap, NEW ini, NEW early, NEW known, early \subseteq known, NEW p
    PROVE  LET two == LoadActor(LoadActor(old, nameMap, ini, early, p), nameMap, ini, known, p)
               once == LoadActor(old, nameMap, ini, known, p)
           IN  /\ two.inverted = once.inverted /\ two.actors = once.actors
               /\ ~(p = 0 /\ DetectArmorCompat(ini)) => two.config = once.config
<1> DEFINE names == NamesAt(nameMap, ini.actor, p)
           m == Merged(ini.sub, NamesAt(nameMap, ini.sub, p))
           o == Merged(ini.subOverride, NamesAt(nameMap, ini.subOverride, p))
           compat == p = 0 /\ DetectArmorCompat(ini)
           Given(k) == UNION {ini.actor[n].ids \cap k : n \in names}
           Inverted(i) == IF names = {} THEN i ELSE ini.actor[Max(names)].inverted
           one == LoadActor(old, nameMap, ini, early, p)
<1>1. ASSUME NEW c, NEW k
      PROVE  /\ LoadActor(c, nameMap, ini, k, p).inverted = Inverted(c.inverted)
             /\ LoadActor(c, nameMap, ini, k, p).actors = c.actors \cup Given(k)
             /\ ~compat => LoadActor(c, nameMap, ini, k, p).config = Loaded(c.config, m, o)
  BY DEF LoadActor, Loaded
<1>2. Given(early) \subseteq Given(known)
  OBVIOUS
<1> HIDE DEF Given
<1>3. LoadActor(one, nameMap, ini, known, p).inverted = LoadActor(old, nameMap, ini, known, p).inverted
  BY <1>1
<1>4. LoadActor(one, nameMap, ini, known, p).actors = LoadActor(old, nameMap, ini, known, p).actors
  <2>1. one.actors = old.actors \cup Given(early)
    BY <1>1
  <2>2. /\ LoadActor(one, nameMap, ini, known, p).actors = one.actors \cup Given(known)
        /\ LoadActor(old, nameMap, ini, known, p).actors = old.actors \cup Given(known)
    BY <1>1
  <2>3. QED
    BY <1>2, <2>1, <2>2
<1>5. ~compat => LoadActor(one, nameMap, ini, known, p).config
                    = LoadActor(old, nameMap, ini, known, p).config
  BY <1>1, LoadedTwice
<1>6. QED
  BY <1>3, <1>4, <1>5

-----------------------------------------------------------------------------
(* Tables that do not differ for any actor *)

SameTables(h, k) ==
    /\ h.boneNames = k.boneNames /\ h.config = k.config /\ h.flags = k.flags
    /\ h.armorMap = k.armorMap /\ h.usedSlots = k.usedSlots /\ h.priorities = k.priorities
    /\ \A p \in Priorities :
        /\ h.actorMap[p].inverted = k.actorMap[p].inverted
        /\ h.actorMap[p].actors = k.actorMap[p].actors
        /\ ~IsArmorPriority(k, p) => h.actorMap[p].config = k.actorMap[p].config

\* The walk over the priorities looks at the overrides of priorities only.
LEMMA ComposedAlike ==
    ASSUME NEW h, NEW k, NEW ps \in SUBSET Priorities, h.config = k.config,
           \A p \in Priorities : OverrideConfig(h, p) = OverrideConfig(k, p)
    PROVE  ComposeConfig(h, ps) = ComposeConfig(k, ps)
<1> DEFINE Step(z, it) == [s \in SUBSET ps |-> IF s = {} THEN z.config
                ELSE ApplyOverride(OverrideConfig(z, Min(s)), it[s \ {Min(s)}])]
<1>1. \A z : ComposeConfig(z, ps) = (CHOOSE it : it = Step(z, it))[ps]
  BY DEF ComposeConfig, MapThenFoldSet
<1>2. \A it : Step(h, it) = Step(k, it)
  <2>1. \A s \in SUBSET ps : s # {} => Min(s) \in Priorities
    BY MinIsLeast, PrioritiesAssumption
  <2>2. QED
    BY <2>1
<1> HIDE DEF Step
<1>3. (CHOOSE it : it = Step(h, it)) = (CHOOSE it : it = Step(k, it))
  BY <1>2
<1>4. QED
  BY <1>1, <1>3

\* Then they give an actor in an outfit one key and one configuration.
LEMMA SameTablesSameConfig ==
    ASSUME NEW h, NEW k, SameTables(h, k), k.priorities \subseteq Priorities, NEW a, NEW o
    PROVE  BuildActorKey(h, a, o) = BuildActorKey(k, a, o) /\ BuildConfig(h, a, o) = BuildConfig(k, a, o)
<1>1. \A p : IsArmorPriority(h, p) <=> IsArmorPriority(k, p)
  BY DEF SameTables, IsArmorPriority
<1>2. \A p \in Priorities : OverrideConfig(h, p) = OverrideConfig(k, p)
  BY <1>1 DEF SameTables, OverrideConfig
<1>3. BuildActorKey(h, a, o) = BuildActorKey(k, a, o)
  BY DEF SameTables, BuildActorKey
<1>4. \A p \in Priorities : MayApply(h, a, {o}, p) <=> MayApply(k, a, {o}, p)
  BY <1>1 DEF SameTables, MayApply, IsActorFilteredActor
<1>5. ApplyingPriorities(h, a, o) = ApplyingPriorities(k, a, o)
  BY <1>4 DEF SameTables, ApplyingPriorities
<1>6. ApplyingPriorities(k, a, o) \in SUBSET Priorities /\ h.config = k.config
  BY DEF ApplyingPriorities, SameTables
<1>7. QED
  BY <1>2, <1>3, <1>5, <1>6, ComposedAlike DEF BuildConfig

\* A file loaded over itself, first with fewer forms that resolve.
LEMMA LoadTwice ==
    ASSUME NEW h, ProperTables(h), NEW ini, ProperIni(ini),
           NEW early, NEW known, early \subseteq known
    PROVE  SameTables(LoadConfig(LoadConfig(h, ini, early), ini, known), LoadConfig(h, ini, known))
<1> DEFINE one == LoadConfig(h, ini, early)
           two == LoadConfig(one, ini, known)
           once == LoadConfig(h, ini, known)
           nameMap == MapNames(h.nameMap, ini)
<1>1. ProperTables(one) /\ ProperTables(once)
  BY LoadConfigProper
<1>2. /\ one.nameMap = nameMap /\ one.priorities = h.priorities \cup Range(nameMap)
      /\ \A p \in Priorities : one.actorMap[p] = LoadActor(h.actorMap[p], nameMap, ini, early, p)
  BY LoadedTables
<1>3. /\ once.boneNames = LoadBoneNames(nameMap, ini)
      /\ once.config = WrittenOver(NoConfig, LoadAttach(ini))
      /\ once.armorMap = [p \in Priorities |-> LoadArmor(NoArmorOverride, nameMap, ini, known, p)]
      /\ \A p \in Priorities : once.actorMap[p] = LoadActor(h.actorMap[p], nameMap, ini, known, p)
      /\ once.usedSlots = LoadUsedSlots(nameMap, ini)
      /\ once.priorities = h.priorities \cup Range(nameMap)
      /\ once.flags = LoadFlags(ini)
  BY LoadedTables
<1> HIDE DEF one, once
<1>4. MapNames(one.nameMap, ini) = nameMap
  BY <1>2, MapNamesTwice
<1>5. /\ two.boneNames = LoadBoneNames(nameMap, ini)
      /\ two.config = WrittenOver(NoConfig, LoadAttach(ini))
      /\ two.armorMap = [p \in Priorities |-> LoadArmor(NoArmorOverride, nameMap, ini, known, p)]
      /\ \A p \in Priorities : two.actorMap[p] = LoadActor(one.actorMap[p], nameMap, ini, known, p)
      /\ two.usedSlots = LoadUsedSlots(nameMap, ini)
      /\ two.priorities = one.priorities \cup Range(nameMap)
      /\ two.flags = LoadFlags(ini)
  BY <1>1, <1>4, LoadedTables
<1> HIDE DEF two, nameMap
<1>6. ASSUME NEW p \in Priorities
      PROVE  /\ two.actorMap[p].inverted = once.actorMap[p].inverted
             /\ two.actorMap[p].actors = once.actorMap[p].actors
             /\ ~(p = 0 /\ DetectArmorCompat(ini)) =>
                    two.actorMap[p].config = once.actorMap[p].config
  BY <1>2, <1>3, <1>5, LoadActorTwice
<1>7. DetectArmorCompat(ini) => IsArmorPriority(once, 0)
  <2>1. LoadArmor(NoArmorOverride, nameMap, ini, known, 0).slots
            = (UNION {ini.armor[n].slots : n \in ArmorNamesAt(nameMap, ini, 0)})
                \cup (IF DetectArmorCompat(ini) THEN {CompatSlot} ELSE {})
    BY DEF LoadArmor, NoArmorOverride
  <2>2. once.armorMap[0] = LoadArmor(NoArmorOverride, nameMap, ini, known, 0)
    BY <1>3, PrioritiesAssumption
  <2>3. DetectArmorCompat(ini) => CompatSlot \in once.armorMap[0].slots
    BY <2>1, <2>2
  <2>4. QED
    BY <2>3 DEF IsArmorPriority
<1>8. SameTables(two, once)
  BY <1>2, <1>3, <1>5, <1>6, <1>7 DEF SameTables
<1>9. QED
  BY <1>8 DEF one, two, once

\* [Attach] gives no bone an entry without settings: one is never touched
\* (config.cpp:211-217), and an override only adds keys.
LEMMA LoadedBasePlain ==
    ASSUME NEW h, NEW ini, NEW known, ProperTables(h), ProperIni(ini)
    PROVE  PlainBase(LoadConfig(h, ini, known))
<1> DEFINE given == RestrictValues(ini.attach, LAMBDA s : s # NoSettings)
           attached == LoadAttach(ini)
<1>1. \A b \in DOMAIN given : given[b] = ini.attach[b] /\ b \in DOMAIN ini.attach
                               /\ given[b] # NoSettings
  BY DEF RestrictValues, Restrict
<1>2. \A b \in DOMAIN given : DOMAIN given[b] # {}
  BY <1>1 DEF ProperIni, NoSettings
<1>3. DOMAIN attached = DOMAIN given /\ \A b \in DOMAIN given : DOMAIN attached[b] # {}
  BY <1>2 DEF LoadAttach, Overridden, Over
<1> HIDE DEF given, attached
<1>4. LoadConfig(h, ini, known).config = WrittenOver(NoConfig, attached)
  BY LoadedTables DEF attached
<1>5. \A b \in DOMAIN WrittenOver(NoConfig, attached) :
          DOMAIN WrittenOver(NoConfig, attached)[b] # {}
  BY <1>3 DEF WrittenOver, NoConfig, SettingsOf, Over
<1>6. DOMAIN NoSettings = {}
  BY DEF NoSettings
<1>7. QED
  BY <1>4, <1>5, <1>6 DEF PlainBase
=============================================================================
