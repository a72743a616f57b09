---------------------------- MODULE ConfigStore ----------------------------
(***************************************************************************)
(* The configuration tables of the plugin and LoadConfig(), the function   *)
(* that reads ocbp.ini into them (src/CBPSSE/config.cpp).                   *)
(*                                                                         *)
(* The tables are globals of the program; here they are the fields of one  *)
(* record, and LoadConfig is an operator from the old tables and a file to *)
(* the new ones, so that the modules that own the tables as a variable     *)
(* (ConfigReload, FrameLoop) say when it runs.                             *)
(*                                                                         *)
(* A bone's settings (configEntry_t) are a function whose domain is the    *)
(* set of keys the file gives; the empty function is the "touched" entry   *)
(* that disables a bone.  A config (config_t) maps bones to settings.      *)
(*                                                                         *)
(* A parsed file is a record:                                              *)
(*   flags        the true booleans of [General] among Flags               *)
(*   detectArmor, armorIgnore  the same-named keys of [General]            *)
(*   rate         [Tuning] rate, 0 when absent                             *)
(*   prio         [Priority]: the names with a numeric priority            *)
(*   attach       [Attach]: bone -> settings, empty when the section the   *)
(*                bone names is missing                                    *)
(*   sub          [Attach.<name>]: bone -> settings, empty when the value  *)
(*                is empty.  (A bone whose named section is missing only   *)
(*                enters boneNames; listing it in attach with no settings  *)
(*                has the same effect.)                                    *)
(*   armor        [Armor.<name>]: hasSlots, slots, invertFilter, ids       *)
(*   actor        [Actor.<name>]: invertFilter, ids                        *)
(*   hasWhitelist, whitelist   [Whitelist] as <<bone, race, sex>> triples  *)
(*   override     [Override:<bone>]                                        *)
(*   subOverride  [Override.<name>:<bone>], name -> bone -> settings       *)
(* A file that cannot be opened parses as the file with no sections.       *)
(***************************************************************************)
EXTENDS Integers, FiniteSets, FiniteSetsExt, Functions

CONSTANTS
    Names,        \* section name suffixes, numbered in the order the
                  \* std::set of sections iterates them
    CompatName,   \* the suffix "A" of the detectArmor style
    Priorities,   \* the priorities a name can be mapped to
    CompatSlot    \* biped slot 11 (slot 41), the one detectArmor looks at

ASSUME NamesAssumption == Names \subseteq Nat /\ CompatName \in Names
ASSUME PrioritiesAssumption ==
    Priorities \subseteq Nat /\ 0 \in Priorities /\ IsFiniteSet(Priorities)

Flags == {"playerOnly", "npcOnly", "maleOnly", "femaleOnly", "useWhitelist"}

\* One map written over another (the provers do not know TLC's @@).
Over(new, old) ==
    [x \in DOMAIN new \cup DOMAIN old |-> IF x \in DOMAIN new THEN new[x] ELSE old[x]]

NoSettings == [k \in {} |-> 0]
NoConfig == [b \in {} |-> NoSettings]

SettingsOf(config, b) == IF b \in DOMAIN config THEN config[b] ELSE NoSettings

\* A priority without an entry in an override map behaves exactly as one with
\* the entry operator[] creates, so the maps are total.
NoArmorOverride == [inverted |-> FALSE, slots |-> {}, armors |-> {}, config |-> NoConfig]
NoActorOverride == [inverted |-> FALSE, actors |-> {}, config |-> NoConfig]

\* The globals before the first LoadConfig.
InitialGlobals ==
    [ boneNames |-> {}, config |-> NoConfig,
      armorMap |-> [p \in Priorities |-> NoArmorOverride],
      actorMap |-> [p \in Priorities |-> NoActorOverride],
      nameMap |-> [n \in {} |-> 0], usedSlots |-> {}, priorities |-> {},
      flags |-> {}, rate |-> 60, whitelist |-> {} ]

-----------------------------------------------------------------------------
(* Names and priorities *)

\* detectArmor only counts in a file that gives no priorities.
DetectArmorCompat(ini) == ini.detectArmor /\ DOMAIN ini.prio = {}

SectionNames(ini) ==
    DOMAIN ini.sub \cup DOMAIN ini.armor \cup DOMAIN ini.actor \cup DOMAIN ini.subOverride

\* A file of which every flag and name is known, every priority can be mapped
\* to, and every bone section is a map from keys to values.
ProperIni(ini) ==
    /\ ini.flags \subseteq Flags
    /\ ini.rate \in Int
    /\ SectionNames(ini) \subseteq Names
    /\ \A n \in DOMAIN ini.prio : ini.prio[n] \in Priorities
    /\ \A b \in DOMAIN ini.attach :
          ini.attach[b] = [k \in DOMAIN ini.attach[b] |-> ini.attach[b][k]]

\* Mutants: an unreadable priority is not caught; the file overrules the map.
MapNamesUncaught(nameMap, ini) ==
    LET mapped == IF DetectArmorCompat(ini) THEN Over([n \in {CompatName} |-> 0], nameMap) ELSE nameMap
    IN  Over(mapped, Over(ini.prio, [n \in SectionNames(ini) |-> -1]))

MapNamesRewriting(nameMap, ini) ==
    LET mapped == IF DetectArmorCompat(ini) THEN Over([n \in {CompatName} |-> 0], nameMap) ELSE nameMap
    IN  Over(Restrict(ini.prio, SectionNames(ini) \cap DOMAIN ini.prio), mapped)

\* A name is looked up in priorityNameMappings first: what [Priority] says of
\* a name that is mapped already is not read.
MapNames(nameMap, ini) ==
    LET mapped == IF DetectArmorCompat(ini) THEN Over([n \in {CompatName} |-> 0], nameMap) ELSE nameMap
        unmapped == (SectionNames(ini) \cap DOMAIN ini.prio) \ DOMAIN mapped
    IN  Over(mapped, Restrict(ini.prio, unmapped))

\* The sections whose name stands for priority p; the others are skipped.
NamesAt(nameMap, sections, p) == {n \in DOMAIN sections \cap DOMAIN nameMap : nameMap[n] = p}

\* Armor sections without a "slots" key are skipped once their name is mapped.
ArmorNamesAt(nameMap, ini, p) ==
    {n \in NamesAt(nameMap, ini.armor, p) : ini.armor[n].hasSlots}

-----------------------------------------------------------------------------
(* Bone settings *)

\* The sections of several names written key by key into one config, in order.
Merged(sections, names) ==
    [b \in UNION {DOMAIN sections[n] : n \in names} |->
        LET listing == {n \in names : b \in DOMAIN sections[n]}
        IN  [k \in UNION {DOMAIN sections[n][b] : n \in listing} |->
                sections[Max({n \in listing : k \in DOMAIN sections[n][b]})][b][k]]]

\* New settings written key by key over old ones.
WrittenOver(old, new) ==
    [b \in DOMAIN old \cup DOMAIN new |-> Over(SettingsOf(new, b), SettingsOf(old, b))]

\* Overrides are written only into bones the config has.
Overridden(config, overrides) ==
    [b \in DOMAIN config |-> Over(SettingsOf(overrides, b), config[b])]

\* Bones of boneNames missing from a config get the entry that disables them.
CompatDelete(config, bones) == Over(config, [b \in bones |-> NoSettings])

LoadAttach(ini) ==
    LET given == RestrictValues(ini.attach, LAMBDA s : s # NoSettings)
    IN  Overridden(given, ini.override)

LoadBoneNames(nameMap, ini) ==
    DOMAIN ini.attach
        \cup UNION {DOMAIN ini.sub[n] : n \in DOMAIN ini.sub \cap DOMAIN nameMap}

-----------------------------------------------------------------------------
(* The override map entries of one priority.  known is the set of forms    *)
(* GetFormIDFromString can resolve.                                         *)

LoadArmor(old, nameMap, ini, known, p) ==
    LET names  == ArmorNamesAt(nameMap, ini, p)
        compat == p = 0 /\ DetectArmorCompat(ini)
        config == Overridden(WrittenOver(old.config, Merged(ini.sub, NamesAt(nameMap, ini.sub, p))),
                             Merged(ini.subOverride, NamesAt(nameMap, ini.subOverride, p)))
    IN  [ inverted |-> IF names # {} THEN ini.armor[Max(names)].inverted
                       ELSE old.inverted /\ ~compat,
          slots    |-> old.slots \cup (UNION {ini.armor[n].slots : n \in names})
                          \cup (IF compat THEN {CompatSlot} ELSE {}),
          armors   |-> old.armors \cup (UNION {ini.armor[n].ids \cap known : n \in names})
                          \cup (IF compat THEN ini.armorIgnore ELSE {}),
          config   |-> IF compat THEN CompatDelete(config, LoadBoneNames(nameMap, ini))
                                 ELSE config ]

\* Mutant: invertFilter is stored only in an entry that exists.
LoadActorKnownOnly(old, nameMap, ini, known, p) ==
    LET names  == NamesAt(nameMap, ini.actor, p)
        config == Overridden(WrittenOver(old.config, Merged(ini.sub, NamesAt(nameMap, ini.sub, p))),
                             Merged(ini.subOverride, NamesAt(nameMap, ini.subOverride, p)))
    IN  [ inverted |-> IF names = {} \/ old = NoActorOverride THEN old.inverted
                       ELSE ini.actor[Max(names)].inverted,
          actors   |-> old.actors \cup UNION {ini.actor[n].ids \cap known : n \in names},
          config   |-> config ]

\* A missing entry is created by operator[] wherever the code writes to one.
LoadActor(old, nameMap, ini, known, p) ==
    LET names  == NamesAt(nameMap, ini.actor, p)
        compat == p = 0 /\ DetectArmorCompat(ini)
        config == Overridden(WrittenOver(old.config, Merged(ini.sub, NamesAt(nameMap, ini.sub, p))),
                             Merged(ini.subOverride, NamesAt(nameMap, ini.subOverride, p)))
    IN  [ inverted |-> IF names = {} THEN old.inverted ELSE ini.actor[Max(names)].inverted,
          actors   |-> old.actors \cup UNION {ini.actor[n].ids \cap known : n \in names},
          config   |-> IF compat THEN CompatDelete(config, LoadBoneNames(nameMap, ini))
                                 ELSE config ]

LoadUsedSlots(nameMap, ini) ==
    (UNION {ini.armor[n].slots : n \in {m \in DOMAIN ini.armor \cap DOMAIN nameMap :
                                           ini.armor[m].hasSlots}})
        \cup (IF DetectArmorCompat(ini) THEN {CompatSlot} ELSE {})

-----------------------------------------------------------------------------
(* Flags, whitelist, and the whole function *)

LoadFlags(ini) ==
    IF "useWhitelist" \in ini.flags THEN ini.flags \ {"maleOnly", "femaleOnly"} ELSE ini.flags

\* The whitelist is replaced only by a file that uses one and has one.
LoadWhitelist(old, ini) ==
    IF "useWhitelist" \in ini.flags /\ ini.hasWhitelist THEN ini.whitelist ELSE old

RaceWhitelist(g) == {w[2] : w \in g.whitelist}

\* Mutant: priorities rebuilt from the names as they are now.
LoadPrioritiesAfresh(old, nameMap) == Range(nameMap)

\* The priorities of all names ever mapped.
LoadPriorities(old, nameMap) == old \cup Range(nameMap)

\* Mutants: usedSlots or configArmorOverrideMap is not cleared.
ClearedButSlots(g) ==
    [g EXCEPT !.boneNames = {}, !.config = NoConfig,
              !.armorMap = [p \in Priorities |-> NoArmorOverride]]

ClearedButArmor(g) == [g EXCEPT !.boneNames = {}, !.config = NoConfig, !.usedSlots = {}]

\* The tables LoadConfig clears first; configActorOverrideMap, the names, the
\* priorities and the whitelist are not among them.
Cleared(g) ==
    [g EXCEPT !.boneNames = {}, !.config = NoConfig, !.usedSlots = {},
              !.armorMap = [p \in Priorities |-> NoArmorOverride]]

LoadConfig(old, ini, known) ==
    LET g == Cleared(old)
        nameMap == MapNames(g.nameMap, ini)
    IN  [ boneNames  |-> g.boneNames \cup LoadBoneNames(nameMap, ini),
          config     |-> WrittenOver(g.config, LoadAttach(ini)),
          armorMap   |-> [p \in Priorities |-> LoadArmor(g.armorMap[p], nameMap, ini, known, p)],
          actorMap   |-> [p \in Priorities |-> LoadActor(g.actorMap[p], nameMap, ini, known, p)],
          nameMap    |-> nameMap,
          usedSlots  |-> g.usedSlots \cup LoadUsedSlots(nameMap, ini),
          priorities |-> LoadPriorities(g.priorities, nameMap),
          flags      |-> LoadFlags(ini),
          rate       |-> ini.rate,
          whitelist  |-> LoadWhitelist(g.whitelist, ini) ]

\* Mutant: npcOnly is left out of the comparison.
ReloadActorsNotNpc(old, new) == old.flags \ {"npcOnly"} # new.flags \ {"npcOnly"}

\* What LoadConfig returns: one of the five flags has changed.
ReloadActors(old, new) == old.flags # new.flags

\* GameDataReady is dispatched twice, before the data files are read (early is
\* what resolves then) and after; the handler loads the file both times.
Startup(ini, early, known) == LoadConfig(LoadConfig(InitialGlobals, ini, early), ini, known)
=============================================================================
