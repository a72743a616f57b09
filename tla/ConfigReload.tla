---------------------------- MODULE ConfigReload ----------------------------
(***************************************************************************)
(* The configuration tables over a session: the two loads of the           *)
(* GameDataReady message (src/CBPSSE/main.cpp), then any number of hot     *)
(* reloads of a file that is edited between them (src/CBPSSE/scan.cpp).    *)
(*                                                                         *)
(* LoadConfig clears some tables and adds to others, so what a reload      *)
(* leaves depends on the files loaded before.  The properties say how far. *)
(***************************************************************************)
EXTENDS ActorConfig

CONSTANTS
    Inis,        \* the files the user may write
    ActorIds,    \* form ids of actors
    EarlyForms,  \* forms that resolve before the data files are read
    Forms        \* forms that resolve afterwards

ASSUME FormsAssumption == EarlyForms \subseteq Forms
ASSUME InisAssumption == \A ini \in Inis : ProperIni(ini)

VARIABLES
    g,      \* the tables
    file,   \* the file loaded last
    stage   \* "loading" until GameDataReady has come, "early" after the first
            \* of the two messages, "ready" after the second

vars == <<g, file, stage>>

Init ==
    /\ g = InitialGlobals
    /\ file \in Inis
    /\ stage = "loading"

\* kMessage_GameDataReady with data = false, then with data = true.  What
\* LoadConfig returns is ignored: no actor is tracked yet.
GameDataReadyEarly ==
    /\ stage = "loading"
    /\ g' = LoadConfig(g, file, EarlyForms)
    /\ stage' = "early"
    /\ UNCHANGED file

GameDataReady ==
    /\ stage = "early"
    /\ g' = LoadConfig(g, file, Forms)
    /\ stage' = "ready"
    /\ UNCHANGED file

\* The frame loop's reload, which a rate of 0 turns off.
HotReload(ini) ==
    /\ stage = "ready"
    /\ g.rate # 0
    /\ g' = LoadConfig(g, ini, Forms)
    /\ file' = ini
    /\ UNCHANGED stage

Next == GameDataReadyEarly \/ GameDataReady \/ \E ini \in Inis : HotReload(ini)

Spec == Init /\ [][Next]_vars

-----------------------------------------------------------------------------
(* Properties *)

Fresh == LoadConfig(InitialGlobals, file, Forms)

\* The actors' keys and configurations under two sets of tables.
SameEffect(h, k) ==
    /\ h.boneNames = k.boneNames
    /\ h.flags = k.flags
    /\ \A a \in ActorIds, o \in Outfits :
        /\ BuildActorKey(h, a, o) = BuildActorKey(k, a, o)
        /\ BuildConfig(h, a, o) = BuildConfig(k, a, o)

\* The shape of the tables: the overrides are over priorities, names stand for
\* priorities, flags are known ones.
TypeOK ==
    /\ file \in Inis
    /\ stage \in {"loading", "early", "ready"}
    /\ g.flags \subseteq Flags
    /\ g.priorities \subseteq Priorities
    /\ DOMAIN g.nameMap \subseteq Names
    /\ Range(g.nameMap) \subseteq Priorities
    /\ DOMAIN g.armorMap = Priorities
    /\ DOMAIN g.actorMap = Priorities

\* The key looks at every slot an armor override looks at (usedSlots is filled
\* beside configArmorOverrideMap[..].slots, at two places, and cleared with it).
UsedSlotsCover == \A p \in Priorities : g.armorMap[p].slots \subseteq g.usedSlots

\* Two outfits of an actor with the same key have the same configuration: this
\* is what lets cachedConfigs and currentActorKey stand for the outfit.
KeyDeterminesConfig ==
    \A a \in ActorIds, o1, o2 \in Outfits :
        BuildActorKey(g, a, o1) = BuildActorKey(g, a, o2)
            => BuildConfig(g, a, o1) = BuildConfig(g, a, o2)

\* Every override that was loaded is at a priority BuildConfigForActor walks,
\* also when detectArmor has moved the name "A" since.
PrioritiesCover ==
    \A p \in Priorities :
        g.armorMap[p] # NoArmorOverride \/ g.actorMap[p] # NoActorOverride => p \in g.priorities

\* A bone's settings come from the lowest priority number that applies to the
\* actor and lists the bone, and from [Attach] when none does.  An entry
\* without settings there takes the bone away.
LowestPriorityDecides ==
    \A a \in ActorIds, o \in Outfits :
        LET ps == ApplyingPriorities(g, a, o)
            listing(b) == {p \in ps : b \in DOMAIN OverrideConfig(g, p)}
            decided(b) == IF listing(b) = {} THEN SettingsOf(g.config, b)
                          ELSE OverrideConfig(g, Min(listing(b)))[b]
            config == BuildConfig(g, a, o)
        IN  \A b \in DOMAIN g.config \cup UNION {DOMAIN OverrideConfig(g, p) : p \in ps} :
                /\ b \in DOMAIN config <=> decided(b) # NoSettings
                /\ b \in DOMAIN config => config[b] = decided(b)

\* Loading the same file once more changes no actor's key or configuration,
\* although the actor overrides are added to and not replaced.
ReloadIdempotent ==
    stage = "ready" => SameEffect(LoadConfig(g, file, Forms), g)

\* The two loads of GameDataReady amount to one load of the file with every
\* form resolved: the first leaves nothing that differs.
StartupIsOneLoad ==
    [][GameDataReady => SameEffect(g', LoadConfig(InitialGlobals, file, Forms))]_vars

\* What LoadConfig clears does not depend on earlier files as long as the names
\* stand for the same priorities as they do in a fresh load.
ClearedPartIsFresh ==
    stage = "ready" /\ (\A n \in SectionNames(file) : {n} \cap DOMAIN g.nameMap
                            = {n} \cap DOMAIN Fresh.nameMap)
                    /\ (\A n \in DOMAIN Fresh.nameMap : g.nameMap[n] = Fresh.nameMap[n])
        => /\ g.boneNames = Fresh.boneNames
           /\ g.config = Fresh.config
           /\ g.armorMap = Fresh.armorMap
           /\ g.usedSlots = Fresh.usedSlots

\* A name keeps its priority for the session, whatever later files say; only
\* detectArmor moves the name "A", and it moves it to 0.
NamesAreWriteOnce ==
    [][\A n \in DOMAIN g.nameMap :
        /\ n \in DOMAIN g'.nameMap
        /\ g'.nameMap[n] = g.nameMap[n] \/ (n = CompatName /\ g'.nameMap[n] = 0)]_vars

\* config.cpp:265-266, "'Touch' the map to add empty entry for bone in config_t
\* to signal deletion later when building config from overrides": a bone that
\* an [Attach.<name>] section gives no settings, and no other section of that
\* priority mentions, has an empty entry in both override maps.
TouchSignalsDeletion ==
    stage = "ready" =>
        \A n \in DOMAIN file.sub \cap DOMAIN g.nameMap : \A b \in DOMAIN file.sub[n] :
            LET p == g.nameMap[n]
                others == NamesAt(g.nameMap, file.sub, p) \ {n}
                overriding == NamesAt(g.nameMap, file.subOverride, p)
            IN  file.sub[n][b] = NoSettings
                /\ (\A m \in others : b \notin DOMAIN file.sub[m])
                /\ (\A m \in overriding : b \notin DOMAIN file.subOverride[m])
                => /\ g.armorMap[p].config[b] = NoSettings
                   /\ g.actorMap[p].config[b] = NoSettings
=============================================================================
