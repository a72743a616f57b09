----------------------------- MODULE FrameLoop -----------------------------
(***************************************************************************)
(* The plugin's work of one frame, UpdateActors() (src/CBPSSE/scan.cpp),   *)
(* with the per-actor simulation objects it drives (SimObj.cpp) and the    *)
(* game's world it reads.                                                  *)
(*                                                                         *)
(* A frame runs: scan of the player's cell; hot reload of the              *)
(* configuration when it is due, actor by actor; a parallel loop that      *)
(* binds the unbound simulation objects and resets the ones whose actor    *)
(* changed body; a parallel loop that gives actors whose outfit changed a  *)
(* new configuration, and simulates.  The loops are fork/join: each actor  *)
(* is one worker, and workers interleave step by step.                     *)
(*                                                                         *)
(* The game's own threads change the world.  Quiet = TRUE assumes they are *)
(* held while UpdateActors runs, FALSE lets them change it between any two *)
(* steps.  Moves says which parts of the world an instance changes.        *)
(***************************************************************************)
EXTENDS ActorConfig

CONSTANTS
    Actors, Player,       \* form ids of actors; 0x14
    Cells, NoCell,        \* cells; NoCell: the player is not in a loaded cell
    Sexes, Races, NoRace, \* NoRace is the empty editor id
    Skeleton,             \* race -> the bones its skeleton has
    Forms, EarlyForms,    \* as in ConfigReload
    Inis,                 \* the files the user may write
    StartBodies,          \* the bodies the actors may have at first
    Quiet, Moves

ASSUME FrameAssumption ==
    /\ Player \in Actors
    /\ NoCell \notin Cells
    /\ Sexes = {"male", "female"}
    /\ NoRace \notin Races
    /\ Quiet \in BOOLEAN
    /\ Moves \subseteq {"leave", "delete", "body", "worn", "cell", "disk"}

ASSUME InisAssumption == \A ini \in Inis : ProperIni(ini)

Bodies == [sex : Sexes, race : Races]

ASSUME StartAssumption == StartBodies \subseteq [Actors -> Bodies]

VARIABLES
    \* the world
    cell,     \* player->parentCell
    status,   \* of each actor's reference: "away" (not in the cell's list, or
              \* without a loaded root node), "here", or "deleted" (flagged, but
              \* its root node is still there)
    body,     \* sex and race
    worn,     \* outfit
    disk,     \* ocbp.ini
    \* the plugin's globals
    g, cache, \* the tables of ConfigStore, cachedConfigs
    curCell, actors, sim, count,
    \* the frame
    phase, entries, reloadActors,
    pc, key,  \* of each worker
    shown,    \* the outfits each actor has shown since its worker's last step
    \* history: tracked actors that were not in the frame of the last reload
    missed

world == <<cell, status, body, worn, disk>>
tables == <<g, cache>>
frame == <<phase, entries, reloadActors, pc, key>>
vars == <<world, tables, curCell, actors, sim, count, frame, shown, missed>>

NoBody == [sex |-> "unassigned", race |-> NoRace]
NoKey == <<>>
Off == [isEnabled |-> FALSE]

\* SimObj(actor): not bound, no bones; currentActorKey is not initialised.
NewSim == [bound |-> FALSE, body |-> NoBody, key |-> NoKey, things |-> NoConfig]
NoSims == [a \in Actors |-> NewSim]
AtStart == [a \in Actors |-> "start"]

Init ==
    /\ cell \in Cells \cup {NoCell}
    /\ status = [a \in Actors |-> "here"]
    /\ body \in StartBodies
    /\ worn = [a \in Actors |-> {}]
    /\ disk \in Inis
    /\ g = Startup(disk, EarlyForms, Forms)
    /\ cache = [k \in {} |-> NoConfig]
    /\ curCell = NoCell
    /\ actors = {}
    /\ sim = NoSims
    /\ count = 0
    /\ phase = "idle"
    /\ entries = {}
    /\ reloadActors = FALSE
    /\ pc = AtStart
    /\ key = [a \in Actors |-> NoKey]
    /\ shown = [a \in Actors |-> {{}}]
    /\ missed = {}

-----------------------------------------------------------------------------
(* What the plugin sees of an actor *)

IsActorValid(a) == status[a] = "here"
HasRootNode(a) == status[a] # "away"
IsActorMale(a) == IsActorValid(a) /\ body[a].sex = "male"
GetActorRaceEID(a) == IF IsActorValid(a) THEN body[a].race ELSE NoRace
SeenBody(a) == [sex |-> IF IsActorMale(a) THEN "male" ELSE "female", race |-> GetActorRaceEID(a)]
SeenOutfit(a) == IF IsActorValid(a) THEN worn[a] ELSE {}

IsActorTrackable(a) ==
    /\ IsActorValid(a)
    /\ "playerOnly" \in g.flags => a = Player
    /\ "maleOnly" \in g.flags => IsActorMale(a)
    /\ "femaleOnly" \in g.flags => ~IsActorMale(a)
    /\ "npcOnly" \in g.flags => a # Player
    /\ "useWhitelist" \in g.flags => GetActorRaceEID(a) \in RaceWhitelist(g)

IsBoneInWhitelist(a, b) ==
    IsActorValid(a) /\ <<b, body[a].race, SeenBody(a).sex>> \in g.whitelist

-----------------------------------------------------------------------------
(* Simulation objects *)

\* The bones AddBonesToThings finds for the actor.
BonesOf(a) ==
    {b \in g.boneNames :
        /\ HasRootNode(a)
        /\ "useWhitelist" \in g.flags => IsBoneInWhitelist(a, b)
        /\ b \in Skeleton[body[a].race]}

\* UpdateConfigs: bones of the config are on with its settings, the others off.
UpdateConfigs(bones, config) ==
    [b \in bones |-> IF b \in DOMAIN config THEN config[b] ELSE Off]

Composed(a) == BuildConfigForActor(g, cache, a, shown[a], key[a])

\* The actor's object with its new key; also with the settings of a config on
\* the given bones; after Reset.
Rekeyed(a) == [bound |-> sim[a].bound, body |-> sim[a].body, key |-> key[a],
               things |-> sim[a].things]
Reconfigured(a, bones, config) == [bound |-> sim[a].bound, body |-> sim[a].body, key |-> key[a],
                                   things |-> UpdateConfigs(bones, config)]
Reset(a) == [bound |-> FALSE, body |-> sim[a].body, key |-> sim[a].key, things |-> NoConfig]

\* What Bind makes of it.
Bound(a, config) == [bound |-> TRUE, body |-> SeenBody(a), key |-> key[a],
                     things |-> UpdateConfigs(BonesOf(a), config)]

-----------------------------------------------------------------------------
(* Steps of the frame *)

GotoPhase(p) ==
    /\ phase' = p
    /\ pc' = AtStart
    /\ shown' = [a \in Actors |-> {SeenOutfit(a)}]
    /\ UNCHANGED key
AllDone == \A a \in entries : pc[a] = "done"
StepDone(a) ==
    /\ pc' = [pc EXCEPT ![a] = "done"]
    /\ shown' = [shown EXCEPT ![a] = {SeenOutfit(a)}]
    /\ UNCHANGED key

\* In another cell than last time nothing is scanned: all state is dropped.
\* (Without a loaded player a frame does nothing at all.)
ChangeCell ==
    /\ phase = "idle"
    /\ cell \notin {NoCell, curCell}
    /\ curCell' = cell
    /\ actors' = {}
    /\ sim' = NoSims
    /\ missed' = {}
    /\ GotoPhase("scanned")
    /\ UNCHANGED <<world, tables, count, entries, reloadActors>>

\* Mutant: a tracked actor that is not valid is dropped.
ScanCellDropping ==
    /\ phase = "idle"
    /\ cell # NoCell /\ cell = curCell
    /\ actors' = {a \in Actors : IF a \in actors THEN IsActorValid(a) ELSE IsActorTrackable(a)}
    /\ entries' = actors'
    /\ GotoPhase("scanned")
    /\ UNCHANGED <<world, tables, curCell, sim, count, reloadActors, missed>>

\* Actors not tracked yet are admitted when the filters let them; tracked ones
\* take part in the frame when they are valid.
ScanCell ==
    /\ phase = "idle"
    /\ cell # NoCell /\ cell = curCell
    /\ LET added == {a \in Actors \ actors : IsActorTrackable(a)}
       IN  /\ actors' = actors \cup added
           /\ entries' = added \cup {a \in actors : IsActorValid(a)}
    /\ GotoPhase("scanned")
    /\ UNCHANGED <<world, tables, curCell, sim, count, reloadActors, missed>>

\* Mutant: count goes down.
CountDown == IF g.rate # 0 THEN count - 1 ELSE count

\* configReloadCount && count++ > configReloadCount
ReloadDue == g.rate # 0 /\ count > g.rate

CountUp == IF g.rate # 0 THEN count + 1 ELSE count

\* Mutant: cachedConfigs is not cleared.
ReloadConfigKeepingCache ==
    /\ phase = "scanned"
    /\ ReloadDue
    /\ count' = 0
    /\ g' = LoadConfig(g, disk, Forms)
    /\ reloadActors' = ReloadActors(g, g')
    /\ GotoPhase("reload")
    /\ UNCHANGED <<world, cache, curCell, actors, sim, entries, missed>>

ReloadConfig ==
    /\ phase = "scanned"
    /\ ReloadDue
    /\ count' = 0
    /\ g' = LoadConfig(g, disk, Forms)
    /\ cache' = [k \in {} |-> NoConfig]
    /\ reloadActors' = ReloadActors(g, g')
    /\ GotoPhase("reload")
    /\ UNCHANGED <<world, curCell, actors, sim, entries, missed>>

SkipReload ==
    /\ phase = "scanned"
    /\ ~ReloadDue
    /\ count' = CountUp
    /\ GotoPhase("bind")
    /\ UNCHANGED <<world, tables, curCell, actors, sim, entries, reloadActors, missed>>

\* The loops that build the actor's key.
NeedsKey(a) ==
    \/ phase = "reload"
    \/ phase = "bind" /\ ~sim[a].bound
    \/ phase = "update" /\ sim[a].bound

\* BuildActorKey: the reload loop does one actor after another, the two
\* parallel loops any number at a time.
ReadKey(a) ==
    /\ a \in entries \cap actors
    /\ pc[a] = "start"
    /\ NeedsKey(a)
    /\ phase = "reload" => \A b \in Actors : pc[b] # "keyed"
    /\ \E k \in KeysRead(g, a, shown[a]) : key' = [key EXCEPT ![a] = k]
    /\ shown' = [shown EXCEPT ![a] = {SeenOutfit(a)}]
    /\ pc' = [pc EXCEPT ![a] = "keyed"]
    /\ UNCHANGED <<world, tables, curCell, actors, sim, count, phase, entries, reloadActors, missed>>

\* Mutants: the settings of the bones there are stay; no bones are added.
ReloadActorOldBonesStay(a) ==
    /\ phase = "reload" /\ pc[a] = "keyed"
    /\ \E config \in Composed(a) :
        /\ cache' = CacheAfter(cache, key[a], config)
        /\ sim' = [sim EXCEPT ![a].key = key[a],
                      ![a].things = Over(sim[a].things, UpdateConfigs(BonesOf(a), config))]
    /\ StepDone(a)
    /\ UNCHANGED <<world, g, curCell, actors, count, phase, entries, reloadActors, missed>>

ReloadActorNoNewBones(a) ==
    /\ phase = "reload" /\ pc[a] = "keyed"
    /\ \E config \in Composed(a) :
        /\ cache' = CacheAfter(cache, key[a], config)
        /\ sim' = [sim EXCEPT ![a] = Reconfigured(a, DOMAIN sim[a].things, config)]
    /\ StepDone(a)
    /\ UNCHANGED <<world, g, curCell, actors, count, phase, entries, reloadActors, missed>>

\* The rest of the reload loop's body: bones are added, never taken away.
ReloadActor(a) ==
    /\ phase = "reload" /\ pc[a] = "keyed"
    /\ \E config \in Composed(a) :
        /\ cache' = CacheAfter(cache, key[a], config)
        /\ sim' = [sim EXCEPT ![a] = Reconfigured(a, DOMAIN sim[a].things \cup BonesOf(a), config)]
    /\ StepDone(a)
    /\ UNCHANGED <<world, g, curCell, actors, count, phase, entries, reloadActors, missed>>

\* Mutants: only the map of actors is cleared; only this frame's actors are
\* taken out of it.
EndReloadKeepingEntries ==
    /\ phase = "reload" /\ AllDone
    /\ IF reloadActors
       THEN actors' = {} /\ sim' = NoSims /\ missed' = {}
       ELSE missed' = actors \ entries /\ UNCHANGED <<actors, sim>>
    /\ reloadActors' = FALSE
    /\ GotoPhase("bind")
    /\ UNCHANGED <<world, tables, curCell, count, entries>>

EndReloadDroppingEntries ==
    /\ phase = "reload" /\ AllDone
    /\ IF reloadActors
       THEN actors' = actors \ entries /\ entries' = {} /\ missed' = {}
       ELSE missed' = actors \ entries /\ UNCHANGED <<actors, entries>>
    /\ reloadActors' = FALSE
    /\ GotoPhase("bind")
    /\ UNCHANGED <<world, tables, curCell, sim, count>>

\* A change of one of the five flags drops every actor after all.
EndReload ==
    /\ phase = "reload" /\ AllDone
    /\ IF reloadActors
       THEN actors' = {} /\ entries' = {} /\ sim' = NoSims /\ missed' = {}
       ELSE missed' = actors \ entries /\ UNCHANGED <<actors, entries, sim>>
    /\ reloadActors' = FALSE
    /\ GotoPhase("bind")
    /\ UNCHANGED <<world, tables, curCell, count>>

\* Mutant: the race is not compared.
CheckSex(a) ==
    /\ phase = "bind" /\ a \in entries \cap actors /\ pc[a] = "start"
    /\ sim[a].bound
    /\ sim' = IF SeenBody(a).sex # sim[a].body.sex
              THEN [sim EXCEPT ![a] = Reset(a)]
              ELSE sim
    /\ StepDone(a)
    /\ UNCHANGED <<world, tables, curCell, actors, count, phase, entries, reloadActors, missed>>

\* Reset of a bound object whose actor has another sex or race than at Bind.
CheckBody(a) ==
    /\ phase = "bind" /\ a \in entries \cap actors /\ pc[a] = "start"
    /\ sim[a].bound
    /\ sim' = IF SeenBody(a) # sim[a].body
              THEN [sim EXCEPT ![a] = Reset(a)]
              ELSE sim
    /\ StepDone(a)
    /\ UNCHANGED <<world, tables, curCell, actors, count, phase, entries, reloadActors, missed>>

\* Mutant: the key is left to the update loop.
BindWithoutKey(a) ==
    /\ phase = "bind" /\ pc[a] = "keyed"
    /\ \E config \in Composed(a) :
        /\ cache' = CacheAfter(cache, key[a], config)
        /\ sim' = IF HasRootNode(a)
                  THEN [sim EXCEPT ![a] = [Bound(a, config) EXCEPT !.key = sim[a].key]]
                  ELSE sim
    /\ missed' = IF HasRootNode(a) THEN missed \ {a} ELSE missed
    /\ StepDone(a)
    /\ UNCHANGED <<world, g, curCell, actors, count, phase, entries, reloadActors>>

\* Bind does nothing without a root node, but the key is set by then.
Bind(a) ==
    /\ phase = "bind" /\ pc[a] = "keyed"
    /\ \E config \in Composed(a) :
        /\ cache' = CacheAfter(cache, key[a], config)
        /\ sim' = [sim EXCEPT ![a] = IF HasRootNode(a) THEN Bound(a, config) ELSE Rekeyed(a)]
    /\ missed' = IF HasRootNode(a) THEN missed \ {a} ELSE missed
    /\ StepDone(a)
    /\ UNCHANGED <<world, g, curCell, actors, count, phase, entries, reloadActors>>

EndBind ==
    /\ phase = "bind" /\ AllDone
    /\ GotoPhase("update")
    /\ UNCHANGED <<world, tables, curCell, actors, sim, count, entries, reloadActors, missed>>

SkipUnbound(a) ==
    /\ phase = "update" /\ a \in entries \cap actors /\ pc[a] = "start"
    /\ ~sim[a].bound
    /\ StepDone(a)
    /\ UNCHANGED <<world, tables, curCell, actors, sim, count, phase, entries, reloadActors, missed>>

\* A changed key means a changed outfit: the bones there are get the settings
\* for it.  The simulation that follows (SimObj::Update) changes no variable.
Update(a) ==
    /\ phase = "update" /\ pc[a] = "keyed"
    /\ IF key[a] # sim[a].key
       THEN \E config \in Composed(a) :
                /\ cache' = CacheAfter(cache, key[a], config)
                /\ sim' = [sim EXCEPT ![a] = Reconfigured(a, DOMAIN sim[a].things, config)]
       ELSE UNCHANGED <<cache, sim>>
    /\ StepDone(a)
    /\ UNCHANGED <<world, g, curCell, actors, count, phase, entries, reloadActors, missed>>

EndFrame ==
    /\ phase = "update" /\ AllDone
    /\ entries' = {}
    /\ GotoPhase("idle")
    /\ UNCHANGED <<world, tables, curCell, actors, sim, count, reloadActors, missed>>

Frame ==
    \/ ChangeCell \/ ScanCell \/ ReloadConfig \/ SkipReload
    \/ EndReload \/ EndBind \/ EndFrame
    \/ \E a \in Actors : ReadKey(a) \/ ReloadActor(a) \/ CheckBody(a) \/ Bind(a)
                            \/ SkipUnbound(a) \/ Update(a)

-----------------------------------------------------------------------------
(* Steps of the game and the user *)

Plugin == <<tables, curCell, actors, sim, count, frame, missed>>

\* The worker is still to read its actor's outfit in this phase.
Reading(a) ==
    /\ a \in entries
    /\ \/ pc[a] = "start" /\ NeedsKey(a)
       \/ pc[a] = "keyed" /\ key[a] \notin DOMAIN cache

MoveActor(to) ==
    /\ \E a \in Actors, s \in to : status' = [status EXCEPT ![a] = s]
    /\ UNCHANGED <<cell, body, worn, disk>>

ChangeBody ==
    /\ \E a \in Actors, x \in Bodies : body' = [body EXCEPT ![a] = x]
    /\ UNCHANGED <<cell, status, worn, disk>>

ChangeOutfit ==
    /\ \E a \in Actors, o \in Outfits : worn' = [worn EXCEPT ![a] = o]
    /\ UNCHANGED <<cell, status, body, disk>>

PlayerMoves ==
    /\ cell' \in Cells \cup {NoCell}
    /\ UNCHANGED <<status, body, worn, disk>>

EditIni ==
    /\ disk' \in Inis
    /\ UNCHANGED <<cell, status, body, worn>>

Game ==
    /\ Quiet => phase = "idle"
    /\ \/ "leave" \in Moves /\ MoveActor({"here", "away"})
       \/ "delete" \in Moves /\ MoveActor({"here", "deleted"})
       \/ "body" \in Moves /\ ChangeBody
       \/ "worn" \in Moves /\ ChangeOutfit
       \/ "cell" \in Moves /\ PlayerMoves
       \/ "disk" \in Moves /\ EditIni
    /\ shown' = [a \in Actors |-> (IF Reading(a) THEN shown[a] ELSE {}) \cup {SeenOutfit(a)'}]
    /\ UNCHANGED Plugin

Next == Frame \/ Game

Spec == Init /\ [][Next]_vars

\* The game calls the hook every frame, and the parallel loops join: weak
\* fairness of Frame, written with what it comes to.  Frame is disabled only
\* while there is nothing to scan, and its steps, and no others, change phase
\* or pc.
NothingToScan == phase = "idle" /\ cell = NoCell
FairSpec == Spec /\ ([]<>NothingToScan \/ []<><<TRUE>>_<<phase, pc>>)

-----------------------------------------------------------------------------
(* Properties *)

Phases == {"idle", "scanned", "reload", "bind", "update"}

AreSims(s) == DOMAIN s = Actors /\ \A a \in Actors : s[a].bound \in BOOLEAN

\* The shape of the state.  (A simulation object's key and things, and the
\* configurations in the tables, have no finite type.)
TypeOK ==
    /\ cell \in Cells \cup {NoCell} /\ curCell \in Cells \cup {NoCell}
    /\ status \in [Actors -> {"away", "here", "deleted"}]
    /\ body \in [Actors -> Bodies]
    /\ worn \in [Actors -> Outfits]
    /\ disk \in Inis
    /\ actors \subseteq Actors /\ entries \subseteq Actors /\ missed \subseteq Actors
    /\ AreSims(sim)
    /\ g.rate \in Int /\ count \in Nat
    /\ g.flags \subseteq Flags
    /\ phase \in Phases
    /\ pc \in [Actors -> {"start", "keyed", "done"}]
    /\ DOMAIN key = Actors
    /\ shown \in [Actors -> SUBSET Outfits]
    /\ reloadActors \in BOOLEAN

\* Every entry of the frame is tracked, so that the "Sim Object not found in
\* tracked actors" branches of the three loops are never taken.
EntriesTracked == entries \subseteq actors

\* A filter on the player decides who is tracked from the end of the reload
\* that sets it: the actors admitted under the old filters are gone by then.
FiltersHonoured ==
    phase # "reload" =>
        /\ "playerOnly" \in g.flags => actors \subseteq {Player}
        /\ "npcOnly" \in g.flags => Player \notin actors

\* count never outgrows the rate: a reload is at most rate + 2 frames away, and
\* a reload that lowers the rate does not leave a count from the old one.
CountBounded == count <= 1 + (IF g.rate > 0 THEN g.rate ELSE 0)

\* A bound object has a key of its own actor: the comparison in the update loop
\* never reads the uninitialised currentActorKey, and a cached configuration is
\* never looked up under another actor's key.
BoundHasOwnKey ==
    \A a \in Actors :
        /\ sim[a].bound => a \in actors /\ sim[a].key # NoKey
        /\ sim[a].key # NoKey => sim[a].key[1] = a
        /\ pc[a] = "keyed" => key[a] # NoKey /\ key[a][1] = a

\* What the cache gives for an actor and an outfit is what the present tables
\* compose for them.  (Needs Quiet: a key read before a change of outfit is
\* otherwise stored with a configuration composed after it, or across it.)
CacheCoherent ==
    \A a \in Actors, o \in Outfits :
        LET k == BuildActorKey(g, a, o)
        IN  k \in DOMAIN cache => cache[k] = BuildConfig(g, a, o)

\* Even then every cached configuration is composed from the present tables, of
\* priorities each of which the key's own actor can have been found to meet and
\* the others to miss: none outlives a reload.
CacheFromPresentTables ==
    \A k \in DOMAIN cache : \E ps \in PrioritiesRead(g, k[1], Outfits) :
        cache[k] = ComposeConfig(g, ps)

\* The bones of a bound object show the configuration of the actor's outfit.
ShowsOutfit(a) ==
    LET config == BuildConfig(g, a, worn[a])
    IN  /\ sim[a].key = BuildActorKey(g, a, worn[a])
        /\ sim[a].body = body[a]
        /\ BonesOf(a) \subseteq DOMAIN sim[a].things
        /\ \A b \in DOMAIN sim[a].things :
              sim[a].things[b] = IF b \in DOMAIN config THEN config[b] ELSE Off

\* When the frame has simulated its actors, every bound one of them shows the
\* outfit it wears under the tables of the frame, and has the bones of its own
\* body; except those that were not in the frame of the last reload, which keep
\* the old settings until the next one.  (Needs Quiet.)
SettingsCurrent ==
    phase = "update" /\ AllDone =>
        \A a \in entries \ missed : sim[a].bound => ShowsOutfit(a)

\* "We retain all state by actor ID ... it's cleared on cell change"
\* (scan.cpp:157-158): an actor is dropped only with all the others, by a
\* change of cell or of the flags, and a bound object stays bound while its
\* actor keeps the body it was bound for.
StateRetained ==
    [][ /\ actors \subseteq actors' \/ (actors' = {} /\ (curCell' # curCell \/ reloadActors))
        /\ \A a \in actors \cap actors' :
              sim[a].bound /\ ~sim'[a].bound => SeenBody(a) # sim[a].body ]_vars

\* In the update loop every actor of the frame is bound to the body it has, or
\* is unbound because it was bound to another: nobody waits longer than a frame
\* to be bound, and nobody is simulated on bones of a body it no longer has.
\* (Needs Quiet.)
FrameBinds ==
    phase = "update" => \A a \in entries :
        \/ sim[a].bound /\ sim[a].body = body[a]
        \/ ~sim[a].bound /\ sim[a].body \notin {NoBody, body[a]}

\* If the game and the file stay as they are with the player in a cell, every
\* actor the filters admit ends up bound to its present body, and unless hot
\* reload is off, the tables have the effect of the file on disk and every such
\* actor shows its outfit under them.
Settled ==
    cell # NoCell =>
        /\ \A a \in Actors : IsActorTrackable(a) =>
            a \in actors /\ sim[a].bound /\ sim[a].body = body[a]
        /\ g.rate # 0 =>
            LET h == LoadConfig(g, disk, Forms)
            IN  /\ h.flags = g.flags /\ h.boneNames = g.boneNames
                /\ \A a \in Actors : IsActorTrackable(a) =>
                    /\ ShowsOutfit(a)
                    /\ BuildConfig(h, a, worn[a]) = BuildConfig(g, a, worn[a])

Settles == <>[][FALSE]_world => <>[]Settled

-----------------------------------------------------------------------------
(* The frame loop keeps the promise of ActorRegistry *)

Life == [a \in Actors |-> IF a \notin actors THEN "untracked"
                          ELSE IF sim[a].bound THEN "bound" ELSE "tracked"]

Registry == INSTANCE ActorRegistry WITH life <- Life

\* The tracked actors and their bindings change as the registry allows.
ImplementsRegistry == Registry!Spec
=============================================================================
