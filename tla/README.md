# OpenCBP: specification and verification

OpenCBP is an F4SE plugin for Fallout 4 that moves chosen bones of the actors
around the player like damped springs. Which bones, and how they move, is
read from `ocbp.ini`, depends on the actor and on what it wears, and can be
edited while the game runs. This directory holds TLA+ modules of the plugin's
logic (`src/CBPSSE`), the TLC configurations that check them on small
instances, and TLAPS proofs of the main invariants for all instances.

## The system

| Component | State | Operations |
|---|---|---|
| Configuration store (`config.cpp`) | the globals `config`, `boneNames`, `configArmorOverrideMap`, `configActorOverrideMap`, `priorityNameMappings`, `priorities`, `usedSlots`, `whitelist`, `raceWhitelist`, five flags, `configReloadCount` | `LoadConfig`, `GetFormIDFromString` |
| Actor configuration (`ActorUtils.cpp`) | `cachedConfigs` | `BuildActorKey`, `BuildConfigForActor`, the filters and whitelist tests |
| Frame loop (`scan.cpp`) | `actors` (form id -> simulation object), `curCell`, the static `count` | `UpdateActors`, once per frame |
| Simulation object (`SimObj.cpp`) | `bound`, `gender`, `raceEid`, `currentActorKey`, `things` | `Bind`, `Reset`, `AddBonesToThings`, `UpdateConfigs`, `SetActorKey`, `Update` |
| Bone (`Thing.cpp`) | position, velocity, clock, settings; the static maps `origLocalPos`, `origLocalRot`, `origChestWorldRot` | `UpdateConfig`, `StoreOriginalTransforms`, `UpdateThing` |
| Papyrus interface (`PapyrusOCBP.cpp`) | `boneIgnores` | `SetBoneToggle`, `GetBoneToggle`, `ClearBoneToggles`, from script threads |
| Plugin entry (`main.cpp`) | `g_pluginHandle` | `F4SEPlugin_Load` registers with F4SE; `MessageHandler` loads the configuration and hooks the frame on each `GameDataReady` message |
| Frame hook (`hookD3D.cpp`, `detourxs.cpp`) | `renderDetour`, `orig_ProcessEventQueue_Internal` | `DoHook`; the detour calls `UpdateActors` after the game's event queue |
| F4SE's plugin manager (`f4se/f4se/PluginManager.cpp`) | `m_plugins`, the plugin being loaded, `s_pluginListeners` | `InstallPlugins`, `RegisterListener`, `Dispatch_Message`, lookups by name and by handle |

A frame is one call of `UpdateActors`. It scans the list of references of the
player's cell, admits the actors the filters let in, and makes the frame's list
of entries; every so many frames it reloads the file and reconfigures the
entries; then two `parallel_for_each` loops, each of them fork and join, bind
or reset the simulation objects and update the bound ones. Everything the plugin
knows of an actor (whether it is valid, sex, race, equipment) is read from
game objects that other threads own, several times in one frame.

What is hard here:

* *Accumulating state.* `LoadConfig` clears five tables and adds to the rest, so
  the effect of a file depends on the files loaded before it. It also runs twice
  at start, the first time before the data files are read.
* *Caching by key.* An actor's outfit is represented by a key, in
  `cachedConfigs` and in `currentActorKey`. The key is made from one set of slots
  and the configuration from others; key and configuration are computed one
  after the other.
* *Two lists.* `actors` and `actorEntries` are kept in step by hand through
  cell changes, reloads and changes of the filters. Actors that are absent from
  the frame of a reload are not reconfigured.
* *A world that moves.* An actor can change outfit, sex or race, leave or be
  deleted at any time, also between the reads of two slots in one frame.
* *Toggles.* Scripts write and clear `boneIgnores` on threads of their own while
  the workers search it.
* *Starting.* Plugins that fail are erased from the list that is being iterated;
  handles and places in the list are then different numbers. Listeners register
  and send from within handlers. The frame is detoured from a message that comes
  twice, in a function that other plugins detour too.
* *Bones.* Rest poses are kept in static maps that are never cleared; the motion
  has thresholds, clamps and a substep loop over mixed number types.

For each component, what makes it correct:

* Store: names keep their priorities; the slots of every override are used slots;
  every override is at a priority that is walked; loading a file again changes
  nothing; an emptied bone is disabled.
* Actor configuration: the lowest priority number decides; equal keys mean equal
  configurations; what the cache serves is what would be composed.
* Frame loop: entries are tracked; filters hold after a reload; state is dropped
  only by a change of cell or flags; nobody waits longer than a frame to be bound;
  after the world settles everybody shows what the file says.
* Simulation object: bound to the body it has, never compared by an unset key,
  has the bones and settings of the actor's outfit.
* Bone: the saved rest pose is never a moved one and belongs to the present
  skeleton; offsets go no further than the settings reach; a bone snaps back only
  when its actor jumped; the substeps fit the frame.
* Store, form ids: an override selects the forms that entries name, no others.
* Plugin manager: no plugin is passed over because others fail; each listener
  gets each message once; messages reach those who asked for them.
* Frame hook: whatever fails and whoever else hooks, a frame processes the event
  queue once and updates the actors at most once, with settings read when the
  game's data were there.
* Papyrus interface: a toggled bone is not moved, and toggles may change while a
  frame is under way.

The same list, line by line in the code and with the properties that watch each
item, is under `hazards` in `PROJECT.json`.

## The modules

`ConfigStore` has no variables: the tables are one record, a file is a record of
its parsed sections, and `LoadConfig(old, ini, known)` is the function from the
old tables to the new ones (`config.cpp:102-567`), with an operator per part:
`Cleared`, `MapNames`, `LoadArmor`, `LoadActor`, `LoadAttach`, `LoadUsedSlots`,
`LoadPriorities`, `LoadWhitelist`, `LoadFlags`. `ReloadActors` is its return value.
`known` is the set of forms that can be resolved when it runs. An override map is
total, because an absent entry behaves as the one `operator[]` creates.

`ActorConfig` adds outfits, keys, the filters, the composition by priorities, and
the cached version `BuildConfigForActor` with the cache it leaves, `CacheAfter`.
An outfit is a set of garments on disjoint slots. The code reads an outfit slot by
slot, once for the key and again for every priority, while the game may change it.
So these operators come in two forms. `BuildActorKey` and `BuildConfig` are for an
outfit that stays as it is. `KeysRead`, `PrioritiesRead` and `BuildConfigForActor`
take the set of outfits an actor shows meanwhile and give every key, set of
applying priorities and configuration that the reads can come to: `SlotReads` are
what one slot may give, `MayApply` and `MaySkip` what one priority may make of its
own reads. With one outfit the two forms agree (`ShownSteady` in the proofs). The
64-bit hash is abstracted by the value that is hashed, an actor and a bag of
(armor, model) pairs, so collisions of the hash are outside the model.

`ConfigReload` is the session of loads: the two `GameDataReady` messages, then
any hot reloads (`HotReload`) of any files.

`FrameLoop` is `UpdateActors` with its simulation objects. Its steps follow the
function from top to bottom:

| Action | Code |
|---|---|
| `ChangeCell`, `ScanCell` | `scan.cpp:161-212` |
| `ReloadConfig` or `SkipReload` | `scan.cpp:229-234` |
| `ReadKey(a)`, `ReloadActor(a)`, `EndReload` | the loop over the entries and the clearing, `235-260` |
| `CheckBody(a)`, or `ReadKey(a)` and `Bind(a)`; `EndBind` | the first parallel loop, `262-296` |
| `SkipUnbound(a)`, or `ReadKey(a)` and `Update(a)`; `EndFrame` | the second, `298-325` |
| `Game` | everything the game and the user do |

The variables `g`, `cache`, `curCell`, `actors`, `sim`, `count` are the globals;
`phase`, `entries`, `reloadActors`, `pc` and `key` are the local variables of the
call and its workers; `cell`, `status`, `body`, `worn` and `disk` are the world.
The history variable `missed` holds the tracked actors that were not in the frame of
the last reload. Reading a key is a step apart from using it. Each of the two reads
many slots, and the game may act between any of them: `shown` collects the outfits
an actor has shown since its worker's last step, and the step takes every outcome
that reads spread over these outfits can have. The other reads of a step are of one
value each; what a worker writes is its own object and one entry of the cache.

`ActorRegistry` is an abstract specification of the map `actors`: an actor is
untracked, tracked or bound; tracking starts for any set of actors and ends for
all at once. `FrameLoop` implements it under `Life` (`ImplementsRegistry`).

`BonePose` is the part of `Thing` that outlives a simulation object. A worker
takes a bone through `Begin` (`UpdateThing`'s checks and the lookups at
`Thing.cpp:110-111`), `StoreChest`, `StorePos`, `StoreRot` (the three parts of
`StoreOriginalTransforms`) and `Move` (the writes at 419-420 and at the end), one
step for each map it writes, so that workers of several actors race for a
bone's first entry. `Bind`, `Reset` and `DropAll` are what the frame loop does to
the object, at any time its worker is idle; `LoadNodes` is the game. A pose says
whose skeleton it comes from and whether it carries an offset, not how large. The
maps are keyed by the address of an interned name, which the plugin keeps
referenced, so keys are names. The comparison of an iterator with the end of
another map (`Thing.cpp:123`) is modelled as a release build does it.

`ThingMotion` is the other part of a `Thing`: one bone of one actor from frame to
frame. The worker of `SimObj::Update` is `FindActor` (the search of the outer map
of toggles), `FindBone` (that of the inner one) and `UpdateThing`; between any two
of them a script may act (`SetBoneToggle`, `ClearBoneToggles`) and the game move,
turn, unload or reload the actor (`MoveActor`, `LoadNodes`). A `clear()` under a
worker that holds the inner map leads to `FindBoneFreed`, whose outcome is any.
`Construct`, `UpdateConfigs` and `Drop` are what the frame loop does between
updates. `UpdateThing` is one of `ResetTransform` (a jump beyond `DIFF_LIMIT`),
`MoveBone` and `MoveToNaN`. `MoveBone` clamps in the world; `Placed` is the rest of
the way to the node (`Thing.cpp:497-589`): turn into skeleton space, clamp, spread,
clamp, multiply by the linear factors, turn back, add the supine term times the
factors, turn into the parent's space by the rotation the constructor found, and add
the gravity correction times its factor. `Target` contains the settings' cog offset;
the position `Construct` takes from the node does not, and it carries whatever offset
an earlier object left there. What spring, damping and gravity bias add up to is any
member of `Pushes`, so the bounds hold whatever the forces do. The supine term is
there in full or not at all. Distances are integers; the skeleton, the bone's
parent and `rotateLinear` stand at quarter turns and ticks are quarters of a
millisecond, so that turning there and back is exact, as it nearly is in the code,
and a turn keeps the largest coordinate. A constructor that finds no skeleton leaves
`oriented` false, and a bone without rotation goes anywhere.

`PluginManager` is F4SE's: `LoadPlugin`, `PluginLoaded`, `PluginFailed` and `PhaseDone`
are the loop of `InstallPlugins` in its two phases, `RegisterListener` the function
(with the growth of the lists, the comparison of the handle, the search by name
and the loop over all lists with its own counting), and `Dispatch_Message` is
`Begin`, then `CallHandler` and `HandlerReturns` for each listener, so that a handler
may register and send in between. A dispatch in progress is an entry of `calls`,
the innermost last. `lost` says that an iterator was invalidated or code of an
unloaded library called; what would follow is undefined and is not explored.

`FrameHook` is the detour: which function the first instruction of each function
jumps to, where the trampolines go on, and whose first instructions the length in
`m_detourLen` is of: a failed attempt leaves its length to the next one. `FrameNow` is
what one call of the game's function then does, up to a torn instruction.

`Startup` composes the two with this plugin: `F4SEPlugin_Load` runs when the manager
loads `Ocbp`, `MessageHandler` when it calls it with a message of F4SE, and the other
plugins do anything the manager lets them. `ConfigReload` goes on from there.

`FormIds` is `GetFormIDFromString` over a load order and the loops of `LoadConfig`
that collect its results, one kind of section for armors, which `Reload` starts
anew, and one for actors, which it only adds to; a form id is its upper 8 and lower
24 bits, an entry its number of digits, its value and its plugin. `ConfigStore` takes what resolves as
given (`known`); `FormIds` says which form it is.

Operators whose comment says *Mutant* are wrong versions of the definition
below them; with one of them in its place, a property of a run fails.

## The runs

| Run | Checks | What it explores |
|---|---|---|
| `ConfigReload` | `TypeOK`, `UsedSlotsCover`, `KeyDeterminesConfig`, `PrioritiesCover`, `LowestPriorityDecides`, `ReloadIdempotent`, `ClearedPartIsFresh`, `StartupIsOneLoad`, `NamesAreWriteOnce` | all sequences of loads over 48 files: two names, two priorities, two bones, two actors, three garments |
| `ConfigTouch` | `TouchSignalsDeletion` | the same; the property is violated (see below) |
| `FrameOutfits` | `TypeOK`, `CacheCoherent`, `SettingsCurrent` | two actors, two garments, two files |
| `FrameRaces` | `EntriesTracked`, `BoundHasOwnKey`, `FiltersHonoured`, `ImplementsRegistry` | two actors that come and go between any two steps, files with filters on the player and rates 1, 0 and -1 that follow one another |
| `FrameSettles` | `CacheFromPresentTables`, `Settles` | one actor whose visibility, outfit and files change between any two reads, then nothing; a file with two priorities on one slot, another without overrides |
| `FrameWhitelist` | `SettingsCurrent`, `FrameBinds`, `StateRetained` | one actor that changes sex, race and cell, whitelists by bone, race and sex, filters by sex |
| `BonePose` | `TypeOK`, `SavedUnmoved`, `MoveHasRest`, `SavedOnce` | two actors, two races, one without a chest node, two bones, every interleaving |
| `BoneChest` | `SavingSucceeds` | the same; the property is violated |
| `ThingMotion` | `TypeOK`, `ToggleHonoured`, `NoSpuriousReset`, `SubstepsFitFrame`, `OffsetBounded` | one bone among two names, two places, three settings, turns of skeleton and parent, every interleaving of worker, scripts and game |
| `Startup` | `TypeOK`, `EveryMessageOnce`, `RefusedAfterFailures`, `RoutedUnlessFailed`, `FlatDispatchSafe`, `NotSkipped`, `FrameOnce`, `UpdatedWithData` | three plugins, four messages, handlers within handlers, another plugin's detour |
| `FormIds` | `TypeOK`, `SelectsTheNamed` | two plugins in five load orders, entries of 0 to 9 digits, up to three of each kind of section, reloads and restarts |
| `FormIdLength` | `OverlongPassedOver` | the same; the property is violated |

`Moves` says which parts of the world an instance may change and `Quiet` whether
the game waits for `UpdateActors`. Properties checked with `Quiet` are those that
relate two reads of one frame: an outfit changed between the reading of a key and
the composition is stored under the wrong key, and one changed between the reads of
two priorities may give a configuration that belongs to no outfit at all. Without
`Quiet`, `CacheFromPresentTables` and `Settles` say that such an entry does not
survive: it is of the actor's own, composed from the present tables and from
priorities that can each have been found to apply or not, and gone after the next
reload. In `FrameSettles` two priorities have the same filter on one slot, so that no
outfit lets one of them apply alone, and torn reads do. All the other properties are checked with the world moving freely,
or proved so.

The bounds: one or two actors, since workers of different actors share only the
cache, by keys that belong to one actor each (proved, `BoundAlwaysHasOwnKey`), so
two already show every interaction; two garments where one is a prefix of the
slots of the other and one file's filter inverts the other's, so that a key
changes with and without the configuration; two or three files, which makes
sequences of any length over them; a reload rate of 1 (also 0 and -1), so that
frames with and without a reload alternate. The frames of a run are not bounded:
`count` is kept small by the code itself (proved, `CountAlwaysBounded`).

Fairness: `FairSpec` asks weak fairness of `Frame` only, written out: again and again
a step of `Frame` is taken, which only its steps show in `phase` or `pc`, or there is
nothing to scan, the only state in which it is disabled. The hook runs every
frame, a frame is a finite loop, and both parallel loops join. Nothing is
assumed of the game or the user, except where the property itself says so:
`Settles` is about behaviours in which the world eventually holds still.

`BonePose` needs two actors for a race on a bone, two races for a change, two
bones to have one that is not a breast. The game may end by an exception there,
so its runs do not check for deadlock.

`ThingMotion` has two axes, so that the spread force has somewhere to go, and a
`Limit` of 6 (`DIFF_LIMIT` is 100). The rest moves by 5, so that it takes a lag or a
cog offset as well to jump, and the caps on the lag (`LagCap`, 4) and on the cog
offset (`CogCap`, 1, and it may turn about) leave nothing of the limit: a reset of a
bone whose rest did not move would violate `NoSpuriousReset`. One limit is negative
on one axis, which makes the code's clamp give its bounds in reverse; one linear
factor is 2, so that a node may be beyond its limits; ticks are 4.5, 65 and less than
1 ms. `SubstepsFitFrame` goes through every frame time from -1 to 70 ms: `clock()`
is in milliseconds, and the code clamps to 8..64.

`Startup` has three plugins, of which this one is the last, so that two may fail
before it; one of them is also preloaded. Lists grow by 5 at least, as in the code
(`Room`). Two nested dispatches suffice for a list that is changed while it is
iterated. The messages are the two of `LoadComplete` and the two `GameDataReady`;
the others of the game come later and are ignored by this plugin. Plugins act
outside handlers only between the second message and the third; while plugins load
they name no other plugin as a sender, for names are known only after
(`PluginManager.cpp:361-366`). Messages and frames are of one thread. The system
stops when the messages are sent, so there is no check for deadlock.

`FormIds` has a plugin that is full in one order and light in another, and light
indices that are those of full plugins; the orders between them make every
comparison of `SelectsTheNamed` both true and false. `Longest` bounds how many entries
count for a kind of section; the selection is entry by entry, so three show all there
is to show, and the theorem has no such bound.

### Disagreements with the source

`ConfigTouch` reaches a state in which `TouchSignalsDeletion` fails, in four steps:
a file gives a bone settings under `[Attach.<name>]`; it is edited so that the
bone's value there is empty; hot reload reads it. The comment at
`config.cpp:265-266` says that the code then adds "empty entry for bone in
config_t to signal deletion later". For `configActorOverrideMap`, which
`LoadConfig` does not clear, the entry exists and keeps its settings, so the bone
stays enabled for the actors of that priority until the game is restarted;
`configArmorOverrideMap` is cleared and behaves as the comment says.

`BoneChest`: the first actor with a breast bone has no chest node, so its rotation
is saved in `origLocalRot` and nothing in `origChestWorldRot`. For an actor with a
chest node the code then compares `origLocalRot_iter` with the end of
`origChestWorldRot` (`Thing.cpp:123`), takes the bone for present and throws at
line 129, where the comment at line 109 promises to save the values "if they
already haven't".

`FormIdLength`: an entry of nine or more digits is meant to be reported as having
"too many characters" (`config.cpp:83, 94`) and passed over. `std::stoul` runs first
(line 65) and throws if the value has more than 32 bits. It also throws for an entry
without digits, such as `:Some.esp`. Nothing on the way to F4SE or to the frame
catches the exception.

Met while modelling, and not the subject of a run:

* The saved rest poses are not cleared when a change of race resets the object
  (`scan.cpp:277-283`, `Thing.cpp:139-187`), so that the bones of the new skeleton are
  moved from the rest pose of the old one.
* Light plugins are never found by name: `LookupLoadedModByName` looks at the full
  ones only, so that the branch for light ones (`config.cpp:78-87`) is dead. If it
  were taken, their forms would get the index of another plugin; that is the
  mutant of `SelectsTheNamed`.
* `RegisterListener` refuses the last plugins once two have failed
  (`RefusedAfterFailures`), and the plugin does not look at its result, so that it is
  loaded and never does anything. After one failure messages between plugins may
  reach others than those who asked (`RoutedUnlessFailed` needs that none failed).
* A plugin that asks for everyone's messages twice may get into its own list, for a
  skipped list is not counted (`PluginManager.cpp:898`), where the comment at line
  883 says it does not.
* A bone whose position became NaN never recovers, also when it is bound again:
  every comparison with NaN is false (`Thing.cpp:253-258, 416`).
* `ClearBoneToggles` frees maps that a worker may be searching.
* `linearX/Y/Z`, the supine term and `gravityCorrection` come after the last clamp
  (`Thing.cpp:528-557`), so that a bone may go beyond `maxOffset`; `OffsetBounded` has
  the bound that holds. A bone whose cog offset is edited, by more than `DIFF_LIMIT` less
  its lag, snaps back though nothing moved (`Thing.cpp:57, 389`), which is why
  `NoSpuriousReset` leaves room for it.
* `DetourXS::Create` keeps the length that a failed attempt measured
  (`detourxs.cpp:42`). If another plugin detours the function before the second
  `GameDataReady`, its jump is cut to the length of the game's first instructions. This is
  the one exception in `FrameOnce`.
* `LoadConfig` clears the armors of overrides and not their actors
  (`config.cpp:117-121, 400`): an actor taken out of the file stays selected until the
  game is restarted (the last sentence of `SelectsTheNamed`).
* An outfit that changes while it is read may leave a configuration of no outfit in
  `cachedConfigs`, which is served until the next reload, and for good when the rate is 0.

## The proofs

`ActorConfig_proofs` is about `LoadConfig`, keys and compositions, `ConfigReload_proofs`,
`FrameLoop_proofs` and `FrameState_proofs` about these two specifications, and
`BonePose_proofs`, `ThingMotion_proofs`, `Startup_proofs` and `FormIds_proofs` about the
modules they are named after, for any actors, files, garments, names and priorities that
satisfy the assumptions stated with the constants: names and priorities are
numbers and the priorities finitely many (they are 32-bit numbers in the code), one
(armor, model) pair covers the same slots on everybody, files list known flags, names
among `Names` and priorities that exist, and map each bone of an attach section to
settings by name, and actors are of one sex or the other, as `GetSex` has it. Two
theorems have a hypothesis of their own: `FramesEnd` is about finitely many actors,
`AlikeSavingSucceeds` about skeletons that all have a chest node or all lack one.

* `KeyFixesConfig`: if used slots cover the slots of every override (`Covers`),
  equal keys give equal configurations. The key fixes the garments seen in the
  used slots (`KeyFixesEquipped`), hence what every armor filter sees, hence the set
  of priorities that apply, hence the configuration.
* `ComposeDecides`, and from it `LowestPriorityAlwaysDecides`: the composition is a
  recursive function on sets of priorities (`Walk` in the proof), and that there is
  one on the finite sets, so that it obeys its own equation, is `WalkEnds`. It and
  which entry wins (`StepDecides`) go by the size of the set, in the form that a set of
  numbers which holds 0, and n + 1 with n, holds all numbers (`AllNumbers`). That the base
  configuration has no empty settings is `BaseInv`, over the loads.
* `UsedSlotsAlwaysCover`, `KeyAlwaysDeterminesConfig`, `PrioritiesAlwaysCover`,
  `NamesStay`: what the loads of a session keep. `Covers` needs no history: both
  sides are cleared together and filled together (`LoadConfigCovers`).
  `PrioritiesCover` does: the map of actors is not cleared, so the invariant also
  has to know that no name ever leaves `priorities`.
* `ReloadAlwaysIdempotent`, `StartupAlwaysOneLoad` and `ClearedPartAlwaysFresh` need
  `LoadedInv`: the tables are the load of the present file over proper tables, so that
  loading it again (`LoadTwice`) loads it over itself. The two tables differ at most
  in the settings `detectArmor` leaves in the actors' map under the priority it takes,
  which is an armor priority and so is never looked up there (`SameTablesSameEffect`).
  The walks over the priorities are compared without computing either: both are one
  function of tables that agree wherever a walk looks (`ComposedAlike`).
* `TypeCorrect`, then `EntriesAlwaysTracked` from `Structure`, which adds that
  workers run for entries and in the loops only, and that there are no entries
  between frames. `FiltersAlwaysHonoured` needs `FiltersInv`: the filters may be
  broken only inside a reload that has noticed a change of flags.
  `CountAlwaysBounded` and `BoundAlwaysHasOwnKey` rest on the same two.
* `CacheAlwaysFromPresentTables` and `CacheAlwaysCoherent` (the second for
  `Quiet`). A step leaves cache and tables alone, is a reload, or stores what is
  composed under a worker's key (`CacheSteps`). That the outfits a worker reads from are
  the one outfit its actor wears is `ShownSteady`, and that the key is still the actor's
  when it is used is `KeysCurrent`; both hold only while the game waits. That
  no other actor or outfit with this key is thereby misled is `KeyFixesConfig`.
* `SettingsAlwaysCurrent` (for `Quiet`) needs `ShowsInv`. A bound object that had the
  last reload is `Dressed`: its key is that of some outfit and its bones show what the
  tables compose for it, not necessarily the present outfit, for it may be another
  one until the update loop. It also has the bones of its body, except in
  the frame of a reload that found another body there and added that one's (`BodyKept`):
  the binding loop of the same frame resets it.
* `SettingsAlwaysFromPresentTables` is what remains of that when the game does not
  wait: an object that had the last reload shows what the present tables compose
  from *some* priorities it can have been found to meet (`Tailored`), slot by slot and
  priority by priority, for the cache has nothing else to give. With
  `ComposeDecides` it becomes `BonesAlwaysDecided`, from the file to the bones.
* The safety part of `Settles`, whose liveness is only model-checked: one reload brings
  the tables to what the file on disk says (`ReloadBringsUpToDate`, from `LoadTwice`);
  one frame binds whom it finds, unless it has to unbind him first
  (`FrameAlwaysBinds`); a frame with a reload leaves everybody in it right
  (`SettingsAlwaysCurrent`); the next reload is due within the rate
  (`CountAlwaysBounded`); and frames end (`FramesEnd`): the phases that are left, and
  the steps left to the workers of the present one, make a count (`StepsLeft`) that
  every step lowers.
* `FrameImplementsRegistry` and `StateAlwaysRetained`: every step admits, drops
  all, or rebinds one actor (`LifeSteps`); the inductive part is `Binding`, that
  a worker about to bind works on an unbound object.

* `PoseTypeCorrect`, `SavedNeverMoved`, `MovedFromRest` and `SavedForGood` rest on
  `SavedInv`: the two maps agree on an actor and bone except between the two
  writes; a bone without an entry carries no offset; and what a worker did not
  find at the start is still missing, because only it writes its actor's entry.
  The type invariant needs it too: `Move` reads the race of a saved pose.
  `AlikeSavingSucceeds` says what `BoneChest` needs to fail: while all skeletons have a
  chest, an entry in the map of rotations has one in that of the chests (`ChestFirst`),
  whoever wrote it; while none has, that map is never looked up.

* `ThingMotion_proofs`: `OffsetsBounded` follows the displacement from the last clamp
  (a negative limit bounds by its size: `ClampBounds`) through the factors, the turns,
  which keep the largest coordinate, and the terms that are added. `NeverResetSpuriously`
  needs that a sound object is, from the rest it last saw, no further than `LagCap` and a
  cog offset: at first by the node it was made on, then by the first clamp. The target
  of a later frame has another cog offset at most, which is the second `CogCap`.
  `TogglesAlwaysHonoured` needs no more than that `held` is dropped with the toggle.
  `SubstepsAlwaysFit`: the substep loop is a recursive function on the time that is left;
  it is defined because the time gets less (`CountingEnds`), and each turn adds one to
  how many ticks fit (`AllFit`).
* `Startup_proofs`: what every step does to the lists, calls and counters is one
  lemma (`Steps`). `ManagerInv` adds to the shape that every call is at a place of
  its list. `EveryMessageAlwaysOnce` needs
  `MessagesInv`: list 0 has no plugin twice (`ListInv`), and in a dispatch of F4SE's
  the plugins before the place that was reached have one message more than those
  behind (`Counted`). `FlatDispatchAlwaysSafe`: a registration changes the list of a
  dispatch only from within it. `NeverSkipped`: the loop of the second phase leaves no
  place behind it with this plugin unregistered (`PassedInv`). `RefusedOnlyAfterFailures`
  counts: a handle more than one beyond the plugins left has two failed ones at or
  below it (`TwoLeftOut`). `RoutedUnlessOneFailed`: as long as none failed, places are
  handles and each list holds those that asked for it (`RoutedInv`). `FrameAlwaysOnce`:
  the detours have one of five forms (`HookInv`), in each of which the length, where a
  detour uses it, is that of the function it took or the excepted one; in each the
  call is followed to its end. `AlwaysUpdatedWithData` composes these: a detour means
  that this plugin listens, it listens since the first message, and so has had the
  fourth (`DataInv`).
* `FormIds_proofs`: `AlwaysSelectsTheNamed` reduces to one entry and one form
  (`EntrySelects`), by the kind of plugin and the length of the entry; that an index
  below 254 is that of one plugin only is the assumption on load orders. What was
  selected is what the entries that count give, for either kind of section.

Only model-checked: `Settles`, liveness under fairness, which TLAPS does not handle. The
three violations are TLC's. The library's induction theorems take an operator as a
parameter, which the installed provers cannot instantiate; the inductions above
go by sets instead: of the numbers for which a fact holds, well-foundedness would
give a least one outside.

## Not modelled

* Parsing: `INIReader.h` (vendored), numbers and lists. A file is what it parses to.
  Slots are taken to be of the 32 there are: others are read out of bounds.
* The forces: `MoveBone` takes any displacement. The rotation of the node
  (`Thing.cpp:591-620`), and the ratio in `CalculateGravitySupine`: the supine term is
  there in full or not at all.
* `log.cpp`; the `Dump` functions; benchmark timers; debug printers.
* `hook.cpp` and most of `hookD3D.cpp`, which are commented out; the bytes of jumps
  in DetourXS; of the length that is cut the model has whose it is.
* The rest of F4SE, about nine tenths of the repository's lines: `GameRTTI`, `Game*.h`,
  `Ni*.h` and the Havok and BSScript headers declare the layout of the game's objects and the
  addresses of its functions, `xbyak` assembles machine code, `PapyrusNativeFunctionDef`
  generates bindings, `Serialization`, Scaleform, `Translation` and the task queue
  serve other plugins and are not called by this one. They have no behaviour in
  the program but what the plugin reads and calls, and that is the environment of
  the models (`Game`, `MoveActor`, `LoadNodes`, the load orders).
* `common` and the vendored hash map.
* Exceptions other than those of `BoneChest` and `FormIdLength`, exhaustion of
  memory, and the game's list of references changing under the scan.

## Plan

1. Done: `ConfigStore`, `ActorConfig`, `ConfigReload`, `FrameLoop`, `ActorRegistry`,
   `BonePose`, `ThingMotion`, `PluginManager`, `FrameHook`, `Startup`, `FormIds`, their
   runs and the proofs above.
2. Proofs still worth having: that saved rest poses are those of the present skeleton
   as long as no actor changes its race, which is the part of the race-change gap
   above that holds; that an object is reset in the frame after a change of body.
3. Compose `BonePose` and `ThingMotion` with the life cycle of `ActorRegistry`, so that
   `Bind`, `Reset` and `DropAll` are that module's steps.
4. F4SE's task queue and serialization, should the plugin come to use them.
