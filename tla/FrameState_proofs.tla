------------------------- MODULE FrameState_proofs -------------------------
(***************************************************************************)
(* What outlives a frame, for any actors and interleaving: the cache of    *)
(* configurations holds what the present tables compose, the tracked       *)
(* actors go through the life cycle of ActorRegistry, their bones show the *)
(* configurations of their outfits, which are those the files decide on,   *)
(* and one frame with one reload brings all of it up to date and ends.     *)
(***************************************************************************)
EXTENDS FrameLoop_proofs

-----------------------------------------------------------------------------
(* The cache *)

\* The tables are ones whose keys determine configurations (KeyFixesConfig).
TablesInv == ProperTables(g) /\ Covers(g)

LEMMA TablesInit == Init => TablesInv
<1> SUFFICES ASSUME Init PROVE TablesInv
  OBVIOUS
<1> DEFINE early == LoadConfig(InitialGlobals, disk, EarlyForms)
<1>1. ProperIni(disk)
  BY InisAssumption DEF Init
<1>2. ProperTables(early) /\ Covers(early)
  BY <1>1, InitialTables, LoadConfigProper, LoadConfigCovers DEF ProperTables
<1>3. g = LoadConfig(early, disk, Forms)
  BY DEF Init, Startup
<1> HIDE DEF early
<1>4. QED
  BY <1>1, <1>2, <1>3, LoadConfigProper, LoadConfigCovers DEF TablesInv, ProperTables

LEMMA TablesNext == TypeOK /\ TablesInv /\ [Next]_vars => TablesInv'
<1> SUFFICES ASSUME TypeOK, TablesInv, [Next]_vars PROVE TablesInv'
  OBVIOUS
<1>1. CASE ReloadConfig
  <2>1. ProperIni(disk)
    BY InisAssumption DEF TypeOK
  <2>2. ProperTables(LoadConfig(g, disk, Forms)) /\ Covers(LoadConfig(g, disk, Forms))
    BY <2>1, LoadConfigProper, LoadConfigCovers DEF TablesInv, ProperTables
  <2>3. g' = LoadConfig(g, disk, Forms)
    BY <1>1 DEF ReloadConfig
  <2>4. QED
    BY <2>2, <2>3 DEF TablesInv
<1>2. CASE UNCHANGED g
  BY <1>2 DEF TablesInv
<1>3. QED
  BY <1>1, <1>2 DEF Next, Frame, ChangeCell, ScanCell, SkipReload, ReadKey, ReloadActor, EndReload,
     CheckBody, Bind, EndBind, SkipUnbound, Update, EndFrame, Game, Plugin, vars, tables

-----------------------------------------------------------------------------
(* Storing a configuration *)

\* Every step leaves tables and cache alone, is the reload, or stores what the
\* tables compose for a worker's actor under that worker's key.
Stores(a) ==
    /\ pc[a] = "keyed"
    /\ \E config \in Composed(a) : cache' = CacheAfter(cache, key[a], config)
    /\ g' = g

LEMMA CacheSteps ==
    ASSUME [Next]_vars
    PROVE  UNCHANGED tables \/ ReloadConfig \/ \E a \in Actors : Stores(a)
<1>1. ASSUME NEW a \in Actors, ReloadActor(a) \/ Bind(a) PROVE Stores(a)
  BY <1>1 DEF ReloadActor, Bind, Stores
<1>2. ASSUME NEW a \in Actors, Update(a) PROVE Stores(a) \/ UNCHANGED tables
  BY <1>2 DEF Update, Stores, tables
<1>3. QED
  BY <1>1, <1>2 DEF Next, Frame, ChangeCell, ScanCell, SkipReload, ReadKey, EndReload,
     CheckBody, EndBind, SkipUnbound, EndFrame, Game, Plugin, vars

\* After a store every key has what it had, or is the worker's key with what
\* was composed.
LEMMA StoredEntries ==
    ASSUME NEW a \in Actors, Stores(a), NEW k \in DOMAIN cache'
    PROVE  \/ k \in DOMAIN cache /\ cache'[k] = cache[k]
           \/ /\ k = key[a] /\ k \notin DOMAIN cache
              /\ \E ps \in PrioritiesRead(g, a, shown[a]) : cache'[k] = ComposeConfig(g, ps)
<1>1. CASE key[a] \in DOMAIN cache
  BY <1>1 DEF Stores, CacheAfter
<1>2. CASE key[a] \notin DOMAIN cache
  <2>1. PICK config \in Composed(a) : cache' = Over(cache, [x \in {key[a]} |-> config])
    BY <1>2 DEF Stores, CacheAfter
  <2>2. \E ps \in PrioritiesRead(g, a, shown[a]) : config = ComposeConfig(g, ps)
    BY <1>2 DEF Composed, BuildConfigForActor
  <2>3. CASE k \in DOMAIN cache /\ k # key[a]
    BY <2>1, <2>3 DEF Over
  <2>4. CASE k = key[a]
    BY <1>2, <2>1, <2>2, <2>4 DEF Over
  <2>5. k \in DOMAIN cache \/ k = key[a]
    BY <2>1 DEF Over
  <2>6. QED
    BY <1>2, <2>3, <2>4, <2>5
<1>3. QED
  BY <1>1, <1>2

\* An entry of the cache stays as it is until a reload clears it: of two workers
\* that miss one key at once the second leaves the first one's entry, and a
\* configuration composed for other clothes than the key's is served until then
\* (ActorUtils.cpp:270-275, 403).
THEOREM CacheWrittenOnce ==
    Spec => [][ReloadConfig \/ \A k \in DOMAIN cache : k \in DOMAIN cache' /\ cache'[k] = cache[k]]_vars
<1>1. ASSUME [Next]_vars
      PROVE  ReloadConfig \/ \A k \in DOMAIN cache : k \in DOMAIN cache' /\ cache'[k] = cache[k]
  <2>1. ASSUME NEW a \in Actors, Stores(a), NEW k \in DOMAIN cache
        PROVE  k \in DOMAIN cache' /\ cache'[k] = cache[k]
    BY <2>1 DEF Stores, CacheAfter, Over
  <2>2. QED
    BY <1>1, <2>1, CacheSteps DEF tables
<1>2. QED
  BY <1>1, PTL DEF Spec

-----------------------------------------------------------------------------
(* The cache is from the present tables *)

LEMMA PresentNext ==
    TypeOK /\ BoundHasOwnKey /\ CacheFromPresentTables /\ [Next]_vars => CacheFromPresentTables'
<1> SUFFICES ASSUME TypeOK, BoundHasOwnKey, CacheFromPresentTables, [Next]_vars
             PROVE  CacheFromPresentTables'
  OBVIOUS
<1>1. CASE UNCHANGED tables
  BY <1>1 DEF CacheFromPresentTables, tables
<1>2. CASE ReloadConfig
  BY <1>2 DEF ReloadConfig, CacheFromPresentTables
<1>3. ASSUME NEW a \in Actors, Stores(a) PROVE CacheFromPresentTables'
  <2> SUFFICES ASSUME NEW k \in DOMAIN cache'
               PROVE  \E ps \in PrioritiesRead(g, k[1], Outfits) : cache'[k] = ComposeConfig(g, ps)
    BY <1>3 DEF CacheFromPresentTables, Stores
  <2>1. key[a][1] = a
    BY <1>3 DEF Stores, BoundHasOwnKey
  <2>2. PrioritiesRead(g, a, shown[a]) \subseteq PrioritiesRead(g, a, Outfits)
    BY MoreRead DEF TypeOK
  <2>3. QED
    BY <1>3, <2>1, <2>2, StoredEntries DEF CacheFromPresentTables
<1>4. QED
  BY <1>1, <1>2, <1>3, CacheSteps

\* No cached configuration outlives a reload, and each is composed from the
\* present tables of priorities that the key's own actor can have been found to
\* meet, even if the game changes its outfit between the readings of two slots
\* (config.cpp:121, ActorUtils.cpp:280-345).
THEOREM CacheAlwaysFromPresentTables == Spec => []CacheFromPresentTables
<1>1. Init => CacheFromPresentTables
  BY DEF Init, CacheFromPresentTables
<1>2. QED
  BY <1>1, PresentNext, KeysInit, KeysNext, StructureAlways, PTL DEF Spec

-----------------------------------------------------------------------------
(* The cache serves what would be composed *)

\* Workers read one outfit, the one their actor wears: nothing is torn.
ShownSteady == \A a \in Actors : shown[a] = {SeenOutfit(a)}

\* A worker's key is still the key of what its actor wears.
KeysCurrent == \A a \in Actors : pc[a] = "keyed" => key[a] = BuildActorKey(g, a, SeenOutfit(a))

CacheInv == ShownSteady /\ KeysCurrent /\ CacheCoherent

LEMMA SteadyNext ==
    Quiet /\ TypeOK /\ Structure /\ ShownSteady /\ [Next]_vars => ShownSteady'
<1> SUFFICES ASSUME Quiet, TypeOK, Structure, ShownSteady, [Next]_vars PROVE ShownSteady'
  OBVIOUS
<1>0. shown \in [Actors -> SUBSET Outfits]
  BY DEF TypeOK
<1>a. ASSUME UNCHANGED world, NEW b \in Actors PROVE SeenOutfit(b)' = SeenOutfit(b)
  BY <1>a DEF SeenOutfit, IsActorValid, world
<1>1. ASSUME UNCHANGED world,
             \/ shown' = [a \in Actors |-> {SeenOutfit(a)}]
             \/ \E a \in Actors : shown' = [shown EXCEPT ![a] = {SeenOutfit(a)}]
             \/ shown' = shown
      PROVE  ShownSteady'
  BY <1>0, <1>1, <1>a DEF ShownSteady
<1>2. CASE Game
  <2>1. \A a \in Actors : a \notin entries
    BY <1>2, GameKeepsPlugin DEF Structure
  <2>2. \A a \in Actors : ~Reading(a)
    BY <2>1 DEF Reading
  <2>3. shown' = [a \in Actors |-> (IF Reading(a) THEN shown[a] ELSE {}) \cup {SeenOutfit(a)'}]
    BY <1>2 DEF Game
  <2> QED
    BY <2>2, <2>3 DEF ShownSteady
<1>3. CASE UNCHANGED vars
  BY <1>1, <1>3 DEF vars
<1>4. QED
  BY <1>1, <1>2, <1>3 DEF Next, Frame, ChangeCell, ScanCell, ReloadConfig, SkipReload, ReadKey,
     ReloadActor, EndReload, CheckBody, Bind, EndBind, SkipUnbound, Update, EndFrame, GotoPhase, StepDone

LEMMA KeysCurrentNext ==
    Quiet /\ TypeOK /\ Structure /\ ShownSteady /\ KeysCurrent /\ [Next]_vars => KeysCurrent'
<1> SUFFICES ASSUME Quiet, TypeOK, Structure, ShownSteady, KeysCurrent, [Next]_vars
             PROVE  KeysCurrent'
  OBVIOUS
<1> USE DEF KeysCurrent, world, tables, AtStart, GotoPhase, StepDone
<1>0. pc \in [Actors -> {"start", "keyed", "done"}] /\ DOMAIN key = Actors
  BY DEF TypeOK
<1>a. ASSUME UNCHANGED world, NEW b \in Actors PROVE SeenOutfit(b)' = SeenOutfit(b)
  BY <1>a DEF SeenOutfit, IsActorValid
<1>1. CASE ChangeCell
  BY <1>1 DEF ChangeCell
<1>2. CASE ScanCell
  BY <1>2 DEF ScanCell
<1>3. CASE ReloadConfig
  BY <1>3 DEF ReloadConfig
<1>4. CASE SkipReload
  BY <1>4 DEF SkipReload
<1>5. CASE EndReload
  BY <1>5 DEF EndReload
<1>6. CASE EndBind
  BY <1>6 DEF EndBind
<1>7. CASE EndFrame
  BY <1>7 DEF EndFrame
<1>8. ASSUME NEW a \in Actors, ReadKey(a) PROVE KeysCurrent'
  <2>1. KeysRead(g, a, shown[a]) = {BuildActorKey(g, a, SeenOutfit(a))}
    BY SteadyKey DEF ShownSteady
  <2>2. /\ UNCHANGED <<world, g>> /\ pc' = [pc EXCEPT ![a] = "keyed"]
        /\ key' = [key EXCEPT ![a] = BuildActorKey(g, a, SeenOutfit(a))]
    BY <1>8, <2>1 DEF ReadKey
  <2>3. QED
    BY <1>0, <2>2, <1>a
<1>9. ASSUME NEW a \in Actors, ReloadActor(a) \/ CheckBody(a) \/ Bind(a) \/ SkipUnbound(a)
                                 \/ Update(a)
      PROVE  KeysCurrent'
  <2>1. UNCHANGED <<world, g, key>> /\ pc' = [pc EXCEPT ![a] = "done"]
    BY <1>9 DEF ReloadActor, CheckBody, Bind, SkipUnbound, Update
  <2>2. QED
    BY <1>0, <2>1, <1>a
<1>10. CASE Game
  <2>1. \A b \in Actors : pc[b] = "start"
    BY <1>0, <1>10, GameKeepsPlugin DEF Structure
  <2>2. pc' = pc
    BY <1>10 DEF Game, Plugin, frame
  <2>3. QED
    BY <2>1, <2>2
<1>11. CASE UNCHANGED vars
  BY <1>11, <1>a DEF vars, frame
<1>12. QED
  BY <1>1, <1>2, <1>3, <1>4, <1>5, <1>6, <1>7, <1>8, <1>9, <1>10, <1>11 DEF Next, Frame

LEMMA CoherentNext ==
    TypeOK /\ TablesInv /\ CacheInv /\ [Next]_vars => CacheCoherent'
<1> SUFFICES ASSUME TypeOK, TablesInv, CacheInv, [Next]_vars PROVE CacheCoherent'
  OBVIOUS
<1>1. CASE UNCHANGED tables
  BY <1>1 DEF CacheInv, CacheCoherent, tables
<1>2. CASE ReloadConfig
  BY <1>2 DEF ReloadConfig, CacheCoherent
<1>3. ASSUME NEW a \in Actors, Stores(a) PROVE CacheCoherent'
  <2> SUFFICES ASSUME NEW b \in Actors, NEW o \in Outfits,
                      BuildActorKey(g, b, o) \in DOMAIN cache'
               PROVE  cache'[BuildActorKey(g, b, o)] = BuildConfig(g, b, o)
    BY <1>3 DEF CacheCoherent, Stores
  <2> DEFINE k == BuildActorKey(g, b, o)
  <2>1. CASE k \in DOMAIN cache /\ cache'[k] = cache[k]
    BY <2>1 DEF CacheInv, CacheCoherent
  <2>2. CASE k = key[a] /\ \E ps \in PrioritiesRead(g, a, shown[a]) : cache'[k] = ComposeConfig(g, ps)
    <3>0. cache'[k] = BuildConfig(g, a, SeenOutfit(a))
      BY <2>2, SteadyPriorities DEF CacheInv, ShownSteady, BuildConfig
    <3>1. k = BuildActorKey(g, a, SeenOutfit(a))
      BY <1>3, <2>2 DEF CacheInv, KeysCurrent, Stores
    <3>2. a = b
      BY <3>1, KeyOwner
    <3>3. SeenOutfit(a) \in Outfits
      BY SeenOutfitType
    <3>4. g.priorities \subseteq Priorities /\ Covers(g)
      BY DEF TablesInv, ProperTables
    <3>5. BuildConfig(g, b, o) = BuildConfig(g, b, SeenOutfit(a))
      BY <3>1, <3>2, <3>3, <3>4, KeyFixesConfig
    <3>6. QED
      BY <3>0, <3>2, <3>5
  <2>3. QED
    BY <1>3, <2>1, <2>2, StoredEntries
<1>4. QED
  BY <1>1, <1>2, <1>3, CacheSteps

\* What is known of the tables and the cache, and what more when the game waits.
StoreInv == TablesInv /\ (Quiet => CacheInv)

LEMMA StoreAlways == Spec => [](TypeOK /\ Structure /\ StoreInv)
<1>1. Init => StoreInv
  <2>1. Init => CacheInv
    BY DEF Init, CacheInv, ShownSteady, KeysCurrent, CacheCoherent, AtStart, SeenOutfit
  <2>2. QED
    BY <2>1, TablesInit DEF StoreInv
<1>2. TypeOK /\ Structure /\ StoreInv /\ [Next]_vars => StoreInv'
  <2> SUFFICES ASSUME TypeOK, Structure, StoreInv, [Next]_vars PROVE StoreInv'
    OBVIOUS
  <2>1. TablesInv'
    BY TablesNext DEF StoreInv
  <2>2. ASSUME Quiet PROVE CacheInv'
    BY <2>2, SteadyNext, KeysCurrentNext, CoherentNext DEF CacheInv, StoreInv
  <2>3. QED
    BY <2>1, <2>2 DEF StoreInv
<1>3. QED
  BY <1>1, <1>2, StructureAlways, PTL DEF Spec

\* A hit in cachedConfigs gives what a miss would compose, for every actor and
\* outfit, provided the game does not change outfits between the first reading
\* for a key and the last for its configuration (ActorUtils.cpp:230-275).
THEOREM CacheAlwaysCoherent == Spec => [](Quiet => CacheCoherent)
<1>1. StoreInv => (Quiet => CacheCoherent)
  BY DEF StoreInv, CacheInv
<1>2. QED
  BY <1>1, StoreAlways, PTL

-----------------------------------------------------------------------------
(* The tracked actors *)

\* A worker of the binding loop that has read a key works on an unbound object.
Binding == \A a \in Actors : phase = "bind" /\ pc[a] = "keyed" => ~sim[a].bound

LEMMA BindingNext == TypeOK /\ Structure /\ Binding /\ [Next]_vars => Binding'
<1> SUFFICES ASSUME TypeOK, Structure, Binding, [Next]_vars PROVE Binding'
  OBVIOUS
<1> USE DEF Binding, world, tables, AtStart, GotoPhase, StepDone
<1>0. pc \in [Actors -> {"start", "keyed", "done"}] /\ DOMAIN sim = Actors
  BY DEF TypeOK, AreSims
<1>1. CASE ChangeCell
  BY <1>1 DEF ChangeCell
<1>2. CASE ScanCell
  BY <1>2 DEF ScanCell
<1>3. CASE ReloadConfig
  BY <1>3 DEF ReloadConfig
<1>4. CASE SkipReload
  BY <1>4 DEF SkipReload
<1>5. CASE EndReload
  BY <1>5 DEF EndReload
<1>6. CASE EndBind
  BY <1>6 DEF EndBind
<1>7. CASE EndFrame
  BY <1>7 DEF EndFrame
<1>8. ASSUME NEW a \in Actors, ReadKey(a) PROVE Binding'
  BY <1>0, <1>8 DEF ReadKey, NeedsKey
<1>9. ASSUME NEW a \in Actors, ReloadActor(a) PROVE Binding'
  BY <1>9 DEF ReloadActor
<1>10. ASSUME NEW a \in Actors, CheckBody(a) PROVE Binding'
  BY <1>0, <1>10 DEF CheckBody, Reset
<1>11. ASSUME NEW a \in Actors, Bind(a) PROVE Binding'
  BY <1>0, <1>11 DEF Bind
<1>12. ASSUME NEW a \in Actors, SkipUnbound(a) PROVE Binding'
  BY <1>0, <1>12 DEF SkipUnbound
<1>13. ASSUME NEW a \in Actors, Update(a) PROVE Binding'
  BY <1>13 DEF Update
<1>14. CASE Game
  BY <1>14 DEF Game, Plugin, frame
<1>15. CASE UNCHANGED vars
  BY <1>15 DEF vars, frame
<1>16. QED
  BY <1>1, <1>2, <1>3, <1>4, <1>5, <1>6, <1>7, <1>8, <1>9, <1>10, <1>11, <1>12, <1>13,
     <1>14, <1>15 DEF Next, Frame

-----------------------------------------------------------------------------
(* What a step does to the tracked actors and their bindings *)

\* Only three steps change who is tracked.
Admits == UNCHANGED sim /\ actors \subseteq actors'
Drops == actors' = {} /\ (curCell' # curCell \/ reloadActors)
Rebinds(a) ==
    /\ a \in actors /\ actors' = actors
    /\ \A b \in Actors \ {a} : sim'[b].bound = sim[b].bound
    /\ \/ sim'[a].bound = sim[a].bound
       \/ ~sim[a].bound /\ sim'[a].bound
       \/ sim[a].bound /\ ~sim'[a].bound /\ SeenBody(a) # sim[a].body

LEMMA LifeSteps ==
    ASSUME TypeOK, TypeOK', Structure, Binding, [Next]_vars
    PROVE  Admits \/ Drops \/ \E a \in Actors : Rebinds(a)
<1>0. DOMAIN sim = Actors
  BY DEF TypeOK, AreSims
<1>1. CASE ChangeCell
  BY <1>1 DEF ChangeCell, Drops
<1>2. CASE ScanCell
  BY <1>2 DEF ScanCell, Admits
<1>3. CASE EndReload
  BY <1>3 DEF EndReload, Drops, Admits
<1>4. ASSUME NEW a \in Actors, ReloadActor(a) \/ Update(a) PROVE Admits \/ Rebinds(a)
  <2>1. pc[a] = "keyed" /\ actors' = actors
    BY <1>4 DEF ReloadActor, Update
  <2>2. a \in actors
    BY <2>1 DEF Structure
  <2>3. \/ UNCHANGED sim
        \/ \E bones, config : sim' = [sim EXCEPT ![a] = Reconfigured(a, bones, config)]
    <3>1. CASE ReloadActor(a)
      BY <3>1 DEF ReloadActor
    <3>2. CASE Update(a)
      BY <3>2 DEF Update
    <3>3. QED
      BY <1>4, <3>1, <3>2
  <2>4. QED
    BY <1>0, <2>1, <2>2, <2>3 DEF Admits, Rebinds, Reconfigured
<1>5. ASSUME NEW a \in Actors, CheckBody(a) PROVE Rebinds(a)
  <2>1. a \in actors /\ actors' = actors /\ sim[a].bound
    BY <1>5 DEF CheckBody
  <2>2. CASE SeenBody(a) # sim[a].body
    BY <1>0, <1>5, <2>1, <2>2 DEF CheckBody, Rebinds, Reset
  <2>3. CASE SeenBody(a) = sim[a].body
    BY <1>5, <2>1, <2>3 DEF CheckBody, Rebinds
  <2>4. QED
    BY <2>2, <2>3
<1>6. ASSUME NEW a \in Actors, Bind(a) PROVE Rebinds(a)
  <2>1. a \in actors /\ actors' = actors /\ ~sim[a].bound
    BY <1>6 DEF Bind, Structure, Binding
  <2>2. PICK config :
            sim' = [sim EXCEPT ![a] = IF HasRootNode(a) THEN Bound(a, config) ELSE Rekeyed(a)]
    BY <1>6 DEF Bind
  <2>3. CASE HasRootNode(a)
    BY <1>0, <2>1, <2>2, <2>3 DEF Rebinds, Bound
  <2>4. CASE ~HasRootNode(a)
    BY <1>0, <2>1, <2>2, <2>4 DEF Rebinds, Rekeyed
  <2>5. QED
    BY <2>3, <2>4
<1>7. CASE UNCHANGED <<sim, actors>>
  BY <1>7 DEF Admits
<1>8. QED
  BY <1>1, <1>2, <1>3, <1>4, <1>5, <1>6, <1>7 DEF Next, Frame, ReloadConfig, SkipReload, ReadKey,
     EndBind, SkipUnbound, EndFrame, Game, Plugin, vars

-----------------------------------------------------------------------------
(* Refinement *)

\* An object that is not tracked is not bound: the actors admitted in one scan
\* start unbound.
LEMMA LifeNext ==
    ASSUME TypeOK, TypeOK', Structure, Binding, BoundHasOwnKey, [Next]_vars
    PROVE  [Registry!Next]_Life
<1>1. CASE Admits
  <2> DEFINE S == (actors' \ actors) \cap Actors
  <2>1. \A a \in Actors : a \notin actors => ~sim[a].bound
    BY DEF BoundHasOwnKey
  <2>2. Life' = [a \in Actors |-> IF a \in S THEN "tracked" ELSE Life[a]]
    BY <1>1, <2>1 DEF Admits, Life
  <2>3. S \in SUBSET {a \in Actors : Life[a] = "untracked"}
    BY DEF Life
  <2>4. QED
    BY <2>2, <2>3 DEF Registry!Next, Registry!Admit
<1>2. CASE Drops
  <2>1. Life' = [a \in Actors |-> "untracked"]
    BY <1>2 DEF Drops, Life
  <2>2. QED
    BY <2>1 DEF Registry!Next, Registry!DropAll
<1>3. ASSUME NEW a \in Actors, Rebinds(a) PROVE [Registry!Next]_Life
  <2>1. CASE sim'[a].bound = sim[a].bound
    BY <1>3, <2>1 DEF Rebinds, Life
  <2>2. CASE ~sim[a].bound /\ sim'[a].bound
    <3>1. Life[a] = "tracked" /\ Life' = [Life EXCEPT ![a] = "bound"]
      BY <1>3, <2>2 DEF Rebinds, Life
    <3>2. QED
      BY <3>1 DEF Registry!Next, Registry!Bind
  <2>3. CASE sim[a].bound /\ ~sim'[a].bound
    <3>1. Life[a] = "bound" /\ Life' = [Life EXCEPT ![a] = "tracked"]
      BY <1>3, <2>3 DEF Rebinds, Life
    <3>2. QED
      BY <3>1 DEF Registry!Next, Registry!Reset
  <2>4. QED
    BY <1>3, <2>1, <2>2, <2>3 DEF Rebinds
<1>4. QED
  BY <1>1, <1>2, <1>3, LifeSteps

LEMMA BindingAlways == Spec => [](TypeOK /\ Structure /\ Binding /\ BoundHasOwnKey)
<1>1. Init => Binding
  BY DEF Init, Binding, AtStart
<1>2. QED
  BY <1>1, BindingNext, KeysInit, KeysNext, StructureAlways, PTL DEF Spec

\* The map of tracked actors keeps ActorRegistry's promise: nobody is bound who
\* was not tracked before, and tracking ends for all together.
THEOREM FrameImplementsRegistry == Spec => ImplementsRegistry
<1>1. Init => Registry!Init
  BY DEF Init, Registry!Init, Life
<1>2. ASSUME TypeOK, TypeOK', Structure, Binding, BoundHasOwnKey, [Next]_vars
      PROVE  [Registry!Next]_Life
  BY <1>2, LifeNext
<1>3. QED
  BY <1>1, <1>2, BindingAlways, PTL DEF Spec, ImplementsRegistry, Registry!Spec

-----------------------------------------------------------------------------
(* State is retained *)

\* An actor is dropped only with all the others, by a change of cell or flags,
\* and unbound only when it is seen with another body (scan.cpp:157-158, 279).
THEOREM StateAlwaysRetained == Spec => StateRetained
<1> DEFINE A == /\ actors \subseteq actors'
                      \/ (actors' = {} /\ (curCell' # curCell \/ reloadActors))
                /\ \A a \in actors \cap actors' :
                      sim[a].bound /\ ~sim'[a].bound => SeenBody(a) # sim[a].body
<1>1. ASSUME TypeOK, TypeOK', Structure, Binding, [Next]_vars PROVE A
  <2>1. actors \subseteq Actors
    BY <1>1 DEF TypeOK
  <2>2. CASE Admits
    BY <2>2 DEF Admits
  <2>3. CASE Drops
    BY <2>3 DEF Drops
  <2>4. ASSUME NEW a \in Actors, Rebinds(a) PROVE A
    BY <2>1, <2>4 DEF Rebinds
  <2>5. QED
    BY <1>1, <2>2, <2>3, <2>4, LifeSteps
<1>2. StateRetained <=> [][A]_vars
  BY DEF StateRetained
<1> HIDE DEF A
<1>3. QED
  BY <1>1, <1>2, BindingAlways, PTL DEF Spec

-----------------------------------------------------------------------------
(* The settings are from the present tables *)

\* The object is bound and has had the last reload: in the reload loop these
\* are the ones done.
Reloaded(a) == sim[a].bound /\ IF phase = "reload" THEN pc[a] = "done" ELSE a \notin missed

\* The object's bones have what the tables compose of priorities its actor can
\* have been found to meet.
Tailored(a) ==
    \E ps \in PrioritiesRead(g, a, Outfits) : \A b \in DOMAIN sim[a].things :
        LET config == ComposeConfig(g, ps)
        IN  sim[a].things[b] = IF b \in DOMAIN config THEN config[b] ELSE Off

SettingsFromPresentTables == \A a \in Actors : Reloaded(a) => Tailored(a)

\* What a worker composes, or finds in the cache, is composed so, also when the
\* actor changed its clothes meanwhile.
LEMMA ComposedForSome ==
    ASSUME TypeOK, BoundHasOwnKey, CacheFromPresentTables, NEW a \in Actors, pc[a] = "keyed",
           NEW config \in Composed(a)
    PROVE  \E ps \in PrioritiesRead(g, a, Outfits) : config = ComposeConfig(g, ps)
<1>1. key[a][1] = a
  BY DEF BoundHasOwnKey
<1>2. CASE key[a] \in DOMAIN cache
  BY <1>1, <1>2 DEF CacheFromPresentTables, Composed, BuildConfigForActor
<1>3. CASE key[a] \notin DOMAIN cache
  <2>1. PrioritiesRead(g, a, shown[a]) \subseteq PrioritiesRead(g, a, Outfits)
    BY MoreRead DEF TypeOK
  <2>2. QED
    BY <1>3, <2>1 DEF Composed, BuildConfigForActor
<1>4. QED
  BY <1>2, <1>3

LEMMA TailoredNow ==
    ASSUME TypeOK, BoundHasOwnKey, CacheFromPresentTables, NEW a \in Actors, pc[a] = "keyed",
           NEW bones, NEW config \in Composed(a),
           g' = g, sim'[a].things = UpdateConfigs(bones, config)
    PROVE  Tailored(a)'
<1>1. PICK ps \in PrioritiesRead(g, a, Outfits) : config = ComposeConfig(g, ps)
  BY ComposedForSome
<1>2. sim'[a].things = [b \in bones |-> IF b \in DOMAIN config THEN config[b] ELSE Off]
  BY DEF UpdateConfigs
<1>3. config = ComposeConfig(g', ps) /\ ps \in PrioritiesRead(g', a, Outfits)
  BY <1>1
<1>4. \A b \in DOMAIN sim'[a].things :
        sim'[a].things[b] = IF b \in DOMAIN config THEN config[b] ELSE Off
  BY <1>2
<1>5. QED
  BY <1>3, <1>4 DEF Tailored

LEMMA TailoredNext ==
    ASSUME TypeOK, Structure, Binding, BoundHasOwnKey, CacheFromPresentTables,
           SettingsFromPresentTables, [Next]_vars
    PROVE  SettingsFromPresentTables'
<1> SUFFICES ASSUME NEW b \in Actors, Reloaded(b)' PROVE Tailored(b)'
  BY DEF SettingsFromPresentTables
<1> USE DEF world, tables, AtStart, GotoPhase, StepDone
<1>0. /\ pc \in [Actors -> {"start", "keyed", "done"}] /\ DOMAIN sim = Actors
      /\ sim[b].bound => b \in actors
      /\ sim'[b].bound
  BY DEF TypeOK, AreSims, BoundHasOwnKey, Reloaded
<1>1. ASSUME Reloaded(b), UNCHANGED g, sim'[b] = sim[b] PROVE Tailored(b)'
  BY <1>1 DEF SettingsFromPresentTables, Tailored
<1>2. CASE ChangeCell
  BY <1>0, <1>2 DEF ChangeCell, NoSims, NewSim
<1>3. CASE ReloadConfig
  BY <1>3 DEF ReloadConfig, Reloaded
<1>4. CASE EndReload
  <2>1. ~reloadActors
    BY <1>0, <1>4 DEF EndReload, NoSims, NewSim
  <2>2. UNCHANGED <<g, sim>> /\ phase = "reload" /\ phase' = "bind" /\ missed' = actors \ entries
        /\ \A a \in entries : pc[a] = "done"
    BY <1>4, <2>1 DEF EndReload, AllDone
  <2>3. b \in entries
    BY <1>0, <2>2 DEF Reloaded
  <2>4. QED
    BY <1>1, <2>2, <2>3 DEF Reloaded
<1>5. CASE ScanCell \/ SkipReload \/ EndBind \/ EndFrame
  <2>1. UNCHANGED <<g, sim, missed>> /\ phase # "reload" /\ phase' # "reload"
    BY <1>5 DEF ScanCell, SkipReload, EndBind, EndFrame
  <2>2. QED
    BY <1>1, <2>1 DEF Reloaded
<1>6. ASSUME NEW a \in Actors, ReadKey(a) PROVE Tailored(b)'
  <2>1. UNCHANGED <<g, sim, missed, phase>> /\ pc' = [pc EXCEPT ![a] = "keyed"]
    BY <1>6 DEF ReadKey
  <2>2. QED
    BY <1>0, <1>1, <2>1 DEF Reloaded
<1>7. ASSUME NEW a \in Actors, a # b,
             ReloadActor(a) \/ CheckBody(a) \/ Bind(a) \/ SkipUnbound(a) \/ Update(a)
      PROVE  Tailored(b)'
  <2>1. /\ UNCHANGED <<g, phase>> /\ pc'[b] = pc[b] /\ sim'[b] = sim[b]
        /\ b \in missed' <=> b \in missed
    BY <1>0, <1>7 DEF ReloadActor, CheckBody, Bind, SkipUnbound, Update
  <2>2. QED
    BY <1>1, <2>1 DEF Reloaded
<1>8. CASE ReloadActor(b)
  <2>1. PICK config \in Composed(b) :
            sim' = [sim EXCEPT ![b] = Reconfigured(b, DOMAIN sim[b].things \cup BonesOf(b), config)]
    BY <1>8 DEF ReloadActor
  <2>2. /\ g' = g /\ pc[b] = "keyed"
        /\ sim'[b].things = UpdateConfigs(DOMAIN sim[b].things \cup BonesOf(b), config)
    BY <1>0, <1>8, <2>1 DEF ReloadActor, Reconfigured
  <2>3. QED
    BY <2>2, TailoredNow
<1>9. CASE CheckBody(b)
  <2>1. sim'[b] = sim[b]
    BY <1>0, <1>9 DEF CheckBody, Reset
  <2>2. UNCHANGED <<g, phase, missed>> /\ phase = "bind"
    BY <1>9 DEF CheckBody
  <2>3. QED
    BY <1>1, <2>1, <2>2 DEF Reloaded
<1>10. CASE Bind(b)
  <2>1. phase = "bind" /\ pc[b] = "keyed" /\ ~sim[b].bound /\ g' = g
    BY <1>10 DEF Bind, Binding
  <2>2. PICK config \in Composed(b) :
            sim' = [sim EXCEPT ![b] = IF HasRootNode(b) THEN Bound(b, config) ELSE Rekeyed(b)]
    BY <1>10 DEF Bind
  <2>3. sim'[b] = Bound(b, config)
    BY <1>0, <2>1, <2>2 DEF Rekeyed
  <2>4. QED
    BY <2>1, <2>3, TailoredNow DEF Bound
<1>11. CASE SkipUnbound(b)
  BY <1>0, <1>11 DEF SkipUnbound
<1>12. CASE Update(b)
  <2>1. g' = g /\ pc[b] = "keyed" /\ UNCHANGED <<phase, missed>> /\ phase = "update"
    BY <1>12 DEF Update
  <2>2. CASE key[b] = sim[b].key
    BY <1>1, <1>12, <2>1, <2>2 DEF Update, Reloaded
  <2>3. CASE key[b] # sim[b].key
    <3>1. PICK config \in Composed(b) :
            sim' = [sim EXCEPT ![b] = Reconfigured(b, DOMAIN sim[b].things, config)]
      BY <1>12, <2>3 DEF Update
    <3>2. sim'[b].things = UpdateConfigs(DOMAIN sim[b].things, config)
      BY <1>0, <3>1 DEF Reconfigured
    <3>3. QED
      BY <2>1, <3>2, TailoredNow
  <2>4. QED
    BY <2>2, <2>3
<1>13. CASE Game \/ UNCHANGED vars
  BY <1>1, <1>13 DEF Game, Plugin, vars, frame, Reloaded
<1>14. QED
  BY <1>2, <1>3, <1>4, <1>5, <1>6, <1>7, <1>8, <1>9, <1>10, <1>11, <1>12, <1>13 DEF Next, Frame

\* Every bound actor but the ones the last reload missed shows settings composed
\* from the present tables, of priorities it can have been found to meet: no
\* setting of an older file lives on in a bone, through the cache or otherwise,
\* even if the game changes the world between any two steps, the readings of two
\* slots included (scan.cpp:231-322).
THEOREM SettingsAlwaysFromPresentTables == Spec => []SettingsFromPresentTables
<1>1. Init => CacheFromPresentTables /\ SettingsFromPresentTables
  BY DEF Init, CacheFromPresentTables, SettingsFromPresentTables, Reloaded, NoSims, NewSim
<1>2. QED
  BY <1>1, PresentNext, TailoredNext, BindingAlways, PTL DEF Spec

-----------------------------------------------------------------------------
(* Who decides on the settings *)

LEMMA PlainNext == TypeOK /\ TablesInv /\ PlainBase(g) /\ [Next]_vars => PlainBase(g)'
<1> SUFFICES ASSUME TypeOK, TablesInv, PlainBase(g), [Next]_vars PROVE PlainBase(g')
  OBVIOUS
<1>1. CASE g' = g
  BY <1>1
<1>2. CASE g' = LoadConfig(g, disk, Forms)
  BY <1>2, LoadedBasePlain, InisAssumption DEF TablesInv, TypeOK
<1>3. QED
  BY <1>1, <1>2 DEF Next, Frame, ChangeCell, ScanCell, ReloadConfig, SkipReload, ReadKey, ReloadActor,
     EndReload, CheckBody, Bind, EndBind, SkipUnbound, Update, EndFrame, Game, Plugin, vars, tables

LEMMA PlainInit == Init => PlainBase(g)
<1> SUFFICES ASSUME Init PROVE PlainBase(g)
  OBVIOUS
<1> DEFINE early == LoadConfig(InitialGlobals, disk, EarlyForms)
<1>1. ProperIni(disk) /\ ProperTables(early)
  BY InisAssumption, InitialTables, LoadConfigProper DEF Init
<1>2. g = LoadConfig(early, disk, Forms)
  BY DEF Init, Startup
<1> HIDE DEF early
<1>3. QED
  BY <1>1, <1>2, LoadedBasePlain

\* What the lowest of the priorities that lists the bone says, or [Attach] when
\* none does; a bone without settings is off.
Verdict(ps, b) ==
    LET decided == Decided(g, ps, b)
    IN  IF decided = NoSettings THEN Off ELSE decided

\* From the files through the tables, the cache and the workers to the bones:
\* for a bound actor that had the last reload there are priorities, all found to
\* apply and the others not, slot by slot, of which the lowest that lists a bone
\* decides on it, for every bone, any files and any interleaving
\* (config.cpp:102-567, ActorUtils.cpp:267-405, SimObj.cpp:160-185).
THEOREM BonesAlwaysDecided ==
    Spec => [](\A a \in Actors : Reloaded(a) =>
                \E ps \in PrioritiesRead(g, a, Outfits) : \A b \in DOMAIN sim[a].things :
                    sim[a].things[b] = Verdict(ps, b))
<1>1. ASSUME TablesInv, PlainBase(g), NEW a \in Actors, NEW ps \in PrioritiesRead(g, a, Outfits), NEW b
      PROVE  LET config == ComposeConfig(g, ps)
             IN  (IF b \in DOMAIN config THEN config[b] ELSE Off) = Verdict(ps, b)
  <2>1. ps \in SUBSET Priorities
    BY <1>1 DEF TablesInv, ProperTables, PrioritiesRead
  <2>2. ps \in SUBSET Nat /\ IsFiniteSet(ps)
    BY <2>1, PrioritiesAssumption, FS_Subset
  <2>3. DecidedConfig(g, ps, ComposeConfig(g, ps))
    BY <1>1, <2>2, ComposeDecides
  <2>4. QED
    BY <2>3 DEF DecidedConfig, Verdict
<1>2. TablesInv /\ PlainBase(g) /\ SettingsFromPresentTables =>
        \A a \in Actors : Reloaded(a) =>
            \E ps \in PrioritiesRead(g, a, Outfits) : \A b \in DOMAIN sim[a].things :
                sim[a].things[b] = Verdict(ps, b)
  <2> SUFFICES ASSUME TablesInv, PlainBase(g), SettingsFromPresentTables,
                      NEW a \in Actors, Reloaded(a)
               PROVE  \E ps \in PrioritiesRead(g, a, Outfits) : \A b \in DOMAIN sim[a].things :
                          sim[a].things[b] = Verdict(ps, b)
    OBVIOUS
  <2>1. PICK ps \in PrioritiesRead(g, a, Outfits) : \A b \in DOMAIN sim[a].things :
            LET config == ComposeConfig(g, ps)
            IN  sim[a].things[b] = IF b \in DOMAIN config THEN config[b] ELSE Off
    BY DEF SettingsFromPresentTables, Tailored
  <2>2. QED
    BY <1>1, <2>1
<1>3. QED
  BY <1>2, PlainInit, PlainNext, StoreAlways, SettingsAlwaysFromPresentTables, PTL DEF Spec, StoreInv

-----------------------------------------------------------------------------
(* The tables are up to date *)

\* Loading the file on disk would change no actor's key or settings, no flag and
\* no bone name.
UpToDate ==
    LET h == LoadConfig(g, disk, Forms)
    IN  /\ h.flags = g.flags /\ h.boneNames = g.boneNames
        /\ \A a \in Actors, o \in Outfits :
              /\ BuildActorKey(h, a, o) = BuildActorKey(g, a, o)
              /\ BuildConfig(h, a, o) = BuildConfig(g, a, o)

LEMMA LoadedUpToDate ==
    ASSUME NEW h, ProperTables(h), NEW ini \in Inis,
           g = LoadConfig(h, ini, Forms), disk = ini
    PROVE  UpToDate
<1> DEFINE once == LoadConfig(h, ini, Forms)
           twice == LoadConfig(once, ini, Forms)
<1>1. ProperIni(ini)
  BY InisAssumption
<1>2. SameTables(twice, once) /\ once.priorities \subseteq Priorities
  BY <1>1, LoadTwice, LoadConfigProper DEF ProperTables
<1>3. g = once /\ LoadConfig(g, disk, Forms) = twice
  OBVIOUS
<1> HIDE DEF once, twice
<1>4. QED
  BY <1>2, <1>3, SameTablesSameConfig DEF UpToDate, SameTables

\* What a hot reload has to bring about, it brings about at once, however many
\* files were loaded before: the tables start up to date, are so after every
\* reload, and stay so until the file changes (scan.cpp:231-236, main.cpp:33-43).
THEOREM ReloadBringsUpToDate ==
    Spec => UpToDate /\ [][/\ ReloadConfig => UpToDate'
                          /\ UpToDate /\ UNCHANGED disk => UpToDate']_vars
<1>1. Init => UpToDate
  <2> SUFFICES ASSUME Init PROVE UpToDate
    OBVIOUS
  <2> DEFINE early == LoadConfig(InitialGlobals, disk, EarlyForms)
  <2>1. disk \in Inis /\ ProperIni(disk)
    BY InisAssumption DEF Init
  <2>2. ProperTables(early) /\ g = LoadConfig(early, disk, Forms)
    BY <2>1, InitialTables, LoadConfigProper DEF Init, Startup
  <2> HIDE DEF early
  <2>3. QED
    BY <2>1, <2>2, LoadedUpToDate
<1>2. ASSUME TypeOK, TablesInv, ReloadConfig PROVE UpToDate'
  <2> DEFINE once == LoadConfig(g, disk, Forms)
             twice == LoadConfig(once, disk, Forms)
  <2>1. ProperIni(disk)
    BY <1>2, InisAssumption DEF TypeOK
  <2>2. SameTables(twice, once) /\ once.priorities \subseteq Priorities
    BY <1>2, <2>1, LoadTwice, LoadConfigProper DEF TablesInv, ProperTables
  <2>3. g' = once /\ disk' = disk /\ LoadConfig(g', disk', Forms) = twice
    BY <1>2 DEF ReloadConfig, world
  <2> HIDE DEF once, twice
  <2>4. QED
    BY <2>2, <2>3, SameTablesSameConfig DEF UpToDate, SameTables
<1>3. ASSUME UpToDate, UNCHANGED disk, UNCHANGED g PROVE UpToDate'
  BY <1>3 DEF UpToDate
<1>4. ASSUME [Next]_vars PROVE UNCHANGED g \/ ReloadConfig
  BY <1>4 DEF Next, Frame, ChangeCell, ScanCell, SkipReload, ReadKey, ReloadActor,
     EndReload, CheckBody, Bind, EndBind, SkipUnbound, Update, EndFrame, Game, Plugin, vars, tables
<1>5. TypeOK /\ TablesInv /\ [Next]_vars
        => [/\ ReloadConfig => UpToDate'
            /\ UpToDate /\ UNCHANGED disk => UpToDate']_vars
  BY <1>2, <1>3, <1>4
<1>6. QED
  BY <1>1, <1>5, StoreAlways, PTL DEF Spec, StoreInv

-----------------------------------------------------------------------------
(* The settings shown *)

\* The bones AddBonesToThings finds for a body that is there.
BonesFor(x) ==
    {b \in g.boneNames : /\ "useWhitelist" \in g.flags => <<b, x.race, x.sex>> \in g.whitelist
                         /\ b \in Skeleton[x.race]}

\* The object has the key of an outfit and shows what is composed for it.
Dressed(a) ==
    \E o \in Outfits :
        LET config == BuildConfig(g, a, o)
        IN  /\ sim[a].key = BuildActorKey(g, a, o)
            /\ \A b \in DOMAIN sim[a].things :
                  sim[a].things[b] = IF b \in DOMAIN config THEN config[b] ELSE Off

HasBones(a) == BonesFor(sim[a].body) \subseteq DOMAIN sim[a].things

\* The reload adds the bones of the present body, also to an object that the
\* binding loop is going to reset because its body is another.
BodyKept(a) == a \in entries /\ phase \in {"reload", "bind"} => sim[a].body = SeenBody(a)

ShowsOf(a) ==
    /\ a \in entries => IsActorValid(a)
    /\ Reloaded(a) => Dressed(a) /\ (BodyKept(a) => HasBones(a))
    /\ sim[a].bound /\ phase = "bind" /\ pc[a] = "done" => sim[a].body = SeenBody(a)
    /\ sim[a].bound /\ phase = "update" /\ a \in entries => sim[a].body = SeenBody(a)
    /\ sim[a].bound /\ phase = "update" /\ pc[a] = "done" =>
          sim[a].key = BuildActorKey(g, a, SeenOutfit(a))

ShowsInv == \A a \in Actors : ShowsOf(a)

\* For a valid actor the plugin sees what it is, and finds the bones for it.
LEMMA SeenIfValid ==
    ASSUME TypeOK, NEW a \in Actors, IsActorValid(a)
    PROVE  /\ SeenBody(a) = body[a]
           /\ SeenOutfit(a) = worn[a]
           /\ BonesOf(a) = BonesFor(SeenBody(a))
           /\ HasRootNode(a)
<1>1. body[a] \in Bodies /\ status[a] = "here"
  BY DEF TypeOK, IsActorValid
<1>2. SeenBody(a) = body[a]
  BY <1>1, FrameAssumption DEF SeenBody, IsActorMale, GetActorRaceEID, Bodies, IsActorValid
<1>3. BonesOf(a) = BonesFor(SeenBody(a))
  BY <1>1, <1>2 DEF BonesOf, BonesFor, HasRootNode, IsBoneInWhitelist, IsActorValid
<1>4. QED
  BY <1>1, <1>2, <1>3 DEF SeenOutfit, HasRootNode

\* What a worker composes, from the cache or not, is what the tables compose for
\* its outfit.
LEMMA ComposedIsBuilt ==
    ASSUME TypeOK, CacheInv, NEW a \in Actors, pc[a] = "keyed"
    PROVE  Composed(a) = {BuildConfig(g, a, SeenOutfit(a))}
<1>1. PrioritiesRead(g, a, shown[a]) = {ApplyingPriorities(g, a, SeenOutfit(a))}
  BY SteadyPriorities DEF CacheInv, ShownSteady
<1>2. QED
  BY <1>1, SeenOutfitType
     DEF CacheInv, KeysCurrent, CacheCoherent, Composed, BuildConfigForActor, BuildConfig

\* A step that leaves the world, the tables and an actor's object and membership
\* alone keeps what is said of the actor, if it does not move on.
LEMMA ShowsKept ==
    ASSUME NEW a \in Actors, ShowsOf(a), UNCHANGED <<world, g, phase>>,
           sim'[a] = sim[a], a \in entries' <=> a \in entries, a \in missed' <=> a \in missed,
           pc'[a] = "done" <=> pc[a] = "done"
    PROVE  ShowsOf(a)'
BY DEF ShowsOf, Reloaded, BodyKept, Dressed, HasBones, BonesFor, SeenBody, SeenOutfit, IsActorMale,
       GetActorRaceEID, IsActorValid, world

\* An object that is not bound has nothing to show.
LEMMA ShowsUnbound ==
    ASSUME NEW a \in Actors, ~sim'[a].bound, a \in entries' => IsActorValid(a)'
    PROVE  ShowsOf(a)'
BY DEF ShowsOf, Reloaded

\* The settings composed for the actor's own outfit dress the object.
LEMMA DressedNow ==
    ASSUME TypeOK, CacheInv, NEW a \in Actors, pc[a] = "keyed", NEW bones,
           NEW built \in Composed(a), UNCHANGED <<world, g>>,
           sim'[a].key = key[a], sim'[a].things = UpdateConfigs(bones, built)
    PROVE  /\ Dressed(a)'
           /\ sim'[a].key = BuildActorKey(g, a, SeenOutfit(a))
           /\ DOMAIN sim'[a].things = bones
<1> DEFINE o == SeenOutfit(a)
           config == BuildConfig(g, a, o)
<1>1. sim'[a].key = BuildActorKey(g, a, o)
  BY DEF CacheInv, KeysCurrent
<1>2. built = config
  BY ComposedIsBuilt
<1>3. o \in Outfits /\ g' = g
  BY SeenOutfitType
<1> HIDE DEF o
<1>4. /\ DOMAIN sim'[a].things = bones
      /\ \A b \in bones : sim'[a].things[b] = IF b \in DOMAIN config THEN config[b] ELSE Off
  BY <1>2 DEF UpdateConfigs
<1>5. Dressed(a)'
  BY <1>1, <1>3, <1>4 DEF Dressed
<1>6. QED
  BY <1>1, <1>4, <1>5 DEF o

LEMMA ShowsNext ==
    ASSUME Quiet, TypeOK, Structure, Binding, CacheInv, ShowsInv, BoundHasOwnKey, [Next]_vars
    PROVE  ShowsInv'
<1> SUFFICES ASSUME NEW b \in Actors PROVE ShowsOf(b)'
  BY DEF ShowsInv
<1> USE DEF world, tables, AtStart, GotoPhase, StepDone
<1>0. /\ ShowsOf(b)
      /\ pc \in [Actors -> {"start", "keyed", "done"}] /\ DOMAIN sim = Actors
      /\ entries \subseteq actors
      /\ phase = "idle" => entries = {}
      /\ pc[b] # "start" => b \in entries /\ phase \in {"reload", "bind", "update"}
      /\ sim[b].bound => b \in actors
  BY DEF ShowsInv, TypeOK, AreSims, Structure, BoundHasOwnKey
<1>w. ASSUME UNCHANGED <<world, g>>
      PROVE  /\ IsActorValid(b)' = IsActorValid(b)
             /\ SeenBody(b)' = SeenBody(b)
             /\ SeenOutfit(b)' = SeenOutfit(b)
             /\ sim'[b] = sim[b] => Dressed(b)' = Dressed(b) /\ HasBones(b)' = HasBones(b)
  BY <1>w DEF IsActorValid, SeenBody, SeenOutfit, IsActorMale, GetActorRaceEID, Dressed, HasBones, BonesFor
<1>1. CASE ChangeCell
  BY <1>0, <1>1, ShowsUnbound DEF ChangeCell, NoSims, NewSim
<1>2. CASE ScanCell
  <2>1. b \in entries' => IsActorValid(b)
    BY <1>2 DEF ScanCell, IsActorTrackable
  <2>2. UNCHANGED <<world, g, sim, missed>> /\ phase' = "scanned" /\ phase = "idle"
    BY <1>2 DEF ScanCell
  <2>3. QED
    BY <1>0, <1>w, <2>1, <2>2 DEF ShowsOf, Reloaded, BodyKept
<1>3. CASE ReloadConfig
  <2>1. UNCHANGED <<world, sim, entries>> /\ phase' = "reload" /\ pc'[b] = "start"
    BY <1>3 DEF ReloadConfig
  <2>2. QED
    BY <1>0, <2>1 DEF ShowsOf, Reloaded, IsActorValid
<1>4. CASE SkipReload
  <2>1. /\ UNCHANGED <<world, g, sim, entries, missed>>
        /\ phase = "scanned" /\ phase' = "bind" /\ pc'[b] = "start"
    BY <1>4 DEF SkipReload
  <2>2. QED
    BY <1>0, <1>w, <2>1 DEF ShowsOf, Reloaded, BodyKept
<1>5. CASE EndReload
  <2>1. UNCHANGED <<world, g>> /\ phase = "reload" /\ phase' = "bind" /\ pc'[b] = "start"
    BY <1>5 DEF EndReload
  <2>2. CASE reloadActors
    BY <1>5, <2>2, ShowsUnbound DEF EndReload, NoSims, NewSim
  <2>3. CASE ~reloadActors
    <3>1. UNCHANGED <<entries, sim>> /\ missed' = actors \ entries
      BY <1>5, <2>3 DEF EndReload
    <3>2. b \in entries => pc[b] = "done"
      BY <1>5 DEF EndReload, AllDone
    <3>3. QED
      BY <1>0, <1>w, <2>1, <3>1, <3>2 DEF ShowsOf, Reloaded, BodyKept
  <2>4. QED
    BY <2>2, <2>3
<1>6. CASE EndBind
  <2>1. /\ UNCHANGED <<world, g, sim, entries, missed>>
        /\ phase = "bind" /\ phase' = "update" /\ pc'[b] = "start"
        /\ b \in entries => pc[b] = "done"
    BY <1>6 DEF EndBind, AllDone
  <2>2. QED
    BY <1>0, <1>w, <2>1 DEF ShowsOf, Reloaded, BodyKept
<1>7. CASE EndFrame
  <2>1. /\ UNCHANGED <<world, g, sim, missed>> /\ entries' = {}
        /\ phase = "update" /\ phase' = "idle"
    BY <1>7 DEF EndFrame
  <2>2. QED
    BY <1>0, <1>w, <2>1 DEF ShowsOf, Reloaded, BodyKept
<1>8. ASSUME NEW a \in Actors, ReadKey(a) PROVE ShowsOf(b)'
  BY <1>0, <1>8, ShowsKept DEF ReadKey
<1>9. ASSUME NEW a \in Actors, a # b,
             ReloadActor(a) \/ CheckBody(a) \/ Bind(a) \/ SkipUnbound(a) \/ Update(a)
      PROVE  ShowsOf(b)'
  <2>1. UNCHANGED <<world, g, phase, entries>> /\ pc'[b] = pc[b] /\ sim'[b] = sim[b]
    BY <1>0, <1>9 DEF ReloadActor, CheckBody, Bind, SkipUnbound, Update
  <2>2. b \in missed' <=> b \in missed
    BY <1>9 DEF ReloadActor, CheckBody, Bind, SkipUnbound, Update
  <2>3. QED
    BY <1>0, <2>1, <2>2, ShowsKept
<1>10. CASE ReloadActor(b)
  <2>0. PICK config \in Composed(b) :
            sim' = [sim EXCEPT ![b] = Reconfigured(b, DOMAIN sim[b].things \cup BonesOf(b), config)]
    BY <1>10 DEF ReloadActor
  <2>1. /\ UNCHANGED <<world, g, entries, phase>> /\ phase = "reload" /\ pc[b] = "keyed"
        /\ sim'[b] = Reconfigured(b, DOMAIN sim[b].things \cup BonesOf(b), config)
    BY <1>0, <1>10, <2>0 DEF ReloadActor
  <2>2. /\ sim'[b].body = sim[b].body /\ sim'[b].key = key[b]
        /\ sim'[b].things = UpdateConfigs(DOMAIN sim[b].things \cup BonesOf(b), config)
    BY <2>1 DEF Reconfigured
  <2>3. Dressed(b)' /\ DOMAIN sim'[b].things = DOMAIN sim[b].things \cup BonesOf(b)
    BY <2>1, <2>2, DressedNow
  <2>4. b \in entries /\ IsActorValid(b)
    BY <1>0, <2>1 DEF ShowsOf
  <2>5. BodyKept(b)' => HasBones(b)'
    BY <1>w, <2>1, <2>2, <2>3, <2>4, SeenIfValid DEF BodyKept, HasBones, BonesFor
  <2>6. QED
    BY <1>w, <2>1, <2>3, <2>4, <2>5 DEF ShowsOf
<1>11. CASE CheckBody(b)
  <2>1. /\ UNCHANGED <<world, g, entries, phase, missed>> /\ phase = "bind" /\ pc'[b] = "done"
        /\ b \in entries
    BY <1>0, <1>11 DEF CheckBody
  <2>2. CASE SeenBody(b) # sim[b].body
    <3>1. ~sim'[b].bound
      BY <1>0, <1>11, <2>2 DEF CheckBody, Reset
    <3>2. QED
      BY <1>0, <1>w, <2>1, <3>1, ShowsUnbound DEF ShowsOf
  <2>3. CASE SeenBody(b) = sim[b].body
    <3>1. sim' = sim
      BY <1>11, <2>3 DEF CheckBody
    <3>2. QED
      BY <1>0, <1>w, <2>1, <2>3, <3>1 DEF ShowsOf, Reloaded, BodyKept
  <2>4. QED
    BY <2>2, <2>3
<1>12. CASE Bind(b)
  <2>1. /\ UNCHANGED <<world, g, entries, phase>> /\ phase = "bind" /\ pc[b] = "keyed"
    BY <1>12 DEF Bind
  <2>2. b \in entries /\ IsActorValid(b)
    BY <1>0, <2>1 DEF ShowsOf
  <2>3. PICK config \in Composed(b) : sim'[b] = Bound(b, config)
    BY <1>0, <1>12, <2>2, SeenIfValid DEF Bind
  <2>4. /\ sim'[b].body = SeenBody(b) /\ sim'[b].key = key[b]
        /\ sim'[b].things = UpdateConfigs(BonesOf(b), config)
    BY <2>3 DEF Bound
  <2>5. Dressed(b)' /\ DOMAIN sim'[b].things = BonesOf(b)
    BY <2>1, <2>4, DressedNow
  <2>6. HasBones(b)'
    BY <2>1, <2>2, <2>4, <2>5, SeenIfValid DEF HasBones, BonesFor
  <2>7. QED
    BY <1>w, <2>1, <2>2, <2>4, <2>5, <2>6 DEF ShowsOf
<1>13. CASE SkipUnbound(b)
  <2>1. UNCHANGED <<world, g, entries, sim>> /\ ~sim[b].bound
    BY <1>13 DEF SkipUnbound
  <2>2. QED
    BY <1>0, <1>w, <2>1, ShowsUnbound DEF ShowsOf
<1>14. CASE Update(b)
  <2>1. /\ UNCHANGED <<world, g, entries, phase, missed>> /\ phase = "update" /\ pc[b] = "keyed"
        /\ pc'[b] = "done" /\ b \in entries
    BY <1>0, <1>14 DEF Update
  <2>2. CASE key[b] = sim[b].key
    <3>1. sim' = sim
      BY <1>14, <2>2 DEF Update
    <3>2. sim[b].key = BuildActorKey(g, b, SeenOutfit(b))
      BY <2>1, <2>2 DEF CacheInv, KeysCurrent
    <3>3. QED
      BY <1>0, <1>w, <2>1, <3>1, <3>2 DEF ShowsOf, Reloaded, BodyKept
  <2>3. CASE key[b] # sim[b].key
    <3>1. PICK config \in Composed(b) : sim'[b] = Reconfigured(b, DOMAIN sim[b].things, config)
      BY <1>0, <1>14, <2>3 DEF Update
    <3>2. /\ sim'[b].bound = sim[b].bound /\ sim'[b].body = sim[b].body /\ sim'[b].key = key[b]
          /\ sim'[b].things = UpdateConfigs(DOMAIN sim[b].things, config)
      BY <3>1 DEF Reconfigured
    <3>3. /\ Dressed(b)' /\ DOMAIN sim'[b].things = DOMAIN sim[b].things
          /\ sim'[b].key = BuildActorKey(g, b, SeenOutfit(b))
      BY <2>1, <3>2, DressedNow
    <3>4. HasBones(b)' = HasBones(b)
      BY <2>1, <3>2, <3>3 DEF HasBones, BonesFor
    <3>5. QED
      BY <1>0, <1>w, <2>1, <3>2, <3>3, <3>4 DEF ShowsOf, Reloaded, BodyKept
  <2>4. QED
    BY <2>2, <2>3
<1>15. CASE Game
  <2>1. phase = "idle" /\ UNCHANGED <<g, sim, phase, entries, missed, pc>>
    BY <1>15, GameKeepsPlugin DEF Plugin, frame
  <2>2. Dressed(b)' = Dressed(b) /\ HasBones(b)' = HasBones(b)
    BY <2>1 DEF Dressed, HasBones, BonesFor
  <2>3. QED
    BY <1>0, <2>1, <2>2 DEF ShowsOf, Reloaded, BodyKept
<1>16. CASE UNCHANGED vars
  BY <1>0, <1>16, ShowsKept DEF vars, frame
<1>17. QED
  BY <1>1, <1>2, <1>3, <1>4, <1>5, <1>6, <1>7, <1>8, <1>9, <1>10, <1>11, <1>12, <1>13, <1>14,
     <1>15, <1>16 DEF Next, Frame

\* At the end of a frame every bound actor of it shows the outfit it wears and
\* has the bones of its body, unless it missed the last reload (scan.cpp:231-322),
\* provided the game waits for the frame.
THEOREM SettingsAlwaysCurrent == Spec => [](Quiet => SettingsCurrent)
<1>1. Init => ShowsInv
  BY DEF Init, ShowsInv, ShowsOf, Reloaded, NoSims, NewSim
<1>2. Structure /\ TypeOK /\ StoreInv /\ (Quiet => ShowsInv) => (Quiet => SettingsCurrent)
  <2> SUFFICES ASSUME TypeOK, Structure, StoreInv, Quiet, ShowsInv, phase = "update", AllDone,
                      NEW a \in entries \ missed, sim[a].bound
               PROVE  ShowsOutfit(a)
    BY DEF SettingsCurrent
  <2>1. a \in Actors /\ pc[a] = "done" /\ ShowsOf(a)
    BY DEF AllDone, ShowsInv, TypeOK
  <2>2. /\ IsActorValid(a) /\ Dressed(a) /\ HasBones(a)
        /\ sim[a].body = SeenBody(a)
        /\ sim[a].key = BuildActorKey(g, a, SeenOutfit(a))
    BY <2>1 DEF ShowsOf, Reloaded, BodyKept
  <2>3. /\ sim[a].body = body[a] /\ sim[a].key = BuildActorKey(g, a, worn[a])
        /\ BonesOf(a) \subseteq DOMAIN sim[a].things
        /\ worn[a] \in Outfits
    BY <2>1, <2>2, SeenIfValid DEF HasBones, TypeOK
  <2>4. PICK o \in Outfits :
          /\ sim[a].key = BuildActorKey(g, a, o)
          /\ \A b \in DOMAIN sim[a].things :
                sim[a].things[b] = IF b \in DOMAIN BuildConfig(g, a, o)
                                   THEN BuildConfig(g, a, o)[b] ELSE Off
    BY <2>2 DEF Dressed
  <2>5. BuildConfig(g, a, o) = BuildConfig(g, a, worn[a])
    <3>1. g.priorities \subseteq Priorities /\ Covers(g)
      BY DEF StoreInv, TablesInv, ProperTables
    <3>2. QED
      BY <2>3, <2>4, <3>1, KeyFixesConfig
  <2>6. QED
    BY <2>3, <2>4, <2>5 DEF ShowsOutfit
<1>3. /\ TypeOK /\ Structure /\ Binding /\ BoundHasOwnKey /\ StoreInv
      /\ (Quiet => ShowsInv) /\ [Next]_vars
      => (Quiet => ShowsInv)'
  <2> SUFFICES ASSUME TypeOK, Structure, Binding, BoundHasOwnKey, StoreInv, Quiet => ShowsInv,
                      [Next]_vars, Quiet
               PROVE  ShowsInv'
    OBVIOUS
  <2>1. QED
    BY ShowsNext DEF StoreInv
<1>4. QED
  BY <1>1, <1>2, <1>3, BindingAlways, StoreAlways, PTL DEF Spec
-----------------------------------------------------------------------------
(* Bound in one frame *)

\* The object is bound to the body its actor has, or was bound to another one.
Placed(a) ==
    IF sim[a].bound THEN sim[a].body = SeenBody(a)
    ELSE sim[a].body \notin {NoBody, SeenBody(a)}

PlacedOf(a) ==
    /\ a \in entries => IsActorValid(a)
    /\ sim[a].bound => sim[a].body # NoBody
    /\ phase = "bind" /\ pc[a] = "done" => Placed(a)
    /\ phase = "update" /\ a \in entries => Placed(a)

PlacedInv == \A a \in Actors : PlacedOf(a)

\* What is seen of an actor has a sex.
LEMMA SeenIsABody == ASSUME NEW a PROVE SeenBody(a) # NoBody
BY DEF SeenBody, NoBody

LEMMA PlacedNext ==
    ASSUME Quiet, TypeOK, Structure, PlacedInv, BoundHasOwnKey, [Next]_vars
    PROVE  PlacedInv'
<1> SUFFICES ASSUME NEW b \in Actors PROVE PlacedOf(b)'
  BY DEF PlacedInv
<1> USE DEF world, tables, AtStart, GotoPhase, StepDone
<1>0. /\ PlacedOf(b)
      /\ pc \in [Actors -> {"start", "keyed", "done"}] /\ DOMAIN sim = Actors
      /\ pc[b] # "start" => b \in entries /\ phase \in {"reload", "bind", "update"}
      /\ phase = "idle" => entries = {}
  BY DEF PlacedInv, TypeOK, AreSims, Structure
<1>w. ASSUME UNCHANGED world
      PROVE  IsActorValid(b)' = IsActorValid(b) /\ SeenBody(b)' = SeenBody(b)
  BY <1>w DEF IsActorValid, SeenBody, IsActorMale, GetActorRaceEID
<1>1. CASE ChangeCell
  BY <1>0, <1>1 DEF ChangeCell, PlacedOf, NoSims, NewSim
<1>2. CASE ScanCell
  <2>1. b \in entries' => IsActorValid(b)
    BY <1>2 DEF ScanCell, IsActorTrackable
  <2>2. UNCHANGED <<world, sim>> /\ phase' = "scanned"
    BY <1>2 DEF ScanCell
  <2>3. QED
    BY <1>0, <1>w, <2>1, <2>2 DEF PlacedOf
<1>3. CASE ReloadConfig \/ SkipReload
  <2>1. UNCHANGED <<world, sim, entries>> /\ phase' \in {"reload", "bind"} /\ pc'[b] = "start"
    BY <1>3 DEF ReloadConfig, SkipReload
  <2>2. QED
    BY <1>0, <1>w, <2>1 DEF PlacedOf
<1>4. CASE EndReload
  <2>1. UNCHANGED world /\ phase' = "bind" /\ pc'[b] = "start" /\ entries' \subseteq entries
        /\ (sim' = sim \/ ~sim'[b].bound)
    BY <1>4 DEF EndReload, NoSims, NewSim
  <2>2. b \in entries' => IsActorValid(b)'
    BY <1>0, <1>w, <2>1 DEF PlacedOf
  <2>3. sim'[b].bound => sim'[b].body # NoBody
    BY <1>0, <2>1 DEF PlacedOf
  <2>4. QED
    BY <2>1, <2>2, <2>3 DEF PlacedOf
<1>5. CASE EndBind
  <2>1. UNCHANGED <<world, sim, entries>> /\ phase = "bind" /\ phase' = "update" /\ pc'[b] = "start"
        /\ (b \in entries => pc[b] = "done")
    BY <1>5 DEF EndBind, AllDone
  <2>2. QED
    BY <1>0, <1>w, <2>1 DEF PlacedOf, Placed
<1>6. CASE EndFrame
  <2>1. UNCHANGED <<world, sim>> /\ entries' = {} /\ phase' = "idle"
    BY <1>6 DEF EndFrame
  <2>2. QED
    BY <1>0, <1>w, <2>1 DEF PlacedOf
<1>7. ASSUME UNCHANGED <<world, phase, entries>>,
             sim'[b].bound = sim[b].bound, sim'[b].body = sim[b].body,
             phase = "bind" => (pc'[b] = "done" <=> pc[b] = "done")
      PROVE  PlacedOf(b)'
  BY <1>0, <1>w, <1>7 DEF PlacedOf, Placed
<1>8. ASSUME NEW a \in Actors, ReadKey(a) PROVE PlacedOf(b)'
  BY <1>0, <1>7, <1>8 DEF ReadKey
<1>9. ASSUME NEW a \in Actors, ReloadActor(a) \/ SkipUnbound(a) \/ Update(a) PROVE PlacedOf(b)'
  <2>1. UNCHANGED <<world, phase, entries>> /\ phase \in {"reload", "update"}
    BY <1>9 DEF ReloadActor, SkipUnbound, Update
  <2>2. \/ UNCHANGED sim
        \/ \E bones, config : sim' = [sim EXCEPT ![a] = Reconfigured(a, bones, config)]
    <3>1. CASE ReloadActor(a)
      BY <3>1 DEF ReloadActor
    <3>2. CASE Update(a)
      BY <3>2 DEF Update
    <3>3. CASE SkipUnbound(a)
      BY <3>3 DEF SkipUnbound
    <3>4. QED
      BY <1>9, <3>1, <3>2, <3>3
  <2>3. sim'[b].bound = sim[b].bound /\ sim'[b].body = sim[b].body
    BY <1>0, <2>2 DEF Reconfigured
  <2>4. QED
    BY <1>7, <2>1, <2>3
<1>10. ASSUME NEW a \in Actors, a # b, CheckBody(a) \/ Bind(a) PROVE PlacedOf(b)'
  BY <1>0, <1>7, <1>10 DEF CheckBody, Bind
<1>11. CASE CheckBody(b)
  <2>1. UNCHANGED <<world, phase, entries>> /\ phase = "bind" /\ sim[b].bound
    BY <1>11 DEF CheckBody
  <2>2. CASE SeenBody(b) = sim[b].body
    <3>1. sim' = sim
      BY <1>11, <2>2 DEF CheckBody
    <3>2. QED
      BY <1>0, <1>w, <2>1, <2>2, <3>1 DEF PlacedOf, Placed
  <2>3. CASE SeenBody(b) # sim[b].body
    <3>1. ~sim'[b].bound /\ sim'[b].body = sim[b].body
      BY <1>0, <1>11, <2>3 DEF CheckBody, Reset
    <3>2. QED
      BY <1>0, <1>w, <2>1, <2>3, <3>1 DEF PlacedOf, Placed
  <2>4. QED
    BY <2>2, <2>3
<1>12. CASE Bind(b)
  <2>1. UNCHANGED <<world, phase, entries>> /\ phase = "bind" /\ pc[b] = "keyed"
    BY <1>12 DEF Bind
  <2>2. HasRootNode(b)
    BY <1>0, <2>1, SeenIfValid DEF PlacedOf
  <2>3. sim'[b].bound /\ sim'[b].body = SeenBody(b)
    BY <1>0, <1>12, <2>2 DEF Bind, Bound
  <2>4. QED
    BY <1>0, <1>w, <2>1, <2>3, SeenIsABody DEF PlacedOf, Placed
<1>13. CASE Game
  <2>1. phase = "idle" /\ UNCHANGED <<sim, phase, entries, pc>>
    BY <1>13, GameKeepsPlugin DEF Plugin, frame
  <2>2. QED
    BY <1>0, <2>1 DEF PlacedOf
<1>14. CASE UNCHANGED vars
  BY <1>7, <1>14 DEF vars, frame
<1>15. QED
  BY <1>1, <1>2, <1>3, <1>4, <1>5, <1>6, <1>8, <1>9, <1>10, <1>11, <1>12, <1>13, <1>14
     DEF Next, Frame

\* In the update loop every actor of the frame is bound to the body it has, or
\* has just been reset because it was bound to another: nobody waits for longer
\* than a frame to be bound, provided the game waits for the frame
\* (scan.cpp:257-294).
THEOREM FrameAlwaysBinds == Spec => [](Quiet => FrameBinds)
<1>1. Init => PlacedInv
  BY DEF Init, PlacedInv, PlacedOf, NoSims, NewSim
<1>2. TypeOK /\ (Quiet => PlacedInv) => (Quiet => FrameBinds)
  <2> SUFFICES ASSUME TypeOK, PlacedInv, phase = "update", NEW a \in entries
               PROVE  \/ sim[a].bound /\ sim[a].body = body[a]
                      \/ ~sim[a].bound /\ sim[a].body \notin {NoBody, body[a]}
    BY DEF FrameBinds
  <2>1. a \in Actors /\ PlacedOf(a)
    BY DEF PlacedInv, TypeOK
  <2>2. IsActorValid(a) /\ Placed(a)
    BY <2>1 DEF PlacedOf
  <2>3. SeenBody(a) = body[a]
    BY <2>1, <2>2, SeenIfValid
  <2>4. QED
    BY <2>2, <2>3 DEF Placed
<1>3. TypeOK /\ Structure /\ BoundHasOwnKey /\ (Quiet => PlacedInv) /\ [Next]_vars
        => (Quiet => PlacedInv)'
  <2> SUFFICES ASSUME TypeOK, Structure, BoundHasOwnKey, Quiet => PlacedInv, [Next]_vars, Quiet
               PROVE  PlacedInv'
    OBVIOUS
  <2>1. QED
    BY PlacedNext
<1>4. QED
  BY <1>1, <1>2, <1>3, BindingAlways, PTL DEF Spec

-----------------------------------------------------------------------------
(* A frame comes to its end *)

\* What the frame has still to do: the phases to come, each with a reading and a
\* finishing step of every worker and an end, and the workers' steps of this one.
PhasesLeft ==
    IF phase = "idle" THEN 0
    ELSE IF phase = "update" THEN 1
    ELSE IF phase = "bind" THEN 2
    ELSE IF phase = "reload" THEN 3
    ELSE 4
Unread == {a \in Actors : pc[a] = "start"}
Unfinished == {a \in Actors : pc[a] # "done"}
StepsLeft ==
    PhasesLeft * (2 * Cardinality(Actors) + 1) + Cardinality(Unread) + Cardinality(Unfinished)

\* What the workers have to do is at most two steps each.
LEMMA WorkerSteps ==
    ASSUME IsFiniteSet(Actors)
    PROVE  /\ IsFiniteSet(Unread) /\ IsFiniteSet(Unfinished)
           /\ Cardinality(Actors) \in Nat
           /\ Cardinality(Unread) \in 0..Cardinality(Actors)
           /\ Cardinality(Unfinished) \in 0..Cardinality(Actors)
<1>1. Unread \subseteq Actors /\ Unfinished \subseteq Actors
  BY DEF Unread, Unfinished
<1>2. QED
  BY <1>1, FS_Subset, FS_CardinalityType

\* The count is a number, and bounded.
LEMMA StepsBounded ==
    ASSUME IsFiniteSet(Actors)
    PROVE  StepsLeft \in 0..(10 * Cardinality(Actors) + 4)
<1> DEFINE n == Cardinality(Actors)
           u == Cardinality(Unread)
           f == Cardinality(Unfinished)
<1>1. n \in Nat /\ u \in 0..n /\ f \in 0..n
  BY WorkerSteps
<1>2. PhasesLeft \in 0..4 /\ StepsLeft = PhasesLeft * (2 * n + 1) + u + f
  BY DEF PhasesLeft, StepsLeft
<1> HIDE DEF n, u, f
<1>3. \/ PhasesLeft = 0 \/ PhasesLeft = 1 \/ PhasesLeft = 2 \/ PhasesLeft = 3 \/ PhasesLeft = 4
  BY <1>2
<1>4. StepsLeft \in 0..(10 * n + 4)
  BY <1>1, <1>2, <1>3
<1>5. QED
  BY <1>4 DEF n

\* A worker that reads or finishes leaves less to do.
LEMMA WorkerProgress ==
    ASSUME IsFiniteSet(Actors), TypeOK, NEW a \in Actors, phase' = phase,
           \/ pc[a] = "start" /\ pc' = [pc EXCEPT ![a] = "keyed"]
           \/ pc[a] # "done" /\ pc' = [pc EXCEPT ![a] = "done"]
    PROVE  StepsLeft' < StepsLeft
<1>0. pc \in [Actors -> {"start", "keyed", "done"}]
  BY DEF TypeOK
<1>1. /\ Cardinality(Unread)' \in Nat /\ Cardinality(Unfinished)' \in Nat
      /\ Cardinality(Unread) \in Nat /\ Cardinality(Unfinished) \in Nat
      /\ Cardinality(Actors) \in Nat /\ PhasesLeft' = PhasesLeft /\ PhasesLeft \in Nat
  <2>1. /\ Unread \subseteq Actors /\ Unfinished \subseteq Actors
        /\ Unread' \subseteq Actors /\ Unfinished' \subseteq Actors
    BY DEF Unread, Unfinished
  <2>2. QED
    BY <2>1, FS_Subset, FS_CardinalityType DEF PhasesLeft
<1>2. Cardinality(Unread)' + Cardinality(Unfinished)' < Cardinality(Unread) + Cardinality(Unfinished)
  <2>1. CASE pc[a] = "start" /\ pc' = [pc EXCEPT ![a] = "keyed"]
    <3>1. a \in Unread /\ Unread' = Unread \ {a} /\ Unfinished' = Unfinished
      BY <1>0, <2>1 DEF Unread, Unfinished
    <3>2. Cardinality(Unread') = Cardinality(Unread) - 1
      BY <3>1, WorkerSteps, FS_RemoveElement
    <3>3. QED
      BY <1>1, <3>1, <3>2
  <2>2. CASE pc[a] # "done" /\ pc' = [pc EXCEPT ![a] = "done"]
    <3>1. a \in Unfinished /\ Unfinished' = Unfinished \ {a} /\ Unread' \subseteq Unread
      BY <1>0, <2>2 DEF Unread, Unfinished
    <3>2. Cardinality(Unfinished') = Cardinality(Unfinished) - 1
      BY <3>1, WorkerSteps, FS_RemoveElement
    <3>3. Cardinality(Unread') <= Cardinality(Unread)
      BY <3>1, WorkerSteps, FS_Subset
    <3>4. QED
      BY <1>1, <3>2, <3>3
  <2>3. QED
    BY <2>1, <2>2
<1>3. QED
  BY <1>1, <1>2 DEF StepsLeft

\* The end of a phase leaves fewer phases, whatever their workers have to do.
LEMMA PhaseProgress ==
    ASSUME IsFiniteSet(Actors), PhasesLeft' < PhasesLeft
    PROVE  StepsLeft' < StepsLeft
<1> DEFINE n == Cardinality(Actors)
           todo == Cardinality(Unread) + Cardinality(Unfinished)
           todoAfter == Cardinality(Unread)' + Cardinality(Unfinished)'
           p == PhasesLeft
           q == PhasesLeft'
<1>1. n \in Nat /\ todo \in Nat /\ todoAfter \in 0..(2 * n)
  <2>1. /\ Unread \subseteq Actors /\ Unfinished \subseteq Actors
        /\ Unread' \subseteq Actors /\ Unfinished' \subseteq Actors
    BY DEF Unread, Unfinished
  <2>2. /\ n \in Nat /\ Cardinality(Unread) \in Nat /\ Cardinality(Unfinished) \in Nat
        /\ Cardinality(Unread)' \in 0..n /\ Cardinality(Unfinished)' \in 0..n
    BY <2>1, FS_Subset, FS_CardinalityType
  <2>3. QED
    BY <2>2
<1>2. p \in 0..4 /\ q \in 0..4 /\ q < p
  BY DEF PhasesLeft
<1>3. StepsLeft = p * (2 * n + 1) + todo /\ StepsLeft' = q * (2 * n + 1) + todoAfter
  <2>1. /\ Cardinality(Unread) \in Int /\ Cardinality(Unfinished) \in Int
        /\ Cardinality(Unread)' \in Int /\ Cardinality(Unfinished)' \in Int
        /\ n \in Int /\ p \in Int /\ q \in Int
    BY <1>1, <1>2, WorkerSteps, FS_Subset, FS_CardinalityType DEF Unread, Unfinished
  <2>2. QED
    BY <2>1 DEF StepsLeft
<1> HIDE DEF n, todo, todoAfter, p, q
<1>4. /\ p = 0 \/ p = 1 \/ p = 2 \/ p = 3 \/ p = 4
      /\ q = 0 \/ q = 1 \/ q = 2 \/ q = 3 \/ q = 4
  BY <1>2
<1>5. QED
  BY <1>1, <1>2, <1>3, <1>4

\* A step of the frame once it has begun brings it nearer to its end.
LEMMA FrameProgress ==
    ASSUME IsFiniteSet(Actors), TypeOK, Frame, phase # "idle"
    PROVE  StepsLeft' < StepsLeft
<1> USE DEF GotoPhase, StepDone
<1>1. CASE ReloadConfig \/ SkipReload \/ EndReload \/ EndBind \/ EndFrame
  <2>1. PhasesLeft' < PhasesLeft
    BY <1>1 DEF ReloadConfig, SkipReload, EndReload, EndBind, EndFrame, PhasesLeft
  <2>2. QED
    BY <2>1, PhaseProgress
<1>2. ASSUME NEW a \in Actors,
             ReadKey(a) \/ ReloadActor(a) \/ CheckBody(a) \/ Bind(a) \/ SkipUnbound(a) \/ Update(a)
      PROVE  StepsLeft' < StepsLeft
  <2>1. /\ phase' = phase
        /\ \/ pc[a] = "start" /\ pc' = [pc EXCEPT ![a] = "keyed"]
           \/ pc[a] # "done" /\ pc' = [pc EXCEPT ![a] = "done"]
    BY <1>2 DEF ReadKey, ReloadActor, CheckBody, Bind, SkipUnbound, Update
  <2>2. QED
    BY <2>1, WorkerProgress
<1>3. QED
  BY <1>1, <1>2 DEF Frame, ChangeCell, ScanCell

\* A frame ends: each of its steps leaves less to do, what the game does between
\* them adds nothing, and after the scan there are at most ten steps for each
\* actor and four more.  No worker runs twice, and no phase comes again
\* (scan.cpp:150-330; the two parallel_for loops join).
THEOREM FramesEnd ==
    ASSUME IsFiniteSet(Actors)
    PROVE  Spec => [][/\ StepsLeft \in 0..(10 * Cardinality(Actors) + 4)
                      /\ Frame /\ phase # "idle" => StepsLeft' < StepsLeft
                      /\ Game => StepsLeft' = StepsLeft]_vars
<1>1. ASSUME TypeOK, [Next]_vars
      PROVE  [/\ StepsLeft \in 0..(10 * Cardinality(Actors) + 4)
              /\ Frame /\ phase # "idle" => StepsLeft' < StepsLeft
              /\ Game => StepsLeft' = StepsLeft]_vars
  <2>1. Game => StepsLeft' = StepsLeft
    BY DEF Game, Plugin, frame, StepsLeft, PhasesLeft, Unread, Unfinished
  <2>2. QED
    BY <1>1, <2>1, StepsBounded, FrameProgress
<1>2. QED
  BY <1>1, TypeCorrect, PTL DEF Spec
=============================================================================
