-------------------------- MODULE FrameLoop_proofs --------------------------
(***************************************************************************)
(* Type correctness and the structural invariants of the frame loop, for   *)
(* any actors, outfits, files and moves of the game.                       *)
(***************************************************************************)
EXTENDS FrameLoop, ActorConfig_proofs

-----------------------------------------------------------------------------
(* Facts about what the actions use *)

LEMMA OutfitTypes == {} \in Outfits
BY DEF Outfits

\* What the plugin sees an actor wear is an outfit, also while the actor is not
\* valid.
LEMMA SeenOutfitType ==
    ASSUME TypeOK, NEW a \in Actors PROVE SeenOutfit(a) \in Outfits
BY OutfitTypes DEF SeenOutfit, TypeOK

\* A key belongs to its actor.
LEMMA KeyOwner ==
    ASSUME NEW h, NEW a
    PROVE  /\ \A o : BuildActorKey(h, a, o) # NoKey /\ BuildActorKey(h, a, o)[1] = a
           /\ \A os : \A k \in KeysRead(h, a, os) : k # NoKey /\ k[1] = a
<1>1. ASSUME NEW read PROVE KeyOf(a, read) # NoKey /\ KeyOf(a, read)[1] = a
  BY DEF KeyOf, NoKey
<1>2. QED
  BY <1>1 DEF BuildActorKey, KeysRead

\* The outfits shown while a worker reads are outfits.
LEMMA ShownSeen ==
    ASSUME TypeOK
    PROVE  /\ [a \in Actors |-> {SeenOutfit(a)}] \in [Actors -> SUBSET Outfits]
           /\ \A a \in Actors : [shown EXCEPT ![a] = {SeenOutfit(a)}] \in [Actors -> SUBSET Outfits]
BY SeenOutfitType DEF TypeOK

\* A world step leaves the plugin alone, and the world well formed.
LEMMA GameKeepsPlugin ==
    ASSUME TypeOK, Game
    PROVE  /\ UNCHANGED Plugin
           /\ cell' \in Cells \cup {NoCell} /\ disk' \in Inis
           /\ status' \in [Actors -> {"away", "here", "deleted"}]
           /\ body' \in [Actors -> Bodies]
           /\ worn' \in [Actors -> Outfits]
           /\ Quiet => phase = "idle"
<1>1. ASSUME NEW to \in SUBSET {"away", "here", "deleted"}, MoveActor(to)
      PROVE  /\ cell' = cell /\ body' = body /\ worn' = worn /\ disk' = disk
             /\ status' \in [Actors -> {"away", "here", "deleted"}]
  BY <1>1 DEF MoveActor, TypeOK
<1>a. MoveActor({"here", "away"}) \/ MoveActor({"here", "deleted"})
      => /\ cell' = cell /\ body' = body /\ worn' = worn /\ disk' = disk
         /\ status' \in [Actors -> {"away", "here", "deleted"}]
  BY <1>1
<1>2. CASE ChangeBody
  BY <1>2 DEF Game, ChangeBody, TypeOK
<1>3. CASE ChangeOutfit
  BY <1>3 DEF Game, ChangeOutfit, TypeOK
<1>4. CASE PlayerMoves
  BY <1>4 DEF Game, PlayerMoves, TypeOK
<1>5. CASE EditIni
  BY <1>5 DEF Game, EditIni, TypeOK
<1>6. QED
  BY <1>a, <1>2, <1>3, <1>4, <1>5 DEF Game, TypeOK

\* Each step that writes simulation objects writes the one of the actor it
\* works on, or drops them all.
LEMMA SimsUpdated ==
    ASSUME NEW s, AreSims(s), NEW a \in Actors, NEW r, r.bound \in BOOLEAN
    PROVE  /\ AreSims([s EXCEPT ![a] = r])
           /\ [s EXCEPT ![a] = r][a] = r
           /\ \A b \in Actors \ {a} : [s EXCEPT ![a] = r][b] = s[b]
BY DEF AreSims

LEMMA NoSimsAreSims == AreSims(NoSims)
BY DEF AreSims, NoSims, NewSim

LEMMA SimsWritten ==
    ASSUME AreSims(sim), NEW a \in Actors, NEW bones, NEW config
    PROVE  /\ Rekeyed(a).bound \in BOOLEAN
           /\ Reconfigured(a, bones, config).bound \in BOOLEAN
           /\ Reset(a).bound \in BOOLEAN
           /\ Bound(a, config).bound \in BOOLEAN
BY DEF AreSims, Rekeyed, Reconfigured, Reset, Bound

-----------------------------------------------------------------------------
(* Type correctness *)

LEMMA TypeInit == Init => TypeOK
<1> SUFFICES ASSUME Init PROVE TypeOK
  OBVIOUS
<1>1. g.rate = disk.rate /\ g.flags \subseteq disk.flags
  BY LoadConfigScalars DEF Init, Startup
<1>2. g.rate \in Int /\ g.flags \subseteq Flags
  BY <1>1, InisAssumption DEF Init, ProperIni
<1>3. body \in [Actors -> Bodies]
  BY StartAssumption DEF Init
<1>4. QED
  BY <1>2, <1>3, OutfitTypes, NoSimsAreSims DEF Init, TypeOK, AtStart, Phases

LEMMA TypeNext == TypeOK /\ [Next]_vars => TypeOK'
<1> SUFFICES ASSUME TypeOK, [Next]_vars PROVE TypeOK'
  OBVIOUS
<1> USE DEF TypeOK, world, tables, AtStart, GotoPhase, StepDone, Phases
<1>1. CASE ChangeCell
  BY <1>1, ShownSeen, NoSimsAreSims DEF ChangeCell
<1>2. CASE ScanCell
  BY <1>2, ShownSeen DEF ScanCell
<1>3. CASE ReloadConfig
  <2>1. g'.rate = disk.rate /\ g'.flags \subseteq disk.flags
    BY <1>3, LoadConfigScalars DEF ReloadConfig
  <2>2. g'.rate \in Int /\ g'.flags \subseteq Flags
    BY <2>1, InisAssumption DEF ProperIni
  <2>3. reloadActors' \in BOOLEAN
    BY <1>3 DEF ReloadConfig, ReloadActors
  <2>4. QED
    BY <1>3, <2>2, <2>3, ShownSeen DEF ReloadConfig
<1>4. CASE SkipReload
  BY <1>4, ShownSeen DEF SkipReload, CountUp
<1>5. CASE EndReload
  BY <1>5, ShownSeen, NoSimsAreSims DEF EndReload
<1>6. CASE EndBind
  BY <1>6, ShownSeen DEF EndBind
<1>7. CASE EndFrame
  BY <1>7, ShownSeen DEF EndFrame
<1>8. ASSUME NEW a \in Actors, ReadKey(a) PROVE TypeOK'
  BY <1>8, ShownSeen DEF ReadKey
<1>9. ASSUME NEW a \in Actors, ReloadActor(a) PROVE TypeOK'
  <2>1. AreSims(sim')
    <3>0. PICK config \in Composed(a) :
            sim' = [sim EXCEPT ![a] = Reconfigured(a, DOMAIN sim[a].things \cup BonesOf(a), config)]
      BY <1>9 DEF ReloadActor
    <3> DEFINE r == Reconfigured(a, DOMAIN sim[a].things \cup BonesOf(a), config)
    <3>1. r.bound \in BOOLEAN
      BY SimsWritten
    <3>2. sim' = [sim EXCEPT ![a] = r]
      BY <3>0
    <3> HIDE DEF r
    <3>3. QED
      BY <3>1, <3>2 DEF AreSims
  <2>2. QED
    BY <1>9, <2>1, ShownSeen DEF ReloadActor
<1>10. ASSUME NEW a \in Actors, CheckBody(a) PROVE TypeOK'
  <2>1. AreSims(sim')
    <3> DEFINE r == Reset(a)
    <3>1. r.bound \in BOOLEAN
      BY SimsWritten
    <3>2. sim' = [sim EXCEPT ![a] = r] \/ sim' = sim
      BY <1>10 DEF CheckBody
    <3> HIDE DEF r
    <3>3. QED
      BY <3>1, <3>2 DEF AreSims
  <2>2. shown' \in [Actors -> SUBSET Outfits]
    BY <1>10, ShownSeen DEF CheckBody
  <2>3. QED
    BY <1>10, <2>1, <2>2 DEF CheckBody
<1>11. ASSUME NEW a \in Actors, Bind(a) PROVE TypeOK'
  <2>1. AreSims(sim')
    <3>0. PICK config \in Composed(a) :
            sim' = [sim EXCEPT ![a] = IF HasRootNode(a) THEN Bound(a, config) ELSE Rekeyed(a)]
      BY <1>11 DEF Bind
    <3> DEFINE r == IF HasRootNode(a) THEN Bound(a, config) ELSE Rekeyed(a)
    <3>1. r.bound \in BOOLEAN
      BY SimsWritten
    <3>2. sim' = [sim EXCEPT ![a] = r]
      BY <3>0
    <3> HIDE DEF r
    <3>3. QED
      BY <3>1, <3>2 DEF AreSims
  <2>2. QED
    BY <1>11, <2>1, ShownSeen DEF Bind
<1>12. ASSUME NEW a \in Actors, SkipUnbound(a) PROVE TypeOK'
  BY <1>12, ShownSeen DEF SkipUnbound
<1>13. ASSUME NEW a \in Actors, Update(a) PROVE TypeOK'
  <2>1. AreSims(sim')
    <3>0. PICK config : \/ sim' = [sim EXCEPT ![a] = Reconfigured(a, DOMAIN sim[a].things, config)]
                        \/ sim' = sim
      BY <1>13 DEF Update
    <3> DEFINE r == Reconfigured(a, DOMAIN sim[a].things, config)
    <3>1. r.bound \in BOOLEAN
      BY SimsWritten
    <3>2. sim' = [sim EXCEPT ![a] = r] \/ sim' = sim
      BY <3>0
    <3> HIDE DEF r
    <3>3. QED
      BY <3>1, <3>2 DEF AreSims
  <2>2. QED
    BY <1>13, <2>1, ShownSeen DEF Update
<1>14. CASE Game
  <2>1. status' \in [Actors -> {"away", "here", "deleted"}] /\ worn' \in [Actors -> Outfits]
        /\ cell' \in Cells \cup {NoCell} /\ disk' \in Inis /\ body' \in [Actors -> Bodies]
        /\ UNCHANGED Plugin
    BY <1>14, GameKeepsPlugin
  <2>2. \A a \in Actors : SeenOutfit(a)' \in Outfits
    BY <2>1, OutfitTypes DEF SeenOutfit
  <2>3. shown' \in [Actors -> SUBSET Outfits]
    BY <1>14, <2>2 DEF Game
  <2>4. QED
    BY <2>1, <2>3 DEF Plugin, frame
<1>15. CASE UNCHANGED vars
  BY <1>15 DEF vars, frame
<1>16. QED
  BY <1>1, <1>2, <1>3, <1>4, <1>5, <1>6, <1>7, <1>8, <1>9, <1>10, <1>11, <1>12, <1>13,
     <1>14, <1>15 DEF Next, Frame

\* The state always has its shape: no step of the frame or of the game breaks
\* it, for any file and any interleaving.
THEOREM TypeCorrect == Spec => []TypeOK
BY TypeInit, TypeNext, PTL DEF Spec

-----------------------------------------------------------------------------
(* The frame and the tracked actors *)

\* Workers run for entries only, in the three loops only; between frames there
\* are no entries; reloadActors lives as long as the reload loop.
Structure ==
    /\ entries \subseteq actors
    /\ phase = "idle" => entries = {}
    /\ reloadActors => phase = "reload"
    /\ \A a \in Actors : pc[a] # "start" => a \in entries /\ phase \in {"reload", "bind", "update"}

LEMMA StructureInit == Init => Structure
BY DEF Init, Structure, AtStart

LEMMA StructureNext == TypeOK /\ Structure /\ [Next]_vars => Structure'
<1> SUFFICES ASSUME TypeOK, Structure, [Next]_vars PROVE Structure'
  OBVIOUS
<1> USE DEF Structure, world, tables, AtStart, GotoPhase, StepDone
<1>0. pc \in [Actors -> {"start", "keyed", "done"}]
  BY DEF TypeOK
<1>1. CASE ChangeCell
  BY <1>1 DEF ChangeCell
<1>2. CASE ScanCell
  BY <1>2 DEF ScanCell
<1>3. CASE ReloadConfig
  BY <1>3 DEF ReloadConfig
<1>4. CASE SkipReload
  BY <1>4 DEF SkipReload
<1>5. CASE EndReload
  BY <1>5 DEF EndReload
<1>6. CASE EndBind
  BY <1>6 DEF EndBind
<1>7. CASE EndFrame
  BY <1>7 DEF EndFrame
<1>8. ASSUME NEW a \in Actors, ReadKey(a) PROVE Structure'
  BY <1>0, <1>8 DEF ReadKey, NeedsKey
<1>9. ASSUME NEW a \in Actors, ReloadActor(a) PROVE Structure'
  BY <1>0, <1>9 DEF ReloadActor
<1>10. ASSUME NEW a \in Actors, CheckBody(a) PROVE Structure'
  BY <1>0, <1>10 DEF CheckBody
<1>11. ASSUME NEW a \in Actors, Bind(a) PROVE Structure'
  BY <1>0, <1>11 DEF Bind
<1>12. ASSUME NEW a \in Actors, SkipUnbound(a) PROVE Structure'
  BY <1>0, <1>12 DEF SkipUnbound
<1>13. ASSUME NEW a \in Actors, Update(a) PROVE Structure'
  BY <1>0, <1>13 DEF Update
<1>14. CASE Game
  BY <1>14 DEF Game, Plugin, frame
<1>15. CASE UNCHANGED vars
  BY <1>15 DEF vars, frame
<1>16. QED
  BY <1>1, <1>2, <1>3, <1>4, <1>5, <1>6, <1>7, <1>8, <1>9, <1>10, <1>11, <1>12, <1>13,
     <1>14, <1>15 DEF Next, Frame

LEMMA StructureAlways == Spec => [](TypeOK /\ Structure)
<1>1. Init => TypeOK /\ Structure
  BY TypeInit, StructureInit
<1>2. TypeOK /\ Structure /\ [Next]_vars => (TypeOK /\ Structure)'
  BY TypeNext, StructureNext
<1>3. QED
  BY <1>1, <1>2, PTL DEF Spec

\* No loop ever meets an entry that is not tracked (scan.cpp:238, 265, 301).
THEOREM EntriesAlwaysTracked == Spec => []EntriesTracked
<1>1. Structure => EntriesTracked
  BY DEF Structure, EntriesTracked
<1>2. QED
  BY <1>1, StructureAlways, PTL

-----------------------------------------------------------------------------
(* The filters on the player *)

PlayerFilters ==
    /\ "playerOnly" \in g.flags => actors \subseteq {Player}
    /\ "npcOnly" \in g.flags => Player \notin actors

\* The filters may be broken only while a reload that changed them is under way:
\* admission is what keeps them, so the flags must not change unnoticed.
FiltersInv == (phase = "reload" /\ reloadActors) \/ PlayerFilters

LEMMA FiltersInit == Init => FiltersInv
BY DEF Init, FiltersInv, PlayerFilters

LEMMA FiltersNext == TypeOK /\ Structure /\ FiltersInv /\ [Next]_vars => FiltersInv'
<1> SUFFICES ASSUME TypeOK, Structure, FiltersInv, [Next]_vars PROVE FiltersInv'
  OBVIOUS
<1> USE DEF FiltersInv, PlayerFilters, world, tables, GotoPhase, StepDone
<1>1. CASE ChangeCell
  BY <1>1 DEF ChangeCell
<1>2. CASE ScanCell
  BY <1>2 DEF ScanCell, IsActorTrackable
<1>3. CASE ReloadConfig
  BY <1>3 DEF ReloadConfig, ReloadActors
<1>4. CASE SkipReload
  BY <1>4 DEF SkipReload
<1>5. CASE EndReload
  BY <1>5 DEF EndReload
<1>6. CASE EndBind
  BY <1>6 DEF EndBind
<1>7. CASE EndFrame
  BY <1>7 DEF EndFrame
<1>8. ASSUME NEW a \in Actors, ReadKey(a) PROVE FiltersInv'
  BY <1>8 DEF ReadKey
<1>9. ASSUME NEW a \in Actors, ReloadActor(a) PROVE FiltersInv'
  BY <1>9 DEF ReloadActor
<1>10. ASSUME NEW a \in Actors, CheckBody(a) PROVE FiltersInv'
  BY <1>10 DEF CheckBody
<1>11. ASSUME NEW a \in Actors, Bind(a) PROVE FiltersInv'
  BY <1>11 DEF Bind
<1>12. ASSUME NEW a \in Actors, SkipUnbound(a) PROVE FiltersInv'
  BY <1>12 DEF SkipUnbound
<1>13. ASSUME NEW a \in Actors, Update(a) PROVE FiltersInv'
  BY <1>13 DEF Update
<1>14. CASE Game
  BY <1>14 DEF Game, Plugin, frame
<1>15. CASE UNCHANGED vars
  BY <1>15 DEF vars, frame
<1>16. QED
  BY <1>1, <1>2, <1>3, <1>4, <1>5, <1>6, <1>7, <1>8, <1>9, <1>10, <1>11, <1>12, <1>13,
     <1>14, <1>15 DEF Next, Frame

\* playerOnly and npcOnly hold for the tracked actors outside the reload loop.
THEOREM FiltersAlwaysHonoured == Spec => []FiltersHonoured
<1>1. Structure /\ FiltersInv => FiltersHonoured
  BY DEF Structure, FiltersInv, PlayerFilters, FiltersHonoured
<1>2. QED
  BY <1>1, FiltersInit, FiltersNext, StructureAlways, PTL DEF Spec

-----------------------------------------------------------------------------
(* The reload counter *)

LEMMA CountInit == Init => CountBounded
<1>1. Init => g.rate \in Int
  BY TypeInit DEF TypeOK
<1>2. QED
  BY <1>1 DEF Init, CountBounded

LEMMA CountNext == TypeOK /\ CountBounded /\ [Next]_vars => CountBounded'
<1> SUFFICES ASSUME TypeOK, CountBounded, [Next]_vars PROVE CountBounded'
  OBVIOUS
<1>1. TypeOK'
  BY TypeNext
<1>2. CASE ReloadConfig
  <2>1. count' = 0 /\ g'.rate \in Int
    BY <1>1, <1>2 DEF ReloadConfig, TypeOK
  <2>2. QED
    BY <2>1 DEF CountBounded
<1>3. CASE SkipReload
  <2>1. g' = g /\ g.rate \in Int /\ count \in Nat
    BY <1>3 DEF SkipReload, tables, TypeOK
  <2>2. CASE g.rate = 0
    BY <1>3, <2>1, <2>2 DEF SkipReload, CountUp, CountBounded
  <2>3. CASE g.rate # 0
    BY <1>3, <2>1, <2>3 DEF SkipReload, CountUp, ReloadDue, CountBounded
  <2>4. QED
    BY <2>2, <2>3
<1>4. CASE UNCHANGED <<g, count>>
  BY <1>4 DEF CountBounded
<1>5. QED
  BY <1>2, <1>3, <1>4 DEF Next, Frame, ChangeCell, ScanCell, ReadKey, ReloadActor, EndReload,
     CheckBody, Bind, EndBind, SkipUnbound, Update, EndFrame, Game, Plugin, vars, tables

\* A reload is never more than rate + 2 frames away while the rate is positive.
THEOREM CountAlwaysBounded == Spec => []CountBounded
BY CountInit, CountNext, StructureAlways, PTL DEF Spec

-----------------------------------------------------------------------------
(* Keys *)

LEMMA KeysInit == Init => BoundHasOwnKey
BY DEF Init, BoundHasOwnKey, NoSims, NewSim, AtStart

LEMMA KeysNext == TypeOK /\ Structure /\ BoundHasOwnKey /\ [Next]_vars => BoundHasOwnKey'
<1> SUFFICES ASSUME TypeOK, Structure, BoundHasOwnKey, [Next]_vars,
                    NEW b \in Actors
             PROVE  (/\ sim[b].bound => b \in actors /\ sim[b].key # NoKey
                     /\ sim[b].key # NoKey => sim[b].key[1] = b
                     /\ pc[b] = "keyed" => key[b] # NoKey /\ key[b][1] = b)'
  BY DEF BoundHasOwnKey
<1> USE DEF BoundHasOwnKey, world, tables, AtStart, GotoPhase, StepDone
<1>0. /\ pc \in [Actors -> {"start", "keyed", "done"}]
      /\ DOMAIN sim = Actors /\ DOMAIN key = Actors
      /\ \A a \in Actors : pc[a] = "keyed" => a \in actors
  BY DEF TypeOK, AreSims, Structure
<1>1. CASE ChangeCell
  BY <1>1 DEF ChangeCell, NoSims, NewSim
<1>2. CASE ScanCell
  BY <1>2 DEF ScanCell
<1>3. CASE ReloadConfig
  BY <1>3 DEF ReloadConfig
<1>4. CASE SkipReload
  BY <1>4 DEF SkipReload
<1>5. CASE EndReload
  BY <1>5 DEF EndReload, NoSims, NewSim
<1>6. CASE EndBind
  BY <1>6 DEF EndBind
<1>7. CASE EndFrame
  BY <1>7 DEF EndFrame
<1>8. ASSUME NEW a \in Actors, ReadKey(a)
      PROVE  (/\ sim[b].bound => b \in actors /\ sim[b].key # NoKey
              /\ sim[b].key # NoKey => sim[b].key[1] = b
              /\ pc[b] = "keyed" => key[b] # NoKey /\ key[b][1] = b)'
  <2>1. PICK k \in KeysRead(g, a, shown[a]) : key' = [key EXCEPT ![a] = k]
    BY <1>8 DEF ReadKey
  <2>2. k # NoKey /\ k[1] = a
    BY KeyOwner
  <2>3. QED
    BY <1>0, <1>8, <2>1, <2>2 DEF ReadKey
<1>9. ASSUME NEW a \in Actors, ReloadActor(a)
      PROVE  (/\ sim[b].bound => b \in actors /\ sim[b].key # NoKey
              /\ sim[b].key # NoKey => sim[b].key[1] = b
              /\ pc[b] = "keyed" => key[b] # NoKey /\ key[b][1] = b)'
  BY <1>0, <1>9 DEF ReloadActor, Reconfigured
<1>10. ASSUME NEW a \in Actors, CheckBody(a)
       PROVE  (/\ sim[b].bound => b \in actors /\ sim[b].key # NoKey
               /\ sim[b].key # NoKey => sim[b].key[1] = b
               /\ pc[b] = "keyed" => key[b] # NoKey /\ key[b][1] = b)'
  BY <1>0, <1>10 DEF CheckBody, Reset
<1>11. ASSUME NEW a \in Actors, Bind(a)
       PROVE  (/\ sim[b].bound => b \in actors /\ sim[b].key # NoKey
               /\ sim[b].key # NoKey => sim[b].key[1] = b
               /\ pc[b] = "keyed" => key[b] # NoKey /\ key[b][1] = b)'
  BY <1>0, <1>11 DEF Bind, Bound, Rekeyed
<1>12. ASSUME NEW a \in Actors, SkipUnbound(a)
       PROVE  (/\ sim[b].bound => b \in actors /\ sim[b].key # NoKey
               /\ sim[b].key # NoKey => sim[b].key[1] = b
               /\ pc[b] = "keyed" => key[b] # NoKey /\ key[b][1] = b)'
  BY <1>0, <1>12 DEF SkipUnbound
<1>13. ASSUME NEW a \in Actors, Update(a)
       PROVE  (/\ sim[b].bound => b \in actors /\ sim[b].key # NoKey
               /\ sim[b].key # NoKey => sim[b].key[1] = b
               /\ pc[b] = "keyed" => key[b] # NoKey /\ key[b][1] = b)'
  BY <1>0, <1>13 DEF Update, Reconfigured
<1>14. CASE Game
  BY <1>14 DEF Game, Plugin, frame
<1>15. CASE UNCHANGED vars
  BY <1>15 DEF vars, frame
<1>16. QED
  BY <1>1, <1>2, <1>3, <1>4, <1>5, <1>6, <1>7, <1>8, <1>9, <1>10, <1>11, <1>12, <1>13,
     <1>14, <1>15 DEF Next, Frame

\* currentActorKey is never compared before it is set, and no actor is ever
\* looked up in the cache under another's key, even when the game changes the
\* world in the middle of a frame.
THEOREM BoundAlwaysHasOwnKey == Spec => []BoundHasOwnKey
BY KeysInit, KeysNext, StructureAlways, PTL DEF Spec
=============================================================================
