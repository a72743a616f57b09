-------------------------- MODULE BonePose_proofs --------------------------
(***************************************************************************)
(* The saved rest poses, for any actors, bones and races, and any          *)
(* interleaving of the workers, and what keeps the saving of them from     *)
(* throwing.                                                               *)
(***************************************************************************)
EXTENDS BonePose, TLAPS

-----------------------------------------------------------------------------
(* Type correctness *)

LEMMA TypeInit == Init => TypeOK
BY DEF Init, TypeOK, Rest, Poses

LEMMA TypeNext == TypeOK /\ MoveHasRest /\ [Next]_vars => TypeOK'
<1> SUFFICES ASSUME TypeOK, MoveHasRest, [Next]_vars PROVE TypeOK'
  OBVIOUS
<1> USE DEF TypeOK, Goto
<1>1. ASSUME NEW a \in Actors, NEW b \in Bones, Begin(a, b) PROVE TypeOK'
  BY <1>1 DEF Begin
<1>2. ASSUME NEW a \in Actors, StoreChest(a) PROVE TypeOK'
  <2>1. bone[a] \in Bones
    BY <1>2 DEF StoreChest
  <2>2. origChestWorldRot' \in [Bones -> SUBSET Actors]
    BY <1>2, <2>1 DEF StoreChest
  <2>3. \E place \in {"pos", "thrown"} : at' = [at EXCEPT ![a] = place]
    BY <1>2 DEF StoreChest
  <2>4. QED
    BY <1>2, <2>1, <2>2, <2>3 DEF StoreChest
<1>3. ASSUME NEW a \in Actors, StorePos(a) PROVE TypeOK'
  <2>1. bone[a] \in Bones /\ pose[a][bone[a]] \in Poses
    BY <1>3 DEF StorePos
  <2>2. origLocalPos' \in [Bones -> [Actors -> Poses \cup {NoPose}]]
    BY <1>3, <2>1 DEF StorePos
  <2>3. QED
    BY <1>3, <2>2 DEF StorePos
<1>4. ASSUME NEW a \in Actors, StoreRot(a) PROVE TypeOK'
  <2>1. bone[a] \in Bones /\ pose[a][bone[a]] \in Poses
    BY <1>4 DEF StoreRot
  <2>2. origLocalRot' \in [Bones -> [Actors -> Poses \cup {NoPose}]]
    BY <1>4, <2>1 DEF StoreRot
  <2>3. QED
    BY <1>4, <2>2 DEF StoreRot
<1>5. ASSUME NEW a \in Actors, Move(a) PROVE TypeOK'
  <2>1. bone[a] \in Bones /\ origLocalPos[bone[a]][a] \in Poses
    BY <1>5 DEF Move, MoveHasRest
  <2>2. \A moved \in BOOLEAN : [rest |-> origLocalPos[bone[a]][a].rest, moved |-> moved] \in Poses
    BY <2>1 DEF Poses
  <2>3. \/ pose' = pose
        \/ \E p \in Poses : pose' = [pose EXCEPT ![a][bone[a]] = p]
    BY <1>5, <2>2 DEF Move
  <2>4. pose' \in [Actors -> [Bones -> Poses]]
    <3>1. CASE pose' = pose
      BY <3>1
    <3>2. ASSUME NEW p \in Poses, pose' = [pose EXCEPT ![a][bone[a]] = p]
          PROVE  pose' \in [Actors -> [Bones -> Poses]]
      BY <2>1, <3>2
    <3>3. QED
      BY <2>3, <3>1, <3>2
  <2>5. QED
    BY <1>5, <2>4 DEF Move
<1>6. ASSUME NEW a \in Actors, Bind(a) \/ Reset(a) PROVE TypeOK'
  BY <1>6 DEF Bind, Reset
<1>7. ASSUME NEW a \in Actors, LoadNodes(a) PROVE TypeOK'
  BY <1>7 DEF LoadNodes, Rest, Poses
<1>8. CASE DropAll
  BY <1>8 DEF DropAll
<1>9. CASE UNCHANGED vars
  BY <1>9 DEF vars
<1>10. QED
  BY <1>1, <1>2, <1>3, <1>4, <1>5, <1>6, <1>7, <1>8, <1>9 DEF Next

-----------------------------------------------------------------------------
(* The two maps *)

\* An actor and a bone.  Position and rotation are saved together, but for a
\* worker between the two.  A transform without an entry has no offset in it.
\* And what the worker found at the start is still true where it matters: the
\* entry it takes for missing is missing, since only it writes that entry.
Saved(a, b) ==
    /\ origLocalPos[b][a] = origLocalRot[b][a] \/ (at[a] = "rot" /\ bone[a] = b)
    /\ at[a] = "rot" /\ bone[a] = b =>
         /\ origLocalPos[b][a] # NoPose
         /\ origLocalRot[b][a] = NoPose => origLocalPos[b][a] = pose[a][b]
         /\ origLocalRot[b][a] # NoPose => origLocalRot[b][a] = origLocalPos[b][a]
    /\ origLocalPos[b][a] # NoPose => ~origLocalPos[b][a].moved
    /\ pose[a][b].moved => origLocalPos[b][a] # NoPose
    /\ at[a] \in {"chest", "pos", "rot", "move"} /\ bone[a] = b =>
         /\ "pos" \notin found[a] /\ at[a] \in {"chest", "pos"} => origLocalPos[b][a] = NoPose
         /\ "rot" \notin found[a] /\ at[a] # "move" => origLocalRot[b][a] = NoPose
         /\ at[a] = "move" => origLocalPos[b][a] # NoPose

SavedInv == \A a \in Actors, b \in Bones : Saved(a, b)

LEMMA SavedInit == Init => SavedInv
BY DEF Init, SavedInv, Saved, Rest

LEMMA SavedNext == TypeOK /\ SavedInv /\ [Next]_vars => SavedInv'
<1> SUFFICES ASSUME TypeOK, SavedInv, [Next]_vars,
                    NEW x \in Actors, NEW y \in Bones
             PROVE  Saved(x, y)'
  BY DEF SavedInv
<1>0. Saved(x, y)
  BY DEF SavedInv
<1> USE DEF TypeOK, Goto, Saved
<1>1. ASSUME NEW a \in Actors, NEW b \in Bones, Begin(a, b) PROVE Saved(x, y)'
  BY <1>0, <1>1 DEF Begin, HasBone
<1>2. ASSUME NEW a \in Actors, StoreChest(a) PROVE Saved(x, y)'
  <2>1. \E place \in {"pos", "thrown"} : at' = [at EXCEPT ![a] = place]
    BY <1>2 DEF StoreChest
  <2>2. QED
    BY <1>0, <1>2, <2>1 DEF StoreChest
<1>3. ASSUME NEW a \in Actors, StorePos(a) PROVE Saved(x, y)'
  <2>1. bone[a] \in Bones /\ Saved(a, bone[a])
    BY <1>3 DEF StorePos, SavedInv
  <2>2. pose[a][bone[a]] \in Poses /\ pose[a][bone[a]] # NoPose
    BY <2>1, PosesAssumption
  <2>3. QED
    BY <1>0, <1>3, <2>1, <2>2 DEF StorePos
<1>4. ASSUME NEW a \in Actors, StoreRot(a) PROVE Saved(x, y)'
  <2>1. bone[a] \in Bones /\ Saved(a, bone[a])
    BY <1>4 DEF StoreRot, SavedInv
  <2>2. pose[a][bone[a]] \in Poses /\ pose[a][bone[a]] # NoPose
    BY <2>1, PosesAssumption
  <2>3. QED
    BY <1>0, <1>4, <2>1, <2>2 DEF StoreRot
<1>5. ASSUME NEW a \in Actors, Move(a) PROVE Saved(x, y)'
  <2>1. bone[a] \in Bones /\ Saved(a, bone[a])
    BY <1>5 DEF Move, SavedInv
  <2>2. pose' = pose \/ \E p : pose' = [pose EXCEPT ![a][bone[a]] = p]
    BY <1>5 DEF Move
  <2>3. (a = x /\ bone[a] = y) \/ pose'[x][y] = pose[x][y]
    <3>1. CASE pose' = pose
      BY <3>1
    <3>2. ASSUME NEW p, pose' = [pose EXCEPT ![a][bone[a]] = p]
          PROVE  (a = x /\ bone[a] = y) \/ pose'[x][y] = pose[x][y]
      BY <2>1, <3>2
    <3>3. QED
      BY <2>2, <3>1, <3>2
  <2>4. QED
    BY <1>0, <1>5, <2>1, <2>3 DEF Move
<1>6. ASSUME NEW a \in Actors, Bind(a) \/ Reset(a) PROVE Saved(x, y)'
  BY <1>0, <1>6 DEF Bind, Reset
<1>7. ASSUME NEW a \in Actors, LoadNodes(a) PROVE Saved(x, y)'
  BY <1>0, <1>7 DEF LoadNodes, Rest
<1>8. CASE DropAll
  BY <1>0, <1>8 DEF DropAll
<1>9. CASE UNCHANGED vars
  BY <1>0, <1>9 DEF vars
<1>10. QED
  BY <1>1, <1>2, <1>3, <1>4, <1>5, <1>6, <1>7, <1>8, <1>9 DEF Next

LEMMA SavedRest == TypeOK /\ SavedInv => MoveHasRest /\ SavedUnmoved
<1> SUFFICES ASSUME TypeOK, SavedInv PROVE MoveHasRest /\ SavedUnmoved
  OBVIOUS
<1>1. MoveHasRest
  BY DEF TypeOK, SavedInv, Saved, MoveHasRest
<1>2. SavedUnmoved
  BY DEF TypeOK, SavedInv, Saved, SavedUnmoved
<1>3. QED
  BY <1>1, <1>2

LEMMA Inductive == Spec => [](TypeOK /\ SavedInv)
<1>1. Init => TypeOK /\ SavedInv
  BY TypeInit, SavedInit
<1>2. TypeOK /\ SavedInv /\ [Next]_vars => (TypeOK /\ SavedInv)'
  BY SavedRest, TypeNext, SavedNext
<1>3. QED
  BY <1>1, <1>2, PTL DEF Spec

\* The shape of the state is kept: in particular, no worker reads the race of a
\* pose that was never saved.
THEOREM PoseTypeCorrect == Spec => []TypeOK
BY Inductive, PTL

\* The rest poses Thing::StoreOriginalTransforms saves are the game's own, for
\* any number of rebinds, cell changes and actors.
THEOREM SavedNeverMoved == Spec => []SavedUnmoved
<1>1. TypeOK /\ SavedInv => SavedUnmoved
  BY SavedRest
<1>2. QED
  BY <1>1, Inductive, PTL

\* Where Thing::UpdateThing reads the saved transforms they are there, whichever
\* workers add the first entry of a bone at the same time.
THEOREM MovedFromRest == Spec => []MoveHasRest
<1>1. TypeOK /\ SavedInv => MoveHasRest
  BY SavedRest
<1>2. QED
  BY <1>1, Inductive, PTL

-----------------------------------------------------------------------------
(* Written once *)

Kept(a, b) ==
    /\ origLocalPos[b][a] # NoPose => origLocalPos'[b][a] = origLocalPos[b][a]
    /\ origLocalRot[b][a] # NoPose => origLocalRot'[b][a] = origLocalRot[b][a]

LEMMA KeptNext == TypeOK /\ SavedInv /\ [Next]_vars =>
                    \A b \in Bones, a \in Actors : Kept(a, b)
<1> SUFFICES ASSUME TypeOK, SavedInv, [Next]_vars,
                    NEW y \in Bones, NEW x \in Actors
             PROVE  Kept(x, y)
  OBVIOUS
<1> USE DEF TypeOK, Kept
<1>1. ASSUME NEW a \in Actors, StorePos(a) PROVE Kept(x, y)
  <2>1. bone[a] \in Bones /\ Saved(a, bone[a])
    BY <1>1 DEF StorePos, SavedInv
  <2>2. QED
    BY <1>1, <2>1 DEF StorePos, Saved
<1>2. ASSUME NEW a \in Actors, StoreRot(a) PROVE Kept(x, y)
  <2>1. bone[a] \in Bones /\ Saved(a, bone[a])
    BY <1>2 DEF StoreRot, SavedInv
  <2>2. QED
    BY <1>2, <2>1 DEF StoreRot, Saved
<1>3. CASE UNCHANGED <<origLocalPos, origLocalRot>>
  BY <1>3
<1>4. QED
  <2>1. ASSUME NEW a \in Actors, NEW b \in Bones, Begin(a, b)
        PROVE  UNCHANGED <<origLocalPos, origLocalRot>>
    BY <2>1 DEF Begin
  <2>2. ASSUME NEW a \in Actors,
               StoreChest(a) \/ Move(a) \/ Bind(a) \/ Reset(a) \/ LoadNodes(a)
        PROVE  UNCHANGED <<origLocalPos, origLocalRot>>
    BY <2>2 DEF StoreChest, Move, Bind, Reset, LoadNodes
  <2>3. DropAll => UNCHANGED <<origLocalPos, origLocalRot>>
    BY DEF DropAll
  <2>4. QED
    BY <1>1, <1>2, <1>3, <2>1, <2>2, <2>3 DEF Next, vars

\* A saved rest pose is kept for the session, although a worker may decide on
\* what it found before another worker's entry.
THEOREM SavedForGood == Spec => SavedOnce
<1>1. TypeOK /\ SavedInv /\ [Next]_vars
        => [\A b \in Bones, a \in Actors : Kept(a, b)]_vars
  BY KeptNext
<1>2. Spec => [][\A b \in Bones, a \in Actors : Kept(a, b)]_vars
  BY <1>1, Inductive, PTL DEF Spec
<1>3. QED
  BY <1>2 DEF SavedOnce, Kept
-----------------------------------------------------------------------------
(* Saving with skeletons that are alike *)

\* When every race's skeleton has a chest, a breast bone whose rotation an actor
\* has saved has had its chest saved before, by that or another worker: whoever
\* found the one finds the other.
ChestFirst ==
    \A b \in BreastBones : origChestWorldRot[b] = {} =>
        \A a \in Actors :
            /\ origLocalRot[b][a] = NoPose
            /\ bone[a] = b => at[a] \in {"idle", "chest"}
                              /\ (at[a] = "chest" => "rot" \notin found[a])

LEMMA ChestFirstNext ==
    ASSUME TypeOK, ChestFirst, Races \subseteq ChestRaces, [Next]_vars
    PROVE  ChestFirst'
<1> SUFFICES ASSUME NEW y \in BreastBones, origChestWorldRot'[y] = {}, NEW x \in Actors
             PROVE  /\ origLocalRot'[y][x] = NoPose
                    /\ bone'[x] = y => at'[x] \in {"idle", "chest"}
                                       /\ (at'[x] = "chest" => "rot" \notin found'[x])
  BY DEF ChestFirst
<1> USE DEF TypeOK, Goto
<1>0. y \in Bones /\ y # NoBone
  BY BonesAssumption
<1>1. origChestWorldRot[y] = {}
  <2>1. ASSUME NEW a \in Actors, StoreChest(a) PROVE origChestWorldRot[y] = {}
    <3>1. \/ UNCHANGED origChestWorldRot
          \/ origChestWorldRot' = [origChestWorldRot EXCEPT ![bone[a]] = @ \cup {a}]
      BY <2>1 DEF StoreChest
    <3>2. DOMAIN origChestWorldRot = Bones
      OBVIOUS
    <3>3. origChestWorldRot'[y] = origChestWorldRot[y]
            \/ origChestWorldRot'[y] = origChestWorldRot[y] \cup {a}
      <4>1. CASE bone[a] = y
        BY <1>0, <3>1, <3>2, <4>1
      <4>2. CASE bone[a] # y
        BY <1>0, <3>1, <3>2, <4>2
      <4>3. QED
        BY <4>1, <4>2
    <3>4. QED
      BY <3>3
  <2>2. CASE UNCHANGED origChestWorldRot
    BY <2>2
  <2>3. QED
    BY <2>1, <2>2 DEF Next, vars, Begin, StorePos, StoreRot, Move, Bind, Reset, LoadNodes, DropAll
<1>2. /\ \A a \in Actors : origLocalRot[y][a] = NoPose
      /\ bone[x] = y => at[x] \in {"idle", "chest"} /\ (at[x] = "chest" => "rot" \notin found[x])
  BY <1>1 DEF ChestFirst
<1>3. ASSUME NEW a \in Actors, NEW b \in Bones, Begin(a, b)
      PROVE  /\ origLocalRot'[y][x] = NoPose
             /\ bone'[x] = y => at'[x] \in {"idle", "chest"}
                                /\ (at'[x] = "chest" => "rot" \notin found'[x])
  BY <1>2, <1>3 DEF Begin, HasBone
<1>4. ASSUME NEW a \in Actors, StoreChest(a)
      PROVE  /\ origLocalRot'[y][x] = NoPose
             /\ bone'[x] = y => at'[x] \in {"idle", "chest"}
                                /\ (at'[x] = "chest" => "rot" \notin found'[x])
  <2>1. UNCHANGED <<origLocalRot, bone, found>>
    BY <1>4 DEF StoreChest
  <2>2. CASE bone[a] = y
    <3>1. race[a] \in ChestRaces /\ "rot" \notin found[a]
      BY <1>1, <1>4, <2>2 DEF StoreChest, ChestFirst
    <3>2. origChestWorldRot' = [origChestWorldRot EXCEPT ![y] = @ \cup {a}]
      BY <1>4, <2>2, <3>1 DEF StoreChest
    <3>3. a \in origChestWorldRot'[y]
      BY <1>0, <3>2
    <3>4. QED
      BY <3>3
  <2>3. CASE bone[a] # y
    <3>1. bone[x] = y => at'[x] = at[x]
      BY <1>4, <2>3 DEF StoreChest
    <3>2. QED
      BY <1>2, <2>1, <3>1
  <2>4. QED
    BY <2>2, <2>3
<1>5. ASSUME NEW a \in Actors, StorePos(a) \/ StoreRot(a) \/ Move(a)
      PROVE  /\ origLocalRot'[y][x] = NoPose
             /\ bone'[x] = y => at'[x] \in {"idle", "chest"}
                                /\ (at'[x] = "chest" => "rot" \notin found'[x])
  <2>1. bone[a] # y /\ bone[a] \in Bones
    BY <1>1, <1>5 DEF StorePos, StoreRot, Move, ChestFirst
  <2>2. origLocalRot'[y] = origLocalRot[y]
    BY <1>0, <1>5, <2>1 DEF StorePos, StoreRot, Move
  <2>3. bone'[x] = y => bone[x] = y /\ at'[x] = at[x] /\ found'[x] = found[x]
    BY <1>0, <1>5, <2>1 DEF StorePos, StoreRot, Move
  <2>4. QED
    BY <1>2, <2>2, <2>3
<1>6. ASSUME UNCHANGED <<origLocalRot, bone, at, found>>
      PROVE  /\ origLocalRot'[y][x] = NoPose
             /\ bone'[x] = y => at'[x] \in {"idle", "chest"}
                                /\ (at'[x] = "chest" => "rot" \notin found'[x])
  BY <1>2, <1>6
<1>7. QED
  BY <1>3, <1>4, <1>5, <1>6 DEF Next, vars, Bind, Reset, LoadNodes, DropAll

\* Only the saving of a chest can throw, and it does not if the skeletons are
\* alike.
LEMMA RunningNext ==
    ASSUME TypeOK, Running, Races \subseteq ChestRaces => ChestFirst, [Next]_vars,
           Races \subseteq ChestRaces \/ Races \cap ChestRaces = {}
    PROVE  Running'
<1> SUFFICES ASSUME NEW x \in Actors PROVE at'[x] # "thrown"
  BY DEF Running
<1> USE DEF TypeOK, Goto
<1>0. at[x] # "thrown"
  BY DEF Running
<1>1. ASSUME NEW a \in Actors, NEW b \in Bones, Begin(a, b) PROVE at'[x] # "thrown"
  BY <1>0, <1>1 DEF Begin
<1>2. ASSUME NEW a \in Actors, StoreChest(a) PROVE at'[x] # "thrown"
  <2>1. CASE bone[a] \in BreastBones /\ race[a] \in ChestRaces
    <3>1. Races \subseteq ChestRaces
      BY <2>1
    <3>2. ~("rot" \in found[a] /\ origChestWorldRot[bone[a]] = {})
      BY <1>2, <2>1, <3>1 DEF StoreChest, ChestFirst
    <3>3. QED
      BY <1>0, <1>2, <3>2 DEF StoreChest
  <2>2. CASE ~(bone[a] \in BreastBones /\ race[a] \in ChestRaces)
    BY <1>0, <1>2, <2>2 DEF StoreChest
  <2>3. QED
    BY <2>1, <2>2
<1>3. ASSUME NEW a \in Actors, StorePos(a) \/ StoreRot(a) \/ Move(a) PROVE at'[x] # "thrown"
  BY <1>0, <1>3 DEF StorePos, StoreRot, Move
<1>4. CASE UNCHANGED at
  BY <1>0, <1>4
<1>5. QED
  BY <1>1, <1>2, <1>3, <1>4 DEF Next, vars, Bind, Reset, LoadNodes, DropAll

\* If all skeletons the game shows have a chest, or none has, saving a rest pose
\* never throws, whichever workers race for the first entry of a bone: it takes
\* skeletons of both kinds to make Thing.cpp:109-137 end the game.
THEOREM AlikeSavingSucceeds ==
    ASSUME Races \subseteq ChestRaces \/ Races \cap ChestRaces = {}
    PROVE  Spec => []SavingSucceeds
<1> DEFINE Inv == Running /\ (Races \subseteq ChestRaces => ChestFirst)
<1>1. Init => Inv
  BY BonesAssumption DEF Init, Running, ChestFirst
<1>2. TypeOK /\ Inv /\ [Next]_vars => Inv'
  BY ChestFirstNext, RunningNext
<1>3. Inv => SavingSucceeds
  BY DEF SavingSucceeds
<1>4. QED
  BY <1>1, <1>2, <1>3, PoseTypeCorrect, PTL DEF Spec
=============================================================================
