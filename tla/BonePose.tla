------------------------------ MODULE BonePose ------------------------------
(***************************************************************************)
(* The pose of the simulated bones and the rest poses saved for them,      *)
(* Thing::StoreOriginalTransforms and Thing::UpdateThing (src/CBPSSE/      *)
(* Thing.cpp) as the workers of SimObj::Update run them.                   *)
(*                                                                         *)
(* The first time a bone of an actor is simulated, its local transform is  *)
(* saved in static maps by bone name and form id; from then on the         *)
(* transform is written as the saved one plus an offset.  The maps outlive *)
(* the simulation objects and are never cleared.                           *)
(*                                                                         *)
(* A pose is a record [rest, moved]: the race whose skeleton gave the      *)
(* transform, and whether an offset was added.  The amount of the offset   *)
(* is not modelled.  A bone name is one BSFixedString for the session, so  *)
(* that keys compared by address are keys compared by name.                *)
(*                                                                         *)
(* The game replaces an actor's nodes only while its worker is idle: the   *)
(* code holds pointers to them in between.  Things constructed without a    *)
(* skeleton node, whose IsBreastBone is never set, are left out.           *)
(***************************************************************************)
CONSTANTS
    Actors, Races,
    Bones,         \* boneNames
    BreastBones,   \* those whose name contains "Breast"
    ChestRaces,    \* races whose skeleton has a "Chest" node under a parent
    NoRace, NoPose, NoBone

ASSUME BonesAssumption == BreastBones \subseteq Bones /\ NoBone \notin Bones
ASSUME RacesAssumption == NoRace \notin Races

Poses == [rest : Races, moved : BOOLEAN]

ASSUME PosesAssumption == NoPose \notin Poses

VARIABLES
    race,           \* of each actor's nodes
    pose,           \* local transform of each bone of each actor
    bound,          \* race the simulation object was bound for, NoRace if unbound
    origLocalPos, origLocalRot,  \* bone -> actor -> pose
    origChestWorldRot,           \* bone -> actors saved (nothing reads the values)
    at,             \* where each actor's worker is
    bone,           \* the bone it works on
    found           \* the maps in which it found the bone

vars == <<race, pose, bound, origLocalPos, origLocalRot, origChestWorldRot, at, bone, found>>

Rest(r) == [rest |-> r, moved |-> FALSE]

Init ==
    /\ race \in [Actors -> Races]
    /\ pose = [a \in Actors |-> [b \in Bones |-> Rest(race[a])]]
    /\ bound = [a \in Actors |-> NoRace]
    /\ origLocalPos = [b \in Bones |-> [a \in Actors |-> NoPose]]
    /\ origLocalRot = [b \in Bones |-> [a \in Actors |-> NoPose]]
    /\ origChestWorldRot = [b \in Bones |-> {}]
    /\ at = [a \in Actors |-> "idle"]
    /\ bone = [a \in Actors |-> NoBone]
    /\ found = [a \in Actors |-> {}]

\* The outer map has the bone as soon as one actor's transform is saved.
HasBone(map, b) == \E a \in Actors : map[b][a] # NoPose

\* An exception leaves the parallel loop and UpdateActors, and ends the game.
Running == \A a \in Actors : at[a] # "thrown"

-----------------------------------------------------------------------------
(* A worker and one bone *)

Goto(a, place) == at' = [at EXCEPT ![a] = place]

\* UpdateThing on a bone of a bound object.  The nodes may be newer than the
\* object: the binding loop of the frame compares the races before the workers
\* of the update loop start.
Begin(a, b) ==
    /\ Running
    /\ at[a] = "idle"
    /\ bound[a] # NoRace
    /\ bone' = [bone EXCEPT ![a] = b]
    /\ found' = [found EXCEPT ![a] = {m \in {"pos", "rot"} :
                    HasBone(IF m = "pos" THEN origLocalPos ELSE origLocalRot, b)}]
    /\ Goto(a, "chest")
    /\ UNCHANGED <<race, pose, bound, origLocalPos, origLocalRot, origChestWorldRot>>

\* Mutant: the chest's rotation is saved under the bone in the inner map too.
StoreChestByBone(a) ==
    /\ Running
    /\ at[a] = "chest"
    /\ IF bone[a] \in BreastBones /\ race[a] \in ChestRaces
       THEN origChestWorldRot' = [origChestWorldRot EXCEPT ![bone[a]] = @ \cup {bone[a]}]
       ELSE UNCHANGED origChestWorldRot
    /\ Goto(a, "pos")
    /\ UNCHANGED <<race, pose, bound, origLocalPos, origLocalRot, bone, found>>

\* Whether origChestWorldRot has the bone is decided by whether origLocalRot
\* had it (end iterators of different maps are equal in a release build), and
\* at() throws when it has not.
StoreChest(a) ==
    /\ Running
    /\ at[a] = "chest"
    /\ IF bone[a] \in BreastBones /\ race[a] \in ChestRaces
       THEN IF "rot" \in found[a] /\ origChestWorldRot[bone[a]] = {}
            THEN Goto(a, "thrown") /\ UNCHANGED origChestWorldRot
            ELSE /\ origChestWorldRot' = [origChestWorldRot EXCEPT ![bone[a]] = @ \cup {a}]
                 /\ Goto(a, "pos")
       ELSE Goto(a, "pos") /\ UNCHANGED origChestWorldRot
    /\ UNCHANGED <<race, pose, bound, origLocalPos, origLocalRot, bone, found>>

\* Mutant: the position is saved whenever the bone is simulated.
StorePosAgain(a) ==
    /\ Running
    /\ at[a] = "pos"
    /\ origLocalPos' = [origLocalPos EXCEPT ![bone[a]][a] = pose[a][bone[a]]]
    /\ Goto(a, "rot")
    /\ UNCHANGED <<race, pose, bound, origLocalRot, origChestWorldRot, bone, found>>

StorePos(a) ==
    /\ Running
    /\ at[a] = "pos"
    /\ origLocalPos' = IF "pos" \notin found[a] \/ origLocalPos[bone[a]][a] = NoPose
                       THEN [origLocalPos EXCEPT ![bone[a]][a] = pose[a][bone[a]]]
                       ELSE origLocalPos
    /\ Goto(a, "rot")
    /\ UNCHANGED <<race, pose, bound, origLocalRot, origChestWorldRot, bone, found>>

\* Mutant: the rotation is saved for the first actor with the bone only.
StoreRotOnce(a) ==
    /\ Running
    /\ at[a] = "rot"
    /\ origLocalRot' = IF "rot" \notin found[a]
                       THEN [origLocalRot EXCEPT ![bone[a]][a] = pose[a][bone[a]]]
                       ELSE origLocalRot
    /\ Goto(a, "move")
    /\ UNCHANGED <<race, pose, bound, origLocalPos, origChestWorldRot, bone, found>>

StoreRot(a) ==
    /\ Running
    /\ at[a] = "rot"
    /\ origLocalRot' = IF "rot" \notin found[a] \/ origLocalRot[bone[a]][a] = NoPose
                       THEN [origLocalRot EXCEPT ![bone[a]][a] = pose[a][bone[a]]]
                       ELSE origLocalRot
    /\ Goto(a, "move")
    /\ UNCHANGED <<race, pose, bound, origLocalPos, origChestWorldRot, bone, found>>

\* The rest of UpdateThing: the saved transform again after a jump of the
\* actor, otherwise the saved transform and an offset; nothing for an actor
\* without a base skeleton.
Move(a) ==
    /\ Running
    /\ at[a] = "move"
    /\ \/ UNCHANGED pose
       \/ \E moved \in BOOLEAN :
            pose' = [pose EXCEPT ![a][bone[a]] =
                        [rest |-> origLocalPos[bone[a]][a].rest, moved |-> moved]]
    /\ Goto(a, "idle")
    /\ bone' = [bone EXCEPT ![a] = NoBone]
    /\ found' = [found EXCEPT ![a] = {}]
    /\ UNCHANGED <<race, bound, origLocalPos, origLocalRot, origChestWorldRot>>

-----------------------------------------------------------------------------
(* Simulation objects and the game *)

\* Bind makes new Things and Reset and a cell change destroy them; none of them
\* touches a bone's transform or the saved ones.
Bind(a) ==
    /\ Running
    /\ at[a] = "idle" /\ bound[a] = NoRace
    /\ bound' = [bound EXCEPT ![a] = race[a]]
    /\ UNCHANGED <<race, pose, origLocalPos, origLocalRot, origChestWorldRot, at, bone, found>>

Reset(a) ==
    /\ Running
    /\ at[a] = "idle" /\ bound[a] \notin {NoRace, race[a]}
    /\ bound' = [bound EXCEPT ![a] = NoRace]
    /\ UNCHANGED <<race, pose, origLocalPos, origLocalRot, origChestWorldRot, at, bone, found>>

\* Mutant: the maps are cleared with the simulation objects.
DropAllAndSaved ==
    /\ Running
    /\ \A a \in Actors : at[a] = "idle"
    /\ bound' = [a \in Actors |-> NoRace]
    /\ origLocalPos' = [b \in Bones |-> [a \in Actors |-> NoPose]]
    /\ origLocalRot' = [b \in Bones |-> [a \in Actors |-> NoPose]]
    /\ origChestWorldRot' = [b \in Bones |-> {}]
    /\ UNCHANGED <<race, pose, at, bone, found>>

DropAll ==
    /\ Running
    /\ \A a \in Actors : at[a] = "idle"
    /\ bound' = [a \in Actors |-> NoRace]
    /\ UNCHANGED <<race, pose, origLocalPos, origLocalRot, origChestWorldRot, at, bone, found>>

\* The game loads an actor's nodes anew, possibly of another race (also when a
\* form id is given to another actor).
LoadNodes(a) ==
    /\ Running
    /\ at[a] = "idle"
    /\ \E r \in Races :
        /\ race' = [race EXCEPT ![a] = r]
        /\ pose' = [pose EXCEPT ![a] = [b \in Bones |-> Rest(r)]]
    /\ UNCHANGED <<bound, origLocalPos, origLocalRot, origChestWorldRot, at, bone, found>>

Next ==
    \/ DropAll
    \/ \E a \in Actors :
        \/ \E b \in Bones : Begin(a, b)
        \/ StoreChest(a) \/ StorePos(a) \/ StoreRot(a) \/ Move(a)
        \/ Bind(a) \/ Reset(a) \/ LoadNodes(a)

Spec == Init /\ [][Next]_vars

-----------------------------------------------------------------------------
(* Properties *)

\* The shape of the state.
TypeOK ==
    /\ race \in [Actors -> Races]
    /\ pose \in [Actors -> [Bones -> Poses]]
    /\ bound \in [Actors -> Races \cup {NoRace}]
    /\ origLocalPos \in [Bones -> [Actors -> Poses \cup {NoPose}]]
    /\ origLocalRot \in [Bones -> [Actors -> Poses \cup {NoPose}]]
    /\ origChestWorldRot \in [Bones -> SUBSET Actors]
    /\ at \in [Actors -> {"idle", "chest", "pos", "rot", "move", "thrown"}]
    /\ bone \in [Actors -> Bones \cup {NoBone}]
    /\ found \in [Actors -> SUBSET {"pos", "rot"}]
    /\ \A a \in Actors : at[a] # "idle" => bone[a] \in Bones

\* What is saved as a bone's rest is what the game gave it, never a transform
\* with the plugin's own offset in it: across rebinds and cell changes offsets
\* do not pile up.
SavedUnmoved ==
    \A b \in Bones, a \in Actors :
        \A p \in {origLocalPos[b][a], origLocalRot[b][a]} : p # NoPose => ~p.moved

\* When a bone is moved, position and rotation are both saved, of one skeleton:
\* the reads at Thing.cpp:419-420, 554 and 620 never insert a zero transform.
\* It holds whichever workers race for the first entry of the bone.
MoveHasRest ==
    \A a \in Actors : at[a] = "move" =>
        /\ origLocalPos[bone[a]][a] # NoPose
        /\ origLocalRot[bone[a]][a] = origLocalPos[bone[a]][a]

\* A saved transform is never overwritten or lost, also not by a worker that
\* found the bone missing before another one added it.
SavedOnce ==
    [][\A b \in Bones, a \in Actors :
        /\ origLocalPos[b][a] # NoPose => origLocalPos'[b][a] = origLocalPos[b][a]
        /\ origLocalRot[b][a] # NoPose => origLocalRot'[b][a] = origLocalRot[b][a]]_vars

\* Thing.cpp:109, "Save the bones' original local values, per actor, if they
\* already haven't": the attempt never throws instead.
SavingSucceeds == Running
=============================================================================
