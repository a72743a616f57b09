---------------------------- MODULE ThingMotion ----------------------------
(***************************************************************************)
(* The motion of one bone of one actor, Thing::UpdateThing and the         *)
(* constructor (src/CBPSSE/Thing.cpp), under the loop of SimObj::Update    *)
(* (SimObj.cpp) and the toggles scripts set (PapyrusOCBP.cpp).             *)
(*                                                                         *)
(* Space has two axes, z the downward one, and integer distances; the      *)
(* skeleton, the bone's parent and rotateLinear stand at quarter turns, so *)
(* that turning from one space into another and back is exact.             *)
(* The sum of the substeps' displacements is any member of Pushes: what    *)
(* velocity, spring force and gravity bias add up to is not modelled, what *)
(* is done with the sum is.  The node's own rotation is left out.          *)
(*                                                                         *)
(* The worker reads boneIgnores in two steps.  The game, its scripts and   *)
(* the plugin's other steps may come between any two of them.              *)
(***************************************************************************)
EXTENDS Integers

CONSTANTS
    Bones, Bone,        \* names scripts toggle; the one whose motion this is
    Places,             \* where the animation may put the bone's rest in the world
    Settings,           \* [max, spread, cog, linear, supine : vectors, correction : a
                        \*  number, rotateLinear : quarter turns, timeTick : quarters
                        \*  of a millisecond, stable : whether the damping is]
    Pushes,             \* displacements the substeps may add up to
    Turns,              \* quarter turns the skeleton and the parent are seen at
    Garbage,            \* offsets an uninitialised rotation may give
    Limit,              \* DIFF_LIMIT
    LagCap,             \* no limit is larger, nor the lag a thing may begin with
    CogCap,             \* no setting's cog offset is longer
    NaN, NoThing, NoMap

Axes == {"x", "z"}
Vectors == [Axes -> Int]
Zero == [i \in Axes |-> 0]
Minus(v, w) == [i \in Axes |-> v[i] - w[i]]
Plus(v, w) == [i \in Axes |-> v[i] + w[i]]
Size(n) == IF n < 0 THEN -n ELSE n
Other(i) == IF i = "x" THEN "z" ELSE "x"
Scaled(v, w) == [i \in Axes |-> v[i] * w[i]]
Down(n) == [i \in Axes |-> IF i = "z" THEN n ELSE 0]
Within(v, n) == \A i \in Axes : Size(v[i]) <= n
Largest(v) == IF Size(v["x"]) >= Size(v["z"]) THEN Size(v["x"]) ELSE Size(v["z"])

\* How far settings let the bone go along any axis: what is clamped, and what is
\* multiplied and added after the last clamp.
Reach(s) == Largest(Scaled(s.max, s.linear)) + Largest(Scaled(s.supine, s.linear))
            + Size(s.correction * s.linear["z"])

ASSUME BoneAssumption == Bone \in Bones
ASSUME VectorsAssumption == Places \subseteq Vectors /\ Pushes \subseteq Vectors
                            /\ Garbage \subseteq Vectors \cup {NaN} /\ NaN \notin Vectors
ASSUME SettingsAssumption == \A s \in Settings :
    /\ s.max \in Vectors /\ s.spread \in Vectors /\ s.cog \in Vectors
    /\ s.linear \in Vectors /\ s.supine \in Vectors /\ s.correction \in Int
    /\ s.rotateLinear \in 0..3 /\ s.timeTick \in Int /\ s.stable \in BOOLEAN
ASSUME TurnsAssumption == Turns \subseteq 0..3
ASSUME LimitAssumption ==
    /\ Limit \in Nat /\ LagCap \in Nat /\ CogCap \in Nat
    /\ \A s \in Settings : Within(s.max, LagCap) /\ Within(s.cog, CogCap)

\* A Thing: the world position the bone was left at (NaN stands for it and the
\* velocity), whether the constructor found the skeleton, and if so the turn of
\* the parent it found (a turn of 0 stands for the uninitialised rotation).
Things == [oldWorldPos : Vectors \cup {NaN}, oriented : BOOLEAN, origWorldRot : 0..3]
Toggles == UNION {[B -> BOOLEAN] : B \in SUBSET Bones}

ASSUME NoValuesAssumption == NoThing \notin Things /\ NoMap \notin Toggles

VARIABLES
    rest,           \* origWorldPos: the saved rest, in the world
    turn,           \* quarter turns of the skeleton
    parentTurn,     \* quarter turns of the node's parent in the world
    skeleton,       \* GetBaseSkeleton finds it: the actor is valid and loaded
    offset,         \* of the bone's node from its saved rest, in the parent's space
    thing, settings, isEnabled,
    boneIgnores,    \* the actor's inner map, NoMap if the outer map has none
    at,             \* where the worker is
    seenAt,         \* history: rest when the thing last looked
    sound,          \* history: the thing began oriented, on a node that was in bounds
    held            \* history: toggled off since before the worker came

game == <<rest, turn, parentTurn, skeleton>>
object == <<thing, settings, isEnabled, seenAt, sound>>
vars == <<game, offset, object, boneIgnores, at, held>>

-----------------------------------------------------------------------------
(* Arithmetic *)

\* Thing.cpp's clamp(n, -max, max); a negative max makes the lower bound the
\* larger one.
Clamp(n, max) == IF n < -max THEN -max ELSE IF n > max THEN max ELSE n
Clamped(v, max) == [i \in Axes |-> Clamp(v[i], max[i])]

\* By 0, 1, 2 or 3 quarter turns.
Turned(q, v) ==
    [i \in Axes |-> IF q = 0 THEN v[i]
                    ELSE IF q = 2 THEN -v[i]
                    ELSE IF (q = 1) = (i = "x") THEN -v[Other(i)]
                    ELSE v[Other(i)]]
TurnedBack(q, v) == Turned((4 - q) % 4, v)

\* Mutant: nothing is clamped after the spread force.
SpreadUnclamped(v, s) ==
    LET inner == Clamped(v, s.max)
        excess == Minus(v, inner)
    IN  [i \in Axes |-> inner[i] + s.spread[i] * excess[Other(i)]]
\* What a clamp cuts off on one axis is added to the other, and clamped.
Spread(v, s) ==
    LET inner == Clamped(v, s.max)
        excess == Minus(v, inner)
    IN  Clamped([i \in Axes |-> inner[i] + s.spread[i] * excess[Other(i)]],
                s.max)

\* UpdateConfig: at least 1; in quarters.
EffectiveTick(raw) == IF raw <= 4 THEN 4 ELSE raw

\* deltaT of UpdateThing, whatever the clock did since.
DeltaT(elapsed) == IF elapsed > 64 THEN 64 ELSE IF elapsed < 8 THEN 8 ELSE elapsed

\* Mutant: the difference is rounded up.
RoundedUp(quarters) == (quarters + 3) \div 4
\* deltaT -= timeTick: the float difference is truncated toward zero.
Truncated(quarters) == IF quarters >= 0 THEN quarters \div 4 ELSE -((-quarters) \div 4)
\* The substeps of the do-while loop.
Substeps(tick) ==
    LET left(d) == Truncated(4 * d - tick)
        n[d \in 0..64] == 1 + (IF 4 * left(d) >= tick THEN n[left(d)] ELSE 0)
    IN  n

-----------------------------------------------------------------------------
(* The plugin *)

Init ==
    /\ rest \in Places /\ turn \in Turns /\ parentTurn \in Turns /\ skeleton = TRUE
    /\ offset = Zero
    /\ thing = NoThing /\ settings \in Settings /\ isEnabled = TRUE
    /\ boneIgnores = NoMap
    /\ at = "idle"
    /\ seenAt = rest /\ sound = FALSE /\ held = FALSE

\* Bind and AddBonesToThings: a Thing on the node, wherever the node is in the
\* world by now (the cog offset is not in it), and its settings.  Without the
\* skeleton the constructor returns early.
Construct ==
    /\ at = "idle" /\ thing = NoThing
    /\ thing' = [oldWorldPos |-> IF ~skeleton THEN Zero
                                 ELSE IF offset = NaN THEN NaN
                                 ELSE Plus(rest, TurnedBack(parentTurn, offset)),
                 oriented |-> skeleton,
                 origWorldRot |-> IF skeleton THEN parentTurn ELSE 0]
    /\ seenAt' = rest
    /\ sound' = (skeleton /\ offset # NaN /\ Within(offset, LagCap))
    /\ settings' \in Settings /\ isEnabled' \in BOOLEAN
    /\ UNCHANGED <<game, offset, boneIgnores, at, held>>

\* SimObj::UpdateConfigs after a reload or a change of outfit.
UpdateConfigs ==
    /\ at = "idle" /\ thing # NoThing
    /\ \/ settings' \in Settings /\ isEnabled' = TRUE
       \/ isEnabled' = FALSE /\ UNCHANGED settings
    /\ UNCHANGED <<game, offset, thing, seenAt, sound, boneIgnores, at, held>>

\* Mutant: the object may be dropped while the worker moves its bones.
DropAnytime ==
    /\ thing # NoThing
    /\ thing' = NoThing /\ sound' = FALSE
    /\ UNCHANGED <<game, offset, settings, isEnabled, seenAt, boneIgnores, at, held>>

\* SimObj::Reset, Bind's clear() and the end of the object with its cell.  The
\* node is left as it is.
Drop ==
    /\ at = "idle" /\ thing # NoThing
    /\ thing' = NoThing /\ sound' = FALSE
    /\ UNCHANGED <<game, offset, settings, isEnabled, seenAt, boneIgnores, at, held>>

\* GetBoneToggle.
GetBoneToggle(b) == boneIgnores # NoMap /\ b \in DOMAIN boneIgnores /\ boneIgnores[b]

\* SimObj::Update looks the actor up in boneIgnores; it returns at once without
\* a skeleton.
FindActor ==
    /\ at = "idle" /\ thing # NoThing /\ skeleton
    /\ at' = IF boneIgnores = NoMap THEN "enabled" ELSE "inner"
    /\ held' = GetBoneToggle(Bone)
    /\ UNCHANGED <<game, offset, object, boneIgnores>>

\* Mutant: a bone is off as soon as a script has named it.
FindBoneNamed ==
    /\ at = "inner"
    /\ at' = IF Bone \notin DOMAIN boneIgnores THEN "idle" ELSE "enabled"
    /\ held' = (held /\ at' # "idle")
    /\ UNCHANGED <<game, offset, object, boneIgnores>>

FindBone ==
    /\ at = "inner"
    /\ at' = IF Bone \in DOMAIN boneIgnores /\ boneIgnores[Bone] THEN "idle" ELSE "enabled"
    /\ held' = (held /\ at' # "idle")
    /\ UNCHANGED <<game, offset, object, boneIgnores>>

\* The inner map was freed under the worker: the search may find the old value,
\* nothing, or end the game.
FindBoneFreed ==
    /\ at = "freed"
    /\ at' \in {"idle", "enabled", "crashed"}
    /\ held' = (held /\ at' # "idle")
    /\ UNCHANGED <<game, offset, object, boneIgnores>>

\* The cog offset is in skeleton space.
Target == Plus(rest, TurnedBack(turn, settings.cog))
Diff == Minus(Target, thing.oldWorldPos)
Far(v) == \E i \in Axes : Size(v[i]) > Limit
\* fabs of NaN is greater than nothing.
Jumped == thing.oldWorldPos # NaN /\ Far(Diff)

LeftAt(pos) == [thing EXCEPT !.oldWorldPos = pos]

\* After a jump the saved rest again, and no motion.
ResetTransform ==
    /\ Jumped
    /\ offset' = Zero
    /\ thing' = LeftAt(Target)

\* What is done with a displacement that was clamped in the world: turned into
\* skeleton space, spread and clamped, multiplied by linearX/Y/Z, turned back;
\* gravitySupine is added (as the breast lies: none or all stand for the ratio),
\* all turned by rotatedInvWorldTrans, and gravityCorrection added last.
Placed(diff, supine) ==
    LET linear == settings.linear
        moved == Scaled(Spread(Turned(turn, diff), settings), linear)
        inWorld == Plus(TurnedBack(turn, moved), Scaled(supine, linear))
        pulled == TurnedBack(turn, Down(settings.correction * linear["z"]))
    IN  Plus(Turned(settings.rotateLinear, Turned(thing.origWorldRot, inWorld)),
             Turned(settings.rotateLinear, Turned(parentTurn, pulled)))

\* Mutant: the bone's world position is kept as it tended to, not as clamped.
MoveBoneLagging ==
    /\ ~Jumped /\ thing.oldWorldPos # NaN
    /\ \E push \in Pushes, supine \in {Zero, settings.supine} :
        LET newPos == Plus(thing.oldWorldPos, push)
            diff == Clamped(Minus(newPos, Target), settings.max)
        IN  /\ thing' = LeftAt(newPos)
            /\ IF thing.oriented
               THEN offset' = Placed(diff, supine)
               ELSE offset' \in Garbage

MoveBone ==
    /\ ~Jumped /\ thing.oldWorldPos # NaN
    /\ \E push \in Pushes, supine \in {Zero, settings.supine} :
        LET diff == Clamped(Minus(Plus(thing.oldWorldPos, push), Target), settings.max)
        IN  /\ thing' = LeftAt(Plus(diff, Target))
            /\ IF thing.oriented
               THEN offset' = Placed(diff, supine)
               ELSE offset' \in Garbage

\* Damping that overshoots, or a rotation that was never set, ends in NaN, and
\* clamp lets NaN pass.
MoveToNaN ==
    /\ ~Jumped
    /\ thing.oldWorldPos = NaN \/ ~settings.stable \/ ~thing.oriented
    /\ thing' = LeftAt(NaN)
    /\ offset' = NaN

UpdateThing ==
    /\ at = "enabled" /\ at' = "idle"
    /\ IF isEnabled /\ skeleton
       THEN (ResetTransform \/ MoveBone \/ MoveToNaN) /\ seenAt' = rest
       ELSE UNCHANGED <<offset, thing, seenAt>>
    /\ held' = FALSE
    /\ UNCHANGED <<game, settings, isEnabled, sound, boneIgnores>>

-----------------------------------------------------------------------------
(* Scripts and the game *)

SetBoneToggle(b, toggle) ==
    /\ boneIgnores' = [c \in (IF boneIgnores = NoMap THEN {} ELSE DOMAIN boneIgnores) \cup {b} |->
                          IF c = b THEN toggle ELSE boneIgnores[c]]
    /\ held' = (held /\ (b = Bone => toggle))
    /\ UNCHANGED <<game, offset, object, at>>

\* clear() of the outer map frees the inner one the worker may hold.
ClearBoneToggles ==
    /\ boneIgnores' = NoMap
    /\ held' = FALSE
    /\ at' = IF at = "inner" THEN "freed" ELSE at
    /\ UNCHANGED <<game, offset, object>>

\* The actor moves, turns, or is invalid or without its nodes for a while.
MoveActor ==
    /\ \/ rest' \in Places /\ UNCHANGED <<turn, parentTurn, skeleton>>
       \/ turn' \in Turns /\ UNCHANGED <<rest, parentTurn, skeleton>>
       \/ parentTurn' \in Turns /\ UNCHANGED <<rest, turn, skeleton>>
       \/ skeleton' = ~skeleton /\ UNCHANGED <<rest, turn, parentTurn>>
    /\ UNCHANGED <<offset, object, boneIgnores, at, held>>

\* The nodes are loaded anew, at rest.
LoadNodes ==
    /\ at = "idle"
    /\ offset' = Zero
    /\ UNCHANGED <<game, object, boneIgnores, at, held>>

Next ==
    /\ at # "crashed"
    /\ \/ Construct \/ UpdateConfigs \/ Drop
       \/ FindActor \/ FindBone \/ FindBoneFreed \/ UpdateThing
       \/ \E b \in Bones, toggle \in BOOLEAN : SetBoneToggle(b, toggle)
       \/ ClearBoneToggles
       \/ MoveActor \/ LoadNodes

Spec == Init /\ [][Next]_vars

-----------------------------------------------------------------------------
(* Properties *)

\* For which settings do the substeps of every frame, whatever the clock did,
\* fit into the frame's time and leave no room for another one?
FitsFrame ==
    [s \in Settings |->
        LET tick == EffectiveTick(s.timeTick)
            n == Substeps(tick)
        IN  \A elapsed \in -1..70 :
                LET d == DeltaT(elapsed)
                IN  /\ n[d] = 1 \/ n[d] * tick <= 4 * d
                    /\ (n[d] + 1) * (tick + 4) > 4 * d]

\* The shape of the state.
TypeOK ==
    /\ rest \in Places /\ turn \in Turns /\ parentTurn \in Turns /\ skeleton \in BOOLEAN
    /\ offset \in Vectors \cup {NaN}
    /\ thing \in Things \cup {NoThing}
    /\ settings \in Settings /\ isEnabled \in BOOLEAN
    /\ boneIgnores \in Toggles \cup {NoMap}
    /\ at \in {"idle", "inner", "freed", "enabled", "crashed"}
    /\ seenAt \in Places /\ sound \in BOOLEAN /\ held \in BOOLEAN
    /\ at \in {"inner", "freed", "enabled"} => thing # NoThing
    /\ at = "inner" => boneIgnores # NoMap

\* PapyrusOCBP.cpp:27, SimObj.cpp:138-150: a bone that is toggled off when the
\* worker comes, and stays so, is not moved, whatever is toggled and cleared for
\* other bones meanwhile.
ToggleHonoured == at = "enabled" => ~held

\* Thing.cpp:486-589: an oriented bone is never put further from its rest, along
\* any axis of its parent, than the settings of that moment reach: the limits by
\* the linear factors, and what gravitySupine and gravityCorrection add to them
\* after the last clamp; whatever the rotations, the spread forces and the lag,
\* also with a negative limit.
OffsetBounded ==
    [][at = "enabled" /\ offset' # offset /\ thing.oriented /\ offset' # NaN
        => Within(offset', Reach(settings))]_vars

\* Thing.cpp:416: the transform is reset only if the bone's rest moved in the
\* world since the thing last looked, by what the limit leaves beyond the lag it
\* carries over (Thing.cpp:546, or from an earlier object through the node) and
\* a cog offset that was edited or turned with the actor (389; the constructor
\* leaves it out, 57).  Nothing adds up from frame to frame or rebind to rebind.
NoSpuriousReset ==
    at = "enabled" /\ sound /\ Jumped =>
        \E i \in Axes : Size(rest[i] - seenAt[i]) > Limit - LagCap - 2 * CogCap

\* Thing.cpp:462-471: at least one substep, no more than the frame has time for
\* after it, and none lost, for every clamped frame time and fractional tick.
SubstepsFitFrame == FitsFrame[settings]
=============================================================================
