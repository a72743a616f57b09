------------------------- MODULE ThingMotion_proofs -------------------------
(***************************************************************************)
(* Proofs about ThingMotion: for any places, settings and pushes an        *)
(* oriented bone stays within its reach, is never reset without cause,     *)
(* and is left alone while it is toggled off, and the substeps of a frame  *)
(* fit its time.                                                           *)
(***************************************************************************)
EXTENDS ThingMotion, WellFoundedInduction, TLAPS

-----------------------------------------------------------------------------
(* Arithmetic *)

\* A clamped number is no larger than the limit, also if that is negative.
LEMMA ClampBounds ==
    ASSUME NEW n \in Int, NEW max \in Int
    PROVE  Clamp(n, max) \in Int /\ Size(Clamp(n, max)) <= Size(max)
    BY DEF Clamp, Size

\* No axis of v is longer than that of w.
Inside(v, w) == \A i \in Axes : Size(v[i]) <= Size(w[i])

LEMMA ClampedVector ==
    ASSUME NEW v \in Vectors, NEW max \in Vectors
    PROVE  Clamped(v, max) \in Vectors /\ Inside(Clamped(v, max), max)
<1>1. \A i \in Axes : v[i] \in Int /\ max[i] \in Int
    BY DEF Vectors
<1>2. \A i \in Axes : Clamp(v[i], max[i]) \in Int
                      /\ Size(Clamp(v[i], max[i])) <= Size(max[i])
    BY <1>1, ClampBounds
<1> QED
    BY <1>2 DEF Clamped, Vectors, Inside

\* What is inside is within whatever bounds the outer one.
LEMMA InsideWithin ==
    ASSUME NEW v \in Vectors, NEW w \in Vectors, Inside(v, w), NEW n \in Int, Within(w, n)
    PROVE  Within(v, n)
<1>1. \A i \in Axes : Size(v[i]) \in Int /\ Size(w[i]) \in Int
    BY DEF Vectors, Size
<1> QED
    BY <1>1 DEF Inside, Within

\* Turning exchanges and negates axes.
LEMMA TurnedAxes ==
    ASSUME NEW q \in 0..3, NEW v \in Vectors
    PROVE  /\ Turned(q, v) \in Vectors
           /\ \A i \in Axes : \E j \in Axes : Turned(q, v)[i] \in {v[j], -v[j]}
<1>1. v["x"] \in Int /\ v["z"] \in Int
    BY DEF Vectors, Axes
<1>2. \A i \in Axes : i = "x" \/ i = "z"
    BY DEF Axes
<1>3. "x" \in Axes /\ "z" \in Axes
    BY DEF Axes
<1>4. Turned(q, v) \in Vectors
    BY <1>1, <1>2 DEF Turned, Vectors, Other
<1>5. ASSUME NEW i \in Axes
      PROVE  \E j \in Axes : Turned(q, v)[i] \in {v[j], -v[j]}
    <2>1. Turned(q, v)[i] \in {v["x"], -v["x"], v["z"], -v["z"]}
        BY <1>2, <1>1 DEF Turned, Other
    <2> QED
        BY <2>1, <1>3
<1> QED
    BY <1>4, <1>5

LEMMA TurnedWithin ==
    ASSUME NEW q \in 0..3, NEW v \in Vectors, NEW n \in Int, Within(v, n)
    PROVE  Turned(q, v) \in Vectors /\ Within(Turned(q, v), n)
<1>1. ASSUME NEW i \in Axes PROVE Size(Turned(q, v)[i]) <= n
    <2>1. PICK j \in Axes : Turned(q, v)[i] \in {v[j], -v[j]}
        BY TurnedAxes
    <2>2. v[j] \in Int /\ Size(v[j]) <= n
        BY DEF Vectors, Within
    <2> QED
        BY <2>1, <2>2 DEF Size
<1> QED
    BY <1>1, TurnedAxes DEF Within

LEMMA TurnedBackWithin ==
    ASSUME NEW q \in 0..3, NEW v \in Vectors
    PROVE  /\ TurnedBack(q, v) \in Vectors
           /\ \A n \in Int : Within(v, n) => Within(TurnedBack(q, v), n)
<1>1. (4 - q) % 4 \in 0..3
    OBVIOUS
<1> QED
    BY <1>1, TurnedAxes, TurnedWithin DEF TurnedBack

LEMMA SumsAreVectors ==
    ASSUME NEW v \in Vectors, NEW w \in Vectors
    PROVE  /\ Plus(v, w) \in Vectors /\ Minus(v, w) \in Vectors /\ Zero \in Vectors
           /\ Scaled(v, w) \in Vectors
    BY DEF Plus, Minus, Zero, Scaled, Vectors

LEMMA SumWithin ==
    ASSUME NEW v \in Vectors, NEW w \in Vectors, NEW m \in Int, NEW n \in Int,
           Within(v, m), Within(w, n)
    PROVE  Within(Plus(v, w), m + n)
<1>1. \A i \in Axes : v[i] \in Int /\ w[i] \in Int /\ Plus(v, w)[i] = v[i] + w[i]
    BY DEF Vectors, Plus
<1> QED
    BY <1>1 DEF Within, Size

\* A vector's largest axis bounds it.
LEMMA LargestBounds ==
    ASSUME NEW v \in Vectors
    PROVE  Largest(v) \in Nat /\ Within(v, Largest(v))
<1>1. v["x"] \in Int /\ v["z"] \in Int /\ \A i \in Axes : i = "x" \/ i = "z"
    BY DEF Vectors, Axes
<1> QED
    BY <1>1 DEF Largest, Within, Size

LEMMA ScaledInside ==
    ASSUME NEW v \in Vectors, NEW w \in Vectors, NEW l \in Vectors, Inside(v, w)
    PROVE  Within(Scaled(v, l), Largest(Scaled(w, l)))
<1>1. ASSUME NEW a \in Int, NEW b \in Int, NEW c \in Int, Size(a) <= Size(b)
      PROVE  Size(a * c) <= Size(b * c)
    <2>1. \A d \in Int : d * c \in Int /\ (-d) * c = -(d * c) /\ d * (-c) = -(d * c)
        OBVIOUS
    <2>2. \A d, e, f \in Nat : d <= e => d * f <= e * f
        OBVIOUS
    <2>3. \A d \in Int : Size(d) \in Nat /\ (Size(d) = d \/ Size(d) = -d)
        BY DEF Size
    <2>4. Size(a) * Size(c) <= Size(b) * Size(c)
        BY <1>1, <2>2, <2>3
    <2>5. ASSUME NEW d \in Int PROVE Size(d * c) = Size(d) * Size(c)
        <3>1. Size(d) * Size(c) \in {d * c, -(d * c)}
            <4>1. (-d) * c = -(d * c) /\ d * (-c) = -(d * c) /\ (-d) * (-c) = d * c
                OBVIOUS
            <4>2. CASE Size(d) = d
                BY <4>1, <4>2, <2>3
            <4>3. CASE Size(d) = -d
                BY <4>1, <4>3, <2>3
            <4> QED
                BY <4>2, <4>3, <2>3
        <3>2. Size(d) * Size(c) \in Nat
            BY <2>3
        <3> QED
            BY <2>1, <3>1, <3>2 DEF Size
    <2> QED
        BY <2>4, <2>5
<1>2. \A i \in Axes : v[i] \in Int /\ w[i] \in Int /\ l[i] \in Int
    BY DEF Vectors
<1>3. Inside(Scaled(v, l), Scaled(w, l))
    BY <1>1, <1>2 DEF Inside, Scaled
<1> QED
    BY <1>3, SumsAreVectors, LargestBounds, InsideWithin

LEMMA SpreadInside ==
    ASSUME NEW v \in Vectors, NEW s \in Settings
    PROVE  Spread(v, s) \in Vectors /\ Inside(Spread(v, s), s.max)
<1>1. s.max \in Vectors /\ s.spread \in Vectors
    BY SettingsAssumption
<1> DEFINE inner == Clamped(v, s.max)
<1> DEFINE excess == Minus(v, inner)
<1> DEFINE spread == [i \in Axes |-> inner[i] + s.spread[i] * excess[Other(i)]]
<1>2. inner \in Vectors
    BY <1>1, ClampedVector
<1>3. excess \in Vectors
    BY <1>2, SumsAreVectors
<1>4. spread \in Vectors
    <2>1. ASSUME NEW i \in Axes
          PROVE  inner[i] + s.spread[i] * excess[Other(i)] \in Int
        <3>1. Other(i) \in Axes
            BY DEF Axes, Other
        <3>2. inner[i] \in Int /\ s.spread[i] \in Int /\ excess[Other(i)] \in Int
            BY <1>1, <1>2, <1>3, <3>1 DEF Vectors
        <3> HIDE DEF inner, excess
        <3> QED
            BY <3>2
    <2> QED
        BY <2>1 DEF Vectors
<1>5. Spread(v, s) = Clamped(spread, s.max)
    BY DEF Spread
<1> HIDE DEF spread
<1> QED
    BY <1>1, <1>4, <1>5, ClampedVector

-----------------------------------------------------------------------------
(* Type correctness *)

LEMMA ThingType ==
    ASSUME NEW v \in Vectors \cup {NaN}, NEW o \in BOOLEAN, NEW q \in 0..3
    PROVE  [oldWorldPos |-> v, oriented |-> o, origWorldRot |-> q] \in Things
    BY DEF Things

LEMMA ThingFields ==
    ASSUME TypeOK, thing # NoThing
    PROVE  /\ thing \in Things /\ thing.oldWorldPos \in Vectors \cup {NaN}
           /\ thing.oriented \in BOOLEAN /\ thing.origWorldRot \in 0..3
    BY DEF TypeOK, Things

\* A thing whose bone is left somewhere else is a thing still.
LEMMA LeftThing ==
    ASSUME TypeOK, thing # NoThing, NEW v \in Vectors \cup {NaN}
    PROVE  LeftAt(v) \in Things /\ LeftAt(v).oldWorldPos = v /\ LeftAt(v).oriented = thing.oriented
    BY ThingFields DEF Things, LeftAt

LEMMA GameVectors ==
    ASSUME TypeOK
    PROVE  /\ rest \in Vectors /\ seenAt \in Vectors /\ turn \in 0..3 /\ parentTurn \in 0..3
           /\ settings \in Settings /\ settings.max \in Vectors /\ settings.cog \in Vectors
           /\ settings.linear \in Vectors /\ settings.supine \in Vectors
           /\ settings.correction \in Int /\ settings.rotateLinear \in 0..3
    BY VectorsAssumption, TurnsAssumption, SettingsAssumption DEF TypeOK

\* The target is the rest but for the cog offset.
LEMMA TargetNearRest ==
    ASSUME TypeOK
    PROVE  /\ Target \in Vectors
           /\ \A i \in Axes : Size(Target[i] - rest[i]) <= CogCap
<1> DEFINE cog == TurnedBack(turn, settings.cog)
<1>1. Within(settings.cog, CogCap) /\ CogCap \in Int
    BY GameVectors, LimitAssumption
<1>2. cog \in Vectors /\ Within(cog, CogCap)
    BY <1>1, GameVectors, TurnedBackWithin
<1>3. Target = Plus(rest, cog)
    BY DEF Target
<1> HIDE DEF cog
<1>4. \A i \in Axes : rest[i] \in Int /\ cog[i] \in Int /\ Target[i] = rest[i] + cog[i]
    BY <1>2, <1>3, GameVectors DEF Plus, Vectors
<1>5. \A i \in Axes : Target[i] - rest[i] = cog[i]
    BY <1>4
<1> QED
    BY <1>2, <1>3, <1>5, GameVectors, SumsAreVectors DEF Within

\* Wherever a bone is put, it is within the settings' reach.
LEMMA PlacedWithin ==
    ASSUME TypeOK, thing # NoThing, NEW diff \in Vectors,
           NEW supine \in {Zero, settings.supine}
    PROVE  Placed(diff, supine) \in Vectors /\ Within(Placed(diff, supine), Reach(settings))
<1> DEFINE linear == settings.linear
           spread == Spread(Turned(turn, diff), settings)
           moved == Scaled(spread, linear)
           extra == Scaled(supine, linear)
           inWorld == Plus(TurnedBack(turn, moved), extra)
           n == settings.correction * linear["z"]
           down == Down(n)
           pulled == TurnedBack(turn, down)
           m1 == Largest(Scaled(settings.max, linear))
           m2 == Largest(Scaled(settings.supine, linear))
           parent(v, q) == Turned(settings.rotateLinear, Turned(q, v))
<1> USE GameVectors, ThingFields
<1>1. spread \in Vectors /\ Inside(spread, settings.max)
    BY TurnedAxes, SpreadInside
<1>2. m1 \in Nat /\ m2 \in Nat
    BY SumsAreVectors, LargestBounds
<1>3. moved \in Vectors /\ Within(moved, m1)
    BY <1>1, SumsAreVectors, ScaledInside
<1>4. extra \in Vectors /\ Within(extra, m2)
    <2>1. supine \in Vectors /\ Inside(supine, settings.supine)
        <3>1. \A i \in Axes : settings.supine[i] \in Int /\ Zero[i] = 0
            BY DEF Vectors, Zero
        <3>2. \A i \in Axes : Size(Zero[i]) <= Size(settings.supine[i])
                              /\ Size(settings.supine[i]) <= Size(settings.supine[i])
            BY <3>1 DEF Size
        <3> QED
            BY <3>2, SumsAreVectors DEF Inside
    <2> QED
        BY <2>1, SumsAreVectors, ScaledInside
<1>5. TurnedBack(turn, moved) \in Vectors /\ Within(TurnedBack(turn, moved), m1)
    <2> HIDE DEF moved, m1
    <2> QED
        BY <1>2, <1>3, TurnedBackWithin
<1>6. inWorld \in Vectors /\ Within(inWorld, m1 + m2)
    <2> HIDE DEF extra, m1, m2, moved
    <2> QED
        BY <1>2, <1>4, <1>5, SumsAreVectors, SumWithin
<1>7. down \in Vectors /\ Within(down, Size(n)) /\ Size(n) \in Nat
    <2>1. n \in Int
        BY DEF Vectors, Axes
    <2> HIDE DEF n
    <2> QED
        BY <2>1 DEF Down, Vectors, Within, Size
<1>8. pulled \in Vectors /\ Within(pulled, Size(n))
    <2> HIDE DEF down, n
    <2> QED
        BY <1>7, TurnedBackWithin
<1>9. ASSUME NEW v \in Vectors, NEW k \in Int, Within(v, k), NEW q \in 0..3
      PROVE  parent(v, q) \in Vectors /\ Within(parent(v, q), k)
    BY <1>9, TurnedWithin
<1>10. parent(inWorld, thing.origWorldRot) \in Vectors
       /\ Within(parent(inWorld, thing.origWorldRot), m1 + m2)
    <2> HIDE DEF inWorld, m1, m2, parent
    <2> QED
        BY <1>2, <1>6, <1>9
<1>11. parent(pulled, parentTurn) \in Vectors /\ Within(parent(pulled, parentTurn), Size(n))
    <2> HIDE DEF pulled, n, parent
    <2> QED
        BY <1>7, <1>8, <1>9
<1>12. Placed(diff, supine) = Plus(parent(inWorld, thing.origWorldRot), parent(pulled, parentTurn))
    BY DEF Placed
<1>13. Reach(settings) = m1 + m2 + Size(n)
    BY DEF Reach
<1> HIDE DEF inWorld, pulled, m1, m2, n, parent
<1> QED
    BY <1>2, <1>7, <1>10, <1>11, <1>12, <1>13, SumsAreVectors, SumWithin

LEMMA ConstructType ==
    ASSUME TypeOK, Construct PROVE TypeOK' /\ thing' \in Things
<1>1. thing' \in Things
    <2> DEFINE q == IF skeleton THEN parentTurn ELSE 0
               pos == IF ~skeleton THEN Zero
                      ELSE IF offset = NaN THEN NaN
                      ELSE Plus(rest, TurnedBack(parentTurn, offset))
    <2>1. q \in 0..3 /\ skeleton \in BOOLEAN
        BY GameVectors DEF TypeOK
    <2>2. pos \in Vectors \cup {NaN}
        <3>1. offset \in Vectors => TurnedBack(parentTurn, offset) \in Vectors
            BY GameVectors, TurnedBackWithin
        <3> QED
            BY <3>1, GameVectors, SumsAreVectors DEF TypeOK
    <2>3. thing' = [oldWorldPos |-> pos, oriented |-> skeleton, origWorldRot |-> q]
        BY DEF Construct
    <2> HIDE DEF q, pos
    <2> QED
        BY <2>1, <2>2, <2>3, ThingType
<1>2. sound' \in BOOLEAN
    BY DEF Construct, TypeOK
<1>3. settings' \in Settings /\ isEnabled' \in BOOLEAN /\ seenAt' \in Places
    BY DEF Construct, TypeOK
<1> QED
    BY <1>1, <1>2, <1>3 DEF Construct, TypeOK, game

\* Where MoveBone takes the bone and its node.
LEMMA MoveBoneResult ==
    ASSUME TypeOK, thing # NoThing, MoveBone
    PROVE  \E diff \in Vectors :
            /\ Inside(diff, settings.max)
            /\ thing' = LeftAt(Plus(diff, Target))
            /\ IF thing.oriented
               THEN offset' \in Vectors /\ Within(offset', Reach(settings))
               ELSE offset' \in Garbage
<1>1. thing.oldWorldPos \in Vectors
    BY ThingFields DEF MoveBone
<1>2. PICK push \in Pushes, supine \in {Zero, settings.supine} :
        LET diff == Clamped(Minus(Plus(thing.oldWorldPos, push), Target), settings.max)
        IN  /\ thing' = LeftAt(Plus(diff, Target))
            /\ IF thing.oriented
               THEN offset' = Placed(diff, supine)
               ELSE offset' \in Garbage
    BY DEF MoveBone
<1> DEFINE diff == Clamped(Minus(Plus(thing.oldWorldPos, push), Target), settings.max)
<1>3. push \in Vectors
    BY VectorsAssumption
<1>4. Minus(Plus(thing.oldWorldPos, push), Target) \in Vectors
    BY <1>1, <1>3, TargetNearRest, SumsAreVectors
<1>5. diff \in Vectors /\ Inside(diff, settings.max)
    BY <1>4, GameVectors, ClampedVector
<1>6. /\ thing' = LeftAt(Plus(diff, Target))
      /\ IF thing.oriented
         THEN offset' = Placed(diff, supine)
         ELSE offset' \in Garbage
    BY <1>2
<1> HIDE DEF diff
<1>7. Placed(diff, supine) \in Vectors /\ Within(Placed(diff, supine), Reach(settings))
    BY <1>5, PlacedWithin
<1> QED
    BY <1>5, <1>6, <1>7

LEMMA UpdateThingType ==
    ASSUME TypeOK, UpdateThing PROVE TypeOK' /\ thing' \in Things
<1>1. thing \in Things /\ thing # NoThing
    BY ThingFields DEF UpdateThing, TypeOK
<1>2. thing' \in Things /\ offset' \in Vectors \cup {NaN}
    <2>1. CASE ResetTransform
        BY <2>1, <1>1, TargetNearRest, SumsAreVectors, LeftThing DEF ResetTransform
    <2>2. CASE MoveBone
        <3>1. PICK diff \in Vectors :
                /\ thing' = LeftAt(Plus(diff, Target))
                /\ offset' \in Vectors \/ offset' \in Garbage
            BY <2>2, <1>1, MoveBoneResult
        <3>2. Plus(diff, Target) \in Vectors
            BY TargetNearRest, SumsAreVectors
        <3> QED
            BY <3>1, <3>2, <1>1, LeftThing, VectorsAssumption
    <2>3. CASE MoveToNaN
        BY <2>3, <1>1, LeftThing DEF MoveToNaN
    <2>4. CASE UNCHANGED <<offset, thing>>
        BY <2>4, <1>1 DEF TypeOK
    <2> QED
        BY <2>1, <2>2, <2>3, <2>4 DEF UpdateThing
<1>3. seenAt' \in Places
    BY DEF UpdateThing, TypeOK
<1> QED
    BY <1>2, <1>3 DEF UpdateThing, TypeOK, game

LEMMA SetBoneToggleType ==
    ASSUME TypeOK, NEW b \in Bones, NEW toggle \in BOOLEAN, SetBoneToggle(b, toggle)
    PROVE  TypeOK' /\ boneIgnores' # NoMap
<1> DEFINE named == (IF boneIgnores = NoMap THEN {} ELSE DOMAIN boneIgnores) \cup {b}
<1>1. named \in SUBSET Bones
    BY DEF TypeOK, Toggles
<1>2. \A c \in named : (IF c = b THEN toggle ELSE boneIgnores[c]) \in BOOLEAN
    <2>1. CASE boneIgnores = NoMap
        BY <2>1
    <2>2. CASE boneIgnores # NoMap
        <3>1. PICK B \in SUBSET Bones : boneIgnores \in [B -> BOOLEAN]
            BY <2>2 DEF TypeOK, Toggles
        <3> QED
            BY <2>2, <3>1
    <2> QED
        BY <2>1, <2>2
<1>3. boneIgnores' = [c \in named |-> IF c = b THEN toggle ELSE boneIgnores[c]]
    BY DEF SetBoneToggle
<1>4. boneIgnores' \in [named -> BOOLEAN]
    BY <1>2, <1>3
<1>5. boneIgnores' \in Toggles /\ boneIgnores' # NoMap
    BY <1>1, <1>4, NoValuesAssumption DEF Toggles
<1>6. held' \in BOOLEAN
    BY DEF SetBoneToggle, TypeOK
<1> QED
    BY <1>5, <1>6 DEF SetBoneToggle, TypeOK, game, object

LEMMA TypeNext ==
    ASSUME TypeOK, [Next]_vars PROVE TypeOK'
<1>1. CASE Construct
    BY <1>1, ConstructType
<1>2. CASE UpdateConfigs
    BY <1>2 DEF UpdateConfigs, TypeOK, game
<1>3. CASE Drop
    BY <1>3 DEF Drop, TypeOK, game
<1>4. CASE FindActor
    <2>1. held' \in BOOLEAN
        BY <1>4 DEF FindActor, TypeOK, GetBoneToggle, Toggles
    <2> QED
        BY <1>4, <2>1 DEF FindActor, TypeOK, game, object
<1>5. CASE FindBone \/ FindBoneFreed
    <2>1. held' \in BOOLEAN /\ at' \in {"idle", "enabled", "crashed"}
        BY <1>5 DEF FindBone, FindBoneFreed, TypeOK
    <2> QED
        BY <1>5, <2>1 DEF FindBone, FindBoneFreed, TypeOK, game, object
<1>6. CASE UpdateThing
    BY <1>6, UpdateThingType
<1>7. ASSUME NEW b \in Bones, NEW toggle \in BOOLEAN, SetBoneToggle(b, toggle)
      PROVE  TypeOK'
    BY <1>7, SetBoneToggleType
<1>8. CASE ClearBoneToggles
    BY <1>8 DEF ClearBoneToggles, TypeOK, game, object
<1>9. CASE MoveActor
    <2>1. rest' \in Places /\ turn' \in Turns /\ parentTurn' \in Turns /\ skeleton' \in BOOLEAN
        BY <1>9 DEF MoveActor, TypeOK
    <2> QED
        BY <1>9, <2>1 DEF MoveActor, TypeOK, object
<1>10. CASE LoadNodes
    BY <1>10, SumsAreVectors DEF LoadNodes, TypeOK, game, object, Zero, Vectors
<1>11. CASE UNCHANGED vars
    BY <1>11 DEF vars, game, object, TypeOK
<1> QED
    BY <1>1, <1>2, <1>3, <1>4, <1>5, <1>6, <1>7, <1>8, <1>9, <1>10, <1>11 DEF Next

\* Every state has its shape: a worker always holds a thing, and an inner map
\* only if there is one (SimObj.cpp:124-158, PapyrusOCBP.cpp:25-49).
THEOREM TypeCorrect == Spec => []TypeOK
<1>1. ASSUME Init PROVE TypeOK
    <2>1. Zero \in Vectors
        BY DEF Zero, Vectors
    <2> QED
        BY <1>1, <2>1 DEF Init, TypeOK
<1>2. TypeOK /\ [Next]_vars => TypeOK'
    BY TypeNext
<1> QED
    BY <1>1, <1>2, PTL DEF Spec

-----------------------------------------------------------------------------
(* Toggles *)

\* A worker knows of a toggle it came under only while it holds the inner map,
\* and then the map still says so.
HeldInside == held => at = "inner" /\ GetBoneToggle(Bone)

LEMMA HeldNext ==
    ASSUME TypeOK, HeldInside, [Next]_vars PROVE HeldInside'
<1> USE DEF HeldInside
<1>1. CASE Construct \/ UpdateConfigs \/ Drop \/ MoveActor \/ LoadNodes
    BY <1>1 DEF Construct, UpdateConfigs, Drop, MoveActor, LoadNodes, GetBoneToggle
<1>2. CASE FindActor
    <2>1. held' => boneIgnores # NoMap /\ GetBoneToggle(Bone)
        BY <1>2 DEF FindActor, GetBoneToggle
    <2> QED
        BY <1>2, <2>1 DEF FindActor, GetBoneToggle
<1>3. CASE FindBone
    <2>1. held' => held /\ at' # "idle"
        BY <1>3 DEF FindBone
    <2>2. held => at' = "idle"
        BY <1>3 DEF FindBone, GetBoneToggle
    <2> QED
        BY <2>1, <2>2
<1>4. CASE FindBoneFreed
    BY <1>4 DEF FindBoneFreed
<1>5. CASE UpdateThing
    BY <1>5 DEF UpdateThing
<1>6. ASSUME NEW b \in Bones, NEW toggle \in BOOLEAN, SetBoneToggle(b, toggle)
      PROVE  HeldInside'
    <2> DEFINE named == (IF boneIgnores = NoMap THEN {} ELSE DOMAIN boneIgnores) \cup {b}
    <2>1. boneIgnores' = [c \in named |-> IF c = b THEN toggle ELSE boneIgnores[c]]
        BY <1>6 DEF SetBoneToggle
    <2>2. SUFFICES ASSUME held' PROVE at' = "inner" /\ GetBoneToggle(Bone)'
        OBVIOUS
    <2>3. held /\ (b = Bone => toggle) /\ at' = at
        BY <1>6, <2>2 DEF SetBoneToggle
    <2>4. Bone \in named /\ boneIgnores'[Bone]
        BY <2>1, <2>3 DEF GetBoneToggle
    <2>5. boneIgnores' # NoMap
        BY <1>6, SetBoneToggleType
    <2> QED
        BY <2>1, <2>3, <2>4, <2>5 DEF GetBoneToggle
<1>7. CASE ClearBoneToggles
    BY <1>7 DEF ClearBoneToggles
<1>8. CASE UNCHANGED vars
    BY <1>8 DEF vars, GetBoneToggle
<1> QED
    BY <1>1, <1>2, <1>3, <1>4, <1>5, <1>6, <1>7, <1>8 DEF Next

\* For any bones and any interleaving of scripts with the worker, a bone that is
\* off when the worker comes and stays off is not moved (PapyrusOCBP.cpp:27,
\* SimObj.cpp:138-150).
THEOREM TogglesAlwaysHonoured == Spec => []ToggleHonoured
<1>1. Init => HeldInside
    BY DEF Init, HeldInside
<1>2. TypeOK /\ HeldInside /\ [Next]_vars => HeldInside'
    BY HeldNext
<1>3. HeldInside => ToggleHonoured
    BY DEF HeldInside, ToggleHonoured
<1> QED
    BY <1>1, <1>2, <1>3, TypeCorrect, PTL DEF Spec

-----------------------------------------------------------------------------
(* Motion *)

\* For any settings, pushes and turns, an oriented bone is put no further from
\* its rest than the settings of that moment reach (Thing.cpp:486-589).
THEOREM OffsetsBounded == Spec => OffsetBounded
<1>1. ASSUME TypeOK, [Next]_vars, at = "enabled", offset' # offset, thing.oriented, offset' # NaN
      PROVE  Within(offset', Reach(settings))
    <2>1. UpdateThing
        BY <1>1 DEF Next, vars, game, object, Construct, UpdateConfigs, Drop, FindActor,
            FindBone, FindBoneFreed, SetBoneToggle, ClearBoneToggles, MoveActor, LoadNodes
    <2>2. thing # NoThing
        BY <1>1 DEF TypeOK
    <2>3. CASE ResetTransform
        <3>1. Reach(settings) \in Nat
            <4>1. settings.correction * settings.linear["z"] \in Int
                BY <1>1, GameVectors DEF Vectors, Axes
            <4>2. Size(settings.correction * settings.linear["z"]) \in Nat
                BY <4>1 DEF Size
            <4> QED
                BY <1>1, <4>2, GameVectors, SumsAreVectors, LargestBounds DEF Reach
        <3>2. \A i \in Axes : Size(Zero[i]) = 0
            BY DEF Zero, Size
        <3> QED
            BY <2>3, <3>1, <3>2 DEF ResetTransform, Within
    <2>4. CASE MoveBone
        BY <2>4, <2>2, <1>1, MoveBoneResult
    <2>5. CASE MoveToNaN
        BY <2>5, <1>1 DEF MoveToNaN
    <2> QED
        BY <1>1, <2>1, <2>3, <2>4, <2>5 DEF UpdateThing
<1>2. TypeOK /\ [Next]_vars =>
        [at = "enabled" /\ offset' # offset /\ thing.oriented /\ offset' # NaN
            => Within(offset', Reach(settings))]_vars
    BY <1>1
<1> QED
    BY <1>2, TypeCorrect, PTL DEF Spec, OffsetBounded

\* A thing that began well lags behind the rest it last saw by no more than the
\* limits of all settings and a cog offset.
LagBounded ==
    sound =>
        /\ thing # NoThing
        /\ thing.oldWorldPos # NaN =>
            /\ thing.oriented
            /\ \A i \in Axes : Size(thing.oldWorldPos[i] - seenAt[i]) <= LagCap + CogCap

LEMMA LagNext ==
    ASSUME TypeOK, LagBounded, [Next]_vars PROVE LagBounded'
<1> USE DEF LagBounded
<1>1. CASE Construct
    <2> SUFFICES ASSUME sound', thing'.oldWorldPos # NaN
                 PROVE  /\ thing'.oriented
                        /\ \A i \in Axes :
                              Size(thing'.oldWorldPos[i] - seenAt'[i]) <= LagCap + CogCap
        <3>1. thing' # NoThing
            BY <1>1, ConstructType, NoValuesAssumption
        <3> QED
            BY <3>1
    <2>1. skeleton /\ offset # NaN /\ Within(offset, LagCap)
        BY <1>1 DEF Construct
    <2>2. offset \in Vectors
        BY <2>1 DEF TypeOK
    <2> DEFINE back == TurnedBack(parentTurn, offset)
    <2>3. /\ thing'.oldWorldPos = Plus(rest, back) /\ thing'.oriented /\ seenAt' = rest
        BY <1>1, <2>1 DEF Construct, TypeOK
    <2>4. back \in Vectors /\ Within(back, LagCap)
        BY <2>1, <2>2, GameVectors, TurnedBackWithin, LimitAssumption
    <2> HIDE DEF back
    <2>5. ASSUME NEW i \in Axes
          PROVE  Size(thing'.oldWorldPos[i] - seenAt'[i]) <= LagCap + CogCap
        <3>1. rest[i] \in Int /\ back[i] \in Int
            BY <2>4, GameVectors DEF Vectors
        <3>2. thing'.oldWorldPos[i] - seenAt'[i] = back[i]
            BY <2>3, <3>1 DEF Plus
        <3>3. Size(back[i]) <= LagCap /\ Size(back[i]) \in Int
            BY <2>4, <3>1 DEF Within, Size
        <3> QED
            BY <3>2, <3>3, LimitAssumption
    <2> QED
        BY <2>3, <2>5
<1>2. CASE UpdateThing
    <2>0. thing \in Things /\ thing # NoThing
        BY <1>2, ThingFields DEF UpdateThing, TypeOK
    <2>1. thing' # NoThing /\ sound' = sound
        BY <1>2, UpdateThingType, NoValuesAssumption DEF UpdateThing
    <2>2. CASE ResetTransform /\ seenAt' = rest
        <3>1. thing.oldWorldPos # NaN
            BY <2>2 DEF ResetTransform, Jumped
        <3>2. thing'.oldWorldPos = Target /\ thing'.oriented = thing.oriented
            BY <2>0, <2>2, TargetNearRest, LeftThing DEF ResetTransform
        <3>3. ASSUME NEW i \in Axes PROVE Size(Target[i] - rest[i]) <= LagCap + CogCap
            <4>1. Target[i] \in Int /\ rest[i] \in Int
                BY TargetNearRest, GameVectors DEF Vectors
            <4>2. Size(Target[i] - rest[i]) <= CogCap
                BY TargetNearRest
            <4> QED
                BY <4>1, <4>2, LimitAssumption DEF Size
        <3> QED
            BY <2>1, <2>2, <3>1, <3>2, <3>3
    <2>3. CASE MoveBone /\ seenAt' = rest
        <3>1. thing.oldWorldPos # NaN
            BY <2>3 DEF MoveBone
        <3>2. PICK diff \in Vectors :
                /\ Inside(diff, settings.max)
                /\ thing' = LeftAt(Plus(diff, Target))
            BY <2>0, <2>3, MoveBoneResult
        <3>3. /\ Within(diff, LagCap)
              /\ thing'.oldWorldPos = Plus(diff, Target) /\ thing'.oriented = thing.oriented
            <4>1. Within(settings.max, LagCap) /\ LagCap \in Int
                BY GameVectors, LimitAssumption
            <4>2. Plus(diff, Target) \in Vectors
                BY TargetNearRest, SumsAreVectors
            <4> QED
                BY <2>0, <3>2, <4>1, <4>2, GameVectors, InsideWithin, LeftThing
        <3>4. ASSUME NEW i \in Axes
              PROVE  Size(thing'.oldWorldPos[i] - seenAt'[i]) <= LagCap + CogCap
            <4>1. Target[i] \in Int /\ rest[i] \in Int /\ diff[i] \in Int
                BY TargetNearRest, GameVectors DEF Vectors
            <4>2. Size(diff[i]) <= LagCap /\ Size(Target[i] - rest[i]) <= CogCap
                BY <3>3, TargetNearRest DEF Within
            <4>3. thing'.oldWorldPos[i] - seenAt'[i] = diff[i] + (Target[i] - rest[i])
                BY <2>3, <3>3, <4>1 DEF Plus
            <4> QED
                BY <4>1, <4>2, <4>3, LimitAssumption DEF Size
        <3> QED
            BY <2>1, <3>1, <3>3, <3>4
    <2>4. CASE MoveToNaN
        <3>1. thing'.oldWorldPos = NaN
            BY <2>0, <2>4, LeftThing DEF MoveToNaN
        <3> QED
            BY <2>1, <3>1
    <2>5. CASE UNCHANGED <<offset, thing, seenAt>>
        BY <2>1, <2>5
    <2> QED
        BY <1>2, <2>2, <2>3, <2>4, <2>5 DEF UpdateThing
<1>3. CASE Drop
    BY <1>3 DEF Drop
<1>4. CASE UNCHANGED <<thing, seenAt, sound>>
    BY <1>4
<1>5. UpdateConfigs \/ FindActor \/ FindBone \/ FindBoneFreed \/ ClearBoneToggles \/ MoveActor
        \/ LoadNodes \/ (\E b \in Bones, toggle \in BOOLEAN : SetBoneToggle(b, toggle))
        \/ UNCHANGED vars => UNCHANGED <<thing, seenAt, sound>>
    BY DEF UpdateConfigs, FindActor, FindBone, FindBoneFreed, ClearBoneToggles, MoveActor,
        LoadNodes, SetBoneToggle, vars, object
<1> QED
    BY <1>1, <1>2, <1>3, <1>4, <1>5 DEF Next

\* For any settings and places, the transform is only reset when the bone's rest
\* moved, by what the limit leaves beyond the lag and two cog offsets, since the
\* thing last looked (Thing.cpp:416).
THEOREM NeverResetSpuriously == Spec => []NoSpuriousReset
<1>1. Init => LagBounded
    BY DEF Init, LagBounded
<1>2. TypeOK /\ LagBounded /\ [Next]_vars => LagBounded'
    BY LagNext
<1>3. ASSUME TypeOK, LagBounded, at = "enabled", sound, Jumped
      PROVE  \E i \in Axes : Size(rest[i] - seenAt[i]) > Limit - LagCap - 2 * CogCap
    <2>1. thing \in Things /\ thing.oldWorldPos \in Vectors
        BY <1>3, ThingFields DEF Jumped, LagBounded
    <2>2. PICK i \in Axes : Size(Target[i] - thing.oldWorldPos[i]) > Limit
        BY <1>3 DEF Jumped, Far, Diff, Minus
    <2>3. Size(thing.oldWorldPos[i] - seenAt[i]) <= LagCap + CogCap
        BY <1>3 DEF LagBounded, Jumped
    <2>4. /\ Target[i] \in Int /\ rest[i] \in Int /\ seenAt[i] \in Int
          /\ thing.oldWorldPos[i] \in Int
        BY <1>3, <2>1, GameVectors, TargetNearRest DEF Vectors
    <2>5. Size(Target[i] - rest[i]) <= CogCap
        BY <1>3, TargetNearRest
    <2>6. Size(rest[i] - seenAt[i]) > Limit - LagCap - 2 * CogCap
        BY <2>2, <2>3, <2>4, <2>5, LimitAssumption DEF Size
    <2> QED
        BY <2>6
<1>4. TypeOK /\ LagBounded => NoSpuriousReset
    BY <1>3 DEF NoSpuriousReset
<1> QED
    BY <1>1, <1>2, <1>4, TypeCorrect, PTL DEF Spec

-----------------------------------------------------------------------------
(* Substeps *)

\* A set of numbers with 0 and every successor has all numbers: induction whose
\* hypothesis is a set.
LEMMA AllNumbers ==
    ASSUME NEW S, 0 \in S, \A n \in Nat : n \in S => n + 1 \in S
    PROVE  Nat \subseteq S
<1> SUFFICES ASSUME Nat \ S # {} PROVE FALSE
    OBVIOUS
<1>1. PICK n \in Nat \ S : \A m \in Nat \ S : <<m, n>> \notin OpToRel(<, Nat)
    BY NatLessThanWellFounded, WFMin
<1>2. n # 0 /\ n - 1 \in Nat
    OBVIOUS
<1>3. <<n - 1, n>> \in OpToRel(<, Nat)
    BY <1>2 DEF OpToRel
<1>4. n - 1 \in S
    BY <1>1, <1>2, <1>3
<1>5. (n - 1) + 1 = n
    OBVIOUS
<1>6. n \in S
    BY <1>2, <1>4, <1>5
<1> QED
    BY <1>6

\* What is left of d after one substep, and the count of the substeps of d from
\* the counts of smaller times.
Left(tick, d) == Truncated(4 * d - tick)
CountOf(tick, n, d) == 1 + (IF 4 * Left(tick, d) >= tick THEN n[Left(tick, d)] ELSE 0)

\* A substep that is followed by another leaves less time, and loses less than a
\* millisecond to truncation; the last one leaves less than a tick.
LEMMA LeftShrinks ==
    ASSUME NEW tick \in Int, tick >= 4, NEW d \in Nat
    PROVE  /\ Left(tick, d) \in Int
           /\ 4 * Left(tick, d) >= tick =>
                /\ Left(tick, d) \in Nat /\ Left(tick, d) < d
                /\ 4 * Left(tick, d) <= 4 * d - tick
                /\ 4 * d - tick < 4 * Left(tick, d) + 4
           /\ 4 * Left(tick, d) < tick => 4 * d < 2 * tick + 4
    BY DEF Left, Truncated

\* The counting ends: the recursive function exists.
LEMMA CountingEnds ==
    ASSUME NEW tick \in Int, tick >= 4
    PROVE  Substeps(tick) = [d \in 0..64 |-> CountOf(tick, Substeps(tick), d)]
<1> DEFINE Counts(k) == \E n : n = [d \in 0..k |-> CountOf(tick, n, d)]
           Ends == {k \in Nat : Counts(k)}
<1>1. 0 \in Ends
    <2> DEFINE n == [d \in 0..0 |-> 1]
    <2>1. \A d \in 0..0 : ~(4 * Left(tick, d) >= tick)
        BY LeftShrinks
    <2>2. n = [d \in 0..0 |-> CountOf(tick, n, d)]
        BY <2>1 DEF CountOf
    <2> QED
        BY <2>2
<1>2. ASSUME NEW k \in Nat, k \in Ends PROVE k + 1 \in Ends
    <2>1. PICK n : n = [d \in 0..k |-> CountOf(tick, n, d)]
        BY <1>2
    <2> DEFINE longer == [d \in 0..(k + 1) |-> CountOf(tick, n, d)]
    <2>2. \A d \in 0..k : d \in 0..(k + 1) /\ longer[d] = n[d]
        BY <2>1
    <2>3. \A d \in 0..(k + 1) : 4 * Left(tick, d) >= tick => Left(tick, d) \in 0..k
        BY LeftShrinks
    <2>4. \A d \in 0..(k + 1) : CountOf(tick, longer, d) = CountOf(tick, n, d)
        BY <2>2, <2>3 DEF CountOf
    <2>5. longer = [d \in 0..(k + 1) |-> CountOf(tick, longer, d)]
        BY <2>4
    <2> HIDE DEF longer
    <2>6. Counts(k + 1)
        BY <2>5
    <2> HIDE DEF Counts
    <2> QED
        BY <2>6
<1>3. 64 \in Ends
    BY <1>1, <1>2, AllNumbers
<1>4. \E n : n = [d \in 0..64 |-> CountOf(tick, n, d)]
    BY <1>3
<1> QED
    BY <1>4 DEF Substeps, CountOf, Left

\* The substeps counted for d fit into d, and one more, with the millisecond each
\* may lose, would not.
Fits(tick, n, d) ==
    /\ n[d] \in Nat \ {0}
    /\ n[d] = 1 \/ n[d] * tick <= 4 * d
    /\ (n[d] + 1) * (tick + 4) > 4 * d

\* One more substep fits when the rest of them fit into what it leaves.
LEMMA OneMoreFits ==
    ASSUME NEW tick \in Int, tick >= 4, NEW n, NEW d \in Nat,
           n[d] = CountOf(tick, n, d),
           4 * Left(tick, d) >= tick => Fits(tick, n, Left(tick, d))
    PROVE  Fits(tick, n, d)
<1> DEFINE q == Left(tick, d)
<1>1. CASE 4 * q >= tick
    <2> DEFINE m == n[q]
    <2>1. /\ q \in Nat /\ 4 * q <= 4 * d - tick /\ 4 * d - tick < 4 * q + 4
          /\ m \in Nat \ {0} /\ n[d] = 1 + m
        BY <1>1, LeftShrinks DEF Fits, CountOf
    <2>2. m = 1 \/ m * tick <= 4 * q
        BY <1>1 DEF Fits
    <2>3. (m + 1) * (tick + 4) > 4 * q
        BY <1>1 DEF Fits
    <2> HIDE DEF m, q
    <2>4. (1 + m) * tick = m * tick + tick /\ m * tick \in Int
        BY <2>1
    <2>5. (1 + m) * tick <= 4 * d
        <3>1. CASE m = 1
            BY <3>1, <1>1, <2>1, <2>4
        <3>2. CASE m * tick <= 4 * q
            BY <3>2, <2>1, <2>4
        <3> QED
            BY <3>1, <3>2, <2>2
    <2>6. ((1 + m) + 1) * (tick + 4) = (m + 1) * (tick + 4) + tick + 4
          /\ (m + 1) * (tick + 4) \in Int
        BY <2>1
    <2>7. ((1 + m) + 1) * (tick + 4) > 4 * d
        BY <2>1, <2>3, <2>6
    <2> QED
        BY <2>1, <2>5, <2>7 DEF Fits
<1>2. CASE ~(4 * q >= tick)
    <2>1. n[d] = 1 /\ 4 * d < 2 * tick + 4
        BY <1>2, LeftShrinks DEF CountOf
    <2> QED
        BY <2>1 DEF Fits
<1> QED
    BY <1>1, <1>2

\* So the substeps of every time fit.
LEMMA AllFit ==
    ASSUME NEW tick \in Int, tick >= 4
    PROVE  \A d \in 0..64 : Fits(tick, Substeps(tick), d)
<1> DEFINE n == Substeps(tick)
           Fitting == {k \in Nat : \A d \in 0..64 : d <= k => Fits(tick, n, d)}
<1>1. \A d \in 0..64 : n[d] = CountOf(tick, n, d)
    BY CountingEnds
<1> HIDE DEF n
<1>2. ASSUME NEW d \in 0..64, \A e \in 0..64 : e < d => Fits(tick, n, e)
      PROVE  Fits(tick, n, d)
    <2>1. d \in Nat
        OBVIOUS
    <2>2. 4 * Left(tick, d) >= tick => Left(tick, d) \in Nat /\ Left(tick, d) < d
        BY <2>1, LeftShrinks
    <2>3. 4 * Left(tick, d) >= tick => Fits(tick, n, Left(tick, d))
        BY <1>2, <2>2
    <2> QED
        BY <1>1, <2>1, <2>3, OneMoreFits
<1>3. 0 \in Fitting
    BY <1>2
<1>4. ASSUME NEW k \in Nat, k \in Fitting PROVE k + 1 \in Fitting
    <2> SUFFICES ASSUME NEW d \in 0..64, d <= k + 1 PROVE Fits(tick, n, d)
        OBVIOUS
    <2>1. \A e \in 0..64 : e < d => e <= k
        OBVIOUS
    <2> QED
        BY <1>2, <1>4, <2>1
<1>5. 64 \in Fitting
    BY <1>3, <1>4, AllNumbers
<1> QED
    BY <1>5 DEF n

\* For any settings and whatever the clock did, the substeps of a frame fit into
\* its time and leave no room for another one (Thing.cpp:378-386, 442-473).
THEOREM SubstepsAlwaysFit == Spec => []SubstepsFitFrame
<1>1. ASSUME NEW s \in Settings, NEW elapsed \in -1..70
      PROVE  LET tick == EffectiveTick(s.timeTick)
                 n == Substeps(tick)
                 d == DeltaT(elapsed)
             IN  /\ n[d] = 1 \/ n[d] * tick <= 4 * d
                 /\ (n[d] + 1) * (tick + 4) > 4 * d
    <2>1. EffectiveTick(s.timeTick) \in Int /\ EffectiveTick(s.timeTick) >= 4
        BY SettingsAssumption DEF EffectiveTick
    <2>2. DeltaT(elapsed) \in 0..64
        BY DEF DeltaT
    <2> QED
        BY <2>1, <2>2, AllFit DEF Fits
<1>2. TypeOK => SubstepsFitFrame
    BY <1>1 DEF TypeOK, SubstepsFitFrame, FitsFrame
<1> QED
    BY <1>2, TypeCorrect, PTL
=============================================================================
