---------------------------- MODULE ActorConfig ----------------------------
(***************************************************************************)
(* What an actor's outfit and the configuration tables make of the bones   *)
(* to simulate: the key that stands for actor and outfit (BuildActorKey)   *)
(* and the configuration composed for it (BuildConfigForActor), both from  *)
(* src/CBPSSE/ActorUtils.cpp.                                              *)
(*                                                                         *)
(* An outfit is a set of garments that cover disjoint sets of biped slots. *)
(* A garment is a record [armor, model, slots]: the form worn, the model   *)
(* form shown for it (NoModel when the slot has none), the slots covered.  *)
(* The 64-bit hash of the key is abstracted by the value hashed: an actor  *)
(* and a bag of (armor, model) pairs.  Hash collisions are not modelled.   *)
(***************************************************************************)
EXTENDS ConfigStore, Folds

CONSTANTS
    Garments,   \* the garments of the game
    NoModel     \* "the slot shows no model"

\* An armor form shown with a given model covers the same slots on everybody.
ASSUME GarmentsAssumption ==
    \A x, y \in Garments : x.armor = y.armor /\ x.model = y.model => x = y

Outfits == {o \in SUBSET Garments : \A x, y \in o : x = y \/ x.slots \cap y.slots = {}}

-----------------------------------------------------------------------------
(* The slots *)

Data(x) == <<x.armor, x.model>>
Nothing == <<NoModel, NoModel>>

\* The armor and the model the slot's equipData shows.
GetActorEquippedArmor(outfit, slot) ==
    LET shown == {x \in outfit : slot \in x.slots}
    IN  IF shown = {} THEN Nothing ELSE Data(CHOOSE x \in shown : TRUE)

\* The game may change the outfit while it is read, slot by slot, and a slot's
\* item and model are two reads: what they give while the actor shows the
\* outfits one after another.
SlotReads(outfits, slot) ==
    {<<GetActorEquippedArmor(o1, slot)[1], GetActorEquippedArmor(o2, slot)[2]>> :
        o1 \in outfits, o2 \in outfits}

-----------------------------------------------------------------------------
(* The key *)

\* Mutant: the key leaves the models out.
KeyOfArmors(actor, read) ==
    LET armors == [s \in DOMAIN read |-> read[s][1]]
    IN  <<actor, [d \in Range(armors) \ {NoModel} |-> Cardinality({s \in DOMAIN armors : armors[s] = d})]>>

\* The key for what was read in each used slot; empty slots do not count.
KeyOf(actor, read) ==
    <<actor, [d \in Range(read) \ {Nothing} |-> Cardinality({s \in DOMAIN read : read[s] = d})]>>

\* For an outfit that stays as it is.
BuildActorKey(g, actor, outfit) ==
    KeyOf(actor, [s \in g.usedSlots |-> GetActorEquippedArmor(outfit, s)])

\* For one that may change between two reads.
KeysRead(g, actor, outfits) ==
    LET reads == {r \in [g.usedSlots -> UNION {SlotReads(outfits, s) : s \in g.usedSlots}] :
                    \A s \in g.usedSlots : r[s] \in SlotReads(outfits, s)}
    IN  {KeyOf(actor, r) : r \in reads}

-----------------------------------------------------------------------------
(* The composed configuration *)

IsActorFilteredActor(g, actor, p) ==
    (actor \in g.actorMap[p].actors) # g.actorMap[p].inverted

\* Without slots and without armors a priority is not about armor.
IsArmorPriority(g, p) == g.armorMap[p].slots # {} \/ g.armorMap[p].armors # {}

\* An armor filter looks at the garments shown in its own slots: inverted, it
\* applies when one of them is listed, otherwise when one of them is not.
Hits(override, d) ==
    /\ d[1] # NoModel /\ d[2] # NoModel
    /\ (d[1] \in override.armors \/ d[2] \in override.armors) <=> override.inverted

\* Whether a priority can apply, or be skipped, for an actor that shows the
\* outfits while the slots are read.  The actor filter selects the actors a
\* priority without armor applies to, and those an armor priority is skipped for.
MayApply(g, actor, outfits, p) ==
    IF IsArmorPriority(g, p)
    THEN /\ ~IsActorFilteredActor(g, actor, p)
         /\ \E s \in g.armorMap[p].slots : \E d \in SlotReads(outfits, s) : Hits(g.armorMap[p], d)
    ELSE IsActorFilteredActor(g, actor, p)

MaySkip(g, actor, outfits, p) ==
    IF IsArmorPriority(g, p)
    THEN \/ IsActorFilteredActor(g, actor, p)
         \/ \A s \in g.armorMap[p].slots : \E d \in SlotReads(outfits, s) : ~Hits(g.armorMap[p], d)
    ELSE ~IsActorFilteredActor(g, actor, p)

\* Each priority reads the slots anew.
PrioritiesRead(g, actor, outfits) ==
    {ps \in SUBSET g.priorities : \A p \in g.priorities :
        IF p \in ps THEN MayApply(g, actor, outfits, p) ELSE MaySkip(g, actor, outfits, p)}

\* For an outfit that stays as it is.
ApplyingPriorities(g, actor, outfit) == {p \in g.priorities : MayApply(g, actor, {outfit}, p)}

OverrideConfig(g, p) ==
    IF IsArmorPriority(g, p) THEN g.armorMap[p].config ELSE g.actorMap[p].config

\* One priority's bones written over the config built so far: an empty entry
\* erases the bone.
ApplyOverride(override, config) ==
    RestrictValues(Over(override, config), LAMBDA s : s # NoSettings)

\* Mutant: priorities walked upwards.
ComposeConfigUpwards(g, ps) ==
    MapThenFoldSet(LAMBDA p, config : ApplyOverride(OverrideConfig(g, p), config),
                   g.config, LAMBDA p : p, Max, ps)

\* priorities is walked from the highest number down, so that the lowest
\* number has the last word.
ComposeConfig(g, ps) ==
    MapThenFoldSet(LAMBDA p, config : ApplyOverride(OverrideConfig(g, p), config),
                   g.config, LAMBDA p : p, Min, ps)

\* BuildConfigForActor on a cache miss, for an outfit that stays as it is.
BuildConfig(g, actor, outfit) == ComposeConfig(g, ApplyingPriorities(g, actor, outfit))

\* BuildConfigForActor: the configs it can return for an actor that shows the
\* outfits meanwhile, and the cache it leaves.
BuildConfigForActor(g, cache, actor, outfits, key) ==
    IF key \in DOMAIN cache THEN {cache[key]}
    ELSE {ComposeConfig(g, ps) : ps \in PrioritiesRead(g, actor, outfits)}

CacheAfter(cache, key, config) ==
    IF key \in DOMAIN cache THEN cache ELSE Over(cache, [k \in {key} |-> config])
=============================================================================
