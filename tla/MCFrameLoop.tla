---------------------------- MODULE MCFrameLoop ----------------------------
(* Instances of FrameLoop.  Each configuration fixes what may change (Moves) *)
(* and the files the user may write, so that one question at a time is       *)
(* explored to the end.                                                      *)
EXTENDS FrameLoop, TLC

CONSTANTS b1, b2, npc, boots, bootsModel, coat, coatModel, human, ghoul

S(v) == [k \in {"stiffness"} |-> v]

Boots == [armor |-> boots, model |-> bootsModel, slots |-> {9, 11}]
Coat == [armor |-> coat, model |-> coatModel, slots |-> {11}]
OneGarment == {Boots}
TwoGarments == {Boots, Coat}

None == [n \in {} |-> 0]

\* [Attach] b1, b2; name 1 at priority 1 turns b1 down and b2 off under boots.
Plain == [ flags |-> {}, detectArmor |-> FALSE, armorIgnore |-> {}, rate |-> 1,
           prio |-> 1 :> 1, attach |-> b1 :> S(1) @@ b2 :> S(1),
           sub |-> 1 :> (b1 :> S(2) @@ b2 :> NoSettings),
           armor |-> 1 :> [hasSlots |-> TRUE, slots |-> {11}, inverted |-> TRUE, ids |-> {boots}],
           actor |-> None, hasWhitelist |-> FALSE, whitelist |-> {},
           override |-> None, subOverride |-> None ]
\* Other settings, another slot, and the boots' filter the other way round.
Edited == [Plain EXCEPT !.attach = b1 :> S(3), !.armor[1].inverted = FALSE,
                        !.armor[1].slots = {9}]
PlayerOnly == [Plain EXCEPT !.flags = {"playerOnly"}]
NpcOnly == [Plain EXCEPT !.flags = {"npcOnly"}]
MaleOnly == [Plain EXCEPT !.flags = {"maleOnly"}]
Whitelisted == [Plain EXCEPT !.flags = {"useWhitelist", "femaleOnly"}, !.hasWhitelist = TRUE,
                             !.whitelist = {<<b1, human, "female">>, <<b2, human, "male">>}]
\* The same flags with women of both races on more bones.
WiderWhitelist == [Whitelisted EXCEPT !.whitelist = {<<b1, human, "female">>, <<b2, human, "female">>,
                                                     <<b1, ghoul, "female">>}]
\* ocbp.ini cannot be opened.
Unreadable == [Plain EXCEPT !.rate = 0, !.prio = None, !.attach = None, !.sub = None,
                            !.armor = None]
EveryFrame == [Edited EXCEPT !.rate = -1]
\* Two priorities read the same slot, one after the other, in every frame; and
\* no override at all.
Layered == [Plain EXCEPT !.rate = -1, !.prio = 0 :> 0 @@ 1 :> 1,
                         !.sub = 0 :> (b1 :> S(4)) @@ 1 :> (b1 :> S(2) @@ b2 :> NoSettings),
                         !.armor = 0 :> Plain.armor[1] @@ 1 :> Plain.armor[1]]
Bare == [Plain EXCEPT !.attach = b1 :> S(3), !.sub = None, !.armor = None]

Edits == {Plain, Edited}
Layers == {Layered, Bare}
Switches == {PlayerOnly, NpcOnly, Unreadable, EveryFrame}
Whitelists == {Plain, Whitelisted, WiderWhitelist, MaleOnly}

HumanMen == {[a \in Actors |-> [sex |-> "male", race |-> human]]}
AnyBodies == [Actors -> Bodies]

MCForms == {boots, bootsModel, coat, coatModel}
MCEarlyForms == {boots}
TwoActors == {Player, npc}
OneActor == {Player}
MCSkeleton == [r \in Races |-> IF r = ghoul THEN {b1} ELSE {b1, b2}]
=============================================================================
