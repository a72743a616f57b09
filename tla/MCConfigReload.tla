--------------------------- MODULE MCConfigReload ---------------------------
(* A menu of small files for ConfigReload: two names, two priorities, two    *)
(* bones, one setting, two garments.  The files are chosen so that names     *)
(* change priority between files, share one, lose their [Priority] entry and *)
(* meet detectArmor; that bones are set, touched and overridden; and that    *)
(* armor and actor filters come in both polarities.                          *)
EXTENDS ConfigReload, TLC

CONSTANTS b1, b2, player, npc, boots, bootsModel, coat, coatModel

S(v) == [k \in {"stiffness"} |-> v]

MCGarments == { [armor |-> boots, model |-> bootsModel, slots |-> {9, 11}],
                [armor |-> coat,  model |-> coatModel,  slots |-> {11}],
                [armor |-> coat,  model |-> NoModel,    slots |-> {3}] }

None == [n \in {} |-> 0]
Armor(slots, inverted, ids) ==
    [hasSlots |-> slots # {}, slots |-> slots, inverted |-> inverted, ids |-> ids]
Actor(inverted, ids) == [inverted |-> inverted, ids |-> ids]

\* <<detectArmor, [Priority]>>
PriorityMenu == { <<TRUE, None>>, <<FALSE, None>>, <<FALSE, 0 :> 1 @@ 1 :> 1>>,
                  <<FALSE, 0 :> 1 @@ 1 :> 0>> }
\* <<[Attach.<name>], [Override.<name>:<bone>]>>
SubMenu == { <<None, None>>,
             <<0 :> (b1 :> S(2)), 0 :> (b2 :> S(3))>>,
             <<0 :> (b1 :> NoSettings) @@ 1 :> (b2 :> S(2)), None>>,
             <<0 :> (b1 :> S(4)) @@ 1 :> (b1 :> S(2) @@ b2 :> NoSettings), 1 :> (b1 :> S(3))>> }
\* <<[Armor.<name>], [Actor.<name>]>>
FilterMenu == { <<0 :> Armor({3, 11}, FALSE, {boots}), None>>,
                <<1 :> Armor({9}, TRUE, {bootsModel}), 1 :> Actor(FALSE, {npc})>>,
                <<0 :> Armor({}, TRUE, {boots}), 0 :> Actor(TRUE, {npc}) @@ 1 :> Actor(FALSE, {player})>> }

MCInis ==
    { [ flags |-> {}, detectArmor |-> m[1], armorIgnore |-> {boots}, rate |-> 1, prio |-> m[2],
        attach |-> b1 :> S(1) @@ b2 :> S(1), sub |-> s[1], armor |-> f[1], actor |-> f[2],
        hasWhitelist |-> FALSE, whitelist |-> {}, override |-> b2 :> S(5),
        subOverride |-> s[2] ] : m \in PriorityMenu, s \in SubMenu, f \in FilterMenu }

MCForms == {player, npc, boots, bootsModel, coat, coatModel}
MCEarlyForms == {boots}
MCActorIds == {player, npc}
=============================================================================
