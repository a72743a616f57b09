------------------------------ MODULE FormIds ------------------------------
(***************************************************************************)
(* How the entries of [Override:Armor...] and [Override:Actor...] sections *)
(* become form ids: GetFormIDFromString and the loops of LoadConfig around *)
(* it (src/CBPSSE/config.cpp), over the game's load order (F4SE's          *)
(* GameData.h, GameData.cpp).                                              *)
(*                                                                         *)
(* An entry is "<hexadecimal digits>" or "<hexadecimal digits>:<plugin>".  *)
(* A form id is a plugin's index, its upper 8 bits, and the 24 bits below; *)
(* a light plugin's forms have 0xFE there and the plugin's 12-bit index in *)
(* the upper half of the lower bits.                                       *)
(***************************************************************************)
EXTENDS Integers, FiniteSets

CONSTANTS
    Plugins,        \* names of files
    Literal,        \* stands for no plugin: the id is given in full
    Orders,         \* load orders: [Plugins -> [kind, index]]
    Entries,        \* [digits, value, plugin]
    Bad, Huge,      \* values: not hexadecimal or empty; of more than 32 bits
    NoEntry,
    Longest         \* bound: no more entries count for a kind of section

Sections == {"Armor", "Actor"}

LightBits == 4096               \* the numbers of 12 bits, and of 24
LowBits == LightBits * LightBits
Lower == 0..(LowBits - 1)
Id(i, l) == [index |-> i, lower |-> l]
Ids == [index : 0..255, lower : Lower]
MinusOne == Id(255, LowBits - 1)
Mods == [kind : {"full"}, index : 0..253] \cup [kind : {"light"}, index : 0..(LightBits - 1)]
        \cup [kind : {"absent"}, index : {0}]

ASSUME PluginsAssumption == Literal \notin Plugins
\* Two plugins of a kind never have the same index.
ASSUME OrdersAssumption ==
    /\ Orders \subseteq [Plugins -> Mods]
    /\ \A order \in Orders : \A p, q \in Plugins :
        order[p] = order[q] /\ order[p].kind # "absent" => p = q
\* A value is no longer than its digits; Bad and Huge are apart.
ASSUME EntriesAssumption ==
    /\ Bad \notin Ids /\ Huge \notin Ids /\ Bad # Huge /\ NoEntry \notin Entries
    /\ Entries \subseteq [digits : Nat, value : Ids \cup {Bad, Huge}, plugin : Plugins \cup {Literal}]
    /\ \A e \in Entries :
        /\ e.value = Huge => e.digits > 8
        /\ e.digits = 0 => e.value = Bad
        /\ e.value \in Ids /\ e.digits <= 6 => e.value.index = 0
        /\ e.value \in Ids /\ e.digits <= 3 => e.value.lower < LightBits

VARIABLES
    order,          \* the load order of this session
    forms,          \* of each kind of section, the armors or actors of an override
    read,           \* history: the entries that count: the file's for armors, and for
                    \*  actors those of every file of the session
    thrown          \* the entry that made LoadConfig throw, or NoEntry

vars == <<order, forms, read, thrown>>

-----------------------------------------------------------------------------

\* Mutant: light plugins are looked up too.
IsLoadedOrLight(p) == order[p].kind # "absent"
\* LookupLoadedModByName: loadedMods holds the full plugins only, so that the
\* branch for light ones is never taken.
IsLoaded(p) == order[p].kind = "full"

MaxPartialIdLength(p) == IF order[p].kind = "light" THEN 3 ELSE 6

\* formID |= loadIndex << 24, of 32 bits.
WithLoadIndex(id, p) == Id(order[p].index % 256, id.lower)

\* stoul takes neither an empty string nor one of more than 32 bits.
Throws(e) == e.value = Huge \/ e.digits = 0

\* Mutant: the length of the part before the plugin is not checked.
FormIDOfAnyLength(e) ==
    IF e.value = Bad THEN MinusOne
    ELSE IF e.plugin = Literal THEN IF e.digits > 8 THEN MinusOne ELSE e.value
    ELSE IF ~IsLoaded(e.plugin) THEN MinusOne
    ELSE WithLoadIndex(e.value, e.plugin)
\* Of an entry that does not throw; -1 for the invalid ones.
GetFormIDFromString(e) ==
    IF e.value = Bad THEN MinusOne
    ELSE IF e.plugin = Literal THEN IF e.digits > 8 THEN MinusOne ELSE e.value
    ELSE IF ~IsLoaded(e.plugin) \/ e.digits > MaxPartialIdLength(e.plugin) THEN MinusOne
    ELSE WithLoadIndex(e.value, e.plugin)

Init ==
    /\ order \in Orders
    /\ forms = [section \in Sections |-> {}]
    /\ read = [section \in Sections |-> {}]
    /\ thrown = NoEntry

\* Mutant: what is invalid is inserted too.
ReadEntryUnchecked(section, e) ==
    /\ thrown = NoEntry /\ Cardinality(read[section]) < Longest
    /\ IF Throws(e)
       THEN thrown' = e /\ UNCHANGED <<forms, read>>
       ELSE /\ forms' = [forms EXCEPT ![section] = @ \cup {GetFormIDFromString(e)}]
            /\ read' = [read EXCEPT ![section] = @ \cup {e}]
            /\ UNCHANGED thrown
    /\ UNCHANGED order

\* One turn of the loop over a section.
ReadEntry(section, e) ==
    /\ thrown = NoEntry /\ Cardinality(read[section]) < Longest
    /\ IF Throws(e)
       THEN thrown' = e /\ UNCHANGED <<forms, read>>
       ELSE /\ forms' = [forms EXCEPT ![section] = @ \cup ({GetFormIDFromString(e)} \ {MinusOne})]
            /\ read' = [read EXCEPT ![section] = @ \cup {e}]
            /\ UNCHANGED thrown
    /\ UNCHANGED order

\* A hot reload clears configArmorOverrideMap and leaves configActorOverrideMap;
\* nothing catches what LoadConfig throws.
Reload ==
    /\ thrown = NoEntry
    /\ forms' = [forms EXCEPT !["Armor"] = {}]
    /\ read' = [read EXCEPT !["Armor"] = {}]
    /\ UNCHANGED <<order, thrown>>

\* The game is started again, with another load order.
StartGame ==
    /\ order' \in Orders
    /\ forms' = [section \in Sections |-> {}]
    /\ read' = [section \in Sections |-> {}]
    /\ thrown' = NoEntry

Next ==
    \/ \E section \in Sections, e \in Entries : ReadEntry(section, e)
    \/ Reload \/ StartGame

Spec == Init /\ [][Next]_vars

-----------------------------------------------------------------------------
(* Properties *)

\* The game's own id for a form, as ModInfo::GetFormID has it.
GetFormID(p, lower) ==
    IF order[p].kind = "full" THEN Id(order[p].index, lower % LowBits)
    ELSE Id(254, (order[p].index * LightBits) + (lower % LightBits))

\* The entry is meant for this form: of a plugin with its number, or with its id
\* in full.  -1 is no id.
Names(e, p, lower) ==
    \/ e.plugin = p /\ e.digits <= 6 /\ e.value = Id(0, lower)
    \/ e.plugin = Literal /\ e.digits <= 8 /\ e.value = GetFormID(p, lower)
       /\ e.value # MinusOne

\* The shape of the state: -1 is never selected.
TypeOK ==
    /\ order \in Orders
    /\ forms \in [Sections -> SUBSET (Ids \ {MinusOne})]
    /\ read \in [Sections -> SUBSET Entries]
    /\ thrown \in Entries \cup {NoEntry}

\* config.cpp:46-100, 117-121: an override selects a full plugin's form if and
\* only if an entry names it, in whatever order plugins are loaded, and a light
\* plugin's form only if one gives its id in full: no entry selects a form by the
\* index of another plugin.  For armors it is an entry read since the last
\* reload; for actors any entry of the session, also of a file long replaced.
SelectsTheNamed ==
    \A section \in Sections, p \in Plugins, e \in Entries :
        LET lower == e.value.lower
        IN  e.value \in Ids /\ order[p].kind # "absent" =>
                (GetFormID(p, lower) \in forms[section] <=>
                    \E d \in read[section] :
                        Names(d, p, lower) /\ (order[p].kind = "light" => d.plugin = Literal))

\* config.cpp:81-96, "Invalid FormID %s, too many characters": an entry with too
\* many digits is reported and passed over.
OverlongPassedOver == thrown # NoEntry => thrown.digits <= 8
=============================================================================
