--------------------------- MODULE FormIds_proofs ---------------------------
(***************************************************************************)
(* Proofs about FormIds: for any plugins, load orders and entries, an      *)
(* override selects the forms its entries name and no others; those of     *)
(* actors for the whole session.                                           *)
(***************************************************************************)
EXTENDS FormIds, TLAPS

-----------------------------------------------------------------------------
(* Ids *)

Light == 0..(LightBits - 1)

LEMMA LowBitsFacts ==
    /\ LightBits \in Nat \ {0} /\ Light \subseteq Nat
    /\ LowBits \in Nat \ {0} /\ LowBits - 1 \in Lower
<1>1. LightBits \in Nat \ {0} /\ LowBits \in Nat \ {0}
    BY DEF LightBits, LowBits
<1> QED
    BY <1>1 DEF Lower, Light

LEMMA LowerFacts ==
    ASSUME NEW lower \in Lower
    PROVE  lower \in Nat /\ lower % LowBits = lower /\ lower % LightBits \in Light
    BY LowBitsFacts DEF Lower, Light

LEMMA LightFacts ==
    ASSUME NEW i \in Light, NEW l \in Light
    PROVE  (i * LightBits) + l \in Lower
<1>1. LightBits = 4096 /\ LowBits - 1 = (4095 * 4096) + 4095
    BY SMT DEF LowBits, LightBits
<1>2. i \in 0..4095 /\ l \in 0..4095
    BY <1>1 DEF Light
<1>3. (i * 4096) + l \in Nat /\ (i * 4096) + l <= (4095 * 4096) + 4095
    BY SMT, <1>2
<1>4. (i * LightBits) + l \in Nat /\ (i * LightBits) + l <= LowBits - 1
    BY <1>1, <1>3
<1> QED
    BY <1>4, LowBitsFacts DEF Lower

LEMMA IdEquality ==
    ASSUME NEW i, NEW l, NEW j, NEW k
    PROVE  Id(i, l) = Id(j, k) <=> i = j /\ l = k
<1>1. Id(i, l).index = i /\ Id(i, l).lower = l /\ Id(j, k).index = j /\ Id(j, k).lower = k
    BY DEF Id
<1> QED
    BY <1>1

LEMMA IdType ==
    ASSUME NEW i \in 0..255, NEW l \in Lower
    PROVE  Id(i, l) \in Ids /\ Id(i, l).index = i
    BY DEF Id, Ids

LEMMA IdFields ==
    ASSUME NEW id \in Ids
    PROVE  id.index \in 0..255 /\ id.lower \in Lower /\ id = Id(id.index, id.lower)
    BY DEF Id, Ids

LEMMA ModFields ==
    ASSUME TypeOK, NEW p \in Plugins
    PROVE  /\ order[p] \in Mods /\ order \in Orders
           /\ order[p].kind \in {"full", "light", "absent"}
           /\ order[p].kind = "full" => order[p].index \in 0..253
           /\ order[p].kind = "light" => order[p].index \in Light
<1>1. order \in Orders /\ order[p] \in Mods
    BY OrdersAssumption DEF TypeOK
<1>2. ASSUME NEW m \in Mods
      PROVE  /\ m.kind \in {"full", "light", "absent"}
             /\ m.kind = "full" => m.index \in 0..253
             /\ m.kind = "light" => m.index \in Light
    BY DEF Mods, Light
<1> QED
    BY <1>1, <1>2

LEMMA EntryFields ==
    ASSUME NEW e \in Entries
    PROVE  /\ e.digits \in Nat /\ e.value \in Ids \cup {Bad, Huge}
           /\ e.plugin \in Plugins \cup {Literal}
    BY EntriesAssumption

\* The game's ids are ids, and -1 is none of them.
LEMMA GameIds ==
    ASSUME TypeOK, NEW p \in Plugins, order[p].kind # "absent", NEW lower \in Lower
    PROVE  GetFormID(p, lower) \in Ids /\ GetFormID(p, lower).index # 255
<1>1. CASE order[p].kind = "full"
    <2>1. order[p].index \in 0..253 /\ lower % LowBits = lower
        BY <1>1, ModFields, LowerFacts
    <2>2. GetFormID(p, lower) = Id(order[p].index, lower)
        BY <1>1, <2>1 DEF GetFormID
    <2> QED
        <3>1. order[p].index \in 0..255 /\ order[p].index # 255
            BY <2>1
        <3>2. Id(order[p].index, lower) \in Ids
              /\ Id(order[p].index, lower).index = order[p].index
            BY <3>1, IdType
        <3> QED
            BY <2>2, <3>1, <3>2
<1>2. CASE order[p].kind = "light"
    <2>1. order[p].index \in Light /\ lower % LightBits \in Light
        BY <1>2, ModFields, LowerFacts
    <2>2. (order[p].index * LightBits) + (lower % LightBits) \in Lower
        BY <2>1, LightFacts
    <2>3. GetFormID(p, lower) = Id(254, (order[p].index * LightBits) + (lower % LightBits))
        BY <1>2 DEF GetFormID
    <2> QED
        <3>1. ASSUME NEW l \in Lower PROVE Id(254, l) \in Ids /\ Id(254, l).index # 255
            BY DEF Id, Ids
        <3> QED
            BY <2>2, <2>3, <3>1
<1> QED
    BY <1>1, <1>2, ModFields

\* What one entry selects.
LEMMA EntrySelects ==
    ASSUME TypeOK, NEW d \in Entries, ~Throws(d),
           NEW p \in Plugins, order[p].kind # "absent", NEW lower \in Lower
    PROVE  GetFormIDFromString(d) = GetFormID(p, lower) <=>
            Names(d, p, lower) /\ (order[p].kind = "light" => d.plugin = Literal)
<1> DEFINE id == GetFormID(p, lower)
<1>1. id \in Ids /\ id # MinusOne /\ Id(0, lower) \in Ids
    <2>1. MinusOne.index = 255
        BY DEF MinusOne, Id
    <2>2. Id(0, lower) \in Ids
        BY IdType
    <2> QED
        BY <2>1, <2>2, GameIds
<1>2. d.value # Huge /\ d.digits \in Nat /\ d.value \in Ids \cup {Bad}
    BY EntryFields DEF Throws
<1> HIDE DEF id
<1>3. CASE d.value = Bad
    <2>1. GetFormIDFromString(d) = MinusOne
        BY <1>3 DEF GetFormIDFromString
    <2>2. ~Names(d, p, lower)
        BY <1>1, <1>3, EntriesAssumption DEF Names, id
    <2> QED
        BY <1>1, <2>1, <2>2 DEF id
<1>4. CASE d.value # Bad /\ d.plugin = Literal
    <2>1. d.plugin # p
        BY <1>4, PluginsAssumption
    <2>2. CASE d.digits > 8
        <3>1. GetFormIDFromString(d) = MinusOne
            BY <1>4, <2>2 DEF GetFormIDFromString
        <3>2. ~(d.digits <= 8)
            BY <1>2, <2>2
        <3> QED
            BY <1>1, <2>1, <3>1, <3>2 DEF Names, id
    <2>3. CASE ~(d.digits > 8)
        <3>1. GetFormIDFromString(d) = d.value
            BY <1>4, <2>3 DEF GetFormIDFromString
        <3>2. d.digits <= 8
            BY <1>2, <2>3
        <3> QED
            BY <1>1, <1>4, <2>1, <3>1, <3>2 DEF Names, id
    <2> QED
        BY <2>2, <2>3
<1>5. CASE d.value # Bad /\ d.plugin \in Plugins
    <2> DEFINE q == d.plugin
    <2>1. d.plugin # Literal /\ d.value \in Ids
        BY <1>2, <1>5, PluginsAssumption
    <2>2. CASE order[q].kind # "full"
        <3>1. GetFormIDFromString(d) = MinusOne
            BY <1>5, <2>1, <2>2 DEF GetFormIDFromString, IsLoaded
        <3>2. ~(Names(d, p, lower) /\ (order[p].kind = "light" => d.plugin = Literal))
            BY <2>1, <2>2, ModFields DEF Names
        <3> QED
            BY <1>1, <3>1, <3>2 DEF id
    <2>3. CASE order[q].kind = "full" /\ d.digits > 6
        <3>1. GetFormIDFromString(d) = MinusOne
            BY <1>5, <2>1, <2>3 DEF GetFormIDFromString, IsLoaded, MaxPartialIdLength
        <3>2. ~(d.digits <= 6)
            BY <1>2, <2>3
        <3> QED
            BY <1>1, <2>1, <3>1, <3>2 DEF Names, id
    <2>4. CASE order[q].kind = "full" /\ ~(d.digits > 6)
        <3>1. order[q].index \in 0..253 /\ order[q].index % 256 = order[q].index
            BY <1>5, <2>4, ModFields
        <3>2. GetFormIDFromString(d) = Id(order[q].index, d.value.lower)
            BY <1>5, <2>1, <2>4, <3>1
                DEF GetFormIDFromString, IsLoaded, MaxPartialIdLength, WithLoadIndex
        <3>3. d.digits <= 6
            BY <1>2, <2>4
        <3>4. d.value = Id(0, d.value.lower)
            BY <2>1, <3>3, EntriesAssumption, IdFields
        <3>5. CASE order[p].kind = "full"
            <4>1. id = Id(order[p].index, lower)
                BY <3>5, LowerFacts DEF id, GetFormID
            <4>2. order[q].index = order[p].index <=> q = p
                <5>1. \A m, n \in Mods : m.kind = "full" /\ n.kind = "full"
                                        /\ m.index = n.index => m = n
                    BY DEF Mods
                <5>2. order \in Orders /\ order[p] \in Mods /\ order[q] \in Mods
                    BY <1>5, ModFields
                <5>3. order[q].index = order[p].index => order[q] = order[p]
                    BY <2>4, <3>5, <5>1, <5>2
                <5> QED
                    BY <1>5, <2>4, <5>2, <5>3, OrdersAssumption
            <4>3. d.value.lower = lower <=> d.value = Id(0, lower)
                BY <3>4, IdEquality
            <4>4. GetFormIDFromString(d) = id <=> q = p /\ d.value = Id(0, lower)
                BY <3>2, <4>1, <4>2, <4>3, IdEquality
            <4> QED
                BY <2>1, <3>3, <3>5, <4>4 DEF Names, id
        <3>6. CASE order[p].kind = "light"
            <4>1. id = Id(254, (order[p].index * LightBits) + (lower % LightBits))
                BY <3>6 DEF id, GetFormID
            <4>2. GetFormIDFromString(d) # id
                BY <3>1, <3>2, <4>1, IdEquality
            <4> QED
                BY <2>1, <3>6, <4>2 DEF id
        <3> QED
            BY <3>5, <3>6, ModFields
    <2> QED
        BY <2>2, <2>3, <2>4
<1> QED
    BY <1>3, <1>4, <1>5, EntryFields

-----------------------------------------------------------------------------
(* The state *)

LEMMA FormIDType ==
    ASSUME TypeOK, NEW e \in Entries, ~Throws(e)
    PROVE  GetFormIDFromString(e) \in Ids
<1>1. MinusOne \in Ids
    BY IdType, LowBitsFacts DEF MinusOne
<1>2. e.value \in Ids \cup {Bad}
    BY EntryFields DEF Throws
<1>3. CASE e.value \in Ids /\ e.plugin \in Plugins
    <2>1. order[e.plugin].index \in Int
        <3>1. \A m \in Mods : m.index \in Int
            BY LowBitsFacts DEF Mods, Light
        <3> QED
            BY <1>3, <3>1, ModFields
    <2>2. order[e.plugin].index % 256 \in 0..255
        BY <2>1
    <2>3. WithLoadIndex(e.value, e.plugin) \in Ids
        BY <1>3, <2>2, IdType, IdFields DEF WithLoadIndex
    <2> QED
        BY <1>1, <1>3, <2>3 DEF GetFormIDFromString
<1> QED
    BY <1>1, <1>2, <1>3, EntryFields DEF GetFormIDFromString

LEMMA TypeNext == TypeOK /\ [Next]_vars => TypeOK'
<1> SUFFICES ASSUME TypeOK, [Next]_vars PROVE TypeOK'
    OBVIOUS
<1>1. ASSUME NEW section \in Sections, NEW e \in Entries, ReadEntry(section, e) PROVE TypeOK'
    <2>1. CASE Throws(e)
        BY <1>1, <2>1 DEF ReadEntry, TypeOK
    <2>2. CASE ~Throws(e)
        <3>1. forms' = [forms EXCEPT ![section] = @ \cup ({GetFormIDFromString(e)} \ {MinusOne})]
              /\ read' = [read EXCEPT ![section] = @ \cup {e}]
              /\ thrown' = thrown /\ order' = order
            BY <1>1, <2>2 DEF ReadEntry
        <3> QED
            BY <3>1, <2>2, FormIDType DEF TypeOK
    <2> QED
        BY <2>1, <2>2
<1>2. CASE Reload
    BY <1>2 DEF Reload, TypeOK
<1>3. CASE StartGame
    BY <1>3 DEF StartGame, TypeOK
<1>4. CASE UNCHANGED vars
    BY <1>4 DEF vars, TypeOK
<1> QED
    BY <1>1, <1>2, <1>3, <1>4 DEF Next

\* Every state has its shape, and -1 is never selected (config.cpp:347-353).
THEOREM TypeCorrect == Spec => []TypeOK
<1>1. Init => TypeOK
    BY DEF Init, TypeOK
<1> QED
    BY <1>1, TypeNext, PTL DEF Spec

\* The forms are those of the entries that count, in the load order they were
\* read in.
FormsRead ==
    \A section \in Sections :
        /\ \A e \in read[section] : ~Throws(e)
        /\ \A id : id \in forms[section] <=>
                id # MinusOne /\ \E e \in read[section] : GetFormIDFromString(e) = id

LEMMA FormsReadNext == TypeOK /\ FormsRead /\ [Next]_vars => FormsRead'
<1> SUFFICES ASSUME TypeOK, FormsRead, [Next]_vars PROVE FormsRead'
    OBVIOUS
<1>1. ASSUME NEW section \in Sections, NEW e \in Entries, ReadEntry(section, e)
      PROVE  FormsRead'
    <2>1. order' = order
        BY <1>1 DEF ReadEntry
    <2>2. \A d : GetFormIDFromString(d)' = GetFormIDFromString(d)
        BY <2>1 DEF GetFormIDFromString, IsLoaded, MaxPartialIdLength, WithLoadIndex
    <2>3. CASE Throws(e)
        BY <1>1, <2>2, <2>3 DEF ReadEntry, FormsRead
    <2>4. CASE ~Throws(e)
        <3>1. forms' = [forms EXCEPT ![section] = @ \cup ({GetFormIDFromString(e)} \ {MinusOne})]
              /\ read' = [read EXCEPT ![section] = @ \cup {e}]
            BY <1>1, <2>4 DEF ReadEntry
        <3> QED
            BY <3>1, <2>2, <2>4 DEF FormsRead, TypeOK
    <2> QED
        BY <2>3, <2>4
<1>2. CASE Reload
    <2>1. \A d : GetFormIDFromString(d)' = GetFormIDFromString(d)
        BY <1>2 DEF Reload, GetFormIDFromString, IsLoaded, MaxPartialIdLength, WithLoadIndex
    <2> QED
        BY <1>2, <2>1 DEF Reload, FormsRead, TypeOK
<1>4. CASE StartGame
    BY <1>4 DEF StartGame, FormsRead
<1>3. CASE UNCHANGED vars
    BY <1>3 DEF vars, FormsRead, GetFormIDFromString, IsLoaded, MaxPartialIdLength, WithLoadIndex
<1> QED
    BY <1>1, <1>2, <1>3, <1>4 DEF Next

LEMMA FormsReadSelects == TypeOK /\ FormsRead => SelectsTheNamed
<1> SUFFICES ASSUME TypeOK, FormsRead,
                    NEW section \in Sections,
                    NEW p \in Plugins, NEW lower \in Lower, order[p].kind # "absent"
             PROVE  GetFormID(p, lower) \in forms[section] <=>
                        \E d \in read[section] :
                            Names(d, p, lower) /\ (order[p].kind = "light" => d.plugin = Literal)
    BY IdFields DEF SelectsTheNamed
<1>1. GetFormID(p, lower) # MinusOne
    <2>1. MinusOne.index = 255
        BY DEF MinusOne, Id
    <2> QED
        BY <2>1, GameIds
<1>2. \A d \in read[section] : d \in Entries /\ ~Throws(d)
    BY DEF TypeOK, FormsRead
<1>3. \A d \in read[section] : GetFormIDFromString(d) = GetFormID(p, lower) <=>
            Names(d, p, lower) /\ (order[p].kind = "light" => d.plugin = Literal)
    BY <1>2, EntrySelects
<1> QED
    BY <1>1, <1>3 DEF FormsRead

\* Whatever is installed in whatever order, an override selects a full plugin's
\* form if and only if an entry names it, read since the last reload for armors
\* and in this session for actors, and no form by another plugin's index
\* (config.cpp:46-100, 117-121).
THEOREM AlwaysSelectsTheNamed == Spec => []SelectsTheNamed
<1>1. Init => FormsRead
    BY DEF Init, FormsRead
<1> QED
    BY <1>1, FormsReadNext, FormsReadSelects, TypeCorrect, PTL DEF Spec
=============================================================================
