----------------------------- MODULE MCFormIds -----------------------------
(* An instance of FormIds: a plugin that is full in one load order and light  *)
(* in another, light indices that are those of full plugins, entries of every *)
(* length around the limits.                                                  *)
EXTENDS FormIds

CONSTANTS Armor, Outfits

Mod(kind, index) == [kind |-> kind, index |-> index]
Order(a, o) == [p \in Plugins |-> IF p = Armor THEN a ELSE o]
MCOrders == {Order(Mod("full", 1), Mod("full", 253)), Order(Mod("full", 2), Mod("light", 2)),
             Order(Mod("light", 1), Mod("full", 1)), Order(Mod("full", 253), Mod("light", 4093)),
             Order(Mod("absent", 0), Mod("full", 1))}

Entry(digits, value, plugin) == [digits |-> digits, value |-> value, plugin |-> plugin]
MCEntries == {
    Entry(3, Id(0, 2048), Armor), Entry(3, Id(0, 2048), Outfits),
    Entry(6, Id(0, 8390656), Armor), Entry(7, Id(1, 2048), Outfits),
    Entry(8, Id(1, 2048), Literal), Entry(8, Id(254, 6144), Literal), Entry(8, MinusOne, Literal),
    Entry(9, Id(1, 2048), Literal), Entry(9, Huge, Literal), Entry(0, Bad, Armor),
    Entry(4, Bad, Literal)}
=============================================================================
