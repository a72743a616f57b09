--------------------------- MODULE MCThingMotion ---------------------------
(* An instance of ThingMotion: jumps on both axes beyond a limit of 6, limits *)
(* that differ by axis, one of them negative, pushes beyond all of them, cog  *)
(* offsets, linear factors and gravity that differ, and ticks of 4.5 ms, of   *)
(* more than a frame and below the least (in quarters).                       *)
EXTENDS ThingMotion

V(x, z) == [i \in Axes |-> IF i = "x" THEN x ELSE z]

MCPlaces == {V(0, 0), V(5, 0)}
Calm == [max |-> V(0, 2), spread |-> V(0, 2), cog |-> V(0, 1),
         linear |-> V(2, 1), supine |-> V(1, 0), correction |-> 0, rotateLinear |-> 0,
         timeTick |-> 18, stable |-> TRUE]
Wild == [max |-> V(1, -1), spread |-> V(2, 0), cog |-> V(1, 0),
         linear |-> V(1, 1), supine |-> Zero, correction |-> -1, rotateLinear |-> 3,
         timeTick |-> 260, stable |-> FALSE]
Stiff == [max |-> Zero, spread |-> Zero, cog |-> Zero,
          linear |-> Zero, supine |-> Zero, correction |-> 0, rotateLinear |-> 0,
          timeTick |-> 0, stable |-> TRUE]
MCSettings == {Calm, Wild, Stiff}
MCPushes == {V(5, 0), V(-1, -3)}
MCGarbage == {V(0, 20), NaN}
=============================================================================
