--------------------------- MODULE ActorRegistry ---------------------------
(***************************************************************************)
(* What the map of tracked actors promises, without saying how a frame is  *)
(* made up: an actor is untracked, tracked, or bound to the body it has.   *)
(* Tracking starts for any actors at once and ends for all together; in    *)
(* between each actor is bound and unbound on its own, and nobody is bound *)
(* who was not tracked first.                                              *)
(***************************************************************************)
CONSTANT Actors

VARIABLE life

Init == life = [a \in Actors |-> "untracked"]

Admit ==
    \E S \in SUBSET {a \in Actors : life[a] = "untracked"} :
        life' = [a \in Actors |-> IF a \in S THEN "tracked" ELSE life[a]]

Bind(a) == life[a] = "tracked" /\ life' = [life EXCEPT ![a] = "bound"]

Reset(a) == life[a] = "bound" /\ life' = [life EXCEPT ![a] = "tracked"]

DropAll == life' = [a \in Actors |-> "untracked"]

Next == Admit \/ DropAll \/ \E a \in Actors : Bind(a) \/ Reset(a)

Spec == Init /\ [][Next]_life
=============================================================================
