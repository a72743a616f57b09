----------------------------- MODULE FrameHook -----------------------------
(***************************************************************************)
(* The detour of ProcessEventQueue_Internal by which the plugin gets its   *)
(* turn in every frame: DoHook (src/CBPSSE/hookD3D.cpp) and                *)
(* DetourXS::Create (src/detourxs-master/detourxs.cpp).                    *)
(*                                                                         *)
(* A function either begins with its own instructions or with a jump to    *)
(* another.  One other plugin may detour the same function, before or      *)
(* after this one, in the same way.                                        *)
(***************************************************************************)
EXTENDS Integers

Functions == {"internal", "hk", "other"}    \* the game's, ours, the other plugin's
None == "none"

VARIABLES
    code,           \* "body", or the function its first instruction jumps to
    m_Created,
    m_detourLen,    \* None, or the function whose first instructions it is the length of
    orig,           \* orig_ProcessEventQueue_Internal: None, or the trampoline's function
    otherOrig       \* the other's trampoline: None, or the instruction it took

hookVars == <<code, m_Created, m_detourLen, orig, otherOrig>>

HookInit ==
    /\ code = [f \in Functions |-> "body"]
    /\ m_Created = FALSE
    /\ m_detourLen = None
    /\ orig = None /\ otherOrig = None

Jump(f) == IF code[f] = "body" THEN f ELSE code[f]
\* RecurseJumps: the function that jumps lead to, of three.
RecurseJumps(f) == Jump(Jump(Jump(f)))

\* The length is measured when there is none yet, and kept by an attempt that fails.
Measured(target) == IF m_detourLen = None THEN target ELSE m_detourLen

\* Mutant: the function is detoured once more.
CreateAgain(f, detour) ==
    LET target == RecurseJumps(f)
    IN  /\ m_detourLen' = Measured(target)
        /\ \/ code' = [code EXCEPT ![target] = detour] /\ orig' = target /\ m_Created' = TRUE
           \/ orig' \in {orig, target} /\ UNCHANGED <<code, m_Created>>

\* VirtualProtect may fail on the trampoline, or on the function when the
\* trampoline is already published.  The trampoline has its place for good: one
\* that was published before is written anew by every attempt.  A length of 0,
\* the other early return, does not occur: it is at least that of a jump.
Create(f, detour) ==
    LET target == RecurseJumps(f)
        written == IF orig = None THEN None ELSE target
    IN  IF m_Created THEN UNCHANGED <<code, m_Created, m_detourLen, orig>>
        ELSE /\ m_detourLen' = Measured(target)
             /\ \/ code' = [code EXCEPT ![target] = detour] /\ orig' = target /\ m_Created' = TRUE
                \/ orig' \in {written, target} /\ UNCHANGED <<code, m_Created>>

DoHook == Create("internal", "hk") /\ UNCHANGED otherOrig

OtherHooks ==
    /\ otherOrig = None
    /\ otherOrig' = code["internal"]
    /\ code' = [code EXCEPT !["internal"] = "other"]
    /\ UNCHANGED <<m_Created, m_detourLen, orig>>

\* A call of ProcessEventQueue_Internal under way: where it is, and how often it
\* has processed the event queue and called UpdateActors.
Entered == [fn |-> "internal", at |-> "entry", queue |-> 0, actors |-> 0]

\* A function's first instruction jumps or not; hk_ProcessEventQueue_Internal
\* calls its trampoline, which goes on behind the jump, and UpdateActors.  If the
\* trampoline was cut to another function's length, an instruction may be torn,
\* and what is left of the queue's processing is unknown.
Follow(r) ==
    CASE r.at = "entry" /\ code[r.fn] # "body" -> [r EXCEPT !.fn = code[r.fn]]
      [] r.at = "entry" /\ code[r.fn] = "body" -> [r EXCEPT !.at = "body"]
      [] r.at = "body" /\ r.fn = "internal" -> [r EXCEPT !.queue = @ + 1, !.at = "end"]
      [] r.at = "body" /\ r.fn = "hk" /\ orig # None /\ m_detourLen = orig ->
            [r EXCEPT !.fn = orig, !.actors = @ + 1]
      [] r.at = "body" /\ r.fn = "hk" /\ orig # None /\ m_detourLen # orig ->
            [r EXCEPT !.at = "torn", !.actors = @ + 1]
      [] r.at = "body" /\ r.fn = "other" /\ otherOrig = "body" -> [r EXCEPT !.fn = "internal"]
      [] r.at = "body" /\ r.fn = "other" /\ otherOrig # "body" ->
            [r EXCEPT !.fn = otherOrig, !.at = "entry"]
      [] OTHER -> r
Twice(r) == Follow(Follow(r))

\* What a call does: it enters each function once at the most.
FrameNow == LET r == Twice(Twice(Twice(Entered)))
            IN  [queue |-> r.queue, actors |-> r.actors]
=============================================================================
