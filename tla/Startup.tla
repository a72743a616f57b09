------------------------------ MODULE Startup ------------------------------
(***************************************************************************)
(* How the plugin comes into the frame: F4SEPlugin_Load and MessageHandler *)
(* (src/CBPSSE/main.cpp) between F4SE's plugin manager and the detour.     *)
(*                                                                         *)
(* After the two messages of LoadComplete F4SE sends GameDataReady twice,  *)
(* before and after the game's data are loaded (Hooks_GameData.cpp,        *)
(* PluginAPI.h).  Messages and frames are of the same thread.              *)
(***************************************************************************)
EXTENDS PluginManager, FrameHook

CONSTANT Ocbp       \* this plugin's handle

ASSUME OcbpAssumption == Ocbp \in Loads \ Preloads
ASSUME MessagesAssumption == Messages >= 4

VARIABLE config     \* what LoadConfig last found the game's data to be

vars == <<managerVars, hookVars, config>>

Init == ManagerInit /\ HookInit /\ config = "none"

Registered == <<Ocbp, F4SE>> \in asked \/ Ocbp \in refused

\* F4SEPlugin_Load: whether it was registered is not looked at; it returns
\* FALSE only before.
F4SEPlugin_Load ==
    /\ loading = Ocbp /\ ~Registered
    /\ RegisterListener(Ocbp, F4SE)

GameDataReady == sent \in {3, 4}

\* Mutant: the configuration is loaded with the first message only.
HandlerLoadingOnce ==
    IF GameDataReady
    THEN /\ config' = IF config # "none" THEN config ELSE IF sent = 4 THEN "data" ELSE "no data"
         /\ DoHook
    ELSE UNCHANGED <<hookVars, config>>

\* LoadConfig and DoHook, with every GameDataReady.
MessageHandler ==
    IF GameDataReady
    THEN /\ config' = IF sent = 4 THEN "data" ELSE "no data"
         /\ DoHook
    ELSE UNCHANGED <<hookVars, config>>

Receive ==
    /\ CallHandler
    /\ IF Top.sender = F4SE /\ Listening[Top.at] = Ocbp
       THEN MessageHandler
       ELSE UNCHANGED <<hookVars, config>>

Loading ==
    \/ LoadPlugin
    \/ PluginLoaded /\ (loading = Ocbp => Registered)
    \/ PluginFailed /\ (loading = Ocbp => ~Registered)
    \/ PhaseDone
    \/ F4SEPlugin_Load

Messaging ==
    \/ F4SESends \/ HandlerReturns
    \/ \E p \in Handles \ {Ocbp} : MayAct(p) /\ PluginActs(p)

OtherPluginHooks ==
    /\ phase = "loaded" /\ calls = <<>>
    /\ OtherHooks
    /\ UNCHANGED <<managerVars, config>>

Next ==
    /\ ~lost
    /\ \/ (Loading \/ Messaging) /\ UNCHANGED <<hookVars, config>>
       \/ Receive
       \/ OtherPluginHooks

Spec == Init /\ [][Next]_vars

-----------------------------------------------------------------------------
(* Properties *)

\* The shape of the state.
TypeOK ==
    /\ ManagerTypeOK
    /\ code \in [Functions -> Functions \cup {"body"}] /\ m_Created \in BOOLEAN
    /\ m_detourLen \in Functions \cup {None}
    /\ orig \in Functions \cup {None} /\ otherOrig \in Functions \cup {"body", None}
    /\ config \in {"none", "no data", "data"}

\* PluginManager.cpp:267-334, main.cpp:119: however many plugins before it fail
\* and are erased while the list is iterated, this one is not passed over.
NotSkipped == phase = "loaded" /\ Ocbp \in Elements(plugins) => Registered

\* PluginManager.cpp:848, main.cpp:157: this plugin ends up without messages only
\* if two others failed, for its handle is then beyond the plugins counted.
RefusedAfterFailures == Ocbp \in refused => \E p, q \in Failed : p < q

\* hookD3D.cpp:190, detourxs.cpp:20-72: whatever failed before, however often
\* GameDataReady comes and whoever else detours the function before or after, a
\* frame processes the event queue once, and updates the actors once if and
\* only if the detour was created; but for the one order in which an attempt
\* failed after it had measured the game's function, and the other plugin
\* detoured it before the next: its jump is then cut by a length not its own.
FrameOnce ==
    \/ FrameNow = [queue |-> 1, actors |-> IF m_Created THEN 1 ELSE 0]
    \/ m_Created /\ m_detourLen = "internal" /\ otherOrig = "body"

\* main.cpp:33-43: once the game's data are ready, actors are only updated with
\* settings that were read with the data present.
UpdatedWithData ==
    sent = Messages /\ calls = <<>> /\ ~lost /\ FrameNow.actors > 0 => config = "data"
=============================================================================
