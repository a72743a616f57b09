--------------------------- MODULE PluginManager ---------------------------
(***************************************************************************)
(* F4SE's plugin manager (src/f4se/f4se/PluginManager.cpp): the plugins    *)
(* loaded in two phases, the listeners they register and the messages F4SE *)
(* and they dispatch.                                                      *)
(*                                                                         *)
(* A plugin is known by the handle ScanPlugins gave it, which it passes    *)
(* with every call; m_plugins is the sequence of those that did not fail.  *)
(* Handlers run to their end inside Dispatch_Message, on one thread, and   *)
(* may register and dispatch themselves.  While plugins load they register *)
(* with F4SE or everyone only, for their names are not known yet.          *)
(***************************************************************************)
EXTENDS Integers, Sequences

CONSTANTS
    N,          \* compatible plugins found
    Preloads, Loads,    \* those that export F4SEPlugin_Preload, F4SEPlugin_Load
    Room,       \* lists added beyond those asked for
    Messages,   \* how many messages F4SE itself sends
    MaxDepth    \* bound on nested dispatches

Handles == 1..N
F4SE == 0
Everyone == -1      \* NULL as the sender to listen to, or as the receiver
Invalid == -2

ASSUME CountAssumption == N \in Nat /\ Room \in Nat /\ Messages \in Nat
                          /\ MaxDepth \in Nat
ASSUME ExportsAssumption == Preloads \subseteq Handles /\ Loads \subseteq Handles

VARIABLES
    plugins,        \* m_plugins
    phase,          \* of InstallPlugins, or "loaded"
    next,           \* where InstallPlugins is
    loading,        \* s_currentPluginHandle
    listeners,      \* s_pluginListeners
    calls,          \* dispatches in progress, the innermost last
    sent,           \* messages F4SE has sent
    asked,          \* history: <<p, s>>, p wants what s sends
    joined, got,    \* history: sent when p joined F4SE's listeners; received since
    refused,        \* history: plugins F4SE did not take as listeners
    lost            \* an iterator was invalidated or unloaded code called

history == <<asked, joined, got, refused>>
managerVars == <<plugins, phase, next, loading, listeners, calls, sent, history, lost>>

Elements(s) == {s[i] : i \in DOMAIN s}
Without(s, i) == [j \in 1..(Len(s) - 1) |-> IF j < i THEN s[j] ELSE s[j + 1]]
Failed == Handles \ Elements(plugins)

-----------------------------------------------------------------------------
(* Loading *)

\* ScanPlugins numbers the compatible plugins in the order of their files.
ManagerInit ==
    /\ plugins = [i \in Handles |-> i]
    /\ phase = "preload" /\ next = 1 /\ loading = 0
    /\ listeners = <<>>
    /\ calls = <<>> /\ sent = 0
    /\ asked = {} /\ refused = {}
    /\ joined = [p \in Handles |-> 0] /\ got = [p \in Handles |-> 0]
    /\ lost = FALSE

Cares(p) == p \in (IF phase = "preload" THEN Preloads ELSE Loads)

\* InstallPlugins comes to the next plugin that has this phase.
LoadPlugin ==
    /\ phase # "loaded" /\ loading = 0 /\ next <= Len(plugins)
    /\ IF Cares(plugins[next])
       THEN loading' = plugins[next] /\ UNCHANGED next
       ELSE next' = next + 1 /\ UNCHANGED loading
    /\ UNCHANGED <<plugins, phase, listeners, calls, sent, history, lost>>

PluginLoaded ==
    /\ loading # 0
    /\ loading' = 0 /\ next' = next + 1
    /\ UNCHANGED <<plugins, phase, listeners, calls, sent, history, lost>>

\* Mutant: the iterator is not set back.
PluginFailedSkipping ==
    /\ loading # 0
    /\ plugins' = Without(plugins, next)
    /\ loading' = 0 /\ next' = next + 1
    /\ UNCHANGED <<phase, listeners, calls, sent, history, lost>>

\* A plugin that refuses, throws or cannot be loaded is unloaded and erased;
\* handles are not given anew, and the listeners it registered stay.
PluginFailed ==
    /\ loading # 0
    /\ plugins' = Without(plugins, next)
    /\ loading' = 0
    /\ UNCHANGED <<phase, next, listeners, calls, sent, history, lost>>

PhaseDone ==
    /\ phase # "loaded" /\ loading = 0 /\ next > Len(plugins)
    /\ phase' = IF phase = "preload" THEN "load" ELSE "loaded"
    /\ next' = 1
    /\ UNCHANGED <<plugins, loading, listeners, calls, sent, history, lost>>

-----------------------------------------------------------------------------
(* Handles, names and listeners *)

\* A plugin being loaded is counted twice: it is in the list already.
GetNumPlugins == Len(plugins) + (IF loading # 0 THEN 1 ELSE 0)

\* Mutant: places are counted from 0.
LookupFromZero(p) ==
    IF p = F4SE THEN F4SE
    ELSE IF p \in Elements(plugins) THEN (CHOOSE i \in DOMAIN plugins : plugins[i] = p) - 1
    ELSE Invalid
\* The handle is looked up by the plugin's place in the list.
LookupHandleFromName(p) ==
    IF p = F4SE THEN F4SE
    ELSE IF p \in Elements(plugins) THEN CHOOSE i \in DOMAIN plugins : plugins[i] = p
    ELSE Invalid

\* GetPluginNameFromHandle: the plugin with that place.
NameOf(handle) ==
    IF handle = F4SE THEN F4SE
    ELSE IF handle \in DOMAIN plugins THEN plugins[handle]
    ELSE Invalid

\* The lists, with those there must be for this many plugins.
Resized ==
    LET size == GetNumPlugins + 1
        old == Len(listeners)
    IN  IF old >= size THEN listeners
        ELSE listeners \o [i \in 1..(size + Room - old) |-> <<>>]

\* The lists count from 0.
ListOf(lists, handle) == lists[handle + 1]

\* Mutant: a listener is added again.
AppendedAgain(list, p) == Append(list, p)
\* A plugin is in a list once.
AppendedOnce(list, p) == IF p \in Elements(list) THEN list ELSE Append(list, p)

\* idx of the loop over all lists: a list that is skipped is not counted.  It is
\* 0 for the first only.
LoopIdx(lists, p) ==
    LET idx[i \in DOMAIN lists] ==
            IF i = 1 THEN 0
            ELSE LET before == idx[i - 1]
                 IN  IF before \notin {0, p} /\ p \in Elements(lists[i - 1])
                     THEN before ELSE before + 1
    IN  idx
AppendedToAll(lists, p) ==
    LET idx == LoopIdx(lists, p)
    IN  [i \in DOMAIN lists |->
            IF i = 1 \/ idx[i] = p THEN lists[i] ELSE AppendedOnce(lists[i], p)]

\* Lists that grow while a dispatch runs through them.
Disturbed(lists) ==
    \E k \in DOMAIN calls : ListOf(lists, calls[k].sender) # ListOf(listeners, calls[k].sender)

\* Mutant: as many handles are valid as there are plugins.
AcceptedBySize(p) == p <= Len(plugins)
\* handle > num plugins = invalid.
Accepted(p) == p <= GetNumPlugins

RegisterListener(p, sender) ==
    /\ \/ /\ ~Accepted(p)
          /\ listeners' = Resized
          /\ refused' = IF sender = F4SE THEN refused \cup {p} ELSE refused
          /\ UNCHANGED <<asked, joined, lost>>
       \/ /\ Accepted(p) /\ sender # Everyone
          /\ LET target == LookupHandleFromName(sender)
             IN  IF target = Invalid
                 THEN listeners' = Resized /\ UNCHANGED <<asked, joined, lost>>
                 ELSE /\ listeners' = [Resized EXCEPT ![target + 1] = AppendedOnce(@, p)]
                      /\ lost' = (lost \/ Disturbed(listeners'))
                      /\ asked' = asked \cup {<<p, sender>>}
                      /\ joined' = IF <<p, F4SE>> \notin asked' \ asked THEN joined
                                   ELSE [joined EXCEPT ![p] = sent]
          /\ UNCHANGED refused
       \/ /\ Accepted(p) /\ sender = Everyone
          /\ listeners' = AppendedToAll(Resized, p)
          /\ lost' = (lost \/ Disturbed(listeners'))
          /\ asked' = asked \cup {<<p, s>> : s \in Elements(plugins) \ {p}}
          /\ UNCHANGED <<joined, refused>>
    /\ UNCHANGED <<plugins, phase, next, loading, calls, sent, got>>

-----------------------------------------------------------------------------
(* Messages *)

\* Dispatch_Message begins: nothing without a list, a receiver or a name.
Deliverable(sender, receiver) ==
    /\ sender < Len(listeners) /\ ListOf(listeners, sender) # <<>>
    /\ NameOf(sender) # Invalid
    /\ receiver # Everyone => LookupHandleFromName(receiver) # Invalid
Begin(sender, receiver) ==
    /\ Len(calls) < MaxDepth
    /\ Deliverable(sender, receiver)
    /\ calls' = Append(calls,
            [sender |-> sender, at |-> 1, running |-> 0,
             target |-> IF receiver = Everyone THEN Everyone ELSE LookupHandleFromName(receiver)])

\* F4SE sends the next of its own messages: PostLoad, PostPostLoad, ...
F4SESends ==
    /\ phase = "loaded" /\ calls = <<>> /\ sent < Messages
    /\ \/ Begin(F4SE, Everyone)
       \/ ~Deliverable(F4SE, Everyone) /\ UNCHANGED calls
    /\ sent' = sent + 1
    /\ UNCHANGED <<plugins, phase, next, loading, listeners, history, lost>>

Dispatch(p, receiver) ==
    /\ Begin(p, receiver)
    /\ UNCHANGED <<plugins, phase, next, loading, listeners, sent, history, lost>>

Top == calls[Len(calls)]
WithTop(call) == [calls EXCEPT ![Len(calls)] = call]
Listening == ListOf(listeners, Top.sender)

Popped == SubSeq(calls, 1, Len(calls) - 1)
\* The loop goes on behind this listener, or ends.
Onward(call) == IF call.at = Len(Listening) THEN Popped
                ELSE WithTop([call EXCEPT !.running = 0, !.at = @ + 1])

\* The next listener is called, or passed over if it is not the receiver; the
\* handler of a failed plugin is in a library that was unloaded.
CallHandler ==
    /\ calls # <<>> /\ Top.running = 0
    /\ LET p == Listening[Top.at]
       IN  IF Top.target \in {Everyone, p}
           THEN /\ calls' = WithTop([Top EXCEPT !.running = p])
                /\ got' = IF Top.sender = F4SE THEN [got EXCEPT ![p] = @ + 1] ELSE got
                /\ lost' = (lost \/ p \in Failed)
           ELSE calls' = Onward(Top) /\ UNCHANGED <<got, lost>>
    /\ UNCHANGED <<plugins, phase, next, loading, listeners, sent, asked, joined, refused>>

\* A message to one receiver ends with its handler.
HandlerReturns ==
    /\ calls # <<>> /\ Top.running # 0
    /\ calls' = IF Top.target = Everyone THEN Onward(Top) ELSE Popped
    /\ UNCHANGED <<plugins, phase, next, loading, listeners, sent, history, lost>>

\* The plugin whose code runs: one being loaded, one handling a message or,
\* after both messages of LoadComplete, any.  As a bound, not after the next
\* message of F4SE, outside handlers.
MayAct(p) ==
    \/ loading = p
    \/ calls # <<>> /\ Top.running = p
    \/ calls = <<>> /\ phase = "loaded" /\ sent = 2 /\ p \in Elements(plugins)

PluginActs(p) ==
    \/ /\ \E s \in (IF phase = "loaded" THEN Handles ELSE {}) \cup {F4SE, Everyone} :
            RegisterListener(p, s)
    \/ /\ phase = "loaded"
       /\ \E r \in Elements(plugins) \cup {Everyone} : Dispatch(p, r)

ManagerNext ==
    /\ ~lost
    /\ \/ LoadPlugin \/ PluginLoaded \/ PluginFailed \/ PhaseDone
       \/ F4SESends \/ CallHandler \/ HandlerReturns
       \/ \E p \in Handles : MayAct(p) /\ PluginActs(p)

-----------------------------------------------------------------------------
(* Properties *)

\* The shape of the state: no call without its list, and nothing is sent before
\* all plugins are loaded.
ManagerTypeOK ==
    /\ plugins \in Seq(Handles) /\ phase \in {"preload", "load", "loaded"}
    /\ next \in 1..(Len(plugins) + 1) /\ loading \in {0} \cup Handles
    /\ loading # 0 => phase # "loaded" /\ next \in DOMAIN plugins /\ plugins[next] = loading
    /\ listeners \in Seq(Seq(Handles))
    /\ \A k \in DOMAIN calls :
        /\ calls[k].sender \in 0..N /\ calls[k].sender < Len(listeners)
        /\ calls[k].target \in Handles \cup {Everyone}
        /\ calls[k].at \in Nat \ {0} /\ calls[k].running \in {0} \cup Handles
    /\ sent \in 0..Messages /\ (sent > 0 => phase = "loaded")
    /\ asked \subseteq Handles \X (0..N) /\ refused \subseteq Handles
    /\ joined \in [Handles -> Nat] /\ got \in [Handles -> Nat]
    /\ lost \in BOOLEAN

\* PluginManager.cpp:836-975: a plugin F4SE took as a listener gets each of its
\* messages from then on once, whatever it and the others register and dispatch
\* meanwhile, also from within handlers.
EveryMessageOnce ==
    ~lost /\ (\A k \in DOMAIN calls : calls[k].sender # F4SE) =>
        \A p \in Handles : got[p] = IF <<p, F4SE>> \in asked THEN sent - joined[p] ELSE 0

\* PluginManager.cpp:852-907: as long as no plugin fails, what one sends reaches
\* only those that asked for it, itself excepted, and is in its name.
RoutedUnlessFailed ==
    \A k \in DOMAIN calls :
        LET s == calls[k].sender
            p == calls[k].running
        IN  Failed = {} /\ s # F4SE /\ p \notin {0, s} =>
                <<p, s>> \in asked /\ NameOf(s) = s

\* PluginManager.cpp:917: the loop over a list is disturbed, or unloaded code
\* called, only by a handler within a handler or for a plugin that failed.
FlatDispatchSafe == lost => Len(calls) >= 2 \/ Top.running \in Failed
=============================================================================
