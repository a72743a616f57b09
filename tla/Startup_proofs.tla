--------------------------- MODULE Startup_proofs ---------------------------
(***************************************************************************)
(* Invariants of Startup for any number of plugins, messages and nested    *)
(* dispatches: the messages of F4SE, the routing of others, and how this   *)
(* plugin comes to be registered.                                          *)
(***************************************************************************)
EXTENDS Startup, FiniteSetTheorems, SequenceTheorems, TLAPS

Calls == [sender : 0..N, at : Nat \ {0}, running : {0} \cup Handles,
          target : Handles \cup {Everyone}]

-----------------------------------------------------------------------------
(* Sequences *)

LEMMA WithoutFacts ==
    ASSUME NEW S, NEW s \in Seq(S), NEW i \in DOMAIN s
    PROVE  /\ Without(s, i) \in Seq(S)
           /\ Len(Without(s, i)) = Len(s) - 1
           /\ \A j \in 1..(i - 1) : Without(s, i)[j] = s[j]
           /\ \A j \in i..(Len(s) - 1) : Without(s, i)[j] = s[j + 1]
           /\ Elements(Without(s, i)) \subseteq Elements(s)
<1>0. i \in 1..Len(s) /\ Len(s) \in Nat
  OBVIOUS
<1>1. \A j \in 1..(Len(s) - 1) : (IF j < i THEN s[j] ELSE s[j + 1]) \in S
  BY <1>0
<1>2. Without(s, i) \in Seq(S) /\ Len(Without(s, i)) = Len(s) - 1
  BY <1>0, <1>1 DEF Without
<1>3. QED
  BY <1>0, <1>2 DEF Without, Elements

LEMMA AppendedOnceFacts ==
    ASSUME NEW S, NEW s \in Seq(S), NEW p \in S
    PROVE  /\ AppendedOnce(s, p) \in Seq(S)
           /\ Elements(AppendedOnce(s, p)) = Elements(s) \cup {p}
           /\ \A i \in DOMAIN s : i \in DOMAIN AppendedOnce(s, p) /\ AppendedOnce(s, p)[i] = s[i]
           /\ p \in Elements(s) => AppendedOnce(s, p) = s
BY DEF AppendedOnce, Elements

-----------------------------------------------------------------------------
(* What a step is for the plugin manager *)

Registers(p, s) ==
    /\ MayAct(p) /\ RegisterListener(p, s)
    /\ s \in Handles => phase = "loaded"
    /\ p = Ocbp => loading = Ocbp /\ s = F4SE

LEMMA Steps ==
    ASSUME Next, plugins \in Seq(Handles)
    PROVE  /\ ~lost
           /\ \/ LoadPlugin
              \/ PluginLoaded /\ (loading = Ocbp => Registered)
              \/ PluginFailed
              \/ PhaseDone
              \/ F4SESends
              \/ CallHandler
              \/ HandlerReturns
              \/ \E p \in Handles, s \in Handles \cup {F4SE, Everyone} : Registers(p, s)
              \/ \E p \in Handles, r \in Handles \cup {Everyone} :
                    phase = "loaded" /\ Dispatch(p, r)
              \/ UNCHANGED managerVars
<1> SUFFICES ASSUME NEW p \in Handles, MayAct(p), PluginActs(p), p # Ocbp, ~lost
    PROVE  \/ \E s \in Handles \cup {F4SE, Everyone} : Registers(p, s)
           \/ \E r \in Handles \cup {Everyone} : phase = "loaded" /\ Dispatch(p, r)
           \/ UNCHANGED managerVars
  <2>1. CASE F4SEPlugin_Load
    <3>1. Registers(Ocbp, F4SE) /\ Ocbp \in Handles
      BY <2>1, OcbpAssumption, ExportsAssumption
         DEF F4SEPlugin_Load, Registers, MayAct, Handles, F4SE
    <3>2. QED
      BY <3>1 DEF Next
  <2>2. QED
    BY <2>1 DEF Next, Loading, Messaging, Receive, OtherPluginHooks
<1>1. Elements(plugins) \subseteq Handles
  BY DEF Elements
<1>2. F4SE \notin Handles /\ Everyone \notin Handles
  BY CountAssumption DEF F4SE, Everyone, Handles
<1>3. ASSUME NEW s \in (IF phase = "loaded" THEN Handles ELSE {}) \cup {F4SE, Everyone},
             RegisterListener(p, s)
      PROVE  Registers(p, s) /\ s \in Handles \cup {F4SE, Everyone}
  BY <1>2, <1>3 DEF Registers
<1>4. QED
  BY <1>1, <1>3 DEF PluginActs

-----------------------------------------------------------------------------
(* Types *)

\* What ManagerTypeOK leaves to derive: every call is at a place of its list,
\* and while plugins load there are none.
ManagerInv ==
    /\ ManagerTypeOK /\ Len(plugins) <= N
    /\ calls \in Seq(Calls) /\ (phase # "loaded" => calls = <<>>)
    /\ \A k \in DOMAIN calls :
        /\ calls[k].at \in DOMAIN ListOf(listeners, calls[k].sender)
        /\ calls[k].running \in {0, ListOf(listeners, calls[k].sender)[calls[k].at]}

LEMMA LookupFacts ==
    ASSUME plugins \in Seq(Handles), NEW p \in Handles, LookupHandleFromName(p) # Invalid
    PROVE  p \in Elements(plugins) /\ LookupHandleFromName(p) \in 1..Len(plugins)
BY DEF LookupHandleFromName, Elements, F4SE, Handles

LEMMA ResizedFacts ==
    ASSUME ManagerTypeOK
    PROVE  /\ Resized \in Seq(Seq(Handles))
           /\ Len(Resized) > Len(plugins) /\ Len(Resized) >= Len(listeners)
           /\ \A i \in DOMAIN listeners : Resized[i] = listeners[i]
           /\ \A i \in DOMAIN Resized \ DOMAIN listeners : Resized[i] = <<>>
<1> DEFINE more == [i \in 1..(GetNumPlugins + 1 + Room - Len(listeners)) |-> <<>>]
<1>1. GetNumPlugins \in Nat /\ GetNumPlugins >= Len(plugins)
  BY DEF GetNumPlugins, ManagerTypeOK
<1>2. listeners \in Seq(Seq(Handles)) /\ Len(listeners) \in Nat /\ Room \in Nat
  BY CountAssumption DEF ManagerTypeOK
<1>3. CASE Len(listeners) >= GetNumPlugins + 1
  BY <1>1, <1>2, <1>3 DEF Resized, ManagerTypeOK
<1>4. CASE Len(listeners) < GetNumPlugins + 1
  <2>1. more \in Seq(Seq(Handles)) /\ Len(more) = GetNumPlugins + 1 + Room - Len(listeners)
    BY <1>1, <1>2, <1>4
  <2>2. Resized = listeners \o more
    BY <1>1, <1>2, <1>4 DEF Resized
  <2> HIDE DEF more
  <2>3. /\ Resized \in Seq(Seq(Handles)) /\ Len(Resized) = GetNumPlugins + 1 + Room
        /\ \A i \in 1..(GetNumPlugins + 1 + Room) :
            Resized[i] = IF i <= Len(listeners) THEN listeners[i] ELSE more[i - Len(listeners)]
    BY <1>1, <1>2, <2>1, <2>2, ConcatProperties
  <2>4. /\ DOMAIN Resized = 1..(GetNumPlugins + 1 + Room)
        /\ DOMAIN listeners = 1..Len(listeners)
    BY <1>1, <1>2, <2>3
  <2>5. ASSUME NEW i \in DOMAIN Resized \ DOMAIN listeners PROVE Resized[i] = <<>>
    <3>1. i - Len(listeners) \in 1..(GetNumPlugins + 1 + Room - Len(listeners)) /\ i > Len(listeners)
      BY <1>1, <1>2, <2>4, <2>5
    <3>2. QED
      BY <1>2, <2>3, <2>4, <3>1 DEF more
  <2>6. Len(plugins) \in Nat
    BY DEF ManagerTypeOK
  <2>7. QED
    BY <1>1, <1>2, <1>4, <2>3, <2>4, <2>5, <2>6
<1>5. QED
  BY <1>1, <1>2, <1>3, <1>4

\* A registration adds to lists, at their ends, and takes nothing away.
LEMMA RegisterFacts ==
    ASSUME ManagerTypeOK, Len(plugins) <= N, NEW p \in Handles,
           NEW s \in Handles \cup {F4SE, Everyone}, RegisterListener(p, s)
    PROVE  /\ listeners' \in Seq(Seq(Handles)) /\ Len(listeners') >= Len(listeners)
           /\ \A i \in DOMAIN listeners' :
                listeners'[i] \in {Resized[i], AppendedOnce(Resized[i], p)}
           /\ \A i \in DOMAIN listeners :
                listeners'[i] \in {listeners[i], AppendedOnce(listeners[i], p)}
<1>1. /\ Resized \in Seq(Seq(Handles))
      /\ Len(Resized) > Len(plugins) /\ Len(Resized) >= Len(listeners)
      /\ \A i \in DOMAIN listeners : Resized[i] = listeners[i]
  BY ResizedFacts
<1>2. \A i \in DOMAIN Resized : AppendedOnce(Resized[i], p) \in Seq(Handles)
  BY <1>1, AppendedOnceFacts
<1> DEFINE Added == /\ Len(listeners') = Len(Resized) /\ listeners' \in Seq(Seq(Handles))
                    /\ \A i \in DOMAIN Resized :
                        listeners'[i] \in {Resized[i], AppendedOnce(Resized[i], p)}
<1>3. Added
  <2>1. CASE listeners' = Resized
    BY <1>1, <2>1
  <2>2. ASSUME NEW i \in DOMAIN Resized,
               listeners' = [Resized EXCEPT ![i] = AppendedOnce(@, p)]
        PROVE  Added
    BY <1>1, <1>2, <2>2
  <2>3. CASE listeners' = AppendedToAll(Resized, p)
    <3> DEFINE idx == LoopIdx(Resized, p)
               e(i) == IF i = 1 \/ idx[i] = p THEN Resized[i] ELSE AppendedOnce(Resized[i], p)
    <3>1. listeners' = [i \in 1..Len(Resized) |-> e(i)]
      BY <1>1, <2>3 DEF AppendedToAll
    <3>2. \A i \in 1..Len(Resized) :
            e(i) \in Seq(Handles) /\ e(i) \in {Resized[i], AppendedOnce(Resized[i], p)}
      BY <1>1, <1>2
    <3> HIDE DEF e
    <3>3. listeners' \in Seq(Seq(Handles)) /\ Len(listeners') = Len(Resized)
      BY <1>1, <3>1, <3>2
    <3>4. QED
      BY <1>1, <3>1, <3>2, <3>3
  <2>4. CASE /\ s # Everyone /\ LookupHandleFromName(s) # Invalid
             /\ listeners' = [Resized EXCEPT ![LookupHandleFromName(s) + 1] = AppendedOnce(@, p)]
    <3>1. LookupHandleFromName(s) \in 0..Len(plugins)
      BY <2>4, LookupFacts DEF LookupHandleFromName, ManagerTypeOK, F4SE, Everyone
    <3>2. LookupHandleFromName(s) + 1 \in DOMAIN Resized
      BY <1>1, <3>1 DEF ManagerTypeOK
    <3>3. QED
      BY <2>2, <2>4, <3>2
  <2>5. QED
    BY <2>1, <2>3, <2>4 DEF RegisterListener
<1>4. DOMAIN listeners' = DOMAIN Resized
  BY <1>1, <1>3
<1>5. Len(listeners') >= Len(listeners) /\ DOMAIN listeners \subseteq DOMAIN Resized
  <2>1. Len(listeners) \in Nat /\ DOMAIN listeners = 1..Len(listeners)
    BY DEF ManagerTypeOK
  <2>2. Len(Resized) \in Nat /\ DOMAIN Resized = 1..Len(Resized)
    BY <1>1
  <2>3. QED
    BY <1>1, <1>3, <2>1, <2>2
<1>6. QED
  BY <1>1, <1>3, <1>4, <1>5

LEMMA ManagerInvInit == Init => ManagerInv
<1> SUFFICES ASSUME Init PROVE ManagerInv
  OBVIOUS
<1>1. plugins \in Seq(Handles) /\ Len(plugins) = N /\ listeners = <<>> /\ calls = <<>>
  BY CountAssumption DEF Init, ManagerInit, Handles
<1>2. DOMAIN calls = {} /\ calls \in Seq(Calls) /\ listeners \in Seq(Seq(Handles))
  BY <1>1
<1>3. /\ phase = "preload" /\ next = 1 /\ loading = 0 /\ sent = 0 /\ lost = FALSE
      /\ asked = {} /\ refused = {}
      /\ joined \in [Handles -> Nat] /\ got \in [Handles -> Nat]
  BY DEF Init, ManagerInit
<1>4. ManagerTypeOK
  <2>1. next \in 1..(Len(plugins) + 1) /\ sent \in 0..Messages
    BY <1>1, <1>3, CountAssumption
  <2>2. lost \in BOOLEAN
    BY <1>3
  <2>3. QED
    BY <1>1, <1>2, <1>3, <2>1, <2>2 DEF ManagerTypeOK
<1>5. QED
  BY <1>1, <1>2, <1>4, CountAssumption DEF ManagerInv

\* Lists that only grow keep the calls in place.
LEMMA CallsStay ==
    ASSUME ManagerInv, UNCHANGED calls,
           listeners' \in Seq(Seq(Handles)), Len(listeners') >= Len(listeners),
           \A i \in DOMAIN listeners : \E p \in Handles :
                listeners'[i] \in {listeners[i], AppendedOnce(listeners[i], p)}
    PROVE  \A k \in DOMAIN calls' :
            /\ calls'[k].sender < Len(listeners')
            /\ calls'[k].at \in DOMAIN ListOf(listeners', calls'[k].sender)
            /\ calls'[k].running \in {0, ListOf(listeners', calls'[k].sender)[calls'[k].at]}
<1> SUFFICES ASSUME NEW k \in DOMAIN calls
    PROVE  /\ calls[k].sender < Len(listeners')
           /\ calls[k].at \in DOMAIN ListOf(listeners', calls[k].sender)
           /\ calls[k].running \in {0, ListOf(listeners', calls[k].sender)[calls[k].at]}
  OBVIOUS
<1> DEFINE i == calls[k].sender + 1
<1>1. /\ calls[k].sender \in Nat /\ calls[k].sender < Len(listeners)
      /\ calls[k].at \in DOMAIN listeners[i]
      /\ calls[k].running \in {0, listeners[i][calls[k].at]}
  BY DEF ManagerInv, ManagerTypeOK, ListOf
<1>2. listeners \in Seq(Seq(Handles))
  BY DEF ManagerInv, ManagerTypeOK
<1>3. i \in DOMAIN listeners /\ calls[k].sender < Len(listeners')
  BY <1>1, <1>2
<1>4. PICK p \in Handles : listeners'[i] \in {listeners[i], AppendedOnce(listeners[i], p)}
  BY <1>3
<1>5. \A j \in DOMAIN listeners[i] :
        j \in DOMAIN listeners'[i] /\ listeners'[i][j] = listeners[i][j]
  <2>1. listeners[i] \in Seq(Handles)
    BY <1>2, <1>3
  <2>2. \A j \in DOMAIN listeners[i] : /\ j \in DOMAIN AppendedOnce(listeners[i], p)
                                       /\ AppendedOnce(listeners[i], p)[j] = listeners[i][j]
    BY <1>4, <2>1 DEF AppendedOnce
  <2>3. CASE listeners'[i] = listeners[i]
    BY <2>3
  <2>4. CASE listeners'[i] = AppendedOnce(listeners[i], p)
    BY <2>2, <2>4
  <2>5. QED
    BY <1>4, <2>3, <2>4
<1>6. QED
  BY <1>1, <1>3, <1>5 DEF ListOf

\* The last of the calls, which is the one that runs.
LEMMA TopFacts ==
    ASSUME ManagerInv, calls # <<>>
    PROVE  /\ Len(calls) \in Nat \ {0} /\ Top = calls[Len(calls)] /\ Top \in Calls
           /\ Listening \in Seq(Handles) /\ Top.at \in DOMAIN Listening
           /\ Top.running \in {0, Listening[Top.at]}
           /\ Top.sender < Len(listeners)
<1>1. Len(calls) \in Nat \ {0} /\ Len(calls) \in DOMAIN calls /\ Top \in Calls
  BY DEF ManagerInv, Top
<1>2. Top.sender + 1 \in DOMAIN listeners /\ Listening \in Seq(Handles)
  BY <1>1 DEF ManagerInv, ManagerTypeOK, Top, Listening, ListOf, Calls
<1>3. QED
  BY <1>1, <1>2 DEF ManagerInv, ManagerTypeOK, Top, Listening

LEMMA LoadingKeepsManagerInv ==
    ASSUME ManagerInv, LoadPlugin \/ PluginLoaded \/ PluginFailed \/ PhaseDone
    PROVE  ManagerInv'
<1> USE DEF history
<1>0. /\ plugins \in Seq(Handles) /\ Len(plugins) \in Nat /\ Len(plugins) <= N
      /\ next \in 1..(Len(plugins) + 1)
      /\ UNCHANGED <<listeners, calls, sent, asked, joined, got, refused, lost>>
  BY DEF ManagerInv, ManagerTypeOK, LoadPlugin, PluginLoaded, PluginFailed, PhaseDone
<1>1. /\ plugins' \in Seq(Handles) /\ Len(plugins') <= N /\ Len(plugins') \in Nat
      /\ next' \in 1..(Len(plugins') + 1)
      /\ phase' \in {"preload", "load", "loaded"} /\ loading' \in {0} \cup Handles
      /\ loading' # 0 => phase' # "loaded" /\ next' \in DOMAIN plugins' /\ plugins'[next'] = loading'
      /\ phase = "loaded" => FALSE
  <2>1. CASE LoadPlugin
    BY <1>0, <2>1 DEF LoadPlugin, ManagerInv, ManagerTypeOK
  <2>2. CASE PluginLoaded
    BY <1>0, <2>2 DEF PluginLoaded, ManagerInv, ManagerTypeOK
  <2>3. CASE PluginFailed
    <3>1. next \in DOMAIN plugins /\ phase # "loaded" /\ phase \in {"preload", "load"}
      BY <2>3 DEF PluginFailed, ManagerInv, ManagerTypeOK
    <3>2. plugins' \in Seq(Handles) /\ Len(plugins') = Len(plugins) - 1
      BY <1>0, <2>3, <3>1, WithoutFacts DEF PluginFailed
    <3>3. UNCHANGED <<phase, next>> /\ loading' = 0
      BY <2>3 DEF PluginFailed
    <3>4. next \in 1..(Len(plugins') + 1) /\ Len(plugins') \in Nat /\ Len(plugins') <= N
      BY <1>0, <3>1, <3>2, CountAssumption
    <3>5. QED
      BY <3>1, <3>2, <3>3, <3>4
  <2>4. CASE PhaseDone
    BY <1>0, <2>4 DEF PhaseDone, ManagerInv, ManagerTypeOK
  <2>5. QED
    BY <2>1, <2>2, <2>3, <2>4
<1>2. calls = <<>> /\ sent = 0
  BY <1>1, CountAssumption DEF ManagerInv, ManagerTypeOK
<1>3. ManagerTypeOK'
  BY <1>0, <1>1, <1>2 DEF ManagerInv, ManagerTypeOK
<1>4. QED
  BY <1>0, <1>1, <1>2, <1>3 DEF ManagerInv

LEMMA RegisteringKeepsManagerInv ==
    ASSUME ManagerInv, NEW p \in Handles, NEW s \in Handles \cup {F4SE, Everyone},
           RegisterListener(p, s)
    PROVE  ManagerInv'
<1>1. /\ listeners' \in Seq(Seq(Handles)) /\ Len(listeners') >= Len(listeners)
      /\ \A i \in DOMAIN listeners :
            listeners'[i] \in {listeners[i], AppendedOnce(listeners[i], p)}
  BY RegisterFacts DEF ManagerInv
<1>2. UNCHANGED <<plugins, phase, next, loading, calls, sent, got>>
  BY DEF RegisterListener
<1>3. \A k \in DOMAIN calls' :
        /\ calls'[k].sender < Len(listeners')
        /\ calls'[k].at \in DOMAIN ListOf(listeners', calls'[k].sender)
        /\ calls'[k].running \in {0, ListOf(listeners', calls'[k].sender)[calls'[k].at]}
  BY <1>1, <1>2, CallsStay
<1>4. refused' \subseteq Handles /\ joined' \in [Handles -> Nat] /\ lost' \in BOOLEAN
  <2>0. /\ refused \subseteq Handles /\ joined \in [Handles -> Nat]
        /\ lost \in BOOLEAN /\ sent \in Nat
    BY CountAssumption DEF ManagerInv, ManagerTypeOK
  <2>1. refused' \in {refused, refused \cup {p}}
    BY DEF RegisterListener
  <2>2. joined' \in {joined, [joined EXCEPT ![p] = sent]}
    BY DEF RegisterListener
  <2>3. lost' \in BOOLEAN
    BY <2>0 DEF RegisterListener, Disturbed
  <2>4. QED
    BY <2>0, <2>1, <2>2, <2>3
<1>5. asked' \subseteq Handles \X (0..N)
  <2>1. Elements(plugins) \subseteq Handles
    BY DEF Elements, ManagerInv, ManagerTypeOK
  <2>2. F4SE \in 0..N /\ Handles \subseteq 0..N
    BY CountAssumption DEF F4SE, Handles
  <2>3. asked \subseteq Handles \X (0..N)
    BY DEF ManagerInv, ManagerTypeOK
  <2>4. \/ asked' = asked
        \/ s # Everyone /\ asked' = asked \cup {<<p, s>>}
        \/ asked' = asked \cup {<<p, q>> : q \in Elements(plugins) \ {p}}
    BY DEF RegisterListener
  <2>5. s # Everyone => <<p, s>> \in Handles \X (0..N)
    BY <2>2
  <2>6. \A q \in Elements(plugins) \ {p} : <<p, q>> \in Handles \X (0..N)
    BY <2>1, <2>2
  <2>7. QED
    BY <2>3, <2>4, <2>5, <2>6
<1>6. ManagerTypeOK'
  BY <1>1, <1>2, <1>3, <1>4, <1>5 DEF ManagerInv, ManagerTypeOK
<1>7. QED
  BY <1>2, <1>3, <1>6 DEF ManagerInv

\* All but the calls stays, and each call is at a place of its list.
LEMMA CallingKeepsManagerInv ==
    ASSUME ManagerInv, UNCHANGED <<plugins, phase, next, loading, listeners, asked, joined, refused>>,
           phase = "loaded", sent' \in 0..Messages, got' \in [Handles -> Nat], lost' \in BOOLEAN,
           calls' \in Seq(Calls),
           \A k \in DOMAIN calls' :
                /\ calls'[k].sender < Len(listeners)
                /\ calls'[k].at \in DOMAIN ListOf(listeners, calls'[k].sender)
                /\ calls'[k].running \in {0, ListOf(listeners, calls'[k].sender)[calls'[k].at]}
    PROVE  ManagerInv'
<1>1. \A k \in DOMAIN calls' : calls'[k] \in Calls
  OBVIOUS
<1>2. \A k \in DOMAIN calls' :
        /\ calls'[k].sender \in 0..N /\ calls'[k].target \in Handles \cup {Everyone}
        /\ calls'[k].at \in Nat \ {0} /\ calls'[k].running \in {0} \cup Handles
  BY <1>1 DEF Calls
<1>3. ManagerTypeOK'
  BY <1>2 DEF ManagerInv, ManagerTypeOK
<1>4. QED
  BY <1>3 DEF ManagerInv

LEMMA BeginFacts ==
    ASSUME ManagerInv, NEW s \in {F4SE} \cup Handles, NEW r \in Handles \cup {Everyone}, Begin(s, r)
    PROVE  \E c \in Calls : /\ calls' = Append(calls, c)
                            /\ c.sender = s /\ c.at = 1 /\ c.running = 0
                            /\ s < Len(listeners) /\ 1 \in DOMAIN ListOf(listeners, s)
                            /\ (r = Everyone => c.target = Everyone)
<1> DEFINE c == [sender |-> s, at |-> 1, running |-> 0,
                 target |-> IF r = Everyone THEN Everyone ELSE LookupHandleFromName(r)]
<1>1. calls' = Append(calls, c)
  BY DEF Begin
<1>2. s \in 0..N /\ s + 1 \in DOMAIN listeners /\ s < Len(listeners)
  <2>1. s \in 0..N
    BY CountAssumption DEF F4SE, Handles
  <2>2. s < Len(listeners) /\ listeners \in Seq(Seq(Handles))
    BY DEF Begin, Deliverable, ManagerInv, ManagerTypeOK
  <2>3. QED
    BY <2>1, <2>2, CountAssumption
<1>3. ListOf(listeners, s) \in Seq(Handles) /\ ListOf(listeners, s) # <<>>
  BY <1>2 DEF Begin, Deliverable, ListOf, ManagerInv, ManagerTypeOK
<1>4. c.target \in Handles \cup {Everyone}
  <2>1. CASE r # Everyone
    <3>1. r \in Handles /\ LookupHandleFromName(r) # Invalid
      BY <2>1 DEF Begin, Deliverable
    <3>2. LookupHandleFromName(r) \in 1..Len(plugins)
      BY <3>1, LookupFacts DEF ManagerInv, ManagerTypeOK
    <3>3. LookupHandleFromName(r) \in Handles
      BY <3>2, CountAssumption DEF ManagerInv, ManagerTypeOK, Handles
    <3>4. QED
      BY <2>1, <3>3
  <2>2. QED
    BY <2>1
<1>5. c \in Calls
  BY <1>2, <1>4 DEF Calls
<1>6. 1 \in DOMAIN ListOf(listeners, s)
  BY <1>3
<1>7. QED
  BY <1>1, <1>2, <1>5, <1>6

\* How the innermost call may change: it ends, or goes on in its list.
Moved(c) == /\ c \in Calls /\ calls' = WithTop(c)
            /\ c.sender = Top.sender /\ c.target = Top.target
            /\ c.at \in DOMAIN Listening /\ c.running \in {0, Listening[c.at]}

LEMMA OnwardFacts ==
    ASSUME ManagerInv, calls # <<>>, calls' = Onward(Top)
    PROVE  \/ Top.at = Len(Listening) /\ calls' = Popped
           \/ \E c : Moved(c) /\ c.at = Top.at + 1 /\ c.running = 0
<1>1. Top \in Calls /\ Top.at \in 1..Len(Listening) /\ Len(Listening) \in Nat
      /\ DOMAIN Listening = 1..Len(Listening)
  BY TopFacts
<1>2. CASE Top.at = Len(Listening)
  BY <1>2 DEF Onward
<1>3. CASE Top.at # Len(Listening)
  <2> DEFINE c == [Top EXCEPT !.running = 0, !.at = @ + 1]
  <2>1. calls' = WithTop(c)
    BY <1>3 DEF Onward
  <2>2. c \in Calls /\ c.sender = Top.sender /\ c.target = Top.target
        /\ c.at = Top.at + 1 /\ c.running = 0
    <3>1. Top.at + 1 \in Nat \ {0}
      BY <1>1
    <3> DEFINE d == [Top EXCEPT !.running = 0]
    <3>2. d \in Calls /\ d.sender = Top.sender /\ d.target = Top.target /\ d.at = Top.at /\ d.running = 0
      BY <1>1 DEF Calls
    <3> DEFINE e == [d EXCEPT !.at = Top.at + 1]
    <3>3. c = e
      OBVIOUS
    <3> HIDE DEF d
    <3>4. e \in Calls /\ e.sender = d.sender /\ e.target = d.target /\ e.at = Top.at + 1
          /\ e.running = d.running
      BY <3>1, <3>2 DEF Calls
    <3>5. QED
      BY <3>2, <3>3, <3>4
  <2>3. c.at \in DOMAIN Listening
    BY <1>1, <1>3, <2>2
  <2> HIDE DEF c
  <2>4. QED
    BY <2>1, <2>2, <2>3 DEF Moved
<1>4. QED
  BY <1>2, <1>3

LEMMA EachMoves ==
    ASSUME ManagerInv, calls # <<>>, CallHandler \/ HandlerReturns
    PROVE  calls' = Popped \/ \E c : Moved(c)
<1>0. Top \in Calls /\ Top.at \in DOMAIN Listening /\ Top.running \in {0, Listening[Top.at]}
      /\ Listening \in Seq(Handles)
  BY TopFacts
<1>1. CASE calls' = Onward(Top)
  BY <1>1, OnwardFacts
<1>2. CASE calls' = WithTop([Top EXCEPT !.running = Listening[Top.at]])
  <2> DEFINE c == [Top EXCEPT !.running = Listening[Top.at]]
  <2>1. c \in Calls /\ c.sender = Top.sender /\ c.target = Top.target /\ c.at = Top.at
        /\ c.running = Listening[Top.at]
    BY <1>0 DEF Calls
  <2>2. calls' = WithTop(c)
    BY <1>2
  <2> HIDE DEF c
  <2>3. QED
    BY <1>0, <2>1, <2>2 DEF Moved
<1>3. QED
  BY <1>1, <1>2 DEF CallHandler, HandlerReturns

LEMMA MovingKeepsManagerInv ==
    ASSUME ManagerInv, CallHandler \/ HandlerReturns
    PROVE  ManagerInv'
<1>0. calls # <<>> /\ phase = "loaded"
  BY DEF CallHandler, HandlerReturns, ManagerInv
<1>1. /\ Len(calls) \in Nat \ {0} /\ calls \in Seq(Calls) /\ Listening \in Seq(Handles)
      /\ Top.at \in DOMAIN Listening /\ Top.sender < Len(listeners)
  BY <1>0, TopFacts DEF ManagerInv
<1>2. /\ UNCHANGED <<plugins, phase, next, loading, listeners, sent, asked, joined, refused>>
      /\ lost' \in BOOLEAN /\ got' \in [Handles -> Nat]
  <2>1. UNCHANGED <<plugins, phase, next, loading, listeners, sent, asked, joined, refused>>
    BY DEF CallHandler, HandlerReturns, history
  <2>2. lost' \in BOOLEAN
    BY DEF CallHandler, HandlerReturns, ManagerInv, ManagerTypeOK
  <2>3. Listening[Top.at] \in Handles /\ got \in [Handles -> Nat]
    BY <1>1 DEF ManagerInv, ManagerTypeOK
  <2>4. got' \in {got, [got EXCEPT ![Listening[Top.at]] = @ + 1]}
    BY DEF CallHandler, HandlerReturns, history
  <2>5. QED
    BY <2>1, <2>2, <2>3, <2>4
<1> DEFINE Kept ==
            /\ calls' \in Seq(Calls)
            /\ \A k \in DOMAIN calls' :
                /\ calls'[k].sender < Len(listeners)
                /\ calls'[k].at \in DOMAIN ListOf(listeners, calls'[k].sender)
                /\ calls'[k].running \in {0, ListOf(listeners, calls'[k].sender)[calls'[k].at]}
<1>3. Kept
  <2>0. \A k \in DOMAIN calls :
            /\ calls[k].sender < Len(listeners)
            /\ calls[k].at \in DOMAIN ListOf(listeners, calls[k].sender)
            /\ calls[k].running \in {0, ListOf(listeners, calls[k].sender)[calls[k].at]}
    BY DEF ManagerInv, ManagerTypeOK
  <2>1. CASE calls' = Popped
    BY <1>1, <2>0, <2>1 DEF Popped
  <2>2. ASSUME NEW c, Moved(c) PROVE  Kept
    <3>1. calls' \in Seq(Calls) /\ Len(calls') = Len(calls)
          /\ \A k \in DOMAIN calls' : calls'[k] = IF k = Len(calls) THEN c ELSE calls[k]
      BY <1>1, <2>2 DEF Moved, WithTop
    <3>2. /\ c.sender < Len(listeners)
          /\ c.at \in DOMAIN ListOf(listeners, c.sender)
          /\ c.running \in {0, ListOf(listeners, c.sender)[c.at]}
      BY <1>1, <2>2 DEF Moved, Listening
    <3>3. QED
      BY <1>1, <2>0, <3>1, <3>2
  <2>3. QED
    BY <1>0, <2>1, <2>2, EachMoves
<1>4. QED
  BY <1>0, <1>2, <1>3, CallingKeepsManagerInv DEF ManagerInv, ManagerTypeOK

LEMMA BeginningKeepsManagerInv ==
    ASSUME ManagerInv, phase = "loaded",
           F4SESends \/ \E p \in Handles, r \in Handles \cup {Everyone} : Dispatch(p, r)
    PROVE  ManagerInv'
<1>1. /\ UNCHANGED <<plugins, phase, next, loading, listeners, asked, joined, got, refused, lost>>
      /\ sent' \in 0..Messages
  BY CountAssumption DEF F4SESends, Dispatch, history, ManagerInv, ManagerTypeOK
<1>2. calls' = calls \/ \E s \in {F4SE} \cup Handles, r \in Handles \cup {Everyone} : Begin(s, r)
  BY DEF F4SESends, Dispatch
<1> DEFINE Placed(c) ==
            /\ c.sender < Len(listeners)
            /\ c.at \in DOMAIN ListOf(listeners, c.sender)
            /\ c.running \in {0, ListOf(listeners, c.sender)[c.at]}
<1>3. \A k \in DOMAIN calls : Placed(calls[k])
  BY DEF ManagerInv, ManagerTypeOK
<1>4. calls' \in Seq(Calls) /\ \A k \in DOMAIN calls' : Placed(calls'[k])
  <2>1. CASE calls' = calls
    BY <1>3, <2>1 DEF ManagerInv
  <2>2. ASSUME NEW s \in {F4SE} \cup Handles, NEW r \in Handles \cup {Everyone}, Begin(s, r)
        PROVE  calls' \in Seq(Calls) /\ \A k \in DOMAIN calls' : Placed(calls'[k])
    <3>1. PICK c \in Calls : /\ calls' = Append(calls, c)
                            /\ c.sender = s /\ c.at = 1 /\ c.running = 0
                            /\ s < Len(listeners) /\ 1 \in DOMAIN ListOf(listeners, s)
      BY <2>2, BeginFacts
    <3>2. Placed(c)
      BY <3>1
    <3> HIDE DEF Placed
    <3>3. calls \in Seq(Calls)
      BY DEF ManagerInv
    <3>4. QED
      BY <1>3, <3>1, <3>2, <3>3
  <2>3. QED
    BY <1>2, <2>1, <2>2
<1>5. QED
  BY <1>1, <1>4, CallingKeepsManagerInv DEF ManagerInv, ManagerTypeOK

LEMMA ManagerInvNext == ManagerInv /\ [Next]_vars => ManagerInv'
<1> SUFFICES ASSUME ManagerInv, [Next]_vars PROVE ManagerInv'
  OBVIOUS
<1>1. CASE UNCHANGED managerVars
  BY <1>1 DEF managerVars, history, ManagerInv, ManagerTypeOK
<1>2. CASE Next
  <2>1. \/ LoadPlugin \/ PluginLoaded \/ PluginFailed \/ PhaseDone
        \/ F4SESends \/ CallHandler \/ HandlerReturns
        \/ \E p \in Handles, s \in Handles \cup {F4SE, Everyone} : RegisterListener(p, s)
        \/ \E p \in Handles, r \in Handles \cup {Everyone} : phase = "loaded" /\ Dispatch(p, r)
        \/ UNCHANGED managerVars
    BY <1>2, Steps DEF ManagerInv, ManagerTypeOK, Registers
  <2>2. QED
    BY <1>1, <2>1, LoadingKeepsManagerInv, RegisteringKeepsManagerInv, MovingKeepsManagerInv,
       BeginningKeepsManagerInv DEF F4SESends
<1>3. QED
  BY <1>1, <1>2 DEF vars

\* The shape of the detour.
HookTypeOK ==
    /\ code \in [Functions -> Functions \cup {"body"}] /\ m_Created \in BOOLEAN
    /\ m_detourLen \in Functions \cup {None}
    /\ orig \in Functions \cup {None} /\ otherOrig \in Functions \cup {"body", None}
    /\ config \in {"none", "no data", "data"}

LEMMA HookTypeNext == HookTypeOK /\ [Next]_vars => HookTypeOK'
<1> SUFFICES ASSUME HookTypeOK, [Next]_vars PROVE HookTypeOK'
  OBVIOUS
<1>0. "internal" \in Functions /\ "hk" \in Functions /\ "other" \in Functions
  BY DEF Functions
<1>1. CASE UNCHANGED <<hookVars, config>>
  BY <1>1 DEF hookVars, HookTypeOK
<1>2. CASE OtherHooks /\ UNCHANGED config
  BY <1>0, <1>2 DEF OtherHooks, HookTypeOK
<1>3. CASE DoHook /\ config' \in {"no data", "data"}
  <2>1. \A f \in Functions : Jump(f) \in Functions
    BY DEF Jump, HookTypeOK
  <2>2. RecurseJumps("internal") \in Functions
    BY <1>0, <2>1 DEF RecurseJumps
  <2>3. QED
    BY <1>0, <1>3, <2>2 DEF DoHook, Create, Measured, HookTypeOK
<1>4. QED
  BY <1>1, <1>2, <1>3 DEF Next, Receive, MessageHandler, OtherPluginHooks, vars

\* TypeOK (Startup): the shape of the state is kept, for any number of plugins
\* that load, fail, register and dispatch in any order.
THEOREM TypeCorrect == Spec => []TypeOK
<1>1. Init => ManagerInv /\ HookTypeOK
  BY ManagerInvInit DEF Init, HookInit, HookTypeOK, Functions
<1>2. ManagerInv /\ HookTypeOK /\ [Next]_vars => (ManagerInv /\ HookTypeOK)'
  BY ManagerInvNext, HookTypeNext
<1>3. ManagerInv /\ HookTypeOK => TypeOK
  BY DEF ManagerInv, HookTypeOK, TypeOK
<1>4. QED
  BY <1>1, <1>2, <1>3, PTL DEF Spec

-----------------------------------------------------------------------------
(* The messages of F4SE *)

\* F4SE's own listeners, in the order they are called.
Joined == IF listeners = <<>> THEN <<>> ELSE ListOf(listeners, F4SE)
Asked(p) == <<p, F4SE>> \in asked

\* A message of F4SE is on its way to this plugin.
Pending(p) ==
    \E k \in DOMAIN calls : calls[k].sender = F4SE /\
        \E i \in DOMAIN Joined : /\ Joined[i] = p
                                 /\ i > calls[k].at \/ (i = calls[k].at /\ calls[k].running = 0)

ListInv ==
    /\ \A k \in DOMAIN calls : calls[k].sender = F4SE => k = 1 /\ calls[k].target = Everyone
    /\ \A i, j \in DOMAIN Joined : Joined[i] = Joined[j] => i = j
    /\ \A p \in Handles : Asked(p) <=> p \in Elements(Joined)

\* Unless something went wrong, a plugin got what F4SE sent since it joined, but
\* for the message that is still on its way.
Counted ==
    \A p \in Handles :
        got[p] = IF ~Asked(p) THEN 0 ELSE IF Pending(p) THEN sent - joined[p] - 1 ELSE sent - joined[p]

MessagesInv == ListInv /\ (lost \/ Counted)

LEMMA JoinedFacts ==
    ASSUME ManagerInv
    PROVE  /\ Joined \in Seq(Handles)
           /\ \A k \in DOMAIN calls : calls[k].sender = F4SE =>
                listeners # <<>> /\ ListOf(listeners, F4SE) = Joined
<1>1. listeners \in Seq(Seq(Handles))
  BY DEF ManagerInv, ManagerTypeOK
<1>2. listeners # <<>> => ListOf(listeners, F4SE) \in Seq(Handles)
  BY <1>1 DEF ListOf, F4SE
<1>3. \A k \in DOMAIN calls : calls[k].sender = F4SE => listeners # <<>>
  BY <1>1 DEF ManagerInv, ManagerTypeOK, F4SE
<1>4. QED
  BY <1>2, <1>3 DEF Joined

\* A registration adds a listener of F4SE or leaves them alone.
LEMMA JoinSteps ==
    ASSUME ManagerInv, NEW p \in Handles, NEW s \in Handles \cup {F4SE, Everyone},
           RegisterListener(p, s)
    PROVE  \/ /\ Joined' = AppendedOnce(Joined, p)
              /\ asked' = asked \cup {<<p, F4SE>>}
              /\ joined' = IF Asked(p) THEN joined ELSE [joined EXCEPT ![p] = sent]
              /\ lost' = (lost \/ Disturbed(listeners'))
           \/ Joined' = Joined /\ UNCHANGED joined /\ \A q \in Handles : Asked(q)' <=> Asked(q)
<1>1. /\ Resized \in Seq(Seq(Handles)) /\ Len(Resized) > Len(plugins) /\ Len(plugins) \in Nat
      /\ \A i \in DOMAIN listeners : Resized[i] = listeners[i]
      /\ \A i \in DOMAIN Resized \ DOMAIN listeners : Resized[i] = <<>>
  BY ResizedFacts DEF ManagerInv, ManagerTypeOK
<1>2. Resized # <<>> /\ 1 \in DOMAIN Resized
  BY <1>1
<1>3. Resized[1] = Joined
  <2>1. listeners \in Seq(Seq(Handles))
    BY DEF ManagerInv, ManagerTypeOK
  <2>2. CASE listeners = <<>>
    BY <1>1, <1>2, <2>2 DEF Joined
  <2>3. CASE listeners # <<>>
    BY <1>1, <2>1, <2>3 DEF Joined, ListOf, F4SE
  <2>4. QED
    BY <2>2, <2>3
<1>4. listeners' \in Seq(Seq(Handles)) /\ Len(listeners') >= Len(listeners)
  BY RegisterFacts DEF ManagerInv
<1>5. CASE listeners' = Resized /\ UNCHANGED <<asked, joined>>
  BY <1>2, <1>3, <1>5 DEF Joined, ListOf, F4SE, Asked
<1>6. CASE /\ Accepted(p) /\ s = F4SE
           /\ listeners' = [Resized EXCEPT ![1] = AppendedOnce(@, p)]
           /\ lost' = (lost \/ Disturbed(listeners'))
           /\ asked' = asked \cup {<<p, s>>}
           /\ joined' = IF <<p, F4SE>> \notin asked' \ asked THEN joined
                        ELSE [joined EXCEPT ![p] = sent]
  <2>1. listeners' # <<>> /\ listeners'[1] = AppendedOnce(Joined, p)
    BY <1>1, <1>2, <1>3, <1>6
  <2>2. Joined' = AppendedOnce(Joined, p)
    BY <2>1 DEF Joined, ListOf, F4SE
  <2>3. QED
    BY <1>6, <2>2 DEF Asked
<1>7. CASE /\ s \in Handles /\ LookupHandleFromName(s) # Invalid
           /\ listeners' = [Resized EXCEPT ![LookupHandleFromName(s) + 1] = AppendedOnce(@, p)]
           /\ asked' = asked \cup {<<p, s>>}
           /\ joined' = IF <<p, F4SE>> \notin asked' \ asked THEN joined
                        ELSE [joined EXCEPT ![p] = sent]
  <2>1. LookupHandleFromName(s) \in 1..Len(plugins) /\ F4SE \notin Handles
    BY <1>7, LookupFacts DEF ManagerInv, ManagerTypeOK, F4SE, Handles
  <2>2. listeners' # <<>> /\ listeners'[1] = Joined
    BY <1>1, <1>2, <1>3, <1>7, <2>1
  <2>3. QED
    BY <1>7, <2>1, <2>2 DEF Joined, ListOf, F4SE, Asked
<1>8. CASE /\ listeners' = AppendedToAll(Resized, p) /\ UNCHANGED joined
           /\ asked' = asked \cup {<<p, q>> : q \in Elements(plugins) \ {p}}
  <2>0. Elements(plugins) \subseteq Handles
    BY DEF Elements, ManagerInv, ManagerTypeOK
  <2>1. Elements(plugins) \subseteq Handles /\ F4SE \notin Handles
    BY <2>0 DEF F4SE, Handles
  <2>2. DOMAIN listeners' = DOMAIN Resized /\ listeners'[1] = Joined
    BY <1>2, <1>3, <1>8 DEF AppendedToAll
  <2>3. listeners' # <<>>
    BY <1>2, <2>2
  <2>4. QED
    BY <1>8, <2>1, <2>2, <2>3 DEF Joined, ListOf, F4SE, Asked
<1>9. QED
  <2>1. F4SE + 1 = 1 /\ LookupHandleFromName(F4SE) = F4SE /\ F4SE # Invalid
    BY DEF F4SE, LookupHandleFromName, Invalid
  <2>2. QED
    BY <1>5, <1>6, <1>7, <1>8, <2>1 DEF RegisterListener

LEMMA MessagesRegister ==
    ASSUME ManagerInv, MessagesInv, ~lost,
           NEW p \in Handles, NEW s \in Handles \cup {F4SE, Everyone}, RegisterListener(p, s)
    PROVE  MessagesInv'
<1>0. UNCHANGED <<calls, sent, got>> /\ Counted /\ ListInv /\ Joined \in Seq(Handles)
      /\ sent \in Nat /\ joined \in [Handles -> Nat]
  BY JoinedFacts, CountAssumption DEF RegisterListener, MessagesInv, ManagerInv, ManagerTypeOK
<1>1. CASE Joined' = Joined /\ UNCHANGED joined /\ \A q \in Handles : Asked(q)' <=> Asked(q)
  <2>1. \A q : Pending(q)' <=> Pending(q)
    BY <1>0, <1>1 DEF Pending
  <2>2. ListInv'
    BY <1>0, <1>1 DEF ListInv
  <2>3. Counted'
    BY <1>0, <1>1, <2>1 DEF Counted
  <2>4. QED
    BY <2>2, <2>3 DEF MessagesInv
<1>2. CASE /\ Joined' = AppendedOnce(Joined, p)
           /\ asked' = asked \cup {<<p, F4SE>>}
           /\ joined' = IF Asked(p) THEN joined ELSE [joined EXCEPT ![p] = sent]
           /\ lost' = (lost \/ Disturbed(listeners'))
  <2>1. \A q \in Handles : Asked(q)' <=> Asked(q) \/ q = p
    BY <1>2 DEF Asked
  <2>2. CASE Asked(p)
    <3>1. Joined' = Joined
      BY <1>0, <1>2, <2>2 DEF AppendedOnce, ListInv
    <3>2. QED
      BY <1>1, <1>2, <2>1, <2>2, <3>1
  <2>3. CASE ~Asked(p)
    <3>1. p \notin Elements(Joined) /\ Joined' = Append(Joined, p)
      BY <1>0, <1>2, <2>3 DEF AppendedOnce, ListInv
    <3>2. /\ \A i, j \in DOMAIN Joined' : Joined'[i] = Joined'[j] => i = j
          /\ Elements(Joined') = Elements(Joined) \cup {p}
      <4>1. /\ Len(Joined) \in Nat /\ DOMAIN Joined = 1..Len(Joined)
            /\ DOMAIN Joined' = 1..(Len(Joined) + 1)
            /\ \A i \in DOMAIN Joined' : Joined'[i] = IF i = Len(Joined) + 1 THEN p ELSE Joined[i]
        BY <1>0, <3>1
      <4>2. \A i \in DOMAIN Joined : Joined[i] # p
        BY <3>1 DEF Elements
      <4>3. \A i, j \in DOMAIN Joined : Joined[i] = Joined[j] => i = j
        BY <1>0 DEF ListInv
      <4>4. \A i, j \in DOMAIN Joined' : Joined'[i] = Joined'[j] => i = j
        BY <4>1, <4>2, <4>3
      <4>5. QED
        BY <4>1, <4>4 DEF Elements
    <3>3. ListInv'
      BY <1>0, <2>1, <3>2 DEF ListInv
    <3>4. CASE \E k \in DOMAIN calls : calls[k].sender = F4SE
      <4>1. PICK k \in DOMAIN calls : calls[k].sender = F4SE
        BY <3>4
      <4>2. ListOf(listeners, F4SE) = Joined /\ listeners # <<>>
        BY <4>1, JoinedFacts
      <4>3. listeners' \in Seq(Seq(Handles)) /\ Len(listeners') >= Len(listeners)
            /\ listeners \in Seq(Seq(Handles))
        BY RegisterFacts DEF ManagerInv, ManagerTypeOK
      <4>4. ListOf(listeners', F4SE) = Joined'
        BY <4>2, <4>3 DEF Joined
      <4>5. Joined' # Joined
        BY <1>0, <3>1
      <4>6. lost'
        BY <1>2, <4>1, <4>2, <4>4, <4>5 DEF Disturbed
      <4>7. QED
        BY <3>3, <4>6 DEF MessagesInv
    <3>5. CASE \A k \in DOMAIN calls : calls[k].sender # F4SE
      <4>1. \A q : ~Pending(q) /\ ~Pending(q)'
        BY <1>0, <3>5 DEF Pending
      <4>2. joined'[p] = sent /\ \A q \in Handles \ {p} : joined'[q] = joined[q]
        BY <1>0, <1>2, <2>3
      <4>3. Counted'
        BY <1>0, <2>1, <2>3, <4>1, <4>2 DEF Counted
      <4>4. QED
        BY <3>3, <4>3 DEF MessagesInv
    <3>6. QED
      BY <3>4, <3>5
  <2>4. QED
    BY <2>2, <2>3
<1>3. QED
  BY <1>1, <1>2, JoinSteps

LEMMA MessagesBegin ==
    ASSUME ManagerInv, MessagesInv, ~lost,
           F4SESends \/ \E p \in Handles, r \in Handles \cup {Everyone} : Dispatch(p, r)
    PROVE  MessagesInv'
<1>0. /\ Counted /\ ListInv /\ Joined \in Seq(Handles) /\ calls \in Seq(Calls)
      /\ sent \in Nat /\ joined \in [Handles -> Nat] /\ got \in [Handles -> Nat]
      /\ F4SE \notin Handles /\ F4SE \in Int /\ Everyone # F4SE
  BY JoinedFacts, CountAssumption
     DEF MessagesInv, ManagerInv, ManagerTypeOK, F4SE, Everyone, Handles
<1>1. UNCHANGED <<listeners, asked, joined, got, lost>> /\ UNCHANGED Joined
      /\ \A q : Asked(q)' <=> Asked(q)
  BY DEF F4SESends, Dispatch, history, Joined, Asked
<1>2. ASSUME NEW p \in Handles, NEW r \in Handles \cup {Everyone}, Dispatch(p, r)
      PROVE  MessagesInv'
  <2>1. PICK c \in Calls : calls' = Append(calls, c) /\ c.sender = p
    BY <1>2, BeginFacts DEF Dispatch
  <2>2. c.sender # F4SE /\ Len(calls) \in Nat /\ DOMAIN calls = 1..Len(calls)
        /\ DOMAIN calls' = 1..(Len(calls) + 1)
        /\ \A k \in DOMAIN calls' : calls'[k] = IF k = Len(calls) + 1 THEN c ELSE calls[k]
    BY <1>0, <2>1
  <2>a. /\ \A k \in DOMAIN calls : k \in DOMAIN calls' /\ calls'[k] = calls[k]
        /\ \A k \in DOMAIN calls' : calls'[k].sender = F4SE => k \in DOMAIN calls
    BY <2>2
  <2>3. ListInv'
    BY <1>0, <1>1, <2>a DEF ListInv
  <2>4. \A q : Pending(q)' <=> Pending(q)
    BY <1>0, <1>1, <2>a DEF Pending
  <2>5. sent' = sent
    BY <1>2 DEF Dispatch
  <2>6. QED
    BY <1>0, <1>1, <2>3, <2>4, <2>5 DEF MessagesInv, Counted
<1>3. CASE F4SESends
  <2>1. calls = <<>> /\ sent' = sent + 1
    BY <1>3 DEF F4SESends
  <2>2. \A q : ~Pending(q)
    BY <2>1 DEF Pending
  <2>3. CASE Begin(F4SE, Everyone)
    <3>1. PICK c \in Calls : /\ calls' = Append(calls, c) /\ c.sender = F4SE /\ c.at = 1
                            /\ c.running = 0 /\ c.target = Everyone
      BY <2>3, BeginFacts
    <3>2. DOMAIN calls' = {1} /\ calls'[1] = c
      BY <2>1, <3>1
    <3>3. ListInv'
      BY <1>0, <1>1, <3>1, <3>2 DEF ListInv
    <3>4. ASSUME NEW q \in Handles PROVE Pending(q)' <=> Asked(q)
      <4>1. Asked(q) <=> \E i \in DOMAIN Joined : Joined[i] = q
        BY <1>0 DEF ListInv, Elements
      <4>2. \A i \in DOMAIN Joined : i > 1 \/ i = 1
        BY <1>0
      <4>3. QED
        BY <1>1, <3>1, <3>2, <4>1, <4>2 DEF Pending
    <3>5. Counted'
      BY <1>0, <1>1, <2>1, <2>2, <3>4 DEF Counted
    <3>6. QED
      BY <3>3, <3>5 DEF MessagesInv
  <2>4. CASE ~Deliverable(F4SE, Everyone) /\ UNCHANGED calls
    <3>1. Joined = <<>>
      <4>1. NameOf(F4SE) # Invalid
        BY DEF NameOf, F4SE, Invalid
      <4>2. ~(F4SE < Len(listeners)) \/ ListOf(listeners, F4SE) = <<>>
        BY <2>4, <4>1 DEF Deliverable
      <4>3. QED
        BY <4>2 DEF Joined, ManagerInv, ManagerTypeOK, F4SE
    <3>2. \A q \in Handles : ~Asked(q)
      BY <1>0, <3>1 DEF ListInv, Elements
    <3>3. QED
      BY <1>0, <1>1, <2>1, <2>4, <3>2 DEF MessagesInv, ListInv, Counted
  <2>5. QED
    BY <1>3, <2>3, <2>4 DEF F4SESends
<1>4. QED
  BY <1>2, <1>3

\* A call of another sender's list moves: nothing changes for F4SE's.
LEMMA MoveBelow ==
    ASSUME ManagerInv, ListInv, calls # <<>>, Top.sender # F4SE, UNCHANGED <<listeners, asked>>,
           calls' = Popped \/ \E c : Moved(c)
    PROVE  ListInv' /\ \A q : Pending(q)' <=> Pending(q)
<1>0. /\ Len(calls) \in Nat \ {0} /\ calls \in Seq(Calls) /\ Top = calls[Len(calls)]
      /\ DOMAIN calls = 1..Len(calls)
  BY TopFacts DEF ManagerInv
<1>1. UNCHANGED Joined /\ \A q : Asked(q)' <=> Asked(q)
  BY DEF Joined, Asked
<1>2. /\ \A k \in DOMAIN calls : calls[k].sender = F4SE => k \in DOMAIN calls' /\ calls'[k] = calls[k]
      /\ \A k \in DOMAIN calls' :
            calls'[k].sender = F4SE => k \in DOMAIN calls /\ calls'[k] = calls[k]
  <2>1. CASE calls' = Popped
    <3>1. DOMAIN calls' = 1..(Len(calls) - 1) /\ \A k \in 1..(Len(calls) - 1) : calls'[k] = calls[k]
      BY <1>0, <2>1 DEF Popped
    <3>2. QED
      BY <1>0, <3>1
  <2>2. ASSUME NEW c, Moved(c)
        PROVE  /\ DOMAIN calls' = DOMAIN calls /\ c.sender # F4SE
               /\ \A k \in DOMAIN calls : calls'[k] = IF k = Len(calls) THEN c ELSE calls[k]
    BY <1>0, <2>2 DEF Moved, WithTop
  <2>3. QED
    BY <1>0, <2>1, <2>2
<1>3. ListInv'
  BY <1>1, <1>2 DEF ListInv
<1>4. QED
  BY <1>1, <1>2, <1>3 DEF Pending

\* The one call of F4SE's list moves.
LEMMA MoveOwn ==
    ASSUME ManagerInv, ListInv, calls # <<>>, Top.sender = F4SE, UNCHANGED <<listeners, asked>>,
           calls' = Popped \/ \E c : Moved(c)
    PROVE  /\ Len(calls) = 1 /\ Top.target = Everyone /\ ListInv' /\ UNCHANGED Joined
           /\ Listening = Joined /\ \A q : Asked(q)' <=> Asked(q)
           /\ \A q : Pending(q) <=> \E i \in DOMAIN Joined :
                Joined[i] = q /\ (i > Top.at \/ (i = Top.at /\ Top.running = 0))
           /\ calls' = Popped => \A q : ~Pending(q)'
           /\ \A c : Moved(c) => \A q : Pending(q)' <=> \E i \in DOMAIN Joined :
                Joined[i] = q /\ (i > c.at \/ (i = c.at /\ c.running = 0))
<1>0. /\ Len(calls) \in Nat \ {0} /\ calls \in Seq(Calls) /\ Top = calls[Len(calls)]
      /\ Len(calls) \in DOMAIN calls
  BY TopFacts DEF ManagerInv
<1>1. Len(calls) = 1 /\ Top.target = Everyone /\ DOMAIN calls = {1} /\ Top = calls[1]
  <2>1. Len(calls) = 1 /\ Top.target = Everyone
    BY <1>0 DEF ListInv
  <2>2. QED
    BY <1>0, <2>1
<1>2. Listening = Joined
  BY <1>0, <1>1, JoinedFacts DEF Listening
<1>3. UNCHANGED Joined /\ \A q : Asked(q)' <=> Asked(q)
  BY DEF Joined, Asked
<1>4. \A q : Pending(q) <=> \E i \in DOMAIN Joined :
        Joined[i] = q /\ (i > Top.at \/ (i = Top.at /\ Top.running = 0))
  BY <1>1 DEF Pending
<1>5. CASE calls' = Popped
  <2>1. DOMAIN calls' = {}
    BY <1>0, <1>1, <1>5 DEF Popped
  <2>2. ListInv' /\ \A q : ~Pending(q)'
    BY <1>3, <2>1 DEF ListInv, Pending
  <2>3. \A c : ~Moved(c)
    <3>1. SUFFICES ASSUME NEW c, Moved(c) PROVE FALSE
      OBVIOUS
    <3>2. DOMAIN calls' = DOMAIN calls
      BY <1>0, <3>1 DEF Moved, WithTop
    <3>3. QED
      BY <1>1, <2>1, <3>2
  <2>4. QED
    BY <1>1, <1>2, <1>3, <1>4, <2>2, <2>3
<1>6. ASSUME NEW c, Moved(c)
      PROVE  /\ calls' # Popped /\ ListInv'
             /\ \A q : Pending(q)' <=> \E i \in DOMAIN Joined :
                    Joined[i] = q /\ (i > c.at \/ (i = c.at /\ c.running = 0))
  <2>1. DOMAIN calls' = {1} /\ calls'[1] = c
    BY <1>0, <1>1, <1>6 DEF Moved, WithTop
  <2>2. DOMAIN Popped = {}
    BY <1>0, <1>1 DEF Popped
  <2>3. c.sender = F4SE /\ c.target = Everyone
    BY <1>1, <1>6 DEF Moved
  <2>4. ListInv'
    BY <1>3, <2>1, <2>3 DEF ListInv
  <2>5. QED
    BY <1>3, <2>1, <2>2, <2>3, <2>4 DEF Pending
<1>7. QED
  BY <1>1, <1>2, <1>3, <1>4, <1>5, <1>6

LEMMA MessagesMove ==
    ASSUME ManagerInv, MessagesInv, ~lost, CallHandler \/ HandlerReturns
    PROVE  MessagesInv'
<1>0. /\ calls # <<>> /\ ListInv /\ Counted
      /\ UNCHANGED <<listeners, sent, asked, joined>>
      /\ calls' = Popped \/ \E c : Moved(c)
  BY EachMoves DEF CallHandler, HandlerReturns, history, MessagesInv
<1>1. /\ Top \in Calls /\ Listening \in Seq(Handles) /\ Top.at \in DOMAIN Listening
      /\ got \in [Handles -> Nat] /\ sent \in Nat /\ joined \in [Handles -> Nat]
  BY <1>0, TopFacts, CountAssumption DEF ManagerInv, ManagerTypeOK
<1>2. CASE Top.sender # F4SE
  <2>1. ListInv' /\ \A q : Pending(q)' <=> Pending(q)
    BY <1>0, <1>2, MoveBelow
  <2>2. UNCHANGED got
    BY <1>2 DEF CallHandler, HandlerReturns, history
  <2>3. QED
    BY <1>0, <2>1, <2>2 DEF MessagesInv, Counted, Asked
<1>3. CASE Top.sender = F4SE
  <2>0. /\ Top.target = Everyone /\ ListInv' /\ UNCHANGED Joined /\ Listening = Joined
        /\ \A q : Asked(q)' <=> Asked(q)
        /\ \A q : Pending(q) <=> \E i \in DOMAIN Joined :
                Joined[i] = q /\ (i > Top.at \/ (i = Top.at /\ Top.running = 0))
        /\ calls' = Popped => \A q : ~Pending(q)'
        /\ \A c : Moved(c) => \A q : Pending(q)' <=> \E i \in DOMAIN Joined :
                Joined[i] = q /\ (i > c.at \/ (i = c.at /\ c.running = 0))
    BY <1>0, <1>3, MoveOwn
  <2>1. CASE CallHandler
    <3>0. Listening[Top.at] \in Handles
      BY <1>1
    <3>a. PICK p \in Handles : p = Listening[Top.at]
      BY <3>0
    <3> DEFINE c == [Top EXCEPT !.running = p]
    <3>1. Top.running = 0 /\ calls' = WithTop(c) /\ got' = [got EXCEPT ![p] = @ + 1]
      BY <1>3, <2>0, <2>1, <3>a DEF CallHandler
    <3>2. /\ c \in Calls /\ c.sender = Top.sender /\ c.target = Top.target /\ c.at = Top.at
          /\ c.running = p /\ p \in Handles /\ p # 0
      <4>1. p \in Handles /\ p # 0
        BY <3>a DEF Handles
      <4>2. QED
        BY <1>1, <4>1 DEF Calls
    <3>3. Moved(c)
      BY <1>1, <3>a, <3>1, <3>2 DEF Moved
    <3> HIDE DEF c
    <3>4. p = Joined[Top.at] /\ Top.at \in DOMAIN Joined /\ DOMAIN Joined \subseteq Nat
      BY <1>1, <2>0, <3>a
    <3>5. \A i \in DOMAIN Joined : Joined[i] = p => i = Top.at
      BY <1>0, <3>4 DEF ListInv
    <3>6. Pending(p) /\ ~Pending(p)' /\ Asked(p)
      <4>1. Pending(p)
        BY <2>0, <3>1, <3>4
      <4>2. ~Pending(p)'
        <5>1. \A i \in DOMAIN Joined :
                ~(Joined[i] = p /\ (i > c.at \/ (i = c.at /\ c.running = 0)))
          BY <3>2, <3>4, <3>5
        <5>2. QED
          BY <2>0, <3>3, <5>1
      <4>3. Asked(p)
        BY <1>0, <3>2, <3>4 DEF ListInv, Elements
      <4>4. QED
        BY <4>1, <4>2, <4>3
    <3>7. ASSUME NEW q \in Handles \ {p} PROVE Pending(q)' <=> Pending(q)
      <4>1. \A i \in DOMAIN Joined : Joined[i] = q => i # Top.at
        BY <3>4
      <4>2. QED
        BY <2>0, <3>2, <3>3, <4>1
    <3>8. got'[p] = got[p] + 1 /\ \A q \in Handles \ {p} : got'[q] = got[q]
      BY <1>1, <3>1, <3>2
    <3>9. ASSUME NEW q \in Handles
          PROVE  got'[q] = IF ~Asked(q)' THEN 0
                           ELSE IF Pending(q)' THEN sent' - joined'[q] - 1 ELSE sent' - joined'[q]
      <4>1. CASE q = p
        <5>1. got[p] = sent - joined[p] - 1
          BY <1>0, <3>2, <3>6 DEF Counted
        <5>2. joined[p] \in Int /\ sent \in Int /\ got'[p] = sent - joined[p]
          BY <1>1, <3>2, <3>8, <5>1
        <5>3. Asked(p)' /\ ~Pending(p)' /\ sent' = sent /\ joined' = joined
          BY <1>0, <2>0, <3>6
        <5>4. QED
          BY <4>1, <5>2, <5>3
      <4>2. CASE q # p
        BY <1>0, <2>0, <3>7, <3>8, <4>2 DEF Counted
      <4>3. QED
        BY <4>1, <4>2
    <3>10. QED
      BY <2>0, <3>9 DEF MessagesInv, Counted
  <2>2. CASE HandlerReturns
    <3>1. Top.running # 0 /\ calls' = Onward(Top) /\ UNCHANGED got
      BY <2>0, <2>2 DEF HandlerReturns, history
    <3>2. \A i \in DOMAIN Joined : i \in 1..Len(Joined)
      BY <1>1, <2>0
    <3>3. \A q : Pending(q)' <=> Pending(q)
      <4>1. CASE Top.at = Len(Listening) /\ calls' = Popped
        BY <1>1, <2>0, <3>1, <3>2, <4>1
      <4>2. ASSUME NEW c, Moved(c), c.at = Top.at + 1, c.running = 0
            PROVE  \A q : Pending(q)' <=> Pending(q)
        <5>1. \A i \in DOMAIN Joined : i > Top.at <=> i > c.at \/ i = c.at
          BY <1>1, <2>0, <3>2, <4>2
        <5>2. QED
          BY <2>0, <3>1, <4>2, <5>1
      <4>3. QED
        BY <1>0, <3>1, <4>1, <4>2, OnwardFacts
    <3>4. QED
      BY <1>0, <2>0, <3>1, <3>3 DEF MessagesInv, Counted
  <2>3. QED
    BY <2>1, <2>2
<1>4. QED
  BY <1>2, <1>3

LEMMA MessagesInit == Init => MessagesInv
<1> SUFFICES ASSUME Init PROVE MessagesInv
  OBVIOUS
<1>1. Joined = <<>> /\ calls = <<>> /\ asked = {} /\ got = [p \in Handles |-> 0]
  BY DEF Init, ManagerInit, Joined
<1>2. QED
  BY <1>1 DEF MessagesInv, ListInv, Counted, Asked, Elements

LEMMA MessagesNext == ManagerInv /\ MessagesInv /\ [Next]_vars => MessagesInv'
<1> SUFFICES ASSUME ManagerInv, MessagesInv, [Next]_vars PROVE MessagesInv'
  OBVIOUS
<1>1. CASE UNCHANGED <<listeners, calls, sent, asked, joined, got, lost>>
  <2>1. UNCHANGED Joined /\ \A q : (Asked(q)' <=> Asked(q)) /\ (Pending(q)' <=> Pending(q))
    BY <1>1 DEF Joined, Asked, Pending
  <2>2. QED
    BY <1>1, <2>1 DEF MessagesInv, ListInv, Counted
<1>2. CASE UNCHANGED managerVars
  BY <1>1, <1>2 DEF managerVars, history
<1>3. CASE Next
  <2>1. ~lost
        /\ \/ LoadPlugin \/ PluginLoaded \/ PluginFailed \/ PhaseDone
           \/ F4SESends \/ CallHandler \/ HandlerReturns
           \/ \E p \in Handles, s \in Handles \cup {F4SE, Everyone} : RegisterListener(p, s)
           \/ \E p \in Handles, r \in Handles \cup {Everyone} : Dispatch(p, r)
           \/ UNCHANGED managerVars
    BY <1>3, Steps DEF ManagerInv, ManagerTypeOK, Registers
  <2>2. CASE LoadPlugin \/ PluginLoaded \/ PluginFailed \/ PhaseDone
    BY <1>1, <2>2 DEF LoadPlugin, PluginLoaded, PluginFailed, PhaseDone, history
  <2>3. QED
    BY <1>2, <2>1, <2>2, MessagesRegister, MessagesMove, MessagesBegin
<1>4. QED
  BY <1>2, <1>3 DEF vars

\* EveryMessageOnce (PluginManager): a listener of F4SE gets each message once,
\* for any number of plugins and any nesting of registrations and dispatches.
THEOREM EveryMessageAlwaysOnce == Spec => []EveryMessageOnce
<1>1. ManagerInv /\ MessagesInv => EveryMessageOnce
  <2> SUFFICES ASSUME MessagesInv, ~lost, \A k \in DOMAIN calls : calls[k].sender # F4SE
      PROVE  \A p \in Handles : got[p] = IF <<p, F4SE>> \in asked THEN sent - joined[p] ELSE 0
    BY DEF EveryMessageOnce
  <2>1. \A p : ~Pending(p)
    BY DEF Pending
  <2>2. QED
    BY <2>1 DEF MessagesInv, Counted, Asked
<1>2. QED
  BY <1>1, ManagerInvInit, ManagerInvNext, MessagesInit, MessagesNext, PTL DEF Spec

-----------------------------------------------------------------------------
(* Handlers that register *)

LEMMA RegisterDisturbs ==
    ASSUME ManagerInv, ~lost, NEW p \in Handles, NEW s \in Handles \cup {F4SE, Everyone},
           Registers(p, s), lost'
    PROVE  Len(calls') >= 2
<1>1. /\ UNCHANGED calls /\ Disturbed(listeners') /\ MayAct(p)
      /\ listeners \in Seq(Seq(Handles)) /\ calls \in Seq(Calls)
      /\ \A i \in DOMAIN listeners : listeners'[i] \in {listeners[i], AppendedOnce(listeners[i], p)}
  BY RegisterFacts DEF Registers, RegisterListener, ManagerInv, ManagerTypeOK
<1>2. calls # <<>> /\ Len(calls) \in Nat \ {0}
  BY <1>1 DEF Disturbed
<1>3. Top.running = p /\ Top.at \in DOMAIN Listening /\ Top.running \in {0, Listening[Top.at]}
      /\ Top = calls[Len(calls)] /\ Top \in Calls /\ Top.sender < Len(listeners)
      /\ Listening \in Seq(Handles)
  <2>1. loading # p
    BY <1>2 DEF ManagerInv, ManagerTypeOK, Handles
  <2>2. QED
    BY <1>1, <1>2, <2>1, TopFacts DEF MayAct
<1>4. p \in Elements(Listening)
  BY <1>3 DEF Elements, Handles
<1>5. ListOf(listeners', Top.sender) = Listening
  <2>1. Top.sender + 1 \in DOMAIN listeners
    BY <1>1, <1>3 DEF Calls
  <2>2. AppendedOnce(listeners[Top.sender + 1], p) = listeners[Top.sender + 1]
    BY <1>4 DEF AppendedOnce, Listening, ListOf
  <2>3. QED
    BY <1>1, <2>1, <2>2 DEF Listening, ListOf
<1>6. PICK k \in DOMAIN calls :
        ListOf(listeners', calls[k].sender) # ListOf(listeners, calls[k].sender)
  BY <1>1 DEF Disturbed
<1>7. k # Len(calls)
  BY <1>3, <1>5, <1>6 DEF Listening
<1>8. QED
  BY <1>1, <1>2, <1>6, <1>7

\* FlatDispatchSafe (PluginManager): a handler that runs alone cannot disturb the
\* dispatch it is called from, whatever it registers.
THEOREM FlatDispatchAlwaysSafe == Spec => []FlatDispatchSafe
<1>1. Init => FlatDispatchSafe
  BY DEF Init, ManagerInit, FlatDispatchSafe
<1>2. ManagerInv /\ FlatDispatchSafe /\ [Next]_vars => FlatDispatchSafe'
  <2> SUFFICES ASSUME ManagerInv, FlatDispatchSafe, [Next]_vars PROVE FlatDispatchSafe'
    OBVIOUS
  <2>1. CASE UNCHANGED managerVars
    BY <2>1 DEF managerVars, FlatDispatchSafe, Top, Failed
  <2>2. CASE Next
    <3>1. SUFFICES ASSUME lost' PROVE Len(calls') >= 2 \/ Top'.running \in Failed'
      BY DEF FlatDispatchSafe
    <3>2. ~lost
      BY <2>2, Steps DEF ManagerInv, ManagerTypeOK
    <3>3. CASE CallHandler
      <4> DEFINE p == Listening[Top.at]
      <4>1. calls # <<>> /\ p \in Failed /\ calls' = WithTop([Top EXCEPT !.running = p])
            /\ UNCHANGED plugins
        BY <3>1, <3>2, <3>3 DEF CallHandler
      <4>2. Len(calls) \in DOMAIN calls /\ calls \in Seq(Calls) /\ Top \in Calls
        BY <4>1, TopFacts DEF ManagerInv
      <4>3. Top'.running = p /\ Failed' = Failed
        BY <4>1, <4>2 DEF WithTop, Top, Failed, Calls
      <4>4. QED
        BY <4>1, <4>3
    <3>4. ASSUME NEW p \in Handles, NEW s \in Handles \cup {F4SE, Everyone}, Registers(p, s)
          PROVE  Len(calls') >= 2
      BY <3>1, <3>2, <3>4, RegisterDisturbs
    <3>5. CASE UNCHANGED lost
      BY <3>1, <3>2, <3>5
    <3>6. QED
      BY <2>2, <3>3, <3>4, <3>5, Steps
         DEF LoadPlugin, PluginLoaded, PluginFailed, PhaseDone, F4SESends, HandlerReturns,
             Dispatch, managerVars, ManagerInv, ManagerTypeOK
  <2>3. QED
    BY <2>1, <2>2 DEF vars
<1>3. QED
  BY <1>1, <1>2, ManagerInvInit, ManagerInvNext, PTL DEF Spec

-----------------------------------------------------------------------------
(* Failures *)

\* What the steps leave of the plugins and of what was asked.
LEMMA GrowFacts ==
    ASSUME ManagerInv, Next
    PROVE  /\ asked \subseteq asked' /\ refused \subseteq refused'
           /\ Failed \subseteq Failed'
           /\ PluginFailed \/ UNCHANGED plugins
<1>1. asked \subseteq asked' /\ refused \subseteq refused'
  BY Steps DEF ManagerInv, ManagerTypeOK, Registers, RegisterListener, LoadPlugin, PluginLoaded,
     PluginFailed, PhaseDone, F4SESends, CallHandler, HandlerReturns, Dispatch, managerVars, history
<1>2. PluginFailed \/ UNCHANGED plugins
  BY Steps DEF ManagerInv, ManagerTypeOK, Registers, RegisterListener, LoadPlugin, PluginLoaded,
     PhaseDone, F4SESends, CallHandler, HandlerReturns, Dispatch, managerVars
<1>3. Elements(plugins') \subseteq Elements(plugins)
  <2>1. CASE PluginFailed
    <3>1. plugins \in Seq(Handles) /\ next \in DOMAIN plugins /\ plugins' = Without(plugins, next)
      BY <2>1 DEF PluginFailed, ManagerInv, ManagerTypeOK
    <3>2. QED
      BY <3>1, WithoutFacts
  <2>2. QED
    BY <1>2, <2>1
<1>4. QED
  BY <1>1, <1>2, <1>3 DEF Failed

\* Every place this plugin had when the loop of the second phase passed it.
PassedInv ==
    /\ phase = "load" => \A i \in 1..(next - 1) : plugins[i] = Ocbp => Registered
    /\ NotSkipped

LEMMA PassedNext == ManagerInv /\ PassedInv /\ [Next]_vars => PassedInv'
<1> SUFFICES ASSUME ManagerInv, PassedInv, [Next]_vars PROVE PassedInv'
  OBVIOUS
<1>1. CASE UNCHANGED vars
  BY <1>1 DEF vars, managerVars, history, PassedInv, NotSkipped, Registered, Elements
<1>2. CASE Next
  <2>0. /\ plugins \in Seq(Handles) /\ Len(plugins) \in Nat /\ next \in 1..(Len(plugins) + 1)
        /\ phase \in {"preload", "load", "loaded"}
    BY DEF ManagerInv, ManagerTypeOK
  <2>1. Registered => Registered'
    BY <1>2, GrowFacts DEF Registered
  <2>2. CASE UNCHANGED <<plugins, phase, next>>
    BY <2>1, <2>2 DEF PassedInv, NotSkipped
  <2>3. CASE LoadPlugin
    <3>1. UNCHANGED <<plugins, phase>> /\ phase # "loaded" /\ next \in DOMAIN plugins
          /\ next' \in {next, next + 1} /\ (next' = next + 1 => ~Cares(plugins[next]))
      BY <2>0, <2>3 DEF LoadPlugin
    <3>2. phase = "load" /\ next' = next + 1 => plugins[next] # Ocbp
      BY <3>1, OcbpAssumption DEF Cares
    <3>3. QED
      BY <2>0, <2>1, <3>1, <3>2 DEF PassedInv, NotSkipped
  <2>4. CASE PluginLoaded /\ (loading = Ocbp => Registered)
    <3>1. UNCHANGED <<plugins, phase>> /\ phase # "loaded" /\ next' = next + 1
          /\ plugins[next] = loading
      BY <2>4 DEF PluginLoaded, ManagerInv, ManagerTypeOK
    <3>2. QED
      BY <2>0, <2>1, <2>4, <3>1 DEF PassedInv, NotSkipped
  <2>5. CASE PluginFailed
    <3>1. UNCHANGED <<next, phase>> /\ phase # "loaded" /\ next \in DOMAIN plugins
          /\ plugins' = Without(plugins, next)
      BY <2>5 DEF PluginFailed, ManagerInv, ManagerTypeOK
    <3>2. \A i \in 1..(next - 1) : plugins'[i] = plugins[i]
      BY <2>0, <3>1, WithoutFacts
    <3>3. QED
      BY <2>1, <3>1, <3>2 DEF PassedInv, NotSkipped
  <2>6. CASE PhaseDone
    <3>1. UNCHANGED <<plugins, asked, refused>> /\ next = Len(plugins) + 1 /\ next' = 1
          /\ phase # "loaded" /\ phase' = IF phase = "preload" THEN "load" ELSE "loaded"
      BY <2>0, <2>6 DEF PhaseDone, history
    <3>2. Ocbp \in Elements(plugins) => \E i \in 1..(next - 1) : plugins[i] = Ocbp
      BY <2>0, <3>1 DEF Elements
    <3>3. QED
      BY <2>0, <2>1, <3>1, <3>2 DEF PassedInv, NotSkipped
  <2>7. QED
    BY <1>2, <2>2, <2>3, <2>4, <2>5, <2>6, Steps
       DEF ManagerInv, ManagerTypeOK, Registers, RegisterListener, F4SESends, CallHandler,
           HandlerReturns, Dispatch, managerVars
<1>3. QED
  BY <1>1, <1>2

\* NotSkipped (PluginManager.cpp:325-335): however many plugins fail, and
\* wherever they were, this one is loaded and registers.
THEOREM NeverSkipped == Spec => []NotSkipped
<1>1. Init => ManagerInv /\ PassedInv
  <2>1. Init => PassedInv
    BY DEF Init, ManagerInit, PassedInv, NotSkipped
  <2>2. QED
    BY <2>1, ManagerInvInit
<1>2. ManagerInv /\ PassedInv /\ [Next]_vars => (ManagerInv /\ PassedInv)'
  BY ManagerInvNext, PassedNext
<1>3. PassedInv => NotSkipped
  BY DEF PassedInv
<1>4. QED
  BY <1>1, <1>2, <1>3, PTL DEF Spec

LEMMA UpToFacts == \A n \in Nat : IsFiniteSet(1..n) /\ Cardinality(1..n) = n
<1> TAKE n \in Nat
<1>1. /\ IsFiniteSet(1..n)
      /\ Cardinality(1..n) = IF 1 > n THEN 0 ELSE n - 1 + 1
  BY FS_Interval
<1>2. QED
  BY <1>1

\* A list of n plugins leaves out two of the first n + 2.
LEMMA TwoLeftOut ==
    ASSUME NEW s \in Seq(Handles), NEW m \in Handles, m > Len(s) + 1
    PROVE  \E p, q \in Handles \ Elements(s) : p < q
<1>0. Len(s) \in Nat /\ DOMAIN s = 1..Len(s) /\ m \in Nat /\ N \in Nat /\ m <= N
  BY CountAssumption DEF Handles
<1>1. IsFiniteSet(Elements(s)) /\ Cardinality(Elements(s)) <= Len(s)
  <2>1. s \in Surjection(1..Len(s), Elements(s))
    BY <1>0 DEF Surjection, Elements
  <2>2. IsFiniteSet(1..Len(s)) /\ Cardinality(1..Len(s)) = Len(s)
    BY <1>0, UpToFacts
  <2>3. QED
    BY <2>1, <2>2, FS_Surjection
<1>2. SUFFICES ASSUME \A p, q \in Handles \ Elements(s) : ~(p < q) PROVE FALSE
  OBVIOUS
<1>3. PICK x \in 1..m : (1..m) \ {x} \subseteq Elements(s)
  <2>1. CASE \E x \in 1..m : x \notin Elements(s)
    <3>1. PICK x \in 1..m : x \notin Elements(s)
      BY <2>1
    <3>2. 1..m \subseteq Handles /\ Handles \subseteq Int
      BY <1>0 DEF Handles
    <3>3. ASSUME NEW y \in (1..m) \ {x} PROVE y \in Elements(s)
      <4>1. x < y \/ y < x
        BY <3>1
      <4>2. QED
        BY <1>2, <3>1, <3>2, <4>1
    <3>4. QED
      BY <3>1, <3>3
  <2>2. CASE 1..m \subseteq Elements(s)
    BY <1>0, <2>2
  <2>3. QED
    BY <2>1, <2>2
<1>4. IsFiniteSet((1..m) \ {x}) /\ Cardinality((1..m) \ {x}) = m - 1
  <2>1. IsFiniteSet(1..m) /\ Cardinality(1..m) = m
    BY <1>0, UpToFacts
  <2>2. QED
    BY <2>1, FS_RemoveElement
<1>5. Cardinality((1..m) \ {x}) <= Cardinality(Elements(s))
  BY <1>1, <1>3, FS_Subset
<1>6. Cardinality(Elements(s)) \in Nat
  BY <1>1, FS_CardinalityType
<1>7. QED
  BY <1>0, <1>1, <1>4, <1>5, <1>6

\* RefusedAfterFailures (PluginManager.cpp:848): this plugin is only left
\* without messages when two others failed.
THEOREM RefusedOnlyAfterFailures == Spec => []RefusedAfterFailures
<1>1. Init => ManagerInv /\ RefusedAfterFailures
  <2>1. Init => RefusedAfterFailures
    BY DEF Init, ManagerInit, RefusedAfterFailures
  <2>2. QED
    BY <2>1, ManagerInvInit
<1>2. ManagerInv /\ RefusedAfterFailures /\ [Next]_vars => RefusedAfterFailures'
  <2> SUFFICES ASSUME ManagerInv, RefusedAfterFailures, [Next]_vars, Ocbp \in refused'
               PROVE  \E p, q \in Failed' : p < q
    BY DEF RefusedAfterFailures
  <2>1. CASE Ocbp \in refused
    <3>1. \E p, q \in Failed : p < q
      BY <2>1 DEF RefusedAfterFailures
    <3>2. Failed \subseteq Failed'
      <4>1. CASE UNCHANGED vars
        BY <4>1 DEF vars, managerVars, Failed
      <4>2. QED
        BY <4>1, GrowFacts
    <3>3. QED
      BY <3>1, <3>2
  <2>2. CASE Ocbp \notin refused
    <3>1. PICK p \in Handles, s \in Handles \cup {F4SE, Everyone} :
            Registers(p, s) /\ refused' # refused
      BY <2>2, Steps
         DEF ManagerInv, ManagerTypeOK, LoadPlugin, PluginLoaded, PluginFailed, PhaseDone,
             F4SESends, CallHandler, HandlerReturns, Dispatch, vars, managerVars, history
    <3>2. p = Ocbp /\ ~Accepted(Ocbp) /\ UNCHANGED plugins /\ loading = Ocbp
      BY <2>2, <3>1 DEF Registers, RegisterListener
    <3>3. Ocbp \in Handles /\ Len(plugins) \in Nat /\ plugins \in Seq(Handles) /\ loading # 0
      BY <3>1, <3>2 DEF ManagerInv, ManagerTypeOK, Handles
    <3>4. Ocbp > Len(plugins) + 1
      BY <3>2, <3>3 DEF Accepted, GetNumPlugins, Handles
    <3>5. \E x, y \in Handles \ Elements(plugins) : x < y
      BY <3>3, <3>4, TwoLeftOut
    <3>6. QED
      BY <3>2, <3>5 DEF Failed
  <2>3. QED
    BY <2>1, <2>2
<1>3. QED
  BY <1>1, <1>2, ManagerInvNext, PTL DEF Spec

-----------------------------------------------------------------------------
(* Messages of the plugins *)

Unfailed == [i \in Handles |-> i]

LEMMA UnfailedFacts ==
    ASSUME plugins = Unfailed
    PROVE  /\ Elements(plugins) = Handles /\ DOMAIN plugins = Handles
           /\ \A s \in Handles : LookupHandleFromName(s) = s /\ NameOf(s) = s
<1>1. Elements(plugins) = Handles /\ DOMAIN plugins = Handles
  BY DEF Elements, Unfailed
<1>2. ASSUME NEW s \in Handles PROVE LookupHandleFromName(s) = s /\ NameOf(s) = s
  <2>1. s # F4SE /\ plugins[s] = s /\ \A i \in DOMAIN plugins : plugins[i] = i
    BY <1>1 DEF F4SE, Handles, Unfailed
  <2>2. QED
    BY <1>1, <2>1 DEF LookupHandleFromName, NameOf
<1>3. QED
  BY <1>1, <1>2

\* Each list, itself excepted, is of plugins that asked for it.
ListsAsked ==
    \A s \in Handles : s < Len(listeners) =>
        \A p \in Elements(ListOf(listeners, s)) : p = s \/ <<p, s>> \in asked

RoutedInv == Failed = {} => plugins = Unfailed /\ ListsAsked

LEMMA FailingFails ==
    ASSUME ManagerInv, PluginFailed, plugins = Unfailed
    PROVE  Failed' # {}
<1>1. /\ plugins \in Seq(Handles) /\ next \in DOMAIN plugins
      /\ plugins' = Without(plugins, next)
  BY DEF PluginFailed, ManagerInv, ManagerTypeOK
<1>2. /\ plugins' \in Seq(Handles) /\ Len(plugins') = Len(plugins) - 1
      /\ \A j \in 1..(next - 1) : plugins'[j] = plugins[j]
      /\ \A j \in next..(Len(plugins) - 1) : plugins'[j] = plugins[j + 1]
  BY <1>1, WithoutFacts
<1>3. /\ Len(plugins) \in Nat /\ DOMAIN plugins = 1..Len(plugins) /\ next \in Nat
      /\ \A i \in 1..Len(plugins) : plugins[i] = i
  <2>1. DOMAIN plugins = Handles /\ \A i \in Handles : plugins[i] = i
    BY UnfailedFacts DEF Unfailed
  <2>2. Len(plugins) \in Nat /\ DOMAIN plugins = 1..Len(plugins)
    BY <1>1
  <2>3. QED
    BY <1>1, <2>1, <2>2
<1>4. ASSUME NEW j \in DOMAIN plugins' PROVE plugins'[j] # next
  <2>1. j \in 1..(Len(plugins) - 1)
    BY <1>2, <1>3
  <2>2. CASE j < next
    BY <1>2, <1>3, <2>1, <2>2
  <2>3. CASE j >= next
    <3>1. plugins'[j] = plugins[j + 1] /\ j + 1 \in 1..Len(plugins)
      BY <1>2, <1>3, <2>1, <2>3
    <3>2. QED
      BY <1>3, <2>1, <2>3, <3>1
  <2>4. QED
    BY <1>3, <2>1, <2>2, <2>3
<1>5. next \in Handles
  BY <1>1, UnfailedFacts
<1>6. QED
  BY <1>4, <1>5 DEF Failed, Elements

LEMMA RegisteringKeepsLists ==
    ASSUME ManagerInv, plugins = Unfailed, ListsAsked, NEW p \in Handles,
           NEW r \in Handles \cup {F4SE, Everyone}, RegisterListener(p, r)
    PROVE  ListsAsked'
<1>0. /\ Resized \in Seq(Seq(Handles)) /\ listeners \in Seq(Seq(Handles))
      /\ listeners' \in Seq(Seq(Handles)) /\ asked \subseteq asked'
      /\ \A i \in DOMAIN listeners : Resized[i] = listeners[i]
      /\ \A i \in DOMAIN Resized \ DOMAIN listeners : Resized[i] = <<>>
  BY RegisterFacts, ResizedFacts DEF ManagerInv, ManagerTypeOK, RegisterListener
<1>1. ASSUME NEW s \in Handles, s + 1 \in DOMAIN Resized, NEW q \in Elements(Resized[s + 1])
      PROVE  q = s \/ <<q, s>> \in asked
  <2>1. CASE s + 1 \in DOMAIN listeners
    <3>1. s < Len(listeners)
      BY <1>0, <2>1 DEF Handles
    <3>2. QED
      BY <1>0, <1>1, <2>1, <3>1 DEF ListsAsked, ListOf
  <2>2. CASE s + 1 \notin DOMAIN listeners
    BY <1>0, <1>1, <2>2 DEF Elements
  <2>3. QED
    BY <2>1, <2>2
<1>2. ASSUME NEW s \in Handles, s + 1 \in DOMAIN Resized
      PROVE  \A q \in Elements(AppendedOnce(Resized[s + 1], p)) :
                q = p \/ q = s \/ <<q, s>> \in asked
  <2>1. Elements(AppendedOnce(Resized[s + 1], p)) = Elements(Resized[s + 1]) \cup {p}
    BY <1>0, <1>2, AppendedOnceFacts
  <2>2. QED
    BY <1>1, <1>2, <2>1
<1>3. SUFFICES ASSUME NEW s \in Handles, s + 1 \in DOMAIN listeners',
                      NEW q \in Elements(listeners'[s + 1])
               PROVE  q = s \/ <<q, s>> \in asked'
  BY <1>0 DEF ListsAsked, ListOf, Handles
<1>4. CASE listeners' = Resized
  BY <1>0, <1>1, <1>3, <1>4
<1>5. CASE /\ r # Everyone
           /\ listeners' = [Resized EXCEPT ![LookupHandleFromName(r) + 1] = AppendedOnce(@, p)]
           /\ asked' = asked \cup {<<p, r>>}
  <2>1. LookupHandleFromName(r) = r /\ r \in Nat /\ s \in Nat
    BY <1>5, UnfailedFacts DEF LookupHandleFromName, F4SE, Everyone, Handles
  <2>2. s + 1 \in DOMAIN Resized
    BY <1>0, <1>3, <1>5
  <2>3. CASE s = r
    <3>1. listeners'[s + 1] = AppendedOnce(Resized[s + 1], p)
      BY <1>0, <1>5, <2>1, <2>2, <2>3
    <3>2. QED
      BY <1>2, <1>3, <1>5, <2>2, <2>3, <3>1
  <2>4. CASE s # r
    <3>1. listeners'[s + 1] = Resized[s + 1]
      BY <1>0, <1>5, <2>1, <2>2, <2>4
    <3>2. QED
      BY <1>0, <1>1, <1>3, <2>2, <3>1
  <2>5. QED
    BY <2>3, <2>4
<1>6. CASE /\ listeners' = AppendedToAll(Resized, p)
           /\ asked' = asked \cup {<<p, t>> : t \in Elements(plugins) \ {p}}
  <2>1. /\ s + 1 \in DOMAIN Resized
        /\ listeners'[s + 1] \in {Resized[s + 1], AppendedOnce(Resized[s + 1], p)}
    BY <1>0, <1>3, <1>6 DEF AppendedToAll
  <2>2. p = s \/ <<p, s>> \in asked'
    BY <1>6, UnfailedFacts
  <2>3. CASE listeners'[s + 1] = Resized[s + 1]
    BY <1>0, <1>1, <1>3, <2>1, <2>3
  <2>4. CASE listeners'[s + 1] = AppendedOnce(Resized[s + 1], p)
    <3>1. q = p \/ q = s \/ <<q, s>> \in asked
      BY <1>2, <1>3, <2>1, <2>4
    <3>2. QED
      BY <1>0, <2>2, <3>1
  <2>5. QED
    BY <2>1, <2>3, <2>4
<1>7. QED
  BY <1>4, <1>5, <1>6 DEF RegisterListener

LEMMA RoutedNext == ManagerInv /\ RoutedInv /\ [Next]_vars => RoutedInv'
<1> SUFFICES ASSUME ManagerInv, RoutedInv, [Next]_vars, Failed' = {}
             PROVE  plugins' = Unfailed /\ ListsAsked'
  BY DEF RoutedInv, Unfailed
<1>1. CASE UNCHANGED <<plugins, listeners, asked>>
  BY <1>1 DEF RoutedInv, ListsAsked, Failed
<1>2. CASE Next
  <2>1. Failed = {} /\ plugins = Unfailed /\ ListsAsked
    BY <1>2, GrowFacts DEF RoutedInv
  <2>2. ~PluginFailed /\ UNCHANGED plugins
    BY <1>2, <2>1, FailingFails, GrowFacts
  <2>3. ASSUME NEW p \in Handles, NEW s \in Handles \cup {F4SE, Everyone}, Registers(p, s)
        PROVE  ListsAsked'
    BY <2>1, <2>3, RegisteringKeepsLists DEF Registers
  <2>4. QED
    BY <1>1, <1>2, <2>1, <2>2, <2>3, Steps
       DEF ManagerInv, ManagerTypeOK, LoadPlugin, PluginLoaded, PhaseDone, F4SESends,
           CallHandler, HandlerReturns, Dispatch, managerVars, history
<1>3. QED
  BY <1>1, <1>2 DEF vars, managerVars, history

\* RoutedUnlessFailed (PluginManager.cpp:852-907): without a failure, places and
\* handles agree, and messages go from the named sender to those that asked.
THEOREM RoutedUnlessOneFailed == Spec => []RoutedUnlessFailed
<1>1. Init => RoutedInv
  <2>1. Init => plugins = Unfailed /\ listeners = <<>>
    BY DEF Init, ManagerInit, Unfailed
  <2>2. listeners = <<>> => ListsAsked
    BY DEF ListsAsked, Handles
  <2>3. QED
    BY <2>1, <2>2 DEF RoutedInv
<1>2. ManagerInv /\ RoutedInv => RoutedUnlessFailed
  <2> SUFFICES ASSUME ManagerInv, RoutedInv, Failed = {}, NEW k \in DOMAIN calls,
                      calls[k].sender # F4SE, calls[k].running \notin {0, calls[k].sender}
               PROVE  /\ <<calls[k].running, calls[k].sender>> \in asked
                      /\ NameOf(calls[k].sender) = calls[k].sender
    BY DEF RoutedUnlessFailed
  <2> DEFINE s == calls[k].sender
             p == calls[k].running
  <2>1. s \in Handles /\ s < Len(listeners)
    BY DEF ManagerInv, ManagerTypeOK, Handles, F4SE
  <2>2. p = ListOf(listeners, s)[calls[k].at] /\ calls[k].at \in DOMAIN ListOf(listeners, s)
    BY DEF ManagerInv
  <2>3. p \in Elements(ListOf(listeners, s))
    BY <2>2 DEF Elements
  <2>4. plugins = Unfailed /\ ListsAsked
    BY DEF RoutedInv
  <2>5. QED
    BY <2>1, <2>3, <2>4, UnfailedFacts DEF ListsAsked
<1>3. QED
  BY <1>1, <1>2, ManagerInvInit, ManagerInvNext, RoutedNext, PTL DEF Spec

-----------------------------------------------------------------------------
(* The frame *)

\* The detours there can be: none, this plugin's, the other's, this plugin's
\* behind the other's, and the other's on top of this plugin's.
Jumps(internal, other) ==
    code = [f \in Functions |-> IF f = "internal" THEN internal
                                ELSE IF f = "other" THEN other ELSE "body"]
Plain == Jumps("body", "body") /\ ~m_Created /\ otherOrig = None /\ orig \in {None, "internal"}
         /\ m_detourLen \in {None, "internal"}
Ours == Jumps("hk", "body") /\ m_Created /\ otherOrig = None /\ orig = "internal"
        /\ m_detourLen = "internal"
Others == Jumps("other", "body") /\ ~m_Created /\ otherOrig = "body"
          /\ orig \in {None, "internal", "other"} /\ m_detourLen \in {None, "internal", "other"}
OursBehind == Jumps("other", "hk") /\ m_Created /\ otherOrig = "body" /\ orig = "other"
              /\ m_detourLen \in {"internal", "other"}
OursTaken == Jumps("other", "body") /\ m_Created /\ otherOrig = "hk" /\ orig = "internal"
             /\ m_detourLen = "internal"
HookInv == Plain \/ Ours \/ Others \/ OursBehind \/ OursTaken

\* A call in function f, its first instruction or behind it.
At(f, at, queue, updates) == [fn |-> f, at |-> at, queue |-> queue, actors |-> updates]

LEMMA FollowFacts ==
    ASSUME NEW f \in Functions, NEW q \in Nat, NEW n \in Nat
    PROVE  /\ code[f] # "body" => Follow(At(f, "entry", q, n)) = At(code[f], "entry", q, n)
           /\ code[f] = "body" => Follow(At(f, "entry", q, n)) = At(f, "body", q, n)
           /\ Follow(At("internal", "body", q, n)) = At("internal", "end", q + 1, n)
           /\ orig # None /\ m_detourLen = orig =>
                Follow(At("hk", "body", q, n)) = At(orig, "body", q, n + 1)
           /\ otherOrig = "body" => Follow(At("other", "body", q, n)) = At("internal", "body", q, n)
           /\ otherOrig # "body" => Follow(At("other", "body", q, n)) = At(otherOrig, "entry", q, n)
           /\ Follow(At(f, "end", q, n)) = At(f, "end", q, n)
<1>1. code[f] # "body" => Follow(At(f, "entry", q, n)) = At(code[f], "entry", q, n)
  BY DEF Follow, At
<1>2. code[f] = "body" => Follow(At(f, "entry", q, n)) = At(f, "body", q, n)
  BY DEF Follow, At
<1>3. Follow(At("internal", "body", q, n)) = At("internal", "end", q + 1, n)
  <2> DEFINE r == At("internal", "body", q, n)
  <2>1. Follow(r) = [r EXCEPT !.queue = @ + 1, !.at = "end"]
    BY DEF Follow, At
  <2>2. QED
    BY <2>1 DEF At
<1>4. orig # None /\ m_detourLen = orig =>
        Follow(At("hk", "body", q, n)) = At(orig, "body", q, n + 1)
  <2> DEFINE r == At("hk", "body", q, n)
  <2>1. orig # None /\ m_detourLen = orig => Follow(r) = [r EXCEPT !.fn = orig, !.actors = @ + 1]
    BY DEF Follow, At
  <2>2. QED
    BY <2>1 DEF At
<1>5. otherOrig = "body" => Follow(At("other", "body", q, n)) = At("internal", "body", q, n)
  BY DEF Follow, At
<1>6. otherOrig # "body" => Follow(At("other", "body", q, n)) = At(otherOrig, "entry", q, n)
  BY DEF Follow, At
<1>7. Follow(At(f, "end", q, n)) = At(f, "end", q, n)
  BY DEF Follow, At
<1>8. QED
  BY <1>1, <1>2, <1>3, <1>4, <1>5, <1>6, <1>7

LEMMA PlainOnce == Plain => FrameOnce
<1> SUFFICES ASSUME Plain PROVE FrameOnce
  OBVIOUS
<1>0. /\ code["internal"] = "body" /\ code["hk"] = "body" /\ code["other"] = "body"
      /\ Entered = At("internal", "entry", 0, 0)
  BY DEF Plain, Jumps, Functions, Entered, At
<1>1. Follow(Entered) = At("internal", "body", 0, 0)
  BY <1>0, FollowFacts DEF Plain, None, Functions
<1>2. Follow(At("internal", "body", 0, 0)) = At("internal", "end", 1, 0)
  BY <1>0, FollowFacts DEF Plain, None, Functions
<1>3. Follow(At("internal", "end", 1, 0)) = At("internal", "end", 1, 0)
  BY FollowFacts DEF Functions
<1>4. QED
  BY <1>1, <1>2, <1>3 DEF FrameOnce, FrameNow, Twice, At, Plain

LEMMA OursOnce == Ours => FrameOnce
<1> SUFFICES ASSUME Ours PROVE FrameOnce
  OBVIOUS
<1>0. /\ code["internal"] = "hk" /\ code["hk"] = "body" /\ code["other"] = "body"
      /\ Entered = At("internal", "entry", 0, 0)
  BY DEF Ours, Jumps, Functions, Entered, At
<1>1. Follow(Entered) = At("hk", "entry", 0, 0)
  BY <1>0, FollowFacts DEF Ours, None, Functions
<1>2. Follow(At("hk", "entry", 0, 0)) = At("hk", "body", 0, 0)
  BY <1>0, FollowFacts DEF Ours, None, Functions
<1>3. Follow(At("hk", "body", 0, 0)) = At("internal", "body", 0, 1)
  BY <1>0, FollowFacts DEF Ours, None, Functions
<1>4. Follow(At("internal", "body", 0, 1)) = At("internal", "end", 1, 1)
  BY <1>0, FollowFacts DEF Ours, None, Functions
<1>5. Follow(At("internal", "end", 1, 1)) = At("internal", "end", 1, 1)
  BY FollowFacts DEF Functions
<1>6. QED
  BY <1>1, <1>2, <1>3, <1>4, <1>5 DEF FrameOnce, FrameNow, Twice, At, Ours

LEMMA OthersOnce == Others => FrameOnce
<1> SUFFICES ASSUME Others PROVE FrameOnce
  OBVIOUS
<1>0. /\ code["internal"] = "other" /\ code["hk"] = "body" /\ code["other"] = "body"
      /\ Entered = At("internal", "entry", 0, 0)
  BY DEF Others, Jumps, Functions, Entered, At
<1>1. Follow(Entered) = At("other", "entry", 0, 0)
  BY <1>0, FollowFacts DEF Others, None, Functions
<1>2. Follow(At("other", "entry", 0, 0)) = At("other", "body", 0, 0)
  BY <1>0, FollowFacts DEF Others, None, Functions
<1>3. Follow(At("other", "body", 0, 0)) = At("internal", "body", 0, 0)
  BY <1>0, FollowFacts DEF Others, None, Functions
<1>4. Follow(At("internal", "body", 0, 0)) = At("internal", "end", 1, 0)
  BY <1>0, FollowFacts DEF Others, None, Functions
<1>5. Follow(At("internal", "end", 1, 0)) = At("internal", "end", 1, 0)
  BY FollowFacts DEF Functions
<1>6. QED
  BY <1>1, <1>2, <1>3, <1>4, <1>5 DEF FrameOnce, FrameNow, Twice, At, Others

LEMMA OursBehindOnce == OursBehind => FrameOnce
<1> SUFFICES ASSUME OursBehind, m_detourLen # "internal" PROVE FrameOnce
  BY DEF OursBehind, FrameOnce
<1>0. /\ code["internal"] = "other" /\ code["hk"] = "body" /\ code["other"] = "hk"
      /\ Entered = At("internal", "entry", 0, 0)
  BY DEF OursBehind, Jumps, Functions, Entered, At
<1>1. Follow(Entered) = At("other", "entry", 0, 0)
  BY <1>0, FollowFacts DEF OursBehind, None, Functions
<1>2. Follow(At("other", "entry", 0, 0)) = At("hk", "entry", 0, 0)
  BY <1>0, FollowFacts DEF OursBehind, None, Functions
<1>3. Follow(At("hk", "entry", 0, 0)) = At("hk", "body", 0, 0)
  BY <1>0, FollowFacts DEF OursBehind, None, Functions
<1>4. Follow(At("hk", "body", 0, 0)) = At("other", "body", 0, 1)
  BY <1>0, FollowFacts DEF OursBehind, None, Functions
<1>5. Follow(At("other", "body", 0, 1)) = At("internal", "body", 0, 1)
  BY <1>0, FollowFacts DEF OursBehind, None, Functions
<1>6. Follow(At("internal", "body", 0, 1)) = At("internal", "end", 1, 1)
  BY <1>0, FollowFacts DEF OursBehind, None, Functions
<1>7. QED
  BY <1>1, <1>2, <1>3, <1>4, <1>5, <1>6 DEF FrameOnce, FrameNow, Twice, At, OursBehind

LEMMA OursTakenOnce == OursTaken => FrameOnce
<1> SUFFICES ASSUME OursTaken PROVE FrameOnce
  OBVIOUS
<1>0. /\ code["internal"] = "other" /\ code["hk"] = "body" /\ code["other"] = "body"
      /\ Entered = At("internal", "entry", 0, 0)
  BY DEF OursTaken, Jumps, Functions, Entered, At
<1>1. Follow(Entered) = At("other", "entry", 0, 0)
  BY <1>0, FollowFacts DEF OursTaken, None, Functions
<1>2. Follow(At("other", "entry", 0, 0)) = At("other", "body", 0, 0)
  BY <1>0, FollowFacts DEF OursTaken, None, Functions
<1>3. Follow(At("other", "body", 0, 0)) = At("hk", "entry", 0, 0)
  BY <1>0, FollowFacts DEF OursTaken, None, Functions
<1>4. Follow(At("hk", "entry", 0, 0)) = At("hk", "body", 0, 0)
  BY <1>0, FollowFacts DEF OursTaken, None, Functions
<1>5. Follow(At("hk", "body", 0, 0)) = At("internal", "body", 0, 1)
  BY <1>0, FollowFacts DEF OursTaken, None, Functions
<1>6. Follow(At("internal", "body", 0, 1)) = At("internal", "end", 1, 1)
  BY <1>0, FollowFacts DEF OursTaken, None, Functions
<1>7. QED
  BY <1>1, <1>2, <1>3, <1>4, <1>5, <1>6 DEF FrameOnce, FrameNow, Twice, At, OursTaken

LEMMA HookNext == HookInv /\ [Next]_vars => HookInv'
<1> SUFFICES ASSUME HookInv, [Next]_vars PROVE HookInv'
  OBVIOUS
<1> USE DEF Functions, None
<1>1. CASE UNCHANGED hookVars
  BY <1>1 DEF hookVars, HookInv, Jumps, Plain, Ours, Others, OursBehind, OursTaken
<1>2. CASE DoHook
  <2>1. CASE m_Created
    BY <1>1, <1>2, <2>1 DEF DoHook, Create, hookVars
  <2>2. CASE Plain
    <3>1. RecurseJumps("internal") = "internal"
      BY <2>2 DEF Plain, Jumps, RecurseJumps, Jump
    <3>2. QED
      BY <1>2, <2>2, <3>1 DEF DoHook, Create, Measured, HookInv, Jumps, Plain, Ours
  <2>3. CASE Others
    <3>1. RecurseJumps("internal") = "other"
      BY <2>3 DEF Others, Jumps, RecurseJumps, Jump
    <3>2. QED
      BY <1>2, <2>3, <3>1 DEF DoHook, Create, Measured, HookInv, Jumps, Others, OursBehind
  <2>4. QED
    BY <2>1, <2>2, <2>3 DEF HookInv, Ours, OursBehind, OursTaken
<1>3. CASE OtherHooks
  <2>1. CASE Plain
    BY <1>3, <2>1 DEF OtherHooks, HookInv, Jumps, Plain, Others
  <2>2. CASE Ours
    BY <1>3, <2>2 DEF OtherHooks, HookInv, Jumps, Ours, OursTaken
  <2>3. QED
    BY <1>3, <2>1, <2>2 DEF OtherHooks, HookInv, Others, OursBehind, OursTaken
<1>4. QED
  BY <1>1, <1>2, <1>3 DEF Next, Receive, MessageHandler, OtherPluginHooks, vars

LEMMA HookOnce == HookInv => FrameOnce
BY PlainOnce, OursOnce, OthersOnce, OursBehindOnce, OursTakenOnce DEF HookInv

LEMMA HookInvInit == Init => HookInv
BY DEF Init, HookInit, HookInv, Plain, Jumps

\* FrameOnce (detourxs.cpp:20-72, hookD3D.cpp:190): in every order of the two
\* plugins' detours and their failures, a frame is processed and updated once,
\* unless the other plugin came between two attempts, the first of which failed
\* after it had measured the function.
THEOREM FrameAlwaysOnce == Spec => []FrameOnce
BY HookInvInit, HookNext, HookOnce, PTL DEF Spec

-----------------------------------------------------------------------------
(* The settings *)

\* The fourth message of F4SE is the one after the data were loaded; this plugin
\* has been among the listeners since the first.
DataInv ==
    /\ m_Created => Asked(Ocbp)
    /\ joined[Ocbp] = 0
    /\ got[Ocbp] >= 4 => config = "data"

\* A listener that is called had been waiting for this message.
LEMMA ReceiveFacts ==
    ASSUME ManagerInv, MessagesInv, ~lost, CallHandler, Top.sender = F4SE,
           Listening[Top.at] = Ocbp
    PROVE  Asked(Ocbp) /\ got[Ocbp] = sent - joined[Ocbp] - 1 /\ got' = [got EXCEPT ![Ocbp] = @ + 1]
<1>1. calls # <<>> /\ Top.running = 0 /\ UNCHANGED <<listeners, asked>> /\ ListInv /\ Counted
      /\ (calls' = Popped \/ \E c : Moved(c))
  BY EachMoves DEF CallHandler, MessagesInv
<1>2. /\ Top.target = Everyone /\ Listening = Joined
      /\ \A q : Pending(q) <=> \E i \in DOMAIN Joined :
            Joined[i] = q /\ (i > Top.at \/ (i = Top.at /\ Top.running = 0))
  BY <1>1, MoveOwn
<1>3. Top.at \in DOMAIN Joined /\ Ocbp \in Handles
  BY <1>1, <1>2, TopFacts, OcbpAssumption, ExportsAssumption
<1>4. Pending(Ocbp) /\ Asked(Ocbp)
  BY <1>1, <1>2, <1>3 DEF ListInv, Elements
<1>5. QED
  BY <1>1, <1>2, <1>3, <1>4 DEF Counted, CallHandler

LEMMA DataNext == ManagerInv /\ MessagesInv /\ DataInv /\ [Next]_vars => DataInv'
<1> SUFFICES ASSUME ManagerInv, MessagesInv, DataInv, [Next]_vars PROVE DataInv'
  OBVIOUS
<1>0. /\ Ocbp \in Handles /\ sent \in Nat /\ got \in [Handles -> Nat]
      /\ joined \in [Handles -> Nat]
  BY OcbpAssumption, ExportsAssumption, CountAssumption DEF ManagerInv, ManagerTypeOK
<1>1. CASE UNCHANGED vars
  BY <1>1 DEF vars, managerVars, history, hookVars, DataInv, Asked
<1>2. CASE Next
  <2>1. ~lost /\ (Asked(Ocbp) => Asked(Ocbp)')
    BY <1>2, GrowFacts, Steps DEF Asked, ManagerInv, ManagerTypeOK
  <2>2. joined'[Ocbp] = 0
    <3>1. ASSUME NEW p \in Handles, NEW s \in Handles \cup {F4SE, Everyone}, Registers(p, s)
          PROVE  joined'[Ocbp] = 0
      <4>1. joined' = joined \/ joined' = [joined EXCEPT ![p] = sent]
        BY <3>1 DEF Registers, RegisterListener
      <4>2. p = Ocbp => sent = 0
        BY <1>0, <3>1 DEF Registers, ManagerInv, ManagerTypeOK, Handles
      <4>3. QED
        BY <1>0, <3>1, <4>1, <4>2 DEF DataInv
    <3>2. CASE UNCHANGED joined
      BY <3>2 DEF DataInv
    <3>3. QED
      BY <1>2, <3>1, <3>2, Steps
         DEF ManagerInv, ManagerTypeOK, LoadPlugin, PluginLoaded, PluginFailed, PhaseDone,
             F4SESends, CallHandler, HandlerReturns, Dispatch, managerVars, history
  <2>3. (m_Created => Asked(Ocbp))' /\ (got[Ocbp] >= 4 => config = "data")'
    <3>1. CASE CallHandler /\ Top.sender = F4SE /\ Listening[Top.at] = Ocbp /\ MessageHandler
      <4>1. Asked(Ocbp)' /\ got'[Ocbp] = sent
        BY <1>0, <2>1, <3>1, ReceiveFacts DEF DataInv
      <4>2. got[Ocbp] = sent - 1
        BY <1>0, <2>1, <3>1, ReceiveFacts DEF DataInv
      <4>3. got'[Ocbp] >= 4 => config' = "data"
        <5>1. CASE sent >= 5
          <6>1. config = "data" /\ ~GameDataReady
            BY <1>0, <4>2, <5>1 DEF GameDataReady, DataInv
          <6>2. QED
            BY <3>1, <6>1 DEF MessageHandler
        <5>2. CASE sent = 4
          BY <3>1, <5>2 DEF MessageHandler, GameDataReady
        <5>3. CASE sent < 4
          BY <1>0, <4>1, <5>3
        <5>4. QED
          BY <1>0, <5>1, <5>2, <5>3
      <4>4. QED
        BY <4>1, <4>3
    <3>2. CASE CallHandler /\ ~(Top.sender = F4SE /\ Listening[Top.at] = Ocbp)
               /\ UNCHANGED <<hookVars, config>>
      <4>1. got'[Ocbp] = got[Ocbp]
        BY <1>0, <3>2 DEF CallHandler
      <4>2. QED
        BY <2>1, <3>2, <4>1 DEF hookVars, DataInv
    <3>3. CASE UNCHANGED <<got, config, m_Created>>
      BY <2>1, <3>3 DEF DataInv
    <3>4. CASE OtherPluginHooks
      BY <3>3, <3>4 DEF OtherPluginHooks, OtherHooks, managerVars, history
    <3>5. CASE (Loading \/ Messaging) /\ UNCHANGED <<hookVars, config>>
      <4>1. UNCHANGED got
        BY <3>5 DEF Loading, Messaging, F4SEPlugin_Load, PluginActs, RegisterListener, LoadPlugin,
           PluginLoaded, PluginFailed, PhaseDone, F4SESends, HandlerReturns, Dispatch, history
      <4>2. QED
        BY <3>3, <3>5, <4>1 DEF hookVars
    <3>6. QED
      BY <1>2, <3>1, <3>2, <3>4, <3>5 DEF Next, Receive
  <2>4. QED
    BY <2>2, <2>3 DEF DataInv
<1>3. QED
  BY <1>1, <1>2

\* UpdatedWithData (main.cpp:33-43): however the plugins register and dispatch
\* from within handlers, actors are updated with settings read with the data.
THEOREM AlwaysUpdatedWithData == Spec => []UpdatedWithData
<1>1. Init => DataInv
  <2>1. Ocbp \in Handles
    BY OcbpAssumption, ExportsAssumption
  <2>2. QED
    BY <2>1 DEF Init, ManagerInit, HookInit, DataInv
<1>2. ManagerInv /\ MessagesInv /\ DataInv /\ HookInv => UpdatedWithData
  <2> SUFFICES ASSUME ManagerInv, MessagesInv, DataInv, HookInv, sent = Messages, calls = <<>>,
                      ~lost, FrameNow.actors > 0
               PROVE  config = "data"
    BY DEF UpdatedWithData
  <2>1. m_Created
    BY HookOnce DEF FrameOnce
  <2>2. Asked(Ocbp) /\ joined[Ocbp] = 0 /\ Ocbp \in Handles
    BY <2>1, OcbpAssumption, ExportsAssumption DEF DataInv
  <2>3. Counted /\ ~Pending(Ocbp)
    BY DEF MessagesInv, Pending
  <2>4. got[Ocbp] = sent
    BY <2>2, <2>3, CountAssumption DEF Counted
  <2>5. QED
    BY <2>4, MessagesAssumption, CountAssumption DEF DataInv
<1>3. QED
  BY <1>1, <1>2, ManagerInvInit, ManagerInvNext, MessagesInit, MessagesNext, DataNext,
     HookInvInit, HookNext, PTL DEF Spec
=============================================================================
