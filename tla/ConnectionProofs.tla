-------------------------- MODULE ConnectionProofs ---------------------------
(***************************************************************************)
(* Proofs about HubConnection, for every set of Hubs and every number of   *)
(* credentials, clients and mishaps: the controller rebinds the queue only *)
(* when nothing of its loop is under way, and a credential that replaced a *)
(* revoked one is not removed with it.  Then about the run that checks it  *)
(* beside two sessions of the queue.                                       *)
(***************************************************************************)
EXTENDS MCPairAndConnection, TLAPS

\* A pass and its reporter are the loop's: they end before it does.
LoopAlone == sync.alive \/ (pass = Idle /\ reporter = "off")

\* An Ensure that found a credential has the binding it found.
BinderBound ==
  binder.at \in {"look", "same", "keep", "stop", "await"} => binder.binding \in Binding

\* No Hub has a credential stored that it did not issue.
CredentialsIssued == \A h \in Hubs : credential[h] <= issued[h]

\* While the credential the observer read is still the one stored, a request
\* that went to the loop's Hub was made with it.
PassTold ==
  /\ pass.at = "idle" => pass = Idle
  /\ pass.before # 0 => pass.before <= issued[sync.client.hub]
  /\ pass.at = "asked" => pass.sent \in Binding
  /\ pass.at = "revoked" => pass.sent \in revoked
  /\ pass.at \in {"asked", "revoked"} /\ pass.before # 0 /\ pass.sent[1] = sync.client.hub
       /\ credential[sync.client.hub] = pass.before => pass.sent[2] = pass.before

ConnInv == ConnectionTypeOK /\ LoopAlone /\ BinderBound /\ CredentialsIssued /\ PassTold

USE ConnectionAssumption DEF ConnectionAssumption

-----------------------------------------------------------------------------
(* The values of the model.                                                *)

LEMMA LoopTypes ==
  ASSUME ConnInv, sync.alive
  PROVE  /\ sync \in Loop /\ sync.client \in Client /\ sync.client.hub \in Hubs
         /\ sync.binding \in Binding /\ sync.binding[1] \in Hubs
<1>1. sync \in Loop
  BY DEF ConnInv, ConnectionTypeOK, NoLoop
<1>2. sync.client \in Client /\ sync.binding \in Binding
  BY <1>1 DEF Loop
<1> QED
  BY <1>1, <1>2 DEF Client, Binding

LEMMA NewJob == ASSUME NEW c \in Client PROVE [client |-> c, paired |-> FALSE] \in Job
BY DEF Job

LEMMA NewClient == ASSUME made \in 1..MaxClients, made < MaxClients, NEW h \in Hubs
                   PROVE  New(h) \in Client /\ New(h).hub = h /\ made + 1 \in 1..MaxClients
BY DEF New, Client

LEMMA StartsBinder == ASSUME NEW c \in Client
                      PROVE  /\ Starts(c) \in Binder /\ Starts(c).at = "load"
BY DEF Starts, Binder, Free

\* What a Hub issued and is stored names a binding.
LEMMA StoredBinding == ASSUME ConnectionTypeOK, NEW h \in Hubs, credential[h] # 0
                       PROVE  BindingOf(h) \in Binding
BY DEF ConnectionTypeOK, BindingOf, Binding

LEMMA DeletedFacts ==
  ASSUME ConnectionTypeOK, NEW h \in Hubs, NEW n
  PROVE  /\ Deleted(h, n) \in [Hubs -> 0..MaxCredential]
         /\ \A g \in Hubs : Deleted(h, n)[g] # credential[g] =>
              g = h /\ credential[h] = n /\ Deleted(h, n)[g] = 0
<1>1. credential \in [Hubs -> 0..MaxCredential] /\ 0 \in 0..MaxCredential
  BY DEF ConnectionTypeOK
<1> QED
  BY <1>1 DEF Deleted

\* A loop that is marked keeps its client and its binding, and lives on.
LEMMA MarkFacts ==
  ASSUME ConnectionTypeOK, NEW c, NEW b, Mark(c, b) \/ UNCHANGED <<ctl, sync>>
  PROVE  /\ ctl' \in Controller /\ sync' \in Loop \cup {NoLoop}
         /\ sync'.alive = sync.alive /\ sync'.client = sync.client
         /\ sync'.binding = sync.binding
<1>1. ctl \in Controller /\ sync \in Loop \cup {NoLoop}
  BY DEF ConnectionTypeOK
<1>2. CASE UNCHANGED <<ctl, sync>>
  BY <1>1, <1>2
<1>3. CASE Mark(c, b) /\ ~UNCHANGED <<ctl, sync>>
  <2>1. /\ ctl' = [ctl EXCEPT !.revoked = TRUE, !.connected = FALSE]
        /\ sync' = IF sync.alive THEN [sync EXCEPT !.cancelled = TRUE] ELSE sync
    BY <1>3 DEF Mark
  <2>2. ctl' \in Controller
    BY <1>1, <2>1 DEF Controller
  <2>3. CASE sync.alive
    <3>1. sync \in Loop
      BY <1>1, <2>3 DEF NoLoop
    <3> QED
      BY <2>1, <2>2, <2>3, <3>1 DEF Loop
  <2>4. CASE ~sync.alive
    BY <1>1, <2>1, <2>2, <2>4
  <2> QED
    BY <2>3, <2>4
<1> QED
  BY <1>2, <1>3

-----------------------------------------------------------------------------
(* The invariant, action by action.                                        *)

LEMMA HubRevokesInv ==
  ASSUME ConnInv, NEW h \in Hubs, HubRevokes(h)
  PROVE  ConnInv'
<1>1. /\ BindingOf(h) \in Binding /\ mishaps' \in 0..MaxMishaps
  BY StoredBinding DEF HubRevokes, Mishap, ConnInv, ConnectionTypeOK
<1>2. ConnectionTypeOK'
  BY <1>1 DEF HubRevokes, ConnInv, ConnectionTypeOK, hubSide, onboarding, running
<1>3. LoopAlone' /\ BinderBound' /\ CredentialsIssued' /\ PassTold'
  BY DEF HubRevokes, ConnInv, LoopAlone, BinderBound, CredentialsIssued, PassTold,
     hubSide, onboarding, running
<1> QED
  BY <1>1, <1>2, <1>3 DEF ConnInv

LEMMA LinkArrivesInv ==
  ASSUME ConnInv, NEW action \in {"pair", "check-in"}, NEW h \in Hubs, LinkArrives(action, h)
  PROVE  ConnInv'
<1>1. pending' \in Switch \cup {NoSwitch}
  <2>1. stored \in Hubs /\ pending \in Switch \cup {NoSwitch}
    BY DEF ConnInv, ConnectionTypeOK
  <2>2. \A b \in BOOLEAN : [from |-> stored, to |-> h, action |-> action, can |-> b] \in Switch
    BY <2>1 DEF Switch
  <2>3. (action = "pair" \/ credential[h] # 0) \in BOOLEAN
    OBVIOUS
  <2> QED
    BY <2>1, <2>2, <2>3 DEF LinkArrives
<1>2. link' \in Link \cup {NoLink}
  BY DEF LinkArrives, ConnInv, ConnectionTypeOK, Link
<1>3. ConnectionTypeOK'
  BY <1>1, <1>2 DEF LinkArrives, ConnInv, ConnectionTypeOK, hubSide, onboarding, running
<1>4. LoopAlone' /\ BinderBound' /\ CredentialsIssued' /\ PassTold'
  BY DEF LinkArrives, ConnInv, LoopAlone, BinderBound, CredentialsIssued, PassTold,
     hubSide, onboarding, running
<1> QED
  BY <1>1, <1>2, <1>3, <1>4 DEF ConnInv

LEMMA ProceedsInv ==
  ASSUME ConnInv, NEW action \in {"pair", "check-in"}, NEW h \in Hubs,
         NEW switch \in Switch \cup {NoSwitch},
         Proceeds(action, h, switch), pending' \in Switch \cup {NoSwitch},
         link' \in Link \cup {NoLink}, UNCHANGED <<hubSide, ctl, running, mishaps>>
  PROVE  ConnInv'
<1>1. /\ New(h) \in Client /\ made' \in 1..MaxClients /\ stored' = h /\ client' = New(h)
  BY NewClient DEF Proceeds, ConnInv, ConnectionTypeOK
<1>2. binder' \in Binder \cup {Free} /\ (binder' = Free \/ binder'.at = "load")
  BY <1>1 DEF Proceeds, ConnInv, ConnectionTypeOK, Binder, Free
<1>3. jobs' \subseteq Job
  BY <1>1, NewJob DEF Proceeds, ConnInv, ConnectionTypeOK
<1>4. ConnectionTypeOK'
  BY <1>1, <1>2, <1>3 DEF ConnInv, ConnectionTypeOK, hubSide, running
<1>5. LoopAlone' /\ CredentialsIssued' /\ PassTold'
  BY DEF ConnInv, LoopAlone, CredentialsIssued, PassTold, hubSide, running
<1>6. BinderBound'
  BY <1>2 DEF BinderBound, Free
<1> QED
  BY <1>1, <1>2, <1>3, <1>4, <1>5, <1>6 DEF ConnInv

LEMMA LinkProceedsInv ==
  ASSUME ConnInv, LinkProceeds
  PROVE  ConnInv'
<1>1. /\ link \in Link /\ link' \in Link \cup {NoLink} /\ pending' \in Switch \cup {NoSwitch}
      /\ Proceeds(link.action, link.to, NoSwitch) /\ UNCHANGED <<hubSide, ctl, running, mishaps>>
  BY DEF LinkProceeds, ConnInv, ConnectionTypeOK
<1>2. link.action \in {"pair", "check-in"} /\ link.to \in Hubs
  BY <1>1 DEF Link
<1> QED
  BY <1>1, <1>2, ProceedsInv

LEMMA SwitchConfirmedInv ==
  ASSUME ConnInv, SwitchConfirmed
  PROVE  ConnInv'
<1>1. /\ pending \in Switch /\ link' \in Link \cup {NoLink}
      /\ pending' \in Switch \cup {NoSwitch}
      /\ Proceeds(pending.action, pending.to, pending)
      /\ UNCHANGED <<hubSide, ctl, running, mishaps>>
  BY DEF SwitchConfirmed, ConnInv, ConnectionTypeOK
<1>2. pending.action \in {"pair", "check-in"} /\ pending.to \in Hubs
  BY <1>1 DEF Switch
<1> QED
  BY <1>1, <1>2, ProceedsInv

LEMMA SwitchDeclinedInv ==
  ASSUME ConnInv, SwitchDeclined
  PROVE  ConnInv'
<1>1. pending \in Switch /\ pending' = NoSwitch
  BY DEF SwitchDeclined, ConnInv, ConnectionTypeOK
<1>2. pending.from \in Hubs
  BY <1>1 DEF Switch
<1>3. /\ made' \in 1..MaxClients /\ binder' \in Binder \cup {Free}
      /\ binder' = Free \/ binder'.at = "load"
  <2>1. CASE UNCHANGED <<made, binder>>
    BY <2>1 DEF SwitchDeclined, ConnInv, ConnectionTypeOK
  <2>2. CASE ~UNCHANGED <<made, binder>>
    <3>1. /\ made < MaxClients /\ made' = made + 1
          /\ binder' = [Free EXCEPT !.at = "load", !.client = New(pending.from),
                                    !.why = "restore", !.switch = pending]
      BY <2>2 DEF SwitchDeclined
    <3>2. New(pending.from) \in Client /\ made' \in 1..MaxClients
      BY <1>2, <3>1, NewClient DEF ConnInv, ConnectionTypeOK
    <3> QED
      BY <1>1, <3>1, <3>2 DEF Binder, Free
  <2> QED
    BY <2>1, <2>2
<1>4. ConnectionTypeOK'
  BY <1>1, <1>3 DEF SwitchDeclined, ConnInv, ConnectionTypeOK, hubSide, onboarding, running
<1>5. LoopAlone' /\ CredentialsIssued' /\ PassTold'
  BY DEF SwitchDeclined, ConnInv, LoopAlone, CredentialsIssued, PassTold, hubSide,
     onboarding, running
<1>6. BinderBound'
  BY <1>3 DEF BinderBound, Free
<1> QED
  BY <1>1, <1>2, <1>3, <1>4, <1>5, <1>6 DEF ConnInv

LEMMA SwitchExpiresInv ==
  ASSUME ConnInv, SwitchExpires
  PROVE  ConnInv'
<1>1. ConnectionTypeOK'
  BY DEF SwitchExpires, ConnInv, ConnectionTypeOK, hubSide, onboarding, running
<1>2. LoopAlone' /\ BinderBound' /\ CredentialsIssued' /\ PassTold'
  BY DEF SwitchExpires, ConnInv, LoopAlone, BinderBound, CredentialsIssued, PassTold,
     hubSide, onboarding, running
<1> QED
  BY <1>1, <1>2 DEF ConnInv

LEMMA ConnectStartsInv ==
  ASSUME ConnInv, NEW h \in Hubs, ConnectStarts(h)
  PROVE  ConnInv'
<1>1. /\ New(h) \in Client /\ made' \in 1..MaxClients /\ stored' = h
  BY NewClient DEF ConnectStarts, ConnInv, ConnectionTypeOK
<1>2. binder' \in Binder /\ binder'.at = "claim"
  BY <1>1 DEF ConnectStarts, Binder, Free
<1>3. ConnectionTypeOK'
  BY <1>1, <1>2 DEF ConnectStarts, ConnInv, ConnectionTypeOK, hubSide, onboarding, running
<1>4. LoopAlone' /\ CredentialsIssued' /\ PassTold'
  BY DEF ConnectStarts, ConnInv, LoopAlone, CredentialsIssued, PassTold, hubSide,
     onboarding, running
<1>5. BinderBound'
  BY <1>2 DEF BinderBound
<1> QED
  BY <1>1, <1>2, <1>3, <1>4, <1>5 DEF ConnInv

LEMMA CodeClaimedInv ==
  ASSUME ConnInv, CodeClaimed
  PROVE  ConnInv'
<1>1. binder.client \in Client
  BY DEF CodeClaimed, ConnInv, ConnectionTypeOK, Binder, Free
<1>2. client' \in Client /\ jobs' \subseteq Job
  BY <1>1, NewJob DEF CodeClaimed, ConnInv, ConnectionTypeOK
<1>3. ConnectionTypeOK'
  BY <1>2 DEF CodeClaimed, ConnInv, ConnectionTypeOK, hubSide, onboarding, running
<1>4. LoopAlone' /\ CredentialsIssued' /\ PassTold'
  BY DEF CodeClaimed, ConnInv, LoopAlone, CredentialsIssued, PassTold, hubSide,
     onboarding, running
<1>5. BinderBound'
  BY DEF CodeClaimed, BinderBound, Free
<1> QED
  BY <1>1, <1>2, <1>3, <1>4, <1>5 DEF ConnInv

LEMMA PairingEndsInv ==
  ASSUME ConnInv, NEW j \in jobs, PairingEnds(j)
  PROVE  ConnInv'
<1>1. j \in Job /\ j.client.hub \in Hubs
  BY DEF ConnInv, ConnectionTypeOK, Job, Client
<1>2. jobs' \subseteq Job
  <2>1. [j EXCEPT !.paired = TRUE] \in Job /\ jobs \subseteq Job
    BY <1>1 DEF ConnInv, ConnectionTypeOK, Job
  <2> QED
    BY <2>1 DEF PairingEnds
<1>3. /\ issued' \in [Hubs -> 0..MaxCredential] /\ credential' \in [Hubs -> 0..MaxCredential]
      /\ \A h \in Hubs : issued'[h] >= issued[h] /\ credential'[h] <= issued'[h]
      /\ \A h \in Hubs : credential'[h] # credential[h] => credential'[h] > issued[h]
  <2>1. /\ issued \in [Hubs -> 0..MaxCredential] /\ credential \in [Hubs -> 0..MaxCredential]
        /\ \A h \in Hubs : credential[h] <= issued[h]
    BY DEF ConnInv, ConnectionTypeOK, CredentialsIssued
  <2>2. CASE UNCHANGED <<credential, issued>>
    BY <2>1, <2>2
  <2>3. CASE ~UNCHANGED <<credential, issued>>
    <3> DEFINE g == j.client.hub
    <3>1. /\ issued[g] < MaxCredential /\ issued' = [issued EXCEPT ![g] = issued[g] + 1]
          /\ credential' = [credential EXCEPT ![g] = issued'[g]]
      BY <2>3 DEF PairingEnds
    <3> HIDE DEF g
    <3>2. g \in Hubs
      BY <1>1 DEF g
    <3>3. issued[g] + 1 \in 0..MaxCredential
      BY <2>1, <3>1, <3>2
    <3>4. /\ issued'[g] = issued[g] + 1 /\ credential'[g] = issued[g] + 1
          /\ \A h \in Hubs \ {g} : issued'[h] = issued[h] /\ credential'[h] = credential[h]
      BY <2>1, <3>1, <3>2
    <3>5. issued' \in [Hubs -> 0..MaxCredential] /\ credential' \in [Hubs -> 0..MaxCredential]
      BY <2>1, <3>1, <3>2, <3>3, <3>4
    <3> QED
      BY <2>1, <3>2, <3>4, <3>5
  <2> QED
    BY <2>2, <2>3
<1>4. ConnectionTypeOK'
  BY <1>2, <1>3 DEF PairingEnds, ConnInv, ConnectionTypeOK, hubSide, onboarding, running
<1>5. LoopAlone' /\ BinderBound'
  BY DEF PairingEnds, ConnInv, LoopAlone, BinderBound, hubSide, onboarding, running
<1>6. CredentialsIssued'
  BY <1>3 DEF CredentialsIssued
<1>7. PassTold'
  <2>1. UNCHANGED <<sync, pass, revoked>>
    BY DEF PairingEnds, running
  <2>2. CASE pass.before = 0
    BY <2>1, <2>2 DEF ConnInv, PassTold
  <2>3. CASE pass.before # 0
    <3>1. sync.client.hub \in Hubs /\ pass.before \in Nat
      <4>1. sync.alive
        BY <2>3 DEF ConnInv, LoopAlone, Idle
      <4>2. pass.before \in Nat
        BY DEF ConnInv, ConnectionTypeOK, Pass
      <4> QED
        BY <4>1, <4>2, LoopTypes
    <3>2. pass.before <= issued[sync.client.hub]
      BY <2>3 DEF ConnInv, PassTold
    <3>3. issued[sync.client.hub] \in Nat /\ issued'[sync.client.hub] \in Nat
      BY <1>3, <3>1 DEF ConnInv, ConnectionTypeOK
    <3>4. pass.before <= issued'[sync.client.hub]
      BY <1>3, <3>1, <3>2, <3>3
    <3>5. credential'[sync.client.hub] = pass.before =>
            credential[sync.client.hub] = pass.before
      BY <1>3, <3>1, <3>2, <3>3
    <3> QED
      BY <2>1, <3>4, <3>5 DEF ConnInv, PassTold
  <2> QED
    BY <2>2, <2>3
<1> QED
  BY <1>1, <1>2, <1>3, <1>4, <1>5, <1>6, <1>7 DEF ConnInv

LEMMA PairedEnsuresInv ==
  ASSUME ConnInv, NEW j \in jobs, PairedEnsures(j)
  PROVE  ConnInv'
<1>1. j.client \in Client /\ jobs' \subseteq Job
  BY DEF PairedEnsures, ConnInv, ConnectionTypeOK, Job
<1>2. binder' \in Binder /\ binder'.at = "load"
  BY <1>1, StartsBinder DEF PairedEnsures
<1>3. ConnectionTypeOK'
  BY <1>1, <1>2 DEF PairedEnsures, ConnInv, ConnectionTypeOK, hubSide, onboarding, running
<1>4. LoopAlone' /\ CredentialsIssued' /\ PassTold'
  BY DEF PairedEnsures, ConnInv, LoopAlone, CredentialsIssued, PassTold, hubSide,
     onboarding, running
<1>5. BinderBound'
  BY <1>2 DEF BinderBound
<1> QED
  BY <1>1, <1>2, <1>3, <1>4, <1>5 DEF ConnInv

\* What the holder of the mutex does next.
Moves == \/ Fails \/ Succeeds
         \/ \E step \in {"bind", "same", "keep", "stop", "await", "unbind", "unbound"} : At(step)

LEMMA BinderSteps ==
  ASSUME ConnInv, binder.at # "free", Moves
  PROVE  /\ binder \in Binder /\ binder' \in Binder \cup {Free}
         /\ pending' \in Switch \cup {NoSwitch} /\ UNCHANGED <<stored, client>>
         /\ binder'.at # "free" => binder'.binding = binder.binding
<1>1. binder \in Binder
  BY DEF ConnInv, ConnectionTypeOK, Free
<1>2. pending \in Switch \cup {NoSwitch}
  BY DEF ConnInv, ConnectionTypeOK
<1>3. CASE Fails
  BY <1>1, <1>2, <1>3 DEF Fails, Binder, Free
<1>4. CASE Succeeds
  BY <1>1, <1>2, <1>4 DEF Succeeds, Binder, Free
<1>5. CASE \E step \in {"bind", "same", "keep", "stop", "await", "unbind", "unbound"} : At(step)
  BY <1>1, <1>2, <1>5 DEF At, Binder
<1> QED
  BY <1>1, <1>3, <1>4, <1>5 DEF Moves

LEMMA EnsureLoadsInv ==
  ASSUME ConnInv, EnsureLoads
  PROVE  ConnInv'
<1>1. /\ binder.at # "free"
      /\ Moves
  BY DEF EnsureLoads, Moves
<1>2. /\ binder \in Binder /\ binder' \in Binder \cup {Free}
      /\ pending' \in Switch \cup {NoSwitch} /\ UNCHANGED <<stored, client>>
      /\ binder'.at # "free" => binder'.binding = binder.binding
  BY <1>1, BinderSteps
<1>3. mishaps' \in 0..MaxMishaps
  BY DEF EnsureLoads, Mishap, ConnInv, ConnectionTypeOK
<1>4. ConnectionTypeOK'
  BY <1>2, <1>3 DEF EnsureLoads, ConnInv, ConnectionTypeOK, hubSide, onboarding, running
<1>5. LoopAlone' /\ CredentialsIssued' /\ PassTold'
  BY DEF EnsureLoads, ConnInv, LoopAlone, CredentialsIssued, PassTold, hubSide,
     onboarding, running
<1>6. BinderBound'
  BY <1>2 DEF EnsureLoads, At, Fails, BinderBound, Free, Binder
<1> QED
  BY <1>1, <1>2, <1>3, <1>4, <1>5, <1>6 DEF ConnInv

LEMMA EnsureBindsInv ==
  ASSUME ConnInv, EnsureBinds
  PROVE  ConnInv'
<1>1. binder \in Binder
  BY DEF EnsureBinds, ConnInv, ConnectionTypeOK, Free
<1>2. /\ binder' \in Binder \cup {Free} /\ pending' \in Switch \cup {NoSwitch}
      /\ UNCHANGED <<stored, client>> /\ BinderBound'
  <2>1. CASE credential[binder.client.hub] = 0
    <3>1. Fails
      BY <2>1 DEF EnsureBinds
    <3> QED
      BY <1>1, <3>1 DEF Fails, ConnInv, ConnectionTypeOK, Binder, BinderBound, Free
  <2>2. CASE credential[binder.client.hub] # 0
    <3> DEFINE b == BindingOf(binder.client.hub)
    <3>1. binder' = [binder EXCEPT !.at = "look", !.binding = b]
      BY <2>2 DEF EnsureBinds
    <3>2. b \in Binding
      BY <1>1, <2>2, StoredBinding DEF ConnInv, Binder, Client
    <3> HIDE DEF b
    <3>3. binder' \in Binder /\ binder'.binding = b
      BY <1>1, <3>1, <3>2 DEF Binder
    <3> QED
      BY <2>2, <3>2, <3>3 DEF EnsureBinds, ConnInv, ConnectionTypeOK, BinderBound
  <2> QED
    BY <2>1, <2>2
<1>3. ConnectionTypeOK'
  BY <1>2 DEF EnsureBinds, ConnInv, ConnectionTypeOK, hubSide, onboarding, running
<1>4. LoopAlone' /\ CredentialsIssued' /\ PassTold'
  BY DEF EnsureBinds, ConnInv, LoopAlone, CredentialsIssued, PassTold, hubSide,
     onboarding, running
<1> QED
  BY <1>1, <1>2, <1>3, <1>4 DEF ConnInv

LEMMA EnsureLooksInv ==
  ASSUME ConnInv, EnsureLooks
  PROVE  ConnInv'
<1>1. /\ binder.at # "free"
      /\ Moves
  BY DEF EnsureLooks, Moves
<1>2. /\ binder \in Binder /\ binder' \in Binder \cup {Free}
      /\ pending' \in Switch \cup {NoSwitch} /\ UNCHANGED <<stored, client>>
      /\ binder'.at # "free" => binder'.binding = binder.binding
  BY <1>1, BinderSteps
<1>3. ConnectionTypeOK'
  BY <1>2 DEF EnsureLooks, ConnInv, ConnectionTypeOK, hubSide, onboarding, running
<1>4. LoopAlone' /\ CredentialsIssued' /\ PassTold'
  BY DEF EnsureLooks, ConnInv, LoopAlone, CredentialsIssued, PassTold, hubSide,
     onboarding, running
<1>5. BinderBound'
  BY <1>2 DEF EnsureLooks, ConnInv, BinderBound, Free
<1> QED
  BY <1>1, <1>2, <1>3, <1>4, <1>5 DEF ConnInv

LEMMA EnsureKeepsInv ==
  ASSUME ConnInv, EnsureKeeps
  PROVE  ConnInv'
<1>1. /\ binder.at # "free"
      /\ Moves
  BY DEF EnsureKeeps, Moves
<1>2. /\ binder \in Binder /\ binder' \in Binder \cup {Free}
      /\ pending' \in Switch \cup {NoSwitch} /\ UNCHANGED <<stored, client>>
      /\ binder'.at # "free" => binder'.binding = binder.binding
  BY <1>1, BinderSteps
<1>3. ctl' \in Controller
  BY <1>2 DEF EnsureKeeps, ConnInv, ConnectionTypeOK, Controller, Binder
<1>4. ConnectionTypeOK'
  BY <1>2, <1>3 DEF EnsureKeeps, ConnInv, ConnectionTypeOK, hubSide, onboarding, running
<1>5. LoopAlone' /\ CredentialsIssued' /\ PassTold'
  BY DEF EnsureKeeps, ConnInv, LoopAlone, CredentialsIssued, PassTold, hubSide,
     onboarding, running
<1>6. BinderBound'
  BY DEF EnsureKeeps, Succeeds, BinderBound, Free
<1> QED
  BY <1>1, <1>2, <1>3, <1>4, <1>5, <1>6 DEF ConnInv

LEMMA EnsureStopsInv ==
  ASSUME ConnInv, EnsureStops
  PROVE  ConnInv'
<1>1. /\ binder.at # "free"
      /\ Moves
  BY DEF EnsureStops, Moves
<1>2. /\ binder \in Binder /\ binder' \in Binder \cup {Free}
      /\ pending' \in Switch \cup {NoSwitch} /\ UNCHANGED <<stored, client>>
      /\ binder'.at # "free" => binder'.binding = binder.binding
  BY <1>1, BinderSteps
<1>3. /\ sync' \in Loop \cup {NoLoop} /\ sync'.alive = sync.alive /\ sync'.client = sync.client
  <2>1. CASE sync.alive
    <3>1. sync \in Loop
      BY <2>1 DEF ConnInv, ConnectionTypeOK, NoLoop
    <3> QED
      BY <2>1, <3>1 DEF EnsureStops, Loop
  <2>2. CASE ~sync.alive
    BY <2>2 DEF EnsureStops, ConnInv, ConnectionTypeOK
  <2> QED
    BY <2>1, <2>2
<1>4. ConnectionTypeOK'
  BY <1>2, <1>3 DEF EnsureStops, ConnInv, ConnectionTypeOK, hubSide, onboarding, running
<1>5. LoopAlone' /\ CredentialsIssued' /\ PassTold'
  BY <1>3 DEF EnsureStops, ConnInv, LoopAlone, CredentialsIssued, PassTold, hubSide,
     onboarding, running
<1>6. BinderBound'
  BY <1>2 DEF EnsureStops, At, ConnInv, BinderBound
<1> QED
  BY <1>1, <1>2, <1>3, <1>4, <1>5, <1>6 DEF ConnInv

LEMMA EnsureUnbindsInv ==
  ASSUME ConnInv, EnsureUnbinds
  PROVE  ConnInv'
<1>1. /\ binder.at # "free"
      /\ Moves
  BY DEF EnsureUnbinds, Moves
<1>2. /\ binder \in Binder /\ binder' \in Binder \cup {Free}
      /\ pending' \in Switch \cup {NoSwitch} /\ UNCHANGED <<stored, client>>
      /\ binder'.at # "free" => binder'.binding = binder.binding
  BY <1>1, BinderSteps
<1>3. ctl' \in Controller
  BY <1>2 DEF EnsureUnbinds, Unbound, Controller, Binder
<1>4. ConnectionTypeOK'
  BY <1>2, <1>3 DEF EnsureUnbinds, ConnInv, ConnectionTypeOK, hubSide, onboarding, running
<1>5. LoopAlone' /\ CredentialsIssued' /\ PassTold'
  BY DEF EnsureUnbinds, ConnInv, LoopAlone, CredentialsIssued, PassTold, hubSide,
     onboarding, running
<1>6. BinderBound'
  BY DEF EnsureUnbinds, Succeeds, BinderBound, Free
<1> QED
  BY <1>1, <1>2, <1>3, <1>4, <1>5, <1>6 DEF ConnInv

LEMMA EnsureStartsInv ==
  ASSUME ConnInv, EnsureStarts
  PROVE  ConnInv'
<1>1. /\ binder.at # "free"
      /\ Moves
  BY DEF EnsureStarts, Moves
<1>2. /\ binder \in Binder /\ binder' \in Binder \cup {Free}
      /\ pending' \in Switch \cup {NoSwitch} /\ UNCHANGED <<stored, client>>
      /\ binder'.at # "free" => binder'.binding = binder.binding
  BY <1>1, BinderSteps
<1>3. binder.binding \in Binding /\ binder.client \in Client
  BY <1>2 DEF EnsureStarts, ConnInv, BinderBound, Binder
<1>4. /\ queue' \in Binding \cup {NoBinding} /\ ctl' \in Controller
      /\ sync' \in Loop \cup {NoLoop} /\ reporter' \in {"off", "on", "asked", "over"}
      /\ mishaps' \in 0..MaxMishaps
  <2>1. CASE UNCHANGED <<queue, ctl, sync, reporter>>
    BY <2>1 DEF EnsureStarts, Mishap, ConnInv, ConnectionTypeOK
  <2>2. CASE ~UNCHANGED <<queue, ctl, sync, reporter>>
    <3>1. /\ queue' = binder.binding /\ reporter' = "on" /\ mishaps' = mishaps
          /\ ctl' = [client |-> binder.client, binding |-> binder.binding,
                     connected |-> TRUE, revoked |-> FALSE]
          /\ sync' = [alive |-> TRUE, cancelled |-> FALSE, client |-> binder.client,
                      binding |-> binder.binding]
      BY <2>2 DEF EnsureStarts
    <3>2. ctl' \in Controller
      BY <1>3, <3>1 DEF Controller
    <3>3. sync' \in Loop
      BY <1>3, <3>1 DEF Loop
    <3> QED
      BY <1>3, <3>1, <3>2, <3>3 DEF ConnInv, ConnectionTypeOK
  <2> QED
    BY <2>1, <2>2
<1>5. ConnectionTypeOK'
  BY <1>2, <1>4 DEF EnsureStarts, ConnInv, ConnectionTypeOK, hubSide, onboarding, running
<1>6. pass = Idle /\ pass' = Idle
  BY DEF EnsureStarts, Stopped, ConnInv, LoopAlone
<1>7. LoopAlone' /\ PassTold'
  BY <1>6 DEF EnsureStarts, ConnInv, LoopAlone, PassTold, Idle
<1>8. CredentialsIssued'
  BY DEF EnsureStarts, ConnInv, CredentialsIssued, hubSide, onboarding, running
<1>9. BinderBound'
  BY <1>2 DEF EnsureStarts, Succeeds, Fails, BinderBound, Free, Binder
<1> QED
  BY <1>1, <1>2, <1>3, <1>4, <1>5, <1>6, <1>7, <1>8, <1>9 DEF ConnInv

LEMMA RestoreSavesInv ==
  ASSUME ConnInv, RestoreSaves
  PROVE  ConnInv'
<1>1. binder.client \in Client /\ binder.client.hub \in Hubs
  BY DEF RestoreSaves, ConnInv, ConnectionTypeOK, Binder, Free, Client
<1>2. ConnectionTypeOK'
  BY <1>1 DEF RestoreSaves, ConnInv, ConnectionTypeOK, hubSide, onboarding, running
<1>3. LoopAlone' /\ CredentialsIssued' /\ PassTold'
  BY DEF RestoreSaves, ConnInv, LoopAlone, CredentialsIssued, PassTold, hubSide,
     onboarding, running
<1>4. BinderBound'
  BY DEF RestoreSaves, BinderBound, Free
<1> QED
  BY <1>1, <1>2, <1>3, <1>4 DEF ConnInv

-----------------------------------------------------------------------------
(* The loop.                                                               *)

LEMMA PassRunning ==
  ASSUME ConnInv, pass.at # "idle"
  PROVE  sync.alive /\ sync.client.hub \in Hubs
<1>1. sync.alive
  BY DEF ConnInv, LoopAlone, Idle
<1> QED
  BY <1>1, LoopTypes

\* Removing credentials, and marking the loop, keep the invariant.
LEMMA RemovalInv ==
  ASSUME ConnInv, credential' \in [Hubs -> 0..MaxCredential],
         \A h \in Hubs : credential'[h] # credential[h] => credential'[h] = 0,
         ctl' \in Controller, sync' \in Loop \cup {NoLoop},
         sync'.alive = sync.alive, sync'.client = sync.client,
         pass' = pass \/ pass' = Idle \/ (/\ pass' \in Pass /\ pass'.before = pass.before
                                        /\ pass'.sent = pass.sent /\ pass'.at = "revoked"
                                        /\ pass.at = "asked" /\ pass.sent \in revoked),
         reporter' = reporter \/ (sync.alive /\ reporter' \in {"on", "asked", "over"}),
         waits' \subseteq Wait,
         UNCHANGED <<issued, revoked, onboarding, binder, queue, mishaps>>
  PROVE  ConnInv'
<1>1. pass' \in Pass
  BY DEF ConnInv, ConnectionTypeOK, Pass, Idle
<1>2. ConnectionTypeOK'
  BY <1>1 DEF ConnInv, ConnectionTypeOK, onboarding
<1>3. BinderBound'
  BY DEF ConnInv, BinderBound
<1>4. LoopAlone'
  BY DEF ConnInv, LoopAlone, Idle
<1>5. CredentialsIssued'
  <2>1. \A h \in Hubs : credential[h] <= issued[h] /\ issued[h] \in Nat
    BY DEF ConnInv, ConnectionTypeOK, CredentialsIssued
  <2> QED
    BY <2>1 DEF CredentialsIssued
<1>6. PassTold'
  <2>1. CASE pass' = Idle
    BY <2>1 DEF PassTold, Idle
  <2>2. CASE pass' # Idle
    <3>1. /\ pass'.before = pass.before /\ pass'.sent = pass.sent
          /\ pass'.at = pass.at \/ (pass'.at = "revoked" /\ pass.at = "asked" /\ pass.sent \in revoked)
      BY <2>2
    <3>2. pass.before # 0 => sync.client.hub \in Hubs
      <4>1. pass.before # 0 => sync.alive
        BY DEF ConnInv, LoopAlone, Idle
      <4> QED
        BY <4>1, LoopTypes
    <3>3. /\ pass.before # 0 /\ credential'[sync.client.hub] = pass.before
          => credential[sync.client.hub] = pass.before
      BY <3>2
    <3> QED
      BY <3>1, <3>3 DEF ConnInv, PassTold
  <2> QED
    BY <2>1, <2>2
<1> QED
  BY <1>2, <1>3, <1>4, <1>5, <1>6 DEF ConnInv

LEMMA PassBeginsInv ==
  ASSUME ConnInv, PassBegins
  PROVE  ConnInv'
<1>1. sync.client.hub \in Hubs
  BY LoopTypes DEF PassBegins
<1>2. /\ credential[sync.client.hub] \in 0..MaxCredential
      /\ credential[sync.client.hub] <= issued[sync.client.hub]
  BY <1>1 DEF ConnInv, ConnectionTypeOK, CredentialsIssued
<1>3. /\ pass' \in Pass /\ pass'.at \in {"binds", "works"}
      /\ pass'.before # 0 => pass'.before = credential[sync.client.hub]
  <2>1. NoBinding \in Binding \cup {NoBinding} /\ 0 \in 0..MaxCredential
    OBVIOUS
  <2>2. CASE pass' = [Idle EXCEPT !.at = "binds", !.before = credential[sync.client.hub]]
    BY <1>2, <2>1, <2>2 DEF Pass, Idle
  <2>3. CASE pass' = [Idle EXCEPT !.at = "works"]
    BY <2>1, <2>3 DEF Pass, Idle
  <2> QED
    BY <2>2, <2>3 DEF PassBegins
<1>4. ConnectionTypeOK'
  BY <1>3 DEF PassBegins, ConnInv, ConnectionTypeOK, hubSide, onboarding, running
<1>5. PassTold'
  BY <1>2, <1>3 DEF PassBegins, onboarding, hubSide, PassTold
<1>6. LoopAlone' /\ BinderBound' /\ CredentialsIssued'
  BY DEF PassBegins, ConnInv, LoopAlone, BinderBound, CredentialsIssued, hubSide,
     onboarding, running
<1> QED
  BY <1>1, <1>2, <1>3, <1>4, <1>5, <1>6 DEF ConnInv

LEMMA PassBindsInv ==
  ASSUME ConnInv, PassBinds
  PROVE  ConnInv'
<1>1. client.hub \in Hubs /\ sync.alive
  BY PassRunning DEF PassBinds, ConnInv, ConnectionTypeOK, Client
<1>2. queue' \in Binding \cup {NoBinding}
  BY <1>1, StoredBinding DEF PassBinds, ConnInv, ConnectionTypeOK
<1>3. /\ pass' \in Pass /\ pass'.before = pass.before /\ pass'.at \in {"unpaired", "works"}
  BY DEF PassBinds, ConnInv, ConnectionTypeOK, Pass
<1>4. ConnectionTypeOK'
  BY <1>2, <1>3 DEF PassBinds, ConnInv, ConnectionTypeOK, hubSide, onboarding, running
<1>5. LoopAlone' /\ BinderBound' /\ CredentialsIssued' /\ PassTold'
  BY <1>1, <1>3 DEF PassBinds, ConnInv, LoopAlone, BinderBound, CredentialsIssued,
     PassTold, hubSide, onboarding, running
<1> QED
  BY <1>1, <1>2, <1>3, <1>4, <1>5 DEF ConnInv

LEMMA PassAsksInv ==
  ASSUME ConnInv, PassAsks
  PROVE  ConnInv'
<1>1. client.hub \in Hubs /\ sync.alive
  BY PassRunning DEF PassAsks, ConnInv, ConnectionTypeOK, Client
<1>2. /\ pass' \in Pass /\ pass'.before = pass.before /\ pass'.at \in {"unpaired", "asked"}
      /\ pass'.at = "asked" => pass'.sent = BindingOf(client.hub) /\ BindingOf(client.hub) \in Binding
  <2>1. pass \in Pass
    BY DEF ConnInv, ConnectionTypeOK
  <2>2. CASE credential[client.hub] = 0
    BY <2>1, <2>2 DEF PassAsks, Pass
  <2>3. CASE credential[client.hub] # 0
    <3> DEFINE b == BindingOf(client.hub)
    <3>1. pass' = [pass EXCEPT !.at = "asked", !.sent = b]
      BY <2>3 DEF PassAsks
    <3>2. b \in Binding
      BY <1>1, <2>3, StoredBinding DEF ConnInv
    <3> HIDE DEF b
    <3>3. pass' \in Pass /\ pass'.before = pass.before /\ pass'.at = "asked" /\ pass'.sent = b
      BY <2>1, <3>1, <3>2 DEF Pass
    <3> QED
      BY <3>2, <3>3 DEF b
  <2> QED
    BY <2>2, <2>3
<1>3. ConnectionTypeOK'
  BY <1>2 DEF PassAsks, ConnInv, ConnectionTypeOK, hubSide, onboarding, running
<1>4. PassTold'
  BY <1>2 DEF PassAsks, ConnInv, PassTold, hubSide, BindingOf
<1>5. LoopAlone' /\ BinderBound' /\ CredentialsIssued'
  BY <1>1 DEF PassAsks, ConnInv, LoopAlone, BinderBound, CredentialsIssued, hubSide,
     onboarding, running
<1> QED
  BY <1>1, <1>2, <1>3, <1>4, <1>5 DEF ConnInv

LEMMA PassAnsweredInv ==
  ASSUME ConnInv, PassAnswered
  PROVE  ConnInv'
<1>1. pass.sent \in Binding /\ pass.sent[1] \in Hubs
  BY DEF PassAnswered, ConnInv, PassTold, Binding
<1>2. CASE pass.sent \in revoked
  <2>1. /\ credential' = Deleted(pass.sent[1], pass.sent[2])
        /\ pass' = [pass EXCEPT !.at = "revoked"]
    BY <1>2 DEF PassAnswered
  <2>2. /\ credential' \in [Hubs -> 0..MaxCredential]
        /\ \A h \in Hubs : credential'[h] # credential[h] => credential'[h] = 0
    BY <1>1, <2>1, DeletedFacts DEF ConnInv
  <2>3. /\ pass' \in Pass /\ pass'.before = pass.before /\ pass'.sent = pass.sent
        /\ pass'.at = "revoked" /\ pass.at = "asked"
    BY <2>1 DEF PassAnswered, ConnInv, ConnectionTypeOK, Pass
  <2> QED
    BY <1>2, <2>2, <2>3, RemovalInv DEF PassAnswered, ConnInv, ConnectionTypeOK
<1>3. CASE pass.sent \notin revoked
  <2>1. /\ pass' = [pass EXCEPT !.at = "works", !.sent = NoBinding]
        /\ UNCHANGED <<credential, issued, revoked, onboarding, binder, ctl, sync, reporter,
                      waits, queue, mishaps>>
    BY <1>3 DEF PassAnswered
  <2>2. pass' \in Pass /\ pass'.before = pass.before /\ pass'.at = "works"
    BY <2>1 DEF ConnInv, ConnectionTypeOK, Pass
  <2>3. sync.alive
    BY PassRunning DEF PassAnswered
  <2>4. ConnectionTypeOK'
    BY <2>1, <2>2 DEF ConnInv, ConnectionTypeOK, onboarding
  <2> QED
    BY <2>1, <2>2, <2>3, <2>4 DEF ConnInv, LoopAlone, BinderBound, CredentialsIssued,
       PassTold
<1> QED
  BY <1>2, <1>3

LEMMA PassOverInv ==
  ASSUME ConnInv, PassOver
  PROVE  ConnInv'
BY RemovalInv DEF PassOver, hubSide, ConnInv, ConnectionTypeOK

LEMMA PassObservedInv ==
  ASSUME ConnInv, PassObserved
  PROVE  ConnInv'
<1>1. sync.client.hub \in Hubs
  BY PassRunning DEF PassObserved
<1>2. /\ credential' \in [Hubs -> 0..MaxCredential]
      /\ \A h \in Hubs : credential'[h] # credential[h] => credential'[h] = 0
  BY <1>1, DeletedFacts DEF PassObserved, ConnInv, ConnectionTypeOK
<1>3. Mark(sync.client, sync.binding) \/ UNCHANGED <<ctl, sync>>
  BY DEF PassObserved, MarkIfUnpaired
<1>4. /\ ctl' \in Controller /\ sync' \in Loop \cup {NoLoop}
      /\ sync'.alive = sync.alive /\ sync'.client = sync.client
  BY <1>3, MarkFacts DEF ConnInv
<1>5. /\ pass' = Idle /\ waits' \subseteq Wait
      /\ UNCHANGED <<issued, revoked, onboarding, binder, reporter, queue, mishaps>>
  BY DEF PassObserved, ConnInv, ConnectionTypeOK
<1> QED
  BY <1>2, <1>4, <1>5, RemovalInv

\* The reporter runs with the loop.
LEMMA ReporterRunning ==
  ASSUME ConnInv, reporter # "off"
  PROVE  sync.alive /\ sync.client.hub \in Hubs /\ sync.binding[1] \in Hubs
<1>1. sync.alive
  BY DEF ConnInv, LoopAlone
<1> QED
  BY <1>1, LoopTypes

LEMMA ReporterAsksInv ==
  ASSUME ConnInv, ReporterAsks
  PROVE  ConnInv'
<1>1. Mark(sync.client, sync.binding) \/ UNCHANGED <<ctl, sync>>
  BY DEF ReporterAsks
<1>2. /\ ctl' \in Controller /\ sync' \in Loop \cup {NoLoop}
      /\ sync'.alive = sync.alive /\ sync'.client = sync.client
  BY <1>1, MarkFacts DEF ConnInv
<1>3. sync.alive
  BY ReporterRunning DEF ReporterAsks
<1>4. reporter' = reporter \/ (sync.alive /\ reporter' \in {"on", "asked", "over"})
  BY <1>3 DEF ReporterAsks
<1>5. /\ credential' = credential /\ pass' = pass /\ waits' \subseteq Wait
      /\ credential' \in [Hubs -> 0..MaxCredential]
      /\ UNCHANGED <<issued, revoked, onboarding, binder, queue, mishaps>>
  BY DEF ReporterAsks, hubSide, ConnInv, ConnectionTypeOK
<1> QED
  BY <1>2, <1>4, <1>5, RemovalInv

LEMMA ReporterAnsweredInv ==
  ASSUME ConnInv, ReporterAnswered
  PROVE  ConnInv'
<1>1. sync.alive /\ sync.binding[1] \in Hubs
  BY ReporterRunning DEF ReporterAnswered
<1>2. /\ credential' \in [Hubs -> 0..MaxCredential]
      /\ \A h \in Hubs : credential'[h] # credential[h] => credential'[h] = 0
  BY <1>1, DeletedFacts DEF ReporterAnswered, ConnInv, ConnectionTypeOK
<1>3. Mark(sync.client, sync.binding) \/ UNCHANGED <<ctl, sync>>
  BY DEF ReporterAnswered, MarkIfUnpaired
<1>4. /\ ctl' \in Controller /\ sync' \in Loop \cup {NoLoop}
      /\ sync'.alive = sync.alive /\ sync'.client = sync.client
  BY <1>3, MarkFacts DEF ConnInv
<1>5. /\ pass' = pass /\ waits' \subseteq Wait /\ reporter' \in {"on", "asked", "over"}
      /\ UNCHANGED <<issued, revoked, onboarding, binder, queue, mishaps>>
  BY DEF ReporterAnswered, ConnInv, ConnectionTypeOK
<1> QED
  BY <1>1, <1>2, <1>4, <1>5, RemovalInv

LEMMA ReporterEndsInv ==
  ASSUME ConnInv, ReporterEnds
  PROVE  ConnInv'
<1>1. sync.alive
  BY ReporterRunning DEF ReporterEnds
<1> QED
  BY <1>1, RemovalInv DEF ReporterEnds, hubSide, ConnInv, ConnectionTypeOK

LEMMA LoopOverInv ==
  ASSUME ConnInv, LoopOver
  PROVE  ConnInv'
<1>1. pass = Idle
  BY DEF LoopOver, ConnInv, PassTold
<1>2. ConnectionTypeOK'
  BY DEF LoopOver, ConnInv, ConnectionTypeOK, hubSide, onboarding, running
<1>3. LoopAlone' /\ PassTold'
  BY <1>1 DEF LoopOver, ConnInv, LoopAlone, PassTold, hubSide, onboarding, running, Idle
<1>4. BinderBound' /\ CredentialsIssued'
  BY DEF LoopOver, ConnInv, BinderBound, CredentialsIssued, hubSide, onboarding, running
<1> QED
  BY <1>1, <1>2, <1>3, <1>4 DEF ConnInv

LEMMA WaitAsksInv ==
  ASSUME ConnInv, WaitAsks
  PROVE  ConnInv'
<1>1. Mark(sync.client, sync.binding) \/ UNCHANGED <<ctl, sync>>
  BY DEF WaitAsks
<1>2. /\ ctl' \in Controller /\ sync' \in Loop \cup {NoLoop}
      /\ sync'.alive = sync.alive /\ sync'.client = sync.client
  BY <1>1, MarkFacts DEF ConnInv
<1>3. sync.client \in Client /\ sync.binding \in Binding /\ client.hub \in Hubs
  <2>1. sync.client \in Client /\ sync.binding \in Binding
    BY LoopTypes DEF WaitAsks
  <2> QED
    BY <2>1 DEF ConnInv, ConnectionTypeOK, Client
<1>4. waits' \subseteq Wait
  BY <1>3, StoredBinding DEF WaitAsks, ConnInv, ConnectionTypeOK, Wait
<1>5. /\ credential' = credential /\ credential' \in [Hubs -> 0..MaxCredential]
      /\ pass' = pass /\ reporter' = reporter
      /\ UNCHANGED <<issued, revoked, onboarding, binder, queue, mishaps>>
  BY DEF WaitAsks, hubSide, ConnInv, ConnectionTypeOK
<1> QED
  BY <1>2, <1>4, <1>5, RemovalInv

LEMMA WaitAnsweredInv ==
  ASSUME ConnInv, NEW w \in waits, WaitAnswered(w)
  PROVE  ConnInv'
<1>1. w.sent[1] \in Hubs /\ waits' \subseteq Wait
  BY DEF WaitAnswered, ConnInv, ConnectionTypeOK, Wait, Binding
<1>2. /\ credential' \in [Hubs -> 0..MaxCredential]
      /\ \A h \in Hubs : credential'[h] # credential[h] => credential'[h] = 0
  BY <1>1, DeletedFacts DEF WaitAnswered, ConnInv, ConnectionTypeOK
<1>3. Mark(w.client, w.binding) \/ UNCHANGED <<ctl, sync>>
  BY DEF WaitAnswered, MarkIfUnpaired
<1>4. /\ ctl' \in Controller /\ sync' \in Loop \cup {NoLoop}
      /\ sync'.alive = sync.alive /\ sync'.client = sync.client
  BY <1>3, MarkFacts DEF ConnInv
<1>5. /\ pass' = pass /\ reporter' = reporter
      /\ UNCHANGED <<issued, revoked, onboarding, binder, queue, mishaps>>
  BY DEF WaitAnswered
<1> QED
  BY <1>1, <1>2, <1>4, <1>5, RemovalInv

LEMMA LocalRestartsInv ==
  ASSUME ConnInv, LocalRestarts
  PROVE  ConnInv'
<1>1. /\ client' \in Client /\ made' \in 1..MaxClients
  BY NewClient DEF LocalRestarts, ConnInv, ConnectionTypeOK
<1>2. binder' \in Binder /\ binder'.at = "load"
  BY <1>1, StartsBinder DEF LocalRestarts
<1>3. ctl' \in Controller /\ pass' \in Pass
  BY DEF LocalRestarts, Unbound, Controller, Pass, Idle
<1>4. ConnectionTypeOK'
  BY <1>1, <1>2, <1>3 DEF LocalRestarts, ConnInv, ConnectionTypeOK, hubSide
<1>5. LoopAlone' /\ PassTold'
  BY DEF LocalRestarts, LoopAlone, PassTold, Idle
<1>6. CredentialsIssued'
  BY DEF LocalRestarts, hubSide, ConnInv, CredentialsIssued
<1>7. BinderBound'
  BY <1>2 DEF BinderBound
<1> QED
  BY <1>1, <1>2, <1>3, <1>4, <1>5, <1>6, <1>7 DEF ConnInv

-----------------------------------------------------------------------------
LEMMA ConnInitInv == ConnectionInit => ConnInv
<1> SUFFICES ASSUME ConnectionInit PROVE ConnInv
  OBVIOUS
<1>1. client \in Client /\ made \in 1..MaxClients /\ mishaps \in 0..MaxMishaps
  BY DEF ConnectionInit, Client
<1>2. binder \in Binder /\ binder.at = "load"
  BY <1>1, StartsBinder DEF ConnectionInit
<1>3. ctl \in Controller /\ pass \in Pass
  BY DEF ConnectionInit, Unbound, Controller, Pass, Idle
<1>4. /\ credential \in [Hubs -> 0..MaxCredential] /\ issued \in [Hubs -> 0..MaxCredential]
      /\ CredentialsIssued
  <2>1. credential \in [Hubs -> 0..1] /\ issued = credential
    BY DEF ConnectionInit
  <2>2. \A h \in Hubs : credential[h] \in 0..MaxCredential /\ credential[h] <= credential[h]
    BY <2>1
  <2> QED
    BY <2>1, <2>2 DEF CredentialsIssued
<1>5. queue \in Binding \cup {NoBinding}
  BY <1>4 DEF ConnectionInit, BindingOf, Binding
<1>6. ConnectionTypeOK
  BY <1>1, <1>2, <1>3, <1>4, <1>5 DEF ConnectionInit, ConnectionTypeOK
<1>7. LoopAlone /\ PassTold
  BY DEF ConnectionInit, LoopAlone, PassTold, Idle
<1>8. BinderBound
  BY <1>2 DEF BinderBound
<1> QED
  BY <1>4, <1>6, <1>7, <1>8 DEF ConnInv

LEMMA ConnNextInv ==
  ASSUME ConnInv, [ConnectionNext]_connectionVars
  PROVE  ConnInv'
<1>1. ASSUME Requests
      PROVE  ConnInv'
  BY <1>1, LinkArrivesInv, ConnectStartsInv, LinkProceedsInv, SwitchConfirmedInv,
     SwitchDeclinedInv, SwitchExpiresInv, CodeClaimedInv, PairingEndsInv, PairedEnsuresInv
     DEF Requests
<1>2. ASSUME Ensures
      PROVE  ConnInv'
  BY <1>2, EnsureLoadsInv, EnsureBindsInv, EnsureLooksInv, EnsureKeepsInv, EnsureStopsInv,
     EnsureUnbindsInv, EnsureStartsInv, RestoreSavesInv DEF Ensures
<1>3. ASSUME Loops
      PROVE  ConnInv'
  BY <1>3, PassBeginsInv, PassBindsInv, PassAsksInv, PassAnsweredInv, PassOverInv,
     PassObservedInv, ReporterAsksInv, ReporterAnsweredInv, ReporterEndsInv, LoopOverInv,
     WaitAsksInv, WaitAnsweredInv DEF Loops
<1>4. ASSUME UNCHANGED connectionVars
      PROVE  ConnInv'
  BY <1>4 DEF connectionVars, hubSide, onboarding, running, ConnInv, ConnectionTypeOK,
     LoopAlone, BinderBound, CredentialsIssued, PassTold
<1> QED
  BY <1>1, <1>2, <1>3, <1>4, LocalRestartsInv, HubRevokesInv DEF ConnectionNext

LEMMA ConnInvariant == ConnectionSpec => []ConnInv
<1>1. ConnectionInit => ConnInv
  BY ConnInitInv
<1>2. ConnInv /\ [ConnectionNext]_connectionVars => ConnInv'
  BY ConnNextInv
<1> QED
  BY <1>1, <1>2, PTL DEF ConnectionSpec

\* Every variable of the connection has its type.
THEOREM ConnectionTyped == ConnectionSpec => []ConnectionTypeOK
<1>1. ConnInv => ConnectionTypeOK
  BY DEF ConnInv
<1> QED
  BY <1>1, ConnInvariant, PTL

-----------------------------------------------------------------------------
(* What a step may not do.                                                 *)

\* Only an Ensure that waited for its loop, and a pass that follows the current
\* client, write the queue's binding.
LEMMA RebindStep ==
  ASSUME ConnInv, [ConnectionNext]_connectionVars, queue' # queue
  PROVE  pass.at = "binds" \/ (pass.at = "idle" /\ reporter = "off")
<1>1. ~Requests
  BY DEF Requests, LinkArrives, ConnectStarts, LinkProceeds, SwitchConfirmed,
     SwitchDeclined,
     SwitchExpires, CodeClaimed, PairingEnds, PairedEnsures, running
<1>2. CASE Ensures
  <2>1. EnsureStarts
    BY <1>2 DEF Ensures, EnsureLoads, EnsureBinds, EnsureLooks, EnsureKeeps, EnsureStops,
       EnsureUnbinds, RestoreSaves, running
  <2> QED
    BY <2>1 DEF EnsureStarts, Stopped, ConnInv, LoopAlone, Idle
<1>3. CASE Loops
  <2>1. PassBinds
    BY <1>3 DEF Loops, PassBegins, PassAsks, PassAnswered, PassOver, PassObserved,
       ReporterAsks,
       ReporterAnswered, ReporterEnds, LoopOver, WaitAsks, WaitAnswered
  <2> QED
    BY <2>1 DEF PassBinds
<1>4. ~LocalRestarts /\ ~\E h \in Hubs : HubRevokes(h)
  BY DEF LocalRestarts, HubRevokes, running
<1>5. ~UNCHANGED connectionVars
  BY DEF connectionVars, running
<1> QED
  BY <1>1, <1>2, <1>3, <1>4, <1>5 DEF ConnectionNext

\* The controller rebinds the queue when nothing of its loop is under way.
THEOREM RebindsAloneHolds == ConnectionSpec => RebindsAlone
<1>1. ConnInv /\ [ConnectionNext]_connectionVars =>
        [queue' # queue => \/ pass.at = "binds"
                           \/ pass.at = "idle" /\ reporter = "off"]_connectionVars
  BY RebindStep
<1> QED
  BY <1>1, ConnInvariant, PTL DEF ConnectionSpec, RebindsAlone

\* What is deleted for a binding is that binding's credential.
LEMMA DeletedIsRevoked ==
  ASSUME ConnInv, NEW g \in Hubs, NEW n, <<g, n>> \in revoked, credential' = Deleted(g, n),
         NEW h \in Hubs, Removed(h)
  PROVE  BindingOf(h) \in revoked
<1>1. h = g /\ credential[h] = n
  BY DeletedFacts DEF ConnInv, Removed
<1> QED
  BY <1>1 DEF BindingOf

LEMMA RemovalStep ==
  ASSUME ConnInv, [ConnectionNext]_connectionVars, NEW h \in Hubs, Removed(h)
  PROVE  BindingOf(h) \in revoked \/ AskedElsewhere
<1>1. credential' # credential
  BY DEF Removed
<1>2. ASSUME NEW j \in jobs, PairingEnds(j)
      PROVE  FALSE
  <2>1. /\ j.client.hub \in Hubs /\ issued \in [Hubs -> 0..MaxCredential]
        /\ credential \in [Hubs -> 0..MaxCredential]
    BY DEF ConnInv, ConnectionTypeOK, Job, Client
  <2>2. /\ issued' = [issued EXCEPT ![j.client.hub] = @ + 1]
        /\ credential' = [credential EXCEPT ![j.client.hub] = issued'[j.client.hub]]
    BY <1>1, <1>2 DEF PairingEnds
  <2> QED
    BY <2>1, <2>2 DEF Removed
<1>3. ASSUME PassAnswered
      PROVE  BindingOf(h) \in revoked
  <2>1. /\ pass.sent \in revoked /\ pass.sent \in Binding
        /\ credential' = Deleted(pass.sent[1], pass.sent[2])
    BY <1>1, <1>3 DEF PassAnswered, ConnInv, PassTold
  <2>2. <<pass.sent[1], pass.sent[2]>> \in revoked /\ pass.sent[1] \in Hubs
    BY <2>1 DEF Binding
  <2> QED
    BY <2>1, <2>2, DeletedIsRevoked
<1>4. ASSUME ReporterAnswered
      PROVE  BindingOf(h) \in revoked
  <2>1. /\ sync.binding \in revoked /\ sync.binding \in Binding
        /\ credential' = Deleted(sync.binding[1], sync.binding[2])
    BY <1>1, <1>4 DEF ReporterAnswered, ConnInv, ConnectionTypeOK
  <2>2. <<sync.binding[1], sync.binding[2]>> \in revoked /\ sync.binding[1] \in Hubs
    BY <2>1 DEF Binding
  <2> QED
    BY <2>1, <2>2, DeletedIsRevoked
<1>5. ASSUME NEW w \in waits, WaitAnswered(w)
      PROVE  BindingOf(h) \in revoked
  <2>1. /\ w.sent \in revoked /\ w.sent \in Binding /\ credential' = Deleted(w.sent[1], w.sent[2])
    BY <1>1, <1>5 DEF WaitAnswered, ConnInv, ConnectionTypeOK, Wait
  <2>2. <<w.sent[1], w.sent[2]>> \in revoked /\ w.sent[1] \in Hubs
    BY <2>1 DEF Binding
  <2> QED
    BY <2>1, <2>2, DeletedIsRevoked
<1>6. ASSUME PassObserved, ~AskedElsewhere
      PROVE  BindingOf(h) \in revoked
  <2> DEFINE g == sync.client.hub
  <2>1. /\ pass.at = "revoked" /\ pass.before # 0 /\ credential' = Deleted(g, pass.before)
    BY <1>1, <1>6 DEF PassObserved
  <2>2. g \in Hubs /\ pass.sent \in Binding /\ pass.sent \in revoked /\ pass.sent[1] = g
    BY <1>6, <2>1, PassRunning DEF ConnInv, ConnectionTypeOK, PassTold, AskedElsewhere
  <2>3. h = g /\ credential[g] = pass.before
    BY <2>1, <2>2, DeletedFacts DEF ConnInv, Removed
  <2>4. pass.sent[2] = pass.before
    BY <2>1, <2>2, <2>3 DEF ConnInv, PassTold
  <2> HIDE DEF g
  <2>5. pass.sent = <<g, pass.before>>
    BY <2>2, <2>4 DEF Binding
  <2> QED
    BY <2>2, <2>3, <2>5 DEF BindingOf
<1>7. ASSUME Requests
      PROVE  \E j \in jobs : PairingEnds(j)
  BY <1>1, <1>7 DEF Requests, LinkArrives, ConnectStarts, LinkProceeds, SwitchConfirmed,
     SwitchDeclined, SwitchExpires, CodeClaimed, PairedEnsures, hubSide
<1>8. ~Ensures
  BY <1>1 DEF Ensures, EnsureLoads, EnsureBinds, EnsureLooks, EnsureKeeps, EnsureStops,
     EnsureUnbinds, EnsureStarts, RestoreSaves, hubSide
<1>9. ASSUME Loops
      PROVE  PassAnswered \/ ReporterAnswered \/ PassObserved \/ \E w \in waits : WaitAnswered(w)
  BY <1>1, <1>9 DEF Loops, PassBegins, PassBinds, PassAsks, PassOver, ReporterAsks,
     ReporterEnds,
     LoopOver, WaitAsks, hubSide
<1>10. ~LocalRestarts /\ ~(\E g \in Hubs : HubRevokes(g)) /\ ~UNCHANGED connectionVars
  BY <1>1 DEF LocalRestarts, HubRevokes, connectionVars, hubSide
<1> QED
  BY <1>2, <1>3, <1>4, <1>5, <1>6, <1>7, <1>8, <1>9, <1>10 DEF ConnectionNext

\* A credential goes only when its Hub revoked it, but for a pass that asked
\* another Hub than its loop's.
THEOREM ReplacementStaysHolds == ConnectionSpec => ReplacementStays
<1>1. ConnInv /\ [ConnectionNext]_connectionVars =>
        [\A h \in Hubs : Removed(h) => BindingOf(h) \in revoked \/ AskedElsewhere]_connectionVars
  BY RemovalStep
<1> QED
  BY <1>1, ConnInvariant, PTL DEF ConnectionSpec, ReplacementStays

-----------------------------------------------------------------------------
(* The queue and the connection in one run.                                *)

\* Every behaviour that the run explores is one of the upload queue and one of
\* the connection: its bounds and the choice of who moves only leave behaviours
\* out.
THEOREM RunsQueueAndConnection == MCSpec => Spec /\ ConnectionSpec
<1>1. MCInit => Init /\ ConnectionInit
  BY DEF MCInit
<1>2. [(QueueMoves \/ ConnectionMoves) /\ UNCHANGED instance]_<<vars, connectionVars, instance>>
      => [Next]_vars /\ [ConnectionNext]_connectionVars
  BY DEF QueueMoves, ConnectionMoves
<1> QED
  BY <1>1, <1>2, PTL DEF MCSpec, Spec, ConnectionSpec
=============================================================================
