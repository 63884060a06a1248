--------------------------- MODULE HubConnection ---------------------------
(***************************************************************************)
(* Which Hub this computer is connected to (cmd/coslash: onboarding.go,    *)
(* connect.go, hub_switch.go and sync_controller.go).  The saved Hub, the  *)
(* current client and the controller's binding change under hubBindingMu;  *)
(* the controller's loop, its update reporter and its wait run meanwhile   *)
(* and take the current client, or a client pinned to the loop's binding,  *)
(* for each request.                                                       *)
(*                                                                         *)
(* A client is an object: two clients of one Hub share its credential but  *)
(* are not equal.  Credentials are numbered as the Hub issues them, 0 is   *)
(* none; a binding is a Hub with a credential.                             *)
(***************************************************************************)
EXTENDS Integers, FiniteSets

CONSTANTS Hubs,
          NoHub,           \* in the place of a Hub: none
          MaxCredential,   \* bound: credentials a Hub issues
          MaxClients,      \* bound: clients made, by links, restarts, restores
          MaxMishaps       \* bound: credentials revoked, failures of stores

ASSUME ConnectionAssumption ==
  /\ NoHub \notin Hubs
  /\ MaxCredential \in Nat \ {0} /\ MaxClients \in Nat \ {0} /\ MaxMishaps \in Nat

VARIABLES
  stored,      \* the file hub-url
  credential,  \* the credential store
  issued,      \* Hub: credentials issued so far
  revoked,     \* Hub: the bindings it revoked
  client,      \* onboardingManager.hubClient
  made,        \* clients made so far
  pending,     \* pendingSwitch
  link,        \* a link that found no other Hub paired, before the lock
  jobs,        \* pairings under way
  binder,      \* the holder of hubBindingMu and what it does
  ctl,         \* syncController: client, binding, connected, revoked
  sync,        \* the loop the controller started
  pass,        \* the loop's pass
  reporter,    \* the loop's update reporter
  waits,       \* wait requests; a loop does not wait for its own
  queue,       \* Queue.state.Binding
  mishaps      \* so far

hubSide == <<credential, issued, revoked>>
onboarding == <<stored, client, made, pending, link, jobs>>
running == <<sync, pass, reporter, waits, queue>>
connectionVars == <<hubSide, onboarding, binder, ctl, running, mishaps>>

Client == [hub: Hubs, nr: 1..MaxClients]
NoClient == [hub |-> NoHub, nr |-> 0]
Binding == Hubs \X (1..MaxCredential)
NoBinding == <<NoHub, 0>>
Switch == [from: Hubs, to: Hubs, can: BOOLEAN, action: {"pair", "check-in"}]
NoSwitch == [from |-> NoHub, to |-> NoHub, can |-> FALSE, action |-> "pair"]
Link == [to: Hubs, action: {"pair", "check-in"}]
NoLink == [to |-> NoHub, action |-> "pair"]
Job == [client: Client, paired: BOOLEAN]
\* An Ensure of client, for the start of sync, a check-in or a restore of the
\* saved Hub, the last two for a switch; "claim": a connect code.
Binder == [at: {"claim", "load", "bind", "look", "same", "keep", "stop", "await",
                "unbind", "unbound", "restore"},
           client: Client, why: {"start", "check-in", "restore"},
           binding: Binding \cup {NoBinding}, switch: Switch \cup {NoSwitch}]
Free == [at |-> "free", client |-> NoClient, why |-> "start",
         binding |-> NoBinding, switch |-> NoSwitch]
Controller == [client: Client \cup {NoClient}, binding: Binding \cup {NoBinding},
               connected: BOOLEAN, revoked: BOOLEAN]
Unbound(c) == [client |-> c, binding |-> NoBinding, connected |-> FALSE, revoked |-> FALSE]
Loop == [alive: {TRUE}, cancelled: BOOLEAN, client: Client, binding: Binding]
NoLoop == [alive |-> FALSE, cancelled |-> FALSE, client |-> NoClient, binding |-> NoBinding]
\* before: the credential the observer read; sent: whom the request names.
Pass == [at: {"idle", "binds", "works", "asked", "unpaired", "revoked"},
         before: 0..MaxCredential, sent: Binding \cup {NoBinding}]
Idle == [at |-> "idle", before |-> 0, sent |-> NoBinding]
Wait == [client: Client, binding: Binding, sent: Binding]

ConnectionTypeOK ==
  /\ stored \in Hubs /\ client \in Client /\ made \in 1..MaxClients
  /\ credential \in [Hubs -> 0..MaxCredential] /\ issued \in [Hubs -> 0..MaxCredential]
  /\ revoked \subseteq Binding
  /\ pending \in Switch \cup {NoSwitch} /\ link \in Link \cup {NoLink}
  /\ jobs \subseteq Job
  /\ binder \in Binder \cup {Free}
  /\ ctl \in Controller
  /\ sync \in Loop \cup {NoLoop}
  /\ pass \in Pass /\ reporter \in {"off", "on", "asked", "over"}
  /\ waits \subseteq Wait
  /\ queue \in Binding \cup {NoBinding}
  /\ mishaps \in 0..MaxMishaps

BindingOf(h) == <<h, credential[h]>>

\* main: the client of the saved Hub, and ensureSync for it.
Starts(c) == [Free EXCEPT !.at = "load", !.client = c]

ConnectionInit ==
  /\ stored \in Hubs
  /\ credential \in [Hubs -> 0..1] /\ issued = credential /\ revoked = {}
  /\ client = [hub |-> stored, nr |-> 1] /\ made = 1
  /\ pending = NoSwitch /\ link = NoLink /\ jobs = {}
  /\ binder = Starts(client)
  /\ ctl = Unbound(NoClient)
  /\ sync = NoLoop /\ pass = Idle /\ reporter = "off" /\ waits = {}
  /\ queue \in {NoBinding} \cup {BindingOf(h) : h \in {g \in Hubs : credential[g] # 0}}
  /\ mishaps = 0

Mishap == mishaps < MaxMishaps /\ mishaps' = mishaps + 1

\* hubClientForURL makes another client at every call.
New(h) == [hub |-> h, nr |-> made + 1]

-----------------------------------------------------------------------------
(* The Hub.                                                                *)

HubRevokes(h) ==
  /\ credential[h] # 0 /\ BindingOf(h) \notin revoked
  /\ Mishap
  /\ revoked' = revoked \cup {BindingOf(h)}
  /\ UNCHANGED <<credential, issued, onboarding, binder, ctl, running>>

-----------------------------------------------------------------------------
(* Links, connect codes and switches.                                      *)

BoundElsewhere(h) == stored # h /\ credential[stored] # 0

\* StartPairing, RetryCheckIn, and RequestWake for another Hub: a link asks
\* first if this computer is paired with the saved Hub.
LinkArrives(action, h) ==
  /\ link = NoLink /\ made < MaxClients
  /\ IF BoundElsewhere(h)
     THEN /\ pending' = [from |-> stored, to |-> h, action |-> action,
                         can |-> action = "pair" \/ credential[h] # 0]
          /\ UNCHANGED link
     ELSE /\ link' = [to |-> h, action |-> action]
          /\ UNCHANGED pending
  /\ UNCHANGED <<hubSide, stored, client, made, jobs, binder, ctl, running, mishaps>>

\* startPairing and checkIn.
Proceeds(action, h, switch) ==
  /\ binder = Free
  /\ made < MaxClients /\ made' = made + 1
  /\ stored' = h /\ client' = New(h)
  /\ IF action = "pair"
     THEN /\ jobs' = jobs \cup {[client |-> New(h), paired |-> FALSE]}
          /\ UNCHANGED binder
     ELSE /\ binder' = [Free EXCEPT !.at = "load", !.client = New(h),
                                    !.why = "check-in", !.switch = switch]
          /\ UNCHANGED jobs

LinkProceeds ==
  /\ link # NoLink
  /\ Proceeds(link.action, link.to, NoSwitch)
  /\ link' = NoLink
  /\ UNCHANGED <<hubSide, pending, ctl, running, mishaps>>

\* ResolveSwitch, confirmed.
SwitchConfirmed ==
  /\ pending # NoSwitch /\ pending.can
  /\ Proceeds(pending.action, pending.to, pending)
  /\ pending' = NoSwitch
  /\ UNCHANGED <<hubSide, link, ctl, running, mishaps>>

\* ResolveSwitch, declined or impossible: restoreSwitch.
SwitchDeclined ==
  /\ pending # NoSwitch /\ binder = Free
  /\ pending' = NoSwitch
  /\ IF stored # pending.to /\ client.hub # pending.to
     THEN UNCHANGED <<made, binder>>
     ELSE /\ made < MaxClients /\ made' = made + 1
          /\ binder' = [Free EXCEPT !.at = "load", !.client = New(pending.from),
                                    !.why = "restore", !.switch = pending]
  /\ UNCHANGED <<hubSide, stored, client, link, jobs, ctl, running, mishaps>>

\* PendingSwitch: nobody answered within hubSwitchTTL.
SwitchExpires ==
  /\ pending # NoSwitch
  /\ pending' = NoSwitch
  /\ UNCHANGED <<hubSide, stored, client, made, link, jobs, binder, ctl, running, mishaps>>

\* StartConnectCode saves the Hub before the code is claimed.
ConnectStarts(h) ==
  /\ binder = Free
  /\ made < MaxClients /\ made' = made + 1
  /\ stored' = h
  /\ binder' = [Free EXCEPT !.at = "claim", !.client = New(h)]
  /\ UNCHANGED <<hubSide, client, pending, link, jobs, ctl, running, mishaps>>

CodeClaimed ==
  /\ binder.at = "claim"
  /\ \/ /\ client' = binder.client
        /\ jobs' = jobs \cup {[client |-> binder.client, paired |-> FALSE]}
     \/ UNCHANGED <<client, jobs>>
  /\ binder' = Free
  /\ UNCHANGED <<hubSide, stored, made, pending, link, ctl, running, mishaps>>

\* runPairing, runConnectApproval: the Hub approves and the credential is
\* saved, or nothing comes of it.
PairingEnds(j) ==
  /\ ~j.paired
  /\ \/ /\ issued[j.client.hub] < MaxCredential
        /\ issued' = [issued EXCEPT ![j.client.hub] = @ + 1]
        /\ credential' = [credential EXCEPT ![j.client.hub] = issued'[j.client.hub]]
        /\ jobs' = (jobs \ {j}) \cup {[j EXCEPT !.paired = TRUE]}
     \/ jobs' = jobs \ {j} /\ UNCHANGED <<credential, issued>>
  /\ UNCHANGED <<revoked, stored, client, made, pending, link, binder, ctl, running,
                 mishaps>>

\* ensureSync of the client that was paired.
PairedEnsures(j) ==
  /\ j.paired /\ binder = Free
  /\ binder' = Starts(j.client)
  /\ jobs' = jobs \ {j}
  /\ UNCHANGED <<hubSide, stored, client, made, pending, link, ctl, running, mishaps>>

-----------------------------------------------------------------------------
(* Ensure.                                                                 *)

\* retainSwitch
Fails ==
  /\ binder' = Free
  /\ pending' = IF pending = NoSwitch THEN binder.switch ELSE pending
  /\ UNCHANGED <<stored, client>>

Succeeds ==
  /\ binder' = IF binder.why = "restore" THEN [binder EXCEPT !.at = "restore"] ELSE Free
  /\ UNCHANGED <<stored, client, pending>>

At(step) == binder' = [binder EXCEPT !.at = step] /\ UNCHANGED <<stored, client, pending>>

EnsureLoads ==
  /\ binder.at = "load"
  /\ \/ At(IF credential[binder.client.hub] = 0 THEN "unbind" ELSE "bind") /\ UNCHANGED mishaps
     \/ Fails /\ Mishap
  /\ UNCHANGED <<hubSide, made, link, jobs, ctl, running>>

EnsureBinds ==
  /\ binder.at = "bind"
  /\ IF credential[binder.client.hub] = 0
     THEN Fails
     ELSE /\ binder' = [binder EXCEPT !.at = "look", !.binding = BindingOf(binder.client.hub)]
          /\ UNCHANGED <<stored, client, pending>>
  /\ UNCHANGED <<hubSide, made, link, jobs, ctl, running, mishaps>>

\* Under the read lock; what it saw is acted on under the write lock later.
EnsureLooks ==
  /\ binder.at = "look"
  /\ At(CASE ctl.binding = binder.binding /\ ctl.revoked -> "keep"
          [] ctl.binding = binder.binding /\ ~ctl.revoked /\ sync.alive -> "same"
          [] OTHER -> "stop")
  /\ UNCHANGED <<hubSide, made, link, jobs, ctl, running, mishaps>>

EnsureKeeps ==
  /\ binder.at \in {"same", "keep"}
  /\ ctl' = IF binder.at = "keep" THEN [ctl EXCEPT !.client = binder.client]
            ELSE [ctl EXCEPT !.client = binder.client, !.connected = TRUE, !.revoked = FALSE]
  /\ Succeeds
  /\ UNCHANGED <<hubSide, made, link, jobs, running, mishaps>>

\* stopLoop cancels, and waits; cancel is no more than a signal.
EnsureStops ==
  /\ binder.at \in {"stop", "unbind"}
  /\ sync' = IF sync.alive THEN [sync EXCEPT !.cancelled = TRUE] ELSE sync
  /\ At(IF binder.at = "stop" THEN "await" ELSE "unbound")
  /\ UNCHANGED <<hubSide, made, link, jobs, ctl, pass, reporter, waits, queue, mishaps>>

\* Mutant of Stopped: the loop's end is not waited for.
StoppedAtOnce == TRUE

Stopped == ~sync.alive

EnsureUnbinds ==
  /\ binder.at = "unbound" /\ Stopped
  /\ ctl' = Unbound(binder.client)
  /\ Succeeds
  /\ UNCHANGED <<hubSide, made, link, jobs, running, mishaps>>

EnsureStarts ==
  /\ binder.at = "await" /\ Stopped
  /\ \/ /\ queue' = binder.binding
        /\ ctl' = [client |-> binder.client, binding |-> binder.binding,
                   connected |-> TRUE, revoked |-> FALSE]
        /\ sync' = [alive |-> TRUE, cancelled |-> FALSE, client |-> binder.client,
                    binding |-> binder.binding]
        /\ reporter' = "on"
        /\ Succeeds
        /\ UNCHANGED mishaps
     \/ \* the queue cannot be saved
        /\ Fails /\ Mishap
        /\ UNCHANGED <<queue, ctl, sync, reporter>>
  /\ UNCHANGED <<hubSide, made, link, jobs, pass, waits>>

\* restoreSwitch saves the Hub and sets the client after its Ensure.
RestoreSaves ==
  /\ binder.at = "restore"
  /\ stored' = binder.client.hub /\ client' = binder.client
  /\ binder' = Free
  /\ UNCHANGED <<hubSide, made, pending, link, jobs, ctl, running, mishaps>>

-----------------------------------------------------------------------------
(* The loop, its reporter and its wait.                                    *)

\* markRevoked, of a worker that knows the client and the binding it began
\* with.
Mark(c, b) ==
  IF ctl.client = c /\ ctl.binding = b
  THEN /\ ctl' = [ctl EXCEPT !.revoked = TRUE, !.connected = FALSE]
       /\ sync' = IF sync.alive THEN [sync EXCEPT !.cancelled = TRUE] ELSE sync
  ELSE UNCHANGED <<ctl, sync>>

\* markRevokedIfUnpaired
MarkIfUnpaired(c, b) ==
  IF credential'[c.hub] = 0 THEN Mark(c, b) ELSE UNCHANGED <<ctl, sync>>

\* Mutant of Deleted: whatever is stored now is deleted.
DeletedAnyway(h, n) == [credential EXCEPT ![h] = 0]

\* DeleteIfMatches
Deleted(h, n) == IF credential[h] = n THEN [credential EXCEPT ![h] = 0] ELSE credential

\* observedSyncWorker: SyncOnce reads the credential of the loop's client
\* first; CheckInForUpdate, the one request of an idle loop, does not.
PassBegins ==
  /\ sync.alive /\ ~sync.cancelled /\ pass.at = "idle"
  /\ pass' \in {[Idle EXCEPT !.at = "binds", !.before = credential[sync.client.hub]],
                [Idle EXCEPT !.at = "works"]}
  /\ UNCHANGED <<hubSide, onboarding, binder, ctl, sync, reporter, waits, queue, mishaps>>

\* Runner.SyncOnce binds the queue to the current client.
PassBinds ==
  /\ pass.at = "binds"
  /\ IF credential[client.hub] = 0
     THEN pass' = [pass EXCEPT !.at = "unpaired"] /\ UNCHANGED queue
     ELSE pass' = [pass EXCEPT !.at = "works"] /\ queue' = BindingOf(client.hub)
  /\ UNCHANGED <<hubSide, onboarding, binder, ctl, sync, reporter, waits, mishaps>>

\* Every request goes to the current client's Hub, with its credential.
PassAsks ==
  /\ pass.at = "works"
  /\ IF credential[client.hub] = 0
     THEN pass' = [pass EXCEPT !.at = "unpaired"]
     ELSE pass' = [pass EXCEPT !.at = "asked", !.sent = BindingOf(client.hub)]
  /\ UNCHANGED <<hubSide, onboarding, binder, ctl, sync, reporter, waits, queue, mishaps>>

\* v4Request deletes the credential the Hub revoked.
PassAnswered ==
  /\ pass.at = "asked"
  /\ IF pass.sent \in revoked
     THEN /\ credential' = Deleted(pass.sent[1], pass.sent[2])
          /\ pass' = [pass EXCEPT !.at = "revoked"]
     ELSE /\ UNCHANGED credential
          /\ pass' = [pass EXCEPT !.at = "works", !.sent = NoBinding]
  /\ UNCHANGED <<issued, revoked, onboarding, binder, ctl, sync, reporter, waits, queue,
                 mishaps>>

\* A pass is done, or it is cancelled or fails; the answer to a request that
\* is on its way does not reach it then.
PassOver ==
  /\ pass.at \in {"binds", "works", "asked"}
  /\ pass' = Idle
  /\ UNCHANGED <<hubSide, onboarding, binder, ctl, sync, reporter, waits, queue, mishaps>>

\* observedSyncWorker.SyncOnce, on an error that says the device is revoked or
\* that nothing is paired.  A revocation also deletes the credential of the
\* loop's client that was there before the pass.
PassObserved ==
  /\ pass.at \in {"unpaired", "revoked"}
  /\ LET h == sync.client.hub
         deletes == pass.at = "revoked" /\ pass.before # 0 IN
       credential' = IF deletes THEN Deleted(h, pass.before) ELSE credential
  /\ MarkIfUnpaired(sync.client, sync.binding)
  /\ pass' = Idle
  /\ UNCHANGED <<issued, revoked, onboarding, binder, reporter, waits, queue, mishaps>>

\* The reporter's client is pinned to the loop's binding.  Its last report is
\* sent when the loop was cancelled already.
ReporterAsks ==
  /\ reporter = "on"
  /\ \/ /\ BindingOf(sync.client.hub) = sync.binding
        /\ reporter' = "asked"
        /\ UNCHANGED <<ctl, sync>>
     \/ /\ credential[sync.client.hub] = 0
        /\ Mark(sync.client, sync.binding)
        /\ UNCHANGED reporter
  /\ UNCHANGED <<hubSide, onboarding, binder, pass, waits, queue, mishaps>>

ReporterAnswered ==
  /\ reporter = "asked"
  /\ credential' = IF sync.binding \in revoked
                   THEN Deleted(sync.binding[1], sync.binding[2]) ELSE credential
  /\ IF sync.binding \in revoked THEN MarkIfUnpaired(sync.client, sync.binding)
     ELSE UNCHANGED <<ctl, sync>>
  /\ reporter' = IF sync.cancelled THEN "over" ELSE "on"
  /\ UNCHANGED <<issued, revoked, onboarding, binder, pass, waits, queue, mishaps>>

\* A cancelled loop's reporter ends, whether its last report was answered, or
\* was not.
ReporterEnds ==
  /\ reporter \in {"on", "asked"} /\ sync.cancelled
  /\ reporter' = "over"
  /\ UNCHANGED <<hubSide, onboarding, binder, ctl, sync, pass, waits, queue, mishaps>>

\* runWithUpdateReporter returns once both are over.
LoopOver ==
  /\ sync.cancelled /\ pass.at = "idle" /\ reporter = "over"
  /\ sync' = NoLoop /\ reporter' = "off"
  /\ UNCHANGED <<hubSide, onboarding, binder, ctl, pass, waits, queue, mishaps>>

\* The wait takes the current client, too; without a credential it fails at
\* once.  One is on its way for each loop.
WaitAsks ==
  /\ sync.alive /\ ~sync.cancelled
  /\ \A w \in waits : w.client # sync.client \/ w.binding # sync.binding
  /\ IF credential[client.hub] = 0
     THEN /\ IF credential[sync.client.hub] = 0 THEN Mark(sync.client, sync.binding)
             ELSE UNCHANGED <<ctl, sync>>
          /\ UNCHANGED waits
     ELSE /\ waits' = waits \cup {[client |-> sync.client, binding |-> sync.binding,
                                   sent |-> BindingOf(client.hub)]}
          /\ UNCHANGED <<ctl, sync>>
  /\ UNCHANGED <<hubSide, onboarding, binder, pass, reporter, queue, mishaps>>

\* observedWait; the loop that asked may be over.
WaitAnswered(w) ==
  /\ waits' = waits \ {w}
  /\ \/ /\ w.sent \in revoked
        /\ credential' = Deleted(w.sent[1], w.sent[2])
        /\ MarkIfUnpaired(w.client, w.binding)
     \/ UNCHANGED <<credential, ctl, sync>>
  /\ UNCHANGED <<issued, revoked, onboarding, binder, pass, reporter, queue, mishaps>>

\* The process ends at any moment and starts again.
LocalRestarts ==
  /\ made < MaxClients /\ made' = made + 1
  /\ client' = New(stored)
  /\ pending' = NoSwitch /\ link' = NoLink /\ jobs' = {}
  /\ binder' = Starts(New(stored))
  /\ ctl' = Unbound(NoClient)
  /\ sync' = NoLoop /\ pass' = Idle /\ reporter' = "off" /\ waits' = {}
  /\ UNCHANGED <<hubSide, stored, queue, mishaps>>

Requests ==
  \/ \E h \in Hubs : \/ \E action \in {"pair", "check-in"} : LinkArrives(action, h)
                     \/ ConnectStarts(h)
  \/ LinkProceeds \/ SwitchConfirmed \/ SwitchDeclined \/ SwitchExpires \/ CodeClaimed
  \/ \E j \in jobs : PairingEnds(j) \/ PairedEnsures(j)
Ensures == EnsureLoads \/ EnsureBinds \/ EnsureLooks \/ EnsureKeeps \/ EnsureStops
           \/ EnsureUnbinds \/ EnsureStarts \/ RestoreSaves
Loops == PassBegins \/ PassBinds \/ PassAsks \/ PassAnswered \/ PassOver \/ PassObserved
         \/ ReporterAsks \/ ReporterAnswered \/ ReporterEnds \/ LoopOver
         \/ WaitAsks \/ \E w \in waits : WaitAnswered(w)
ConnectionNext == Requests \/ Ensures \/ Loops \/ LocalRestarts
                  \/ \E h \in Hubs : HubRevokes(h)

ConnectionSpec == ConnectionInit /\ [][ConnectionNext]_connectionVars

-----------------------------------------------------------------------------
(* Properties.                                                             *)

\* The controller binds the queue to another Hub or credential only when no
\* pass and no report that it started is under way: nothing they do reaches
\* the queue of another binding.  (A pass itself follows the current client.)
RebindsAlone ==
  [][queue' # queue => \/ pass.at = "binds"
                       \/ pass.at = "idle" /\ reporter = "off"]_connectionVars

Removed(h) == credential[h] # 0 /\ credential'[h] = 0

\* A pass of the loop got its answer from another Hub than the loop's.
AskedElsewhere == pass.at = "revoked" /\ pass.sent[1] # sync.client.hub

\* A credential is removed only when its own Hub revoked it: one that replaced a
\* revoked one stays, however late the answers to requests made with the old one
\* are observed.  Only a pass that asked another Hub takes one along.
ReplacementStays ==
  [][\A h \in Hubs : Removed(h) => BindingOf(h) \in revoked \/ AskedElsewhere]_connectionVars
=============================================================================
