# Verification of coSlash Local

coSlash Local discovers coding sessions on a computer, captures each one into a
bundle and uploads it to a Hub; the Hub answers with a policy and with commands,
one of which replaces Local's own executable. Beside this, Local shows the
sessions of a remote host, has sessions summarised by command line tools, and
gives agents a login of their own to the Hub. These modules model those parts,
TLC checks them on small instances, and TLAPS proves the main safety properties
for every instance. Paths below are relative
to `src/collector/internal/` unless they begin with `cmd/`.

## The system

| Part | State | Operations | Talks to |
|---|---|---|---|
| upload queue (`syncv4/queue.go`) | one JSON file: entries, discarded bundles, policy, commands, log, update attempt; saved by every operation under one mutex | `Open`, `Merge*`, `Update`, `Matches`, `freeze`/`unfreeze`, `RetrySession`, `MarkListedAt`, `ApplyPolicyAt`, `Rebind`, the command journal | called by the runner, the controller and the update code |
| sync pass (`syncv4/runner.go`, `warmstart.go`) | the current copy of an entry, the last check-in, open retry commands, in memory | `SyncOnce`: check in, delete abandoned bundles, discover, list, resume uploads, open new ones | queue, spool, Hub |
| import plan (`syncv4/plan.go`, `import_progress.go`) | plan version and phase, in the queue | which entries are due | queue, runner |
| bundle spool (`sessionbackupproducer`) | content-addressed bundles on disk | `Prepare`, `Open`, `Reader`, `Discard` | runner |
| command journal (`syncv4/queue.go`, `journal.go`, `runner.go`) | started command IDs, their results, retries held open | `StartCommand`, `FinishCommand`, `Results`, `AcknowledgeResults`, `finishRetryCommands` | Hub, runner |
| update attempt (`syncv4/update.go`, `cmd/coslash/auto_update.go`, `main.go`) | one attempt and its stage in the queue; the installed, staged and backup executables; the helper's marker; two lock files | `AcceptUpdate`, `SetUpdateStage`, `ConfirmUpdateHandoff`, `ReconcileUpdate`; preparation, the detached helper's swap and rollback, waiting for readiness | Hub, check-in, reporter goroutine, supervisor |
| sync log (`syncv4/log.go`) | unacknowledged lines with sequence numbers | `appendLog`, `PendingLogLimit`, `AcknowledgeLog` | check-in |
| sync loop (`cmd/coslash/sync_loop.go`) | wake channels, backoff | `RetryNow`, the loop, the wait | runner, queue, Hub's long wait |
| login of the `coslash hub` commands (`cmd/coslash/hub_cli.go`, `hub_auth_lock.go`) | one stored credential under a file lock that holds a revision | login, refresh, logout, requests, each in a process of its own | keychain, Hub |
| Hub connection (`cmd/coslash/onboarding.go`, `connect.go`, `hub_switch.go`, `sync_controller.go`) | the saved Hub, the current client, a pending switch, the controller's binding, the stored credentials | links, connect codes, pairing, switching, `Ensure`, what a revoked credential sets off | keychain, queue, loop, Hub |
| synthesis (`synthesis`) | in-flight map, slots, cached records, accounting database | `Ensure`, `execute`, `SetRunner`, `Shutdown`, rounds and invocations | CLI runners |
| remote sources (`remote`, `cmd/coslash/api.go`) | configuration, snapshot, refresh in progress, helper state, cache directories | `ApplySettings`, `runRefresh`, `SetupHelper`, `SaveHubSettings`, `RemoveHubHost`, `SweepRemovedSources` | SSH, settings, Hub |
| discovery, vendors, launch, handoff, web, frontend | files and requests | readers, handlers | - |

What is hard here. A pass works for minutes on *copies* of queue entries while
sources change, check-ins bring policies and retries, uploads expire and the
process stops at any point; the file is the only thing that survives. Commands
arrive again and again until their result was acknowledged, must not run twice
and may stay open over many passes. An update is carried through by three
processes that see each other only through files and locks. Refreshes of a
remote host, an installation of its helper and the calls of a summary run for
minutes without a lock while what they are about is changed or removed.
`PROJECT.json` lists these hazards at their lines, with the properties that
cover them or the reason why none does.

What makes each part correct:

- queue: it never claims more than the Hub accepted, and never less for good;
  nothing is sent without consent; a parked session waits for a named cause;
- commands: each runs at most once, its one report is true, and it is made;
- update attempt: it is cleared only once its report was heard, reported done
  only if kept, and always closed;
- sync loop: a policy the owner sets is applied and a command reported, however
  the goroutines' signals cross;
- sync log: a line is dropped only once Hub has it or it is too old;
- remote source: nothing a superseded task collected is stored or shown, a
  helper in use is a recorded one, a removal that was not committed is undone
  and one that was is finished;
- Hub connection: the queue changes its binding only when nothing of the former
  one is under way, and a late answer about a revoked credential takes no other along;
- synthesis: costs that were spent are on record or known to be incomplete, and
  every session gets its newest summary;
- login: the newest login stays, and no used refresh token is used again but
  after a loss.

## Modules

| Module | What it is |
|---|---|
| `HubCopy` | abstract specification: what sync promises, in sources, accepted contents and claims |
| `UploadQueue` | the queue and the pass, detailed; `Promise == INSTANCE HubCopy` is its refinement mapping |
| `UploadQueueProofs` | theorems about the states and the steps of `UploadQueue`, and that it implements `HubCopy` |
| `CommandJournal` | the journal, check-ins and retries |
| `SyncLog` | the failures Local tells Hub about |
| `SyncLoop` | the loop around the passes, the wait at Hub |
| `CheckInProofs` | theorems about `CommandJournal`, `SyncLoop` and their run |
| `HubConnection`, `ConnectionProofs` | which Hub this computer is connected to; theorems about it and about its run |
| `UpdateAttempt` | the attempt in the queue, its two reporters, Hub's side |
| `UpdateHandoff` | extends `UpdateAttempt` with the processes that replace the executable |
| `UpdateProofs` | theorems about `UpdateHandoff` |
| `RemoteSources`, `RemoteProofs` | a remote host: settings, refreshes, helper, cache, removal; theorems |
| `Synthesis`, `SynthesisProofs` | summaries and the accounting of their calls; theorems |
| `HubLogin`, `HubLoginProofs` | processes that share a login; theorems |
| `MCUploadQueue`, `MCCommandJournal`, `MCUpdateHandoff` | what TLC needs besides: the symmetry set, if any |
| `MCCheckIn` | `CommandJournal` and `SyncLoop` in one run |
| `MCPairAndConnection` | two sessions of `UploadQueue`, and `HubConnection`, in one run |
| `MCServices` | `RemoteSources`, `Synthesis`, `SyncLog` and `HubLogin` in one run |
| `ServicesProofs` | theorems about `SyncLog`, and about that run |

The modules of one run that share no state do not take steps of each other:
`instance` says which of them moves and how it is bounded. `UpdateHandoff` is a
composition in earnest: its processes share the attempt, and the check-in and
the reporter of `UpdateAttempt` run in whichever process owns the lock.

### UploadQueue

`q` is `Queue.state.Entries`, one record per session with the fields that decide
anything: `act` stands for `Activity` with `SourceRevision`, `synced` for
`SyncedActivity` with `SyncedSourceRevision`, `frozen` for `Frozen`, `bundle`
for `BundleID` with `ContentSHA256`, `rev` for `RevisionID`, and so on; the
comments of `Entry` give the names. `discards` is `DiscardBundles`, `pol` and
`stopped` the applied policy. `stage`, `loop`, `batch`, `cur`, `copy` are where
`SyncOnce` is: `batch` holds the entry copies a loop of `syncPlannedContent` still has
to visit, `copy` the one it works on. `hub` is the Hub's uploads by idempotency
key, `owner` its policy. `src` is the version each source is at. A version names
both a value of activity and the content captured at it, because bundle IDs and
content hashes are functions of the content.

A queue operation on one entry is an operator on records (`Merged`, `Retried`,
`Unfrozen`, `Exclude`, `Stored`, ...), and `Put`/`PutAll` store the result and
abandon the bundles that are no longer named, as `abandon` does. Every action is one
piece of the pass between two points where something else can happen: the Hub
answers, a check-in is possible, the process may stop.

| Action | Code |
|---|---|
| `StartPass`, `Refresh`, `TakeRetry`, `Admit` | `SyncOnce`'s first check-in; `ensureConsent` during the pass; retry commands; the checks after it |
| `DiscardAbandoned`, `Discover`, `ListAll` | `discardAbandoned`; `reconcileGrokSources`, `merge`, `releaseParked`, `applyExclusions`; `listAll` with `MarkListedAt` |
| `TakeCopies`, `Pick`, `Consent`, `Disallowed` | the loops of `syncPlannedContent`, `ensureConsent` and `entryAllowed` |
| `RecoverUnprepared`, `StartPending`, `Freeze`, `Capture`, `ReuseBundle` | `prepareEntry` |
| `CreateOpens`, `CreateLost`, `CreateCompleted`, `CreateUnusable` | `createUpload` |
| `StatusOpen` ... `StatusDead`, `PutChunks`, `Finalize`, `Complete`, `DiscardUploaded` | `transfer`, `complete` |
| `UploadGone`, `NotPrepared`, `PrepareFails`, `ContentRefused`, `LeftOutRefused`, `PausedRefused`, `BudgetExpires`, `PassFails` | `recordFailureState` and its callers |
| `Restart`, `Rebind` | process stop and `Open`; `Queue.Rebind` |
| `SourceChange`, `HubAccepts`, `HubDrops`, `HubForgets`, `OwnerSetsPolicy` | the world outside |

Abstractions. Which entries are due (quiet time, backoff, import plan, priority)
is left open: a loop takes any subset of the eligible entries. Failure codes are
left out; that a failure parks, backs off or ends the pass is a choice wherever
the code's answer depends on the code of the problem. Chunks of an upload are
one step. Every queue operation is saved atomically. `Capture` and the save of
the bundle ID are one step, so is an answered create with its save; the answer
that never arrives is `CreateLost`. Pi's comparison of the captured revision and
the upgrade of uploads from older versions are left out. The Hub keeps a dead or forgotten
key dead; it gets what the runner can tell apart from its answers.

Parameters: `Sessions`, `MaxVersion` (how often a source changes), `Faults` (the
kinds of adverse events an instance allows) and `MaxFaults` (how many of them).

### CommandJournal

`journal` is `Queue.state.Commands` by command ID: the list names each ID once, and
`nr` is a record's place in it, which `Kept` closes up when records go. `held` and `waiting` are `Queue.held` and
`Runner.retryCommands`, which a restart loses. `verdict` is what the Hub knows;
`runs`, `landed`, `said` and `unsaved` are history the properties speak about.
The session a retry names is one record `entry` (settled, failed, blocked,
excluded), which the rest of the pass changes at will: this is what
`retryOutcome` reads. The Hub hands out any command whose result it does not
have, any number of times, and keeps the first result. One step per save:
`StartCommand`, `PickUp`, `Execute`/`Refuse`/`Retry`, `FinishCommand`, so that
`Restart` and `SaveFails` can fall between any two. A check-in reports up to
`ReportLimit` results; progress carries no state of its own. Commands of type
`update` belong to the update attempt; `prioritize` behaves like a launch.

### SyncLoop

`loop` is where `runV4SyncLoopWithControl` stands and, in a pass, where
`SyncOnce` stands; `applied`, `refused` and `unreachable` are `ConfigVersion`,
`PolicyBlocked` and `LastHubFailure` of the queue file; `wake`, `policyWake` and
`retryWake` are the channels of capacity one; `blockedAt`, `notified` and
`pendingCommand` are the variables the goroutines share under `policyMu` or keep.
`handled` says whether `checkInGeneration` is another than `commandsGeneration`.
`hubPolicy` and `command` are the Hub's.

| Action | Code (`cmd/coslash/sync_loop.go` unless named) |
|---|---|
| `CheckInAnswered`, `TakeCommands`, `CheckInFails`, `Refused`, `WriteAnswered`, `PassEnded` | `SyncOnce` with `refreshConsent`, as far as the loop can tell; `hub_transport.go` records each contact |
| `Interrupt`, `Again`, `Blocks`, `Unblocks`, `GoesIdle`, `IdleEnds` | the loop: `awaitPass`, the blocked select, the idle wait; `beginPass` empties `wake` |
| `Ask`, `Replied`, `Hear`, `WaitFails`, `RetryPass` | the goroutine that waits at the Hub; the Hub repeats its answer until a check-in applied it |
| `RetryNow`, `OwnerSetsPolicy`, `HubQueues` | the user, the owner, the Hub |

Abstractions. Inventory wakes and `SyncRequested` only start a discovery or an
earlier pass and are left out, so are the check-ins of a finished update while
the loop rests, and retries held open (`CommandJournal`). Delays and backoff are
the timer of an idle loop, which may end at any time. One command is under way
at a time. A cancelled pass is one step, except that the commands of an answer
it has are still handled. An import makes no check-in of its own: the worker that
the program passes to the loop does not offer it (finding 12). The initial states are those of any start with
whatever the queue file holds. `WakeIfIdle` may do nothing (`paused`). Its safety,
`NoticesServed`, is a theorem (see Proofs).

### HubConnection

`stored` is the file `hub-url`, `credential` the credential store, `issued` and
`revoked` the Hubs' own records; `client`, `pending` and `jobs` are
`onboardingManager.hubClient`, `pendingSwitch` and the pairings that wait for an
approval. `binder` holds `hubBindingMu`: an `Ensure` at the step between two of its
locks. `ctl` is the `syncController`, `sync` its loop with the client and the binding
it was started with, `pass`, `reporter` and `waits` the requests made meanwhile,
`queue` is `Queue.state.Binding`. Clients are numbered, because the code compares them
as objects: two clients of one Hub are different, and share its credential.

| Action | Code (`cmd/coslash/`) |
|---|---|
| `LinkArrives`, `LinkProceeds`, `ConnectStarts`, `CodeClaimed`, `PairingEnds`, `PairedEnsures` | `StartPairing`, `RetryCheckIn`, `runPairing` (`onboarding.go`), `connect.go` |
| `SwitchConfirmed`, `SwitchDeclined`, `SwitchExpires`, `RestoreSaves` | `ResolveSwitch`, `restoreSwitch`, `PendingSwitch` (`hub_switch.go`) |
| `EnsureLoads`, `EnsureBinds`, `EnsureLooks`, `EnsureKeeps`, `EnsureStops`, `EnsureUnbinds`, `EnsureStarts` | `syncController.Ensure`, `bind`, `stopLoop` |
| `PassBegins` ... `PassObserved` | `observedSyncWorker`, and of `SyncOnce` whom it binds and asks |
| `ReporterAsks`, `ReporterAnswered`, `ReporterEnds`, `WaitAsks`, `WaitAnswered`, `LoopOver` | `runWithUpdateReporter`, `observedWait`, the ends of both |
| `HubRevokes`, `LocalRestarts` | the Hub; stop and start |

Abstractions. What requests are about, and every other answer than "revoked", is left
out; so are the pages that show the state, the release of a client's connections,
and the stores' failures but in `Ensure`. A pass asks any number of times. Hubs,
clients, credentials and mishaps are bounded by `MaxCredential`, `MaxClients` and
`MaxMishaps`.

### UpdateAttempt and UpdateHandoff

`UpdateAttempt` is the queue's part. `attempt` is `Queue.state.Update`, `checkIn`
and `report` are requests of the sync loop and of the update reporter, with what
they carry and what the answer delivers; the queue's mutex is not held while they
are out. `wake` is `updateWake`, `acknowledged` the failure the reporter takes the
Hub to know. `hub`, `heard` and `aware` are the Hub's.

`UpdateHandoff` is what moves the attempt on. `owner` is the process with
`runtime.lock`, `waiters` those in `waitForRuntimeLock`, `watch` and `confirm` the
owner's watcher and its wait for the handoff, `helper` the detached `update-apply`;
`installed`, `backup` and `outcome` are files, and `staged` is whether the downloaded
executable the helper was given is still there. A lock is held while its
process is in the states that hold it, and a process that dies gives it up.

| Action | Code |
|---|---|
| `CheckInSend` ... `CheckInApplies` | `refreshConsent` (`syncv4/runner.go`), `AcknowledgeResults`, `ReconcileUpdate`, `AcceptUpdate` |
| `ReporterWakes`, `ReporterSends`, `ReportArrives`, `ReportFails`, `ReporterReconciles`, `ReporterStops` | `runUpdateReporter` of `cmd/coslash/sync_loop.go`, `flushFailedUpdate` at shutdown |
| `StartProcess`, `WaitRound`, `BecomeReady`, `Quit`, `StopLoop`, `Exit`, `Crash` | `cmd/coslash/main.go`, the CLI's start and the runtime lock |
| `ConsumeFailure`, `PrepareAttempt`, `PrepareRecommended`, `Prepared`, `WatchFails`, `Launch` | `watchAutomaticUpdates` and what it calls |
| `SettleCheck`, `RetireLegacyBackup`, `SettleRecheck` | the settlement of an update by a release that knew no attempts |
| `ConfirmRead`, `ConfirmLock` | `waitForUpdateHandoff`: the marker first, then the lock |
| `HelperAlone` ... `HelperDies` | `runUpdateApply`: waits for the old process, replaces, waits for readiness, keeps or restores, records |
| `HubIssues`, `HubDrops`, `HubUpgrade`, `HubDowngrade` | the Hub |

Abstractions. Which failure code is reported, retry delays, Windows' variants and
the steps of a download are left out. One helper runs at a time. Of several
waiting processes any one is kept. Applying an answer is one step, and so are
`reconcile` and the read that follows it in the reporter. A shutdown ends within
the helper's minute. There are two versions.

### RemoteSources

`saved` is the remote of `settings.json`, `cfg` the manager's; they differ while
settings are saved. `dirs` holds for each source ID whose snapshot and whose
`helper.json` its directory has, `trash` the renamed directories with their
records. `tasks` are goroutines of `runRefresh` and `runHelperDiscovery`, live or
superseded. What runs under the manager's lock is one step; the refresh that
writes (`Collected`, `Store`, `Publish`), the settings handler (`SaveValidate`,
`SaveWrite`, `SaveApply`), the removal and the setup give it up in between, and
other actions fall there. `removeSourceWithCommit` renames, commits and deletes:
`StopsInRemoval` and `RemoveDirty` are a stop and a failed cleanup on either side of
the commit; `SweepOf` decides from the record which it was.

| Action | Code (`remote/manager.go` unless named) |
|---|---|
| `Apply`, `ApplyFails`, `Refused` | `ApplySettings`, `validateSettingsLocked`, `clearRemoteLocked` |
| `SaveValidate`, `SaveWrite`, `SaveApply`, `StopsInSave` | `handleSaveSettings` (`cmd/coslash/api.go`), `ReleaseHelperOwnership` |
| `HubConfigures`, `HubReplaces`, `HubRemoves`, `HubRemoved` | `SaveHubSettings`, `RemoveHubHost`, `cmd/coslash/ssh_hosts.go` |
| `StartRefresh`, `Collected`, `Store`, `Publish` | `maybeStartRefreshLocked`, `runRefresh` |
| `StartDiscovery`, `Discovered`, `SetupBegin`, `SetupEnds` | `remote/helpermanager.go` |
| `Sweep`, `Boot`, `Booted`, `Crash` | `SweepRemovedSources` (`remote/cache.go`), start and stop |

Abstractions. What is collected, SSH authentication, helper versions and targets,
timers and backoff, coverage windows, corrupt and legacy records are left out, and
so are the uninstall in a settings save (a release is modelled) and a restore
that fails after a failed commit. A wait for the cache lock inside `ApplySettings`
is not a step of its own. A sweep is atomic. An empty directory counts as none.

### Synthesis

`workers` is `inFlight` with what each worker does; `listed` and `checked` are what
a sweep, or an `ensure`, has read and not yet acted on. `made` and `recorded` count
the calls of a round and their finished rows, `unavailable` is
`accountingUnavailable`, `marker` the database's `accounting_incomplete`, `dbDown`
an outage that begins and ends at any step. The marker is a write of its own, which
may succeed after the one that failed. `unrecorded` is history: this process made a
call no finished row tells of. Of the rounds in the database the model keeps those
that miss what a call used: `left`, some open round that no worker will close does
(its row was lost, `FinishRound` failed, or the process ended under it); `short`,
who closed such rounds, and with which outcome.

Actions: `List`, `SweepChecks`, `ShareChecks`, `Claim` (`ensure` up to the claim),
`TakeSlot`, `Begin`, `StartInvocation`, `CallRunner`, `RunnerAnswers`, `RetryStart`,
`FinishInvocation`, `Settle`, `Close` (`execute` and the accounting store),
`SetRunner`, `CooldownEnds`, `Shutdown`, `Exit`, `Start`, `DbStops`, `DbAnswers`.
`Start` opens the store if the database answers, and `ClosesLeft` is what that does
in one transaction (`initialize`): every invocation still open becomes interrupted
with unknown coverage, every round still open becomes interrupted. A call that never
got a row stays without one. How cost reads add up is left out: a round that is
interrupted counts as incomplete there, in a session's costs always, in a month's
only if it has an invocation.
Eligibility of sessions, what is read and written, token counts and the format
of summaries are left out.

### SyncLog

`lines` is `state.Log` as facts (a session, or the device, and a code) with their
numbers, by which the list is ordered; `sending` is the check-in that is out.
Actions: `Fails` and `Listed` (a failure and its line in one save; the Hub's session
ID comes with the listing), `Clears`, `SendLines`, `HubAccepts`, `HubRefuses`,
`SendingLost`, `QuietEnds`, `AcknowledgeLog`, `Ages`, `RebindLog` (between check-ins
only). What else a line says is left out.

### HubLogin

Each process of `Processes` runs one `coslash hub` command after another. `lock` and
`loginRevision` are the lock file, `stored` the credential; a command keeps the
client and token it loaded. `newest`, `alive`, `renewable` are the Hub's; `late` holds
uses of a token whose sender is gone. A login is known by the revision it started
with, since each registers a client of its own.

Actions: `StartLogin`, `Approved`, `SaveLogin`, `RevokeUnused` (login); `BeginLogout`,
`RevokeStored`, `DeleteStored`, `LogoutFails`; `LoadLogin`, `Check`, `BeginRefresh`,
`Rotate`, `RotateFails`, `KeepToken`, `Send`, `GivesUp` (requests); `LateUse` (the
network). Whether an access token is fresh is left open, a wait for the lock that
times out ends the command, and what a tool call asks, its approval, scopes, the
older credential store and a malformed lock file are left out.

## Runs

| Run | Checks | Bounds |
|---|---|---|
| `UploadQueue` | types; claims are accepted; newer changes stay pending; uploads match bundles; no write without consent; parking needs a cause; `HubCopy` | 1 session, 2 versions, any 2 of all 13 kinds of faults: 1.1 million states |
| `UploadQueuePair` | what is written is what the queue holds; the queue is bound alone; a replaced credential stays | 2 sessions (symmetric), 1 version, 2 of policy/retry/budget; 2 Hubs (symmetric), 2 credentials, 3 clients, 1 revocation or failed store: 1.5 million |
| `UploadQueueSettles` | every session settles | 1 session, 2 versions, 2 of restart/spool/prepare/retry/lost/source: 0.3 million |
| `CommandJournal` | at most once; open commands journaled; true, final and eventual reports; policies noticed and commands reported by the loop | a retry and a launch, journal and reports of 1, any 2 of 6 kinds of faults; the loop with 2 policies, one command at a time, 1 failed contact or cancelled pass: 0.12 million |
| `UpdateHandoff` | acknowledged failures were heard; a settled legacy update is kept; a rollback leaves its record; cleared only when heard; every attempt closes | 1 attempt, ordinary or legacy, supervised or not, 1 fault of any kind: 0.3 million |
| `Services` | the properties of `RemoteSources`, `Synthesis`, `SyncLog` and `HubLogin`, below | see below: 0.3 million |
| `DiscardsUnreferenced`, `SourceChangeReleasesParked`, `RetrySupersedesCopies`, `LeftOutPersists`, `RetriesClose`, `DoneMeansKept` | a sentence of a comment, a test or a README that the code does not keep | see Findings |

The properties of `Services`:

| Part | Property | It says |
|---|---|---|
| remote | `StoresConfigured` | only the configured host's cache is written |
| | `ShownIsConfigured` | what appears is the configured host's, or what its directory held when it was configured |
| | `ReadyIsRecorded` | a helper that refreshes may run is on record as this host's |
| | `UncommittedKept` | no failed or unfinished removal costs a host its cache: it is in its place or on record, and after one failure the next start puts it back |
| | `SetupKeepsHost` | nothing takes the host away between installing its helper and recording it |
| | `RefreshEnds`, `DetachedGoes` | no refresh runs for ever; detached caches are deleted |
| synthesis | `RoundsComplete` | a round its worker closed has a row with what each call used; others are closed at a start only, as interrupted |
| | `LostIsSaid` | spending without a row keeps the costs from being shown as known |
| | `CatchesUp` | every session gets its newest summary |
| log | `LoggedIsKept`, `LogEmpties` | a line stays until Hub has it or it is too old; the log empties |
| login | `NewestStays` | what is stored is never older than the last login or logout |
| | `OnlyLossesReplay` | the Hub sees a used refresh token only after a loss |

Its instances: a remote host under one ID whose alias Hub changes, with one crash
or failed file operation or with two tasks at a time; Hub asking for another ID;
a page that turns its host off; one session with two revisions and rounds of two
calls, two sessions with one slot, and one session with two troubles, where a row is
lost and the next start closes its round; two sessions and one code, batches of two
of four lines, one loss; two processes, two logins or logouts, three tokens, one
loss. In the loop's part of `CommandJournal` the instances are policies with a user
who retries at any time, and commands with a user who retries a blocked loop. In the
connection's part of `UploadQueuePair` they are one pairing and one wait at a time
with two clients and a revocation, and three clients with a failed store where
nobody pairs or waits, so that a switch is taken back.

Why these bounds suffice. Sessions only meet in the batch and in the policy, and
every guard is about one entry: two sessions are enough for a copy to become
stale while another is worked on, and one for everything else. Two versions
give a source that changes at any point of a capture or an upload; a third adds
another change of the same kind. Two faults are the shortest interplay (a
retry, then the budget; a hold, then a lost bundle; a crash, then a forgotten
revision), and each kind may meet each other kind or itself. A journal of one
with two commands is over its limit as soon as the second arrives. The
invariants of `UploadQueue` need none of these bounds: they are proved.

For the other parts: an attempt's processes are several by themselves, and one
fault falls between any two of their steps; with two attempts and no fault,
which was checked once, the reports of a former attempt meet the next. A third
alias or ID adds nothing that is compared: hosts are compared with one other
only. Two calls are the least with a call after a recorded one; two sessions and
one slot the least with a worker that waits. Four lines and batches of two have
a line that is appended behind a batch that is out. Two processes have a
transaction that waits for another; three tokens have a use of the last but one.
Two policies are enough for a refusal that is lifted, and a third is noticed as
the second is. Two Hubs are the least with a switch, two credentials of a Hub the
least with a late answer about the first; a third client is what restores the first
Hub. Larger instances passed when the modules were written: six million
states of `RemoteSources` with the bounds of its instances united, two processes
with three logins and three processes with two of `HubLogin`, two codes of
`SyncLog`, a session with two revisions, calls and troubles of `Synthesis`, and
1.2 million states of `HubConnection` with two pairings at a time, and ten million of
`UpdateHandoff` with two attempts.

### Fairness

`FairSpec` assumes that a pass runs on and another one follows
(`cmd/coslash/sync_loop.go` runs `SyncOnce` until its context ends, and every
Hub call has a deadline); that each loop takes all eligible entries again and
again (backoff is at most one hour, `retryBackoff`; a hold at most ten minutes;
strong fairness, because in between it takes others); and that the Hub finishes
verifying an upload. No fairness is assumed of faults, source changes or
retries. `EventuallySettled` excuses sessions that are parked, left out or
paused, which is what "settled" means to the code, and does not allow the faults
`expire` and `forget`: `merge` sets `Attempt` back to 0, so a dead key may be
used again and the Hub's answer to that is not in the repository (see hazards).
`CommandJournal` assumes likewise that passes run and end, that open
commands are handed out, and that a session's sync ends, which is
`EventuallySettled`. `EveryCommandReported` excuses a command whose save failed:
only a restart closes it.

`UpdateHandoff`: every process and goroutine that can go on does, requests are
answered or fail, supervisors restart what they supervise. `AttemptCloses` excuses a
Hub that does not know update completion, and an unsupervised Local that a fault
left down until the user starts it. `RemoteSources`: a refresh ends (collecting has
a deadline), a removal goes on, the program is started again; strong fairness for
the sweep, which comes with every check-in and with a ticker and must find the
cache free. `Synthesis`: the sweep's ticker, the runner's deadlines and the
cooldowns pass; nobody need restart anything or repair the database. `SyncLog`:
check-ins go on and are not lost for ever. `HubLogin` has no liveness property: a
command may be killed. `SyncLoop`: a pass gets on unless a wake or the user cancels
it, the commands of an answer are handled, the loop and the wait run on, the timer
of an idle loop ends. `PolicyIsNoticed` and `CommandsAreReported` excuse the states
`Deaf` and `Overlooked`, which are findings 10 and 11.

### Findings

1. `DiscardsUnreferenced`: a retry in mid-pass lists a bundle for deletion that
   the same pass captures again under the same ID; the next pass deletes the
   bundle of an open upload. The upload then fails once as not prepared.
2. `SourceChangeReleasesParked`: an entry parked while it holds a frozen capture
   is not released by a source change.
3. `RetrySupersedesCopies`: when the budget of a pass ends, a copy older than a
   retry is stored over it.
4. `LeftOutPersists`: the Hub's leave-out of a frozen capture is undone by the
   next pass.
5. `RetriesClose`: a re-pairing under a running loop leaves a retry waiting, and
   an error in every pass, until Local restarts.

6. `DoneMeansKept`: the new process reads the helper's marker before it tries the
   helper's lock; a helper that rolls back and exits in between makes it confirm
   an update that was taken back, and Hub may be told that it is done.
7. A failed update attempt that the reporter cleared while a check-in's answer
   was on its way is accepted again from that answer and installed once more
   (`syncv4/runner.go:1063`; `RollbackLeavesMark` therefore says nothing of an
   attempt of which the Hub received a failure).
8. After `Ensure` replaced the controller's client, a `device_revoked` of the running
   loop removes the credential but not the status "connected"
   (`cmd/coslash/sync_controller.go:358`; `HubConnection` takes these steps).
9. A committed removal whose cleanup failed is taken back when the same host is
   configured again before a sweep (`remote/cache.go:379`; the same code serves
   `UncommittedKept`).
10. A loop blocked by policy does not learn that the owner resumed sync if the
   last recorded contact failed, and the refusal itself is recorded as such
   (`cmd/coslash/sync_loop.go:232`; `Deaf` in `SyncLoop`).
11. A command that is queued just before the loop blocks is not noticed until
   something else wakes the loop (`cmd/coslash/sync_loop.go:416`; `Overlooked`).
12. The loop asks its worker for `BypassRetryBackoff` and `ProgressCheckIn` by
   interface, and the worker of the program has neither: a user's retry waits for
   the backoff, an import makes no progress check-ins
   (`cmd/coslash/sync_controller.go:235`; met while composing).
13. A pass that asked a Hub to which this computer was switched meanwhile, and was
   told that it is revoked, also deletes the credential of the loop's own Hub
   (`cmd/coslash/sync_controller.go:263`; `AskedElsewhere` in `HubConnection`).

`PROJECT.json` quotes the lines each of them contradicts. Findings 7 to 13 have no
run of their own. None of them breaks the promise to the owner
(`ClaimIsAccepted`, `WritesNeedConsent`): they cost work, leave something waiting,
or say something that is not so.

Smaller observations without a contradicted sentence: `ensure` looks a summary up
before it claims the session, so a revision can be paid for twice; a slow sweep
can put an older summary over a newer one until the next; a crash between a first
row that failed and its retry leaves a call unrecorded and unmarked (the next start
closes its round as interrupted); a settings
save writes the file before it applies it, so a stop in between can show the old
host's cache once under the new alias; an automatic update's helper holds no
confirmation lock, so an attempt accepted meanwhile is confirmed without waiting;
a tool call that waits for approval is sent with whatever login is stored by then,
where a refresh answers that the connection changed.

## Proofs

`UploadQueueProofs` proves, for every set of sessions, every `MaxVersion`,
`MaxFaults` and `Faults`, from the three assumptions on the constants:

| Theorem | Property |
|---|---|
| `Typed` | `TypeOK` |
| `Claims` | `ClaimIsAccepted` |
| `NewerPending` | `NewerChangesStayPending` |
| `UploadMatches` | `UploadMatchesBundle` |
| `Sound` | the inductive invariant `Inv`, from which the four follow |

`ClaimIsAccepted` is not inductive: `Complete` writes the revision of a copy
taken long before, and `Update` may store a copy older than a retry, a merge or a
policy. An invariant that relates the copy to its entry would have to say
which of them changed since, in every combination. `Inv` avoids that: *every
record of an entry, in the queue, in the batch or in the runner's hand, is sound
on its own* (`SoundIn`). Sound means: its versions are no newer than its
source, its revision is accepted and as new as what it calls synced, its upload
is the one of its bundle and attempt, and a bundle without a revision is as new
as the version it is captured for, unless its key was forgotten. The Hub's
acceptances only grow between two bindings, so a sound record stays sound while
it lies in a batch, and whatever `update` makes of two sound records is sound
again (`StoredGood`). `CopyInv` adds what each stage knows of the
copy: at `complete`, that its key was accepted. `Rebind` forgets the Hub and is
only taken between passes, where no copies exist.

The proof has a lemma per operation on records (`ClearedGood`, `MergedGood`,
`StoredGood`, ...), a lemma per action, and `NextInv` puts them together.

The second half of `UploadQueueProofs` proves, from the same assumptions, what a step may
do:

| Theorem | Property |
|---|---|
| `ConsentBeforeWrites` | `WritesNeedConsent` |
| `CopyMatchesAtWrites` | `WritesMatchQueue` |
| `ParkedUntilCause` | `ParkedNeedsCause` |
| `QueueKeepsPromise` | `KeepsPromise`: `Spec => Promise!Spec` |

`Inv` does not suffice: a sound copy may be one that was parked or left out
since. `SInv` adds two invariants. `Captured`: no bundle and no upload is newer than
its source, so what the Hub accepts is content the source had. `WorkInv`: an entry
whose copy waits in the batch or is in hand is not parked, and nobody else works
on it; a blocked entry is parked; after a refusal no pass works on entries; and from
the check of a copy until its upload is created (`Checked`) the copy matches its
entry and sync is not paused, because no check-in falls in between. `chunks` and
`finalize` check again themselves. `ParkedNeedsCause` follows for a pass because what
it stores goes over an entry that was not parked. For the refinement, only a
verified finalize and `HubAccepts` accept content (`UploadAccepted`); a step that
changes one entry makes no claim that `ClaimIsAccepted` after it does not back
(`OneClaim`); a step that changes many withdraws claims or keeps them
(`Withdraws`); `Rebind` is `Replace`.

`RemoteProofs` proves of `RemoteSources`, for every set of IDs and aliases, every
number of tasks and of mishaps:

| Theorem | Property |
|---|---|
| `RemoteTypes` | `RemoteTypeOK` |
| `SetupKeepsItsHost` | `SetupKeepsHost` |
| `ReadyHelperRecorded` | `ReadyIsRecorded` |
| `OnlyConfiguredStored` | `StoresConfigured` |
| `OnlyConfiguredShown` | `ShownIsConfigured` |
| `RemovalUndone` | `UncommittedKept` |

Beside the two invariants, `RInv` says that a task which is storing has the
configured host (`StoringConfigured`: who takes the host away waits for the cache),
that while a removed host's helper is uninstalled nothing live runs for it
(`RemovingIsQuiet`), and that without a host nothing is shown. With them a late or
superseded refresh can neither write nor publish.

`RemovalUndone` has two halves. However many failures there are, the cache of a host that
stays configured is in its place or recorded in the trash (`Recoverable`): only a sweep
takes anything out of the trash, and a sweep that fails at any of its files spares what
it can still put back (`SweepSpares`, `RecordStep`). That it is back in its place once
the program is up holds while there was one mishap at most, a condition on the
behaviour and not on the constants: only a mishap leaves anything in the trash, so
whoever finds something there met no other (`OneRemoval`), and the sweep at the next
start puts the source back before anything else runs (`BootSwept`). After two this
half is false, since the sweep itself may fail.

`SynthesisProofs` proves of `Synthesis`, for every set of sessions and every number
of slots, revisions, calls and troubles:

| Theorem | Property |
|---|---|
| `SynthTyped` | `SynthTypeOK` |
| `Rounds` | `RoundsComplete` |
| `Lost` | `LostIsSaid` |

Neither of the last two is inductive: whether a round is complete depends on where
its worker stands. The invariant says of every worker (`Accounted`) that the calls
without a finished row are the one under way, unless a row was lost or the round
has none, and (`Excused`) that a worker which may leave a call unrecorded has set
`accountingUnavailable`, or the store never opened. `RoundsComplete` follows because
`Close` closes only a round that lost no row, and `ClosesLeft` closes the others as
interrupted only; `LostIsSaid` because what makes a call
unrecorded is a stop of the program or an excused worker.

`HubLoginProofs` proves of `HubLogin`, for every set of processes and number of logins,
tokens and losses:

| Theorem | Property |
|---|---|
| `LoginTyped` | `LoginTypeOK` |
| `Newest` | `NewestStays` |
| `Replays` | `OnlyLossesReplay` |

The invariant has a part per command (`Fine`: what it holds at its stage), two logins
under way being different (`Apart`), the stored token being the newest of its login
unless one was lost or the next is being kept (`StoredFine`), and the history. The
lock is what makes it inductive: only its holder rotates, so between the load under
the lock and the store nobody else uses the token.

`UpdateProofs` proves of `UpdateHandoff`, for every set of attempts, any two
versions and every number of faults, in whichever of the processes the steps fall:

| Theorem | Property |
|---|---|
| `UpdateTypes` | `HandoffTypeOK` |
| `ForgottenWhenHeard` | `ClearedWhenHeard` |
| `RollbackRecorded` | `RollbackLeavesMark` |
| `ReporterTrusted` | `AcknowledgedHeard` |
| `SettlementStays` | `LegacyDoneKept` |

`UInv` strengthens each. For `ClearedWhenHeard`: what an answered request carried and
is final was heard (`Answered`), what was heard is closed (`HeardClosed`), and nobody
speaks of an attempt that was not issued (`Issued`); a reconciled answer then carried
the attempt's own outcome. For `AcknowledgedHeard`: until the Hub has heard it, the
failure that was there when the reporter woke is still there when it sends, and is
in what it sent (`ReporterFollows`). Two parts of the watcher could take it back,
preparation and a settlement, and `WatchInv` and `LegacyInv` say why neither does: only
a process of the old version prepares, where nothing else fails the attempt, and a
legacy attempt is not reported before its process stops. For `LegacyDoneKept`: once
anything in Local, on its way or at the Hub says done, the new version is installed and
no backup is left (`Kept`), because between its two checks the settlement holds the lock
that a helper needs to make one.

For `RollbackLeavesMark` the invariant forgets whether the attempt is confirmed
(`Marked`): a confirmation takes nothing back, so the record is there for any
attempt of the queue that is not failed. Two ways round had to be closed. A second
helper for the same attempt would overwrite the record with "ready", but only after
it has installed the new release (`HelperFiles`). And the attempt could have left the
queue and come back: then Hub received how it ended (`BegunHeard`), and as only a
check-in reports "done" and there is one at a time, an answer on its way delivers no
attempt that Hub heard to be done (`DoneOnce`); it was heard to have failed, which is
finding 7.

`CheckInProofs` proves of `CommandJournal`, for every set of retries and launches, every
limit of the journal and of reports and every number of faults:

| Theorem | Property |
|---|---|
| `JournalTyped` | `TypeOK` |
| `OnceOnly` | `AtMostOnce` |
| `OpenJournaled` | `OpenCommandsJournaled` |
| `DoneTrue` | `DoneIsTrue` |
| `FinalReport` | `ReportIsFinal` |

`JInv` follows a command through the journal. The one under way is open at the Hub,
was never reported and has the record of its stage (`CurFine`); so has what is still to
be taken from an answer, because no report falls between the answer and its last
command (`AnswerOpen`). A final result that was sent is closed at the Hub by the time
the answer is there (`SentClosed`), which is why acknowledging it loses nothing, and
the record says what was reported (`RecordsTrue`). Pruning keeps every record without
an acknowledged result, whatever the limit (`PrunedFacts`); that it keeps the order
needs lemmas on the cardinality of what precedes a record (`UpToCounts`, `KeptFacts`).

Of `SyncLoop`, for every number of policies and of failures, it proves:

| Theorem | Property |
|---|---|
| `LoopTyped` | `LoopTypeOK` |
| `NothingNoticedIsLost` | `NoticesServed` |

`NoticesServed` is the safety that the loop's liveness rests on. What the wait notices
reaches the loop through a channel of capacity one that a pass empties when it begins
and a block empties as well, while `notified` and `commandsPending` remember that the
loop was told. The invariant relates them: a pass that goes on after its check-in has
applied the newest policy the wait noticed and handled the commands it was woken for, or
a wake is there that will cancel it. Its proof needs that Local heard of no policy
which the owner did not set (`HeardOf`): the check-in, which applies the Hub's newest,
is then never behind the wait. A pass whose check-in failed is not covered. It has spent
the signal, and what comes next is a matter of liveness: an idle loop's timer, or a
blocked loop, which may be `Deaf` or `Overlooked`. No run checks `NoticesServed`.

`RunsJournalAndLoop` says that what the run `CommandJournal` explores are behaviours of the
journal (its fairness aside, which needs `ENABLED`) and of the loop, and `CheckInTyped`
(`TypesOK`) that their types hold in it.

`ServicesProofs` proves of `SyncLog`, for every set of sessions and codes, every batch and
number of lines and losses, and of the run `Services`:

| Theorem | Property |
|---|---|
| `LogTyped` | `SyncLogTypeOK` |
| `LogKept` | `LoggedIsKept` |
| `RunsEveryService` | `MCSpec` implies the specification of each service, fairness included |
| `ServicesTyped` | `TypesOK` |

`LogInv` says that numbers are unique and below the next one, and that a check-in that is out
carries the fact of every line up to the number it will acknowledge, unless the line is
too old; lines that come meanwhile have greater numbers. `RunsEveryService` justifies
checking four services in one run: `instance` and its bounds leave behaviours out and
add none, so what is proved of a service holds in the run. It supposes only that
the hosts the run names are among those the constants allow (`HostsGiven`).

`ConnectionProofs` proves of `HubConnection`, for every set of Hubs and every number of
credentials, clients and mishaps:

| Theorem | Property |
|---|---|
| `ConnectionTyped` | `ConnectionTypeOK` |
| `RebindsAloneHolds` | `RebindsAlone` |
| `ReplacementStaysHolds` | `ReplacementStays` |

`RebindsAlone` needs that a loop which is over has neither pass nor reporter
(`LoopAlone`). `ReplacementStays` is about two deletions one after the other: the
transport deletes what the request named, and the observer deletes what it read before
the pass. That both are the same credential unless another Hub was asked is `PassTold`:
while the credential the observer read is stored, a request to the loop's Hub was made
with it, since the Hub issues greater numbers only (`CredentialsIssued`).
`RunsQueueAndConnection` says that what the run `UploadQueuePair` explores are behaviours
of the queue and of the connection.

Only model-checked: liveness, which is beyond the prover (`EventuallySettled`,
`EveryCommandReported`, `PolicyIsNoticed`, `CommandsAreReported`, `AttemptCloses`,
`RefreshEnds`, `DetachedGoes`, `CatchesUp`, `LogEmpties`). Every invariant and every action
property of a passing run is a theorem. The invariants that are proved were checked by
TLC first, some in runs too long or too many to keep: those of `UpdateHandoff` with two
attempts and with two faults (9.7 and 1.6 million states), `UncommittedKept` with three
mishaps (3.1 million), `NoticesServed` with three policies and two failures (0.7 million).

## Not modelled

Of the modelled parts, what each section above names. Not modelled at all: the
import plan (which entries are due is left open in `UploadQueue`); chunk order, rate limits, delays and conditions, whose
effect is that an entry is due or not; vendor readers, discovery, HTTP transport,
launch, handoff, review, web and frontend: pure I/O, data formats or user
interface, with no protocol in them that a model would tell more about than a test.

## Plan

1. (done) `UploadQueue` with `HubCopy`; `CommandJournal`; the proofs of the
   queue's invariants.
2. (done) `UpdateAttempt`, `UpdateHandoff`; `SyncLog`; `RemoteSources`; `Synthesis`;
   `HubLogin`; `SyncLoop`; the proofs of `Synthesis`, `HubLogin` and `RemoteSources`;
   the steps of `UploadQueue` and its refinement of `HubCopy`, and the safety of
   `UpdateHandoff`, as theorems.
3. (done) `HubConnection` with its proofs; the proofs of `CommandJournal`, of `SyncLog`, of
   `RollbackLeavesMark` and of `UncommittedKept` for any number of mishaps; the safety of
   `SyncLoop`; the runs over several parts as behaviours of each part.
4. The queue file beside memory (failed saves in `merge`); the import plan's choice
   of due entries.
