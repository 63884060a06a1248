--------------------------- MODULE UpdateHandoff ---------------------------
(***************************************************************************)
(* Replacing the running executable: the process that prepares the new     *)
(* release and quits, the detached helper that swaps the files, starts the *)
(* new release and rolls back when nothing becomes ready, the processes    *)
(* that wait for the runtime lock, and the new process that asks whether   *)
(* the helper means to keep it.  Locks are files: a process that dies      *)
(* releases them.                                                          *)
(***************************************************************************)
EXTENDS UpdateAttempt

CONSTANTS MaxFaults    \* crashes, quits, losses, failed system calls, attempts Hub drops,
                       \* Hub downgrades and updates nobody asked for, in a run

ASSUME FaultAssumption == MaxFaults \in Nat

VARIABLES supervised,  \* launchd or systemd restarts Local; otherwise the helper does
          installed,   \* the version of the installed executable
          backup,      \* the ".previous" link to the old one exists
          staged,      \* the executable the helper was given is in place
          owner,       \* the process that holds runtime.lock
          waiters,     \* processes in waitForRuntimeLock
          watch,       \* its watchAutomaticUpdates
          confirm,     \* its waitForUpdateHandoff
          helper,      \* the process running update-apply
          outcome,     \* update-results/<attempt>
          restorer,    \* history: the attempt whose helper rolled back last, unless it
                       \* died before it recorded that
          faults       \* faults so far

handoffVars == <<installed, backup, staged, owner, waiters, watch, confirm, helper, outcome>>
vars == <<legacy, supervised, attemptVars, handoffVars, restorer, faults>>

Versions == {Old, New}
OwnerPhases == {"down", "starting", "ready", "stopping"}
NoOwner == [phase |-> "down", ver |-> Old, restart |-> FALSE]
NoWatch == [phase |-> "idle", id |-> NoId]
NoHelper == [phase |-> "none", id |-> NoId]

HandoffTypeOK ==
  /\ AttemptTypeOK
  /\ supervised \in BOOLEAN
  /\ installed \in Versions
  /\ backup \in BOOLEAN
  /\ staged \in BOOLEAN
  /\ owner \in [phase: OwnerPhases, ver: Versions, restart: BOOLEAN]
  /\ waiters \subseteq [ver: Versions, saw: BOOLEAN]
  /\ watch \in [phase: {"idle", "preparing", "launching", "checked", "retired"}, id: Ids \cup {NoId}]
  /\ confirm \in [phase: {"off", "reading", "locking"}, id: Ids \cup {NoId}]
  /\ helper \in [phase: {"none", "claimed", "alone", "watching", "ready", "late", "restored"},
                 id: Ids \cup {NoId}]
  /\ outcome \in [Ids -> {"none", "failed", "ready"}]
  /\ restorer \in Ids \cup {NoId}
  /\ faults \in 0..MaxFaults

Init ==
  /\ AttemptInit
  /\ supervised \in BOOLEAN
  /\ installed = Old
  /\ backup = FALSE
  /\ staged = FALSE
  /\ owner = [phase |-> "ready", ver |-> Old, restart |-> FALSE]
  /\ waiters = {}
  /\ watch = NoWatch
  /\ confirm = [phase |-> "off", id |-> NoId]
  /\ helper = NoHelper
  /\ outcome = [i \in Ids |-> "none"]
  /\ restorer = NoId
  /\ faults = 0

----------------------------------------------------------------------------
(* Locks. *)

Ready == owner.phase = "ready"
Running(ver) == Ready /\ owner.ver = ver
\* runtimeOwnerActive: the runtime lock and the readiness lock are both held.
RuntimeOwnerActive == owner.phase \in {"ready", "stopping"}
\* update.lock: the helper until it has swapped the files, or a settlement.
UpdateInProgress == helper.phase \in {"claimed", "alone"} \/ watch.phase \in {"checked", "retired"}
\* update-confirm.lock: the helper of an attempt, for as long as it lives.
ConfirmationHeld == helper.phase # "none" /\ helper.id # NoId

\* A release that predates attempts neither reports nor settles them.
Knows == ~(legacy /\ owner.ver = Old)

Fault == faults < MaxFaults /\ faults' = faults + 1

----------------------------------------------------------------------------
(* Processes. *)

\* main takes the runtime lock if it is free, whatever update.lock says, and
\* otherwise waits for it.  Of several that wait the model keeps any one.
StartProcess(ver) ==
  IF owner.phase = "down"
  THEN owner' = [phase |-> "starting", ver |-> ver, restart |-> FALSE] /\ UNCHANGED waiters
  ELSE waiters' \in {{[ver |-> ver, saw |-> FALSE]}} \cup ({waiters} \ {{}}) /\ UNCHANGED owner

\* The helper starts Local itself only where nothing supervises it.
StartUnsupervised(ver) ==
  IF supervised THEN UNCHANGED <<owner, waiters>> ELSE StartProcess(ver)

\* The supervisor (launchd KeepAlive, systemd Restart=always) or the user.
Supervise ==
  /\ owner.phase = "down"
  /\ StartProcess(installed)
  /\ UNCHANGED <<attemptVars, installed, backup, staged, watch, confirm, helper, outcome, faults>>

\* A round of waitForRuntimeLock: remember an update, run the executable that
\* replaced one's own, or take the lock.
WaitRound(w) ==
  LET stale == w.saw /\ installed # w.ver
      becomes(next) == waiters' = (waiters \ {w}) \cup next
  IN  /\ \/ UpdateInProgress /\ becomes({[w EXCEPT !.saw = TRUE]}) /\ UNCHANGED owner
         \/ ~UpdateInProgress /\ stale /\ becomes({[ver |-> installed, saw |-> FALSE]})
            /\ UNCHANGED owner
         \/ /\ ~UpdateInProgress /\ ~stale /\ owner.phase = "down"
            /\ becomes({})
            /\ owner' = [phase |-> "starting", ver |-> w.ver, restart |-> FALSE]
      /\ UNCHANGED <<attemptVars, installed, backup, staged, watch, confirm, helper, outcome, faults>>

\* The runtime is ready: the loop, the watcher and waitForUpdateHandoff start.
\* A release that predates attempts drops the field when it saves the queue.
BecomeReady ==
  /\ owner.phase = "starting"
  /\ owner' = [owner EXCEPT !.phase = "ready"]
  /\ watch' = NoWatch
  /\ confirm' = [phase |-> "reading", id |-> NoId]
  /\ attempt' = IF Knows THEN attempt ELSE NoAttempt
  /\ UNCHANGED <<journal, hub, heard, aware, checkIn, report, wake, acknowledged,
                 installed, backup, staged, waiters, helper, outcome, faults>>

Stopping(restart) == owner' = [owner EXCEPT !.phase = "stopping", !.restart = restart]

\* The user quits the app.
Quit ==
  /\ Ready
  /\ watch.phase = "idle"
  /\ Fault
  /\ Stopping(FALSE)
  /\ UNCHANGED <<attemptVars, installed, backup, staged, waiters, watch, confirm, helper, outcome>>

\* controller.Stop cancels the loop and waits for the reporter's flush.
StopLoop ==
  /\ owner.phase = "stopping"
  /\ ReporterStops
  /\ UNCHANGED <<handoffVars, faults>>

\* The process ends; after a legacy rollback it starts what is installed.
Exit ==
  /\ owner.phase = "stopping"
  /\ report.phase = "over"
  /\ ForgetRequests
  /\ owner' = IF owner.restart THEN [phase |-> "starting", ver |-> installed, restart |-> FALSE]
              ELSE NoOwner
  /\ watch' = NoWatch
  /\ confirm' = [phase |-> "off", id |-> NoId]
  /\ UNCHANGED <<attempt, journal, hub, heard, aware, installed, backup, staged, waiters,
                 helper, outcome, faults>>

Crash ==
  /\ owner.phase # "down"
  /\ Fault
  /\ ForgetRequests
  /\ owner' = NoOwner
  /\ watch' = NoWatch
  /\ confirm' = [phase |-> "off", id |-> NoId]
  /\ UNCHANGED <<attempt, journal, hub, heard, aware, installed, backup, staged, waiters,
                 helper, outcome>>

----------------------------------------------------------------------------
(* watchAutomaticUpdates. *)

Watching == Ready /\ watch.phase = "idle"
Reported(id) == SetUpdateStage(id, "failed") /\ SignalUpdate

ConsumeFailure ==
  /\ Watching
  /\ Knows
  /\ Pending
  /\ outcome[attempt.id] = "failed"
  /\ Reported(attempt.id)
  /\ outcome' = [outcome EXCEPT ![attempt.id] = "none"]
  /\ UNCHANGED <<journal, hub, heard, aware, checkIn, report, acknowledged, installed, backup,
                 staged, owner, waiters, watch, confirm, helper, faults>>

\* The attempt's target is newer than the running version: prepare it, or fail
\* it where this installation cannot be replaced.
PrepareAttempt ==
  /\ Watching
  /\ Knows
  /\ ~legacy /\ Pending /\ attempt.stage # "failed" /\ owner.ver < New
  /\ outcome[attempt.id] # "failed"  \* it would have been consumed first
  /\ \/ /\ Reported(attempt.id)
        /\ UNCHANGED watch
     \/ /\ IF attempt.stage = "picked_up"
           THEN SetUpdateStage(attempt.id, "preparing") /\ SignalUpdate
           ELSE UNCHANGED <<attempt, wake>>
        /\ watch' = [phase |-> "preparing", id |-> attempt.id]
  /\ UNCHANGED <<journal, hub, heard, aware, checkIn, report, acknowledged, installed, backup,
                 staged, owner, waiters, confirm, helper, outcome, faults>>

\* An automatic update, without an attempt.
PrepareRecommended ==
  /\ Watching
  /\ ~(Knows /\ Pending) /\ owner.ver < New
  /\ IF legacy THEN UNCHANGED faults ELSE Fault
  /\ watch' = [phase |-> "preparing", id |-> NoId]
  /\ UNCHANGED <<attemptVars, installed, backup, staged, owner, waiters, confirm, helper,
                 outcome>>

WatchFails ==
  /\ IF watch.id = NoId THEN UNCHANGED <<attempt, wake>> ELSE Reported(watch.id)
  /\ watch' = NoWatch

Prepared ==
  /\ Ready
  /\ watch.phase = "preparing"
  /\ \/ WatchFails
     \/ /\ watch.id = NoId \/ (Pending /\ attempt.id = watch.id)
        /\ IF watch.id = NoId THEN UNCHANGED attempt ELSE SetUpdateStage(watch.id, "finalizing")
        /\ watch' = [watch EXCEPT !.phase = "launching"]
        /\ UNCHANGED wake
  /\ UNCHANGED <<journal, hub, heard, aware, checkIn, report, acknowledged, installed, backup,
                 staged, owner, waiters, confirm, helper, outcome, faults>>

\* launchUpdateHelper: the helper takes its locks, compares the versions and
\* reports that it is ready, in time or too late for the process that waits,
\* which then removes the executable it downloaded for this helper.
HelperClaims ==
  /\ helper.phase = "none"
  /\ installed < New
  /\ helper' = [phase |-> "claimed", id |-> watch.id]

Launch ==
  /\ Ready
  /\ watch.phase = "launching"
  /\ \/ HelperClaims /\ staged' = TRUE /\ Stopping(FALSE) /\ UNCHANGED <<attempt, wake, watch>>
     \/ HelperClaims /\ staged' = FALSE /\ WatchFails /\ UNCHANGED owner
     \/ WatchFails /\ UNCHANGED <<helper, staged, owner>>
  /\ UNCHANGED <<journal, hub, heard, aware, checkIn, report, acknowledged, installed, backup,
                 waiters, confirm, outcome, faults>>

\* settleLegacyInstallation holds update.lock over its three steps: compare
\* the installed version with one's own, retire the backup, compare again.
\* A difference means that the helper rolled back.
RolledBack ==
  /\ Reported(watch'.id)
  /\ Stopping(TRUE)

SettleCheck ==
  /\ Watching
  /\ Knows
  /\ legacy /\ Pending /\ ~attempt.handoff
  /\ ~UpdateInProgress
  /\ \/ installed = owner.ver
        /\ watch' = [phase |-> "checked", id |-> attempt.id]
        /\ UNCHANGED <<attempt, wake, owner>>
     \/ installed # owner.ver
        /\ watch' = [phase |-> "idle", id |-> attempt.id]
        /\ RolledBack
  /\ UNCHANGED <<journal, hub, heard, aware, checkIn, report, acknowledged, installed, backup,
                 staged, waiters, confirm, helper, outcome, faults>>

RetireLegacyBackup ==
  /\ Ready
  /\ watch.phase = "checked"
  /\ backup' = FALSE
  /\ watch' = [watch EXCEPT !.phase = "retired"]
  /\ UNCHANGED <<attemptVars, installed, staged, owner, waiters, confirm, helper, outcome, faults>>

\* Mutant of SettleRecheck: retiring the backup is taken to settle the race.
SettleUnchecked ==
  /\ Ready
  /\ watch.phase = "retired"
  /\ watch' = [watch EXCEPT !.phase = "idle"]
  /\ ConfirmUpdateHandoff(watch.id)
  /\ UNCHANGED <<journal, hub, heard, aware, checkIn, report, wake, acknowledged, installed,
                 backup, staged, owner, waiters, confirm, helper, outcome, faults>>

SettleRecheck ==
  /\ Ready
  /\ watch.phase = "retired"
  /\ watch' = [watch EXCEPT !.phase = "idle"]
  /\ IF installed = owner.ver
     THEN ConfirmUpdateHandoff(watch.id) /\ UNCHANGED <<wake, owner>>
     ELSE RolledBack
  /\ UNCHANGED <<journal, hub, heard, aware, checkIn, report, acknowledged, installed, backup,
                 staged, waiters, confirm, helper, outcome, faults>>

----------------------------------------------------------------------------
(* waitForUpdateHandoff, a round in two steps: read the helper's marker, then *)
(* try its lock.                                                              *)

Confirms == Knows /\ Pending /\ ~legacy /\ attempt.stage # "failed"
            /\ owner.ver = New /\ ~attempt.handoff

ConfirmRead ==
  /\ Ready
  /\ confirm.phase = "reading"
  /\ IF ~Confirms
     THEN confirm' = [phase |-> "off", id |-> NoId] /\ UNCHANGED <<attempt, outcome>>
     ELSE IF outcome[attempt.id] = "none"
     THEN confirm' = [phase |-> "locking", id |-> attempt.id] /\ UNCHANGED <<attempt, outcome>>
     ELSE /\ IF outcome[attempt.id] = "failed" THEN SetUpdateStage(attempt.id, "failed")
             ELSE ConfirmUpdateHandoff(attempt.id)
          /\ outcome' = [outcome EXCEPT ![attempt.id] = "none"]
          /\ confirm' = [phase |-> "off", id |-> NoId]
  /\ UNCHANGED <<journal, hub, heard, aware, checkIn, report, wake, acknowledged, installed,
                 backup, staged, owner, waiters, watch, helper, faults>>

ConfirmLock ==
  /\ Ready
  /\ confirm.phase = "locking"
  /\ IF ConfirmationHeld
     THEN confirm' = [phase |-> "reading", id |-> NoId] /\ UNCHANGED attempt
     ELSE confirm' = [phase |-> "off", id |-> NoId] /\ ConfirmUpdateHandoff(confirm.id)
  /\ UNCHANGED <<journal, hub, heard, aware, checkIn, report, wake, acknowledged, installed,
                 backup, staged, owner, waiters, watch, helper, outcome, faults>>

----------------------------------------------------------------------------
(* runUpdateApply. *)

\* Mutant of UpdateFailure: a word the watcher does not know.
UpdateFailureMisspelt == outcome' = IF helper.id = NoId THEN outcome
                                    ELSE [outcome EXCEPT ![helper.id] = "fail"]

UpdateFailure == outcome' = IF helper.id = NoId THEN outcome
                            ELSE [outcome EXCEPT ![helper.id] = "failed"]

HelperEnds == helper' = NoHelper /\ staged' = FALSE

\* The process that launched the helper is gone.
HelperAlone ==
  /\ helper.phase = "claimed"
  /\ ~RuntimeOwnerActive
  /\ helper' = [helper EXCEPT !.phase = "alone"]
  /\ UNCHANGED <<attemptVars, installed, backup, staged, owner, waiters, watch, confirm,
                 outcome, faults>>

\* It is still there after a minute.  A process that has begun to stop is
\* taken to be gone by then: it gives its handlers fifteen seconds.
HelperGivesUp ==
  /\ helper.phase = "claimed"
  /\ Ready
  /\ UpdateFailure
  /\ HelperEnds
  /\ UNCHANGED <<attemptVars, installed, backup, owner, waiters, watch, confirm, faults>>

\* Link the backup, rename the staged executable, release update.lock and
\* start the new release.
HelperReplaces ==
  /\ helper.phase = "alone"
  /\ staged /\ installed < New
  /\ backup' = TRUE
  /\ installed' = New
  /\ staged' = FALSE
  /\ helper' = [helper EXCEPT !.phase = "watching"]
  /\ StartUnsupervised(New)
  /\ UNCHANGED <<attemptVars, watch, confirm, outcome, faults>>

\* The staged executable is gone or not newer, or the swap fails: record it
\* and start what is installed.  The last system call of the swap may fail
\* after the rename.
HelperRefuses ==
  /\ helper.phase = "alone"
  /\ \/ ~(staged /\ installed < New) /\ UNCHANGED <<installed, backup, faults>>
     \/ staged /\ Fault /\ UNCHANGED <<installed, backup>>
     \/ staged /\ Fault /\ installed < New /\ installed' = New /\ backup' = TRUE
  /\ UpdateFailure
  /\ HelperEnds
  /\ StartUnsupervised(installed')
  /\ UNCHANGED <<attemptVars, watch, confirm>>

\* Something became ready within thirty seconds: mark it and drop the backup.
HelperSeesReady ==
  /\ helper.phase = "watching"
  /\ RuntimeOwnerActive
  /\ \/ /\ outcome' = IF helper.id = NoId THEN outcome
                      ELSE [outcome EXCEPT ![helper.id] = "ready"]
        /\ helper' = [helper EXCEPT !.phase = "ready"]
        /\ UNCHANGED faults
     \/ helper.id # NoId /\ Fault /\ helper' = NoHelper /\ UNCHANGED outcome
  /\ UNCHANGED <<attemptVars, installed, backup, staged, owner, waiters, watch, confirm>>

HelperKeeps ==
  /\ helper.phase = "ready"
  /\ backup' = FALSE
  /\ HelperEnds
  /\ UNCHANGED <<attemptVars, installed, owner, waiters, watch, confirm, outcome, faults>>

\* Nothing did: the decision to roll back, the rollback, its record.
HelperDecides ==
  /\ helper.phase = "watching"
  /\ ~RuntimeOwnerActive
  /\ helper' = [helper EXCEPT !.phase = "late"]
  /\ UNCHANGED <<attemptVars, installed, backup, staged, owner, waiters, watch, confirm,
                 outcome, faults>>

\* The rename of the backup fails when the backup is gone.
HelperRestores ==
  /\ helper.phase = "late"
  /\ IF backup
     THEN /\ installed' = Old
          /\ backup' = FALSE
          /\ helper' = [helper EXCEPT !.phase = "restored"]
          /\ UNCHANGED <<outcome, staged>>
     ELSE /\ UpdateFailure
          /\ HelperEnds
          /\ UNCHANGED <<installed, backup>>
  /\ UNCHANGED <<attemptVars, owner, waiters, watch, confirm, faults>>

\* Mutant of HelperRecords: the rollback is not recorded.
HelperRestarts ==
  /\ helper.phase = "restored"
  /\ HelperEnds
  /\ StartUnsupervised(installed)
  /\ UNCHANGED <<attemptVars, installed, backup, watch, confirm, outcome, faults>>

HelperRecords ==
  /\ helper.phase = "restored"
  /\ UpdateFailure
  /\ HelperEnds
  /\ StartUnsupervised(installed)
  /\ UNCHANGED <<attemptVars, installed, backup, watch, confirm, faults>>

\* The new release could not be started at all.
HelperCannotStart ==
  /\ helper.phase = "watching"
  /\ Fault
  /\ UpdateFailure
  /\ helper' = [helper EXCEPT !.phase = "late"]
  /\ UNCHANGED <<attemptVars, installed, backup, staged, owner, waiters, watch, confirm>>

HelperDies ==
  /\ helper.phase # "none"
  /\ Fault
  /\ helper' = NoHelper
  /\ UNCHANGED <<attemptVars, installed, backup, staged, owner, waiters, watch, confirm, outcome>>

----------------------------------------------------------------------------
(* The steps of UpdateAttempt, taken by the process that is ready. *)

ByOwner(action) == Ready /\ Knows /\ action /\ UNCHANGED <<handoffVars, faults>>

CheckInStep ==
  \/ ByOwner(CheckInSend) \/ ByOwner(CheckInApplies(owner.ver))
CheckInAnswer == CheckInArrives /\ UNCHANGED <<handoffVars, faults>>

\* A reporter that stops sends from a process that is stopping.
ReporterStep ==
  /\ owner.phase \in {"ready", "stopping"} /\ Knows
  /\ ReporterWakes \/ ReporterSends \/ ReporterReconciles(owner.ver)
  /\ UNCHANGED <<handoffVars, faults>>
ReportAnswer == ReportArrives /\ UNCHANGED <<handoffVars, faults>>

\* A Hub without the route always fails the report.
ReportRefused == ReportFails /\ (IF aware THEN Fault ELSE UNCHANGED faults) /\ UNCHANGED handoffVars
Lost == CheckInLost /\ Fault /\ UNCHANGED handoffVars

HubIssues == (\E id \in Ids : HubIssue(id)) /\ UNCHANGED <<handoffVars, faults>>
HubDrops == (\E id \in Ids : HubDrop(id)) /\ Fault /\ UNCHANGED handoffVars
HubUpgrade == HubVersion(TRUE) /\ UNCHANGED <<handoffVars, faults>>
HubDowngrade == HubVersion(FALSE) /\ Fault /\ UNCHANGED handoffVars

HelperStep ==
  \/ HelperAlone \/ HelperGivesUp \/ HelperReplaces \/ HelperRefuses \/ HelperSeesReady
  \/ HelperKeeps \/ HelperDecides \/ HelperRestores \/ HelperRecords
WatchStep ==
  \/ ConsumeFailure \/ PrepareAttempt \/ Prepared \/ Launch
  \/ SettleCheck \/ RetireLegacyBackup \/ SettleRecheck
ConfirmStep == ConfirmRead \/ ConfirmLock
ProcessStep == BecomeReady \/ StopLoop \/ Exit \/ \E w \in waiters : WaitRound(w)

Step ==
  \/ CheckInStep \/ CheckInAnswer \/ ReporterStep \/ ReportAnswer \/ ReportRefused \/ Lost
     \/ HubIssues \/ HubDrops \/ HubUpgrade \/ HubDowngrade
     \/ HelperStep \/ HelperCannotStart \/ HelperDies
     \/ WatchStep \/ PrepareRecommended \/ ConfirmStep \/ ProcessStep
     \/ Supervise \/ Quit \/ Crash

\* History: who rolled back.  Only a helper that dies ends a rollback with a fault.
Restorer ==
  IF helper.phase = "late" /\ helper'.phase = "restored" THEN helper.id
  ELSE IF helper.phase = "restored" /\ helper'.phase = "none" /\ faults' # faults THEN NoId
  ELSE restorer

History == restorer' = Restorer /\ UNCHANGED <<legacy, supervised>>

Next == Step /\ History

Spec == Init /\ [][Next]_vars

\* The goroutines' tickers and selects, the helper's deadlines and the wait for
\* the lock make these steps eventually; nothing makes Hub issue or drop an
\* attempt, the user quit or start Local, or a call fail.
Fairness ==
  /\ WF_vars(CheckInStep /\ History) /\ WF_vars(CheckInAnswer /\ History)
  /\ WF_vars(ReporterStep /\ History) /\ WF_vars((ReportAnswer \/ ReportRefused) /\ History)
  /\ WF_vars(HelperStep /\ History) /\ WF_vars(WatchStep /\ History) /\ WF_vars(ConfirmStep /\ History)
  /\ WF_vars((BecomeReady \/ StopLoop \/ Exit) /\ History)
  /\ WF_vars((\E w \in waiters : WaitRound(w)) /\ History)
  /\ WF_vars(supervised /\ Supervise /\ History)

FairSpec == Spec /\ Fairness

----------------------------------------------------------------------------
(* Properties. *)

\* The queue lets go of an attempt only when Hub received its outcome and has
\* closed it: until then every lost answer is made up for by the next report.
\* A release that predates attempts drops the attempt unreported.
ClearedWhenHeard ==
  [][Pending /\ attempt'.id # attempt.id
     => \/ Receipt(attempt.id, AttemptResult) \in heard /\ hub[attempt.id] # "open"
        \/ owner.phase = "starting" /\ owner'.phase = "ready" /\ ~Knows]_vars

\* The failure the reporter takes to be acknowledged, and therefore does not
\* flush when it stops, is one that Hub received.
AcknowledgedHeard == acknowledged # NoId => Receipt(acknowledged, "failed") \in heard

\* Once an update by an old helper is confirmed to Hub, nothing rolls it back:
\* the settlement's two version checks around retiring the backup win the race
\* with the helper's rename, or notice that they lost it.
LegacyDoneKept ==
  legacy /\ (attempt.handoff \/ \E i \in Ids : hub[i] = "done") => installed = New

\* An attempt confirmed although its own helper rolled the installation back
\* does not stay so: the helper's record of the failure is there for the process
\* that watches, unless the helper died before it wrote one or Hub has already
\* received that the attempt failed.
RollbackLeavesMark ==
  LET completed == Pending /\ attempt.handoff /\ attempt.stage # "failed"
  IN  /\ ~legacy /\ completed /\ installed = Old /\ restorer = attempt.id
      /\ Receipt(attempt.id, "failed") \notin heard
      => outcome[attempt.id] = "failed" \/ helper.phase = "restored"

\* What syncv4/README.md says: completion is reported only after the helper
\* has committed to keeping the target, or has exited without a rollback.
DoneKept == \A i \in Ids : hub[i] = "done" => installed = New

\* Every attempt is closed: reported to Hub and forgotten, whatever the helper,
\* the supervisor and the reporter do.  Hub must know about update completion,
\* and after a fault an unsupervised Local may stay down until the user starts it.
AttemptCloses ==
  Pending ~> (~Pending \/ ~aware \/ (owner.phase = "down" /\ ~supervised /\ faults > 0))

=============================================================================
