--------------------------- MODULE RemoteSources ---------------------------
(***************************************************************************)
(* The remote source: one SSH host whose sessions Local shows.  Its        *)
(* settings come from the settings page and from Hub, its cache is written *)
(* by refreshes that run in the background and cannot be recalled, its     *)
(* helper is looked for, installed and updated meanwhile, and a cache that *)
(* goes is first renamed, so that a removal that was not committed can be  *)
(* taken back.  Two locks: the manager's, which every action below that    *)
(* reads or writes its fields holds, and the cache's, which a refresh that *)
(* writes, a removal and a sweep hold.                                     *)
(***************************************************************************)
EXTENDS Naturals, FiniteSets

CONSTANTS Ids,          \* the source IDs a host may have
          Aliases,      \* SSH aliases
          NoId, NoAlias,
          PageHosts,    \* the configurations of an SSH host the settings page saves,
          HubHosts,     \* those Hub asks for: ID, alias, enabled
          MaxTasks,     \* background refreshes and discoveries under way, superseded ones included
          MaxMishaps    \* crashes and failed file operations in a run

ASSUME NameAssumption == NoId \notin Ids /\ NoAlias \notin Aliases
ASSUME HostAssumption == 
  /\ PageHosts \cup HubHosts \subseteq [id: Ids, alias: Aliases, on: BOOLEAN]
  /\ \A h \in HubHosts : h.on
ASSUME MishapAssumption == MaxTasks \in Nat /\ MaxMishaps \in Nat

VARIABLES saved,        \* the remote of settings.json
          cfg,          \* Manager.cfg
          life,         \* Manager.lifeCtx is set
          shown,        \* the alias whose sessions Manager.snapshot holds
          refreshing,   \* Manager.refreshing
          owned,        \* Manager.helperVersion is set
          probe,        \* Manager.helperProbe
          auto,         \* Manager.helperAutoSetup
          setup,        \* Manager.helperSetup, and what sets it
          tasks,        \* the goroutines runRefresh and runHelperDiscovery
          dirs,         \* remotes/<id>: the alias of its snapshot and of its helper.json
          trash,        \* remotes/.removed-*: renamed sources and their records
          save,         \* handleSaveSettings
          program,      \* down, booting or up
          mishaps       \* so far

managerVars == <<cfg, life, shown, refreshing, owned, probe, auto>>
remoteVars == <<saved, managerVars, setup, tasks, dirs, trash, save, program, mishaps>>

NoHost == [id |-> NoId, alias |-> NoAlias, on |-> FALSE]
Hosts == PageHosts \cup HubHosts
Remotes == Hosts \cup {NoHost}

Names == Aliases \cup {NoAlias}
Dirs == [data: Names, helper: Names]
NoDir == [data |-> NoAlias, helper |-> NoAlias]
Removed == [id: Ids, prev: Names, kept: Dirs]
Tasks == [kind: {"refresh", "discovery"}, host: Hosts, live: BOOLEAN,
          phase: {"running", "storing", "stored", "failed"}, auto: BOOLEAN]
NoSetup == [phase |-> "none", host |-> NoHost]
NoSave == [phase |-> "none", next |-> NoHost, previous |-> NoHost, action |-> FALSE]

RemoteTypeOK ==
  /\ saved \in Remotes
  /\ cfg \in Remotes
  /\ life \in BOOLEAN /\ refreshing \in BOOLEAN /\ owned \in BOOLEAN /\ auto \in BOOLEAN
  /\ shown \in Names
  /\ probe \in {"unknown", "probing", "ready", "fallback"}
  /\ setup \in [phase: {"none", "installing", "removing"}, host: Remotes]
  /\ tasks \subseteq Tasks
  /\ dirs \in [Ids -> Dirs]
  /\ trash \subseteq Removed
  /\ save \in [phase: {"none", "valid", "written"}, next: Remotes, previous: Remotes,
               action: BOOLEAN]
  /\ program \in {"down", "booting", "up"}
  /\ mishaps \in 0..MaxMishaps

RemoteInit ==
  /\ saved = NoHost
  /\ cfg = NoHost
  /\ life = FALSE
  /\ shown = NoAlias
  /\ refreshing = FALSE
  /\ owned = FALSE
  /\ probe = "fallback"
  /\ auto = FALSE
  /\ setup = NoSetup
  /\ tasks = {}
  /\ dirs = [i \in Ids |-> NoDir]
  /\ trash = {}
  /\ save = NoSave
  /\ program = "up"
  /\ mishaps = 0

----------------------------------------------------------------------------
(* Locks, lives, comparisons. *)

Up == program = "up"
Mishap == mishaps < MaxMishaps /\ mishaps' = mishaps + 1
CacheFree == \A t \in tasks : t.phase # "storing"

TargetChanged(a, b) == a.id # b.id \/ a.alias # b.alias
SettingUp == setup.phase # "none"
Removing == setup.phase = "removing"

Cancelled(ts) == {[t EXCEPT !.live = FALSE] : t \in ts}
NewTask(kind, host, isAuto) ==
  [kind |-> kind, host |-> host, live |-> TRUE, phase |-> "running", auto |-> isAuto]

\* refreshIsCurrentLocked.
Current(t) == t.live /\ cfg.on /\ ~TargetChanged(cfg, t.host)

----------------------------------------------------------------------------
(* removeSourceWithCommit: rename the source beside its record, commit,      *)
(* delete.  Cleaning up may fail, and the program may stop on either side of *)
(* the commit.                                                               *)

Record(id, prev) == [id |-> id, prev |-> prev, kept |-> dirs[id]]
Detached(id) == [dirs EXCEPT ![id] = NoDir]
There(id) == dirs[id] # NoDir
Recorded(id, prev) == IF There(id) THEN trash \cup {Record(id, prev)} ELSE trash

RemoveClean(id) == dirs' = Detached(id) /\ UNCHANGED <<trash, mishaps>>
RemoveDirty(id, prev) ==
  There(id) /\ Mishap /\ dirs' = Detached(id) /\ trash' = Recorded(id, prev)
RemoveSource(id, prev) == CacheFree /\ (RemoveClean(id) \/ RemoveDirty(id, prev))

\* What a process that stops leaves.
Stops ==
  /\ cfg' = NoHost /\ life' = FALSE /\ shown' = NoAlias /\ refreshing' = FALSE
  /\ owned' = FALSE /\ probe' = "fallback" /\ auto' = FALSE
  /\ setup' = NoSetup /\ tasks' = {} /\ save' = NoSave
  /\ program' = "down"

\* The program stops after the rename, before or after the commit.
StopsInRemoval(id, prev, next) ==
  /\ CacheFree
  /\ There(id)
  /\ Mishap
  /\ dirs' = Detached(id)
  /\ trash' = Recorded(id, prev)
  /\ saved' \in {saved, next}
  /\ Stops

Crash ==
  /\ program # "down"
  /\ Mishap
  /\ Stops
  /\ UNCHANGED <<saved, dirs, trash>>

----------------------------------------------------------------------------
(* applySettings. *)

\* validateSettingsLocked.
Valid(next) ==
  /\ ~Removing
  /\ SettingUp => ~TargetChanged(cfg, next)
  /\ IF next = NoHost THEN ~owned
     ELSE /\ dirs[next.id].helper \in {NoAlias, next.alias}
          /\ cfg # NoHost /\ cfg.id # next.id => ~owned

\* clearRemoteLocked.
Cleared ==
  /\ cfg' = NoHost /\ life' = FALSE /\ shown' = NoAlias /\ refreshing' = FALSE
  /\ owned' = FALSE /\ probe' = "fallback"
  /\ tasks' = Cancelled(tasks)

\* Mutant of Restarts: the alias under the same ID is not compared.
RestartsById(next) == cfg = NoHost \/ ~cfg.on \/ cfg.id # next.id

Restarts(next) == cfg = NoHost \/ ~cfg.on \/ TargetChanged(cfg, next)

\* A source whose alias changes under its ID keeps nothing of the old host.
View(next) == IF cfg # NoHost /\ cfg.id = next.id /\ cfg.alias # next.alias THEN NoAlias
              ELSE dirs[next.id].data

\* Mutant of Installed: the flag of a refresh that is cancelled stays.
InstalledKeeping(next, ownership) ==
  /\ cfg' = next
  /\ owned' = ownership
  /\ UNCHANGED refreshing
  /\ IF ~next.on
     THEN life' = FALSE /\ tasks' = Cancelled(tasks) /\ UNCHANGED <<shown, probe>>
     ELSE IF Restarts(next)
     THEN life' = TRUE /\ tasks' = Cancelled(tasks) /\ shown' = View(next) /\ probe' = "unknown"
     ELSE UNCHANGED <<life, tasks, shown, probe>>

\* The last part: the new configuration, and a new life unless nothing changed.
Installed(next, ownership) ==
  /\ cfg' = next
  /\ owned' = ownership
  /\ IF ~next.on
     THEN /\ life' = FALSE /\ refreshing' = FALSE /\ tasks' = Cancelled(tasks)
          /\ IF cfg.id = next.id THEN UNCHANGED <<shown, probe>>
             ELSE shown' = NoAlias /\ probe' = "fallback"
     ELSE IF Restarts(next)
     THEN /\ life' = TRUE /\ refreshing' = FALSE /\ tasks' = Cancelled(tasks)
          /\ shown' = View(next) /\ probe' = "unknown"
     ELSE UNCHANGED <<life, refreshing, tasks, shown, probe>>

\* What ApplySettings removes: the source of another ID, and, where the alias
\* changed, the source of the new one.
Obsolete(next) ==
  {i \in Ids : cfg # NoHost /\ \/ i = cfg.id /\ cfg.id # next.id
                               \/ i = next.id /\ cfg.alias # next.alias}

\* ApplySettings of the settings page and of main.
Apply(next) ==
  /\ Valid(next)
  /\ \/ next = NoHost /\ cfg = NoHost /\ Cleared /\ UNCHANGED <<dirs, trash, mishaps>>
     \/ next = NoHost /\ cfg # NoHost /\ RemoveSource(cfg.id, NoAlias) /\ Cleared
     \/ /\ next # NoHost
        /\ Installed(next, dirs[next.id].helper # NoAlias)
        /\ IF Obsolete(next) = {} THEN UNCHANGED <<dirs, trash, mishaps>>
           ELSE /\ CacheFree
                /\ dirs' = [i \in Ids |-> IF i \in Obsolete(next) THEN NoDir ELSE dirs[i]]
                /\ \/ UNCHANGED <<trash, mishaps>>
                   \/ Mishap /\ \E i \in Obsolete(next) :
                                   There(i) /\ trash' = trash \cup {Record(i, NoAlias)}
  /\ UNCHANGED <<auto, setup>>

\* A file operation fails: before anything changed, or after the source of the
\* other ID went.
ApplyFails(next) ==
  /\ CacheFree
  /\ Mishap
  /\ UNCHANGED <<auto, setup, trash>>
  /\ \/ UNCHANGED <<managerVars, tasks, dirs>>
     \/ /\ Valid(next) /\ next # NoHost /\ cfg # NoHost /\ cfg.id # next.id
        /\ Cleared
        /\ dirs' = Detached(cfg.id)

Refused(next) == ~Valid(next) /\ UNCHANGED <<managerVars, setup, tasks, dirs, trash, mishaps>>

----------------------------------------------------------------------------
(* handleSaveSettings: validate, write settings.json, release or uninstall   *)
(* the helper, apply; a failure writes the previous settings back.           *)

\* ValidateSettingsChangeWithOwnershipAction.
ActionValid(next) == ~SettingUp /\ (next = NoHost \/ (owned /\ TargetChanged(cfg, next)))

SaveValidate(next, action) ==
  /\ Up /\ save.phase = "none"
  /\ IF action THEN ActionValid(next) ELSE Valid(next)
  /\ save' = [phase |-> "valid", next |-> next, previous |-> NoHost, action |-> action]
  /\ UNCHANGED <<saved, managerVars, setup, tasks, dirs, trash, program, mishaps>>

\* ReleaseHelperOwnership, bundled with a change that it permits.
Release ==
  IF cfg # NoHost /\ owned
  THEN owned' = FALSE /\ probe' = "fallback" /\ dirs' = [dirs EXCEPT ![cfg.id].helper = NoAlias]
  ELSE UNCHANGED <<owned, probe, dirs>>

SaveWrite ==
  /\ Up /\ save.phase = "valid"
  /\ UNCHANGED <<cfg, life, shown, refreshing, auto, setup, tasks, trash, program>>
  /\ \/ /\ saved' = save.next
        /\ save' = [save EXCEPT !.previous = saved, !.phase = "written", !.action = FALSE]
        /\ IF save.action THEN Release ELSE UNCHANGED <<owned, probe, dirs>>
        /\ UNCHANGED mishaps
     \/ Mishap /\ save' = NoSave /\ UNCHANGED <<saved, owned, probe, dirs>>

\* The program stops between the two writes.
StopsInSave ==
  /\ Up /\ save.phase = "valid" /\ save.action
  /\ Mishap
  /\ saved' = save.next
  /\ Stops
  /\ UNCHANGED <<dirs, trash>>

SaveApply ==
  /\ Up /\ save.phase = "written"
  /\ save' = NoSave
  /\ \/ Apply(save.next) /\ UNCHANGED saved
     \/ (Refused(save.next) \/ ApplyFails(save.next)) /\ saved' = save.previous
  /\ UNCHANGED program

----------------------------------------------------------------------------
(* Hub's commands and check-in answers, in the sync loop. *)

\* SaveHubSettings where no other host is configured.
HubConfigures(next) ==
  /\ Up
  /\ cfg = NoHost \/ ~TargetChanged(cfg, next)
  /\ next # saved
  /\ Valid(next)
  /\ saved' = next
  /\ Installed(next, dirs[next.id].helper # NoAlias)
  /\ UNCHANGED <<auto, setup, dirs, trash, save, program, mishaps>>

\* Mutant of HubMayReplace: setup holds no reservation.
HubReplacesAnyway(next) ==
  /\ Up
  /\ cfg # NoHost /\ TargetChanged(cfg, next)
  /\ next # saved
  /\ ~auto
  /\ cfg.id = next.id \/ dirs[next.id].helper \in {NoAlias, next.alias}

HubMayReplace(next) ==
  /\ Up
  /\ cfg # NoHost /\ TargetChanged(cfg, next)
  /\ next # saved
  /\ ~SettingUp /\ ~auto
  /\ cfg.id = next.id \/ dirs[next.id].helper \in {NoAlias, next.alias}

\* SaveHubSettings with another host: the old cache goes when the settings are
\* written, and comes back when they are not.
HubReplaces(next) ==
  /\ HubMayReplace(next)
  /\ \/ /\ RemoveSource(cfg.id, cfg.alias)
        /\ saved' = next
        /\ Installed(next, cfg.id # next.id /\ dirs[next.id].helper # NoAlias)
        /\ UNCHANGED <<auto, setup, save, program>>
     \/ StopsInRemoval(cfg.id, cfg.alias, next)

\* RemoveHubHost, up to the uninstall.
HubRemoves ==
  /\ Up
  /\ saved # NoHost
  /\ ~SettingUp /\ ~auto
  /\ cfg = NoHost \/ ~TargetChanged(cfg, saved)
  /\ \/ /\ RemoveSource(saved.id, saved.alias)
        /\ saved' = NoHost
        /\ cfg' = IF cfg = NoHost THEN saved ELSE cfg
        /\ owned' = IF cfg = NoHost THEN dirs[saved.id].helper = saved.alias ELSE owned
        /\ life' = FALSE
        /\ tasks' = Cancelled(tasks)
        /\ setup' = [phase |-> "removing", host |-> saved]
        /\ UNCHANGED <<shown, refreshing, probe, auto, save, program>>
     \/ StopsInRemoval(saved.id, saved.alias, NoHost)

\* The rest: a helper that was uninstalled is not recorded any longer.
HubRemoved ==
  /\ Up /\ Removing
  /\ setup' = NoSetup
  /\ Cleared
  /\ \/ UNCHANGED dirs
     \/ owned /\ dirs' = [dirs EXCEPT ![cfg.id].helper = NoAlias]
  /\ UNCHANGED <<saved, auto, trash, save, program, mishaps>>

----------------------------------------------------------------------------
(* Background work. *)

\* Mutant of RefreshStarts: without a life to end it.
RefreshStartsAnyway(others) ==
  /\ ~refreshing
  /\ Cardinality(others) < MaxTasks
  /\ refreshing' = TRUE
  /\ tasks' = others \cup {NewTask("refresh", cfg, FALSE)}

\* maybeStartRefreshLocked, kickRefreshLocked: beside the work of others.
RefreshStarts(others) ==
  /\ life /\ cfg.on /\ ~refreshing
  /\ Cardinality(others) < MaxTasks
  /\ refreshing' = TRUE
  /\ tasks' = others \cup {NewTask("refresh", cfg, FALSE)}

\* ListView, Retry.
StartRefresh ==
  /\ Up /\ RefreshStarts(tasks)
  /\ UNCHANGED <<saved, cfg, life, shown, owned, probe, auto, setup, dirs, trash, save,
                 program, mishaps>>

\* Mutant of Collected: the cache is claimed without another look.
CollectedLate(t) ==
  /\ Up /\ t.kind = "refresh" /\ t.phase = "running"
  /\ CacheFree
  /\ tasks' = (tasks \ {t}) \cup {[t EXCEPT !.phase = "storing"]}
  /\ UNCHANGED <<saved, managerVars, setup, dirs, trash, save, program, mishaps>>

\* The collection is over: a superseded refresh returns, a failed one says so,
\* and a good one claims the cache before it lets go of the manager.
Collected(t) ==
  /\ Up /\ t.kind = "refresh" /\ t.phase = "running"
  /\ \/ ~Current(t) /\ tasks' = tasks \ {t} /\ UNCHANGED refreshing
     \/ Current(t) /\ tasks' = tasks \ {t} /\ refreshing' = FALSE
     \/ /\ Current(t) /\ CacheFree
        /\ tasks' = (tasks \ {t}) \cup {[t EXCEPT !.phase = "storing"]}
        /\ UNCHANGED refreshing
  /\ UNCHANGED <<saved, cfg, life, shown, owned, probe, auto, setup, dirs, trash, save,
                 program, mishaps>>

Store(t) ==
  /\ Up /\ t.phase = "storing"
  /\ \/ /\ dirs' = [dirs EXCEPT ![t.host.id].data = t.host.alias]
        /\ tasks' = (tasks \ {t}) \cup {[t EXCEPT !.phase = "stored"]}
        /\ UNCHANGED mishaps
     \/ /\ Mishap
        /\ tasks' = (tasks \ {t}) \cup {[t EXCEPT !.phase = "failed"]}
        /\ UNCHANGED dirs
  /\ UNCHANGED <<saved, managerVars, setup, trash, save, program>>

\* Mutant of Publish: the refresh was current when it began to write.
PublishAnyway(t) ==
  /\ Up /\ t.phase \in {"stored", "failed"}
  /\ tasks' = tasks \ {t}
  /\ refreshing' = FALSE
  /\ shown' = IF t.phase = "stored" THEN t.host.alias ELSE shown
  /\ UNCHANGED <<saved, cfg, life, owned, probe, auto, setup, dirs, trash, save, program,
                 mishaps>>

\* Published only if the host is still the configured one.
Publish(t) ==
  /\ Up /\ t.phase \in {"stored", "failed"}
  /\ tasks' = tasks \ {t}
  /\ refreshing' = IF Current(t) THEN FALSE ELSE refreshing
  /\ shown' = IF Current(t) /\ t.phase = "stored" THEN t.host.alias ELSE shown
  /\ UNCHANGED <<saved, cfg, life, owned, probe, auto, setup, dirs, trash, save, program,
                 mishaps>>

\* startHelperDiscoveryLocked, with a helper to update if one is owned, after a
\* new life or when the time to try again has come.
StartDiscovery ==
  /\ Up /\ life /\ cfg.on
  /\ probe = "unknown" \/ (probe = "fallback" /\ owned)
  /\ Cardinality(tasks) < MaxTasks
  /\ probe' = "probing"
  /\ auto' = (auto \/ owned)
  /\ tasks' = tasks \cup {NewTask("discovery", cfg, owned)}
  /\ UNCHANGED <<saved, cfg, life, shown, refreshing, owned, setup, dirs, trash, save,
                 program, mishaps>>

WithHelper(id, alias) == [dirs EXCEPT ![id].helper = alias]

\* runHelperDiscovery: whatever it found, an automatic one ends the reservation.
\* A refresh may follow, which it kept waiting.
Discovered(t) ==
  /\ Up /\ t.kind = "discovery"
  /\ auto' = (auto /\ ~t.auto)
  /\ \/ tasks' = tasks \ {t} /\ UNCHANGED refreshing
     \/ t.live /\ ~TargetChanged(cfg, t.host) /\ RefreshStarts(tasks \ {t})
  /\ IF ~t.live \/ TargetChanged(cfg, t.host)
     THEN UNCHANGED <<owned, probe, dirs, mishaps>>
     ELSE \/ /\ dirs' = WithHelper(t.host.id, t.host.alias)
             /\ owned' = TRUE /\ probe' = "ready"
             /\ UNCHANGED mishaps
          \/ Mishap /\ owned' = FALSE /\ probe' = "fallback" /\ UNCHANGED dirs
          \/ probe' = "fallback" /\ UNCHANGED <<owned, dirs, mishaps>>
  /\ UNCHANGED <<saved, cfg, life, shown, setup, trash, save, program>>

\* setupHelper reserves the host, installs, records.
SetupBegin ==
  /\ Up /\ cfg # NoHost /\ ~SettingUp /\ ~auto
  /\ setup' = [phase |-> "installing", host |-> cfg]
  /\ UNCHANGED <<saved, managerVars, tasks, dirs, trash, save, program, mishaps>>

\* It failed, installed and recorded, or installed and could not record.
SetupEnds ==
  /\ Up /\ setup.phase = "installing"
  /\ setup' = NoSetup
  /\ IF TargetChanged(cfg, setup.host)
     THEN UNCHANGED <<owned, probe, dirs, mishaps>>
     ELSE \/ probe' \in {probe, "fallback"} /\ UNCHANGED <<owned, dirs, mishaps>>
          \/ /\ dirs' = WithHelper(setup.host.id, setup.host.alias)
             /\ owned' = TRUE /\ probe' = "ready"
             /\ UNCHANGED mishaps
          \/ Mishap /\ UNCHANGED <<owned, probe, dirs>>
  /\ UNCHANGED <<saved, cfg, life, shown, refreshing, auto, tasks, trash, save, program>>

----------------------------------------------------------------------------
(* SweepRemovedSources: at start, with every check-in and by a ticker.       *)

Restorable(t, host) == host # NoHost /\ t.id = host.id /\ t.prev = host.alias

\* Mutant of SweepOf: every recorded removal was committed.
SweepDeletes(done) == trash' = trash \ done /\ UNCHANGED dirs

\* Mutant of SweepOf: there is nothing to do where no host is configured.
SweepConfigured(done) == saved # NoHost /\ trash' = trash \ done /\ UNCHANGED dirs

\* A record of the host that is configured puts its source back, unless one is
\* there or another record did; any other is deleted.
SweepOf(done) ==
  LET stay == {t \in done : Restorable(t, saved) /\ There(t.id)}
      back == {t \in done : Restorable(t, saved)} \ stay
  IN  IF back = {} THEN trash' = trash \ (done \ stay) /\ UNCHANGED dirs
      ELSE \E t \in back : /\ trash' = (trash \ (done \ stay)) \cup (back \ {t})
                           /\ dirs' = [dirs EXCEPT ![t.id] = t.kept]

\* Some records may be left, by a failure.
SweepTrash ==
  \/ SweepOf(trash) /\ UNCHANGED mishaps
  \/ Mishap /\ \E done \in SUBSET trash : SweepOf(done)

Sweep ==
  /\ Up /\ CacheFree
  /\ trash # {}
  /\ SweepTrash
  /\ UNCHANGED <<saved, managerVars, setup, tasks, save, program>>

\* main: sweep, then apply what settings.json says.
Boot ==
  /\ program = "down"
  /\ program' = "booting"
  /\ SweepTrash
  /\ UNCHANGED <<saved, managerVars, setup, tasks, save>>

Booted ==
  /\ program = "booting"
  /\ program' = "up"
  /\ Apply(saved) \/ Refused(saved) \/ ApplyFails(saved)
  /\ UNCHANGED <<saved, save>>

----------------------------------------------------------------------------
SavePage(hosts) ==
  \/ \E next \in hosts \cup {NoHost}, action \in BOOLEAN : SaveValidate(next, action)
  \/ SaveWrite \/ StopsInSave \/ SaveApply
HubAsks(hosts) ==
  \/ \E next \in hosts : HubConfigures(next) \/ HubReplaces(next)
  \/ HubRemoves
RefreshRuns == \E t \in tasks : Collected(t) \/ Store(t) \/ Publish(t)
DiscoveryRuns == \E t \in tasks : Discovered(t)

RemoteLocal ==
  \/ HubRemoved \/ StartRefresh \/ RefreshRuns \/ StartDiscovery \/ DiscoveryRuns
  \/ SetupBegin \/ SetupEnds \/ Sweep \/ Boot \/ Booted \/ Crash

RemoteNext == RemoteLocal \/ SavePage(PageHosts) \/ HubAsks(HubHosts)

RemoteSpec == RemoteInit /\ [][RemoteNext]_remoteVars

\* A refresh ends, since collecting has a deadline, and so does the uninstall of
\* a removal; the program is started again;
\* a sweep comes with every check-in and with a ticker and must find the cache
\* free, which a writer never keeps it from for good.
RemoteFairness ==
  /\ WF_remoteVars(RefreshRuns) /\ WF_remoteVars(HubRemoved \/ Boot \/ Booted)
  /\ SF_remoteVars(Sweep)

RemoteFairSpec == RemoteSpec /\ RemoteFairness

----------------------------------------------------------------------------
(* Properties. *)

\* A refresh writes only the cache of the configured host: one that was
\* superseded cannot create a removed source again.
StoresConfigured ==
  [][\A i \in Ids : dirs'[i].data \notin {NoAlias, dirs[i].data} /\ trash' = trash
       => cfg.id = i /\ cfg.alias = dirs'[i].data]_remoteVars

\* Sessions that appear are the configured host's, or those its directory held
\* when its configuration was loaded; never the old host's after its alias was
\* changed under its ID, and never those of a superseded refresh.
ShownIsConfigured ==
  [][cfg'.on /\ shown' # NoAlias /\ (shown' # shown \/ cfg' # cfg)
     => \/ shown' = cfg'.alias
        \/ /\ cfg' # cfg /\ dirs[cfg'.id].data = shown'
           /\ cfg.id = cfg'.id => cfg.alias = cfg'.alias]_remoteVars

\* A helper that refreshes may run is recorded on disk as the configured
\* host's, whatever replaced, removed, released or restored the cache meanwhile.
ReadyIsRecorded ==
  probe = "ready" /\ cfg.on /\ ~Removing => owned /\ dirs[cfg.id].helper = cfg.alias

\* The cache of a host is in its place, or in the trash with a record by which a
\* sweep finds whose it was.
Recoverable(host) ==
  \/ dirs[host.id].data = host.alias
  \/ \E t \in trash : Restorable(t, host) /\ t.kept.data = host.alias

\* It is in its place, or the next start will put it there.
Kept(host) ==
  \/ dirs[host.id].data = host.alias
  \/ /\ ~Up
     /\ ~There(host.id)
     /\ \E t \in trash : Restorable(t, host) /\ t.kept.data = host.alias

\* Whatever fails, and however often the program stops, the cache of a host that
\* stays configured is not deleted: a removal that was not committed leaves it
\* where it was or recorded in the trash.  If nothing but that removal failed so
\* far, the next start puts it back; if the sweep fails there, too, it stays in the
\* trash.
UncommittedKept ==
  [][saved # NoHost /\ saved' = saved /\ cfg \in {NoHost, saved} /\ save.phase = "none"
     => /\ Recoverable(saved) => Recoverable(saved)'
        /\ mishaps' <= 1 /\ Kept(saved) => Kept(saved)']_remoteVars

\* Nothing takes the host away between the installation of its helper and the
\* record of it.
SetupKeepsHost == SettingUp => ~TargetChanged(cfg, setup.host)

\* No refresh is reported as running for ever.
RefreshEnds == refreshing ~> ~refreshing

\* A cache that was detached and is not the configured host's is deleted.
DetachedGoes ==
  trash # {} ~> (trash = {} \/ \E t \in trash : Restorable(t, saved))

=============================================================================
