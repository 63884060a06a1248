---------------------------- MODULE RemoteProofs ----------------------------
(***************************************************************************)
(* Proofs about RemoteSources, for every set of hosts, every number of     *)
(* tasks and every number of mishaps: setup keeps its host, a helper that  *)
(* may run is recorded, only the configured host's cache is written and    *)
(* only the configured host's sessions are shown; and a removal which was  *)
(* not committed is recorded, and undone.                                  *)
(***************************************************************************)
EXTENDS RemoteSources, TLAPS

\* Only a refresh of the configured host writes: whoever takes the host away
\* waits for the cache.
StoringConfigured ==
  \A t \in tasks : t.phase = "storing" => ~TargetChanged(cfg, t.host)

\* While the helper of a removed host is uninstalled nothing runs for it that
\* could still publish or write.
RemovingIsQuiet ==
  Removing => /\ ~life
              /\ \A t \in tasks : ~t.live /\ t.phase # "storing"

NothingShownUnconfigured == cfg = NoHost => shown = NoAlias

RInv ==
  /\ RemoteTypeOK
  /\ SetupKeepsHost
  /\ ReadyIsRecorded
  /\ StoringConfigured
  /\ RemovingIsQuiet
  /\ NothingShownUnconfigured

USE NameAssumption, HostAssumption, MishapAssumption

----------------------------------------------------------------------------
(* Hosts, directories, tasks. *)

LEMMA HostFacts ==
  /\ NoHost.id = NoId /\ NoHost.alias = NoAlias /\ NoHost.on = FALSE
  /\ NoHost \in Remotes /\ NoHost \notin Hosts
  /\ Hosts \subseteq Remotes
  /\ \A h \in Hosts : h.id \in Ids /\ h.alias \in Aliases /\ h.on \in BOOLEAN /\ h # NoHost
  /\ \A h \in Hosts : h = [id |-> h.id, alias |-> h.alias, on |-> h.on]
BY DEF NoHost, Remotes, Hosts

LEMMA RemoteFacts ==
  ASSUME NEW h \in Remotes
  PROVE  /\ h = NoHost \/ h \in Hosts
         /\ h.on \in BOOLEAN
         /\ h # NoHost <=> h \in Hosts
         /\ h.on => h \in Hosts
BY HostFacts DEF Remotes

LEMMA DirFacts ==
  /\ NoDir \in Dirs /\ NoDir.data = NoAlias /\ NoDir.helper = NoAlias
  /\ \A d \in Dirs : d.data \in Names /\ d.helper \in Names
  /\ Aliases \subseteq Names /\ NoAlias \in Names
BY DEF NoDir, Dirs, Names

LEMMA CancelledTasks ==
  ASSUME NEW ts \in SUBSET Tasks
  PROVE  /\ Cancelled(ts) \in SUBSET Tasks
         /\ \A t \in Cancelled(ts) : ~t.live
         /\ \A t \in Cancelled(ts) : \E u \in ts : t.phase = u.phase /\ t.host = u.host
BY DEF Cancelled, Tasks

LEMMA NewTaskTyped ==
  ASSUME NEW h \in Hosts, NEW kind \in {"refresh", "discovery"}, NEW a \in BOOLEAN
  PROVE  /\ NewTask(kind, h, a) \in Tasks
         /\ NewTask(kind, h, a).phase = "running"
BY DEF NewTask, Tasks

LEMMA PhaseTyped ==
  ASSUME NEW t \in Tasks, NEW ph \in {"running", "storing", "stored", "failed"}
  PROVE  /\ [t EXCEPT !.phase = ph] \in Tasks
         /\ [t EXCEPT !.phase = ph].phase = ph
         /\ [t EXCEPT !.phase = ph].host = t.host
         /\ [t EXCEPT !.phase = ph].live = t.live
BY DEF Tasks

----------------------------------------------------------------------------
(* Types.  TypedManager and TypedRest are the conjuncts of RemoteTypeOK that *)
(* the parts of the actions, which are shared, take care of.                 *)

TypedManager ==
  /\ cfg \in Remotes
  /\ life \in BOOLEAN /\ refreshing \in BOOLEAN /\ owned \in BOOLEAN /\ auto \in BOOLEAN
  /\ shown \in Names
  /\ probe \in {"unknown", "probing", "ready", "fallback"}
  /\ tasks \subseteq Tasks
TypedSetup == setup \in [phase: {"none", "installing", "removing"}, host: Remotes]
TypedSave ==
  save \in [phase: {"none", "valid", "written"}, next: Remotes, previous: Remotes,
            action: BOOLEAN]
TypedDisk ==
  /\ dirs \in [Ids -> Dirs]
  /\ trash \subseteq Removed
  /\ mishaps \in 0..MaxMishaps

LEMMA TypeParts ==
  RemoteTypeOK <=> /\ saved \in Remotes /\ program \in {"down", "booting", "up"}
                   /\ TypedManager /\ TypedSetup /\ TypedSave /\ TypedDisk
BY DEF RemoteTypeOK, TypedManager, TypedSetup, TypedSave, TypedDisk

LEMMA NextParts ==
  RemoteTypeOK' <=> /\ saved' \in Remotes /\ program' \in {"down", "booting", "up"}
                    /\ TypedManager' /\ TypedSetup' /\ TypedSave' /\ TypedDisk'
BY DEF RemoteTypeOK, TypedManager, TypedSetup, TypedSave, TypedDisk

LEMMA MishapTyped == mishaps \in 0..MaxMishaps /\ Mishap => mishaps' \in 0..MaxMishaps
BY DEF Mishap

LEMMA NoneTyped ==
  /\ NoSetup \in [phase: {"none", "installing", "removing"}, host: Remotes]
  /\ NoSave \in [phase: {"none", "valid", "written"}, next: Remotes, previous: Remotes,
                 action: BOOLEAN]
  /\ NoSetup.phase = "none" /\ NoSetup.host = NoHost
BY HostFacts DEF NoSetup, NoSave

LEMMA StopsTyped == Stops => TypedManager' /\ TypedSetup' /\ TypedSave' /\ program' = "down"
BY HostFacts, NoneTyped, DirFacts DEF Stops, TypedManager, TypedSetup, TypedSave

LEMMA ClearedTyped == TypedManager /\ Cleared /\ auto' = auto => TypedManager'
BY HostFacts, DirFacts, CancelledTasks DEF Cleared, TypedManager

LEMMA RecordTyped ==
  ASSUME TypedDisk, NEW id \in Ids, NEW prev \in Names
  PROVE  Record(id, prev) \in Removed
BY DEF TypedDisk, Record, Removed

LEMMA RemoveSourceTyped ==
  ASSUME TypedDisk, NEW id \in Ids, NEW prev \in Names, RemoveSource(id, prev)
  PROVE  TypedDisk' /\ CacheFree /\ dirs' = Detached(id)
<1>1. Detached(id) \in [Ids -> Dirs]
  BY DirFacts DEF TypedDisk, Detached
<1> QED
  BY <1>1, RecordTyped, MishapTyped
  DEF RemoveSource, RemoveClean, RemoveDirty, Recorded, TypedDisk

LEMMA InstalledTyped ==
  ASSUME TypedManager, TypedDisk, NEW next \in Hosts, NEW o \in BOOLEAN, Installed(next, o),
         auto' = auto
  PROVE  TypedManager'
<1>1. View(next) \in Names
  BY HostFacts, DirFacts DEF View, TypedDisk
<1>2. Cancelled(tasks) \subseteq Tasks
  BY CancelledTasks DEF TypedManager
<1>3. next \in Remotes /\ NoAlias \in Names
  BY HostFacts, DirFacts
<1>4. shown' \in Names /\ probe' \in {"unknown", "probing", "ready", "fallback"}
  BY <1>1, <1>3 DEF Installed, TypedManager
<1>5. life' \in BOOLEAN /\ refreshing' \in BOOLEAN
  BY DEF Installed, TypedManager
<1>6. tasks' \subseteq Tasks
  BY <1>2 DEF Installed, TypedManager
<1> QED
  BY <1>3, <1>4, <1>5, <1>6 DEF Installed, TypedManager

LEMMA ApplyTyped ==
  ASSUME TypedManager, TypedDisk, TypedSetup, NEW next \in Remotes, Apply(next)
  PROVE  TypedManager' /\ TypedDisk' /\ setup' = setup
<1>1. CASE next = NoHost /\ cfg = NoHost /\ Cleared
           /\ UNCHANGED <<dirs, trash, mishaps, auto, setup>>
  BY <1>1, ClearedTyped DEF TypedDisk
<1>2. CASE next = NoHost /\ cfg # NoHost /\ RemoveSource(cfg.id, NoAlias) /\ Cleared
           /\ UNCHANGED <<auto, setup>>
  <2>1. cfg.id \in Ids /\ NoAlias \in Names
    BY <1>2, RemoteFacts, HostFacts, DirFacts DEF TypedManager
  <2> QED
    BY <1>2, <2>1, ClearedTyped, RemoveSourceTyped
<1>3. CASE /\ next # NoHost
           /\ Installed(next, dirs[next.id].helper # NoAlias)
           /\ IF Obsolete(next) = {} THEN UNCHANGED <<dirs, trash, mishaps>>
              ELSE /\ CacheFree
                   /\ dirs' = [i \in Ids |-> IF i \in Obsolete(next) THEN NoDir ELSE dirs[i]]
                   /\ \/ UNCHANGED <<trash, mishaps>>
                      \/ Mishap /\ \E i \in Obsolete(next) :
                                      There(i) /\ trash' = trash \cup {Record(i, NoAlias)}
           /\ UNCHANGED <<auto, setup>>
  <2>1. TypedManager'
    BY <1>3, RemoteFacts, InstalledTyped
  <2>2. Obsolete(next) \subseteq Ids
    BY DEF Obsolete
  <2>3. [i \in Ids |-> IF i \in Obsolete(next) THEN NoDir ELSE dirs[i]] \in [Ids -> Dirs]
    BY DirFacts DEF TypedDisk
  <2>4. TypedDisk'
    BY <1>3, <2>2, <2>3, RecordTyped, DirFacts, MishapTyped DEF TypedDisk
  <2> QED
    BY <1>3, <2>1, <2>4
<1> QED
  BY <1>1, <1>2, <1>3 DEF Apply

LEMMA ApplyFailsTyped ==
  ASSUME TypedManager, TypedDisk, NEW next \in Remotes, ApplyFails(next)
  PROVE  TypedManager' /\ TypedDisk' /\ setup' = setup
<1>1. CASE UNCHANGED <<managerVars, tasks, dirs>>
  BY <1>1, MishapTyped DEF ApplyFails, managerVars, TypedManager, TypedDisk
<1>2. CASE cfg # NoHost /\ Cleared /\ dirs' = Detached(cfg.id)
  <2>1. cfg.id \in Ids
    BY <1>2, RemoteFacts, HostFacts DEF TypedManager
  <2>2. Detached(cfg.id) \in [Ids -> Dirs]
    BY <2>1, DirFacts DEF TypedDisk, Detached
  <2> QED
    BY <1>2, <2>2, MishapTyped, ClearedTyped DEF ApplyFails, TypedDisk
<1> QED
  BY <1>1, <1>2 DEF ApplyFails

LEMMA RefusedTyped ==
  ASSUME TypedManager, TypedDisk, NEW next \in Remotes, Refused(next)
  PROVE  TypedManager' /\ TypedDisk' /\ setup' = setup
BY DEF Refused, managerVars, TypedManager, TypedDisk

LEMMA SweepTyped ==
  ASSUME TypedDisk, SweepTrash
  PROVE  TypedDisk'
<1>1. ASSUME NEW done \in SUBSET trash, SweepOf(done)
      PROVE  dirs' \in [Ids -> Dirs] /\ trash' \subseteq Removed
  BY <1>1 DEF SweepOf, TypedDisk, Removed
<1> QED
  BY <1>1, MishapTyped DEF SweepTrash, TypedDisk

LEMMA PageTyped ==
  ASSUME RemoteTypeOK, SavePage(PageHosts)
  PROVE  RemoteTypeOK'
<1> USE TypeParts, NextParts
<1>1. ASSUME NEW next \in PageHosts \cup {NoHost}, NEW action \in BOOLEAN,
             SaveValidate(next, action)
      PROVE  RemoteTypeOK'
  <2>1. TypedManager' /\ TypedSetup' /\ TypedDisk'
    BY <1>1 DEF SaveValidate, managerVars, TypedManager, TypedSetup, TypedDisk
  <2>2. next \in Remotes
    BY HostFacts DEF Remotes, Hosts
  <2> QED
    BY <1>1, <2>1, <2>2, HostFacts DEF SaveValidate, TypedSave
<1>2. ASSUME SaveWrite PROVE RemoteTypeOK'
  <2>1. TypedManager' /\ TypedDisk'
    <3>1. CASE Release /\ mishaps' = mishaps
      <4>1. cfg # NoHost => cfg.id \in Ids
        BY RemoteFacts, HostFacts DEF TypedManager
      <4>2. cfg # NoHost => [dirs EXCEPT ![cfg.id].helper = NoAlias] \in [Ids -> Dirs]
        BY <4>1, DirFacts DEF TypedDisk, Dirs
      <4>3. TypedDisk'
        BY <1>2, <3>1, <4>2 DEF SaveWrite, Release, TypedDisk
      <4>4. owned' \in BOOLEAN /\ probe' \in {"unknown", "probing", "ready", "fallback"}
        BY <3>1 DEF Release, TypedManager
      <4> QED
        BY <1>2, <4>3, <4>4 DEF SaveWrite, TypedManager
    <3>2. CASE UNCHANGED <<owned, probe, dirs>>
      BY <1>2, <3>2, MishapTyped DEF SaveWrite, TypedManager, TypedDisk
    <3> QED
      BY <1>2, <3>1, <3>2 DEF SaveWrite
  <2>2. saved' \in Remotes /\ TypedSave'
    <3>1. [save EXCEPT !.previous = saved, !.phase = "written", !.action = FALSE]
          \in [phase: {"none", "valid", "written"}, next: Remotes, previous: Remotes,
               action: BOOLEAN]
      BY DEF TypedSave
    <3> QED
      BY <1>2, <3>1, NoneTyped DEF SaveWrite, TypedSave
  <2> QED
    BY <1>2, <2>1, <2>2 DEF SaveWrite, TypedSetup
<1>3. ASSUME StopsInSave PROVE RemoteTypeOK'
  <2>1. save.next \in Remotes
    BY DEF TypedSave
  <2> QED
    BY <1>3, <2>1, StopsTyped, MishapTyped DEF StopsInSave, TypedDisk
<1>4. ASSUME SaveApply PROVE RemoteTypeOK'
  <2>1. save.next \in Remotes /\ save.previous \in Remotes
    BY DEF TypedSave
  <2>2. TypedManager' /\ TypedDisk' /\ setup' = setup
    BY <1>4, <2>1, ApplyTyped, ApplyFailsTyped, RefusedTyped DEF SaveApply
  <2> QED
    BY <1>4, <2>1, <2>2, NoneTyped DEF SaveApply, TypedSave, TypedSetup
<1> QED
  BY <1>1, <1>2, <1>3, <1>4 DEF SavePage

LEMMA StopsInRemovalTyped ==
  ASSUME RemoteTypeOK, NEW id \in Ids, NEW prev \in Names, NEW next \in Remotes,
         StopsInRemoval(id, prev, next)
  PROVE  RemoteTypeOK'
<1>1. Detached(id) \in [Ids -> Dirs]
  BY DirFacts, TypeParts DEF TypedDisk, Detached
<1>2. TypedDisk'
  BY <1>1, RecordTyped, MishapTyped, TypeParts DEF StopsInRemoval, Recorded, TypedDisk
<1> QED
  BY <1>2, StopsTyped, TypeParts, NextParts DEF StopsInRemoval

LEMMA HubTyped ==
  ASSUME RemoteTypeOK, HubAsks(HubHosts)
  PROVE  RemoteTypeOK'
<1> USE TypeParts, NextParts
<1>1. ASSUME NEW next \in HubHosts, HubConfigures(next) PROVE RemoteTypeOK'
  <2>1. next \in Hosts /\ next \in Remotes
    BY HostFacts DEF Hosts
  <2>2. TypedManager'
    BY <1>1, <2>1, InstalledTyped DEF HubConfigures
  <2> QED
    BY <1>1, <2>1, <2>2 DEF HubConfigures, TypedSetup, TypedSave, TypedDisk
<1>2. ASSUME NEW next \in HubHosts, HubReplaces(next) PROVE RemoteTypeOK'
  <2>1. next \in Hosts /\ next \in Remotes
    BY HostFacts DEF Hosts
  <2>2. cfg.id \in Ids /\ cfg.alias \in Names
    BY <1>2, RemoteFacts, HostFacts, DirFacts DEF HubReplaces, HubMayReplace, TypedManager
  <2>3. CASE StopsInRemoval(cfg.id, cfg.alias, next)
    BY <2>1, <2>2, <2>3, StopsInRemovalTyped
  <2>4. CASE /\ RemoveSource(cfg.id, cfg.alias)
             /\ saved' = next
             /\ Installed(next, cfg.id # next.id /\ dirs[next.id].helper # NoAlias)
             /\ UNCHANGED <<auto, setup, save, program>>
    <3>1. TypedManager'
      BY <2>1, <2>4, InstalledTyped
    <3>2. TypedDisk'
      BY <2>2, <2>4, RemoveSourceTyped
    <3> QED
      BY <2>1, <2>4, <3>1, <3>2 DEF TypedSetup, TypedSave
  <2> QED
    BY <1>2, <2>3, <2>4 DEF HubReplaces
<1>3. ASSUME HubRemoves PROVE RemoteTypeOK'
  <2>1. saved.id \in Ids /\ saved.alias \in Names /\ NoHost \in Remotes
    BY <1>3, RemoteFacts, HostFacts, DirFacts DEF HubRemoves
  <2>2. CASE StopsInRemoval(saved.id, saved.alias, NoHost)
    BY <2>1, <2>2, StopsInRemovalTyped
  <2>3. CASE RemoveSource(saved.id, saved.alias) /\ ~StopsInRemoval(saved.id, saved.alias, NoHost)
    <3>1. TypedDisk'
      BY <2>1, <2>3, RemoveSourceTyped
    <3>2. TypedManager'
      BY <1>3, <2>3, CancelledTasks DEF HubRemoves, TypedManager
    <3> QED
      BY <1>3, <2>1, <2>3, <3>1, <3>2 DEF HubRemoves, TypedSetup, TypedSave
  <2> QED
    BY <1>3, <2>2, <2>3 DEF HubRemoves
<1> QED
  BY <1>1, <1>2, <1>3 DEF HubAsks

LEMMA RefreshStartsTyped ==
  ASSUME TypedManager, NEW others \in SUBSET tasks, RefreshStarts(others)
  PROVE  tasks' \subseteq Tasks /\ refreshing' \in BOOLEAN
<1>1. cfg \in Hosts
  BY RemoteFacts DEF RefreshStarts, TypedManager
<1> QED
  BY <1>1, NewTaskTyped DEF RefreshStarts, TypedManager

LEMMA HelperTyped ==
  ASSUME TypedDisk, NEW id \in Ids, NEW alias \in Names
  PROVE  WithHelper(id, alias) \in [Ids -> Dirs]
BY DEF WithHelper, TypedDisk, Dirs

LEMMA MovedTyped ==
  ASSUME TypedManager, NEW t \in tasks, NEW ph \in {"running", "storing", "stored", "failed"}
  PROVE  (tasks \ {t}) \cup {[t EXCEPT !.phase = ph]} \subseteq Tasks
<1>1. [t EXCEPT !.phase = ph] \in Tasks
  BY PhaseTyped DEF TypedManager
<1> QED
  BY <1>1 DEF TypedManager

LEMMA LocalTyped ==
  ASSUME RemoteTypeOK, RemoteLocal
  PROVE  RemoteTypeOK'
<1> USE TypeParts, NextParts
<1>1. ASSUME HubRemoved PROVE RemoteTypeOK'
  <2>1. TypedManager'
    BY <1>1, ClearedTyped DEF HubRemoved
  <2>2. dirs' \in [Ids -> Dirs]
    <3>1. owned /\ cfg # NoHost => WithHelper(cfg.id, NoAlias) \in [Ids -> Dirs]
      BY RemoteFacts, HostFacts, HelperTyped, DirFacts DEF TypedManager
    <3>2. cfg = NoHost => [dirs EXCEPT ![cfg.id].helper = NoAlias] = dirs
      BY HostFacts DEF TypedDisk
    <3> QED
      BY <1>1, <3>1, <3>2 DEF HubRemoved, WithHelper, TypedDisk
  <2> QED
    BY <1>1, <2>1, <2>2, NoneTyped DEF HubRemoved, TypedSetup, TypedSave, TypedDisk
<1>2. ASSUME StartRefresh PROVE RemoteTypeOK'
  <2>1. tasks' \subseteq Tasks /\ refreshing' \in BOOLEAN
    BY <1>2, RefreshStartsTyped DEF StartRefresh
  <2> QED
    BY <1>2, <2>1 DEF StartRefresh, TypedManager, TypedSetup, TypedSave, TypedDisk
<1>3. ASSUME RefreshRuns PROVE RemoteTypeOK'
  <2>1. PICK t \in tasks : Collected(t) \/ Store(t) \/ Publish(t)
    BY <1>3 DEF RefreshRuns
  <2>2. t \in Tasks /\ t.host.id \in Ids /\ t.host.alias \in Names
    BY HostFacts, DirFacts DEF TypedManager, Tasks
  <2>3. CASE Collected(t)
    <3>1. tasks' \subseteq Tasks
      BY <2>3, MovedTyped DEF Collected, TypedManager
    <3> QED
      BY <2>3, <3>1 DEF Collected, TypedManager, TypedSetup, TypedSave, TypedDisk
  <2>4. CASE Store(t)
    <3>1. [dirs EXCEPT ![t.host.id].data = t.host.alias] \in [Ids -> Dirs]
      BY <2>2 DEF TypedDisk, Dirs
    <3>2. tasks' \subseteq Tasks
      BY <2>4, MovedTyped DEF Store
    <3>3. TypedManager'
      BY <2>4, <3>2 DEF Store, TypedManager, managerVars
    <3> QED
      BY <2>4, <3>1, <3>3, MishapTyped
      DEF Store, TypedSetup, TypedSave, TypedDisk
  <2>5. CASE Publish(t)
    BY <2>2, <2>5 DEF Publish, TypedManager, TypedSetup, TypedSave, TypedDisk
  <2> QED
    BY <2>1, <2>3, <2>4, <2>5
<1>4. ASSUME StartDiscovery PROVE RemoteTypeOK'
  <2>1. NewTask("discovery", cfg, owned) \in Tasks
    BY <1>4, RemoteFacts, NewTaskTyped DEF StartDiscovery, TypedManager
  <2> QED
    BY <1>4, <2>1 DEF StartDiscovery, TypedManager, TypedSetup, TypedSave, TypedDisk
<1>5. ASSUME DiscoveryRuns PROVE RemoteTypeOK'
  <2>1. PICK t \in tasks : Discovered(t)
    BY <1>5 DEF DiscoveryRuns
  <2>2. t.host.id \in Ids /\ t.host.alias \in Names
    BY HostFacts, DirFacts DEF TypedManager, Tasks
  <2>3. tasks' \subseteq Tasks /\ refreshing' \in BOOLEAN
    BY <2>1, RefreshStartsTyped DEF Discovered, TypedManager
  <2>4. WithHelper(t.host.id, t.host.alias) \in [Ids -> Dirs]
    BY <2>2, HelperTyped
  <2>5. TypedDisk'
    BY <2>1, <2>4, MishapTyped DEF Discovered, TypedDisk
  <2>6. owned' \in BOOLEAN /\ probe' \in {"unknown", "probing", "ready", "fallback"}
    BY <2>1 DEF Discovered, TypedManager
  <2> QED
    BY <2>1, <2>3, <2>5, <2>6 DEF Discovered, TypedManager, TypedSetup, TypedSave
<1>6. ASSUME SetupBegin PROVE RemoteTypeOK'
  BY <1>6 DEF SetupBegin, managerVars, TypedManager, TypedSetup, TypedSave, TypedDisk
<1>7. ASSUME SetupEnds PROVE RemoteTypeOK'
  <2>1. ~TargetChanged(cfg, setup.host) /\ setup.host = NoHost => cfg = NoHost
    BY RemoteFacts, HostFacts DEF TypedManager, TargetChanged
  <2>2. setup.host # NoHost => WithHelper(setup.host.id, setup.host.alias) \in [Ids -> Dirs]
    BY RemoteFacts, HostFacts, DirFacts, HelperTyped DEF TypedSetup
  <2>3. setup.host = NoHost => WithHelper(setup.host.id, setup.host.alias) = dirs
    BY HostFacts DEF WithHelper, TypedDisk
  <2>4. TypedDisk'
    BY <1>7, <2>2, <2>3, MishapTyped DEF SetupEnds, TypedDisk
  <2>5. owned' \in BOOLEAN /\ probe' \in {"unknown", "probing", "ready", "fallback"}
    BY <1>7 DEF SetupEnds, TypedManager
  <2> QED
    BY <1>7, <2>4, <2>5, NoneTyped DEF SetupEnds, TypedManager, TypedSetup, TypedSave
<1>8. ASSUME Sweep \/ Boot PROVE RemoteTypeOK'
  <2>1. TypedDisk'
    BY <1>8, SweepTyped DEF Sweep, Boot
  <2> QED
    BY <1>8, <2>1 DEF Sweep, Boot, managerVars, TypedManager, TypedSetup, TypedSave
<1>9. ASSUME Booted PROVE RemoteTypeOK'
  <2>1. TypedManager' /\ TypedDisk' /\ setup' = setup
    BY <1>9, ApplyTyped, ApplyFailsTyped, RefusedTyped DEF Booted
  <2> QED
    BY <1>9, <2>1 DEF Booted, TypedSetup, TypedSave
<1>10. ASSUME Crash PROVE RemoteTypeOK'
  BY <1>10, StopsTyped, MishapTyped DEF Crash, TypedDisk
<1> QED
  BY <1>1, <1>2, <1>3, <1>4, <1>5, <1>6, <1>7, <1>8, <1>9, <1>10 DEF RemoteLocal

LEMMA InitFacts == RemoteInit => RInv
<1>1. RemoteInit => RemoteTypeOK
  <2>1. [i \in Ids |-> NoDir] \in [Ids -> Dirs]
    BY DirFacts
  <2>2. RemoteInit => TypedManager
    BY HostFacts, DirFacts DEF RemoteInit, TypedManager
  <2>3. RemoteInit => TypedSetup /\ TypedSave
    BY NoneTyped DEF RemoteInit, TypedSetup, TypedSave
  <2>4. RemoteInit => TypedDisk
    BY <2>1 DEF RemoteInit, TypedDisk
  <2> QED
    BY <2>2, <2>3, <2>4, TypeParts, HostFacts DEF RemoteInit
<1> QED
  BY <1>1, HostFacts, NoneTyped
  DEF RemoteInit, RInv, SetupKeepsHost, ReadyIsRecorded, StoringConfigured, RemovingIsQuiet,
      NothingShownUnconfigured, SettingUp, Removing

LEMMA TypeStep == RemoteTypeOK /\ [RemoteNext]_remoteVars => RemoteTypeOK'
<1>1. RemoteTypeOK /\ UNCHANGED remoteVars => RemoteTypeOK'
  BY DEF RemoteTypeOK, remoteVars, managerVars
<1> QED
  BY <1>1, PageTyped, HubTyped, LocalTyped DEF RemoteNext

----------------------------------------------------------------------------
(* What the parts of the actions do to the rest of the invariant.           *)

Rest ==
  /\ SetupKeepsHost
  /\ ReadyIsRecorded
  /\ StoringConfigured
  /\ RemovingIsQuiet
  /\ NothingShownUnconfigured

LEMMA RInvParts == RInv <=> RemoteTypeOK /\ Rest
BY DEF RInv, Rest

LEMMA NoSetupFacts == ASSUME setup = NoSetup PROVE ~SettingUp /\ ~Removing
BY DEF NoSetup, SettingUp, Removing

LEMMA RemovingSetsUp == Removing => SettingUp
BY DEF Removing, SettingUp

LEMMA StopsKeeps == Stops => Rest'
BY HostFacts
DEF Stops, Rest, SetupKeepsHost, ReadyIsRecorded, StoringConfigured, RemovingIsQuiet,
    NothingShownUnconfigured, SettingUp, Removing, NoSetup

\* Nothing is being written for a host that is not there.
LEMMA UnconfiguredCacheFree ==
  ASSUME RemoteTypeOK, StoringConfigured, cfg = NoHost
  PROVE  CacheFree
<1>1. \A t \in tasks : t.host.id # NoId
  BY HostFacts DEF RemoteTypeOK, Tasks
<1> QED
  BY <1>1, HostFacts DEF CacheFree, StoringConfigured, TargetChanged

LEMMA CancelledKeeps ==
  ASSUME RemoteTypeOK, StoringConfigured, tasks' = Cancelled(tasks),
         CacheFree \/ ~TargetChanged(cfg', cfg)
  PROVE  StoringConfigured'
BY CancelledTasks DEF RemoteTypeOK, StoringConfigured, CacheFree, TargetChanged

LEMMA ClearedKeeps ==
  ASSUME RemoteTypeOK, Rest, Cleared, CacheFree,
         \/ setup' = NoSetup
         \/ setup' = setup /\ ~Removing /\ (SettingUp => ~TargetChanged(cfg, NoHost))
  PROVE  Rest'
<1>1. StoringConfigured'
  BY CancelledKeeps DEF Cleared, Rest
<1>2. SetupKeepsHost'
  BY DEF Rest, Cleared, SetupKeepsHost, SettingUp, Removing, NoSetup, TargetChanged
<1>3. ReadyIsRecorded' /\ NothingShownUnconfigured'
  BY DEF Cleared, ReadyIsRecorded, NothingShownUnconfigured
<1>4. RemovingIsQuiet'
  BY DEF RemovingIsQuiet, Removing, NoSetup
<1> QED
  BY <1>1, <1>2, <1>3, <1>4 DEF Rest

LEMMA InstalledKeeps ==
  ASSUME RemoteTypeOK, Rest, NEW next \in Hosts, NEW o \in BOOLEAN, Installed(next, o),
         setup' = setup, ~Removing,
         SettingUp => ~TargetChanged(cfg, next),
         CacheFree \/ ~TargetChanged(cfg, next),
         ~TargetChanged(cfg, next) =>
           dirs' = dirs /\ (o <=> dirs[next.id].helper # NoAlias)
  PROVE  Rest'
<1>1. cfg' = next /\ cfg' # NoHost
  BY HostFacts DEF Installed
<1>2. SetupKeepsHost'
  BY <1>1 DEF Rest, SetupKeepsHost, SettingUp, TargetChanged
<1>3. StoringConfigured'
  <2>1. CASE tasks' = Cancelled(tasks)
    BY <1>1, <2>1, CancelledKeeps DEF Rest, TargetChanged
  <2>2. CASE tasks' = tasks
    BY <1>1, <2>2 DEF Rest, StoringConfigured, TargetChanged, CacheFree
  <2> QED
    BY <2>1, <2>2 DEF Installed
<1>4. RemovingIsQuiet' /\ NothingShownUnconfigured'
  BY <1>1 DEF RemovingIsQuiet, Removing, NothingShownUnconfigured
<1>5. ReadyIsRecorded'
  <2>1. CASE ~next.on
    BY <1>1, <2>1 DEF ReadyIsRecorded
  <2>2. CASE next.on /\ Restarts(next)
    BY <1>1, <2>2 DEF ReadyIsRecorded, Installed
  <2>3. CASE next.on /\ ~Restarts(next)
    <3>1. ~TargetChanged(cfg, next) /\ cfg.on
      BY <2>3 DEF Restarts
    <3>2. probe' = probe /\ owned' = o
      BY <2>3 DEF Installed
    <3>3. next.alias # NoAlias
      BY HostFacts
    <3> QED
      BY <1>1, <3>1, <3>2, <3>3 DEF Rest, ReadyIsRecorded, TargetChanged
  <2> QED
    BY <2>1, <2>2, <2>3
<1> QED
  BY <1>2, <1>3, <1>4, <1>5 DEF Rest

LEMMA ApplyKeeps ==
  ASSUME RemoteTypeOK, Rest, NEW next \in Remotes, Apply(next)
  PROVE  Rest'
<1>1. ~Removing /\ (SettingUp => ~TargetChanged(cfg, next)) /\ setup' = setup
  BY DEF Apply, Valid
<1>2. CASE next = NoHost
  <2>1. CacheFree
    BY <1>2, UnconfiguredCacheFree DEF Apply, RemoveSource, Rest
  <2>2. Cleared
    BY <1>2 DEF Apply
  <2> QED
    BY <1>1, <1>2, <2>1, <2>2, ClearedKeeps
<1>3. CASE next # NoHost
  <2>1. next \in Hosts /\ Installed(next, dirs[next.id].helper # NoAlias)
    BY <1>3, RemoteFacts DEF Apply
  <2>2. cfg # NoHost /\ TargetChanged(cfg, next) => Obsolete(next) # {}
    <3>1. next.id \in Ids /\ (cfg # NoHost => cfg.id \in Ids)
      BY <2>1, HostFacts, RemoteFacts DEF RemoteTypeOK
    <3> QED
      BY <3>1 DEF Obsolete, TargetChanged
  <2>3. CacheFree \/ ~TargetChanged(cfg, next)
    BY <1>3, <2>2, UnconfiguredCacheFree DEF Apply, Rest
  <2>4. ~TargetChanged(cfg, next) => Obsolete(next) = {}
    BY DEF Obsolete, TargetChanged
  <2>5. ~TargetChanged(cfg, next) => dirs' = dirs
    BY <1>3, <2>4 DEF Apply
  <2> QED
    BY <1>1, <2>1, <2>3, <2>5, InstalledKeeps
<1> QED
  BY <1>2, <1>3

LEMMA ApplyFailsKeeps ==
  ASSUME RemoteTypeOK, Rest, NEW next \in Remotes, ApplyFails(next)
  PROVE  Rest'
<1>1. CASE UNCHANGED <<managerVars, tasks, dirs>>
  BY <1>1
  DEF ApplyFails, managerVars, Rest, SetupKeepsHost, ReadyIsRecorded, StoringConfigured,
      RemovingIsQuiet, NothingShownUnconfigured, SettingUp, Removing
<1>2. CASE Valid(next) /\ cfg.id # next.id /\ Cleared
  <2>1. ~SettingUp
    BY <1>2 DEF Valid, TargetChanged
  <2> QED
    BY <1>2, <2>1, RemovingSetsUp, ClearedKeeps DEF ApplyFails
<1> QED
  BY <1>1, <1>2 DEF ApplyFails

LEMMA RefusedKeeps ==
  ASSUME RemoteTypeOK, Rest, NEW next \in Remotes, Refused(next)
  PROVE  Rest'
BY DEF Refused, managerVars, Rest, SetupKeepsHost, ReadyIsRecorded, StoringConfigured,
       RemovingIsQuiet, NothingShownUnconfigured, SettingUp, Removing

\* A sweep puts a source where none is: not where a helper is recorded.
LEMMA SweepFills ==
  ASSUME TypedDisk, SweepTrash, NEW i \in Ids, There(i)
  PROVE  dirs'[i] = dirs[i]
BY DEF SweepTrash, SweepOf, There, TypedDisk, Restorable

LEMMA SweepKeeps ==
  ASSUME RemoteTypeOK, Rest, SweepTrash, UNCHANGED <<managerVars, setup, tasks>>
  PROVE  Rest'
<1>1. ReadyIsRecorded'
  <2>1. ASSUME probe = "ready", cfg.on, ~Removing
        PROVE  dirs'[cfg.id].helper = cfg.alias
    <3>1. cfg.id \in Ids /\ cfg.alias \in Aliases /\ dirs[cfg.id].helper = cfg.alias
      BY <2>1, RemoteFacts, HostFacts DEF Rest, ReadyIsRecorded, RemoteTypeOK
    <3>2. There(cfg.id)
      BY <3>1, DirFacts DEF There
    <3> QED
      BY <3>1, <3>2, SweepFills, TypeParts
  <2> QED
    BY <2>1 DEF Rest, ReadyIsRecorded, Removing, managerVars
<1> QED
  BY <1>1 DEF Rest, managerVars, SetupKeepsHost, StoringConfigured, RemovingIsQuiet,
              NothingShownUnconfigured, SettingUp, Removing

----------------------------------------------------------------------------
(* What the actions do to it.                                                *)

LEMMA PageKeeps ==
  ASSUME RemoteTypeOK, Rest, SavePage(PageHosts)
  PROVE  Rest'
<1>1. ASSUME NEW next, NEW action, SaveValidate(next, action) PROVE Rest'
  BY <1>1
  DEF SaveValidate, managerVars, Rest, SetupKeepsHost, ReadyIsRecorded, StoringConfigured,
      RemovingIsQuiet, NothingShownUnconfigured, SettingUp, Removing
<1>2. ASSUME SaveWrite PROVE Rest'
  <2>1. ReadyIsRecorded'
    BY <1>2 DEF SaveWrite, Release, Rest, ReadyIsRecorded, Removing
  <2> QED
    BY <1>2, <2>1
    DEF SaveWrite, Rest, SetupKeepsHost, StoringConfigured, RemovingIsQuiet,
        NothingShownUnconfigured, SettingUp, Removing
<1>3. ASSUME StopsInSave PROVE Rest'
  BY <1>3, StopsKeeps DEF StopsInSave
<1>4. ASSUME SaveApply PROVE Rest'
  <2>1. save.next \in Remotes
    BY DEF RemoteTypeOK
  <2> QED
    BY <1>4, <2>1, ApplyKeeps, ApplyFailsKeeps, RefusedKeeps DEF SaveApply
<1> QED
  BY <1>1, <1>2, <1>3, <1>4 DEF SavePage

LEMMA HubKeeps ==
  ASSUME RemoteTypeOK, Rest, HubAsks(HubHosts)
  PROVE  Rest'
<1>1. ASSUME NEW next \in HubHosts, HubConfigures(next) PROVE Rest'
  <2>1. next \in Hosts
    BY DEF Hosts
  <2>2. ~Removing /\ (SettingUp => ~TargetChanged(cfg, next))
    BY <1>1 DEF HubConfigures, Valid
  <2>3. CacheFree \/ ~TargetChanged(cfg, next)
    BY <1>1, UnconfiguredCacheFree DEF HubConfigures, Rest
  <2> QED
    BY <1>1, <2>1, <2>2, <2>3, InstalledKeeps DEF HubConfigures
<1>2. ASSUME NEW next \in HubHosts, HubReplaces(next) PROVE Rest'
  <2>1. next \in Hosts
    BY DEF Hosts
  <2>2. ~SettingUp /\ ~Removing /\ TargetChanged(cfg, next)
    BY <1>2, RemovingSetsUp DEF HubReplaces, HubMayReplace
  <2>3. CASE StopsInRemoval(cfg.id, cfg.alias, next)
    BY <2>3, StopsKeeps DEF StopsInRemoval
  <2>4. CASE ~StopsInRemoval(cfg.id, cfg.alias, next)
    BY <1>2, <2>1, <2>2, <2>4, InstalledKeeps DEF HubReplaces, RemoveSource
  <2> QED
    BY <2>3, <2>4
<1>3. ASSUME HubRemoves PROVE Rest'
  <2>1. CASE StopsInRemoval(saved.id, saved.alias, NoHost)
    BY <2>1, StopsKeeps DEF StopsInRemoval
  <2>2. CASE ~StopsInRemoval(saved.id, saved.alias, NoHost)
    <3>1. /\ cfg' \in {cfg, saved} /\ ~TargetChanged(cfg', saved) /\ cfg' # NoHost
          /\ CacheFree /\ life' = FALSE /\ shown' = shown
          /\ tasks' = Cancelled(tasks)
          /\ setup' = [phase |-> "removing", host |-> saved]
      BY <1>3, <2>2 DEF HubRemoves, RemoveSource, TargetChanged
    <3>2. \A t \in tasks' : ~t.live /\ t.phase # "storing"
      BY <3>1, CancelledTasks DEF RemoteTypeOK, CacheFree
    <3> QED
      BY <3>1, <3>2
      DEF Rest, SetupKeepsHost, ReadyIsRecorded, StoringConfigured, RemovingIsQuiet,
          NothingShownUnconfigured, SettingUp, Removing, TargetChanged
  <2> QED
    BY <2>1, <2>2
<1> QED
  BY <1>1, <1>2, <1>3 DEF HubAsks

\* A refresh that starts finds no removal under way.
LEMMA RefreshStartsKeeps ==
  ASSUME RemoteTypeOK, Rest, NEW others \in SUBSET tasks, RefreshStarts(others),
         UNCHANGED <<cfg, life, setup>>
  PROVE  StoringConfigured' /\ RemovingIsQuiet'
<1>1. cfg \in Hosts
  BY RemoteFacts DEF RefreshStarts, RemoteTypeOK
<1>2. NewTask("refresh", cfg, FALSE).phase = "running"
  BY <1>1, NewTaskTyped
<1> QED
  BY <1>2 DEF RefreshStarts, Rest, StoringConfigured, RemovingIsQuiet, Removing

LEMMA FewerTasksKeep ==
  ASSUME Rest, tasks' \subseteq tasks, UNCHANGED <<cfg, life, setup>>
  PROVE  StoringConfigured' /\ RemovingIsQuiet'
BY DEF Rest, StoringConfigured, RemovingIsQuiet, Removing

LEMMA RefreshKeeps ==
  ASSUME RemoteTypeOK, Rest, NEW t \in tasks, Collected(t) \/ Store(t) \/ Publish(t)
  PROVE  Rest'
<1>1. t \in Tasks /\ t.host \in Hosts
  BY DEF RemoteTypeOK, Tasks
<1>2. CASE Collected(t)
  <2>1. CASE tasks' = tasks \ {t}
    BY <1>2, <2>1, FewerTasksKeep
    DEF Collected, Rest, SetupKeepsHost, ReadyIsRecorded, NothingShownUnconfigured, SettingUp,
        Removing
  <2>2. CASE /\ Current(t)
             /\ tasks' = (tasks \ {t}) \cup {[t EXCEPT !.phase = "storing"]}
    <3>1. ~TargetChanged(cfg, t.host) /\ ~Removing
      BY <2>2 DEF Current, Rest, RemovingIsQuiet
    <3>2. StoringConfigured'
      <4>1. [t EXCEPT !.phase = "storing"].host = t.host
        BY <1>1, PhaseTyped
      <4>2. \A u \in tasks' : u \in tasks \/ u.host = t.host
        BY <2>2, <4>1
      <4>3. cfg' = cfg
        BY <1>2 DEF Collected
      <4> QED
        BY <3>1, <4>2, <4>3 DEF Rest, StoringConfigured, TargetChanged
    <3> QED
      BY <1>2, <3>1, <3>2
      DEF Collected, Rest, SetupKeepsHost, ReadyIsRecorded, RemovingIsQuiet,
          NothingShownUnconfigured, SettingUp, Removing
  <2> QED
    BY <1>2, <2>1, <2>2 DEF Collected
<1>3. CASE Store(t)
  <2>1. PICK ph \in {"stored", "failed"} :
          tasks' = (tasks \ {t}) \cup {[t EXCEPT !.phase = ph]}
    BY <1>3 DEF Store
  <2>2. StoringConfigured' /\ RemovingIsQuiet'
    BY <1>1, <1>3, <2>1, PhaseTyped
    DEF Store, managerVars, Rest, StoringConfigured, RemovingIsQuiet, Removing, TargetChanged
  <2>3. \A i \in Ids : dirs'[i].helper = dirs[i].helper
    BY <1>3 DEF Store, RemoteTypeOK, Dirs
  <2>4. cfg.on => cfg.id \in Ids
    BY RemoteFacts, HostFacts DEF RemoteTypeOK
  <2> QED
    BY <1>3, <2>2, <2>3, <2>4
    DEF Store, managerVars, Rest, SetupKeepsHost, ReadyIsRecorded, NothingShownUnconfigured,
        SettingUp, Removing
<1>4. CASE Publish(t)
  <2>1. tasks' \subseteq tasks
    BY <1>4 DEF Publish
  <2>2. NothingShownUnconfigured'
    BY <1>4, HostFacts DEF Publish, Current, Rest, NothingShownUnconfigured
  <2> QED
    BY <1>4, <2>1, <2>2, FewerTasksKeep
    DEF Publish, Rest, SetupKeepsHost, ReadyIsRecorded, SettingUp, Removing
<1> QED
  BY <1>2, <1>3, <1>4

LEMMA DiscoveredKeeps ==
  ASSUME RemoteTypeOK, Rest, NEW t \in tasks, Discovered(t)
  PROVE  Rest'
<1>1. StoringConfigured' /\ RemovingIsQuiet'
  <2>1. CASE tasks' = tasks \ {t}
    BY <2>1, FewerTasksKeep DEF Discovered
  <2>2. CASE RefreshStarts(tasks \ {t})
    BY <2>2, RefreshStartsKeeps DEF Discovered
  <2> QED
    BY <2>1, <2>2 DEF Discovered
<1>2. ReadyIsRecorded'
  <2>1. CASE dirs' = WithHelper(t.host.id, t.host.alias) /\ owned' = TRUE
             /\ ~TargetChanged(cfg, t.host)
    <3>1. t.host.id \in Ids
      BY HostFacts DEF RemoteTypeOK, Tasks
    <3>2. dirs'[cfg.id].helper = cfg.alias
      BY <2>1, <3>1 DEF WithHelper, TargetChanged, RemoteTypeOK, Dirs
    <3> QED
      BY <2>1, <3>2 DEF Discovered, ReadyIsRecorded
  <2>2. CASE UNCHANGED <<owned, probe, dirs>>
    BY <2>2 DEF Discovered, Rest, ReadyIsRecorded, Removing
  <2>3. CASE probe' = "fallback"
    BY <2>3 DEF ReadyIsRecorded
  <2> QED
    BY <2>1, <2>2, <2>3 DEF Discovered
<1> QED
  BY <1>1, <1>2
  DEF Discovered, Rest, SetupKeepsHost, NothingShownUnconfigured, SettingUp

LEMMA SetupEndsKeeps ==
  ASSUME RemoteTypeOK, Rest, SetupEnds
  PROVE  Rest'
<1>1. ~Removing
  BY DEF SetupEnds, Removing
<1>2. ReadyIsRecorded'
  <2>1. CASE dirs' = WithHelper(setup.host.id, setup.host.alias) /\ owned' = TRUE
             /\ ~TargetChanged(cfg, setup.host)
    <3>1. cfg.on => cfg.id \in Ids
      BY RemoteFacts, HostFacts DEF RemoteTypeOK
    <3>2. cfg.on => dirs'[cfg.id].helper = cfg.alias
      BY <2>1, <3>1 DEF WithHelper, TargetChanged, RemoteTypeOK, Dirs
    <3> QED
      BY <2>1, <3>2 DEF SetupEnds, ReadyIsRecorded
  <2>2. CASE UNCHANGED <<owned, dirs>> /\ probe' \in {probe, "fallback"}
    BY <1>1, <2>2 DEF SetupEnds, Rest, ReadyIsRecorded
  <2> QED
    BY <2>1, <2>2 DEF SetupEnds
<1> QED
  BY <1>2
  DEF SetupEnds, Rest, SetupKeepsHost, StoringConfigured, RemovingIsQuiet,
      NothingShownUnconfigured, SettingUp, Removing, NoSetup

LEMMA LocalKeeps ==
  ASSUME RemoteTypeOK, Rest, RemoteLocal
  PROVE  Rest'
<1>1. ASSUME HubRemoved PROVE Rest'
  <2>1. CacheFree
    BY <1>1 DEF HubRemoved, Rest, RemovingIsQuiet, CacheFree
  <2> QED
    BY <1>1, <2>1, ClearedKeeps DEF HubRemoved
<1>2. ASSUME StartRefresh PROVE Rest'
  <2>1. StoringConfigured' /\ RemovingIsQuiet'
    BY <1>2, RefreshStartsKeeps DEF StartRefresh
  <2> QED
    BY <1>2, <2>1
    DEF StartRefresh, Rest, SetupKeepsHost, ReadyIsRecorded, NothingShownUnconfigured, SettingUp,
        Removing
<1>3. ASSUME RefreshRuns PROVE Rest'
  BY <1>3, RefreshKeeps DEF RefreshRuns
<1>4. ASSUME StartDiscovery PROVE Rest'
  <2>1. NewTask("discovery", cfg, owned).phase = "running"
    BY DEF NewTask
  <2>2. StoringConfigured' /\ RemovingIsQuiet'
    BY <1>4, <2>1 DEF StartDiscovery, Rest, StoringConfigured, RemovingIsQuiet, Removing
  <2> QED
    BY <1>4, <2>2
    DEF StartDiscovery, Rest, SetupKeepsHost, ReadyIsRecorded, NothingShownUnconfigured, SettingUp
<1>5. ASSUME DiscoveryRuns PROVE Rest'
  BY <1>5, DiscoveredKeeps DEF DiscoveryRuns
<1>6. ASSUME SetupBegin PROVE Rest'
  BY <1>6
  DEF SetupBegin, managerVars, Rest, SetupKeepsHost, ReadyIsRecorded, StoringConfigured,
      RemovingIsQuiet, NothingShownUnconfigured, SettingUp, Removing, TargetChanged
<1>7. ASSUME Sweep \/ Boot PROVE Rest'
  BY <1>7, SweepKeeps DEF Sweep, Boot
<1>8. ASSUME Booted PROVE Rest'
  <2>1. saved \in Remotes
    BY DEF RemoteTypeOK
  <2> QED
    BY <1>8, <2>1, ApplyKeeps, ApplyFailsKeeps, RefusedKeeps DEF Booted
<1>9. ASSUME Crash PROVE Rest'
  BY <1>9, StopsKeeps DEF Crash
<1> QED
  BY <1>1, <1>2, <1>3, <1>4, <1>5, <1>6, <1>7, <1>8, <1>9, SetupEndsKeeps DEF RemoteLocal

LEMMA RInvStep == RInv /\ [RemoteNext]_remoteVars => RInv'
<1>1. Rest /\ UNCHANGED remoteVars => Rest'
  BY DEF remoteVars, managerVars, Rest, SetupKeepsHost, ReadyIsRecorded, StoringConfigured,
         RemovingIsQuiet, NothingShownUnconfigured, SettingUp, Removing
<1>2. RemoteTypeOK /\ Rest /\ [RemoteNext]_remoteVars => Rest'
  BY <1>1, PageKeeps, HubKeeps, LocalKeeps DEF RemoteNext
<1>3. RInv' <=> RemoteTypeOK' /\ Rest'
  BY DEF RInv, Rest
<1> QED
  BY <1>2, <1>3, TypeStep, RInvParts

LEMMA RemoteInvariant == RemoteSpec => []RInv
BY InitFacts, RInvStep, PTL DEF RemoteSpec

----------------------------------------------------------------------------
(* The results.                                                              *)

\* The state of the remote sources keeps its type, through stops, failures and
\* any number of superseded refreshes.
THEOREM RemoteTypes == RemoteSpec => []RemoteTypeOK
<1>1. RInv => RemoteTypeOK
  BY DEF RInv
<1> QED
  BY <1>1, RemoteInvariant, PTL

\* Between the installation of a helper and the record of it, neither the
\* settings page nor Hub takes its host away.
THEOREM SetupKeepsItsHost == RemoteSpec => []SetupKeepsHost
<1>1. RInv => SetupKeepsHost
  BY DEF RInv
<1> QED
  BY <1>1, RemoteInvariant, PTL

\* A helper that a refresh may run is on record as the configured host's, with
\* any number of crashes and failed file operations.
THEOREM ReadyHelperRecorded == RemoteSpec => []ReadyIsRecorded
<1>1. RInv => ReadyIsRecorded
  BY DEF RInv
<1> QED
  BY <1>1, RemoteInvariant, PTL

----------------------------------------------------------------------------
(* What is written and what is shown, step by step.                          *)

OnlyForgets == \A i \in Ids : dirs'[i].data \in {NoAlias, dirs[i].data}

StoresForConfigured ==
  \A i \in Ids : dirs'[i].data \notin {NoAlias, dirs[i].data} /\ trash' = trash
    => cfg.id = i /\ cfg.alias = dirs'[i].data

LEMMA SourceForgets ==
  ASSUME TypedDisk, NEW id, dirs' = Detached(id)
  PROVE  OnlyForgets
BY DirFacts DEF Detached, OnlyForgets, TypedDisk

LEMMA HelperForgets ==
  ASSUME TypedDisk, NEW id, NEW alias, dirs' = [dirs EXCEPT ![id].helper = alias]
  PROVE  OnlyForgets
BY DEF OnlyForgets, TypedDisk, Dirs

LEMMA UnchangedForgets == ASSUME dirs' = dirs PROVE OnlyForgets
BY DEF OnlyForgets

LEMMA ApplyForgets ==
  ASSUME TypedDisk, NEW next, Apply(next) \/ ApplyFails(next) \/ Refused(next)
  PROVE  OnlyForgets
<1>1. CASE dirs' = [i \in Ids |-> IF i \in Obsolete(next) THEN NoDir ELSE dirs[i]]
  BY <1>1, DirFacts DEF OnlyForgets, TypedDisk
<1>2. CASE dirs' = dirs
  BY <1>2, UnchangedForgets
<1>3. CASE dirs' = Detached(cfg.id)
  BY <1>3, SourceForgets
<1> QED
  BY <1>1, <1>2, <1>3 DEF Apply, ApplyFails, Refused, RemoveSource, RemoveClean, RemoveDirty

\* A sweep that puts a source back takes its record out of the trash.
LEMMA SweepStores ==
  ASSUME SweepTrash, trash' = trash
  PROVE  dirs' = dirs
BY DEF SweepTrash, SweepOf

LEMMA StoreStep ==
  ASSUME RInv, RemoteNext
  PROVE  StoresForConfigured
<1> USE RInvParts, TypeParts
<1>1. OnlyForgets => StoresForConfigured
  BY DEF OnlyForgets, StoresForConfigured
<1>2. CASE SavePage(PageHosts)
  <2>1. CASE dirs' = dirs
    BY <2>1, UnchangedForgets, <1>1
  <2>2. CASE SaveWrite /\ Release
    BY <2>2, HelperForgets, UnchangedForgets, <1>1 DEF Release
  <2>3. CASE SaveApply
    BY <2>3, ApplyForgets, <1>1 DEF SaveApply
  <2> QED
    BY <1>2, <2>1, <2>2, <2>3 DEF SavePage, SaveValidate, SaveWrite, StopsInSave
<1>3. CASE HubAsks(HubHosts)
  BY <1>1, <1>3, SourceForgets, UnchangedForgets
  DEF HubAsks, HubConfigures, HubReplaces, HubRemoves, RemoveSource, RemoveClean, RemoveDirty,
      StopsInRemoval
<1>4. CASE RefreshRuns
  <2>1. PICK t \in tasks : Collected(t) \/ Store(t) \/ Publish(t)
    BY <1>4 DEF RefreshRuns
  <2>2. CASE Store(t) /\ dirs' # dirs
    <3>1. ~TargetChanged(cfg, t.host)
      BY <2>2 DEF Store, Rest, StoringConfigured
    <3>2. dirs' = [dirs EXCEPT ![t.host.id].data = t.host.alias]
      BY <2>2 DEF Store
    <3>3. \A i \in Ids : dirs'[i].data # dirs[i].data
                         => i = t.host.id /\ dirs'[i].data = t.host.alias
      BY <3>2 DEF TypedDisk, Dirs
    <3> QED
      BY <3>1, <3>3 DEF StoresForConfigured, TargetChanged
  <2>3. CASE dirs' = dirs
    BY <2>3, UnchangedForgets, <1>1
  <2> QED
    BY <2>1, <2>2, <2>3 DEF Collected, Publish
<1>5. CASE DiscoveryRuns
  BY <1>1, <1>5, HelperForgets, UnchangedForgets DEF DiscoveryRuns, Discovered, WithHelper
<1>6. CASE HubRemoved \/ SetupEnds
  BY <1>1, <1>6, HelperForgets, UnchangedForgets DEF HubRemoved, SetupEnds, WithHelper
<1>7. CASE Sweep \/ Boot
  BY <1>7, SweepStores DEF Sweep, Boot, StoresForConfigured
<1>8. CASE Booted
  BY <1>1, <1>8, ApplyForgets DEF Booted
<1>9. CASE StartRefresh \/ StartDiscovery \/ SetupBegin \/ Crash
  BY <1>1, <1>9, UnchangedForgets DEF StartRefresh, StartDiscovery, SetupBegin, Crash
<1> QED
  BY <1>2, <1>3, <1>4, <1>5, <1>6, <1>7, <1>8, <1>9 DEF RemoteNext, RemoteLocal

ShowsConfigured ==
  cfg'.on /\ shown' # NoAlias /\ (shown' # shown \/ cfg' # cfg)
    => \/ shown' = cfg'.alias
       \/ /\ cfg' # cfg /\ dirs[cfg'.id].data = shown'
          /\ cfg.id = cfg'.id => cfg.alias = cfg'.alias

LEMMA UnconfiguredShows == ASSUME cfg' = NoHost PROVE ShowsConfigured
BY HostFacts DEF ShowsConfigured

LEMMA SameShows == ASSUME UNCHANGED <<cfg, shown>> PROVE ShowsConfigured
BY DEF ShowsConfigured

LEMMA InstalledShows ==
  ASSUME RInv, NEW next \in Hosts, NEW o, Installed(next, o)
  PROVE  ShowsConfigured
<1>1. cfg \in Remotes /\ cfg' = next
  BY DEF Installed, RInv, RemoteTypeOK
<1>2. CASE next.on /\ Restarts(next)
  <2>1. cfg' # cfg
    BY <1>1, <1>2, HostFacts DEF Restarts, TargetChanged
  <2>2. shown' = View(next)
    BY <1>2 DEF Installed
  <2>3. cfg = NoHost => cfg.id # next.id
    BY HostFacts
  <2> QED
    BY <1>1, <2>1, <2>2, <2>3 DEF View, ShowsConfigured
<1>3. CASE next.on /\ ~Restarts(next)
  <2>1. cfg \in Hosts /\ cfg.id = next.id /\ cfg.alias = next.alias /\ cfg.on = next.on
    BY <1>1, <1>3, RemoteFacts, HostFacts DEF Restarts, TargetChanged
  <2>2. cfg = next
    BY <2>1, HostFacts
  <2> QED
    BY <1>1, <1>3, <2>2, SameShows DEF Installed
<1>4. CASE ~next.on
  BY <1>1, <1>4 DEF ShowsConfigured
<1> QED
  BY <1>2, <1>3, <1>4, HostFacts

LEMMA ApplyShows ==
  ASSUME RInv, NEW next \in Remotes, Apply(next) \/ ApplyFails(next) \/ Refused(next)
  PROVE  ShowsConfigured
<1>1. CASE next \in Hosts /\ Installed(next, dirs[next.id].helper # NoAlias)
  BY <1>1, InstalledShows
<1>2. CASE Cleared
  BY <1>2, UnconfiguredShows DEF Cleared
<1>3. CASE UNCHANGED managerVars
  BY <1>3, SameShows DEF managerVars
<1> QED
  BY <1>1, <1>2, <1>3, RemoteFacts DEF Apply, ApplyFails, Refused

LEMMA ShowStep ==
  ASSUME RInv, RemoteNext
  PROVE  ShowsConfigured
<1>1. CASE SavePage(PageHosts)
  <2>1. save.next \in Remotes
    BY DEF RInv, RemoteTypeOK
  <2>2. CASE SaveApply
    BY <2>1, <2>2, ApplyShows DEF SaveApply
  <2>3. CASE StopsInSave
    BY <2>3, UnconfiguredShows DEF StopsInSave, Stops
  <2>4. CASE UNCHANGED <<cfg, shown>>
    BY <2>4, SameShows
  <2> QED
    BY <1>1, <2>2, <2>3, <2>4 DEF SavePage, SaveValidate, SaveWrite, managerVars
<1>2. CASE HubAsks(HubHosts)
  <2>1. CASE Stops
    BY <2>1, UnconfiguredShows DEF Stops
  <2>2. ASSUME NEW next \in HubHosts, HubConfigures(next) \/ HubReplaces(next), ~Stops
        PROVE  ShowsConfigured
    <3>1. next \in Hosts
      BY DEF Hosts
    <3> QED
      BY <2>2, <3>1, InstalledShows DEF HubConfigures, HubReplaces, StopsInRemoval
  <2>3. CASE HubRemoves /\ ~Stops
    <3>1. shown' = shown /\ (cfg' = cfg \/ cfg = NoHost)
      BY <2>3 DEF HubRemoves, StopsInRemoval
    <3> QED
      BY <3>1 DEF ShowsConfigured, RInv, NothingShownUnconfigured
  <2> QED
    BY <1>2, <2>1, <2>2, <2>3 DEF HubAsks
<1>3. CASE RefreshRuns
  <2>1. PICK t \in tasks : Collected(t) \/ Store(t) \/ Publish(t)
    BY <1>3 DEF RefreshRuns
  <2>2. CASE Publish(t)
    BY <2>2 DEF Publish, Current, TargetChanged, ShowsConfigured
  <2>3. CASE UNCHANGED <<cfg, shown>>
    BY <2>3, SameShows
  <2> QED
    BY <2>1, <2>2, <2>3 DEF Collected, Store, managerVars
<1>4. CASE Booted
  <2>1. saved \in Remotes
    BY DEF RInv, RemoteTypeOK
  <2> QED
    BY <1>4, <2>1, ApplyShows DEF Booted
<1>5. CASE HubRemoved \/ Crash
  BY <1>5, UnconfiguredShows DEF HubRemoved, Crash, Cleared, Stops
<1>6. CASE UNCHANGED <<cfg, shown>>
  BY <1>6, SameShows
<1> QED
  BY <1>1, <1>2, <1>3, <1>4, <1>5, <1>6
  DEF RemoteNext, RemoteLocal, StartRefresh, StartDiscovery, DiscoveryRuns, Discovered,
      SetupBegin, SetupEnds, Sweep, Boot, managerVars

\* Whatever is superseded, switched or removed while a refresh runs, a cache is
\* only written as the configured host's.
THEOREM OnlyConfiguredStored == RemoteSpec => StoresConfigured
<1>1. RInv /\ [RemoteNext]_remoteVars => [StoresForConfigured]_remoteVars
  BY StoreStep
<1>2. RemoteSpec => [][StoresForConfigured]_remoteVars
  BY <1>1, RemoteInvariant, PTL DEF RemoteSpec
<1> QED
  BY <1>2 DEF StoresConfigured, StoresForConfigured

\* The sessions that appear are the configured host's or what its directory
\* held, never those of a host that was replaced or of a superseded refresh.
THEOREM OnlyConfiguredShown == RemoteSpec => ShownIsConfigured
<1>1. RInv /\ [RemoteNext]_remoteVars => [ShowsConfigured]_remoteVars
  BY ShowStep
<1>2. RemoteSpec => [][ShowsConfigured]_remoteVars
  BY <1>1, RemoteInvariant, PTL DEF RemoteSpec
<1> QED
  BY <1>2 DEF ShownIsConfigured, ShowsConfigured

----------------------------------------------------------------------------
(* A removal that was not committed.                                         *)

\* What is in the trash was left there by a mishap; by one, there is one record.
OneRemoval == /\ mishaps \in Nat
              /\ trash # {} => mishaps >= 1
              /\ mishaps <= 1 => \A t, u \in trash : t = u

\* If nothing else failed, the sweep at the start leaves no source in the trash
\* whose place is free.
BootSwept ==
  program = "booting" /\ mishaps <= 1 => \A t \in trash : Restorable(t, saved) => There(t.id)

\* Only a mishap leaves a removal in the trash, only a sweep takes it out.
Grown ==
  /\ mishaps' \in Nat /\ mishaps' >= mishaps
  /\ trash' \subseteq trash \/ (Mishap /\ \E r : trash' = trash \cup {r})
  /\ trash \subseteq trash' \/ SweepTrash

LEMMA TrashGrows ==
  ASSUME RemoteNext, mishaps \in Nat
  PROVE  Grown
<1> USE DEF Grown
<1>1. CASE UNCHANGED <<trash, mishaps>>
  BY <1>1
<1>2. Mishap => mishaps' \in Nat /\ mishaps' >= mishaps
  BY DEF Mishap
<1>3. ASSUME NEW id, NEW prev, RemoveSource(id, prev)
      PROVE  Grown
  BY <1>2, <1>3 DEF RemoveSource, RemoveClean, RemoveDirty, Recorded
<1>4. ASSUME NEW id, NEW prev, NEW next, StopsInRemoval(id, prev, next)
      PROVE  Grown
  BY <1>2, <1>4 DEF StopsInRemoval, Recorded
<1>5. ASSUME NEW next, Apply(next) \/ Refused(next) \/ ApplyFails(next)
      PROVE  Grown
  BY <1>2, <1>3, <1>5 DEF Apply, Refused, ApplyFails
<1>6. ASSUME SweepTrash
      PROVE  Grown
  BY <1>2, <1>6 DEF SweepTrash, SweepOf
<1>7. CASE SavePage(PageHosts)
  <2>1. CASE SaveApply
    BY <1>5, <2>1 DEF SaveApply
  <2>2. CASE SaveWrite \/ StopsInSave
    BY <1>1, <1>2, <2>2 DEF SaveWrite, StopsInSave
  <2>3. ASSUME NEW next, NEW action, SaveValidate(next, action)
        PROVE  Grown
    BY <1>1, <2>3 DEF SaveValidate
  <2> QED
    BY <1>7, <2>1, <2>2, <2>3 DEF SavePage
<1>8. CASE HubAsks(HubHosts)
  BY <1>3, <1>4, <1>8 DEF HubAsks, HubConfigures, HubReplaces, HubRemoves
<1>9. CASE RefreshRuns \/ DiscoveryRuns
  <2>1. PICK t \in tasks : Collected(t) \/ Store(t) \/ Publish(t) \/ Discovered(t)
    BY <1>9 DEF RefreshRuns, DiscoveryRuns
  <2>2. trash' = trash /\ (mishaps' = mishaps \/ Mishap)
    BY <2>1 DEF Collected, Store, Publish, Discovered
  <2> QED
    BY <1>2, <2>2
<1>10. CASE Sweep \/ Boot
  BY <1>6, <1>10 DEF Sweep, Boot
<1>11. CASE Booted
  BY <1>5, <1>11 DEF Booted
<1>12. CASE HubRemoved \/ StartRefresh \/ StartDiscovery \/ SetupBegin \/ SetupEnds \/ Crash
  BY <1>2, <1>12 DEF HubRemoved, StartRefresh, StartDiscovery, SetupBegin, SetupEnds, Crash
<1> QED
  BY <1>7, <1>8, <1>9, <1>10, <1>11, <1>12 DEF RemoteNext, RemoteLocal

LEMMA OneRemovalStep ==
  ASSUME OneRemoval, RemoteNext
  PROVE  OneRemoval' /\ mishaps' >= mishaps
<1>1. /\ mishaps' \in Nat /\ mishaps' >= mishaps
      /\ trash' \subseteq trash \/ (Mishap /\ \E r : trash' = trash \cup {r})
  BY TrashGrows DEF OneRemoval, Grown
<1>2. CASE trash' \subseteq trash
  BY <1>1, <1>2 DEF OneRemoval
<1>3. CASE Mishap /\ \E r : trash' = trash \cup {r}
  <2>1. mishaps' = mishaps + 1
    BY <1>3 DEF Mishap
  <2>2. mishaps' <= 1 => trash = {}
    BY <2>1 DEF OneRemoval
  <2> QED
    BY <1>1, <1>3, <2>1, <2>2 DEF OneRemoval
<1> QED
  BY <1>1, <1>2, <1>3

\* A sweep, the first to fail included, puts the one source that was removed
\* back, or leaves it because its place is taken.
LEMMA SweepRestores ==
  ASSUME TypedDisk, OneRemoval, SweepTrash, mishaps' <= 1
  PROVE  /\ \A t \in trash' : Restorable(t, saved) => There(t.id)'
         /\ \A t \in trash : Restorable(t, saved) /\ ~There(t.id) => dirs'[t.id] = t.kept
         /\ saved # NoHost /\ There(saved.id) => dirs'[saved.id] = dirs[saved.id]
<1> DEFINE stay == {t \in trash : Restorable(t, saved) /\ There(t.id)}
           back == {t \in trash : Restorable(t, saved)} \ stay
<1>1. CASE trash = {}
  <2>1. trash' = {} /\ dirs' = dirs
    BY <1>1 DEF SweepTrash, SweepOf
  <2> QED
    BY <1>1, <2>1
<1>2. CASE trash # {}
  <2>1. SweepOf(trash) /\ mishaps <= 1
    <3>1. ~Mishap
      BY <1>2 DEF Mishap, OneRemoval
    <3> QED
      BY <3>1 DEF SweepTrash
  <2>2. CASE back = {}
    <3>1. dirs' = dirs /\ trash' = trash \ (trash \ stay)
      BY <2>1, <2>2 DEF SweepOf
    <3> QED
      BY <2>2, <3>1 DEF There
  <2>3. CASE back # {}
    <3>1. PICK t \in back : /\ trash' = (trash \ (trash \ stay)) \cup (back \ {t})
                            /\ dirs' = [dirs EXCEPT ![t.id] = t.kept]
      BY <2>1, <2>3 DEF SweepOf
    <3>2. /\ \A u \in trash : u = t
          /\ t.id \in Ids /\ Restorable(t, saved) /\ ~There(t.id)
      BY <2>1, <3>1 DEF OneRemoval, TypedDisk, Removed
    <3>3. trash' = {} /\ dirs'[t.id] = t.kept
      BY <3>1, <3>2 DEF TypedDisk
    <3> QED
      BY <3>2, <3>3 DEF Restorable
  <2> QED
    BY <2>2, <2>3
<1> QED
  BY <1>1, <1>2

LEMMA BootSweptStep ==
  ASSUME TypedDisk, OneRemoval, RemoteNext
  PROVE  BootSwept'
<1>1. program' # "booting" \/ Boot
  <2>1. CASE SavePage(PageHosts)
    BY <2>1 DEF SavePage, SaveValidate, SaveWrite, StopsInSave, SaveApply, Stops, Up
  <2>2. CASE HubAsks(HubHosts)
    BY <2>2 DEF HubAsks, HubConfigures, HubReplaces, HubMayReplace, HubRemoves, StopsInRemoval, Stops, Up
  <2>3. CASE RefreshRuns \/ DiscoveryRuns
    <3>1. PICK t \in tasks : Collected(t) \/ Store(t) \/ Publish(t) \/ Discovered(t)
      BY <2>3 DEF RefreshRuns, DiscoveryRuns
    <3>2. program' = program /\ program = "up"
      BY <3>1 DEF Collected, Store, Publish, Discovered, Up
    <3> QED
      BY <3>2
  <2>4. CASE HubRemoved \/ StartRefresh \/ StartDiscovery \/ SetupBegin \/ SetupEnds \/ Sweep
             \/ Booted \/ Crash
    BY <2>4 DEF HubRemoved, StartRefresh, StartDiscovery, SetupBegin, SetupEnds, Sweep, Booted, Crash,
                Stops, Up
  <2> QED
    BY <2>1, <2>2, <2>3, <2>4 DEF RemoteNext, RemoteLocal
<1>2. CASE Boot
  BY <1>2, SweepRestores DEF Boot, BootSwept, Restorable
<1> QED
  BY <1>1, <1>2 DEF BootSwept

LEMMA PlaceIs ==
  ASSUME TypedDisk, saved \in Hosts, dirs[saved.id].data = saved.alias
  PROVE  saved.id \in Ids /\ There(saved.id) /\ dirs[saved.id] \in Dirs
  BY HostFacts, DirFacts, NameAssumption DEF There, TypedDisk

LEMMA RemovalRecorded ==
  ASSUME TypedDisk, saved \in Hosts, NEW next, saved' = saved,
         dirs[saved.id].data = saved.alias, StopsInRemoval(saved.id, saved.alias, next)
  PROVE  Kept(saved)' /\ Recoverable(saved)'
<1>1. saved.id \in Ids /\ There(saved.id) /\ saved # NoHost
  BY PlaceIs, HostFacts
<1> DEFINE r == Record(saved.id, saved.alias)
<1>2. r \in trash' /\ r.id = saved.id /\ r.prev = saved.alias /\ r.kept.data = saved.alias
  BY <1>1 DEF StopsInRemoval, Recorded, Record
<1>3. dirs'[saved.id] = NoDir /\ program' = "down"
  BY <1>1 DEF StopsInRemoval, Detached, Stops, TypedDisk
<1>4. ~Up' /\ ~There(saved.id)'
  BY <1>3 DEF Up, There
<1>5. Restorable(r, saved)
  BY <1>1, <1>2 DEF Restorable
<1> HIDE DEF r
<1> QED
  BY <1>2, <1>4, <1>5 DEF Kept, Recoverable, Restorable

\* A sweep does not touch a source that is in its place, and what it takes out of
\* the trash is put back or was not the configured host's.
LEMMA SweepSpares ==
  ASSUME TypedDisk, SweepTrash, saved # NoHost
  PROVE  /\ There(saved.id) => dirs'[saved.id] = dirs[saved.id]
         /\ \A t \in trash : Restorable(t, saved) => t \in trash' \/ dirs'[t.id] = t.kept
<1>1. PICK done \in SUBSET trash : SweepOf(done)
  BY DEF SweepTrash
<1> DEFINE stay == {t \in done : Restorable(t, saved) /\ There(t.id)}
           back == {t \in done : Restorable(t, saved)} \ stay
<1>2. CASE back = {}
  BY <1>1, <1>2 DEF SweepOf
<1>3. CASE back # {}
  <2>1. PICK t \in back : /\ trash' = (trash \ (done \ stay)) \cup (back \ {t})
                          /\ dirs' = [dirs EXCEPT ![t.id] = t.kept]
    BY <1>1, <1>3 DEF SweepOf
  <2>2. t.id \in Ids /\ t.id = saved.id /\ ~There(t.id)
    BY <2>1 DEF TypedDisk, Removed, Restorable
  <2> QED
    BY <2>1, <2>2 DEF TypedDisk
<1> QED
  BY <1>2, <1>3

\* The cache is in its place, and stays or is recorded.
LEMMA PlaceStep ==
  ASSUME RInv, RemoteNext, saved \in Hosts, saved' = saved,
         cfg \in {NoHost, saved}, save.phase = "none", dirs[saved.id].data = saved.alias
  PROVE  Kept(saved)' /\ Recoverable(saved)'
<1> DEFINE Held == Kept(saved)' /\ Recoverable(saved)'
<1> USE RInvParts, TypeParts
<1>1. saved.id \in Ids /\ There(saved.id) /\ dirs \in [Ids -> Dirs] /\ saved # NoHost
  BY PlaceIs, HostFacts DEF TypedDisk
<1>2. dirs'[saved.id].data = saved.alias => Held
  BY DEF Kept, Recoverable
<1>3. dirs' = dirs => Held
  BY <1>2
<1>4. ASSUME NEW id, NEW alias, dirs' = [dirs EXCEPT ![id].helper = alias]
      PROVE  dirs'[saved.id].data = dirs[saved.id].data
  BY <1>1, <1>4 DEF Dirs
<1>5. CASE SavePage(PageHosts)
  BY <1>3, <1>5 DEF SavePage, SaveValidate, SaveWrite, StopsInSave, SaveApply
<1>6. CASE HubAsks(HubHosts)
  <2>1. ASSUME NEW next, HubConfigures(next)
        PROVE  Held
    BY <1>3, <2>1 DEF HubConfigures
  <2>2. ASSUME NEW next, HubReplaces(next)
        PROVE  Held
    <3>1. cfg = saved /\ StopsInRemoval(cfg.id, cfg.alias, next)
      BY <2>2 DEF HubReplaces, HubMayReplace
    <3> QED
      BY <3>1, RemovalRecorded
  <2>3. CASE HubRemoves
    <3>1. StopsInRemoval(saved.id, saved.alias, NoHost)
      BY <1>1, <2>3 DEF HubRemoves
    <3> QED
      BY <3>1, RemovalRecorded
  <2> QED
    BY <1>6, <2>1, <2>2, <2>3 DEF HubAsks
<1>7. CASE RefreshRuns
  <2>1. PICK t \in tasks : Collected(t) \/ Store(t) \/ Publish(t)
    BY <1>7 DEF RefreshRuns
  <2>2. CASE Store(t) /\ dirs' # dirs
    <3>1. /\ ~TargetChanged(cfg, t.host) /\ t.host.id \in Ids
          /\ dirs' = [dirs EXCEPT ![t.host.id].data = t.host.alias]
      BY <2>2, HostFacts DEF Store, Rest, StoringConfigured, TypedManager, Tasks
    <3>2. cfg = saved
      BY <3>1, HostFacts, NameAssumption DEF TargetChanged
    <3> QED
      BY <1>1, <1>2, <3>1, <3>2 DEF TargetChanged, Dirs
  <2> QED
    BY <1>3, <2>1, <2>2 DEF Collected, Publish
<1>8. CASE DiscoveryRuns \/ HubRemoved \/ SetupEnds
  BY <1>2, <1>3, <1>4, <1>8 DEF DiscoveryRuns, Discovered, HubRemoved, SetupEnds, WithHelper
<1>9. CASE Sweep \/ Boot
  <2>1. dirs'[saved.id] = dirs[saved.id]
    BY <1>1, <1>9, SweepSpares DEF Sweep, Boot
  <2> QED
    BY <1>2, <2>1
<1>10. CASE Booted
  <2>1. cfg = NoHost \/ (cfg.id = saved.id /\ cfg.alias = saved.alias)
    OBVIOUS
  <2>2. Obsolete(saved) = {}
    BY <2>1 DEF Obsolete
  <2>3. dirs' = dirs
    BY <1>1, <1>10, <2>1, <2>2 DEF Booted, Apply, Refused, ApplyFails
  <2> QED
    BY <1>3, <2>3
<1>11. CASE StartRefresh \/ StartDiscovery \/ SetupBegin \/ Crash
  BY <1>3, <1>11 DEF StartRefresh, StartDiscovery, SetupBegin, Crash
<1> QED
  BY <1>5, <1>6, <1>7, <1>8, <1>9, <1>10, <1>11 DEF RemoteNext, RemoteLocal

\* It is in the trash, and the next start puts it back.
LEMMA TrashStep ==
  ASSUME RInv, OneRemoval, BootSwept, RemoteNext, saved \in Hosts, saved' = saved,
         ~Up, ~There(saved.id), mishaps' <= 1,
         NEW t \in trash, Restorable(t, saved), t.kept.data = saved.alias
  PROVE  Kept(saved)'
<1> USE RInvParts, TypeParts
<1>1. t.id = saved.id
  BY DEF Restorable
<1>2. program = "down"
  BY <1>1, OneRemovalStep DEF Up, BootSwept, OneRemoval
<1>3. Boot
  BY <1>2 DEF RemoteNext, RemoteLocal, SavePage, SaveValidate, SaveWrite, StopsInSave, SaveApply,
         HubAsks, HubConfigures, HubReplaces, HubMayReplace, HubRemoves, HubRemoved, StartRefresh,
         RefreshRuns, Collected, Store, Publish, StartDiscovery, DiscoveryRuns, Discovered,
         SetupBegin, SetupEnds, Sweep, Booted, Crash, Up
<1>4. dirs'[t.id] = t.kept
  BY <1>1, <1>3, SweepRestores DEF Boot
<1> QED
  BY <1>1, <1>4 DEF Kept

\* It is in the trash, and stays there or is put back.
LEMMA RecordStep ==
  ASSUME RInv, OneRemoval, RemoteNext, saved # NoHost, saved' = saved,
         NEW t \in trash, Restorable(t, saved), t.kept.data = saved.alias
  PROVE  Recoverable(saved)'
<1>1. trash \subseteq trash' \/ SweepTrash
  BY TrashGrows DEF OneRemoval, Grown
<1>2. CASE trash \subseteq trash'
  BY <1>2 DEF Recoverable, Restorable
<1>3. CASE SweepTrash
  <2>1. t \in trash' \/ dirs'[t.id] = t.kept
    BY <1>3, SweepSpares, RInvParts, TypeParts
  <2> QED
    BY <2>1 DEF Recoverable, Restorable
<1> QED
  BY <1>1, <1>2, <1>3

KeepsUncommitted ==
  saved # NoHost /\ saved' = saved /\ cfg \in {NoHost, saved} /\ save.phase = "none"
  => /\ Recoverable(saved) => Recoverable(saved)'
     /\ mishaps' <= 1 /\ Kept(saved) => Kept(saved)'

LEMMA KeepsStep ==
  ASSUME RInv, OneRemoval, BootSwept, RemoteNext
  PROVE  KeepsUncommitted
<1> SUFFICES ASSUME saved # NoHost, saved' = saved, cfg \in {NoHost, saved}, save.phase = "none"
             PROVE  /\ Recoverable(saved) => Recoverable(saved)'
                    /\ mishaps' <= 1 /\ Kept(saved) => Kept(saved)'
  BY DEF KeepsUncommitted
<1>1. saved \in Hosts
  BY RemoteFacts DEF RInv, RemoteTypeOK
<1>2. CASE dirs[saved.id].data = saved.alias
  BY <1>1, <1>2, PlaceStep
<1>3. CASE dirs[saved.id].data # saved.alias
  <2>1. Recoverable(saved) => Recoverable(saved)'
    BY <1>3, RecordStep DEF Recoverable
  <2>2. mishaps' <= 1 /\ Kept(saved) => Kept(saved)'
    BY <1>1, <1>3, TrashStep DEF Kept
  <2> QED
    BY <2>1, <2>2
<1> QED
  BY <1>2, <1>3

\* A host that stays configured does not lose its cache to a crash or a failed
\* file operation, however many there are: what a removal took away is recorded,
\* and if nothing else failed the sweep of the next start puts it back.
THEOREM RemovalUndone == RemoteSpec => UncommittedKept
<1>1. RemoteInit => OneRemoval /\ BootSwept
  BY DEF RemoteInit, OneRemoval, BootSwept
<1>2. RInv /\ OneRemoval /\ BootSwept /\ [RemoteNext]_remoteVars => (OneRemoval /\ BootSwept)'
  <2>1. ASSUME RInv, OneRemoval, BootSwept, RemoteNext
        PROVE  (OneRemoval /\ BootSwept)'
    BY <2>1, OneRemovalStep, BootSweptStep, RInvParts, TypeParts
  <2>2. ASSUME OneRemoval, BootSwept, UNCHANGED remoteVars
        PROVE  (OneRemoval /\ BootSwept)'
    BY <2>2 DEF remoteVars, OneRemoval, BootSwept, Restorable, There
  <2> QED
    BY <2>1, <2>2
<1>3. RInv /\ OneRemoval /\ BootSwept /\ [RemoteNext]_remoteVars => [KeepsUncommitted]_remoteVars
  BY KeepsStep
<1>4. RemoteSpec => [][KeepsUncommitted]_remoteVars
  BY <1>1, <1>2, <1>3, RemoteInvariant, PTL DEF RemoteSpec
<1> QED
  BY <1>4 DEF UncommittedKept, KeepsUncommitted

=============================================================================
