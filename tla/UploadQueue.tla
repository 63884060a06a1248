---------------------------- MODULE UploadQueue ----------------------------
(***************************************************************************)
(* The v4 upload queue and the sync pass that drives it                    *)
(* (collector/internal/syncv4: queue.go, runner.go, warmstart.go, plan.go, *)
(* with the bundle spool of collector/internal/sessionbackupproducer).     *)
(*                                                                         *)
(* One goroutine runs passes.  A pass checks in with the Hub, deletes      *)
(* abandoned bundles, merges what discovery found, lists the sessions on   *)
(* the Hub and works through copies of the queue entries: it captures the  *)
(* source into a bundle, opens an upload, sends the chunks and finalizes.  *)
(* Sources change, the owner changes the policy, the Hub accepts, fails or *)
(* forgets uploads and the process stops at any point in between.          *)
(*                                                                         *)
(* A source version (1..MaxVersion) stands for a value of Activity and     *)
(* SourceRevision together, and for the content captured at that version:  *)
(* bundle IDs and content hashes are functions of the content.  The Hub is *)
(* external and is modelled from the answers the runner distinguishes.     *)
(***************************************************************************)
EXTENDS Integers, FiniteSets

CONSTANTS Sessions,    \* the discovered session families
          NoSession,   \* no entry is being worked on
          MaxVersion,  \* bound: versions a source goes through
          Faults,      \* the kinds of adverse events this instance allows
          MaxFaults    \* bound: how many of them happen in a behaviour

FaultKinds == {"restart", "error", "budget", "spool", "source", "prepare",
               "refuse", "lost", "expire", "forget", "policy", "retry",
               "rebind"}

ASSUME SessionsAssumption == NoSession \notin Sessions
ASSUME BoundsAssumption == MaxVersion \in Nat \ {0} /\ MaxFaults \in Nat
ASSUME FaultsAssumption == Faults \subseteq FaultKinds

VARIABLES
  src,       \* the version each session's source files are at
  q,         \* the queue entries; every operation saves before it returns
  discards,  \* DiscardBundles: abandoned bundles still to be deleted
  spool,     \* the prepared bundles on disk
  pol,       \* the policy Local applied (Config, ConfigVersion)
  stopped,   \* PolicyBlocked: the Hub refused with sync_paused/device_sync_off
  local,     \* the Local version that is running
  newRetry,  \* Runner.newRetryCommand
  stage,     \* where the pass is
  loop,      \* which of syncPlannedContent's two loops it is in
  batch,     \* the entry copies that loop still has to visit
  cur,       \* the session being worked on
  copy,      \* the runner's copy of its entry
  hub,       \* the Hub's uploads by idempotency key
  owner,     \* the policy as the owner last set it on the Hub
  faults     \* adverse events so far

queueVars == <<q, discards>>
passVars  == <<stage, loop, batch, cur, copy>>
hubVars   == <<hub, owner>>
vars == <<src, q, discards, spool, pol, stopped, local, newRetry, stage, loop,
          batch, cur, copy, hub, owner, faults>>

Versions == 1..MaxVersion
Key == Sessions \X Versions \X Nat   \* localKey(entry, content hash, attempt)
NoKey == <<>>
Bundle == Sessions \X Versions

Entry == [act: 0..MaxVersion,     \* newest version discovered; 0: not queued
          synced: 0..MaxVersion,  \* SyncedActivity, SyncedSourceRevision
          rev: 0..MaxVersion,     \* RevisionID, as the content it names
          frozen: 0..MaxVersion,  \* Frozen: the version held for this capture
          bundle: 0..MaxVersion,  \* BundleID, as the content it holds
          upload: Key \cup {NoKey},
          attempt: Nat,
          parked: Nat,            \* ParkedVersion; 0: not parked
          sid: BOOLEAN,           \* SessionID is known
          listed: BOOLEAN,
          excluded: BOOLEAN,
          slo: BOOLEAN,           \* ServerLeftOut
          blocked: BOOLEAN]       \* SourceBlocked

Blank == [act |-> 0, synced |-> 0, rev |-> 0, frozen |-> 0, bundle |-> 0,
          upload |-> NoKey, attempt |-> 0, parked |-> 0, sid |-> FALSE,
          listed |-> FALSE, excluded |-> FALSE, slo |-> FALSE,
          blocked |-> FALSE]

EmptyBatch == [s \in {} |-> Blank]
NoUploads == [k \in {} |-> "open"]

Policy == [ver: Nat, rules: SUBSET Sessions, paused: BOOLEAN]
OwnerPolicy == [ver: Nat, rules: SUBSET Sessions, hidden: SUBSET Sessions,
                paused: BOOLEAN]

\* "sent": open with every chunk confirmed.  "dead": failed, aborted or expired.
UploadState == {"open", "sent", "finalizing", "completed", "dead", "forgotten"}

PassStages == {"begin", "sweep", "discover", "list", "copies", "pick"}
EntryStages == {"consent", "prepare", "create", "status", "chunks",
                "finalize", "complete", "discard"}

-----------------------------------------------------------------------------
(* Queue operations on one entry.                                          *)

Pending(e) == e.rev = 0 \/ e.synced < e.act

\* uploadEntry: the copy the runner uploads carries the frozen identity.
UploadEntry(e) == IF e.frozen # 0 THEN [e EXCEPT !.act = e.frozen] ELSE e

\* Mutant of Cleared: the upload outlives its bundle.
ClearedBundleOnly(e) == [e EXCEPT !.bundle = 0]

Cleared(e) == [e EXCEPT !.bundle = 0, !.upload = NoKey]

Unfrozen(e) == [Cleared(e) EXCEPT !.frozen = 0, !.attempt = e.attempt + 1]

Exclude(e) == [Cleared(e) EXCEPT !.frozen = 0, !.excluded = TRUE]

Park(e) == [Cleared(e) EXCEPT !.parked = local]

LeftOut(s) == s \in pol.rules

\* Queue.Matches: the runner may still act on this copy.
Matches(s, e) ==
  LET st == q[s] IN
  /\ (st.frozen = 0) = (e.frozen = 0)
  /\ IF st.frozen # 0 THEN st.frozen = e.frozen /\ st.frozen = e.act
                      ELSE st.act = e.act
  /\ ~st.excluded /\ ~st.blocked /\ ~LeftOut(s)
  /\ st.attempt = e.attempt /\ st.bundle = e.bundle /\ st.upload = e.upload

\* Queue.update accepts a copy in one of two ways (its third, "latest", takes
\* an unmodified copy of a frozen entry: see Released and Reclassified).
FrozenWrite(s, e) ==
  LET st == q[s] IN
  /\ st.frozen # 0 /\ e.frozen = st.frozen /\ e.act = st.frozen
  /\ ~st.excluded /\ ~st.blocked /\ ~LeftOut(s)
  /\ e.attempt \in {st.attempt, st.attempt + 1}
  /\ st.bundle = 0 \/ e.bundle \in {0, st.bundle}
  /\ st.upload = NoKey \/ e.upload \in {NoKey, st.upload}

PlainWrite(s, e) == q[s].frozen = 0 /\ e.frozen = 0 /\ e.act = q[s].act

Accepts(s, e) == FrozenWrite(s, e) \/ PlainWrite(s, e)

\* What Queue.update stores for an accepted copy.
Stored(s, e) ==
  LET st == q[s]
      kept == IF FrozenWrite(s, e)
              THEN [e EXCEPT !.act = st.act, !.slo = st.slo,
                             !.listed = st.listed,
                             !.frozen = IF e.rev # 0 THEN 0 ELSE e.frozen]
              ELSE e
  IN IF e.excluded /\ ~st.excluded THEN Exclude(kept) ELSE kept

Bundles(s, e) == IF e.bundle = 0 THEN {} ELSE {<<s, e.bundle>>}

\* Replace one entry, abandoning the bundle it no longer names.
Put(s, e) ==
  /\ q' = [q EXCEPT ![s] = e]
  /\ discards' = discards \cup (Bundles(s, q[s]) \ Bundles(s, e))

Update(s, e) == Accepts(s, e) /\ Put(s, Stored(s, e))

\* Replace every entry at once.
PutAll(new) ==
  /\ q' = new
  /\ discards' = discards \cup
                   UNION {Bundles(s, q[s]) \ Bundles(s, new[s]) : s \in Sessions}

-----------------------------------------------------------------------------
(* The Hub, and the world outside the pass.                                *)

Happens(kind) == kind \in Faults /\ faults < MaxFaults /\ faults' = faults + 1

Created == DOMAIN hub

SetUpload(k, st) == hub' = [x \in Created \cup {k} |->
                              IF x = k THEN st ELSE hub[x]]

\* Contents of s the Hub ever accepted, and those whose revision it still has.
Accepted(s) == {v \in Versions : \E k \in Created :
                  k[1] = s /\ k[2] = v /\ hub[k] \in {"completed", "forgotten"}}
Held(s) == {v \in Versions : \E k \in Created :
              k[1] = s /\ k[2] = v /\ hub[k] = "completed"}

HubLeavesOut(s) == s \in owner.rules \cup owner.hidden

SourceChange(s) ==
  /\ src[s] < MaxVersion
  /\ src' = [src EXCEPT ![s] = @ + 1]
  /\ UNCHANGED <<queueVars, spool, pol, stopped, local, newRetry, passVars,
                 hubVars, faults>>

\* A finalized upload is accepted.
HubAccepts(k) ==
  /\ k \in Created /\ hub[k] = "finalizing"
  /\ SetUpload(k, "completed")
  /\ UNCHANGED <<src, queueVars, spool, pol, stopped, local, newRetry,
                 passVars, owner, faults>>

\* An upload fails verification, expires or is aborted.
HubDrops(k) ==
  /\ Happens("expire")
  /\ k \in Created /\ hub[k] \in {"open", "sent", "finalizing"}
  /\ SetUpload(k, "dead")
  /\ UNCHANGED <<src, queueVars, spool, pol, stopped, local, newRetry,
                 passVars, owner>>

\* The Hub no longer has any accepted revision of the session.
HubForgets(s) ==
  /\ Happens("forget")
  /\ Held(s) # {}
  /\ hub' = [k \in Created |-> IF k[1] = s /\ hub[k] = "completed"
                               THEN "forgotten" ELSE hub[k]]
  /\ UNCHANGED <<src, queueVars, spool, pol, stopped, local, newRetry,
                 passVars, owner>>

OwnerSetsPolicy ==
  /\ Happens("policy")
  /\ \E r, h \in SUBSET Sessions, p \in BOOLEAN :
       owner' = [ver |-> owner.ver + 1, rules |-> r, hidden |-> h, paused |-> p]
  /\ UNCHANGED <<src, queueVars, spool, pol, stopped, local, newRetry,
                 passVars, hub>>

-----------------------------------------------------------------------------
(* The pass: consent.                                                      *)

PassEnds == /\ stage' = "idle" /\ loop' = 1 /\ batch' = EmptyBatch
            /\ cur' = NoSession /\ copy' = Blank

\* Mutant of NextEntry: the entry is not put down.
NextEntryKeepsSession == /\ stage' = "pick" /\ copy' = Blank
                         /\ UNCHANGED <<loop, batch, cur>>

NextEntry == /\ stage' = "pick" /\ cur' = NoSession /\ copy' = Blank
             /\ UNCHANGED <<loop, batch>>

\* ApplyPolicyAt: a newer policy decides every exclusion afresh.
Governed(s) ==
  LET e == [q[s] EXCEPT !.slo = FALSE, !.excluded = s \in owner.rules] IN
  IF q[s].act = 0 THEN q[s]
  ELSE IF s \in owner.rules THEN Exclude(e) ELSE e

ApplyPolicy ==
  IF owner.ver > pol.ver
  THEN /\ pol' = [ver |-> owner.ver, rules |-> owner.rules,
                  paused |-> owner.paused]
       /\ stopped' = FALSE
       /\ PutAll([s \in Sessions |-> Governed(s)])
  ELSE UNCHANGED <<pol, stopped, queueVars>>

\* SyncOnce: every pass starts with a check-in.
StartPass ==
  /\ stage = "idle"
  /\ ApplyPolicy
  /\ stage' = "begin"
  /\ UNCHANGED <<src, spool, local, newRetry, loop, batch, cur, copy, hubVars,
                 faults>>

\* Mutant of AtConsent: a check-in may also fall between capture and create.
AtConsentAtCreate == stage \in {"begin", "list", "consent", "create", "chunks",
                                "finalize"}

\* Stages in which ensureConsent may check in again.
AtConsent == stage \in {"begin", "list", "consent", "chunks", "finalize"}

Refresh ==
  /\ AtConsent
  /\ owner.ver > pol.ver
  /\ ApplyPolicy
  /\ UNCHANGED <<src, spool, local, newRetry, passVars, hubVars, faults>>

\* RetrySession
Retried(e) ==
  IF e.blocked
  THEN IF e.frozen # 0 THEN Unfrozen(e) ELSE e
  ELSE [Unfrozen(e) EXCEPT !.parked = 0, !.synced = 0, !.rev = 0]

\* A check-in delivers a Hub retry command for s.
TakeRetry(s) ==
  /\ AtConsent
  /\ Happens("retry")
  /\ q[s].act # 0 /\ q[s].sid /\ ~q[s].excluded /\ ~LeftOut(s) /\ ~pol.paused
  /\ Put(s, Retried(q[s]))
  /\ newRetry' = TRUE
  /\ UNCHANGED <<src, spool, pol, stopped, local, passVars, hubVars>>

\* Mutant of Admit: the flag of a new retry command is not reset.
AdmitKeepsRetry ==
  /\ stage = "begin"
  /\ IF pol.paused \/ stopped \/ newRetry
     THEN PassEnds
     ELSE stage' = "sweep" /\ UNCHANGED <<loop, batch, cur, copy>>
  /\ UNCHANGED <<src, queueVars, spool, pol, stopped, local, newRetry, hubVars,
                 faults>>

Admit ==
  /\ stage = "begin"
  /\ IF pol.paused \/ stopped \/ newRetry
     THEN /\ PassEnds
          /\ newRetry' = (newRetry /\ (pol.paused \/ stopped))
     ELSE /\ stage' = "sweep"
          /\ UNCHANGED <<loop, batch, cur, copy, newRetry>>
  /\ UNCHANGED <<src, queueVars, spool, pol, stopped, local, hubVars, faults>>

-----------------------------------------------------------------------------
(* The pass: discarding, discovery and listing.                            *)

DiscardAbandoned ==
  /\ stage = "sweep"
  /\ \/ /\ spool' = spool \ discards
        /\ discards' = {}
        /\ UNCHANGED faults
     \/ \* the spool refuses to delete: the IDs stay listed
        /\ Happens("spool")
        /\ UNCHANGED <<spool, discards>>
  /\ stage' = "discover"
  /\ UNCHANGED <<src, q, pol, stopped, local, newRetry, loop, batch, cur, copy,
                 hubVars>>

\* reconcileGrokSources: a source that cannot be hashed blocks its entry.
Reconciled(e, failing) ==
  IF failing
  THEN IF e.act # 0 /\ ~e.excluded
       THEN [e EXCEPT !.blocked = TRUE, !.parked = local] ELSE e
  ELSE IF e.blocked THEN [e EXCEPT !.blocked = FALSE, !.parked = 0] ELSE e

\* Queue.merge of a source now at version v.
Merged(e, v) ==
  IF v <= e.act THEN e
  ELSE LET seen == [e EXCEPT !.act = v, !.listed = FALSE, !.blocked = FALSE] IN
       IF e.frozen # 0 THEN seen
       ELSE [Cleared(seen) EXCEPT !.parked = 0, !.rev = 0, !.attempt = 0]

\* Mutant of Released: parked entries are released by the same version too.
ReleasedAlways(e) == IF ~e.blocked THEN [e EXCEPT !.parked = 0] ELSE e

Released(e) == IF ~e.blocked /\ e.parked \notin {0, local}
               THEN [e EXCEPT !.parked = 0] ELSE e

\* applyExclusions
Reclassified(s, e) ==
  LET out == e.slo \/ LeftOut(s) IN
  IF e.act = 0 \/ e.excluded = out THEN e
  ELSE IF out THEN Exclude(e) ELSE [e EXCEPT !.excluded = FALSE]

Discovered(s, failing) ==
  LET e == Reconciled(q[s], failing) IN
  Reclassified(s, Released(IF failing THEN e ELSE Merged(e, src[s])))

Discover(failing) ==
  /\ stage = "discover"
  /\ IF failing = {} THEN UNCHANGED faults ELSE Happens("source")
  /\ PutAll([s \in Sessions |-> Discovered(s, s \in failing)])
  /\ stage' = "list"
  /\ UNCHANGED <<src, spool, pol, stopped, local, newRetry, loop, batch, cur,
                 copy, hubVars>>

\* MarkListedAt, from the Hub's answer for s.
Marked(s) ==
  LET e == q[s] IN
  IF HubLeavesOut(s) THEN [Exclude(e) EXCEPT !.slo = TRUE]
  ELSE IF Held(s) # {} THEN [e EXCEPT !.listed = TRUE, !.sid = TRUE]
  ELSE [e EXCEPT !.listed = TRUE, !.sid = TRUE, !.synced = 0, !.rev = 0]

Listable(s) == /\ q[s].act # 0 /\ ~q[s].listed /\ ~q[s].excluded
               /\ ~q[s].blocked /\ ~LeftOut(s)

\* Queue entries one of the content loops visits.  Which of them are due
\* (backoff, quiet time, rejected listings) is left open.
Eligible(l) == {s \in Sessions :
  /\ q[s].act # 0 /\ ~q[s].excluded /\ q[s].parked = 0 /\ Pending(q[s])
  /\ IF l = 1 THEN q[s].upload # NoKey ELSE q[s].upload = NoKey}

ListAll ==
  /\ stage = "list"
  /\ IF pol.paused
     THEN PassEnds /\ UNCHANGED queueVars
     ELSE /\ PutAll([s \in Sessions |-> IF Listable(s) THEN Marked(s) ELSE q[s]])
          /\ stage' = "copies"
          /\ UNCHANGED <<loop, batch, cur, copy>>
  /\ UNCHANGED <<src, spool, pol, stopped, local, newRetry, hubVars, faults>>

-----------------------------------------------------------------------------
(* The pass: syncPlannedContent.  Loop 1 resumes open uploads, loop 2      *)
(* opens new ones; both work on copies taken when the loop starts.         *)

TakeCopies(due) ==
  /\ stage = "copies"
  /\ due \subseteq Eligible(loop)
  /\ batch' = [s \in due |-> q[s]]
  /\ stage' = "pick"
  /\ UNCHANGED <<src, queueVars, spool, pol, stopped, local, newRetry, loop,
                 cur, copy, hubVars, faults>>

Pick(s) ==
  /\ stage = "pick" /\ s \in DOMAIN batch
  /\ cur' = s
  /\ copy' = UploadEntry(batch[s])
  /\ batch' = [x \in DOMAIN batch \ {s} |-> batch[x]]
  /\ stage' = "consent"
  /\ UNCHANGED <<src, queueVars, spool, pol, stopped, local, newRetry, loop,
                 hubVars, faults>>

LoopEnds ==
  /\ stage = "pick" /\ DOMAIN batch = {}
  /\ IF loop = 1 THEN /\ stage' = "copies" /\ loop' = 2
                      /\ UNCHANGED <<batch, cur, copy>>
                 ELSE PassEnds
  /\ UNCHANGED <<src, queueVars, spool, pol, stopped, local, newRetry, hubVars,
                 faults>>

\* Mutant of Allowed: only the entry is compared, not the pause.
AllowedWhilePaused == Matches(cur, copy)

\* allowed and entryAllowed: may the runner act on its copy?
Allowed == ~pol.paused /\ Matches(cur, copy)

\* ErrPaused ends the pass.
Disallowed ==
  /\ stage \in {"consent", "chunks", "finalize"} /\ ~Allowed
  /\ PassEnds
  /\ UNCHANGED <<src, queueVars, spool, pol, stopped, local, newRetry, hubVars,
                 faults>>

Consent ==
  /\ stage = "consent" /\ Allowed
  /\ stage' = IF copy.upload # NoKey THEN "status" ELSE "prepare"
  /\ UNCHANGED <<src, queueVars, spool, pol, stopped, local, newRetry, loop,
                 batch, cur, copy, hubVars, faults>>

\* The runner updates its copy and stores it.
Save(e) == copy' = e /\ Update(cur, e)

NeedsRecovery == copy.frozen # 0 /\ copy.bundle = 0 /\ q[cur].act # copy.act

\* recoverUnprepared: a hold without a bundle yields to the newer source.
RecoverUnprepared ==
  /\ stage = "prepare" /\ NeedsRecovery
  /\ copy' = Unfrozen(q[cur])
  /\ Put(cur, copy')
  /\ UNCHANGED <<src, spool, pol, stopped, local, newRetry, stage, loop, batch,
                 cur, hubVars, faults>>

StartPending ==
  /\ stage = "prepare" /\ ~NeedsRecovery /\ copy.rev # 0
  /\ Save([copy EXCEPT !.rev = 0, !.bundle = 0])
  /\ UNCHANGED <<src, spool, pol, stopped, local, newRetry, stage, loop, batch,
                 cur, hubVars, faults>>

ReadyToCapture == stage = "prepare" /\ ~NeedsRecovery /\ copy.rev = 0

\* freezeIfDue: a live session reached the maximum hold.
Freeze ==
  /\ ReadyToCapture /\ copy.frozen = 0 /\ Matches(cur, copy)
  /\ Put(cur, [q[cur] EXCEPT !.frozen = copy.act])
  /\ copy' = UploadEntry(q'[cur])
  /\ UNCHANGED <<src, spool, pol, stopped, local, newRetry, stage, loop, batch,
                 cur, hubVars, faults>>

\* Backup.Prepare captures the source as it is now; the spool is addressed by
\* content, so a bundle with that content is reused.
Capture ==
  /\ ReadyToCapture /\ copy.bundle = 0
  /\ spool' = spool \cup {<<cur, src[cur]>>}
  /\ Save([copy EXCEPT !.bundle = src[cur]])
  /\ stage' = "create"
  /\ UNCHANGED <<src, pol, stopped, local, newRetry, loop, batch, cur, hubVars,
                 faults>>

ReuseBundle ==
  /\ ReadyToCapture /\ copy.bundle # 0
  /\ stage' = "create"
  /\ UNCHANGED <<src, queueVars, spool, pol, stopped, local, newRetry, loop,
                 batch, cur, copy, hubVars, faults>>

HasBundle == <<cur, copy.bundle>> \in spool

UploadKey == <<cur, copy.bundle, copy.attempt>>
UploadAt(k) == IF k \in Created THEN hub[k] ELSE "none"

Creating == stage = "create" /\ HasBundle
Refused == owner.paused \/ HubLeavesOut(cur)

\* createUpload: the Hub opens an upload, or returns the open one of that key.
CreateOpens ==
  /\ Creating /\ ~Refused
  /\ UploadAt(UploadKey) \in {"none", "open", "sent"}
  /\ IF UploadKey \in Created THEN UNCHANGED hub ELSE SetUpload(UploadKey, "open")
  /\ Save([copy EXCEPT !.upload = UploadKey, !.sid = TRUE])
  /\ stage' = "consent"
  /\ UNCHANGED <<src, spool, pol, stopped, local, newRetry, loop, batch, cur,
                 owner, faults>>

\* The Hub opens the upload but its answer does not arrive.
CreateLost ==
  /\ Creating /\ ~Refused
  /\ Happens("lost")
  /\ UploadKey \notin Created
  /\ SetUpload(UploadKey, "open")
  /\ NextEntry
  /\ UNCHANGED <<src, queueVars, spool, pol, stopped, local, newRetry, owner>>

\* Mutant of CreateCompleted: an upload still being verified counts as accepted.
CreateFinalizingCounts ==
  /\ Creating /\ ~Refused
  /\ UploadAt(UploadKey) \in {"completed", "finalizing"}
  /\ copy' = [copy EXCEPT !.sid = TRUE]
  /\ stage' = "complete"
  /\ UNCHANGED <<src, queueVars, spool, pol, stopped, local, newRetry, loop,
                 batch, cur, hubVars, faults>>

\* The key already carries an accepted upload.
CreateCompleted ==
  /\ Creating /\ ~Refused
  /\ UploadAt(UploadKey) = "completed"
  /\ copy' = [copy EXCEPT !.sid = TRUE]
  /\ stage' = "complete"
  /\ UNCHANGED <<src, queueVars, spool, pol, stopped, local, newRetry, loop,
                 batch, cur, hubVars, faults>>

\* "v4 create did not open upload": backoff, the same key next time.
CreateUnusable ==
  /\ Creating /\ ~Refused
  /\ UploadAt(UploadKey) \in {"finalizing", "dead", "forgotten"}
  /\ NextEntry
  /\ UNCHANGED <<src, queueVars, spool, pol, stopped, local, newRetry, hubVars,
                 faults>>

\* transfer: V4Status of the open upload.
StatusOpen ==
  /\ stage = "status" /\ UploadAt(copy.upload) \in {"open", "sent"} /\ HasBundle
  /\ stage' = "chunks"
  /\ UNCHANGED <<src, queueVars, spool, pol, stopped, local, newRetry, loop,
                 batch, cur, copy, hubVars, faults>>

StatusFinalizing ==
  /\ stage = "status" /\ UploadAt(copy.upload) = "finalizing"
  /\ NextEntry
  /\ UNCHANGED <<src, queueVars, spool, pol, stopped, local, newRetry, hubVars,
                 faults>>

StatusCompleted ==
  /\ stage = "status" /\ UploadAt(copy.upload) = "completed"
  /\ stage' = "complete"
  /\ UNCHANGED <<src, queueVars, spool, pol, stopped, local, newRetry, loop,
                 batch, cur, copy, hubVars, faults>>

\* A dead upload is given up; some failure codes also park the entry.
StatusDead ==
  /\ stage = "status" /\ UploadAt(copy.upload) \in {"dead", "forgotten"}
  /\ LET gone == [copy EXCEPT !.upload = NoKey, !.attempt = copy.attempt + 1] IN
     \/ Update(cur, gone) /\ UNCHANGED faults
     \/ Happens("refuse") /\ Update(cur, Park(gone))
  /\ NextEntry
  /\ UNCHANGED <<src, spool, pol, stopped, local, newRetry, hubVars>>

\* Missing chunks are put and confirmed.
PutChunks ==
  /\ stage = "chunks" /\ Allowed
  /\ UploadAt(copy.upload) \in {"open", "sent"}
  /\ SetUpload(copy.upload, "sent")
  /\ stage' = "finalize"
  /\ UNCHANGED <<src, queueVars, spool, pol, stopped, local, newRetry, loop,
                 batch, cur, copy, owner, faults>>

\* Mutant of Finalize: a queued verification is taken for a finished one.
FinalizeAssumesVerified ==
  /\ stage = "finalize" /\ Allowed /\ ~Refused
  /\ UploadAt(copy.upload) = "sent"
  /\ \E verified \in BOOLEAN :
       SetUpload(copy.upload, IF verified THEN "completed" ELSE "finalizing")
  /\ stage' = "complete"
  /\ UNCHANGED <<src, queueVars, spool, pol, stopped, local, newRetry, loop,
                 batch, cur, copy, owner, faults>>

\* V4Finalize is queued, or verified at once.
Finalize ==
  /\ stage = "finalize" /\ Allowed /\ ~Refused
  /\ UploadAt(copy.upload) = "sent"
  /\ \/ SetUpload(copy.upload, "finalizing") /\ NextEntry
     \/ SetUpload(copy.upload, "completed") /\ stage' = "complete"
        /\ UNCHANGED <<loop, batch, cur, copy>>
  /\ UNCHANGED <<src, queueVars, spool, pol, stopped, local, newRetry, owner,
                 faults>>

\* Mutant of Completed: the newest discovered version is marked synced.
CompletedAtNewest == [copy EXCEPT !.synced = q[cur].act, !.rev = copy.bundle,
                                  !.upload = NoKey]

\* complete: the accepted revision is the synced identity of the copy.
Completed == [copy EXCEPT !.synced = copy.act, !.rev = copy.bundle,
                          !.upload = NoKey]

Complete ==
  /\ stage = "complete"
  /\ IF Matches(cur, copy)
     THEN /\ Update(cur, Completed)
          /\ copy' = q'[cur]
          /\ stage' = "discard"
          /\ UNCHANGED <<loop, batch, cur>>
     ELSE PassEnds /\ UNCHANGED queueVars
  /\ UNCHANGED <<src, spool, pol, stopped, local, newRetry, hubVars, faults>>

\* The uploaded bundle is deleted, although the entry still names it.
DiscardUploaded ==
  /\ stage = "discard" /\ HasBundle
  /\ \/ spool' = spool \ {<<cur, copy.bundle>>} /\ UNCHANGED faults
     \/ Happens("spool") /\ UNCHANGED spool
  /\ NextEntry
  /\ UNCHANGED <<src, queueVars, pol, stopped, local, newRetry, hubVars>>

-----------------------------------------------------------------------------
(* Failures while an entry is worked on: recordFailure and its callers.    *)

\* not_found or upload_expired while sending: a new attempt, with a new key.
UploadGone ==
  /\ stage \in {"chunks", "finalize"} /\ Allowed
  /\ UploadAt(copy.upload) \in {"dead", "forgotten"}
  /\ Update(cur, [copy EXCEPT !.upload = NoKey, !.attempt = copy.attempt + 1])
  /\ NextEntry
  /\ UNCHANGED <<src, spool, pol, stopped, local, newRetry, hubVars, faults>>

\* ErrNotPrepared: the spool lost the bundle the copy names.  A held capture
\* is given up first; if the source moved on meanwhile nothing else changes.
NotPrepared ==
  /\ \/ stage \in {"create", "discard"}
     \/ stage = "status" /\ UploadAt(copy.upload) \in {"open", "sent"}
  /\ ~HasBundle
  /\ LET e == IF q[cur].frozen # 0 THEN Unfrozen(q[cur]) ELSE copy IN
     IF q[cur].frozen # 0 /\ q[cur].act # copy.act
     THEN Put(cur, e)
     ELSE Put(cur, [Cleared(e) EXCEPT !.attempt = e.attempt + 1])
  /\ NextEntry
  /\ UNCHANGED <<src, spool, pol, stopped, local, newRetry, hubVars, faults>>

\* Backup.Prepare fails: the source is unstable, unreadable or too large.  The
\* hold is released; a failure that would repeat parks the entry.
PrepareFails ==
  /\ ReadyToCapture /\ copy.bundle = 0
  /\ Happens("prepare")
  /\ LET e == IF copy.frozen # 0 THEN Unfrozen(q[cur]) ELSE copy IN
     \/ Put(cur, e)
     \/ q[cur].act = copy.act /\ Put(cur, Park(e))
  /\ NextEntry
  /\ UNCHANGED <<src, spool, pol, stopped, local, newRetry, hubVars>>

\* A Hub problem that repeats for the same bytes or key (parkedCodes).
ContentRefused ==
  /\ Creating \/ (stage = "finalize" /\ Allowed)
  /\ Happens("refuse")
  /\ Update(cur, Park(copy))
  /\ NextEntry
  /\ UNCHANGED <<src, spool, pol, stopped, local, newRetry, hubVars>>

AtHubCheck == Creating \/ (stage = "finalize" /\ Allowed)

\* left_out at create or finalize.
LeftOutRefused ==
  /\ AtHubCheck /\ HubLeavesOut(cur)
  /\ Update(cur, [copy EXCEPT !.excluded = TRUE, !.slo = TRUE])
  /\ NextEntry
  /\ UNCHANGED <<src, spool, pol, stopped, local, newRetry, hubVars, faults>>

\* sync_paused or device_sync_off: no more writes until a newer policy.
PausedRefused ==
  /\ AtHubCheck /\ owner.paused
  /\ stopped' = TRUE
  /\ Update(cur, [copy EXCEPT !.parked = 0])
  /\ PassEnds
  /\ UNCHANGED <<src, spool, pol, local, newRetry, hubVars, faults>>

\* The pass's time budget runs out: the copy is stored with a failure, even
\* if a check-in of this pass changed the entry in the meantime.
BudgetExpires ==
  /\ stage \in {"consent", "create", "status", "chunks", "finalize"}
  /\ Happens("budget")
  /\ IF Accepts(cur, copy) THEN Put(cur, Stored(cur, copy))
                           ELSE UNCHANGED queueVars
  /\ PassEnds
  /\ UNCHANGED <<src, spool, pol, stopped, local, newRetry, hubVars>>

\* Queue.unfreeze refuses a stale copy.
Holds(s, e) == /\ q[s].frozen # 0 /\ q[s].frozen = e.frozen
               /\ q[s].attempt = e.attempt /\ q[s].bundle = e.bundle
               /\ q[s].upload = e.upload /\ ~q[s].excluded

\* Any other error: the pass ends, or the entry backs off.  A failed check-in
\* gives up a hold that has no bundle yet.
PassFails ==
  /\ stage # "idle"
  /\ Happens("error")
  /\ \/ PassEnds /\ UNCHANGED queueVars
     \/ /\ stage \in EntryStages /\ NextEntry
        /\ IF stage = "consent" /\ copy.frozen # 0 /\ copy.bundle = 0
           THEN Holds(cur, copy) /\ Put(cur, Unfrozen(q[cur]))
           ELSE UNCHANGED queueVars
  /\ UNCHANGED <<src, spool, pol, stopped, local, newRetry, hubVars>>

\* The process stops and Open reads the queue back, perhaps as a new version.
Restart ==
  /\ Happens("restart")
  /\ PassEnds
  /\ newRetry' = FALSE
  /\ local' \in {local, local + 1}
  /\ q' = [s \in Sessions |-> [q[s] EXCEPT !.listed = FALSE]]
  /\ UNCHANGED <<src, discards, spool, pol, stopped, hubVars>>

\* Rebind: the device was paired with another Hub; the same Runner goes on, or
\* the controller starts another one.
Rebind ==
  /\ Happens("rebind")
  /\ stage = "idle"
  /\ PutAll([s \in Sessions |-> [Blank EXCEPT !.act = q[s].act,
                                              !.excluded = q[s].excluded]])
  /\ pol' = [ver |-> 0, rules |-> {}, paused |-> FALSE]
  /\ stopped' = FALSE
  /\ hub' = NoUploads
  /\ newRetry' \in {newRetry, FALSE}
  /\ UNCHANGED <<src, spool, local, passVars, owner>>

-----------------------------------------------------------------------------
Init ==
  /\ src = [s \in Sessions |-> 1]
  /\ q = [s \in Sessions |-> Blank]
  /\ discards = {} /\ spool = {}
  /\ pol = [ver |-> 0, rules |-> {}, paused |-> FALSE]
  /\ stopped = FALSE /\ local = 1 /\ newRetry = FALSE
  /\ stage = "idle" /\ loop = 1 /\ batch = EmptyBatch
  /\ cur = NoSession /\ copy = Blank
  /\ hub = NoUploads
  /\ owner = [ver |-> 1, rules |-> {}, hidden |-> {}, paused |-> FALSE]
  /\ faults = 0

World == \/ \E s \in Sessions : SourceChange(s) \/ HubForgets(s)
         \/ \E k \in Created : HubAccepts(k) \/ HubDrops(k)
         \/ OwnerSetsPolicy \/ Restart \/ Rebind

Prologue == \/ StartPass \/ Refresh \/ Admit \/ DiscardAbandoned \/ ListAll
            \/ \E s \in Sessions : TakeRetry(s)
            \/ \E failing \in SUBSET Sessions : Discover(failing)
            \/ \E due \in SUBSET Sessions : TakeCopies(due)

Work == \/ \E s \in Sessions : Pick(s)
        \/ LoopEnds \/ Disallowed \/ Consent
        \/ RecoverUnprepared \/ StartPending \/ Freeze \/ Capture \/ ReuseBundle
        \/ CreateOpens \/ CreateCompleted \/ CreateUnusable
        \/ StatusOpen \/ StatusFinalizing \/ StatusCompleted \/ StatusDead
        \/ PutChunks \/ Finalize \/ Complete \/ DiscardUploaded

Failure == \/ CreateLost \/ UploadGone \/ NotPrepared \/ PrepareFails
           \/ ContentRefused \/ LeftOutRefused \/ PausedRefused
           \/ BudgetExpires \/ PassFails

Next == World \/ Prologue \/ Work \/ Failure

Spec == Init /\ [][Next]_vars

-----------------------------------------------------------------------------
(* Safety.                                                                 *)

\* Every variable has its type.
TypeOK ==
  /\ src \in [Sessions -> Versions]
  /\ q \in [Sessions -> Entry]
  /\ discards \subseteq Bundle /\ spool \subseteq Bundle
  /\ pol \in Policy /\ owner \in OwnerPolicy
  /\ stopped \in BOOLEAN /\ newRetry \in BOOLEAN
  /\ local \in Nat \ {0} /\ faults \in Nat
  /\ stage \in {"idle"} \cup PassStages \cup EntryStages
  /\ loop \in {1, 2}
  /\ DOMAIN batch \subseteq Sessions
  /\ \A s \in DOMAIN batch : batch[s] \in Entry
  /\ copy \in Entry
  /\ cur \in Sessions \cup {NoSession}
  /\ (stage \in EntryStages) = (cur # NoSession)
  /\ Created \subseteq Key
  /\ \A k \in Created : hub[k] \in UploadState

\* A revision the queue shows for a session is one the Hub accepted, with
\* content no older than the source version the queue calls synced, whatever
\* copies, crashes, retries and lost answers lie between (complete, merge,
\* RetrySession, MarkListedAt).
ClaimIsAccepted ==
  \A s \in Sessions : q[s].rev # 0 => /\ q[s].rev \in Accepted(s)
                                      /\ q[s].synced <= q[s].rev

\* A session is settled only if the Hub accepted content at least as new as
\* the newest source version discovered: a held capture that completes late
\* leaves the newer changes pending (README.md:121-122).
NewerChangesStayPending ==
  \A s \in Sessions : q[s].act # 0 /\ ~Pending(q[s]) =>
    \E v \in Accepted(s) : v >= q[s].act

\* The open upload of an entry was created for the bundle and the attempt the
\* entry now names, and the entry claims no revision meanwhile: chunks of one
\* capture are never sent into the upload of another.
UploadMatchesBundle ==
  \A s \in Sessions : q[s].upload # NoKey =>
    /\ q[s].upload = <<s, q[s].bundle, q[s].attempt>>
    /\ q[s].upload \in Created
    /\ q[s].rev = 0

\* Local writes to the Hub (create, chunk, finalize) for a session.
LocalWrites(s) == /\ cur = s /\ stage \in {"create", "chunks", "finalize"}
                  /\ hub' # hub /\ stage' # stage

\* Nothing of a session is sent while the policy Local knows leaves it out,
\* pauses sync or was refused, nor while its source is blocked, even though
\* policies and retries arrive between the check and the write
\* (README.md:214 "Leave-outs are checked locally and at Hub create/finalize").
WritesNeedConsent ==
  [][\A s \in Sessions : LocalWrites(s) =>
       /\ ~LeftOut(s) /\ ~pol.paused /\ ~stopped
       /\ ~q[s].excluded /\ ~q[s].blocked]_vars

\* What is sent is what the queue holds: at every write the runner's copy still
\* matches its entry, although the copies of a loop are taken before other
\* sessions are worked on and check-ins change entries meanwhile (Matches).
WritesMatchQueue ==
  [][\A s \in Sessions : LocalWrites(s) => Matches(s, copy)]_vars

\* A parked entry is taken up again only for a reason the code names: its
\* source changed or was verified, another Local version runs, or a Hub retry
\* or a new binding arrived (queue.go:65-67).
ParkedNeedsCause ==
  [][\A s \in Sessions : q[s].parked # 0 /\ q'[s].parked = 0 =>
       \/ q'[s].act > q[s].act \/ q[s].blocked
       \/ q[s].parked # local
       \/ newRetry' \/ pol'.ver = 0]_vars

\* Abandoned bundles are named by no entry (the comment at queue.go:131-132).
DiscardsUnreferenced ==
  \A s \in Sessions : Bundles(s, q[s]) \cap discards = {}

\* A changed source releases a parked entry (queue.go:65-67, README.md:211-212).
SourceChangeReleasesParked ==
  [][\A s \in Sessions : q[s].parked # 0 /\ q'[s].act > q[s].act =>
       q'[s].parked = 0]_vars

\* Attempts are not taken back: only a newer source or a new binding starts
\* over (plan_test.go:1762 TestRetrySupersedesAnInFlightEntryCopy).
RetrySupersedesCopies ==
  [][\A s \in Sessions : q'[s].attempt < q[s].attempt =>
       q'[s].act > q[s].act \/ pol'.ver = 0]_vars

\* A leave-out stays until the policy changes
\* (plan_test.go:1726 TestListingLeftOutPersistsUntilPolicyChanges).
LeftOutPersists ==
  [][\A s \in Sessions : q[s].excluded /\ ~q'[s].excluded =>
       pol' # pol]_vars

-----------------------------------------------------------------------------
(* The promise: every claim the queue makes is backed by an acceptance.    *)

Claimed(s) == IF q[s].rev = 0 THEN 0 ELSE q[s].synced

Promise == INSTANCE HubCopy WITH
             source <- src,
             accepted <- [s \in Sessions |-> Accepted(s)],
             claimed <- [s \in Sessions |-> Claimed(s)]

\* Every behaviour of the queue is one of HubCopy: what Local calls synced was
\* accepted first, and the Hub only ever gets content the source really had.
KeepsPromise == Promise!Spec

-----------------------------------------------------------------------------
(* Liveness.                                                               *)

\* The sync loop starts pass after pass and a pass runs on; the due entries
\* of each loop are eventually visited, because backoff and quiet time end
\* (retryBackoff is at most an hour, a hold ten minutes); the Hub finishes
\* verifying what it queued.
Progress == \/ StartPass \/ Admit \/ DiscardAbandoned \/ ListAll \/ Work
            \/ Discover({}) \/ TakeCopies(Eligible(loop))
            \/ LeftOutRefused \/ PausedRefused \/ NotPrepared \/ UploadGone

Fairness == /\ WF_vars(Progress)
            /\ SF_vars(loop = 1 /\ TakeCopies(Eligible(1)))
            /\ SF_vars(loop = 2 /\ TakeCopies(Eligible(2)))
            /\ \A s \in Sessions, v \in Versions, a \in 0..(3 * MaxFaults) :
                 WF_vars(HubAccepts(<<s, v, a>>))

FairSpec == Spec /\ Fairness

AtRest(s) == \/ q[s].act = src[s] /\ ~Pending(q[s])
             \/ q[s].parked # 0 \/ q[s].excluded
             \/ HubLeavesOut(s) \/ pol.paused \/ stopped

\* Every session is eventually settled, parked or left out for good, unless
\* sync is paused: no crash, retry, refused or lost answer, lost bundle or
\* late source change leaves it pending forever.
EventuallySettled == \A s \in Sessions : <>[]AtRest(s)
=============================================================================
