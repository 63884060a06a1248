---------------------------- MODULE UpdateProofs ----------------------------
(***************************************************************************)
(* Proofs about UpdateHandoff, for every set of attempts, every pair of    *)
(* releases and every number of faults: the queue forgets an attempt only  *)
(* when Hub has received how it ended, the reporter takes Hub to know only *)
(* what it was told, and an update by an old helper stays once confirmed.  *)
(***************************************************************************)
EXTENDS UpdateHandoff, TLAPS

Final(r) == r.result # "in_progress"
Known(id) == hub[id] # "unissued"

\* Nothing is said about an attempt that Hub did not issue.
Issued ==
  /\ \A r \in checkIn.sent \cup report.sent : Known(r.id)
  /\ \A i \in checkIn.delivered : Known(i)
  /\ Pending => Known(attempt.id)
  /\ \A i \in Ids : journal[i] # "none" => Known(i)

\* An outcome that Hub received closed the attempt.
HeardClosed == \A r \in heard : hub[r.id] \notin {"unissued", "open"}

\* What an answered request carried was received.
Answered ==
  /\ checkIn.phase = "answered" /\ checkIn.aware => \A r \in checkIn.sent : Final(r) => r \in heard
  /\ report.phase \in {"answered", "flushAnswered"} =>
       \A r \in report.sent : Final(r) => r \in heard

\* The failure that was there when the reporter woke stays until Hub heard it,
\* and the report carries it.
ReporterFollows ==
  report.before # NoId /\ Receipt(report.before, "failed") \notin heard =>
    /\ report.phase \in {"read", "flush"} => FailureOf(attempt) = report.before
    /\ report.phase \in {"sent", "answered", "flushSent", "flushAnswered"} =>
         Receipt(report.before, "failed") \in report.sent

\* Where no process runs, none of its requests and goroutines do.
Absent ==
  owner.phase \in {"down", "starting"} =>
    watch.phase = "idle" /\ report = NoReport /\ ~wake /\ checkIn = NoCheckIn

\* Only an old process prepares an attempt, and nobody fails it meanwhile; only
\* the new release settles what an old helper installed, while no helper may
\* swap the files.
WatchInv ==
  /\ watch.phase \in {"preparing", "launching"} /\ watch.id # NoId => ~legacy /\ owner.ver = Old
  /\ watch.phase = "preparing" /\ watch.id # NoId => FailureOf(attempt) # watch.id
  /\ watch.phase \in {"checked", "retired"} =>
       legacy /\ owner.ver = New /\ helper.phase \notin {"claimed", "alone"}
  /\ watch.phase = "retired" => ~backup
  /\ confirm.phase = "locking" => ~legacy

\* Some part of Local or Hub takes an attempt to be done.
DoneSaid ==
  \/ attempt.handoff \/ \E i \in Ids : hub[i] = "done"
  \/ \E r \in checkIn.sent \cup report.sent : r.result = "done"

\* With an old helper, done means that there is no backup to go back to.
LegacyInv ==
  legacy =>
    /\ helper.id = NoId
    /\ \A i \in Ids : outcome[i] = "none" /\ journal[i] # "done"
    /\ owner.phase # "stopping" => ~wake /\ report = NoReport
    /\ DoneSaid => installed = New /\ ~backup

\* A helper that has swapped the files has not been overtaken by another, and
\* the history names the one that took its swap back.
HelperFiles ==
  /\ helper.phase \in {"watching", "ready", "late"} => installed = New
  /\ helper.phase = "restored" => restorer = helper.id

\* Hub delivers no attempt that it heard to be done; the reporter, whose answer
\* may overtake a check-in's, never says done.
DoneOnce ==
  /\ \A r \in heard : Final(r)
  /\ \A r \in report.sent : r.result # "done"
  /\ \A i \in checkIn.delivered : Receipt(i, "done") \notin heard

\* An attempt that was begun is the queue's, or Hub received how it ended.
Begun(i) == i \in {watch.id, helper.id, restorer}
BegunHeard == ~legacy => \A i \in Ids : Begun(i) /\ attempt.id # i => \E r \in heard : r.id = i

\* A rollback is recorded for the queue's attempt whether it is confirmed or
\* not, until somebody took the record and failed it.
Marked ==
  /\ ~legacy /\ Pending /\ attempt.stage # "failed"
  /\ installed = Old /\ restorer = attempt.id /\ Receipt(attempt.id, "failed") \notin heard
  => outcome[attempt.id] = "failed" \/ helper.phase = "restored"

UInv ==
  /\ HandoffTypeOK /\ Issued /\ HeardClosed /\ Answered
  /\ ReporterFollows /\ AcknowledgedHeard
  /\ Absent /\ WatchInv /\ LegacyInv
  /\ HelperFiles /\ DoneOnce /\ BegunHeard /\ Marked

USE IdAssumption, VersionAssumption, FaultAssumption

-----------------------------------------------------------------------------
(* The steps in groups.                                                    *)

Talk == \/ CheckInStep \/ CheckInAnswer \/ ReporterStep \/ ReportAnswer \/ ReportRefused \/ Lost
        \/ HubIssues \/ HubDrops \/ HubUpgrade \/ HubDowngrade
Help == HelperStep \/ HelperCannotStart \/ HelperDies
Watch == WatchStep \/ PrepareRecommended
Live == BecomeReady \/ StopLoop \/ Exit \/ (\E w \in waiters : WaitRound(w))
        \/ Supervise \/ Quit \/ Crash

LEMMA StepCases == Step => Talk \/ Help \/ Watch \/ ConfirmStep \/ Live
  BY DEF Step, Talk, Help, Watch, Live, ProcessStep

Moved(a) == a \in Attempts /\ a.id = attempt.id

LEMMA StageMoves ==
  ASSUME attempt \in Attempts, NEW id, NEW stage \in Stages, SetUpdateStage(id, stage)
  PROVE  Moved(attempt') /\ attempt'.handoff = attempt.handoff
  BY DEF SetUpdateStage, Attempts, Moved

LEMMA ConfirmMoves ==
  ASSUME attempt \in Attempts, NEW id, ConfirmUpdateHandoff(id)
  PROVE  Moved(attempt')
  BY DEF ConfirmUpdateHandoff, Attempts, Moved, Stages

LEMMA ReportedMoves ==
  ASSUME attempt \in Attempts, NEW id, Reported(id)
  PROVE  Moved(attempt') /\ attempt'.handoff = attempt.handoff /\ wake' = TRUE
  BY StageMoves DEF Reported, SignalUpdate, Stages

\* No process of the helper's or the supervisor's touches the queue.
LEMMA HelpFrame ==
  ASSUME Help
  PROVE  UNCHANGED <<attemptVars, watch, confirm>>
  BY DEF Help, HelperStep, HelperAlone, HelperGivesUp, HelperReplaces, HelperRefuses,
         HelperSeesReady, HelperKeeps, HelperDecides, HelperRestores, HelperRecords,
         HelperCannotStart, HelperDies

LEMMA WatchFrame ==
  ASSUME attempt \in Attempts, wake \in BOOLEAN, Watch \/ ConfirmStep
  PROVE  /\ UNCHANGED <<journal, hub, heard, aware, checkIn, report, acknowledged, waiters>>
         /\ Moved(attempt') /\ wake' \in BOOLEAN
<1>1. CASE ConsumeFailure
  BY <1>1, ReportedMoves DEF ConsumeFailure
<1>2. CASE PrepareAttempt
  <2>1. \/ Reported(attempt.id)
        \/ (attempt' = attempt /\ wake' = wake)
        \/ (SetUpdateStage(attempt.id, "preparing") /\ SignalUpdate)
    BY <1>2 DEF PrepareAttempt
  <2> QED
    BY <1>2, <2>1, ReportedMoves, StageMoves DEF PrepareAttempt, Stages, SignalUpdate, Moved
<1>3. CASE Prepared
  BY <1>3, ReportedMoves, StageMoves DEF Prepared, WatchFails, Stages, Moved
<1>4. CASE Launch
  BY <1>4, ReportedMoves DEF Launch, WatchFails, Moved
<1>5. CASE SettleCheck
  BY <1>5, ReportedMoves DEF SettleCheck, RolledBack, Moved
<1>6. CASE RetireLegacyBackup \/ PrepareRecommended
  BY <1>6 DEF RetireLegacyBackup, PrepareRecommended, attemptVars, Moved
<1>7. CASE SettleRecheck
  BY <1>7, ReportedMoves, ConfirmMoves DEF SettleRecheck, RolledBack
<1>8. CASE ConfirmRead
  BY <1>8, StageMoves, ConfirmMoves DEF ConfirmRead, Stages, Moved
<1>9. CASE ConfirmLock
  BY <1>9, ConfirmMoves DEF ConfirmLock, Moved
<1> QED
  BY <1>1, <1>2, <1>3, <1>4, <1>5, <1>6, <1>7, <1>8, <1>9 DEF Watch, WatchStep, ConfirmStep

\* A process that starts, stops or dies only drops what it was doing.
Drops ==
  \/ UNCHANGED <<checkIn, report, wake, acknowledged>>
  \/ checkIn' = NoCheckIn /\ report' = NoReport /\ wake' = FALSE /\ acknowledged' = NoId
  \/ /\ UNCHANGED <<checkIn, wake, acknowledged>>
     /\ report' \in {[NoReport EXCEPT !.phase = "over"], [NoReport EXCEPT !.phase = "flush"]}

LEMMA LiveFrame ==
  ASSUME attempt \in Attempts, Live
  PROVE  /\ UNCHANGED <<journal, hub, heard, aware>> /\ Drops
         /\ attempt' = attempt \/ (attempt' = NoAttempt /\ ~Knows /\ owner.phase = "starting")
<1>1. CASE BecomeReady
  BY <1>1 DEF BecomeReady, Drops
<1>2. CASE StopLoop
  BY <1>2 DEF StopLoop, ReporterStops, Drops
<1>3. CASE Exit \/ Crash
  BY <1>3 DEF Exit, Crash, ForgetRequests, Drops
<1>4. CASE (\E w \in waiters : WaitRound(w)) \/ Supervise \/ Quit
  BY <1>4 DEF WaitRound, Supervise, Quit, attemptVars, Drops
<1> QED
  BY <1>1, <1>2, <1>3, <1>4 DEF Live

-----------------------------------------------------------------------------
(* What Hub makes of a request.                                            *)

LEMMA ReceiptParts ==
  ASSUME NEW id \in Ids, NEW result \in {"in_progress", "failed", "done"}
  PROVE  Receipt(id, result) \in Receipts /\ Receipt(id, result).id = id
         /\ Receipt(id, result).result = result
  BY DEF Receipt, Receipts

LEMMA ReceiptOf ==
  ASSUME NEW r \in Receipts
  PROVE  r.id \in Ids /\ r.result \in {"in_progress", "failed", "done"} /\ r = Receipt(r.id, r.result)
  BY DEF Receipts, Receipt

LEMMA HubHeard ==
  ASSUME AttemptTypeOK, NEW receipts \in SUBSET Receipts, HubHears(receipts)
  PROVE  /\ hub' \in [Ids -> {"unissued", "open", "done", "failed", "dropped"}]
         /\ heard' \subseteq Receipts /\ heard \subseteq heard'
         /\ \A i \in Ids : \/ hub'[i] = hub[i]
                           \/ /\ hub[i] = "open"
                              /\ hub'[i] \in {"failed", "done"}
                              /\ \E r \in receipts : r.id = i /\ r.result = hub'[i]
         /\ \A r \in heard' : \/ r \in heard
                              \/ Final(r) /\ r \in receipts /\ hub'[r.id] # "open"
         /\ aware => \A r \in receipts : Final(r) => r \in heard'
<1> DEFINE final == {r \in receipts : r.result # "in_progress"}
           closing(i) == {r \in final : r.id = i}
           hears(i) == CHOOSE r \in closing(i) : TRUE
<1>1. CASE ~aware
  BY <1>1 DEF HubHears, AttemptTypeOK
<1>2. CASE aware
  <2>1. heard' = heard \cup final
    BY <1>2 DEF HubHears
  <2>2. hub' = [i \in Ids |-> IF hub[i] = "open" /\ closing(i) # {} THEN hears(i).result ELSE hub[i]]
    BY <1>2 DEF HubHears
  <2>3. \A i \in Ids : closing(i) # {} => hears(i) \in closing(i)
    OBVIOUS
  <2>4. \A i \in Ids : closing(i) # {} =>
          hears(i) \in receipts /\ hears(i).id = i /\ hears(i).result \in {"failed", "done"}
    BY <2>3, ReceiptOf
  <2> HIDE DEF hears
  <2>5. \A r \in final : r.id \in Ids /\ r \in closing(r.id)
    BY ReceiptOf
  <2>6. hub' \in [Ids -> {"unissued", "open", "done", "failed", "dropped"}]
    BY <2>2, <2>4 DEF AttemptTypeOK
  <2>7. \A i \in Ids : \/ hub'[i] = hub[i]
                       \/ /\ hub[i] = "open" /\ hub'[i] \in {"failed", "done"}
                          /\ \E r \in receipts : r.id = i /\ r.result = hub'[i]
    BY <2>2, <2>4
  <2>8. \A r \in final : hub'[r.id] # "open"
    BY <2>2, <2>4, <2>5
  <2> QED
    BY <1>2, <2>1, <2>6, <2>7, <2>8 DEF AttemptTypeOK, Final
<1> QED
  BY <1>1, <1>2

-----------------------------------------------------------------------------
(* The talk with Hub, action by action.                                    *)

LEMMA TalkCases ==
  ASSUME Talk
  PROVE  /\ UNCHANGED handoffVars /\ (faults' = faults \/ Fault)
         /\ \/ Ready /\ Knows /\ (CheckInSend \/ CheckInApplies(owner.ver))
            \/ /\ owner.phase \in {"ready", "stopping"} /\ Knows
               /\ ReporterWakes \/ ReporterSends \/ ReporterReconciles(owner.ver)
            \/ CheckInArrives \/ CheckInLost \/ ReportArrives \/ ReportFails
            \/ \E id \in Ids : HubIssue(id) \/ HubDrop(id)
            \/ HubVersion(TRUE) \/ HubVersion(FALSE)
  BY DEF Talk, CheckInStep, ByOwner, CheckInAnswer, ReporterStep, ReportAnswer, ReportRefused, Lost,
         HubIssues, HubDrops, HubUpgrade, HubDowngrade

LEMMA ResultParts ==
  ASSUME AttemptTypeOK, NEW r \in Results
  PROVE  /\ r \in Receipts
         /\ \/ Pending /\ r = Receipt(attempt.id, AttemptResult)
            \/ r.result = journal[r.id] /\ journal[r.id] \in {"failed", "done"}
<1>1. CASE r \in AttemptReceipts
  <2>1. Pending /\ r = Receipt(attempt.id, AttemptResult)
    BY <1>1 DEF AttemptReceipts
  <2>2. attempt.id \in Ids /\ AttemptResult \in {"in_progress", "failed", "done"}
    BY <2>1 DEF Pending, AttemptTypeOK, Attempts, AttemptResult
  <2> QED
    BY <2>1, <2>2, ReceiptParts
<1>2. CASE r \in JournalReceipts
  <2>1. PICK i \in Ids : journal[i] \in {"failed", "done"} /\ r = Receipt(i, journal[i])
    BY <1>2 DEF JournalReceipts
  <2> QED
    BY <2>1 DEF Receipt, Receipts
<1> QED
  BY <1>1, <1>2 DEF Results

LEMMA ReportableParts ==
  ASSUME AttemptTypeOK, NEW r \in Reportable
  PROVE  r \in Receipts /\ Pending /\ r = Receipt(attempt.id, AttemptResult) /\ r.result # "done"
  BY ResultParts DEF Reportable, AttemptReceipts, Results

\* What the sync loop makes of Hub's answer.
Settled == [i \in Ids |-> IF journal[i] # "none" /\ (\E r \in checkIn.sent : r.id = i)
                          THEN "acknowledged" ELSE journal[i]]
Forgets(ver) == Reconciles(ver, checkIn.delivered, checkIn.sent, checkIn.aware)

LEMMA AppliesParts ==
  ASSUME AttemptTypeOK, NEW ver, CheckInApplies(ver)
  PROVE  /\ checkIn.phase = "answered" /\ checkIn' = NoCheckIn
         /\ UNCHANGED <<hub, heard, aware, report, wake, acknowledged>>
         /\ \/ attempt' = NoAttempt /\ Forgets(ver)
            \/ attempt' = attempt
            \/ /\ \E id \in checkIn.delivered : attempt' = StoredAttempt(id)
               /\ Pending => Forgets(ver)
         /\ \/ journal' = Settled
            \/ \E id \in checkIn.delivered :
                 /\ journal' = [Settled EXCEPT ![id] = IF ~legacy THEN journal'[id] ELSE "failed"]
                 /\ journal'[id] \in {"failed", "done"}
<1> DEFINE current == IF Forgets(ver) THEN NoAttempt ELSE attempt
<1>1. /\ checkIn.phase = "answered" /\ checkIn' = NoCheckIn
      /\ UNCHANGED <<hub, heard, aware, report, wake, acknowledged>>
      /\ \/ attempt' = current /\ journal' = Settled
         \/ \E id \in checkIn.delivered, expired \in BOOLEAN :
              /\ attempt' = IF Accepts(current, ver, expired) THEN StoredAttempt(id) ELSE current
              /\ journal' = IF Accepts(current, ver, expired) \/ Settled[id] # "none" THEN Settled
                            ELSE [Settled EXCEPT ![id] = Refusal(current, ver)]
  BY DEF CheckInApplies, Forgets, Settled
<1>2. \A id \in checkIn.delivered : id \in Ids
  BY DEF AttemptTypeOK, CheckIns
<1>3. CASE attempt' = current /\ journal' = Settled
  BY <1>1, <1>3
<1>4. ASSUME NEW id \in checkIn.delivered, NEW expired \in BOOLEAN,
             attempt' = IF Accepts(current, ver, expired) THEN StoredAttempt(id) ELSE current,
             journal' = IF Accepts(current, ver, expired) \/ Settled[id] # "none" THEN Settled
                        ELSE [Settled EXCEPT ![id] = Refusal(current, ver)]
      PROVE  /\ \/ attempt' = NoAttempt /\ Forgets(ver)
                \/ attempt' = attempt
                \/ attempt' = StoredAttempt(id) /\ (Pending => Forgets(ver))
             /\ \/ journal' = Settled
                \/ /\ journal' = [Settled EXCEPT ![id] = IF ~legacy THEN journal'[id] ELSE "failed"]
                   /\ journal'[id] \in {"failed", "done"}
  <2>1. Accepts(current, ver, expired) => current.id = NoId
    BY DEF Accepts
  <2>2. current.id = NoId => (Pending => Forgets(ver))
    BY DEF Pending
  <2>3. Refusal(current, ver) \in {"failed", "done"} /\ (legacy => Refusal(current, ver) = "failed")
    BY DEF Refusal
  <2>4. journal' = Settled \/ journal' = [Settled EXCEPT ![id] = Refusal(current, ver)]
    BY <1>4
  <2>5. id \in Ids
    BY <1>2
  <2>6. journal' = [Settled EXCEPT ![id] = Refusal(current, ver)]
          => journal'[id] = Refusal(current, ver)
    BY <2>5 DEF Settled
  <2> HIDE DEF current
  <2>7. \/ journal' = Settled
        \/ /\ journal' = [Settled EXCEPT ![id] = IF ~legacy THEN journal'[id] ELSE "failed"]
           /\ journal'[id] \in {"failed", "done"}
    BY <2>3, <2>4, <2>6 DEF AttemptTypeOK
  <2>8. attempt' = current \/ (attempt' = StoredAttempt(id) /\ (Pending => Forgets(ver)))
    BY <1>4, <2>1, <2>2
  <2> QED
    BY <2>7, <2>8 DEF current
<1> QED
  BY <1>1, <1>3, <1>4

LEMMA AppliesTypes ==
  ASSUME AttemptTypeOK, NEW ver, CheckInApplies(ver)
  PROVE  attempt' \in Attempts /\ journal' \in [Ids -> {"none", "failed", "done", "acknowledged"}]
<1>1. \A id \in checkIn.delivered : id \in Ids
  BY DEF AttemptTypeOK, CheckIns
<1>2. \A id \in Ids : StoredAttempt(id) \in Attempts
  BY DEF StoredAttempt, Attempts, Stages
<1>3. NoAttempt \in Attempts
  BY DEF NoAttempt, Attempts, Stages
<1>4. attempt' \in Attempts
  BY <1>1, <1>2, <1>3, AppliesParts DEF AttemptTypeOK
<1>5. Settled \in [Ids -> {"none", "failed", "done", "acknowledged"}]
  BY DEF Settled, AttemptTypeOK
<1>6. CASE journal' = Settled
  BY <1>4, <1>5, <1>6
<1>7. ASSUME NEW id \in checkIn.delivered,
             journal' = [Settled EXCEPT ![id] = IF ~legacy THEN journal'[id] ELSE "failed"],
             journal'[id] \in {"failed", "done"}
      PROVE  journal' \in [Ids -> {"none", "failed", "done", "acknowledged"}]
  <2>1. PICK v \in {"failed", "done"} : journal' = [Settled EXCEPT ![id] = v]
    BY <1>7
  <2> QED
    BY <2>1, <1>5
<1> QED
  BY <1>4, <1>6, <1>7, AppliesParts

LEMMA NothingTyped == NoCheckIn \in CheckIns /\ NoReport \in Reports /\ NoAttempt \in Attempts
  BY DEF NoCheckIn, CheckIns, NoReport, Reports, NoAttempt, Attempts, Stages

LEMMA FailureTyped == ASSUME NEW a \in Attempts PROVE FailureOf(a) \in Ids \cup {NoId}
  BY DEF FailureOf, Attempts

\* The parts of HandoffTypeOK that a step of the talk can touch.
LEMMA TalkTypes ==
  ASSUME HandoffTypeOK, Talk, legacy' = legacy
  PROVE  /\ AttemptTypeOK' /\ faults' \in 0..MaxFaults
         /\ \A i \in Ids : Known(i) => Known(i)'
         /\ heard \subseteq heard'
<1> USE DEF Known
<1>1. AttemptTypeOK /\ faults' \in 0..MaxFaults
  BY TalkCases DEF HandoffTypeOK, Fault
<1>2. CASE CheckInSend
  <2>1. Results \subseteq Receipts
    BY <1>1, ResultParts
  <2>2. checkIn' \in CheckIns
    BY <1>2, <2>1 DEF CheckInSend, CheckIns, NoCheckIn
  <2> QED
    BY <1>1, <1>2, <2>2 DEF CheckInSend, AttemptTypeOK
<1>3. CASE CheckInApplies(owner.ver)
  BY <1>1, <1>3, AppliesTypes, AppliesParts, NothingTyped DEF AttemptTypeOK
<1>4. CASE CheckInArrives
  <2>1. checkIn.sent \in SUBSET Receipts /\ HubHears(checkIn.sent)
    BY <1>1, <1>4 DEF CheckInArrives, AttemptTypeOK, CheckIns
  <2>2. checkIn' \in CheckIns
    BY <1>1, <1>4 DEF CheckInArrives, AttemptTypeOK, CheckIns
  <2> QED
    BY <1>1, <1>4, <2>1, <2>2, HubHeard DEF CheckInArrives, AttemptTypeOK
<1>5. CASE CheckInLost
  BY <1>1, <1>5, NothingTyped DEF CheckInLost, AttemptTypeOK
<1>6. CASE ReporterWakes
  <2>1. report' \in Reports
    BY <1>1, <1>6, FailureTyped DEF ReporterWakes, AttemptTypeOK, Reports, NoReport
  <2> QED
    BY <1>1, <1>6, <2>1 DEF ReporterWakes, AttemptTypeOK
<1>7. ASSUME NEW stopping \in BOOLEAN, ReporterDone(stopping)
      PROVE  report' \in Reports /\ acknowledged' \in Ids \cup {NoId}
  BY <1>1, <1>7 DEF ReporterDone, AttemptTypeOK, Reports, NoReport
<1>8. CASE ReporterSends
  <2>1. CASE Reportable = {}
    BY <1>1, <1>7, <1>8, <2>1 DEF ReporterSends, AttemptTypeOK
  <2>2. CASE Reportable # {}
    <3>1. Reportable \subseteq Receipts
      BY <1>1, ReportableParts
    <3>2. report' \in Reports
      BY <1>1, <1>8, <2>2, <3>1 DEF ReporterSends, AttemptTypeOK, Reports
    <3> QED
      BY <1>1, <1>8, <2>2, <3>2 DEF ReporterSends, AttemptTypeOK
  <2> QED
    BY <2>1, <2>2
<1>9. CASE ReporterReconciles(owner.ver)
  <2>1. attempt' \in Attempts
    BY <1>1, <1>9, NothingTyped DEF ReporterReconciles, ReconcileUpdate, AttemptTypeOK
  <2> QED
    BY <1>1, <1>7, <1>9, <2>1 DEF ReporterReconciles, AttemptTypeOK
<1>10. CASE ReportArrives
  <2>1. report.sent \in SUBSET Receipts /\ HubHears(report.sent)
    BY <1>1, <1>10 DEF ReportArrives, AttemptTypeOK, Reports
  <2>2. report' \in Reports
    BY <1>1, <1>10 DEF ReportArrives, AttemptTypeOK, Reports
  <2> QED
    BY <1>1, <1>10, <2>1, <2>2, HubHeard DEF ReportArrives, AttemptTypeOK
<1>11. CASE ReportFails
  <2>1. report' \in Reports
    BY <1>1, <1>11 DEF ReportFails, AttemptTypeOK, Reports
  <2> QED
    BY <1>1, <1>11, <2>1 DEF ReportFails, AttemptTypeOK
<1>12. ASSUME NEW id \in Ids, HubIssue(id) \/ HubDrop(id)
       PROVE  AttemptTypeOK' /\ (\A i \in Ids : Known(i) => Known(i)') /\ heard \subseteq heard'
  BY <1>1, <1>12 DEF HubIssue, HubDrop, AttemptTypeOK
<1>13. CASE HubVersion(TRUE) \/ HubVersion(FALSE)
  BY <1>1, <1>13 DEF HubVersion, AttemptTypeOK
<1> QED
  BY <1>1, <1>2, <1>3, <1>4, <1>5, <1>6, <1>8, <1>9, <1>10, <1>11, <1>12, <1>13, TalkCases

-----------------------------------------------------------------------------
(* Types.                                                                  *)

Owners == [phase: OwnerPhases, ver: Versions, restart: BOOLEAN]
Waiting == SUBSET [ver: Versions, saw: BOOLEAN]

LEMMA StartTyped ==
  ASSUME HandoffTypeOK, NEW ver \in Versions, StartProcess(ver)
  PROVE  owner' \in Owners /\ waiters' \in Waiting
<1>1. {[ver |-> ver, saw |-> FALSE]} \in Waiting
  BY DEF Waiting
<1>2. waiters \in Waiting /\ owner \in Owners
  BY DEF HandoffTypeOK, Waiting, Owners
<1>3. CASE owner.phase = "down"
  <2>1. /\ owner' = [phase |-> "starting", ver |-> ver, restart |-> FALSE]
        /\ waiters' = waiters
    BY <1>3 DEF StartProcess
  <2> QED
    BY <1>2, <2>1 DEF Owners, OwnerPhases
<1>4. CASE owner.phase # "down"
  <2>1. waiters' = {[ver |-> ver, saw |-> FALSE]} \/ waiters' = waiters
    BY <1>4 DEF StartProcess
  <2> QED
    BY <1>1, <1>2, <1>4, <2>1 DEF StartProcess
<1> QED
  BY <1>3, <1>4

LEMMA UnsupervisedTyped ==
  ASSUME HandoffTypeOK, NEW ver \in Versions, StartUnsupervised(ver)
  PROVE  owner' \in Owners /\ waiters' \in Waiting
  BY StartTyped DEF StartUnsupervised, HandoffTypeOK, Owners, Waiting

LEMMA StoppingTyped ==
  ASSUME HandoffTypeOK, NEW restart \in BOOLEAN, Stopping(restart)
  PROVE  owner' \in Owners
  BY DEF Stopping, HandoffTypeOK, Owners, OwnerPhases

LEMMA FaultTyped == ASSUME HandoffTypeOK, Fault PROVE faults' \in 0..MaxFaults
  BY DEF HandoffTypeOK, Fault

LEMMA OutcomeTyped ==
  ASSUME HandoffTypeOK,
         outcome' = outcome \/ UpdateFailure
         \/ (\E i \in Ids : outcome' = [outcome EXCEPT ![i] = "none"])
         \/ outcome' = IF helper.id = NoId THEN outcome ELSE [outcome EXCEPT ![helper.id] = "ready"]
  PROVE  outcome' \in [Ids -> {"none", "failed", "ready"}]
  BY DEF HandoffTypeOK, UpdateFailure

LEMMA HelpTypes ==
  ASSUME HandoffTypeOK, Help, legacy' = legacy, supervised' = supervised
  PROVE  /\ installed' \in Versions /\ backup' \in BOOLEAN /\ staged' \in BOOLEAN
         /\ owner' \in Owners /\ waiters' \in Waiting
         /\ helper' \in [phase: {"none", "claimed", "alone", "watching", "ready", "late", "restored"},
                         id: Ids \cup {NoId}]
         /\ outcome' \in [Ids -> {"none", "failed", "ready"}]
         /\ faults' \in 0..MaxFaults
<1> USE DEF Owners, Waiting
<1>1. NoHelper \in [phase: {"none"}, id: Ids \cup {NoId}]
  BY DEF NoHelper
<1>2. CASE HelperAlone \/ HelperDecides
  BY <1>2 DEF HelperAlone, HelperDecides, HandoffTypeOK
<1>3. CASE HelperGivesUp
  BY <1>1, <1>3, OutcomeTyped DEF HelperGivesUp, HelperEnds, HandoffTypeOK
<1>4. CASE HelperReplaces
  BY <1>4, UnsupervisedTyped DEF HelperReplaces, HandoffTypeOK, Versions
<1>5. CASE HelperRefuses
  <2>1. installed' \in Versions /\ backup' \in BOOLEAN /\ faults' \in 0..MaxFaults
    BY <1>5, FaultTyped DEF HelperRefuses, HandoffTypeOK, Versions
  <2> QED
    BY <1>1, <1>5, <2>1, UnsupervisedTyped, OutcomeTyped DEF HelperRefuses, HelperEnds
<1>6. CASE HelperSeesReady
  <2>1. outcome' \in [Ids -> {"none", "failed", "ready"}]
    BY <1>6, OutcomeTyped DEF HelperSeesReady
  <2> QED
    BY <1>1, <1>6, <2>1, FaultTyped DEF HelperSeesReady, HandoffTypeOK
<1>7. CASE HelperKeeps
  BY <1>1, <1>7 DEF HelperKeeps, HelperEnds, HandoffTypeOK
<1>8. CASE HelperRestores
  <2>1. outcome' \in [Ids -> {"none", "failed", "ready"}]
    BY <1>8, OutcomeTyped DEF HelperRestores
  <2> QED
    BY <1>1, <1>8, <2>1 DEF HelperRestores, HelperEnds, HandoffTypeOK, Versions
<1>9. CASE HelperRecords
  <2>1. installed \in Versions
    BY DEF HandoffTypeOK
  <2> QED
    BY <1>1, <1>9, <2>1, UnsupervisedTyped, OutcomeTyped DEF HelperRecords, HelperEnds, HandoffTypeOK
<1>10. CASE HelperCannotStart
  BY <1>10, FaultTyped, OutcomeTyped DEF HelperCannotStart, HandoffTypeOK
<1>11. CASE HelperDies
  BY <1>1, <1>11, FaultTyped DEF HelperDies, HandoffTypeOK
<1> QED
  BY <1>2, <1>3, <1>4, <1>5, <1>6, <1>7, <1>8, <1>9, <1>10, <1>11 DEF Help, HelperStep

WatchTypes == [phase: {"idle", "preparing", "launching", "checked", "retired"}, id: Ids \cup {NoId}]
ConfirmTypes == [phase: {"off", "reading", "locking"}, id: Ids \cup {NoId}]

LEMMA IdleTyped == NoWatch \in WatchTypes /\ [phase |-> "off", id |-> NoId] \in ConfirmTypes
                   /\ [phase |-> "reading", id |-> NoId] \in ConfirmTypes
  BY DEF NoWatch, WatchTypes, ConfirmTypes

\* The parts of HandoffTypeOK that a watcher's step can touch.
LEMMA WatchStepTypes ==
  ASSUME HandoffTypeOK, Watch \/ ConfirmStep
  PROVE  /\ installed' = installed /\ backup' \in BOOLEAN /\ staged' \in BOOLEAN
         /\ owner' \in Owners /\ watch' \in WatchTypes /\ confirm' \in ConfirmTypes
         /\ helper' \in [phase: {"none", "claimed", "alone", "watching", "ready", "late", "restored"},
                         id: Ids \cup {NoId}]
         /\ outcome' \in [Ids -> {"none", "failed", "ready"}]
         /\ faults' \in 0..MaxFaults
<1>0. /\ owner \in Owners /\ watch \in WatchTypes /\ confirm \in ConfirmTypes
      /\ attempt.id \in Ids \cup {NoId} /\ (Pending => attempt.id \in Ids)
  BY DEF HandoffTypeOK, Owners, WatchTypes, ConfirmTypes, AttemptTypeOK, Attempts, Pending
<1>1. CASE ConsumeFailure
  BY <1>0, <1>1, OutcomeTyped DEF ConsumeFailure, HandoffTypeOK
<1>2. CASE PrepareAttempt
  BY <1>0, <1>2 DEF PrepareAttempt, HandoffTypeOK, WatchTypes
<1>3. CASE Prepared
  BY <1>0, <1>3, IdleTyped DEF Prepared, WatchFails, HandoffTypeOK, WatchTypes
<1>4. CASE Launch
  <2>1. owner' \in Owners
    BY <1>0, <1>4, StoppingTyped DEF Launch
  <2>2. watch' \in WatchTypes
    BY <1>0, <1>4, IdleTyped DEF Launch, WatchFails
  <2>3. /\ helper' = helper \/ helper' = [phase |-> "claimed", id |-> watch.id]
        /\ staged' = staged \/ staged' \in BOOLEAN
        /\ UNCHANGED <<installed, backup, confirm, outcome, faults>>
    BY <1>4 DEF Launch, HelperClaims
  <2>4. watch.id \in Ids \cup {NoId}
    BY <1>0 DEF WatchTypes
  <2> QED
    BY <1>0, <2>1, <2>2, <2>3, <2>4 DEF HandoffTypeOK
<1>5. CASE SettleCheck
  <2>1. owner' \in Owners
    BY <1>0, <1>5, StoppingTyped DEF SettleCheck, RolledBack
  <2>2. watch' \in WatchTypes
    BY <1>0, <1>5 DEF SettleCheck, WatchTypes
  <2> QED
    BY <1>0, <1>5, <2>1, <2>2 DEF SettleCheck, HandoffTypeOK
<1>6. CASE RetireLegacyBackup
  BY <1>0, <1>6 DEF RetireLegacyBackup, HandoffTypeOK, WatchTypes
<1>7. CASE PrepareRecommended
  BY <1>0, <1>7, FaultTyped DEF PrepareRecommended, HandoffTypeOK, WatchTypes
<1>8. CASE SettleRecheck
  BY <1>0, <1>8, StoppingTyped DEF SettleRecheck, RolledBack, HandoffTypeOK, WatchTypes
<1>9. CASE ConfirmRead
  <2>1. confirm' \in ConfirmTypes
    BY <1>0, <1>9, IdleTyped DEF ConfirmRead, ConfirmTypes
  <2>2. outcome' = outcome \/ (\E i \in Ids : outcome' = [outcome EXCEPT ![i] = "none"])
    BY <1>0, <1>9 DEF ConfirmRead, Confirms
  <2> QED
    BY <1>0, <1>9, <2>1, <2>2, OutcomeTyped DEF ConfirmRead, HandoffTypeOK
<1>10. CASE ConfirmLock
  BY <1>0, <1>10, IdleTyped DEF ConfirmLock, HandoffTypeOK
<1> QED
  BY <1>1, <1>2, <1>3, <1>4, <1>5, <1>6, <1>7, <1>8, <1>9, <1>10 DEF Watch, WatchStep, ConfirmStep

LEMMA LiveTypes ==
  ASSUME HandoffTypeOK, Live
  PROVE  /\ UNCHANGED <<installed, backup, staged, helper, outcome>>
         /\ owner' \in Owners /\ waiters' \in Waiting
         /\ watch' \in WatchTypes /\ confirm' \in ConfirmTypes
         /\ faults' \in 0..MaxFaults
<1>0. /\ owner \in Owners /\ waiters \in Waiting /\ watch \in WatchTypes /\ confirm \in ConfirmTypes
      /\ installed \in Versions /\ faults \in 0..MaxFaults
  BY DEF HandoffTypeOK, Owners, Waiting, WatchTypes, ConfirmTypes
<1>1. CASE BecomeReady
  BY <1>0, <1>1, IdleTyped DEF BecomeReady, Owners, OwnerPhases
<1>2. CASE StopLoop
  BY <1>0, <1>2 DEF StopLoop, handoffVars
<1>3. CASE Exit \/ Crash
  <2>1. NoOwner \in Owners /\ [phase |-> "starting", ver |-> installed, restart |-> FALSE] \in Owners
    BY <1>0 DEF NoOwner, Owners, OwnerPhases, Versions
  <2>2. faults' \in 0..MaxFaults
    BY <1>0, <1>3, FaultTyped DEF Exit, Crash
  <2> QED
    BY <1>0, <1>3, <2>1, <2>2, IdleTyped DEF Exit, Crash
<1>4. ASSUME NEW w \in waiters, WaitRound(w) PROVE owner' \in Owners /\ waiters' \in Waiting
  <2>1. /\ w \in [ver: Versions, saw: BOOLEAN]
        /\ [w EXCEPT !.saw = TRUE] \in [ver: Versions, saw: BOOLEAN]
        /\ [ver |-> installed, saw |-> FALSE] \in [ver: Versions, saw: BOOLEAN]
        /\ [phase |-> "starting", ver |-> w.ver, restart |-> FALSE] \in Owners
    BY <1>0 DEF Waiting, Owners, OwnerPhases
  <2>2. owner' = owner \/ owner' = [phase |-> "starting", ver |-> w.ver, restart |-> FALSE]
    BY <1>4 DEF WaitRound
  <2>3. \/ waiters' = (waiters \ {w}) \cup {[w EXCEPT !.saw = TRUE]}
        \/ waiters' = (waiters \ {w}) \cup {[ver |-> installed, saw |-> FALSE]}
        \/ waiters' = (waiters \ {w}) \cup {}
    BY <1>4 DEF WaitRound
  <2>4. owner' \in Owners
    BY <1>0, <2>1, <2>2
  <2>5. waiters' \in Waiting
    BY <1>0, <2>1, <2>3 DEF Waiting
  <2> QED
    BY <2>4, <2>5
<1>5. CASE \E w \in waiters : WaitRound(w)
  BY <1>0, <1>4, <1>5 DEF WaitRound
<1>6. CASE Supervise
  BY <1>0, <1>6, StartTyped DEF Supervise
<1>7. CASE Quit
  BY <1>0, <1>7, StoppingTyped, FaultTyped DEF Quit
<1> QED
  BY <1>1, <1>2, <1>3, <1>5, <1>6, <1>7 DEF Live

LEMMA RestorerTyped ==
  ASSUME HandoffTypeOK, History PROVE restorer' \in Ids \cup {NoId}
  BY DEF HandoffTypeOK, History, Restorer

LEMMA DropsTyped ==
  ASSUME AttemptTypeOK, Drops
  PROVE  /\ checkIn' \in CheckIns /\ report' \in Reports /\ wake' \in BOOLEAN
         /\ acknowledged' \in Ids \cup {NoId}
<1>1. [NoReport EXCEPT !.phase = "over"] \in Reports /\ [NoReport EXCEPT !.phase = "flush"] \in Reports
  BY DEF NoReport, Reports
<1> QED
  BY <1>1, NothingTyped DEF Drops, AttemptTypeOK

LEMMA TypesNext ==
  ASSUME HandoffTypeOK, Step, History
  PROVE  HandoffTypeOK'
<1>1. /\ AttemptTypeOK /\ attempt \in Attempts /\ wake \in BOOLEAN /\ restorer' \in Ids \cup {NoId}
      /\ legacy' = legacy /\ supervised' = supervised /\ supervised \in BOOLEAN
  BY RestorerTyped DEF HandoffTypeOK, AttemptTypeOK, History
<1>2. CASE Talk
  <2>1. AttemptTypeOK' /\ UNCHANGED handoffVars /\ faults' \in 0..MaxFaults
    BY <1>1, <1>2, TalkTypes, TalkCases
  <2> QED
    BY <1>1, <2>1 DEF HandoffTypeOK, handoffVars
<1>3. CASE Help
  <2>1. UNCHANGED <<attemptVars, watch, confirm>>
    BY <1>3, HelpFrame
  <2>2. AttemptTypeOK'
    BY <1>1, <2>1 DEF AttemptTypeOK, attemptVars
  <2> QED
    BY <1>1, <1>3, <2>1, <2>2, HelpTypes DEF HandoffTypeOK, Owners, Waiting
<1>4. CASE Watch \/ ConfirmStep
  <2>1. AttemptTypeOK' /\ waiters' = waiters
    BY <1>1, <1>4, WatchFrame DEF AttemptTypeOK, Moved
  <2> QED
    BY <1>1, <1>4, <2>1, WatchStepTypes DEF HandoffTypeOK, Owners, WatchTypes, ConfirmTypes
<1>5. CASE Live
  <2>1. Drops /\ UNCHANGED <<journal, hub, heard, aware>> /\ attempt' \in {attempt, NoAttempt}
    BY <1>1, <1>5, LiveFrame
  <2>2. AttemptTypeOK'
    BY <1>1, <2>1, DropsTyped, NothingTyped DEF AttemptTypeOK
  <2> QED
    BY <1>1, <1>5, <2>2, LiveTypes DEF HandoffTypeOK, Owners, Waiting, WatchTypes, ConfirmTypes
<1> QED
  BY <1>2, <1>3, <1>4, <1>5, StepCases

-----------------------------------------------------------------------------
(* What Hub issued, what it heard and what it answered.                    *)

LEMMA NoneSent == NoCheckIn.sent = {} /\ NoCheckIn.delivered = {} /\ NoReport.sent = {}
                  /\ NoCheckIn.phase = "idle" /\ NoReport.phase = "idle"
                  /\ NoReport.before = NoId /\ NoAttempt.id = NoId /\ NoAttempt.handoff = FALSE
                  /\ NoAttempt.stage = "picked_up"
  BY DEF NoCheckIn, NoReport, NoAttempt

\* A step that asks for and stores nothing new.
LEMMA IssuedFrame ==
  ASSUME HandoffTypeOK, Issued, journal' = journal, \A i \in Ids : Known(i) => Known(i)',
         checkIn'.sent \subseteq checkIn.sent, checkIn'.delivered \subseteq checkIn.delivered,
         report'.sent \subseteq report.sent, attempt'.id \in {attempt.id, NoId}
  PROVE  Issued'
<1>1. /\ \A r \in checkIn.sent \cup report.sent : r.id \in Ids
      /\ \A i \in checkIn.delivered : i \in Ids
      /\ Pending => attempt.id \in Ids
  BY ReceiptOf DEF HandoffTypeOK, AttemptTypeOK, CheckIns, Reports, Attempts, Pending
<1> QED
  BY <1>1 DEF Issued, Pending

LEMMA IssuedTalk ==
  ASSUME HandoffTypeOK, Issued, Talk, legacy' = legacy
  PROVE  Issued'
<1> USE DEF Known
<1>1. /\ AttemptTypeOK /\ attempt \in Attempts /\ checkIn \in CheckIns /\ report \in Reports
      /\ attempt.id \in Ids \cup {NoId}
  BY DEF HandoffTypeOK, AttemptTypeOK, Attempts
<1>2. \A i \in Ids : Known(i) => Known(i)'
  BY TalkTypes
<1>3. \A r \in Results : r.id \in Ids /\ Known(r.id) /\ Known(r.id)'
  <2> TAKE r \in Results
  <2>1. r \in Receipts /\ r.id \in Ids
    BY <1>1, ResultParts, ReceiptOf
  <2>2. CASE Pending /\ r = Receipt(attempt.id, AttemptResult)
    BY <1>2, <2>1, <2>2 DEF Issued, Receipt
  <2>3. CASE journal[r.id] \in {"failed", "done"}
    BY <1>2, <2>1, <2>3 DEF Issued
  <2> QED
    BY <1>1, <2>2, <2>3, ResultParts
<1>4. /\ \A r \in checkIn.sent \cup report.sent : r.id \in Ids /\ Known(r.id)'
      /\ \A i \in checkIn.delivered : i \in Ids /\ Known(i) /\ Known(i)'
      /\ Pending => attempt.id \in Ids /\ hub'[attempt.id] # "unissued"
  <2>1. /\ \A r \in checkIn.sent \cup report.sent : r.id \in Ids
        /\ \A i \in checkIn.delivered : i \in Ids
        /\ Pending => attempt.id \in Ids
    BY <1>1, ReceiptOf DEF CheckIns, Reports, Pending
  <2> QED
    BY <1>2, <2>1 DEF Issued
<1>5. CASE CheckInSend
  <2>1. checkIn'.sent = Results /\ checkIn'.delivered = {}
    BY <1>5 DEF CheckInSend, NoCheckIn
  <2> QED
    BY <1>2, <1>3, <1>4, <1>5, <2>1 DEF CheckInSend, Issued, Known, Pending
<1>6. CASE CheckInApplies(owner.ver)
  <2>1. UNCHANGED <<hub, report>> /\ checkIn' = NoCheckIn
    BY <1>1, <1>6, AppliesParts
  <2>2. attempt'.id # NoId => hub'[attempt'.id] # "unissued"
    <3>0. NoAttempt.id = NoId /\ \A id : StoredAttempt(id).id = id
      BY NoneSent DEF StoredAttempt
    <3>1. attempt' = NoAttempt \/ attempt' = attempt
          \/ (\E id \in checkIn.delivered : attempt' = StoredAttempt(id))
      BY <1>1, <1>6, AppliesParts
    <3> QED
      BY <1>4, <3>0, <3>1 DEF Pending
  <2>3. ASSUME NEW i \in Ids, journal'[i] # "none"
        PROVE  Known(i)'
    <3>1. Settled \in [Ids -> {"none", "failed", "done", "acknowledged"}]
          /\ (Settled[i] # "none" => journal[i] # "none")
      BY <1>1 DEF Settled, AttemptTypeOK
    <3>2. Settled[i] # "none" \/ i \in checkIn.delivered
      BY <1>1, <1>4, <1>6, <2>3, <3>1, AppliesParts
    <3> QED
      BY <1>2, <1>4, <3>1, <3>2 DEF Issued
  <2>4. \A r \in checkIn'.sent \cup report'.sent : hub'[r.id] # "unissued"
    BY <1>4, <2>1, NoneSent
  <2> QED
    BY <2>1, <2>2, <2>3, <2>4, NoneSent DEF Issued, Known, Pending
<1>7. CASE CheckInArrives
  <2>1. /\ checkIn'.sent = checkIn.sent /\ \A i \in checkIn'.delivered : i \in Ids /\ hub'[i] = "open"
        /\ UNCHANGED <<attempt, journal, report>>
    BY <1>1, <1>7 DEF CheckInArrives, CheckIns
  <2> QED
    BY <1>2, <1>4, <2>1 DEF Issued, Known, Pending
<1>8. CASE CheckInLost \/ ReporterWakes
  <2>1. /\ checkIn'.sent \subseteq checkIn.sent /\ checkIn'.delivered \subseteq checkIn.delivered
        /\ report'.sent \subseteq report.sent /\ attempt' = attempt /\ journal' = journal
    BY <1>8, NoneSent DEF CheckInLost, ReporterWakes, NoReport
  <2> QED
    BY <1>2, <2>1, IssuedFrame
<1>9. ASSUME NEW stopping, ReporterDone(stopping)
      PROVE  report'.sent = {}
  BY <1>9 DEF ReporterDone, NoReport
<1>10. CASE ReporterSends
  <2>1. CASE Reportable = {}
    BY <1>2, <1>9, <1>10, <2>1, IssuedFrame DEF ReporterSends
  <2>2. CASE Reportable # {}
    <3>1. report'.sent = Reportable /\ UNCHANGED <<attempt, journal, hub, checkIn>>
      BY <1>1, <1>10, <2>2 DEF ReporterSends, Reports
    <3>2. Reportable \subseteq Results
      BY DEF Reportable, Results
    <3> QED
      BY <1>3, <1>4, <3>1, <3>2 DEF Issued, Known, Pending
  <2> QED
    BY <2>1, <2>2
<1>11. CASE ReporterReconciles(owner.ver)
  <2>1. attempt' \in {attempt, NoAttempt} /\ UNCHANGED <<journal, checkIn>> /\ report'.sent = {}
    BY <1>9, <1>11 DEF ReporterReconciles, ReconcileUpdate
  <2> QED
    BY <1>2, <2>1, NoneSent, IssuedFrame
<1>12. CASE ReportArrives \/ ReportFails
  <2>1. report'.sent = report.sent /\ UNCHANGED <<attempt, journal, checkIn>>
    BY <1>1, <1>12 DEF ReportArrives, ReportFails, Reports
  <2> QED
    BY <1>2, <2>1, IssuedFrame
<1>13. CASE (\E id \in Ids : HubIssue(id) \/ HubDrop(id)) \/ HubVersion(TRUE) \/ HubVersion(FALSE)
  BY <1>2, <1>13, IssuedFrame DEF HubIssue, HubDrop, HubVersion
<1> QED
  BY <1>5, <1>6, <1>7, <1>8, <1>10, <1>11, <1>12, <1>13, TalkCases

LEMMA DropsSent ==
  ASSUME HandoffTypeOK, Drops
  PROVE  /\ checkIn'.sent \subseteq checkIn.sent /\ checkIn'.delivered \subseteq checkIn.delivered
         /\ report'.sent \subseteq report.sent
  BY NoneSent DEF Drops, NoReport

LEMMA IssuedNext ==
  ASSUME HandoffTypeOK, Issued, Step, History
  PROVE  Issued'
<1>1. /\ AttemptTypeOK /\ attempt \in Attempts /\ wake \in BOOLEAN
      /\ checkIn \in CheckIns /\ report \in Reports /\ legacy' = legacy
  BY DEF HandoffTypeOK, AttemptTypeOK, History
<1>2. CASE Talk
  BY <1>1, <1>2, IssuedTalk
<1>3. CASE Help
  <2>1. UNCHANGED attemptVars
    BY <1>3, HelpFrame
  <2> QED
    BY <2>1 DEF Issued, attemptVars, Known, Pending
<1>4. CASE Watch \/ ConfirmStep
  <2>1. UNCHANGED <<journal, hub, checkIn, report>> /\ attempt'.id = attempt.id
    BY <1>1, <1>4, WatchFrame DEF Moved
  <2> QED
    BY <2>1, IssuedFrame DEF Known
<1>5. CASE Live
  <2>1. Drops /\ UNCHANGED <<journal, hub>> /\ attempt'.id \in {attempt.id, NoId}
    BY <1>1, <1>5, LiveFrame, NoneSent
  <2> QED
    BY <2>1, IssuedFrame, DropsSent DEF Known
<1> QED
  BY <1>2, <1>3, <1>4, <1>5, StepCases

\* Hub closes what it hears, and an answer says that it heard.
LEMMA HubCloses ==
  ASSUME AttemptTypeOK, HeardClosed, NEW receipts \in SUBSET Receipts, HubHears(receipts),
         \A r \in receipts : Known(r.id)
  PROVE  HeardClosed'
<1>1. \A r \in heard \cup receipts : r.id \in Ids
  BY ReceiptOf DEF AttemptTypeOK
<1>2. \A i \in Ids : hub'[i] = hub[i] \/ (hub[i] = "open" /\ hub'[i] \in {"failed", "done"})
  BY HubHeard
<1>3. \A r \in heard' : r \in heard \/ (r \in receipts /\ hub'[r.id] # "open")
  BY HubHeard
<1> QED
  BY <1>1, <1>2, <1>3 DEF HeardClosed, Known

LEMMA HeardTalk ==
  ASSUME HandoffTypeOK, Issued, HeardClosed, Answered, Talk, legacy' = legacy
  PROVE  HeardClosed' /\ Answered'
<1>1. /\ AttemptTypeOK /\ checkIn \in CheckIns /\ report \in Reports
      /\ heard \subseteq heard' /\ \A r \in heard : r.id \in Ids
  BY TalkTypes, ReceiptOf DEF HandoffTypeOK, AttemptTypeOK
<1>2. CASE UNCHANGED <<hub, heard, checkIn>> /\ report'.phase \notin {"answered", "flushAnswered"}
  BY <1>2 DEF HeardClosed, Answered
<1>3. ASSUME NEW stopping, ReporterDone(stopping)
      PROVE  report'.phase \in {"idle", "over"}
  BY <1>3 DEF ReporterDone, NoReport
<1>4. CASE CheckInSend \/ CheckInApplies(owner.ver) \/ CheckInLost
  <2>1. UNCHANGED <<hub, heard, report>> /\ checkIn'.phase # "answered"
    BY <1>1, <1>4, AppliesParts, NoneSent DEF CheckInSend, CheckInLost, NoCheckIn
  <2> QED
    BY <2>1 DEF HeardClosed, Answered
<1>5. CASE CheckInArrives
  <2>1. checkIn.sent \in SUBSET Receipts /\ HubHears(checkIn.sent) /\ \A r \in checkIn.sent : Known(r.id)
    BY <1>1, <1>5 DEF CheckInArrives, CheckIns, Issued
  <2>2. checkIn'.sent = checkIn.sent /\ checkIn'.aware = aware /\ report' = report
    BY <1>1, <1>5 DEF CheckInArrives, CheckIns
  <2>3. HeardClosed'
    BY <1>1, <2>1, HubCloses
  <2>4. aware => \A r \in checkIn.sent : Final(r) => r \in heard'
    BY <1>1, <2>1, HubHeard
  <2> QED
    BY <1>1, <2>2, <2>3, <2>4 DEF Answered, Final
<1>6. CASE ReportArrives
  <2>1. report.sent \in SUBSET Receipts /\ HubHears(report.sent) /\ \A r \in report.sent : Known(r.id)
    BY <1>1, <1>6 DEF ReportArrives, Reports, Issued
  <2>2. report'.sent = report.sent /\ aware /\ checkIn' = checkIn
    BY <1>1, <1>6 DEF ReportArrives, Reports
  <2>3. HeardClosed'
    BY <1>1, <2>1, HubCloses
  <2>4. \A r \in report.sent : Final(r) => r \in heard'
    BY <1>1, <2>1, <2>2, HubHeard
  <2> QED
    BY <1>1, <2>2, <2>3, <2>4 DEF Answered, Final
<1>7. CASE ReporterWakes \/ ReporterSends \/ ReporterReconciles(owner.ver) \/ ReportFails
  <2>1. UNCHANGED <<hub, heard, checkIn>>
    BY <1>7 DEF ReporterWakes, ReporterSends, ReporterReconciles, ReportFails
  <2>2. report'.phase \notin {"answered", "flushAnswered"}
    BY <1>1, <1>3, <1>7 DEF ReporterWakes, ReporterSends, ReporterReconciles, ReportFails,
                            NoReport, Reports
  <2> QED
    BY <1>2, <2>1, <2>2
<1>8. CASE (\E id \in Ids : HubIssue(id) \/ HubDrop(id)) \/ HubVersion(TRUE) \/ HubVersion(FALSE)
  <2>1. UNCHANGED <<heard, checkIn, report>>
        /\ \A i \in Ids : hub'[i] = hub[i] \/ hub[i] = "unissued" \/ hub'[i] = "dropped"
    BY <1>1, <1>8 DEF HubIssue, HubDrop, HubVersion, AttemptTypeOK
  <2> QED
    BY <1>1, <2>1 DEF HeardClosed, Answered
<1> QED
  BY <1>4, <1>5, <1>6, <1>7, <1>8, TalkCases

LEMMA HeardNext ==
  ASSUME HandoffTypeOK, Issued, HeardClosed, Answered, Step, History
  PROVE  HeardClosed' /\ Answered'
<1>1. /\ attempt \in Attempts /\ wake \in BOOLEAN /\ legacy' = legacy
  BY DEF HandoffTypeOK, AttemptTypeOK, History
<1>2. CASE Talk
  BY <1>1, <1>2, HeardTalk
<1>3. CASE Help \/ Watch \/ ConfirmStep
  BY <1>1, <1>3, HelpFrame, WatchFrame DEF attemptVars, HeardClosed, Answered
<1>4. CASE Live
  <2>1. Drops /\ UNCHANGED <<hub, heard>>
    BY <1>1, <1>4, LiveFrame
  <2>2. /\ checkIn' = checkIn \/ checkIn'.phase = "idle"
        /\ report' = report \/ report'.phase \in {"idle", "over", "flush"}
    BY <2>1, NoneSent DEF Drops, NoReport
  <2> QED
    BY <2>1, <2>2 DEF HeardClosed, Answered
<1> QED
  BY <1>2, <1>3, <1>4, StepCases

LEMMA ReconcilesTold ==
  ASSUME HandoffTypeOK, NEW delivered, NEW sent, NEW told, Reconciles(owner.ver, delivered, sent, told)
  PROVE  /\ Pending /\ attempt.id \in Ids /\ told
         /\ AttemptResult \in {"failed", "done"} /\ Receipt(attempt.id, AttemptResult) \in sent
<1>1. owner.ver \in {Old, New} /\ (owner.ver >= New => owner.ver = New)
  BY DEF HandoffTypeOK, Versions
<1>2. Pending /\ attempt.id \in Ids
  BY DEF Reconciles, HandoffTypeOK, AttemptTypeOK, Attempts, Pending
<1>3. CASE attempt.stage = "failed"
  BY <1>2, <1>3 DEF Reconciles, AttemptResult
<1>4. CASE attempt.stage # "failed"
  BY <1>1, <1>2, <1>4 DEF Reconciles, AttemptResult
<1> QED
  BY <1>3, <1>4

\* The queue forgets an attempt once Hub received its outcome.
LEMMA ForgetsHeard ==
  ASSUME HandoffTypeOK, Answered, Step, History, Pending, attempt'.id # attempt.id
  PROVE  \/ Receipt(attempt.id, AttemptResult) \in heard
         \/ owner.phase = "starting" /\ owner'.phase = "ready" /\ ~Knows
<1>1. /\ AttemptTypeOK /\ attempt \in Attempts /\ wake \in BOOLEAN
      /\ owner \in Owners
  BY DEF HandoffTypeOK, AttemptTypeOK, Owners
<1>2. CASE Talk
  <2>1. \/ CheckInApplies(owner.ver) /\ Forgets(owner.ver)
        \/ /\ ReporterReconciles(owner.ver)
           /\ Reconciles(owner.ver, {}, report.sent, TRUE)
    BY <1>1, <1>2, TalkCases, AppliesParts
       DEF CheckInSend, CheckInArrives, CheckInLost, ReporterWakes, ReporterSends, ReportArrives,
           ReportFails, HubIssue, HubDrop, HubVersion, ReporterReconciles, ReconcileUpdate
  <2>2. CASE CheckInApplies(owner.ver) /\ Forgets(owner.ver)
    <3>1. /\ Receipt(attempt.id, AttemptResult) \in checkIn.sent /\ checkIn.aware
          /\ Final(Receipt(attempt.id, AttemptResult)) /\ checkIn.phase = "answered"
      BY <2>2, ReconcilesTold, ReceiptParts DEF Forgets, Final, CheckInApplies
    <3> QED
      BY <3>1 DEF Answered
  <2>3. CASE ReporterReconciles(owner.ver) /\ Reconciles(owner.ver, {}, report.sent, TRUE)
    <3>1. /\ Receipt(attempt.id, AttemptResult) \in report.sent
          /\ Final(Receipt(attempt.id, AttemptResult))
          /\ report.phase \in {"answered", "flushAnswered"}
      BY <2>3, ReconcilesTold, ReceiptParts DEF Final, ReporterReconciles
    <3> QED
      BY <3>1 DEF Answered
  <2> QED
    BY <2>1, <2>2, <2>3
<1>3. CASE Help \/ Watch \/ ConfirmStep
  BY <1>1, <1>3, HelpFrame, WatchFrame DEF attemptVars, Moved
<1>4. CASE Live
  <2>1. attempt' # attempt
    OBVIOUS
  <2>2. BecomeReady
    BY <1>4, <2>1 DEF Live, BecomeReady, StopLoop, ReporterStops, Exit, WaitRound, Supervise, Quit,
                      Crash, attemptVars
  <2>3. owner.phase = "starting" /\ owner'.phase = "ready" /\ ~Knows
    BY <1>1, <2>1, <2>2 DEF BecomeReady, Owners
  <2> QED
    BY <2>3
<1> QED
  BY <1>2, <1>3, <1>4, StepCases

-----------------------------------------------------------------------------
(* The failure that the reporter found.                                    *)

LEMMA FailureIs ==
  ASSUME NEW a, FailureOf(a) # NoId
  PROVE  a.id = FailureOf(a) /\ a.stage = "failed" /\ a.id # NoId
  BY DEF FailureOf

LEMMA FailureReportable ==
  ASSUME AttemptTypeOK, FailureOf(attempt) # NoId
  PROVE  Reportable = {Receipt(FailureOf(attempt), "failed")}
<1>1. attempt.id = FailureOf(attempt) /\ attempt.stage = "failed" /\ Pending /\ attempt.id \in Ids
  BY FailureIs DEF Pending, AttemptTypeOK, Attempts
<1>2. AttemptReceipts = {Receipt(attempt.id, "failed")}
  BY <1>1 DEF AttemptReceipts, AttemptResult
<1>3. Receipt(attempt.id, "failed").result # "done"
  BY <1>1, ReceiptParts
<1> QED
  BY <1>1, <1>2, <1>3 DEF Reportable

\* No goroutine takes a failure back while the reporter is at work on it.
LEMMA FailureStays ==
  ASSUME HandoffTypeOK, WatchInv, LegacyInv, Watch \/ ConfirmStep,
         report.before # NoId, FailureOf(attempt) = report.before
  PROVE  FailureOf(attempt') = report.before
<1>1. /\ attempt \in Attempts /\ attempt.id = report.before /\ attempt.stage = "failed"
      /\ Pending /\ owner \in Owners
  BY FailureIs DEF HandoffTypeOK, AttemptTypeOK, Pending, Owners
<1>2. ASSUME NEW id, SetUpdateStage(id, "failed")
      PROVE  FailureOf(attempt') = report.before
  BY <1>1, <1>2 DEF SetUpdateStage, FailureOf, Attempts
<1>3. ASSUME NEW id, Reported(id)
      PROVE  FailureOf(attempt') = report.before
  BY <1>2, <1>3 DEF Reported
<1>4. ASSUME NEW id, ~legacy, ConfirmUpdateHandoff(id)
      PROVE  FailureOf(attempt') = report.before
  BY <1>1, <1>4 DEF ConfirmUpdateHandoff, FailureOf, Attempts
<1>5. ASSUME attempt' = attempt
      PROVE  FailureOf(attempt') = report.before
  BY <1>5
<1>6. CASE ConsumeFailure \/ PrepareAttempt \/ SettleCheck
  BY <1>1, <1>3, <1>5, <1>6 DEF ConsumeFailure, PrepareAttempt, SettleCheck, RolledBack
<1>7. CASE WatchFails
  BY <1>3, <1>5, <1>7 DEF WatchFails
<1>8. CASE Prepared /\ ~WatchFails
  <2>1. watch.id # NoId => FailureOf(attempt) # watch.id /\ attempt.id = watch.id
    BY <1>8 DEF Prepared, WatchInv
  <2>2. watch.id = NoId
    BY <1>1, <2>1
  <2> QED
    BY <1>5, <1>8, <2>2 DEF Prepared
<1>9. CASE Launch /\ ~WatchFails
  BY <1>5, <1>9 DEF Launch
<1>10. CASE RetireLegacyBackup \/ PrepareRecommended
  BY <1>5, <1>10 DEF RetireLegacyBackup, PrepareRecommended, attemptVars
<1>11. CASE SettleRecheck
  <2>1. legacy /\ owner.phase # "stopping"
    BY <1>11 DEF SettleRecheck, WatchInv, Ready
  <2>2. report.before = NoId
    BY <2>1, NoneSent DEF LegacyInv
  <2> QED
    BY <2>2
<1>12. CASE ConfirmRead
  BY <1>1, <1>5, <1>12 DEF ConfirmRead, Confirms
<1>13. CASE ConfirmLock
  <2>1. ~legacy
    BY <1>13 DEF ConfirmLock, WatchInv
  <2> QED
    BY <1>4, <1>5, <1>13, <2>1 DEF ConfirmLock
<1> QED
  BY <1>6, <1>7, <1>8, <1>9, <1>10, <1>11, <1>12, <1>13 DEF Watch, WatchStep, ConfirmStep

\* Nor does the check-in, before Hub has heard of it.
LEMMA FailureApplied ==
  ASSUME HandoffTypeOK, Answered, CheckInApplies(owner.ver),
         FailureOf(attempt) # NoId, Receipt(FailureOf(attempt), "failed") \notin heard
  PROVE  attempt' = attempt
<1>1. AttemptTypeOK /\ Pending /\ AttemptResult = "failed" /\ attempt.id = FailureOf(attempt)
  BY FailureIs DEF HandoffTypeOK, Pending, AttemptResult
<1>2. ASSUME Forgets(owner.ver) PROVE FALSE
  <2>1. /\ Receipt(attempt.id, "failed") \in checkIn.sent /\ checkIn.aware
        /\ Final(Receipt(attempt.id, "failed")) /\ checkIn.phase = "answered"
    BY <1>1, <1>2, ReconcilesTold, ReceiptParts DEF Forgets, Final, CheckInApplies
  <2> QED
    BY <1>1, <2>1 DEF Answered
<1> QED
  BY <1>1, <1>2, AppliesParts

LEMMA ReporterTalk ==
  ASSUME HandoffTypeOK, Answered, ReporterFollows, AcknowledgedHeard, Talk, legacy' = legacy
  PROVE  ReporterFollows' /\ AcknowledgedHeard'
<1>1. /\ AttemptTypeOK /\ attempt \in Attempts /\ report \in Reports /\ heard \subseteq heard'
  BY TalkTypes DEF HandoffTypeOK, AttemptTypeOK
<1>2. CASE UNCHANGED <<attempt, report, acknowledged>>
  BY <1>1, <1>2 DEF ReporterFollows, AcknowledgedHeard
<1>3. CASE UNCHANGED acknowledged /\ report'.before = NoId
  BY <1>1, <1>3 DEF ReporterFollows, AcknowledgedHeard
<1>4. CASE CheckInSend \/ CheckInArrives \/ CheckInLost \/ HubVersion(TRUE) \/ HubVersion(FALSE)
           \/ (\E id \in Ids : HubIssue(id) \/ HubDrop(id))
  BY <1>2, <1>4 DEF CheckInSend, CheckInArrives, CheckInLost, HubIssue, HubDrop, HubVersion
<1>5. CASE CheckInApplies(owner.ver)
  <2>1. UNCHANGED <<report, acknowledged, heard>>
    BY <1>1, <1>5, AppliesParts
  <2>2. ReporterFollows'
    BY <1>5, <2>1, FailureApplied DEF ReporterFollows
  <2> QED
    BY <2>1, <2>2 DEF AcknowledgedHeard
<1>6. CASE ReporterWakes
  <2>1. report'.before = FailureOf(attempt) /\ report'.phase = "read" /\ UNCHANGED <<attempt, acknowledged, heard>>
    BY <1>6 DEF ReporterWakes, NoReport
  <2> QED
    BY <2>1 DEF ReporterFollows, AcknowledgedHeard
<1>7. CASE ReporterSends
  <2>1. CASE Reportable = {}
    <3>1. FailureOf(attempt) = NoId /\ attempt' = attempt
      BY <1>1, <1>7, <2>1, FailureReportable DEF ReporterSends
    <3>2. acknowledged' = acknowledged /\ report'.before = NoId
      BY <1>7, <2>1, <3>1 DEF ReporterSends, ReporterDone, NoReport
    <3> QED
      BY <1>3, <3>2
  <2>2. CASE Reportable # {}
    <3>1. /\ report'.sent = Reportable /\ report'.before = report.before
          /\ report'.phase \in {"sent", "flushSent"} /\ report.phase \in {"read", "flush"}
          /\ UNCHANGED <<attempt, acknowledged, heard>>
      BY <1>1, <1>7, <2>2 DEF ReporterSends, Reports
    <3>2. report.before # NoId /\ Receipt(report.before, "failed") \notin heard
            => Receipt(report.before, "failed") \in Reportable
      BY <1>1, <3>1, FailureReportable DEF ReporterFollows
    <3> QED
      BY <3>1, <3>2 DEF ReporterFollows, AcknowledgedHeard
  <2> QED
    BY <2>1, <2>2
<1>8. CASE ReporterReconciles(owner.ver)
  <2>1. report'.before = NoId /\ heard' = heard
    BY <1>8 DEF ReporterReconciles, ReporterDone, NoReport
  <2>2. report.before # NoId => Receipt(report.before, "failed") \in heard
    <3>1. report.before # NoId => Final(Receipt(report.before, "failed"))
      BY <1>1, ReceiptParts DEF Final, Reports
    <3>2. report.phase \in {"answered", "flushAnswered"}
      BY <1>8 DEF ReporterReconciles
    <3> QED
      BY <3>1, <3>2 DEF ReporterFollows, Answered
  <2>3. acknowledged' = acknowledged \/ (report.before # NoId /\ acknowledged' = report.before)
    BY <1>8 DEF ReporterReconciles, ReporterDone
  <2> QED
    BY <2>1, <2>2, <2>3 DEF ReporterFollows, AcknowledgedHeard
<1>9. CASE ReportArrives \/ ReportFails
  <2>1. /\ report'.before = report.before /\ report'.sent = report.sent
        /\ report.phase \in {"sent", "answered", "flushSent", "flushAnswered"}
        /\ report'.phase \notin {"read", "flush"}
        /\ UNCHANGED <<attempt, acknowledged>>
    BY <1>1, <1>9 DEF ReportArrives, ReportFails, Reports
  <2> QED
    BY <1>1, <2>1 DEF ReporterFollows, AcknowledgedHeard
<1> QED
  BY <1>4, <1>5, <1>6, <1>7, <1>8, <1>9, TalkCases

LEMMA ReporterNext ==
  ASSUME HandoffTypeOK, Answered, ReporterFollows, AcknowledgedHeard, Absent, WatchInv, LegacyInv,
         Step, History
  PROVE  ReporterFollows' /\ AcknowledgedHeard'
<1>1. /\ attempt \in Attempts /\ wake \in BOOLEAN /\ legacy' = legacy
  BY DEF HandoffTypeOK, AttemptTypeOK, History
<1>2. CASE Talk
  BY <1>1, <1>2, ReporterTalk
<1>3. CASE Help
  BY <1>3, HelpFrame DEF attemptVars, ReporterFollows, AcknowledgedHeard
<1>4. CASE Watch \/ ConfirmStep
  <2>1. UNCHANGED <<report, heard, acknowledged>>
    BY <1>1, <1>4, WatchFrame
  <2> QED
    BY <1>4, <2>1, FailureStays DEF ReporterFollows, AcknowledgedHeard
<1>5. CASE Live
  <2>1. Drops /\ UNCHANGED heard
    BY <1>1, <1>5, LiveFrame
  <2>2. acknowledged' \in {acknowledged, NoId}
    BY <2>1 DEF Drops
  <2>3. report'.before = NoId \/ (report' = report /\ attempt' = attempt)
    <3>1. CASE report' = report
      BY <1>1, <1>5, <3>1, LiveFrame, NoneSent DEF Absent
    <3>2. CASE report' # report
      BY <2>1, <3>2, NoneSent DEF Drops, NoReport
    <3> QED
      BY <3>1, <3>2
  <2> QED
    BY <2>1, <2>2, <2>3 DEF ReporterFollows, AcknowledgedHeard
<1> QED
  BY <1>2, <1>3, <1>4, <1>5, StepCases

-----------------------------------------------------------------------------
(* Processes.                                                              *)

LEMMA Started ==
  ASSUME NEW ver, StartProcess(ver)
  PROVE  owner' = owner \/ (owner.phase = "down" /\ owner'.phase = "starting")
  BY DEF StartProcess

LEMMA HelpStarts ==
  ASSUME Help
  PROVE  owner' = owner \/ (owner.phase = "down" /\ owner'.phase = "starting")
<1>1. ASSUME NEW ver, StartUnsupervised(ver)
      PROVE  owner' = owner \/ (owner.phase = "down" /\ owner'.phase = "starting")
  BY <1>1, Started DEF StartUnsupervised
<1> QED
  BY <1>1 DEF Help, HelperStep, HelperAlone, HelperGivesUp, HelperReplaces, HelperRefuses,
         HelperSeesReady, HelperKeeps, HelperDecides, HelperRestores, HelperRecords,
         HelperCannotStart, HelperDies

\* A watcher's step is one of a process that is ready, and only stops it.
LEMMA WatchOwner ==
  ASSUME HandoffTypeOK, Watch \/ ConfirmStep
  PROVE  /\ Ready /\ owner'.phase \in {"ready", "stopping"} /\ owner'.ver = owner.ver
<1>1. Ready /\ (owner' = owner \/ Stopping(FALSE) \/ Stopping(TRUE))
  BY DEF Watch, WatchStep, ConfirmStep, ConsumeFailure, PrepareAttempt, Prepared, Launch, SettleCheck,
         RolledBack, RetireLegacyBackup, PrepareRecommended, SettleRecheck, ConfirmRead, ConfirmLock,
         Watching
<1> QED
  BY <1>1 DEF Ready, Stopping, HandoffTypeOK

\* A process that comes and goes leaves no watcher behind.
LEMMA LiveOwner ==
  ASSUME HandoffTypeOK, Live
  PROVE  \/ /\ owner' = owner /\ UNCHANGED <<watch, confirm, attempt, checkIn, wake>>
            /\ report' = report \/ owner.phase = "stopping"
         \/ owner.phase = "down" /\ owner'.phase = "starting" /\ UNCHANGED <<attemptVars, watch, confirm>>
         \/ /\ watch'.phase = "idle" /\ confirm'.phase = "off" /\ owner'.phase \in {"down", "starting"}
            /\ checkIn' = NoCheckIn /\ report' = NoReport /\ wake' = FALSE /\ attempt' = attempt
         \/ /\ watch'.phase = "idle" /\ confirm'.phase = "reading"
            /\ owner.phase = "starting" /\ owner'.phase = "ready"
            /\ UNCHANGED <<checkIn, report, wake>>
         \/ /\ owner.phase = "ready" /\ owner'.phase = "stopping" /\ owner'.ver = owner.ver
            /\ UNCHANGED <<attemptVars, watch, confirm>>
<1>1. CASE BecomeReady
  BY <1>1 DEF BecomeReady, NoWatch, HandoffTypeOK
<1>2. CASE StopLoop
  BY <1>2 DEF StopLoop, ReporterStops, handoffVars
<1>3. CASE Exit \/ Crash
  BY <1>3 DEF Exit, Crash, ForgetRequests, NoWatch, NoOwner
<1>4. CASE (\E w \in waiters : WaitRound(w)) \/ Supervise
  BY <1>4, Started DEF WaitRound, Supervise, attemptVars
<1>5. CASE Quit
  BY <1>5 DEF Quit, Stopping, Ready, HandoffTypeOK, attemptVars
<1> QED
  BY <1>1, <1>2, <1>3, <1>4, <1>5 DEF Live

LEMMA AbsentNext ==
  ASSUME HandoffTypeOK, Absent, Step, History
  PROVE  Absent'
<1>1. /\ attempt \in Attempts /\ wake \in BOOLEAN
  BY DEF HandoffTypeOK, AttemptTypeOK
<1>2. CASE Talk
  <2>1. UNCHANGED <<owner, watch>>
    BY <1>2, TalkCases DEF handoffVars
  <2>2. CASE owner.phase \in {"down", "starting"}
    <3>1. CheckInArrives \/ CheckInLost \/ ReportArrives \/ ReportFails
          \/ (\E id \in Ids : HubIssue(id) \/ HubDrop(id)) \/ HubVersion(TRUE) \/ HubVersion(FALSE)
      BY <1>2, <2>2, TalkCases DEF Ready
    <3>2. UNCHANGED <<checkIn, report, wake>>
      BY <2>2, <3>1, NoneSent DEF Absent, CheckInArrives, CheckInLost, ReportArrives, ReportFails,
                                  HubIssue, HubDrop, HubVersion
    <3> QED
      BY <2>1, <3>2 DEF Absent
  <2> QED
    BY <2>1, <2>2 DEF Absent
<1>3. CASE Help
  BY <1>3, HelpFrame, HelpStarts DEF attemptVars, Absent
<1>4. CASE Watch \/ ConfirmStep
  BY <1>4, WatchOwner DEF Absent
<1>5. CASE Live
  BY <1>5, LiveOwner DEF Absent, attemptVars
<1> QED
  BY <1>2, <1>3, <1>4, <1>5, StepCases

\* What a helper's step does to its lock and to the backup.
LEMMA HelpLocks ==
  ASSUME HandoffTypeOK, Help
  PROVE  /\ helper'.phase = "claimed" => helper.phase = "claimed"
         /\ helper'.phase = "alone" => helper.phase \in {"claimed", "alone"}
         /\ helper.phase \notin {"claimed", "alone"} => (backup' => backup)
  BY DEF Help, HelperStep, HelperAlone, HelperGivesUp, HelperReplaces, HelperRefuses,
         HelperSeesReady, HelperKeeps, HelperDecides, HelperRestores, HelperRecords,
         HelperCannotStart, HelperDies, HelperEnds, NoHelper, HandoffTypeOK

LEMMA WatchTalk ==
  ASSUME HandoffTypeOK, WatchInv, Talk, legacy' = legacy
  PROVE  WatchInv'
<1>1. UNCHANGED handoffVars /\ AttemptTypeOK /\ \A id : FailureOf(StoredAttempt(id)) = NoId
  BY TalkCases DEF HandoffTypeOK, StoredAttempt, FailureOf
<1>2. FailureOf(NoAttempt) = NoId
  BY NoneSent DEF FailureOf
<1>3. FailureOf(attempt') \in {FailureOf(attempt), NoId}
  <2>1. \/ attempt' = attempt \/ attempt' = NoAttempt
        \/ \E id \in checkIn.delivered : attempt' = StoredAttempt(id)
    BY <1>1, TalkCases, AppliesParts
       DEF CheckInSend, CheckInArrives, CheckInLost, ReporterWakes, ReporterSends, ReportArrives,
           ReportFails, HubIssue, HubDrop, HubVersion, ReporterReconciles, ReconcileUpdate
  <2> QED
    BY <1>1, <1>2, <2>1
<1> QED
  BY <1>1, <1>3 DEF WatchInv, handoffVars

LEMMA WatchWatch ==
  ASSUME HandoffTypeOK, WatchInv, LegacyInv, Watch \/ ConfirmStep, legacy' = legacy
  PROVE  WatchInv'
<1>1. /\ attempt \in Attempts /\ owner \in Owners /\ watch \in WatchTypes /\ confirm \in ConfirmTypes
      /\ helper.phase \in {"none", "claimed", "alone", "watching", "ready", "late", "restored"}
      /\ owner'.ver = owner.ver
  BY WatchOwner DEF HandoffTypeOK, AttemptTypeOK, Owners, WatchTypes, ConfirmTypes
<1>2. CASE UNCHANGED <<helper, backup, confirm>> /\ watch'.phase = "idle"
  BY <1>1, <1>2 DEF WatchInv
<1>3. CASE WatchFails /\ UNCHANGED <<helper, backup, confirm>>
  BY <1>2, <1>3 DEF WatchFails, NoWatch
<1>4. CASE ConsumeFailure
  BY <1>1, <1>2, <1>4 DEF ConsumeFailure, Watching
<1>5. CASE PrepareAttempt
  <2>1. UNCHANGED <<helper, backup, confirm>> /\ Pending /\ ~legacy /\ owner.ver = Old
    BY <1>1, <1>5 DEF PrepareAttempt, Owners, Versions
  <2>2. CASE watch' = watch
    BY <1>2, <1>5, <2>1, <2>2 DEF PrepareAttempt, Watching
  <2>3. CASE watch' # watch
    <3>1. /\ watch' = [phase |-> "preparing", id |-> attempt.id]
          /\ attempt'.stage # "failed" /\ attempt'.id = attempt.id
      BY <1>1, <1>5, <2>3 DEF PrepareAttempt, SetUpdateStage, Attempts, Stages, Pending
    <3>2. FailureOf(attempt') = NoId
      BY <3>1 DEF FailureOf
    <3> QED
      BY <1>1, <2>1, <3>1, <3>2 DEF WatchInv, Pending
  <2> QED
    BY <2>2, <2>3
<1>6. CASE Prepared
  <2>1. UNCHANGED <<helper, backup, confirm, owner>>
    BY <1>6 DEF Prepared
  <2>2. CASE watch' = [watch EXCEPT !.phase = "launching"]
    <3>1. watch'.phase = "launching" /\ watch'.id = watch.id /\ watch.phase = "preparing"
      BY <1>1, <1>6, <2>2 DEF WatchTypes, Prepared
    <3> QED
      BY <1>1, <2>1, <3>1 DEF WatchInv
  <2>3. CASE watch' # [watch EXCEPT !.phase = "launching"]
    BY <1>3, <1>6, <2>1, <2>3 DEF Prepared
  <2> QED
    BY <2>2, <2>3
<1>7. CASE Launch
  <2>1. UNCHANGED <<backup, confirm>> /\ watch.phase = "launching"
    BY <1>7 DEF Launch
  <2>2. watch' = watch \/ watch' = NoWatch
    BY <1>7 DEF Launch, WatchFails
  <2> QED
    BY <1>1, <2>1, <2>2 DEF WatchInv, NoWatch
<1>8. CASE SettleCheck
  <2>1. UNCHANGED <<helper, backup, confirm>> /\ legacy /\ ~UpdateInProgress /\ owner.ver = New
    BY <1>1, <1>8 DEF SettleCheck, Knows, Owners, Versions
  <2>2. watch'.phase \in {"checked", "idle"}
    BY <1>8 DEF SettleCheck
  <2> QED
    BY <1>1, <2>1, <2>2 DEF WatchInv, UpdateInProgress
<1>9. CASE RetireLegacyBackup
  <2>1. UNCHANGED <<helper, confirm>> /\ backup' = FALSE /\ watch.phase = "checked" /\ watch'.phase = "retired"
    BY <1>1, <1>9 DEF RetireLegacyBackup, WatchTypes
  <2> QED
    BY <1>1, <2>1 DEF WatchInv
<1>10. CASE PrepareRecommended
  <2>1. UNCHANGED <<helper, backup, confirm>> /\ watch' = [phase |-> "preparing", id |-> NoId]
    BY <1>10 DEF PrepareRecommended
  <2> QED
    BY <1>1, <2>1 DEF WatchInv
<1>11. CASE SettleRecheck
  BY <1>1, <1>2, <1>11 DEF SettleRecheck, WatchTypes
<1>12. CASE ConfirmStep
  <2>1. UNCHANGED <<helper, backup, watch, owner>>
    BY <1>12 DEF ConfirmStep, ConfirmRead, ConfirmLock
  <2>2. confirm'.phase = "locking" => ~legacy
    BY <1>1, <1>12 DEF ConfirmStep, ConfirmRead, ConfirmLock, Confirms
  <2>3. watch.phase = "preparing" /\ watch.id # NoId => FailureOf(attempt') # watch.id
    <3> SUFFICES ASSUME watch.phase = "preparing", watch.id # NoId
                 PROVE  FailureOf(attempt') # watch.id
      OBVIOUS
    <3>1. ~legacy /\ owner.ver = Old /\ FailureOf(attempt) # watch.id
      BY DEF WatchInv
    <3>2. ~Confirms
      BY <3>1 DEF Confirms
    <3>3. attempt' = attempt \/ ConfirmUpdateHandoff(confirm.id)
      BY <1>12, <3>2 DEF ConfirmStep, ConfirmRead, ConfirmLock
    <3>4. attempt'.id = attempt.id /\ attempt'.stage = attempt.stage
      BY <1>1, <3>1, <3>3 DEF ConfirmUpdateHandoff, Attempts
    <3> QED
      BY <3>1, <3>4 DEF FailureOf
  <2> QED
    BY <1>1, <2>1, <2>2, <2>3 DEF WatchInv
<1> QED
  BY <1>4, <1>5, <1>6, <1>7, <1>8, <1>9, <1>10, <1>11, <1>12 DEF Watch, WatchStep

LEMMA WatchNext ==
  ASSUME HandoffTypeOK, Absent, WatchInv, LegacyInv, Step, History
  PROVE  WatchInv'
<1>1. legacy' = legacy
  BY DEF History
<1>2. CASE Talk
  BY <1>1, <1>2, WatchTalk
<1>3. CASE Help
  <2>1. UNCHANGED <<attempt, watch, confirm>>
    BY <1>3, HelpFrame DEF attemptVars
  <2>2. owner' = owner \/ watch.phase = "idle"
    BY <1>3, HelpStarts DEF Absent
  <2> QED
    BY <1>1, <1>3, <2>1, <2>2, HelpLocks DEF WatchInv
<1>4. CASE Watch \/ ConfirmStep
  BY <1>1, <1>4, WatchWatch
<1>5. CASE Live
  <2>1. UNCHANGED <<helper, backup>>
    BY <1>5, LiveTypes
  <2> QED
    BY <1>1, <1>5, <2>1, LiveOwner DEF WatchInv, Absent, attemptVars
<1> QED
  BY <1>2, <1>3, <1>4, <1>5, StepCases

-----------------------------------------------------------------------------
(* Updates by an old helper.                                               *)

\* The parts of LegacyInv.
Marks == helper.id = NoId /\ \A i \in Ids : outcome[i] = "none" /\ journal[i] # "done"
Quiet == owner.phase # "stopping" => ~wake /\ report = NoReport
Kept == DoneSaid => installed = New /\ ~backup

LEMMA LegacyParts == LegacyInv <=> (legacy => Marks /\ Quiet /\ Kept)
  BY DEF LegacyInv, Marks, Quiet, Kept

LEMMA LegacyTalk ==
  ASSUME HandoffTypeOK, LegacyInv, Talk, legacy, legacy' = legacy
  PROVE  Marks' /\ Quiet' /\ Kept'
<1>1. /\ AttemptTypeOK /\ attempt \in Attempts /\ checkIn \in CheckIns /\ report \in Reports
      /\ Marks /\ Quiet /\ Kept /\ UNCHANGED <<helper, outcome, owner, installed, backup>>
  BY TalkCases, LegacyParts DEF HandoffTypeOK, AttemptTypeOK, handoffVars
<1>2. \A i \in Ids : journal'[i] # "done"
  <2>1. CASE CheckInApplies(owner.ver)
    <3>1. Settled \in [Ids -> {"none", "failed", "acknowledged"}]
      BY <1>1 DEF Settled, AttemptTypeOK, Marks
    <3>2. \/ journal' = Settled
          \/ \E id \in checkIn.delivered : journal' = [Settled EXCEPT ![id] = "failed"]
      BY <1>1, <2>1, AppliesParts
    <3> QED
      BY <3>1, <3>2
  <2>2. CASE ~CheckInApplies(owner.ver)
    <3>1. journal' = journal
      BY <2>2, TalkCases DEF CheckInSend, CheckInArrives, CheckInLost, ReporterWakes, ReporterSends,
         ReportArrives, ReportFails, HubIssue, HubDrop, HubVersion, ReporterReconciles
    <3> QED
      BY <1>1, <3>1 DEF Marks
  <2> QED
    BY <2>1, <2>2
<1>3. Quiet'
  <2>1. CASE owner.phase = "stopping"
    BY <1>1, <2>1 DEF Quiet
  <2>2. CASE owner.phase # "stopping"
    <3>1. ~wake /\ report = NoReport
      BY <1>1, <2>2 DEF Quiet
    <3>2. UNCHANGED <<wake, report>>
      BY <1>1, <3>1, TalkCases, AppliesParts, NoneSent
         DEF CheckInSend, CheckInArrives, CheckInLost, ReporterWakes, ReporterSends,
             ReportArrives, ReportFails, HubIssue, HubDrop, HubVersion, ReporterReconciles
    <3> QED
      BY <3>1, <3>2 DEF Quiet
  <2> QED
    BY <2>1, <2>2
<1>4. DoneSaid' => DoneSaid
  <2>1. \A r \in Results : r.result = "done" => DoneSaid
    <3>1. \A r \in Receipts : r.id \in Ids
      BY ReceiptOf
    <3>2. attempt.id \in Ids /\ AttemptResult = "done" => attempt.handoff
      BY DEF AttemptResult
    <3>3. Pending => attempt.id \in Ids /\ Receipt(attempt.id, AttemptResult).result = AttemptResult
      BY <1>1 DEF Pending, Attempts, Receipt
    <3> QED
      BY <1>1, <3>1, <3>2, <3>3, ResultParts DEF DoneSaid, Marks
  <2>2. CASE CheckInSend
    <3>1. checkIn'.sent = Results /\ UNCHANGED <<attempt, hub, report>>
      BY <2>2 DEF CheckInSend, NoCheckIn
    <3> QED
      BY <2>1, <3>1 DEF DoneSaid
  <2>3. CASE CheckInApplies(owner.ver)
    <3>1. checkIn'.sent = {} /\ UNCHANGED <<hub, report>>
      BY <1>1, <2>3, AppliesParts, NoneSent
    <3>2. attempt'.handoff => attempt.handoff
      BY <1>1, <2>3, AppliesParts, NoneSent DEF StoredAttempt
    <3> QED
      BY <3>1, <3>2 DEF DoneSaid
  <2>4. CASE CheckInArrives
    <3>1. checkIn.sent \in SUBSET Receipts /\ HubHears(checkIn.sent)
          /\ checkIn'.sent = checkIn.sent /\ UNCHANGED <<attempt, report>>
      BY <1>1, <2>4 DEF CheckInArrives, CheckIns
    <3>2. \A i \in Ids : hub'[i] = "done" =>
            hub[i] = "done" \/ (\E r \in checkIn.sent : r.result = "done")
      BY <1>1, <3>1, HubHeard
    <3> QED
      BY <3>1, <3>2 DEF DoneSaid
  <2>5. CASE ReportArrives
    <3>1. report.sent \in SUBSET Receipts /\ HubHears(report.sent)
          /\ report'.sent = report.sent /\ UNCHANGED <<attempt, checkIn>>
      BY <1>1, <2>5 DEF ReportArrives, Reports
    <3>2. \A i \in Ids : hub'[i] = "done" =>
            hub[i] = "done" \/ (\E r \in report.sent : r.result = "done")
      BY <1>1, <3>1, HubHeard
    <3> QED
      BY <3>1, <3>2 DEF DoneSaid
  <2>6. CASE CheckInLost \/ ReporterWakes \/ ReportFails \/ HubVersion(TRUE) \/ HubVersion(FALSE)
    <3>1. checkIn'.sent \subseteq checkIn.sent /\ report'.sent \subseteq report.sent
          /\ UNCHANGED <<attempt, hub>>
      BY <1>1, <2>6, NoneSent DEF CheckInLost, ReporterWakes, ReportFails, HubVersion, NoReport, Reports
    <3> QED
      BY <3>1 DEF DoneSaid
  <2>7. ASSUME NEW stopping, ReporterDone(stopping)
        PROVE  report'.sent = {}
    BY <2>7 DEF ReporterDone, NoReport
  <2>8. CASE ReporterSends
    <3>1. UNCHANGED <<attempt, hub, checkIn>>
          /\ report'.sent \in {{}, Reportable}
      BY <1>1, <2>7, <2>8 DEF ReporterSends, Reports
    <3>2. \A r \in Reportable : r.result # "done"
      BY DEF Reportable
    <3> QED
      BY <3>1, <3>2 DEF DoneSaid
  <2>9. CASE ReporterReconciles(owner.ver)
    <3>1. report'.sent = {} /\ UNCHANGED <<hub, checkIn>> /\ attempt' \in {attempt, NoAttempt}
      BY <2>7, <2>9 DEF ReporterReconciles, ReconcileUpdate
    <3> QED
      BY <3>1, NoneSent DEF DoneSaid
  <2>10. CASE \E id \in Ids : HubIssue(id) \/ HubDrop(id)
    <3>1. UNCHANGED <<attempt, checkIn, report>> /\ \A i \in Ids : hub'[i] = "done" => hub[i] = "done"
      BY <1>1, <2>10 DEF HubIssue, HubDrop, AttemptTypeOK
    <3> QED
      BY <3>1 DEF DoneSaid
  <2> QED
    BY <2>2, <2>3, <2>4, <2>5, <2>6, <2>8, <2>9, <2>10, TalkCases
<1> QED
  BY <1>1, <1>2, <1>3, <1>4 DEF Marks, Kept

LEMMA LegacyHelp ==
  ASSUME HandoffTypeOK, LegacyInv, Help, legacy
  PROVE  Marks' /\ Quiet' /\ Kept'
<1>1. /\ Marks /\ Quiet /\ Kept /\ UNCHANGED attemptVars /\ installed \in {Old, New}
  BY HelpFrame, LegacyParts DEF HandoffTypeOK, Versions
<1>2. helper'.id = NoId /\ outcome' = outcome
  BY <1>1 DEF Marks, Help, HelperStep, HelperAlone, HelperGivesUp, HelperReplaces, HelperRefuses,
         HelperSeesReady, HelperKeeps, HelperDecides, HelperRestores, HelperRecords,
         HelperCannotStart, HelperDies, HelperEnds, NoHelper, UpdateFailure, HandoffTypeOK
<1>3. installed = New /\ ~backup => installed' = New /\ ~backup'
  BY DEF Help, HelperStep, HelperAlone, HelperGivesUp, HelperReplaces, HelperRefuses,
         HelperSeesReady, HelperKeeps, HelperDecides, HelperRestores, HelperRecords,
         HelperCannotStart, HelperDies
<1>4. Marks'
  BY <1>1, <1>2 DEF Marks, attemptVars
<1>5. Quiet'
  BY <1>1, HelpStarts DEF Quiet, attemptVars
<1>6. Kept'
  BY <1>1, <1>3 DEF Kept, DoneSaid, attemptVars
<1> QED
  BY <1>4, <1>5, <1>6

\* A settlement says done when nothing is left to go back to.
LEMMA LegacyWatch ==
  ASSUME HandoffTypeOK, WatchInv, LegacyInv, Watch \/ ConfirmStep, legacy
  PROVE  Marks' /\ Quiet' /\ Kept'
<1>1. /\ Marks /\ Quiet /\ Kept /\ attempt \in Attempts /\ wake \in BOOLEAN /\ owner \in Owners
      /\ UNCHANGED <<journal, hub, checkIn, report>> /\ installed' = installed /\ owner.phase = "ready"
  BY LegacyParts, WatchFrame, WatchStepTypes, WatchOwner
     DEF HandoffTypeOK, AttemptTypeOK, Owners, Ready
<1>2. watch.phase \in {"preparing", "launching"} => watch.id = NoId
  BY DEF WatchInv
<1>3. ASSUME UNCHANGED <<helper, outcome, backup, attempt>>, wake' = wake \/ owner'.phase = "stopping"
      PROVE  Marks' /\ Quiet' /\ Kept'
  BY <1>1, <1>3 DEF Marks, Quiet, Kept, DoneSaid
<1>4. ASSUME UNCHANGED <<helper, outcome, backup>>, attempt'.handoff = attempt.handoff,
             wake' = wake \/ owner'.phase = "stopping"
      PROVE  Marks' /\ Quiet' /\ Kept'
  BY <1>1, <1>4 DEF Marks, Quiet, Kept, DoneSaid
<1>5. RolledBack => attempt'.handoff = attempt.handoff /\ owner'.phase = "stopping"
  BY <1>1, ReportedMoves DEF RolledBack, Stopping, Owners
<1>6. CASE ConsumeFailure \/ PrepareAttempt
  <2>1. Pending => outcome[attempt.id] = "none"
    BY <1>1 DEF Marks, Pending, Attempts
  <2> QED
    BY <1>6, <2>1 DEF ConsumeFailure, PrepareAttempt
<1>7. CASE Prepared
  BY <1>2, <1>3, <1>7 DEF Prepared, WatchFails
<1>8. CASE Launch
  <2>1. watch.id = NoId /\ UNCHANGED <<attempt, wake, backup, outcome>>
    BY <1>2, <1>8 DEF Launch, WatchFails
  <2>2. helper'.id = NoId
    <3>1. helper' = helper \/ helper' = [phase |-> "claimed", id |-> watch.id]
      BY <1>8 DEF Launch, HelperClaims
    <3> QED
      BY <1>1, <2>1, <3>1 DEF Marks
  <2> QED
    BY <1>1, <2>1, <2>2 DEF Marks, Quiet, Kept, DoneSaid
<1>9. CASE SettleCheck
  BY <1>3, <1>4, <1>5, <1>9 DEF SettleCheck
<1>10. CASE RetireLegacyBackup
  BY <1>1, <1>10 DEF RetireLegacyBackup, attemptVars, Marks, Quiet, Kept, DoneSaid
<1>11. CASE PrepareRecommended
  BY <1>3, <1>11 DEF PrepareRecommended, attemptVars
<1>12. CASE SettleRecheck
  <2>1. UNCHANGED <<helper, outcome, backup>> /\ ~backup /\ owner.ver = New
    BY <1>12 DEF SettleRecheck, WatchInv
  <2>2. CASE installed = owner.ver
    BY <1>1, <1>12, <2>1, <2>2 DEF SettleRecheck, Marks, Quiet, Kept
  <2>3. CASE installed # owner.ver
    BY <1>4, <1>5, <1>12, <2>1, <2>3 DEF SettleRecheck
  <2> QED
    BY <2>2, <2>3
<1>13. CASE ConfirmStep
  <2>1. ~Confirms /\ confirm.phase # "locking"
    BY DEF Confirms, WatchInv
  <2> QED
    BY <1>3, <1>13, <2>1 DEF ConfirmStep, ConfirmRead, ConfirmLock
<1> QED
  BY <1>6, <1>7, <1>8, <1>9, <1>10, <1>11, <1>12, <1>13 DEF Watch, WatchStep

LEMMA LegacyLive ==
  ASSUME HandoffTypeOK, LegacyInv, Absent, Live, legacy
  PROVE  Marks' /\ Quiet' /\ Kept'
<1>1. /\ Marks /\ Quiet /\ Kept /\ attempt \in Attempts
      /\ UNCHANGED <<helper, outcome, installed, backup>>
      /\ UNCHANGED <<journal, hub>> /\ Drops
      /\ attempt' = attempt \/ attempt' = NoAttempt
  BY LegacyParts, LiveTypes, LiveFrame DEF HandoffTypeOK, AttemptTypeOK
<1>2. checkIn'.sent \subseteq checkIn.sent /\ report'.sent \subseteq report.sent
  BY <1>1, DropsSent
<1>3. Kept'
  BY <1>1, <1>2, NoneSent DEF Kept, DoneSaid
<1>4. Quiet'
  BY <1>1, LiveOwner DEF Quiet, Absent, attemptVars
<1> QED
  BY <1>1, <1>3, <1>4 DEF Marks

LEMMA LegacyNext ==
  ASSUME HandoffTypeOK, Absent, WatchInv, LegacyInv, Step, History
  PROVE  LegacyInv'
<1> SUFFICES ASSUME legacy, legacy' = legacy
             PROVE  Marks' /\ Quiet' /\ Kept'
  BY DEF LegacyInv, Marks, Quiet, Kept, History
<1> QED
  BY StepCases, LegacyTalk, LegacyHelp, LegacyWatch, LegacyLive

-----------------------------------------------------------------------------
(* The record of a rollback.                                               *)

\* Beside the helper's steps, only a launch changes the helper.
LEMMA OthersLaunch ==
  ASSUME HandoffTypeOK, Talk \/ Watch \/ ConfirmStep \/ Live, History
  PROVE  /\ installed' = installed /\ restorer' = restorer
         /\ helper' = helper \/ (helper.phase = "none" /\ helper' = [phase |-> "claimed", id |-> watch.id])
<1>1. CASE Talk
  BY <1>1, TalkCases DEF handoffVars, History, Restorer
<1>2. CASE Live
  BY <1>2, LiveTypes DEF History, Restorer
<1>3. CASE Watch \/ ConfirmStep
  <2>1. installed' = installed
    BY <1>3, WatchStepTypes
  <2>2. helper' = helper \/ (helper.phase = "none" /\ helper' = [phase |-> "claimed", id |-> watch.id])
    BY <1>3 DEF Watch, WatchStep, ConfirmStep, ConsumeFailure, PrepareAttempt, PrepareRecommended,
                Prepared, Launch, HelperClaims, SettleCheck, RetireLegacyBackup, SettleRecheck,
                ConfirmRead, ConfirmLock
  <2> QED
    BY <2>1, <2>2 DEF History, Restorer
<1> QED
  BY <1>1, <1>2, <1>3

Recorded == \A i \in Ids : outcome[i] = "failed" => outcome'[i] = "failed"

LEMMA FailureRecorded ==
  ASSUME HandoffTypeOK, UpdateFailure
  PROVE  Recorded /\ (helper.id # NoId => outcome'[helper.id] = "failed")
  BY DEF HandoffTypeOK, UpdateFailure, Recorded

\* While the old release stays installed, the helper leaves records of failures
\* alone; who ends a rollback leaves one.
LEMMA HelpRecords ==
  ASSUME HandoffTypeOK, HelperFiles, Help, History
  PROVE  /\ HelperFiles' /\ helper'.id \in {helper.id, NoId}
         /\ restorer' \in {restorer, helper.id, NoId}
         /\ installed' = Old =>
              \/ helper'.phase = "restored"
              \/ /\ installed = Old /\ Recorded /\ restorer' \in {restorer, NoId}
                 /\ helper.phase = "restored" /\ restorer' # NoId => outcome'[restorer'] = "failed"
<1>1. /\ outcome \in [Ids -> {"none", "failed", "ready"}] /\ faults \in Nat /\ installed \in {Old, New}
      /\ helper.id \in Ids \cup {NoId} /\ restorer \in Ids \cup {NoId} /\ restorer' = Restorer
      /\ helper = [phase |-> helper.phase, id |-> helper.id]
  BY DEF HandoffTypeOK, Versions, History
<1>2. Fault => faults' # faults
  BY <1>1 DEF Fault
<1>3. NoHelper.phase = "none" /\ NoHelper.id = NoId
  BY DEF NoHelper
<1>4. outcome' = outcome => Recorded
  BY DEF Recorded
<1> USE <1>1, <1>2, <1>3, <1>4, FailureRecorded DEF HelperFiles, Restorer
<1>5. CASE HelperAlone
  BY <1>5 DEF HelperAlone
<1>6. CASE HelperGivesUp
  BY <1>6 DEF HelperGivesUp, HelperEnds
<1>7. CASE HelperReplaces
  BY <1>7 DEF HelperReplaces
<1>8. CASE HelperRefuses
  BY <1>8 DEF HelperRefuses, HelperEnds
<1>9. CASE HelperSeesReady
  BY <1>9 DEF HelperSeesReady
<1>10. CASE HelperKeeps
  BY <1>10 DEF HelperKeeps, HelperEnds
<1>11. CASE HelperDecides
  BY <1>11 DEF HelperDecides
<1>12. CASE HelperRestores
  BY <1>12 DEF HelperRestores, HelperEnds
<1>13. CASE HelperRecords
  BY <1>13 DEF HelperRecords, HelperEnds
<1>14. CASE HelperCannotStart
  BY <1>14 DEF HelperCannotStart
<1>15. CASE HelperDies
  BY <1>15 DEF HelperDies
<1> QED
  BY <1>5, <1>6, <1>7, <1>8, <1>9, <1>10, <1>11, <1>12, <1>13, <1>14, <1>15 DEF Help, HelperStep

LEMMA FilesNext ==
  ASSUME HandoffTypeOK, HelperFiles, Step, History
  PROVE  HelperFiles'
<1>1. CASE Help
  BY <1>1, HelpRecords
<1>2. CASE Talk \/ Watch \/ ConfirmStep \/ Live
  BY <1>2, OthersLaunch DEF HelperFiles
<1> QED
  BY <1>1, <1>2, StepCases

\* A check-in's answer names what is open at Hub then, and only the reporter
\* can close it meanwhile.
LEMMA DoneOnceTalk ==
  ASSUME HandoffTypeOK, HeardClosed, HeardClosed', DoneOnce, Talk
  PROVE  DoneOnce'
<1>1. /\ AttemptTypeOK /\ checkIn \in CheckIns /\ report \in Reports
  BY DEF HandoffTypeOK, AttemptTypeOK
<1>2. CASE UNCHANGED heard /\ checkIn'.delivered \subseteq checkIn.delivered
           /\ report'.sent \subseteq report.sent \cup Reportable
  BY <1>2 DEF DoneOnce, Reportable
<1>3. ASSUME NEW stopping, ReporterDone(stopping)
      PROVE  report'.sent = {}
  BY <1>3 DEF ReporterDone, NoReport
<1>4. CASE CheckInSend \/ CheckInApplies(owner.ver) \/ CheckInLost
  <2>1. UNCHANGED <<heard, report>> /\ checkIn'.delivered = {}
    BY <1>1, <1>4, AppliesParts, NoneSent DEF CheckInSend, CheckInLost, NoCheckIn
  <2> QED
    BY <1>2, <2>1
<1>5. CASE CheckInArrives
  <2>1. checkIn.sent \in SUBSET Receipts /\ HubHears(checkIn.sent) /\ report' = report
    BY <1>1, <1>5 DEF CheckInArrives, CheckIns
  <2>2. \A r \in heard' : Final(r)
    BY <1>1, <2>1, HubHeard DEF DoneOnce
  <2>3. \A i \in checkIn'.delivered : i \in Ids /\ hub'[i] = "open"
    BY <1>1, <1>5 DEF CheckInArrives, CheckIns
  <2>4. \A i \in checkIn'.delivered : Receipt(i, "done") \notin heard'
    BY <2>3 DEF HeardClosed, Receipt
  <2> QED
    BY <2>1, <2>2, <2>4 DEF DoneOnce, Final
<1>6. CASE ReportArrives
  <2>1. report.sent \in SUBSET Receipts /\ HubHears(report.sent) /\ checkIn' = checkIn
    BY <1>1, <1>6 DEF ReportArrives, Reports
  <2>2. report'.sent = report.sent
    BY <1>1, <1>6 DEF ReportArrives, Reports
  <2>3. \A r \in heard' : r \in heard \/ (Final(r) /\ r \in report.sent)
    BY <1>1, <2>1, HubHeard
  <2>4. \A i : Receipt(i, "done").result = "done"
    BY DEF Receipt
  <2> QED
    BY <2>1, <2>2, <2>3, <2>4 DEF DoneOnce, Final
<1>7. CASE ReporterWakes \/ ReporterSends \/ ReporterReconciles(owner.ver) \/ ReportFails
  <2>1. UNCHANGED <<heard, checkIn>>
    BY <1>7 DEF ReporterWakes, ReporterSends, ReporterReconciles, ReportFails
  <2>2. report'.sent \subseteq report.sent \cup Reportable
    BY <1>1, <1>3, <1>7, NoneSent DEF ReporterWakes, ReporterSends, ReporterReconciles, ReportFails,
                                      NoReport, Reports
  <2> QED
    BY <1>2, <2>1, <2>2
<1>8. CASE (\E id \in Ids : HubIssue(id) \/ HubDrop(id)) \/ HubVersion(TRUE) \/ HubVersion(FALSE)
  BY <1>2, <1>8 DEF HubIssue, HubDrop, HubVersion
<1> QED
  BY <1>4, <1>5, <1>6, <1>7, <1>8, TalkCases

LEMMA DoneOnceNext ==
  ASSUME HandoffTypeOK, HeardClosed, HeardClosed', DoneOnce, Step, History
  PROVE  DoneOnce'
<1>1. attempt \in Attempts /\ wake \in BOOLEAN
  BY DEF HandoffTypeOK, AttemptTypeOK
<1>2. CASE Talk
  BY <1>2, DoneOnceTalk
<1>3. CASE Help \/ Watch \/ ConfirmStep
  BY <1>1, <1>3, HelpFrame, WatchFrame DEF attemptVars, DoneOnce, Final
<1>4. CASE Live
  <2>1. Drops /\ UNCHANGED heard
    BY <1>1, <1>4, LiveFrame
  <2>2. checkIn'.delivered \subseteq checkIn.delivered /\ report'.sent \subseteq report.sent
    BY <2>1, NoneSent DEF Drops, NoReport
  <2> QED
    BY <2>1, <2>2 DEF DoneOnce, Final
<1> QED
  BY <1>2, <1>3, <1>4, StepCases

LEMMA HeardGrows ==
  ASSUME HandoffTypeOK, Step, History
  PROVE  heard \subseteq heard'
<1>1. attempt \in Attempts /\ wake \in BOOLEAN /\ legacy' = legacy
  BY DEF HandoffTypeOK, AttemptTypeOK, History
<1> QED
  BY <1>1, TalkTypes, HelpFrame, WatchFrame, LiveFrame, StepCases DEF attemptVars

\* What is begun is the queue's attempt.
LEMMA BeginsAttempt ==
  ASSUME HandoffTypeOK, HelperFiles, Step, History, ~legacy
  PROVE  \A i \in Ids : Begun(i)' => Begun(i) \/ i = attempt.id
<1>1. CASE Help
  BY <1>1, HelpRecords, HelpFrame DEF Begun
<1>2. CASE Talk
  BY <1>2, OthersLaunch, TalkCases DEF Begun, handoffVars
<1>3. CASE Live
  <2>1. watch' \in {watch, NoWatch}
    BY <1>3 DEF Live, BecomeReady, StopLoop, Exit, WaitRound, Supervise, Quit, Crash, handoffVars
  <2> QED
    BY <1>3, <2>1, OthersLaunch DEF Begun, NoWatch
<1>4. CASE Watch \/ ConfirmStep
  <2>1. watch \in WatchTypes
    BY DEF HandoffTypeOK, WatchTypes
  <2>2. CASE ConsumeFailure \/ PrepareAttempt \/ PrepareRecommended \/ ConfirmStep
    <3>1. watch'.id \in {watch.id, attempt.id, NoId}
      BY <2>2 DEF ConsumeFailure, PrepareAttempt, PrepareRecommended, ConfirmStep, ConfirmRead, ConfirmLock
    <3> QED
      BY <1>4, <3>1, OthersLaunch DEF Begun
  <2>3. CASE Prepared \/ Launch
    <3>1. watch' = NoWatch \/ watch'.id = watch.id
      BY <2>1, <2>3 DEF Prepared, Launch, WatchFails, WatchTypes
    <3> QED
      BY <1>4, <3>1, OthersLaunch DEF Begun, NoWatch
  <2>4. CASE SettleCheck \/ RetireLegacyBackup \/ SettleRecheck
    <3>1. watch'.id \in {watch.id, attempt.id}
      BY <2>1, <2>4 DEF SettleCheck, RetireLegacyBackup, SettleRecheck, WatchTypes
    <3> QED
      BY <1>4, <3>1, OthersLaunch DEF Begun
  <2> QED
    BY <1>4, <2>2, <2>3, <2>4 DEF Watch, WatchStep
<1> QED
  BY <1>1, <1>2, <1>3, <1>4, StepCases

LEMMA BegunNext ==
  ASSUME HandoffTypeOK, Answered, HelperFiles, BegunHeard, Step, History
  PROVE  BegunHeard'
<1> SUFFICES ASSUME ~legacy, legacy' = legacy, NEW i \in Ids, Begun(i)', attempt'.id # i
             PROVE  \E r \in heard' : r.id = i
  BY DEF BegunHeard, History
<1>1. heard \subseteq heard' /\ (Begun(i) \/ i = attempt.id)
  BY HeardGrows, BeginsAttempt
<1>2. CASE attempt.id # i
  BY <1>1, <1>2 DEF BegunHeard
<1>3. CASE attempt.id = i
  <2>1. Pending /\ Knows
    BY <1>3 DEF Pending, Knows
  <2>2. Receipt(i, AttemptResult) \in heard
    BY <1>3, <2>1, ForgetsHeard
  <2> QED
    BY <1>1, <2>2 DEF Receipt
<1> QED
  BY <1>2, <1>3

\* An attempt that is delivered again after its helper rolled back is one that
\* Hub heard to have failed.
LEMMA StoredAgain ==
  ASSUME HandoffTypeOK, DoneOnce, BegunHeard, ~legacy, Talk, attempt' # attempt, attempt'.id # NoId,
         Begun(attempt'.id)
  PROVE  Receipt(attempt'.id, "failed") \in heard
<1>1. AttemptTypeOK /\ checkIn \in CheckIns
  BY DEF HandoffTypeOK, AttemptTypeOK
<1>2. CheckInApplies(owner.ver)
  BY TalkCases, NoneSent
     DEF CheckInSend, CheckInArrives, CheckInLost, ReporterWakes, ReporterSends, ReportArrives,
         ReportFails, HubIssue, HubDrop, HubVersion, ReporterReconciles, ReconcileUpdate
<1>3. PICK id \in checkIn.delivered : attempt' = StoredAttempt(id) /\ (Pending => Forgets(owner.ver))
  BY <1>1, <1>2, AppliesParts, NoneSent
<1>4. id \in Ids /\ attempt'.id = id
  BY <1>1, <1>3 DEF CheckIns, StoredAttempt
<1>5. attempt.id # id
  BY <1>3, <1>4 DEF Forgets, Reconciles, Pending
<1>6. PICK r \in heard : r.id = id
  BY <1>4, <1>5 DEF BegunHeard
<1>7. r = Receipt(id, r.result) /\ r.result \in {"failed", "done"}
  BY <1>1, <1>6, ReceiptOf DEF AttemptTypeOK, DoneOnce, Final
<1> QED
  BY <1>3, <1>4, <1>6, <1>7 DEF DoneOnce

\* A failed attempt stays so, and the record of a failure goes only with one.
LEMMA WatchRecords ==
  ASSUME HandoffTypeOK, WatchInv, Watch \/ ConfirmStep, ~legacy, Pending, attempt'.stage # "failed"
  PROVE  /\ attempt.stage # "failed"
         /\ outcome'[attempt.id] = outcome[attempt.id] \/ outcome[attempt.id] # "failed"
<1>1. /\ attempt \in Attempts /\ attempt.id \in Ids /\ outcome \in [Ids -> {"none", "failed", "ready"}]
  BY DEF HandoffTypeOK, AttemptTypeOK, Attempts, Pending
<1>2. \A id, stage \in Stages : SetUpdateStage(id, stage) =>
        attempt' = attempt \/ (id = attempt.id /\ attempt'.stage = stage)
  BY <1>1 DEF SetUpdateStage, Attempts
<1>3. \A id : Reported(id) => attempt' = attempt /\ attempt.id # id
  BY <1>1 DEF Reported, SetUpdateStage, Attempts, Pending
<1>4. \A id : ConfirmUpdateHandoff(id) => attempt'.stage = attempt.stage
  BY <1>1 DEF ConfirmUpdateHandoff, Attempts
<1>5. CASE ConsumeFailure
  BY <1>3, <1>5 DEF ConsumeFailure
<1>6. CASE PrepareAttempt
  BY <1>6 DEF PrepareAttempt
<1>7. CASE Prepared
  <2>1. outcome' = outcome
    BY <1>7 DEF Prepared
  <2>2. \/ attempt' = attempt
        \/ Reported(watch.id)
        \/ watch.id # NoId /\ attempt.id = watch.id /\ watch.phase = "preparing"
    BY <1>7 DEF Prepared, WatchFails
  <2>3. watch.id # NoId /\ attempt.id = watch.id /\ watch.phase = "preparing" => attempt.stage # "failed"
    BY DEF WatchInv, FailureOf
  <2> QED
    BY <1>3, <2>1, <2>2, <2>3
<1>8. CASE Launch
  <2>1. outcome' = outcome /\ (attempt' = attempt \/ Reported(watch.id))
    BY <1>8 DEF Launch, WatchFails
  <2> QED
    BY <1>3, <2>1
<1>9. CASE SettleCheck \/ RetireLegacyBackup \/ SettleRecheck
  <2>1. ~(watch.phase \in {"checked", "retired"})
    BY DEF WatchInv
  <2> QED
    BY <1>9, <2>1 DEF SettleCheck, RetireLegacyBackup, SettleRecheck
<1>10. CASE PrepareRecommended
  BY <1>10 DEF PrepareRecommended, attemptVars
<1>11. CASE ConfirmRead
  <2>1. CASE ~Confirms \/ outcome[attempt.id] = "none"
    BY <1>11, <2>1 DEF ConfirmRead
  <2>2. CASE Confirms /\ outcome[attempt.id] = "failed"
    <3>1. SetUpdateStage(attempt.id, "failed")
      BY <1>11, <2>2 DEF ConfirmRead
    <3> QED
      BY <1>1, <3>1 DEF SetUpdateStage, Attempts
  <2>3. CASE Confirms /\ outcome[attempt.id] = "ready"
    BY <2>3 DEF Confirms
  <2> QED
    BY <1>1, <2>1, <2>2, <2>3
<1>12. CASE ConfirmLock
  BY <1>4, <1>12 DEF ConfirmLock
<1> QED
  BY <1>5, <1>6, <1>7, <1>8, <1>9, <1>10, <1>11, <1>12 DEF Watch, WatchStep, ConfirmStep

LEMMA MarkedNext ==
  ASSUME HandoffTypeOK, WatchInv, HelperFiles, DoneOnce, BegunHeard, Marked, Step, History
  PROVE  Marked'
<1> SUFFICES ASSUME ~legacy, legacy' = legacy, attempt'.id # NoId, attempt'.stage # "failed",
                    installed' = Old, restorer' = attempt'.id,
                    Receipt(attempt'.id, "failed") \notin heard'
             PROVE  outcome'[attempt'.id] = "failed" \/ helper'.phase = "restored"
  BY DEF Marked, Pending, History
<1>1. /\ heard \subseteq heard' /\ Receipt(attempt'.id, "failed") \notin heard
      /\ attempt \in Attempts /\ wake \in BOOLEAN
  BY HeardGrows DEF HandoffTypeOK, AttemptTypeOK
<1>2. CASE Talk
  <2>1. UNCHANGED <<outcome, helper, installed, restorer>>
    BY <1>2, TalkCases, OthersLaunch DEF handoffVars
  <2>2. attempt' = attempt
    BY <1>1, <1>2, <2>1, StoredAgain DEF Begun
  <2> QED
    BY <1>1, <2>1, <2>2 DEF Marked, Pending
<1>3. CASE Help
  <2>1. attempt' = attempt
    BY <1>3, HelpFrame DEF attemptVars
  <2>2. attempt.id \in Ids
    BY <1>1, <2>1 DEF Attempts
  <2> QED
    BY <1>1, <1>3, <2>1, <2>2, HelpRecords DEF Marked, Pending, Recorded
<1>4. CASE Watch \/ ConfirmStep
  <2>1. attempt'.id = attempt.id /\ Pending
    BY <1>1, <1>4, WatchFrame DEF Moved, Pending
  <2>2. /\ installed' = installed /\ restorer' = restorer
        /\ helper.phase = "restored" => helper' = helper
    BY <1>4, OthersLaunch
  <2> QED
    BY <1>1, <1>4, <2>1, <2>2, WatchRecords DEF Marked
<1>5. CASE Live
  <2>1. attempt' = attempt
    BY <1>1, <1>5, LiveFrame DEF Knows
  <2> QED
    BY <1>1, <1>5, <2>1, OthersLaunch, LiveTypes DEF Marked, Pending
<1> QED
  BY <1>2, <1>3, <1>4, <1>5, StepCases

-----------------------------------------------------------------------------
(* The invariant and what follows from it.                                 *)

LEMMA InvInit == Init => UInv
<1> SUFFICES ASSUME Init PROVE UInv
  OBVIOUS
<1>1. HandoffTypeOK
  <2>1. AttemptTypeOK
    BY NothingTyped DEF Init, AttemptInit, AttemptTypeOK
  <2>2. /\ owner \in Owners /\ watch \in WatchTypes /\ confirm \in ConfirmTypes
        /\ waiters = {} /\ faults \in 0..MaxFaults /\ helper = NoHelper
    BY IdleTyped DEF Init, Owners, OwnerPhases, Versions
  <2>3. /\ supervised \in BOOLEAN /\ installed \in Versions /\ backup \in BOOLEAN /\ staged \in BOOLEAN
        /\ outcome \in [Ids -> {"none", "failed", "ready"}] /\ restorer = NoId
    BY DEF Init, Versions
  <2> QED
    BY <2>1, <2>2, <2>3 DEF HandoffTypeOK, Owners, WatchTypes, ConfirmTypes, NoHelper
<1>2. Issued /\ HeardClosed /\ Answered
  BY NoneSent DEF Init, AttemptInit, Issued, HeardClosed, Answered, Pending
<1>3. ReporterFollows /\ AcknowledgedHeard /\ Absent
  BY NoneSent DEF Init, AttemptInit, ReporterFollows, AcknowledgedHeard, Absent
<1>4. WatchInv
  BY DEF Init, WatchInv, NoWatch
<1>5. LegacyInv
  <2>1. ~DoneSaid
    BY NoneSent DEF Init, AttemptInit, DoneSaid
  <2> QED
    BY <2>1 DEF Init, AttemptInit, LegacyInv, NoHelper
<1>6. HelperFiles /\ DoneOnce /\ BegunHeard /\ Marked
  BY NoneSent DEF Init, AttemptInit, HelperFiles, DoneOnce, BegunHeard, Begun, Marked, Pending,
                  NoHelper, NoWatch
<1> QED
  BY <1>1, <1>2, <1>3, <1>4, <1>5, <1>6 DEF UInv

LEMMA InvNext == UInv /\ [Next]_vars => UInv'
<1>1. ASSUME UInv, Next PROVE UInv'
  BY <1>1, TypesNext, IssuedNext, HeardNext, ReporterNext, AbsentNext, WatchNext, LegacyNext,
     FilesNext, DoneOnceNext, BegunNext, MarkedNext
     DEF UInv, Next
<1>2. ASSUME UInv, UNCHANGED vars PROVE UInv'
  <2>1. UNCHANGED <<legacy, supervised, attempt, journal, hub, heard, aware, checkIn, report, wake,
                    acknowledged, installed, backup, staged, owner, waiters, watch, confirm, helper,
                    outcome, restorer, faults>>
    BY <1>2 DEF vars, attemptVars, handoffVars
  <2>2. HandoffTypeOK'
    BY <1>2, <2>1 DEF UInv, HandoffTypeOK, AttemptTypeOK
  <2>3. Issued' /\ HeardClosed' /\ Answered'
    BY <1>2, <2>1 DEF UInv, Issued, Known, Pending, HeardClosed, Answered
  <2>4. ReporterFollows' /\ AcknowledgedHeard' /\ Absent'
    BY <1>2, <2>1 DEF UInv, ReporterFollows, AcknowledgedHeard, Absent
  <2>5. WatchInv' /\ LegacyInv'
    BY <1>2, <2>1 DEF UInv, WatchInv, LegacyInv, DoneSaid
  <2>6. HelperFiles' /\ DoneOnce' /\ BegunHeard' /\ Marked'
    BY <1>2, <2>1 DEF UInv, HelperFiles, DoneOnce, Final, BegunHeard, Begun, Marked, Pending
  <2> QED
    BY <2>2, <2>3, <2>4, <2>5, <2>6 DEF UInv
<1> QED
  BY <1>1, <1>2

\* Every state that the update can reach satisfies UInv.
THEOREM UpdateInvariant == Spec => []UInv
  BY InvInit, InvNext, PTL DEF Spec

\* The types of the update's state, for every set of attempts.
THEOREM UpdateTypes == Spec => []HandoffTypeOK
<1>1. UInv => HandoffTypeOK
  BY DEF UInv
<1> QED
  BY <1>1, UpdateInvariant, PTL

\* The failure that the reporter does not flush when it stops is one that Hub
\* received, whatever the watcher and the check-in do to the attempt meanwhile.
THEOREM ReporterTrusted == Spec => []AcknowledgedHeard
<1>1. UInv => AcknowledgedHeard
  BY DEF UInv
<1> QED
  BY <1>1, UpdateInvariant, PTL

\* What a settlement of an old helper's update reports to Hub as done stays
\* installed.
THEOREM SettlementStays == Spec => []LegacyDoneKept
<1>1. UInv => LegacyDoneKept
  BY DEF UInv, LegacyInv, DoneSaid, LegacyDoneKept
<1> QED
  BY <1>1, UpdateInvariant, PTL

\* A rollback of the attempt that the queue holds is on record for the process
\* that watches, however the new process confirmed the attempt meanwhile, and
\* whichever process of whichever release launches a helper for it again.
THEOREM RollbackRecorded == Spec => []RollbackLeavesMark
<1>1. UInv => RollbackLeavesMark
  BY DEF UInv, Marked, RollbackLeavesMark
<1> QED
  BY <1>1, UpdateInvariant, PTL

\* The queue keeps an attempt until Hub received its outcome and closed it,
\* over lost answers, restarts, upgrades and downgrades.
THEOREM ForgottenWhenHeard == Spec => ClearedWhenHeard
<1> DEFINE Cleared == Pending /\ attempt'.id # attempt.id
                      => \/ Receipt(attempt.id, AttemptResult) \in heard /\ hub[attempt.id] # "open"
                         \/ owner.phase = "starting" /\ owner'.phase = "ready" /\ ~Knows
<1>1. ASSUME UInv, Next, Pending, attempt'.id # attempt.id
      PROVE  \/ Receipt(attempt.id, AttemptResult) \in heard /\ hub[attempt.id] # "open"
             \/ owner.phase = "starting" /\ owner'.phase = "ready" /\ ~Knows
  <2>1. \/ Receipt(attempt.id, AttemptResult) \in heard
        \/ owner.phase = "starting" /\ owner'.phase = "ready" /\ ~Knows
    BY <1>1, ForgetsHeard DEF UInv, Next
  <2>2. Receipt(attempt.id, AttemptResult) \in heard => hub[attempt.id] # "open"
    BY <1>1 DEF UInv, HeardClosed, Receipt
  <2> QED
    BY <2>1, <2>2
<1>2. UInv /\ [Next]_vars => [Cleared]_vars
  BY <1>1
<1> QED
  BY <1>2, UpdateInvariant, PTL DEF Spec, ClearedWhenHeard
=============================================================================
