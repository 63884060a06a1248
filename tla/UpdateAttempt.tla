--------------------------- MODULE UpdateAttempt ---------------------------
(***************************************************************************)
(* The update attempt of the queue file: how Local accepts an update       *)
(* command, reports its stage, and forgets it once Hub is known to have    *)
(* heard the end.  Two goroutines talk to Hub about it, the sync loop's    *)
(* check-in and the update reporter, and neither holds the queue's mutex   *)
(* while its request is on the way.  What moves the attempt from stage to  *)
(* stage is in UpdateHandoff, which extends this module.                   *)
(***************************************************************************)
EXTENDS Naturals, FiniteSets

CONSTANTS Ids,        \* the attempts Hub may ask for
          NoId,       \* no attempt
          Old, New    \* the release that is installed, and the attempts' target

ASSUME IdAssumption == NoId \notin Ids
ASSUME VersionAssumption == Old \in Nat /\ New \in Nat /\ Old < New

VARIABLES legacy,        \* the old release predates attempts; Hub asks the new one to settle
          attempt,       \* Queue.state.Update
          journal,       \* what the command journal holds for a refused attempt
          hub,           \* Hub's side of each attempt
          heard,         \* final results Hub received from the device
          aware,         \* Hub advertises update-completion/v1
          checkIn,       \* the check-in of the sync loop
          report,        \* the update reporter
          wake,          \* Queue.updateWake
          acknowledged   \* the failure the reporter takes Hub to know

attemptVars == <<attempt, journal, hub, heard, aware, checkIn, report, wake, acknowledged>>

Stages == {"picked_up", "preparing", "finalizing", "failed"}
Attempts == [id: Ids \cup {NoId}, stage: Stages, handoff: BOOLEAN]
NoAttempt == [id |-> NoId, stage |-> "picked_up", handoff |-> FALSE]
Pending == attempt.id # NoId

Receipts == [id: Ids, result: {"in_progress", "failed", "done"}]
Receipt(id, result) == [id |-> id, result |-> result]

CheckIns == [phase: {"idle", "sent", "answered"}, sent: SUBSET Receipts,
             delivered: SUBSET Ids, aware: BOOLEAN]
NoCheckIn == [phase |-> "idle", sent |-> {}, delivered |-> {}, aware |-> FALSE]

\* "flush..." is the one report a stopping reporter still makes.
Reports == [phase: {"idle", "read", "sent", "answered", "retry", "flush",
                     "flushSent", "flushAnswered", "over"},
            before: Ids \cup {NoId}, sent: SUBSET Receipts, active: BOOLEAN]
NoReport == [phase |-> "idle", before |-> NoId, sent |-> {}, active |-> FALSE]

AttemptTypeOK ==
  /\ legacy \in BOOLEAN
  /\ attempt \in Attempts
  /\ journal \in [Ids -> {"none", "failed", "done", "acknowledged"}]
  /\ hub \in [Ids -> {"unissued", "open", "done", "failed", "dropped"}]
  /\ heard \subseteq Receipts
  /\ aware \in BOOLEAN
  /\ checkIn \in CheckIns
  /\ report \in Reports
  /\ wake \in BOOLEAN
  /\ acknowledged \in Ids \cup {NoId}

AttemptInit ==
  /\ legacy \in BOOLEAN
  /\ attempt = NoAttempt
  /\ journal = [i \in Ids |-> "none"]
  /\ hub = [i \in Ids |-> "unissued"]
  /\ heard = {}
  /\ aware = TRUE
  /\ checkIn = NoCheckIn
  /\ report = NoReport
  /\ wake = FALSE
  /\ acknowledged = NoId

----------------------------------------------------------------------------
(* The queue's operations. *)

AttemptResult ==
  IF attempt.stage = "failed" THEN "failed"
  ELSE IF attempt.handoff THEN "done" ELSE "in_progress"

AttemptReceipts == IF Pending THEN {Receipt(attempt.id, AttemptResult)} ELSE {}

JournalReceipts == {Receipt(i, journal[i]) : i \in {j \in Ids : journal[j] \in {"failed", "done"}}}

\* Mutant of Results: the attempt is left to the update reporter.
ResultsOfJournal == JournalReceipts

\* The attempt's receipt, and the journal's unacknowledged outcomes.
Results == AttemptReceipts \cup JournalReceipts

FailureOf(a) == IF a.id # NoId /\ a.stage = "failed" THEN a.id ELSE NoId

SignalUpdate == wake' = TRUE

SetUpdateStage(id, stage) ==
  attempt' = IF Pending /\ attempt.id = id THEN [attempt EXCEPT !.stage = stage] ELSE attempt

\* A legacy settlement's confirmation also takes back a recorded failure.
ConfirmUpdateHandoff(id) ==
  attempt' = IF Pending /\ attempt.id = id
             THEN [attempt EXCEPT !.handoff = TRUE, !.stage = IF legacy THEN "finalizing" ELSE @]
             ELSE attempt

\* Mutant of Reconciles: a failure reported as progress is reported.
ReconcilesProgress(ver, delivered, sent, updateAware) ==
  LET failed == attempt.stage = "failed"
  IN  /\ Pending
      /\ attempt.id \notin delivered
      /\ \E r \in sent : r.id = attempt.id
      /\ failed \/ (ver >= New /\ attempt.handoff /\ Receipt(attempt.id, "done") \in sent)
      /\ updateAware

\* Whether a report that Hub accepted lets go of the attempt.
Reconciles(ver, delivered, sent, updateAware) ==
  LET told(result) == Receipt(attempt.id, result) \in sent
      failed == attempt.stage = "failed"
  IN  /\ Pending
      /\ attempt.id \notin delivered
      /\ \E r \in sent : r.id = attempt.id
      /\ failed \/ ver >= New
      /\ failed => told("failed") /\ updateAware
      /\ legacy => attempt.handoff /\ told("done") /\ updateAware
      /\ ~failed /\ ver = New => attempt.handoff /\ told("done") /\ updateAware

ReconcileUpdate(ver, delivered, sent, updateAware) ==
  attempt' = IF Reconciles(ver, delivered, sent, updateAware) THEN NoAttempt ELSE attempt

----------------------------------------------------------------------------
(* Hub, as the code's calls and their tests describe it. *)

HubIssue(id) ==
  /\ hub[id] = "unissued"
  /\ \A i \in Ids : hub[i] # "open"
  /\ hub' = [hub EXCEPT ![id] = "open"]
  /\ UNCHANGED <<attempt, journal, heard, aware, checkIn, report, wake, acknowledged>>

\* The attempt expires on Hub, which stops delivering it.
HubDrop(id) ==
  /\ hub[id] = "open"
  /\ hub' = [hub EXCEPT ![id] = "dropped"]
  /\ UNCHANGED <<attempt, journal, heard, aware, checkIn, report, wake, acknowledged>>

\* A Hub that does not know update completion accepts the check-in and
\* records nothing of the attempt.
HubHears(receipts) ==
  LET final == {r \in receipts : r.result # "in_progress"}
      closing(i) == {r \in final : r.id = i}
  IN  IF aware
      THEN /\ heard' = heard \cup final
           /\ hub' = [i \in Ids |-> IF hub[i] = "open" /\ closing(i) # {}
                                    THEN (CHOOSE r \in closing(i) : TRUE).result ELSE hub[i]]
      ELSE UNCHANGED <<heard, hub>>

HubVersion(knows) ==
  /\ aware # knows
  /\ aware' = knows
  /\ UNCHANGED <<attempt, journal, hub, heard, checkIn, report, wake, acknowledged>>

----------------------------------------------------------------------------
(* The check-in, in the steps between which other goroutines run. *)

CheckInSend ==
  /\ checkIn.phase = "idle"
  /\ Results # {} \/ \E i \in Ids : hub[i] = "open"
  /\ checkIn' = [NoCheckIn EXCEPT !.phase = "sent", !.sent = Results]
  /\ UNCHANGED <<attempt, journal, hub, heard, aware, report, wake, acknowledged>>

CheckInArrives ==
  /\ checkIn.phase = "sent"
  /\ HubHears(checkIn.sent)
  /\ checkIn' = [checkIn EXCEPT !.phase = "answered", !.aware = aware,
                   !.delivered = IF aware THEN {i \in Ids : hub'[i] = "open"} ELSE {}]
  /\ UNCHANGED <<attempt, journal, aware, report, wake, acknowledged>>

\* The request or its answer is lost: refreshConsent returns an error.
CheckInLost ==
  /\ checkIn.phase \in {"sent", "answered"}
  /\ checkIn' = NoCheckIn
  /\ UNCHANGED <<attempt, journal, hub, heard, aware, report, wake, acknowledged>>

\* AcceptUpdate stores the attempt, finds it stored already, or refuses:
\* StartCommand and FinishCommand then journal the refusal, once.
Acceptable(ver) == IF legacy THEN ver >= New ELSE ver < New

StoredAttempt(id) ==
  [id |-> id, stage |-> IF legacy THEN "finalizing" ELSE "picked_up", handoff |-> FALSE]

Accepts(current, ver, expired) == current.id = NoId /\ Acceptable(ver) /\ ~expired

Refusal(current, ver) ==
  IF current.id = NoId /\ ~legacy /\ ver >= New THEN "done" ELSE "failed"

\* refreshConsent after Hub's answer: AcknowledgeResults, ReconcileUpdate,
\* then AcceptUpdate for the attempt Hub delivers.
CheckInApplies(ver) ==
  LET told(id) == \E r \in checkIn.sent : r.id = id
      current == IF Reconciles(ver, checkIn.delivered, checkIn.sent, checkIn.aware)
                 THEN NoAttempt ELSE attempt
      settled == [i \in Ids |-> IF journal[i] # "none" /\ told(i) THEN "acknowledged" ELSE journal[i]]
  IN  /\ checkIn.phase = "answered"
      /\ \/ /\ checkIn.delivered \in {{}, {current.id}}
            /\ attempt' = current
            /\ journal' = settled
         \/ \E id \in checkIn.delivered \ {current.id},
              expired \in IF legacy THEN {FALSE} ELSE BOOLEAN :
              /\ attempt' = IF Accepts(current, ver, expired) THEN StoredAttempt(id) ELSE current
              /\ journal' = IF Accepts(current, ver, expired) \/ settled[id] # "none" THEN settled
                            ELSE [settled EXCEPT ![id] = Refusal(current, ver)]
      /\ checkIn' = NoCheckIn
      /\ UNCHANGED <<hub, heard, aware, report, wake, acknowledged>>

----------------------------------------------------------------------------
(* The update reporter. *)

\* runUpdateReporter is woken, or retries after an error.
ReporterWakes ==
  /\ report.phase = "retry" \/ (report.phase = "idle" /\ wake)
  /\ wake' = FALSE
  /\ report' = [NoReport EXCEPT !.phase = "read", !.before = FailureOf(attempt)]
  /\ UNCHANGED <<attempt, journal, hub, heard, aware, checkIn, acknowledged>>

\* ReportUpdate leaves a completed attempt to the check-in, which carries the
\* version.
Reportable == {r \in AttemptReceipts : r.result # "done"}

\* Mutant of ReporterDone: the failure that is there afterwards counts as told.
ReporterDoneNow(stopping) ==
  /\ acknowledged' = IF FailureOf(attempt') # NoId THEN attempt'.id ELSE acknowledged
  /\ report' = [NoReport EXCEPT !.phase = IF stopping THEN "over" ELSE "idle"]

\* When the report is done: the failure that was there before and still is
\* counts as told.
ReporterDone(stopping) ==
  /\ acknowledged' = IF report.before # NoId /\ FailureOf(attempt') = report.before
                     THEN report.before ELSE acknowledged
  /\ report' = [NoReport EXCEPT !.phase = IF stopping THEN "over" ELSE "idle"]

ReporterSends ==
  /\ report.phase \in {"read", "flush"}
  /\ UNCHANGED <<attempt, journal, hub, heard, aware, checkIn, wake>>
  /\ IF Reportable = {} THEN ReporterDone(report.phase = "flush")
     ELSE /\ report' = [report EXCEPT !.sent = Reportable,
                           !.phase = IF @ = "read" THEN "sent" ELSE "flushSent"]
          /\ UNCHANGED acknowledged

\* Only an update-aware Hub has the route.
ReportArrives ==
  /\ report.phase \in {"sent", "flushSent"}
  /\ aware
  /\ HubHears(report.sent)
  /\ report' = [report EXCEPT !.active = \E r \in report.sent : hub'[r.id] = "open",
                              !.phase = IF @ = "sent" THEN "answered" ELSE "flushAnswered"]
  /\ UNCHANGED <<attempt, journal, aware, checkIn, wake, acknowledged>>

ReportFails ==
  /\ report.phase \in {"sent", "answered", "flushSent", "flushAnswered"}
  /\ report' = [report EXCEPT !.phase = IF @ \in {"sent", "answered"} THEN "retry" ELSE "over"]
  /\ UNCHANGED <<attempt, journal, hub, heard, aware, checkIn, wake, acknowledged>>

ReporterReconciles(ver) ==
  /\ report.phase \in {"answered", "flushAnswered"}
  /\ IF report.active THEN UNCHANGED attempt ELSE ReconcileUpdate(ver, {}, report.sent, TRUE)
  /\ ReporterDone(report.phase = "flushAnswered")
  /\ UNCHANGED <<journal, hub, heard, aware, checkIn, wake>>

\* flushFailedUpdate, when the loop's context is cancelled.
ReporterStops ==
  /\ report.phase \notin {"flush", "flushSent", "flushAnswered", "over"}
  /\ report' = [NoReport EXCEPT !.phase =
       IF FailureOf(attempt) \in {NoId, acknowledged} THEN "over" ELSE "flush"]
  /\ UNCHANGED <<attempt, journal, hub, heard, aware, checkIn, wake, acknowledged>>

\* What a process that ends takes with it.
ForgetRequests ==
  /\ checkIn' = NoCheckIn
  /\ report' = NoReport
  /\ wake' = FALSE
  /\ acknowledged' = NoId

=============================================================================
