--------------------------- MODULE CommandJournal ---------------------------
(***************************************************************************)
(* Hub commands on Local: the journal of command IDs and results in the    *)
(* queue file (syncv4: queue.go, journal.go), the check-in that reports    *)
(* results and takes commands (runner.go refreshConsent) and the retries   *)
(* that stay open over many passes (runner.go finishRetryCommands).        *)
(*                                                                         *)
(* The Hub may hand out a command again with every check-in until it has   *)
(* its result, and keeps the first result it gets.  Answers get lost, the  *)
(* process stops between any two saves, records age and the device may be  *)
(* paired with another Hub.                                                *)
(***************************************************************************)
EXTENDS Integers, FiniteSets

CONSTANTS Commands,      \* command IDs
          Retries,       \* those that retry the session; the others launch
          JournalLimit,  \* commandJournalLimit: acknowledged IDs retained
          ReportLimit,   \* results sent with one check-in
          Faults,        \* the kinds of adverse events this instance allows
          MaxFaults      \* bound: how many of them happen in a behaviour

FaultKinds == {"restart", "lost", "save", "age", "rebind", "entry"}

ASSUME CommandsAssumption == Retries \subseteq Commands
ASSUME LimitsAssumption == /\ JournalLimit \in Nat \ {0}
                           /\ ReportLimit \in Nat \ {0} /\ MaxFaults \in Nat
ASSUME FaultsAssumption == Faults \subseteq FaultKinds

VARIABLES
  journal,  \* Queue.state.Commands, by ID
  held,     \* Queue.held, in memory
  waiting,  \* Runner.retryCommands, in memory
  entry,    \* the queue entry of the session the retries name
  stage,    \* where the pass is
  sent,     \* the results of the running check-in
  answer,   \* the commands of its answer still to be taken
  cur,      \* the command being executed; {} or one
  outcome,  \* its outcome
  verdict,  \* what the Hub knows of each command
  runs,     \* how often Local executed it
  landed,   \* executed retries after which a revision was accepted, or
            \* which found their source blocked and kept the revision
  unsaved,  \* started commands whose save failed since Local started
  said,     \* the final results Local ever sent for it
  faults    \* adverse events so far

passVars == <<sent, answer, cur, outcome>>
history  == <<runs, landed, unsaved, said>>
vars == <<journal, held, waiting, entry, stage, passVars, verdict, history,
          faults>>

Final == {"done", "failed"}
Result == Final \cup {"progress", ""}   \* "": acknowledged
\* nr is the place of a command in the file; older ones come first.
Record == [res: Result, old: BOOLEAN, nr: Nat]
NoRecords == [c \in {} |-> {}]
EntryState == [settled: BOOLEAN, failed: BOOLEAN, blocked: BOOLEAN,
               excluded: BOOLEAN]
Stages == {"idle", "answered", "deliver", "started", "pickedUp", "finish",
           "work", "settle"}

-----------------------------------------------------------------------------
(* The journal.                                                            *)

Ids(j) == DOMAIN j
Unacked(j) == {c \in Ids(j) : j[c].res # ""}
Young(j) == {c \in Ids(j) : j[c].res # "" \/ ~j[c].old}
Larger(a, b) == IF a > b THEN a ELSE b

\* The first of ids, up to and with c.
UpTo(j, ids, c) == {d \in ids : j[d].nr <= j[c].nr}

\* The journal with ids only, in the order they have.
Kept(j, ids) == [c \in ids |-> [j[c] EXCEPT !.nr = Cardinality(UpTo(j, ids, c))]]

\* Mutant of Pruned: the limit also drops commands with a result to report.
PrunedHard(j) ==
  Kept(j, {c \in Young(j) : Cardinality({d \in Young(j) : j[d].nr > j[c].nr})
                              < JournalLimit})

\* pruneCommands: acknowledged records go when they are old, and the oldest
\* ones when there are too many.
Pruned(j) ==
  LET acked == Young(j) \ Unacked(j)
      drop == Cardinality(Young(j)) - Larger(JournalLimit, Cardinality(Unacked(j)))
      dropped == {c \in acked : Cardinality(UpTo(j, acked, c)) <= drop}
  IN Kept(j, Young(j) \ dropped)

\* The journal with another result for some of its commands.
WithResults(j, ids, res) ==
  [c \in Ids(j) |-> IF c \in ids THEN [j[c] EXCEPT !.res = res] ELSE j[c]]

WithResult(j, c, res) == WithResults(j, {c}, res)

\* Results: final results that are not held, oldest first, then commands in
\* progress while there is room.
Results ==
  LET final == {c \in Ids(journal) \ held : journal[c].res \in Final}
      open == {c \in Ids(journal) : journal[c].res = "progress"}
      upTo(c) == IF c \in final THEN UpTo(journal, final, c)
                                ELSE final \cup UpTo(journal, open, c)
  IN {c \in final \cup open : Cardinality(upTo(c)) <= ReportLimit}

\* Mutant of Acknowledged: a reported progress counts as acknowledged.
AcknowledgedAlways(j, ids) == WithResults(j, ids, "")

\* AcknowledgeResults
Acknowledged(j, ids) ==
  WithResults(j, {c \in ids \cap Ids(j) : j[c].res # "progress"}, "")

\* Mutant of Interrupted: a restart leaves a started command in progress.
InterruptedKept(j) == j

\* Open: what was in progress was interrupted.
Interrupted(j) == WithResults(j, {c \in Ids(j) : j[c].res = "progress"}, "failed")

-----------------------------------------------------------------------------
(* The check-in.                                                           *)

Happens(kind) == kind \in Faults /\ faults < MaxFaults /\ faults' = faults + 1

\* The Hub keeps the first final result of a command it handed out.
Heard(ids) ==
  [c \in Commands |->
     IF verdict[c] = "open" /\ c \in ids /\ journal[c].res \in Final
     THEN journal[c].res ELSE verdict[c]]

Report(ids) ==
  /\ verdict' = Heard(ids)
  /\ said' = [c \in Commands |->
                IF c \in ids THEN said[c] \cup ({journal[c].res} \cap Final)
                             ELSE said[c]]

OpenCommands(v) == {c \in Commands : v[c] = "open"}

HubIssues(c) ==
  /\ verdict[c] = "none"
  /\ verdict' = [verdict EXCEPT ![c] = "open"]
  /\ UNCHANGED <<journal, held, waiting, entry, stage, passVars, history,
                 faults>>

\* refreshConsent, at the start of a pass or during it.
CheckIn(commands) ==
  /\ stage \in {"idle", "work"}
  /\ Report(Results)
  /\ commands \subseteq OpenCommands(verdict')
  /\ sent' = Results
  /\ answer' = commands
  /\ stage' = "answered"
  /\ UNCHANGED <<journal, held, waiting, entry, cur, outcome, runs, landed,
                 unsaved, faults>>

\* The Hub took the results but its answer does not arrive.
CheckInLost ==
  /\ stage \in {"idle", "work"}
  /\ Happens("lost")
  /\ Report(Results)
  /\ stage' = "settle"
  /\ UNCHANGED <<journal, held, waiting, entry, passVars, runs, landed,
                 unsaved>>

Acknowledge ==
  /\ stage = "answered"
  /\ journal' = Acknowledged(journal, sent)
  /\ sent' = {}
  /\ stage' = "deliver"
  /\ UNCHANGED <<held, waiting, entry, answer, cur, outcome, verdict,
                 history, faults>>

\* A started command is saved with the result it has when it is interrupted.
Started(j, c) ==
  [d \in Ids(j) \cup {c} |->
     IF d = c THEN [res |-> "failed", old |-> FALSE, nr |-> Cardinality(Ids(j)) + 1]
     ELSE j[d]]

\* Mutant of StartCommand: the command is started again whenever it arrives.
StartAgain(c) ==
  /\ stage = "deliver" /\ c \in answer
  /\ answer' = answer \ {c}
  /\ journal' = Pruned(Started(Pruned(journal), c))
  /\ cur' = {c} /\ stage' = "started"
  /\ UNCHANGED <<held, waiting, entry, sent, outcome, verdict, history,
                 faults>>

\* StartCommand: the ID is saved with an interrupted result before anything
\* is done; a known ID is not started.
StartCommand(c) ==
  /\ stage = "deliver" /\ c \in answer
  /\ answer' = answer \ {c}
  /\ LET j == Pruned(journal) IN
     IF c \in Ids(j)
     THEN /\ journal' = j
          /\ UNCHANGED <<cur, stage>>
     ELSE /\ journal' = Pruned(Started(j, c))
          /\ cur' = {c} /\ stage' = "started"
  /\ UNCHANGED <<held, waiting, entry, sent, outcome, verdict, history,
                 faults>>

\* SetCommandProgress("picked_up")
PickUp(c) ==
  /\ stage = "started" /\ cur = {c}
  /\ journal' = WithResult(journal, c, "progress")
  /\ stage' = "pickedUp"
  /\ UNCHANGED <<held, waiting, entry, passVars, verdict, history, faults>>

\* A launch (or any command run by Runner.Command), well or badly.
Execute(c) ==
  /\ stage = "pickedUp" /\ cur = {c} /\ c \notin Retries
  /\ runs' = [runs EXCEPT ![c] = @ + 1]
  /\ outcome' \in Final
  /\ stage' = "finish"
  /\ UNCHANGED <<journal, held, waiting, entry, sent, answer, cur, verdict,
                 landed, unsaved, said, faults>>

\* A command whose session is left out or gone, or a retry while paused.
Refuse(c) ==
  /\ stage = "pickedUp" /\ cur = {c}
  /\ outcome' = "failed"
  /\ stage' = "finish"
  /\ UNCHANGED <<journal, held, waiting, entry, sent, answer, cur, verdict,
                 history, faults>>

\* RetrySession, HoldCommand: the command stays open until its session settles.
Retry(c) ==
  /\ stage = "pickedUp" /\ cur = {c} /\ c \in Retries /\ ~entry.excluded
  /\ entry' = [entry EXCEPT !.failed = FALSE, !.settled = entry.blocked /\ @]
  /\ runs' = [runs EXCEPT ![c] = @ + 1]
  /\ landed' = IF entry.blocked THEN landed \cup {c} ELSE landed
  /\ waiting' = waiting \cup {c}
  /\ held' = held \cup {c}
  /\ cur' = {} /\ stage' = "deliver"
  /\ UNCHANGED <<journal, sent, answer, outcome, verdict, unsaved, said,
                 faults>>

FinishCommand(c) ==
  /\ stage = "finish" /\ cur = {c}
  /\ journal' = WithResult(journal, c, outcome)
  /\ held' = held \ {c}
  /\ cur' = {} /\ outcome' = "" /\ stage' = "deliver"
  /\ UNCHANGED <<waiting, entry, sent, answer, verdict, history, faults>>

Delivered ==
  /\ stage = "deliver" /\ answer = {}
  /\ stage' = "work"
  /\ UNCHANGED <<journal, held, waiting, entry, passVars, verdict, history,
                 faults>>

-----------------------------------------------------------------------------
(* The rest of the pass, as far as the retried session's entry is concerned. *)

EntryBecomes(e) ==
  /\ stage = "work"
  /\ entry' = e
  /\ UNCHANGED <<journal, held, waiting, stage, passVars, verdict, runs,
                 unsaved, said>>

\* complete: the Hub accepted the session's revision.
Land ==
  /\ ~entry.settled /\ ~entry.blocked /\ ~entry.excluded
  /\ EntryBecomes([entry EXCEPT !.settled = TRUE, !.failed = FALSE])
  /\ landed' = landed \cup {c \in Retries : runs[c] > 0}
  /\ UNCHANGED faults

\* recordFailure with a code other than rate_limited
Fail ==
  /\ ~entry.settled /\ ~entry.excluded
  /\ EntryBecomes([entry EXCEPT !.failed = TRUE])
  /\ UNCHANGED <<landed, faults>>

\* A blocked source is verified again.
Unblock ==
  /\ entry.blocked
  /\ EntryBecomes([entry EXCEPT !.blocked = FALSE, !.failed = FALSE])
  /\ UNCHANGED <<landed, faults>>

\* The source changes, cannot be hashed, is left out or admitted again.
Disturb ==
  /\ Happens("entry")
  /\ \/ EntryBecomes([entry EXCEPT !.settled = FALSE])
     \/ EntryBecomes([entry EXCEPT !.blocked = TRUE, !.failed = TRUE])
     \/ EntryBecomes([entry EXCEPT !.excluded = ~@])
  /\ UNCHANGED landed

\* SyncOnce returns, well or with an error; finishRetryCommands is deferred.
PassEnds ==
  /\ stage = "work"
  /\ stage' = "settle"
  /\ UNCHANGED <<journal, held, waiting, entry, passVars, verdict, history,
                 faults>>

\* retryOutcome; a session of another Hub is unknown.
RetryOutcome(c) ==
  IF verdict[c] = "gone" THEN "failed"
  ELSE IF ~entry.blocked /\ entry.settled THEN "done"
  ELSE IF entry.excluded \/ entry.failed THEN "failed" ELSE ""

\* Mutant of Finished: a waiting retry is reported done when the pass ends.
FinishedAnyway(c) ==
  /\ c \in waiting /\ c \in Ids(journal)
  /\ journal' = WithResult(journal, c, "done")

Finished(c) ==
  /\ c \in waiting /\ RetryOutcome(c) # "" /\ c \in Ids(journal)
  /\ journal' = WithResult(journal, c, RetryOutcome(c))

\* Mutant of FinishRetry: the finished retry stays with the runner.
FinishRetryKeeps(c) ==
  /\ stage = "settle"
  /\ Finished(c)
  /\ held' = held \ {c}
  /\ UNCHANGED <<waiting, entry, stage, passVars, verdict, history, faults>>

\* finishRetryCommands, one settled retry.
FinishRetry(c) ==
  /\ stage = "settle"
  /\ Finished(c)
  /\ waiting' = waiting \ {c}
  /\ held' = held \ {c}
  /\ UNCHANGED <<entry, stage, passVars, verdict, history, faults>>

\* What is left waits for its session, or is not in the journal.
PassDone ==
  /\ stage = "settle"
  /\ \A c \in waiting : RetryOutcome(c) = "" \/ c \notin Ids(journal)
  /\ stage' = "idle"
  /\ UNCHANGED <<journal, held, waiting, entry, passVars, verdict, history,
                 faults>>

-----------------------------------------------------------------------------
(* Failures.                                                               *)

\* A save fails: memory is rolled back and the pass ends.  RetrySession and
\* FinishCommand leave the command in progress.
SaveFails ==
  /\ stage \in {"answered", "deliver", "started", "pickedUp", "finish"}
  /\ Happens("save")
  /\ sent' = {} /\ answer' = {} /\ cur' = {} /\ outcome' = ""
  /\ unsaved' = unsaved \cup cur
  /\ stage' = "settle"
  /\ UNCHANGED <<journal, held, waiting, entry, verdict, runs, landed, said>>

\* The process stops; Open reads the journal.
Restart ==
  /\ Happens("restart")
  /\ journal' = Pruned(Interrupted(journal))
  /\ held' = {} /\ waiting' = {}
  /\ sent' = {} /\ answer' = {} /\ cur' = {} /\ outcome' = ""
  /\ stage' = "idle" /\ unsaved' = {}
  /\ UNCHANGED <<entry, verdict, runs, landed, said>>

\* A record becomes older than commandJournalRetention.
Age(c) ==
  /\ Happens("age")
  /\ c \in Ids(journal)
  /\ journal' = [journal EXCEPT ![c].old = TRUE]
  /\ UNCHANGED <<held, waiting, entry, stage, passVars, verdict, history>>

\* Rebind drops the journal.  The controller starts another Runner when it
\* learns of the new pairing; a pass that finds the credential replaced goes on
\* with the same one, whose retries stay in memory.
Rebind ==
  /\ Happens("rebind")
  /\ stage = "idle"
  /\ journal' = NoRecords
  /\ waiting' \in {waiting, {}}
  /\ entry' = [entry EXCEPT !.settled = FALSE, !.failed = FALSE, !.blocked = FALSE]
  /\ verdict' = [c \in Commands |-> IF verdict[c] = "none" THEN "none" ELSE "gone"]
  /\ UNCHANGED <<held, stage, passVars, history>>

-----------------------------------------------------------------------------
Init ==
  /\ journal = NoRecords /\ held = {} /\ waiting = {}
  /\ entry \in {[settled |-> s, failed |-> FALSE, blocked |-> FALSE,
                 excluded |-> FALSE] : s \in BOOLEAN}
  /\ stage = "idle" /\ sent = {} /\ answer = {} /\ cur = {} /\ outcome = ""
  /\ verdict = [c \in Commands |-> "none"]
  /\ runs = [c \in Commands |-> 0] /\ landed = {} /\ unsaved = {}
  /\ said = [c \in Commands |-> {}]
  /\ faults = 0

Take(c) == \/ StartCommand(c) \/ PickUp(c) \/ Execute(c) \/ Retry(c) \/ Refuse(c)
           \/ FinishCommand(c)

Next == \/ \E c \in Commands : HubIssues(c) \/ Take(c) \/ FinishRetry(c) \/ Age(c)
        \/ \E commands \in SUBSET Commands : CheckIn(commands)
        \/ CheckInLost \/ Acknowledge \/ Delivered
        \/ Land \/ Fail \/ Unblock \/ Disturb \/ PassEnds \/ PassDone
        \/ SaveFails \/ Restart \/ Rebind

\* The sync loop runs pass after pass, each of which ends; the Hub hands out
\* what is open; a session's sync ends (UploadQueue!EventuallySettled).
FairSteps ==
  \/ \E c \in Commands : Take(c) \/ FinishRetry(c)
  \/ Acknowledge \/ Delivered \/ PassDone
  \/ stage = "idle" /\ \E commands \in SUBSET Commands : CheckIn(commands)
ChecksInWithAll == stage = "idle" /\ CheckIn(OpenCommands(Heard(Results)))

Fairness ==
  /\ WF_vars(FairSteps) /\ SF_vars(ChecksInWithAll)
  /\ SF_vars(PassEnds) /\ SF_vars(Land) /\ SF_vars(Unblock)

Spec == Init /\ [][Next]_vars /\ Fairness

-----------------------------------------------------------------------------
(* Properties.                                                             *)

\* The commands of a journal and their places.
Ordered(j) ==
  /\ IsFiniteSet(Ids(j))
  /\ \A c \in Ids(j) : j[c].nr \in 1..Cardinality(Ids(j))
  /\ \A c, d \in Ids(j) : j[c].nr = j[d].nr => c = d

\* Every variable has its type, and no two commands of the journal share a place.
TypeOK ==
  /\ Ids(journal) \subseteq Commands
  /\ journal \in [Ids(journal) -> Record] /\ Ordered(journal)
  /\ held \subseteq Retries /\ waiting \subseteq held
  /\ entry \in EntryState /\ stage \in Stages
  /\ sent \subseteq Commands /\ answer \subseteq Commands
  /\ cur = {} \/ \E c \in Commands : cur = {c}
  /\ outcome \in Final \cup {""}
  /\ verdict \in [Commands -> {"none", "open", "gone"} \cup Final]
  /\ runs \in [Commands -> Nat] /\ landed \cup unsaved \subseteq Commands
  /\ said \in [Commands -> SUBSET Final]
  /\ faults \in Nat

\* A command is executed at most once, however often the Hub hands it out,
\* whatever is lost, pruned or interrupted (README.md:306-312).
AtMostOnce == \A c \in Commands : runs[c] <= 1

\* While the Hub waits for the result of an executed command, the journal has
\* a result for it: no pruning, acknowledgement or crash loses it.
OpenCommandsJournaled ==
  \A c \in Commands : verdict[c] = "open" /\ runs[c] > 0 =>
    c \in Ids(journal) /\ journal[c].res # ""

\* "done" is reported only for a command that was executed, and for a retry
\* only after the Hub accepted a revision of its session (README.md:311-312).
DoneIsTrue ==
  \A c \in Commands : "done" \in said[c] =>
    runs[c] > 0 /\ (c \in Retries => c \in landed)

\* Once Local has sent a final result for a command it never sends another
\* one and never executes the command any more.
ReportIsFinal ==
  [][\A c \in Commands : said[c] # {} =>
       said'[c] = said[c] /\ runs'[c] = runs[c]]_vars

\* Every command the Hub hands out gets a result, whatever is lost or
\* interrupted; after a failed save it may take a restart (see the hazards).
EveryCommandReported ==
  \A c \in Commands : (verdict[c] = "open") ~> (verdict[c] # "open" \/ c \in unsaved)

\* "Retry commands stay open across passes until their session settles"
\* (runner.go:210): no retry waits forever.
RetriesClose == \A c \in Retries : []<>(c \notin waiting)
=============================================================================
