----------------------------- MODULE Synthesis -----------------------------
(***************************************************************************)
(* Summaries of local sessions.  A sweep, and a share, ask the manager to  *)
(* summarise a session at a revision; one worker per session waits for a   *)
(* slot, opens a round in the accounting database, calls the runner once   *)
(* or more, records every call, keeps the summary and closes the round.    *)
(* The database may stop answering at any step, the program may be told to *)
(* stop or crash, and neither may make spending look smaller than it was   *)
(* or keep a summary from being made.                                      *)
(***************************************************************************)
EXTENDS Naturals, FiniteSets

CONSTANTS Sessions,
          Slots,         \* defaultConcurrency
          MaxRevision,   \* revisions a session reaches
          MaxCalls,      \* calls of the runner in a round
          MaxTroubles    \* stops, crashes, outages and failed calls in a run

ASSUME SynthesisAssumption ==
  IsFiniteSet(Sessions) /\ Slots \in Nat \ {0} /\ MaxRevision \in Nat \ {0} /\ MaxCalls \in Nat \ {0} /\ MaxTroubles \in Nat

VARIABLES revision,      \* each session's last activity
          cached,        \* the revision of its summary, on disk
          listed,        \* what the running sweep has read of it and not yet asked for
          checked,       \* an ensure that found no summary and no cooldown
          workers,       \* inFlight, and what each worker does
          runner,        \* Manager.runner is set
          cooldown,      \* Manager.failures, unexpired
          cliMissing,    \* cliMissingUntil lies ahead
          serving,       \* the program runs
          stopped,       \* Shutdown was called
          opened,        \* the accounting store could be opened
          unavailable,   \* accountingUnavailable
          marker,        \* accounting_incomplete of the database
          dbDown,        \* the database does not answer
          left,          \* an open round of the database that no worker will close
                         \* misses what a call used
          short,         \* how the closed rounds that miss it were closed
          unrecorded,    \* this process made a call that no finished row tells of
          troubles       \* so far

askVars == <<revision, listed, checked>>
ledger == <<left, short>>
accountVars == <<opened, unavailable, marker, ledger, unrecorded>>
synthVars == <<askVars, cached, workers, runner, cooldown, cliMissing, serving, stopped,
               accountVars, dbDown, troubles>>

Idle == [phase |-> "none", revision |-> 0, round |-> FALSE, started |-> FALSE, ran |-> FALSE,
         result |-> "none", made |-> 0, recorded |-> 0, lost |-> FALSE]

InSlot(s) == workers[s].phase \notin {"none", "queued"}

WorkerStates ==
  [phase: {"none", "queued", "begin", "start", "run", "running", "retry", "finish", "settle",
           "close"},
   revision: 0..MaxRevision, round: BOOLEAN, started: BOOLEAN, ran: BOOLEAN,
   result: {"none", "success", "failed", "missing", "interrupted"},
   made: 0..MaxCalls, recorded: 0..MaxCalls, lost: BOOLEAN]

\* A round is closed by its worker, or by the opening of the store.
Closings == [by: {"worker", "opening"}, outcome: {"success", "failed", "interrupted"}]

SynthTypeOK ==
  /\ revision \in [Sessions -> 1..MaxRevision]
  /\ cached \in [Sessions -> 0..MaxRevision]
  /\ listed \in [Sessions -> 0..MaxRevision]
  /\ checked \in [Sessions -> 0..MaxRevision]
  /\ workers \in [Sessions -> WorkerStates]
  /\ Cardinality({s \in Sessions : InSlot(s)}) <= Slots
  /\ cooldown \subseteq [session: Sessions, revision: 1..MaxRevision]
  /\ runner \in BOOLEAN /\ cliMissing \in BOOLEAN
  /\ serving \in BOOLEAN /\ stopped \in BOOLEAN
  /\ opened \in BOOLEAN /\ unavailable \in BOOLEAN /\ marker \in BOOLEAN /\ dbDown \in BOOLEAN
  /\ left \in BOOLEAN /\ short \subseteq Closings /\ unrecorded \in BOOLEAN
  /\ troubles \in 0..MaxTroubles

SynthInit ==
  /\ revision = [s \in Sessions |-> 1]
  /\ cached \in [Sessions -> 0..1]
  /\ listed = [s \in Sessions |-> 0]
  /\ checked = [s \in Sessions |-> 0]
  /\ workers = [s \in Sessions |-> Idle]
  /\ runner = FALSE
  /\ cooldown = {}
  /\ cliMissing = FALSE
  /\ serving = FALSE
  /\ stopped = FALSE
  /\ opened = FALSE
  /\ unavailable = FALSE
  /\ marker = FALSE
  /\ dbDown = FALSE
  /\ left = FALSE /\ short = {}
  /\ unrecorded = FALSE
  /\ troubles = 0

Trouble == troubles < MaxTroubles /\ troubles' = troubles + 1

----------------------------------------------------------------------------
(* Asking. *)

\* InCooldown.
InCooldown(s, r) == cliMissing \/ [session |-> s, revision |-> r] \in cooldown

\* ensure, up to its look at the claims.
Wanted(s, r) == runner /\ cached[s] # r /\ ~InCooldown(s, r)

\* A session has new activity.
Works(s) ==
  /\ revision[s] < MaxRevision
  /\ revision' = [revision EXCEPT ![s] = @ + 1]
  /\ UNCHANGED <<cached, listed, checked, workers, runner, cooldown, cliMissing, serving,
                 stopped, accountVars, dbDown, troubles>>

\* sweep: one list, then one ensure for each session.
List ==
  /\ serving /\ ~stopped /\ runner
  /\ \A s \in Sessions : listed[s] = 0
  /\ listed' = revision
  /\ UNCHANGED <<revision, cached, checked, workers, runner, cooldown, cliMissing, serving,
                 stopped, accountVars, dbDown, troubles>>

SweepChecks(s) ==
  /\ serving /\ listed[s] # 0 /\ checked[s] = 0
  /\ listed' = [listed EXCEPT ![s] = 0]
  /\ checked' = [checked EXCEPT ![s] = IF Wanted(s, listed[s]) THEN listed[s] ELSE 0]
  /\ UNCHANGED <<revision, cached, workers, runner, cooldown, cliMissing, serving, stopped,
                 accountVars, dbDown, troubles>>

\* EnsureForShare.
ShareChecks(s) ==
  /\ serving /\ checked[s] = 0
  /\ Wanted(s, revision[s])
  /\ checked' = [checked EXCEPT ![s] = revision[s]]
  /\ UNCHANGED <<revision, cached, listed, workers, runner, cooldown, cliMissing, serving,
                 stopped, accountVars, dbDown, troubles>>

\* The rest of ensure: claim the session, unless it is claimed or the manager stopped.
Claim(s) ==
  /\ serving /\ checked[s] # 0
  /\ checked' = [checked EXCEPT ![s] = 0]
  /\ workers' = IF workers[s] = Idle /\ ~stopped
                THEN [workers EXCEPT ![s] = [Idle EXCEPT !.phase = "queued",
                                                         !.revision = checked[s]]]
                ELSE workers
  /\ UNCHANGED <<revision, cached, listed, runner, cooldown, cliMissing, serving, stopped,
                 accountVars, dbDown, troubles>>

----------------------------------------------------------------------------
(* A worker. *)

To(s, w) == workers' = [workers EXCEPT ![s] = w]
Moves(s, phase) == To(s, [workers[s] EXCEPT !.phase = phase])

\* The claim goes, and with it what only the worker knew of the round.
Leaves(s) ==
  /\ To(s, Idle)
  /\ unrecorded' = (unrecorded \/ workers[s].made # workers[s].recorded)

\* accountingError: said in memory at once, and in the database if it answers
\* again by then.
AccountingError == unavailable' = TRUE /\ marker' \in {marker, marker \/ opened}

\* Mutant of TakeSlot: a worker that finds no runner keeps its slot and claim.
TakeSlotAnyway(s) ==
  /\ workers[s].phase = "queued"
  /\ \/ stopped /\ Leaves(s)
     \/ /\ Cardinality({u \in Sessions : InSlot(u)}) < Slots
        /\ Moves(s, IF runner THEN "begin" ELSE "kept")
        /\ UNCHANGED unrecorded
  /\ UNCHANGED <<askVars, cached, runner, cooldown, cliMissing, serving, stopped, opened,
                 unavailable, marker, ledger, dbDown, troubles>>

TakeSlot(s) ==
  /\ workers[s].phase = "queued"
  /\ \/ stopped /\ Leaves(s)
     \/ /\ Cardinality({u \in Sessions : InSlot(u)}) < Slots
        /\ IF runner THEN Moves(s, "begin") /\ UNCHANGED unrecorded ELSE Leaves(s)
  /\ UNCHANGED <<askVars, cached, runner, cooldown, cliMissing, serving, stopped, opened,
                 unavailable, marker, ledger, dbDown, troubles>>

\* execute begins a round; without one the calls are made all the same.
Begin(s) ==
  /\ workers[s].phase = "begin"
  /\ \/ /\ stopped
        /\ Leaves(s) /\ UNCHANGED <<unavailable, marker>>
     \/ /\ ~stopped /\ opened /\ ~dbDown
        /\ To(s, [workers[s] EXCEPT !.phase = "start", !.round = TRUE])
        /\ UNCHANGED <<unrecorded, unavailable, marker>>
     \/ /\ ~stopped /\ opened /\ dbDown
        /\ Moves(s, "start") /\ AccountingError /\ UNCHANGED unrecorded
     \/ /\ ~stopped /\ ~opened
        /\ Moves(s, "start") /\ UNCHANGED <<unrecorded, unavailable, marker>>
  /\ UNCHANGED <<askVars, cached, runner, cooldown, cliMissing, serving, stopped, opened,
                 ledger, dbDown, troubles>>

\* invoke: a row for the call, made again after it if this fails.
StartInvocation(s) ==
  /\ workers[s].phase = "start"
  /\ IF stopped THEN Moves(s, "settle")
     ELSE To(s, [workers[s] EXCEPT !.phase = "run", !.ran = FALSE, !.result = "none",
                                   !.started = workers[s].round /\ ~dbDown])
  /\ UNCHANGED <<askVars, cached, runner, cooldown, cliMissing, serving, stopped,
                 accountVars, dbDown, troubles>>

\* The runner is called unless the manager was stopped meanwhile.
CallRunner(s) ==
  /\ workers[s].phase = "run"
  /\ To(s, IF stopped THEN [workers[s] EXCEPT !.phase = "finish", !.result = "failed"]
           ELSE [workers[s] EXCEPT !.phase = "running", !.ran = TRUE, !.made = @ + 1])
  /\ UNCHANGED <<askVars, cached, runner, cooldown, cliMissing, serving, stopped,
                 accountVars, dbDown, troubles>>

RunnerAnswers(s) ==
  /\ workers[s].phase = "running"
  /\ \/ To(s, [workers[s] EXCEPT !.phase = "retry", !.result = "success"]) /\ UNCHANGED troubles
     \/ /\ stopped
        /\ To(s, [workers[s] EXCEPT !.phase = "retry", !.result = "failed"])
        /\ UNCHANGED troubles
     \/ /\ Trouble
        /\ \E result \in {"failed", "missing"} :
              To(s, [workers[s] EXCEPT !.phase = "retry", !.result = result])
  /\ UNCHANGED <<askVars, cached, runner, cooldown, cliMissing, serving, stopped,
                 accountVars, dbDown>>

\* Mutant of RetryStart: the round may still be closed.
RetryStartOnce(s) ==
  /\ workers[s].phase = "retry"
  /\ To(s, [workers[s] EXCEPT !.phase = "finish", !.started = @ \/ (workers[s].round /\ ~dbDown)])
  /\ IF workers[s].round /\ ~workers[s].started /\ dbDown THEN AccountingError
     ELSE UNCHANGED <<unavailable, marker>>
  /\ UNCHANGED <<askVars, cached, runner, cooldown, cliMissing, serving, stopped, opened,
                 ledger, unrecorded, dbDown, troubles>>

\* The row that could not be made before the call.
RetryStart(s) ==
  /\ workers[s].phase = "retry"
  /\ \/ /\ ~workers[s].round \/ workers[s].started
        /\ Moves(s, "finish") /\ UNCHANGED <<unavailable, marker>>
     \/ /\ workers[s].round /\ ~workers[s].started /\ ~dbDown
        /\ To(s, [workers[s] EXCEPT !.phase = "finish", !.started = TRUE])
        /\ UNCHANGED <<unavailable, marker>>
     \/ /\ workers[s].round /\ ~workers[s].started /\ dbDown
        /\ To(s, [workers[s] EXCEPT !.phase = "finish", !.lost = TRUE])
        /\ AccountingError
  /\ UNCHANGED <<askVars, cached, runner, cooldown, cliMissing, serving, stopped, opened,
                 ledger, unrecorded, dbDown, troubles>>

\* More inputs are left after a call that succeeded, or none.
NextPhases(s) ==
  IF workers[s].result = "success" /\ workers[s].made < MaxCalls THEN {"start", "settle"}
  ELSE {"settle"}

\* Mutant of FinishInvocation: a row that stays open is only logged.
FinishQuietly(s) ==
  /\ workers[s].phase = "finish"
  /\ \E phase \in NextPhases(s) :
       IF workers[s].started /\ ~dbDown /\ workers[s].ran
       THEN To(s, [workers[s] EXCEPT !.phase = phase, !.recorded = @ + 1])
       ELSE Moves(s, phase)
  /\ UNCHANGED <<askVars, cached, runner, cooldown, cliMissing, serving, stopped,
                 accountVars, dbDown, troubles>>

\* FinishInvocation, for a call that has a row.
FinishInvocation(s) ==
  /\ workers[s].phase = "finish"
  /\ \E phase \in NextPhases(s) :
       \/ ~workers[s].started /\ Moves(s, phase) /\ UNCHANGED unavailable
       \/ /\ workers[s].started /\ ~dbDown
          /\ To(s, [workers[s] EXCEPT !.phase = phase,
                                      !.recorded = IF workers[s].ran THEN @ + 1 ELSE @])
          /\ UNCHANGED unavailable
       \/ /\ workers[s].started /\ dbDown
          /\ To(s, [workers[s] EXCEPT !.phase = phase, !.lost = TRUE])
          /\ unavailable' = TRUE
  /\ UNCHANGED <<askVars, cached, runner, cooldown, cliMissing, serving, stopped, opened,
                 marker, ledger, unrecorded, dbDown, troubles>>

\* The summary is kept, or the failure: of the calls, of the file, or the stop.
Settle(s) ==
  /\ workers[s].phase = "settle"
  /\ \/ /\ workers[s].result = "success" /\ ~stopped
        /\ cached' = [cached EXCEPT ![s] = workers[s].revision]
        /\ cooldown' = cooldown \ {[session |-> s, revision |-> workers[s].revision]}
        /\ cliMissing' = FALSE
        /\ Moves(s, "close")
        /\ UNCHANGED troubles
     \/ /\ \/ (workers[s].result # "success" \/ stopped) /\ UNCHANGED troubles
           \/ workers[s].result = "success" /\ ~stopped /\ Trouble
        /\ cooldown' = cooldown \cup {[session |-> s, revision |-> workers[s].revision]}
        /\ cliMissing' = (cliMissing \/ (workers[s].result = "missing" /\ ~stopped))
        /\ To(s, [workers[s] EXCEPT !.phase = "close",
                                    !.result = IF stopped THEN "interrupted" ELSE "failed"])
        /\ UNCHANGED cached
  /\ UNCHANGED <<askVars, runner, serving, stopped, accountVars, dbDown>>

\* The round of worker w has no row with what one of its calls used.
Misses(w) == w.round /\ w.made # w.recorded

\* FinishRound, unless a call could not be recorded; then the worker is gone.
Close(s) ==
  LET w == workers[s]
  IN  /\ w.phase = "close"
      /\ Leaves(s)
      /\ \/ /\ ~w.round \/ w.lost
            /\ left' = (left \/ Misses(w))
            /\ UNCHANGED <<unavailable, marker, short>>
         \/ /\ w.round /\ ~w.lost /\ ~dbDown
            /\ short' = IF Misses(w) THEN short \cup {[by |-> "worker", outcome |-> w.result]}
                        ELSE short
            /\ UNCHANGED <<unavailable, marker, left>>
         \/ /\ w.round /\ ~w.lost /\ dbDown
            /\ AccountingError
            /\ left' = (left \/ Misses(w))
            /\ UNCHANGED short
      /\ UNCHANGED <<askVars, cached, runner, cooldown, cliMissing, serving, stopped, opened,
                     dbDown, troubles>>

----------------------------------------------------------------------------
(* Around the manager. *)

\* SetRunner, when settings are saved.
SetRunner ==
  /\ serving /\ ~stopped
  /\ runner' \in BOOLEAN
  /\ cliMissing' = FALSE /\ cooldown' = {}
  /\ UNCHANGED <<askVars, cached, workers, serving, stopped, accountVars, dbDown, troubles>>

CooldownEnds ==
  /\ \/ cliMissing /\ cliMissing' = FALSE /\ UNCHANGED cooldown
     \/ (\E f \in cooldown : cooldown' = cooldown \ {f}) /\ UNCHANGED cliMissing
  /\ UNCHANGED <<askVars, cached, workers, runner, serving, stopped, accountVars, dbDown,
                 troubles>>

Shutdown ==
  /\ serving /\ ~stopped /\ Trouble
  /\ stopped' = TRUE
  /\ UNCHANGED <<askVars, cached, workers, runner, cooldown, cliMissing, serving, accountVars,
                 dbDown>>

\* The process ends, after its workers or under them; their rounds stay open.
Exit ==
  /\ serving
  /\ IF stopped /\ \A s \in Sessions : workers[s] = Idle THEN UNCHANGED troubles ELSE Trouble
  /\ listed' = [s \in Sessions |-> 0] /\ checked' = [s \in Sessions |-> 0]
  /\ workers' = [s \in Sessions |-> Idle]
  /\ runner' = FALSE /\ cooldown' = {} /\ cliMissing' = FALSE
  /\ serving' = FALSE /\ stopped' = FALSE
  /\ opened' = FALSE /\ unavailable' = FALSE /\ unrecorded' = FALSE
  /\ left' = (left \/ \E s \in Sessions : Misses(workers[s]))
  /\ UNCHANGED <<revision, cached, marker, short, dbDown>>

\* initialize: every invocation and round that the database still has open is
\* closed as interrupted, in one transaction.
ClosesLeft ==
  /\ left' = FALSE
  /\ short' = IF left THEN short \cup {[by |-> "opening", outcome |-> "interrupted"]} ELSE short

\* main: a store that cannot be opened is done without.
Start ==
  /\ ~serving
  /\ serving' = TRUE
  /\ runner' \in BOOLEAN
  /\ opened' = ~dbDown
  /\ IF dbDown THEN UNCHANGED ledger ELSE ClosesLeft
  /\ UNCHANGED <<askVars, cached, workers, cooldown, cliMissing, stopped, unavailable, marker,
                 unrecorded, dbDown, troubles>>

DbStops ==
  /\ ~dbDown /\ Trouble
  /\ dbDown' = TRUE
  /\ UNCHANGED <<askVars, cached, workers, runner, cooldown, cliMissing, serving, stopped,
                 accountVars>>

DbAnswers ==
  /\ dbDown
  /\ dbDown' = FALSE
  /\ UNCHANGED <<askVars, cached, workers, runner, cooldown, cliMissing, serving, stopped,
                 accountVars, troubles>>

----------------------------------------------------------------------------
Ensures == List \/ \E s \in Sessions : SweepChecks(s) \/ Claim(s)
Executes ==
  \E s \in Sessions :
    \/ TakeSlot(s) \/ Begin(s) \/ StartInvocation(s) \/ CallRunner(s) \/ RunnerAnswers(s)
    \/ RetryStart(s) \/ FinishInvocation(s) \/ Settle(s) \/ Close(s)

SynthNext ==
  \/ \E s \in Sessions : Works(s) \/ ShareChecks(s)
  \/ Ensures \/ Executes
  \/ SetRunner \/ CooldownEnds \/ Shutdown \/ Exit \/ Start \/ DbStops \/ DbAnswers

\* The sweep has a ticker, runners have deadlines, cooldowns pass.  Nobody need
\* start the program again, give it a runner or repair the database.
SynthFairness ==
  WF_synthVars(Ensures) /\ WF_synthVars(Executes) /\ WF_synthVars(CooldownEnds)

SynthSpec == SynthInit /\ [][SynthNext]_synthVars /\ SynthFairness

----------------------------------------------------------------------------
(* Properties. *)

\* A round closed by its worker, however it ended, has a row with what each of its
\* calls used.  One that was left open, by a lost row or a crash, is closed only by
\* the next opening of the store, and as interrupted, which cost reads take for
\* incomplete: it never passes for a success or failure whose costs are all there.
RoundsComplete == short \subseteq {[by |-> "opening", outcome |-> "interrupted"]}

\* AccountingUnavailable: what cost reads answer 503 on.
CostsUnavailable == ~opened \/ unavailable \/ marker

\* Spending that no finished row tells of keeps the costs of this process from
\* being shown as known, whichever write was lost.
LostIsSaid == serving /\ unrecorded => CostsUnavailable

\* Every session has its newest summary in the end while the program runs and has
\* a runner: no failure, stale list, lost claim or silent database is in the way.
CatchesUp ==
  <>[](serving /\ ~stopped /\ runner) => <>[](\A s \in Sessions : cached[s] = revision[s])

=============================================================================
