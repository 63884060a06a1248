------------------------------ MODULE SyncLoop ------------------------------
(***************************************************************************)
(* The loop that runs sync passes (cmd/coslash/sync_loop.go), beside the   *)
(* goroutine that waits at the Hub for a newer policy or for commands.  A  *)
(* pass checks in first: this is how policies are applied and commands     *)
(* taken.  A pass the Hub refuses by policy leaves the loop blocked; only  *)
(* the wait wakes it then.  The wait rests while the last contact with the *)
(* Hub was a failure.  main gives the loop an observedSyncWorker, which    *)
(* has neither ImportActive nor BypassRetryBackoff: the goroutine that     *)
(* would check in during an import never starts.                           *)
(***************************************************************************)
EXTENDS Integers

CONSTANTS MaxPolicy,    \* bound: policies the owner sets
          MaxTroubles   \* bound: failed contacts, passes the user cancels

ASSUME LoopAssumption == MaxPolicy \in Nat \ {0} /\ MaxTroubles \in Nat

VARIABLES
  loop,         \* what the loop does, see LoopState
  applied,      \* Queue.state.ConfigVersion
  refused,      \* Queue.state.PolicyBlocked
  unreachable,  \* Queue.state.LastHubFailure is set
  wake,         \* syncLoopControl.wake holds a signal
  policyWake,   \* policyWake holds one
  retryWake,    \* the controller's retryWake holds one
  blockedAt,    \* blockedPolicyVersion, or None
  ask,          \* what the waiting goroutine does, see AskState
  notified,     \* notifiedConfigVersion
  pendingCommand,  \* commandsPending
  handled,      \* a check-in handled commands since commandsGeneration
  hubPolicy,    \* Hub: version of the owner's policy
  command,      \* the command that is under way between Hub and Local
  troubles      \* so far

None == -1

queueVars == <<applied, refused, unreachable>>
wakes == <<wake, policyWake, retryWake>>
askVars == <<ask, notified, pendingCommand>>
loopVars == <<loop, queueVars, wakes, blockedAt, askVars, handled, hubPolicy,
              command, troubles>>

\* A pass checks in ("check"), takes the commands of the answer ("take"),
\* works and is over with a result; advanced: it applied a newer policy.
InPass == {"check", "take", "work", "over"}
LoopState ==
  [at: InPass \cup {"idle", "blocked"}, advanced: BOOLEAN, taking: BOOLEAN,
   result: {"", "ok", "failed", "blocked"}]
\* since: the version asked with; newer: a check-in handled commands between
\* commandsGeneration and the question; policy, commands: the Hub's answer.
AskState ==
  [at: {"rest", "asked", "replied", "retry"}, since: 0..MaxPolicy, newer: BOOLEAN,
   behind: BOOLEAN, policy: 0..MaxPolicy, commands: BOOLEAN]

LoopTypeOK ==
  /\ loop \in LoopState
  /\ applied \in 0..MaxPolicy /\ hubPolicy \in 1..MaxPolicy /\ applied <= hubPolicy
  /\ blockedAt \in None..MaxPolicy /\ notified \in 0..MaxPolicy
  /\ {refused, unreachable, wake, policyWake, retryWake, pendingCommand, handled}
     \subseteq BOOLEAN
  /\ ask \in AskState
  /\ command \in {"none", "queued", "executed"}
  /\ troubles \in 0..MaxTroubles
  /\ blockedAt = IF loop.at = "blocked" THEN applied ELSE None

NewPass == [at |-> "check", advanced |-> FALSE, taking |-> FALSE, result |-> ""]
Resting == [at |-> "rest", since |-> 0, newer |-> FALSE, behind |-> FALSE,
            policy |-> 0, commands |-> FALSE]

\* Local starts, for the first time or again, with what the queue file holds.
LoopInit ==
  /\ loop = NewPass
  /\ hubPolicy \in 1..MaxPolicy /\ applied \in 0..hubPolicy
  /\ refused \in BOOLEAN /\ unreachable \in BOOLEAN
  /\ wake = FALSE /\ policyWake = FALSE /\ retryWake = FALSE
  /\ blockedAt = None
  /\ ask = Resting /\ notified = 0 /\ pendingCommand = FALSE
  /\ handled = FALSE
  /\ command \in {"none", "queued", "executed"}
  /\ troubles = 0

Trouble == troubles < MaxTroubles /\ troubles' = troubles + 1

-----------------------------------------------------------------------------
(* The pass, Runner.SyncOnce.                                              *)

\* refreshConsent: the contact is recorded, results are acknowledged, and a
\* newer policy lifts the refusal.
CheckInAnswered ==
  /\ loop.at = "check"
  /\ loop' = [loop EXCEPT !.at = "take", !.taking = command = "queued",
                          !.advanced = hubPolicy > applied]
  /\ applied' = hubPolicy
  /\ refused' = (refused /\ hubPolicy = applied)
  /\ unreachable' = FALSE
  /\ command' = IF command = "executed" THEN "none" ELSE command
  /\ UNCHANGED <<wakes, blockedAt, askVars, handled, hubPolicy, troubles>>

\* checkInGeneration advances once the commands were handled.
TakeCommands ==
  /\ loop.at = "take"
  /\ command' = IF loop.taking THEN "executed" ELSE command
  /\ loop' = [loop EXCEPT !.at = "work", !.taking = FALSE]
  /\ handled' = TRUE
  /\ ask' = [ask EXCEPT !.behind = TRUE]
  /\ UNCHANGED <<queueVars, wakes, blockedAt, notified, pendingCommand, hubPolicy,
                 troubles>>

Over(result) == loop' = [loop EXCEPT !.at = "over", !.result = result, !.taking = FALSE]

\* No answer, or an answer that is an error: the contact failed.  The Hub may
\* refuse the check-in itself by policy.
CheckInFails ==
  /\ loop.at = "check" /\ Trouble
  /\ \E result \in {"failed", "blocked"} : Over(result)
  /\ unreachable' = TRUE
  /\ UNCHANGED <<applied, refused, wakes, blockedAt, askVars, handled, hubPolicy,
                 command>>

\* A policy block that is recorded already, or one the Hub answers a write
\* with: this answer, too, is recorded as a failed contact.
Refused ==
  /\ loop.at = "work"
  /\ Over("blocked")
  /\ refused' = TRUE
  /\ unreachable' = (unreachable \/ ~refused)
  /\ UNCHANGED <<applied, wakes, blockedAt, askVars, handled, hubPolicy, command,
                 troubles>>

WriteAnswered ==
  /\ loop.at = "work" /\ ~refused /\ unreachable
  /\ unreachable' = FALSE
  /\ UNCHANGED <<loop, applied, refused, wakes, blockedAt, askVars, handled,
                 hubPolicy, command, troubles>>

\* Without an error or paused; with an error of this computer; or with a
\* failed contact.  A recorded block is overtaken by a pause only.
PassEnded ==
  /\ loop.at = "work"
  /\ \/ Over("ok") /\ UNCHANGED <<unreachable, troubles>>
     \/ ~refused /\ Over("failed") /\ UNCHANGED <<unreachable, troubles>>
     \/ ~refused /\ Over("failed") /\ unreachable' = TRUE /\ Trouble
  /\ UNCHANGED <<applied, refused, wakes, blockedAt, askVars, handled, hubPolicy,
                 command>>

-----------------------------------------------------------------------------
(* The loop.                                                               *)

\* beginPass empties wake: the pass begins with a check-in.
BeginPass == loop' = NewPass /\ wake' = FALSE

\* awaitPass: a wake or a retry cancels the pass, the loop waits until it
\* returned and begins another.  Cancelling does not keep a pass from handling
\* the commands of an answer it got.
Interrupt ==
  /\ loop.at \in InPass \ {"take"}
  /\ \/ wake /\ UNCHANGED retryWake
     \/ retryWake /\ retryWake' = FALSE
  /\ BeginPass
  /\ UNCHANGED <<queueVars, policyWake, blockedAt, askVars, handled, hubPolicy,
                 command, troubles>>

\* A newer policy is acknowledged, and results are reported, at once.
Again ==
  /\ loop.at = "over"
  /\ loop.advanced \/ (loop.result = "ok" /\ command = "executed")
  /\ BeginPass
  /\ UNCHANGED <<queueVars, policyWake, retryWake, blockedAt, askVars, handled,
                 hubPolicy, command, troubles>>

\* Requests that arrived before the block was observed are ignored.
Blocks ==
  /\ loop.at = "over" /\ ~loop.advanced /\ loop.result = "blocked"
  /\ loop' = [loop EXCEPT !.at = "blocked", !.result = ""]
  /\ blockedAt' = applied
  /\ wake' = FALSE /\ policyWake' = FALSE
  /\ UNCHANGED <<queueVars, retryWake, askVars, handled, hubPolicy, command,
                 troubles>>

Unblocks ==
  /\ loop.at = "blocked"
  /\ \/ policyWake /\ UNCHANGED retryWake
     \/ retryWake /\ retryWake' = FALSE
  /\ BeginPass
  /\ blockedAt' = None /\ policyWake' = FALSE
  /\ UNCHANGED <<queueVars, askVars, handled, hubPolicy, command, troubles>>

GoesIdle ==
  /\ loop.at = "over" /\ ~loop.advanced
  /\ loop.result = "failed" \/ (loop.result = "ok" /\ command # "executed")
  /\ loop' = [loop EXCEPT !.at = "idle", !.result = ""]
  /\ UNCHANGED <<queueVars, wakes, blockedAt, askVars, handled, hubPolicy, command,
                 troubles>>

\* idleWait ends with a wake, a retry, or by its timer.
IdleEnds ==
  /\ loop.at = "idle"
  /\ BeginPass
  /\ retryWake' \in {retryWake, FALSE}
  /\ UNCHANGED <<queueVars, policyWake, blockedAt, askVars, handled, hubPolicy,
                 command, troubles>>

-----------------------------------------------------------------------------
(* The waiting goroutine.                                                  *)

Ask ==
  /\ ask.at = "rest" /\ ~unreachable
  /\ ask' = [Resting EXCEPT !.at = "asked", !.since = applied, !.newer = handled]
  /\ UNCHANGED <<loop, queueVars, wakes, blockedAt, notified, pendingCommand,
                 handled, hubPolicy, command, troubles>>

\* The Hub answers when there is something new, and after a while anyway.
Replied ==
  /\ ask.at = "asked"
  /\ ask' = [ask EXCEPT !.at = "replied", !.policy = hubPolicy,
                        !.commands = command # "none"]
  /\ unreachable' = FALSE
  /\ UNCHANGED <<loop, applied, refused, wakes, blockedAt, notified,
                 pendingCommand, handled, hubPolicy, command, troubles>>

\* Mutants of StillPending and PolicyChanged: a command is pending until the
\* Hub has none; every answer with another policy interrupts.
PendingUntilNone == pendingCommand /\ ask.commands
ChangedAlways ==
  ask.policy > ask.since \/ (blockedAt # None /\ ask.policy > blockedAt)

\* Commands the loop was woken for are not waited for twice, until a check-in
\* handled commands.
StillPending == pendingCommand /\ ask.commands /\ ~ask.newer

\* A policy interrupts once, so that the repeated answers cannot cancel the
\* check-in that applies it.
PolicyChanged ==
  /\ ask.policy > notified
  /\ ask.policy > ask.since \/ (blockedAt # None /\ ask.policy > blockedAt)

Wakes(blocked) == IF blocked THEN policyWake' = TRUE /\ UNCHANGED wake
                             ELSE wake' = TRUE /\ UNCHANGED policyWake

\* The answer is weighed under policyMu.
Hear ==
  /\ ask.at = "replied"
  /\ notified' = IF PolicyChanged THEN ask.policy ELSE notified
  /\ LET blocked == blockedAt # None
         newCommand == ask.commands /\ ~StillPending
         remembers(commands) == /\ pendingCommand' = commands
                                /\ handled' = ask.behind
     IN  \/ /\ blocked /\ ask.policy > blockedAt
            /\ Wakes(blocked)
            /\ pendingCommand' = StillPending /\ UNCHANGED handled
         \/ /\ blocked /\ ask.policy <= blockedAt /\ newCommand
            /\ Wakes(blocked) /\ remembers(TRUE)
         \/ /\ ~blocked /\ (PolicyChanged \/ newCommand)
            /\ Wakes(blocked) /\ remembers(ask.commands)
         \/ /\ ~newCommand
            /\ IF blocked THEN ask.policy <= blockedAt ELSE ~PolicyChanged
            /\ pendingCommand' = StillPending /\ UNCHANGED <<wake, policyWake, handled>>
  /\ ask' = Resting
  /\ UNCHANGED <<loop, queueVars, retryWake, blockedAt, hubPolicy, command,
                 troubles>>

WaitFails ==
  /\ ask.at = "asked" /\ Trouble
  /\ unreachable' = TRUE
  /\ \E next \in {"retry", "rest"} : ask' = [Resting EXCEPT !.at = next]
  /\ UNCHANGED <<loop, applied, refused, wakes, blockedAt, notified,
                 pendingCommand, handled, hubPolicy, command>>

\* wakeIfIdle; a pause of the settings or of the policy suppresses it.
WakeIfIdle ==
  \/ UNCHANGED wake
  \/ loop.at \notin InPass /\ wake' = TRUE

RetryPass ==
  /\ ask.at = "retry"
  /\ ask' = Resting
  /\ WakeIfIdle
  /\ UNCHANGED <<loop, queueVars, policyWake, retryWake, blockedAt, notified,
                 pendingCommand, handled, hubPolicy, command, troubles>>

-----------------------------------------------------------------------------
(* The world.                                                              *)

OwnerSetsPolicy ==
  /\ hubPolicy < MaxPolicy /\ hubPolicy' = hubPolicy + 1
  /\ UNCHANGED <<loop, queueVars, wakes, blockedAt, askVars, handled, command,
                 troubles>>

HubQueues ==
  /\ command = "none" /\ command' = "queued"
  /\ UNCHANGED <<loop, queueVars, wakes, blockedAt, askVars, handled, hubPolicy,
                 troubles>>

\* The user asks for a pass.
RetryNow ==
  /\ ~retryWake /\ retryWake' = TRUE
  /\ IF loop.at \in InPass THEN Trouble ELSE UNCHANGED troubles
  /\ UNCHANGED <<loop, queueVars, wake, policyWake, blockedAt, askVars, handled,
                 hubPolicy, command>>

PassSteps == CheckInAnswered \/ TakeCommands \/ Refused \/ PassEnded
LoopSteps == Interrupt \/ Again \/ Blocks \/ Unblocks \/ GoesIdle \/ IdleEnds
WaitSteps == Ask \/ Replied \/ Hear \/ RetryPass
LoopNext ==
  \/ PassSteps \/ CheckInFails \/ WriteAnswered \/ LoopSteps
  \/ WaitSteps \/ WaitFails
  \/ OwnerSetsPolicy \/ HubQueues \/ RetryNow

\* Every goroutine runs on, the Hub answers or fails within its deadlines, and
\* the timer of an idle loop ends.  A pass gets on unless it is cancelled.
GetsOn == PassSteps /\ ~wake /\ ~retryWake
LoopFairness ==
  /\ WF_loopVars(GetsOn) /\ WF_loopVars(TakeCommands)
  /\ WF_loopVars(LoopSteps) /\ WF_loopVars(WaitSteps)

-----------------------------------------------------------------------------
(* Properties.                                                             *)

\* The loop is blocked, and the wait that would wake it rests because of a
\* failed contact: nothing Local does ends this but the user or a restart.
Deaf == loop.at = "blocked" /\ unreachable /\ ask.at \in {"rest", "retry"}

\* The wait takes the command for one that woke the loop already; the signal
\* was dropped when the loop blocked.
Overlooked ==
  /\ loop.at = "blocked" /\ ~policyWake /\ ask.at = "rest"
  /\ command # "none" /\ pendingCommand /\ ~handled

\* The Hub answered the check-in of the pass, which has not failed.
Answered == loop.at \in {"take", "work"} \/ (loop.at = "over" /\ loop.result = "ok")

\* What the wait noticed is not lost between the goroutines: a pass that goes on
\* after its check-in has applied the newest policy Local was told of and handled
\* the commands it was woken for, or it is about to be interrupted.
NoticesServed ==
  Answered => /\ notified > applied => wake
              /\ loop.at # "take" /\ pendingCommand /\ ~handled => wake

\* A policy the owner sets is applied, although the Hub repeats its answer to
\* the wait and every new answer may cancel the check-in, and although the
\* loop may be blocked.
PolicyIsNoticed ==
  \A v \in 2..MaxPolicy : hubPolicy >= v ~> applied >= v \/ Deaf

\* A command is executed and its result reported, also by a blocked loop.
CommandsAreReported ==
  command # "none" ~> command = "none" \/ Deaf \/ Overlooked
=============================================================================
