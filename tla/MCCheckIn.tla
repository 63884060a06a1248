----------------------------- MODULE MCCheckIn ------------------------------
(* The command journal and the loop whose passes check in share no state:    *)
(* instance says which of them moves, fairly, and how it is bounded; the     *)
(* other stays in its initial state.                                         *)
EXTENDS CommandJournal, SyncLoop
VARIABLE instance

\* The loop with policies, where the user retries at any time, and with
\* commands, where he retries a blocked loop.
LoopInstances == {"policies", "commands"}

Journal == instance = "journal"

JournalMoves == Journal /\ Next /\ UNCHANGED loopVars

LoopMoves ==
  /\ instance \in LoopInstances
  /\ LoopNext
  /\ instance = "policies" => command' = "none"
  /\ instance # "policies" => hubPolicy' = 1 /\ (retryWake' => loop'.at = "blocked")
  /\ UNCHANGED vars

all == <<vars, loopVars, instance>>

MCInit ==
  /\ Init /\ LoopInit
  /\ instance \in LoopInstances \cup {"journal"}
  /\ hubPolicy = 1
  /\ applied = 0 => ~refused
  /\ instance \in {"journal", "policies"} => command = "none"
  /\ Journal => applied = 0 /\ ~unreachable

MCNext == (JournalMoves \/ LoopMoves) /\ UNCHANGED instance

MCSpec ==
  /\ MCInit
  /\ [][MCNext]_all
  /\ WF_vars(Journal /\ FairSteps) /\ WF_loopVars(~Journal /\ GetsOn)
  /\ SF_vars(Journal /\ ChecksInWithAll)
  /\ SF_vars(Journal /\ PassEnds) /\ SF_vars(Journal /\ Land) /\ SF_vars(Journal /\ Unblock)
  /\ WF_loopVars(~Journal /\ TakeCommands)
  /\ WF_loopVars(~Journal /\ LoopSteps) /\ WF_loopVars(~Journal /\ WaitSteps)

\* The types of the journal's variables and of the loop's.
TypesOK == TypeOK /\ LoopTypeOK
=============================================================================
