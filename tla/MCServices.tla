----------------------------- MODULE MCServices -----------------------------
(* Four services that share no state, one after the other:                     *)
(* instance says which of them moves and how it is bounded, the others stay    *)
(* in their initial states, where none of their fair actions is enabled.       *)
EXTENDS RemoteSources, Synthesis, SyncLog, HubLogin
CONSTANTS i1, i2, x, y, s1, s2
VARIABLE instance

Host(i, a, o) == [id |-> i, alias |-> a, on |-> o]
MCPageHosts == {Host(i1, x, TRUE), Host(i1, x, FALSE)}
MCHubHosts == {Host(i1, y, TRUE), Host(i2, y, TRUE)}

\* Hub asks for the page's ID under another alias, with a mishap or with two
\* tasks; for another ID; or the page may also turn its host off.  No mishap
\* precedes an installation of the helper.
RemoteInstances == {"same ID", "two tasks", "other ID", "turned off"}
\* A session with changes and rounds of two calls; two sessions with one slot; a
\* session without changes that keeps its runner, with two troubles, so that a row is
\* lost and the program starts again.
SynthInstances == {"one session", "two sessions", "two troubles"}

PageOf == IF instance = "turned off" THEN MCPageHosts ELSE {Host(i1, x, TRUE)}
HubOf == CASE instance \in {"same ID", "two tasks"} -> {Host(i1, y, TRUE)}
           [] instance = "other ID" -> {Host(i2, y, TRUE)}
           [] OTHER -> {}

RemoteMoves ==
  /\ instance \in RemoteInstances
  /\ RemoteLocal \/ SavePage(PageOf) \/ HubAsks(HubOf)
  /\ instance \in {"two tasks", "turned off"} => mishaps' = 0
  /\ instance # "two tasks" => Cardinality(tasks') <= 1
  /\ setup'.phase = "installing" => mishaps' = 0 /\ instance # "other ID"
  /\ UNCHANGED <<synthVars, logVars, loginVars>>

SynthMoves ==
  /\ instance \in SynthInstances
  /\ SynthNext
  /\ instance = "one session" => revision'[s2] = 1
  /\ instance # "one session" =>
       /\ revision' = revision
       /\ \A s \in Sessions : workers'[s].phase = "start" => workers'[s].made = 0
  /\ IF instance = "two troubles" THEN runner' = serving' ELSE troubles' <= 1
  /\ UNCHANGED <<remoteVars, logVars, loginVars>>

LogMoves ==
  instance = "log" /\ SyncLogNext /\ UNCHANGED <<remoteVars, synthVars, loginVars>>

LoginMoves ==
  instance = "login" /\ LoginNext /\ UNCHANGED <<remoteVars, synthVars, logVars>>

MCInit ==
  /\ RemoteInit /\ SynthInit /\ SyncLogInit /\ LoginInit
  /\ instance \in RemoteInstances \cup SynthInstances \cup {"log", "login"}
  /\ cached = [s \in Sessions |->
                 IF s = s2 /\ instance \in {"one session", "two troubles"} THEN 1 ELSE 0]

MCNext == (RemoteMoves \/ SynthMoves \/ LogMoves \/ LoginMoves) /\ UNCHANGED instance

MCSpec ==
  /\ MCInit
  /\ [][MCNext]_<<remoteVars, synthVars, logVars, loginVars, instance>>
  /\ RemoteFairness /\ SynthFairness /\ SyncLogFairness

\* The types of the four services' variables.
TypesOK == RemoteTypeOK /\ SynthTypeOK /\ SyncLogTypeOK /\ LoginTypeOK
=============================================================================
