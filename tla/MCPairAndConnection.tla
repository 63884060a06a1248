------------------------ MODULE MCPairAndConnection -------------------------
(* Two sessions in the upload queue, and the connection to the Hub, one after  *)
(* the other: they share no state, instance says which of them moves and the   *)
(* other stays in its initial state.                                           *)
EXTENDS UploadQueue, HubConnection, TLC
VARIABLE instance

\* Sessions and Hubs are interchangeable: no action or property names one.
Symmetry == Permutations(Sessions) \cup Permutations(Hubs)

QueueMoves == instance = "queue" /\ Next /\ UNCHANGED connectionVars

\* One pairing and one wait at a time, two clients and a revocation; or, where
\* nobody pairs or waits, more clients and a failure, so that a switch is taken
\* back.
ConnectionInstances == {"pairings", "switches"}

ConnectionMoves ==
  /\ instance \in ConnectionInstances
  /\ ConnectionNext
  /\ Cardinality(jobs') <= 1 /\ Cardinality(waits') <= 1
  /\ IF instance = "pairings"
     THEN made' <= 2 /\ mishaps' = Cardinality(revoked')
     ELSE jobs' = {} /\ revoked' = {} /\ waits' = {}
  /\ UNCHANGED vars

MCInit ==
  /\ Init /\ ConnectionInit
  /\ instance \in ConnectionInstances \cup {"queue"}
  /\ instance = "queue" => queue = NoBinding /\ credential = [h \in Hubs |-> 0]

MCSpec ==
  /\ MCInit
  /\ [][(QueueMoves \/ ConnectionMoves) /\ UNCHANGED instance]_<<vars, connectionVars, instance>>
=============================================================================
