--------------------------- MODULE ServicesProofs ---------------------------
(***************************************************************************)
(* Proofs about SyncLog, for every set of sessions and codes, every batch  *)
(* and every number of lines and losses: no logged failure is lost.  Then  *)
(* about the run that checks four services at once: what it explores are   *)
(* behaviours of each of them, so each service's theorems hold in it.      *)
(***************************************************************************)
EXTENDS MCServices, RemoteProofs, SynthesisProofs, HubLoginProofs, FiniteSetTheorems, TLAPS

-----------------------------------------------------------------------------
(* The sync log.                                                           *)

USE SyncLogAssumption DEF SyncLogAssumption

\* What Hub does not accept any more is known to be so.
OldLapsed == \A l \in lines : l.old => l.fact \in lapsed

\* The number that a check-in acknowledges covers nothing that it does not tell:
\* later lines have later numbers.
SendingCovers ==
  sending # NotSending =>
    /\ sending.through <= logSeq
    /\ \A l \in lines : l.seq <= sending.through =>
         l.fact \in lapsed \cup (IF sending.phase = "out" THEN sending.facts ELSE heard)

LogInv == SyncLogTypeOK /\ IsFiniteSet(lines) /\ OldLapsed /\ SendingCovers /\ LoggedIsKept

\* A batch leaves out no line before its last one.
LEMMA TakenIsPrefix ==
  ASSUME LogInv, NEW last \in Taken, NEW l \in lines, l.seq <= last.seq
  PROVE  l \in Taken
<1> DEFINE ahead(k) == {m \in Before(k) : ~m.old}
<1>1. last \in lines /\ Cardinality(ahead(last)) < Batch
  BY DEF Taken
<1>2. \A k \in lines : k.seq \in Nat
  BY DEF LogInv, SyncLogTypeOK
<1>3. ahead(l) \subseteq ahead(last)
  BY <1>1, <1>2 DEF Before
<1>4. ahead(last) \subseteq lines
  BY DEF Before
<1>5. IsFiniteSet(ahead(last))
  BY <1>4, FS_Subset DEF LogInv
<1> HIDE DEF ahead
<1>6. /\ Cardinality(ahead(l)) <= Cardinality(ahead(last))
      /\ Cardinality(ahead(l)) \in Nat /\ Cardinality(ahead(last)) \in Nat
  BY <1>3, <1>5, FS_Subset, FS_CardinalityType
<1>7. Cardinality(ahead(l)) < Batch
  BY <1>1, <1>6
<1> QED
  BY <1>7 DEF Taken, ahead

\* An appended line keeps the others and what the check-in covers.
AppendOK(fact) ==
  /\ lines' \subseteq [fact: Facts, seq: 1..logSeq', old: BOOLEAN]
  /\ \A l, k \in lines' : l.seq = k.seq => l = k
  /\ logSeq' \in 0..MaxLines /\ IsFiniteSet(lines') /\ OldLapsed' /\ SendingCovers'
  /\ lines \subseteq lines' /\ \E l \in lines' : l.fact = fact

LEMMA AppendKeeps ==
  ASSUME LogInv, NEW fact \in Facts, AppendLog(fact), UNCHANGED <<sending, heard, lapsed>>
  PROVE  AppendOK(fact)
<1> DEFINE new == [fact |-> fact, seq |-> logSeq + 1, old |-> FALSE]
<1>1. /\ logSeq \in Nat /\ logSeq' = logSeq + 1 /\ logSeq' \in 0..MaxLines
      /\ lines' = lines \cup {new}
  BY DEF AppendLog, LogInv, SyncLogTypeOK
<1>2. /\ new.fact = fact /\ new.seq = logSeq + 1 /\ ~new.old
      /\ new \in [fact: Facts, seq: 1..logSeq', old: BOOLEAN]
  BY <1>1
<1> HIDE DEF new
<1>3. \A l \in lines : /\ l \in [fact: Facts, seq: 1..logSeq', old: BOOLEAN]
                       /\ l.seq \in Nat /\ l.seq <= logSeq
  BY <1>1 DEF LogInv, SyncLogTypeOK
<1>4. IsFiniteSet(lines')
  BY <1>1, FS_AddElement DEF LogInv
<1>5. \A l, k \in lines' : l.seq = k.seq => l = k
  BY <1>1, <1>2, <1>3 DEF LogInv, SyncLogTypeOK
<1>6. OldLapsed'
  BY <1>1, <1>2 DEF LogInv, OldLapsed
<1>7. SendingCovers'
  <2> SUFFICES ASSUME sending # NotSending
               PROVE  SendingCovers'
    BY DEF SendingCovers
  <2>1. sending.through \in Nat /\ sending.through <= logSeq
    BY DEF LogInv, SyncLogTypeOK, SendingCovers
  <2>2. ~(new.seq <= sending.through) /\ sending.through <= logSeq'
    BY <2>1, <1>1, <1>2
  <2> QED
    BY <2>2, <1>1 DEF LogInv, SendingCovers
<1>8. lines \subseteq lines' /\ \E l \in lines' : l.fact = fact
  BY <1>1, <1>2
<1>9. lines' \subseteq [fact: Facts, seq: 1..logSeq', old: BOOLEAN]
  BY <1>1, <1>2, <1>3
<1> QED
  BY <1>1, <1>4, <1>5, <1>6, <1>7, <1>8, <1>9 DEF AppendOK

LEMMA LoggedKept ==
  ASSUME LogInv, NEW s \in LogSessions, NEW fact, AppendOK(fact),
         logged' = [logged EXCEPT ![s] = fact], UNCHANGED <<heard, lapsed>>
  PROVE  LoggedIsKept'
<1> SUFFICES ASSUME NEW t \in LogSessions, logged'[t] # NoFact
             PROVE  (\E l \in lines' : l.fact = logged'[t]) \/ logged'[t] \in heard \cup lapsed
  BY DEF LoggedIsKept, Pending
<1>1. logged \in [LogSessions -> Facts \cup {NoFact}]
  BY DEF LogInv, SyncLogTypeOK
<1>2. CASE t = s
  BY <1>1, <1>2 DEF AppendOK
<1>3. CASE t # s
  <2>1. logged'[t] = logged[t]
    BY <1>1, <1>3
  <2> QED
    BY <2>1 DEF LogInv, LoggedIsKept, Pending, AppendOK
<1> QED
  BY <1>2, <1>3

LEMMA FailsKeepsLog ==
  ASSUME LogInv, NEW s \in LogSessions, NEW code \in Codes, Fails(s, code)
  PROVE  LogInv'
<1> DEFINE fact == FactOf(s, code)
<1>1. fact \in Facts
  BY DEF FactOf, Facts
<1>2. losses' \in 0..MaxLosses
  BY DEF Fails, Loss, LogInv, SyncLogTypeOK
<1> HIDE DEF fact
<1>3. CASE UNCHANGED <<logged, lines, logSeq>>
  BY <1>2, <1>3 DEF Fails, LogInv, SyncLogTypeOK, OldLapsed, SendingCovers, LoggedIsKept, Pending
<1>4. CASE logged' = [logged EXCEPT ![s] = fact] /\ UNCHANGED <<lines, logSeq>> /\ Pending(fact)
  <2>1. logged' \in [LogSessions -> Facts \cup {NoFact}]
    BY <1>1, <1>4 DEF LogInv, SyncLogTypeOK
  <2>2. SyncLogTypeOK'
    BY <1>2, <1>4, <2>1 DEF Fails, LogInv, SyncLogTypeOK
  <2>3. LoggedIsKept'
    BY <1>4 DEF Fails, LogInv, SyncLogTypeOK, LoggedIsKept, Pending
  <2> QED
    BY <1>4, <2>2, <2>3 DEF Fails, LogInv, OldLapsed, SendingCovers
<1>5. CASE logged' = [logged EXCEPT ![s] = fact] /\ AppendLog(fact)
  <2>1. logged' \in [LogSessions -> Facts \cup {NoFact}]
    BY <1>1, <1>5 DEF LogInv, SyncLogTypeOK
  <2>2. UNCHANGED <<named, sending, quiet, heard, lapsed>>
    BY DEF Fails
  <2>3. AppendOK(fact)
    BY <1>1, <1>5, <2>2, AppendKeeps
  <2>4. SyncLogTypeOK'
    BY <1>2, <2>1, <2>2, <2>3 DEF LogInv, SyncLogTypeOK, AppendOK
  <2>5. LoggedIsKept'
    BY <1>5, <2>2, <2>3, LoggedKept DEF LogInv, SyncLogTypeOK
  <2> QED
    BY <2>3, <2>4, <2>5 DEF LogInv, AppendOK
<1> QED
  BY <1>3, <1>4, <1>5 DEF Fails, fact

LEMMA ListedKeepsLog ==
  ASSUME LogInv, NEW s \in LogSessions, Listed(s)
  PROVE  LogInv'
<1>1. named' \subseteq LogSessions /\ UNCHANGED <<sending, quiet, heard, lapsed, losses>>
  BY DEF Listed, LogInv, SyncLogTypeOK
<1>2. CASE UNCHANGED <<logged, lines, logSeq>>
  BY <1>1, <1>2 DEF LogInv, SyncLogTypeOK, OldLapsed, SendingCovers, LoggedIsKept, Pending
<1>3. CASE logged[s] # NoFact
  <2> DEFINE fact == [logged[s] EXCEPT !.who = s]
  <2>1. logged' = [logged EXCEPT ![s] = fact] /\ AppendLog(fact)
    BY <1>3 DEF Listed
  <2>2. fact \in Facts
    <3>1. logged[s] \in Facts
      BY <1>3 DEF LogInv, SyncLogTypeOK
    <3> QED
      BY <3>1 DEF Facts
  <2> HIDE DEF fact
  <2>3. logged' \in [LogSessions -> Facts \cup {NoFact}]
    BY <2>1, <2>2 DEF LogInv, SyncLogTypeOK
  <2>4. AppendOK(fact)
    BY <1>1, <2>1, <2>2, AppendKeeps
  <2>5. SyncLogTypeOK'
    BY <1>1, <2>3, <2>4 DEF LogInv, SyncLogTypeOK, AppendOK
  <2>6. LoggedIsKept'
    BY <1>1, <2>1, <2>4, LoggedKept DEF LogInv, SyncLogTypeOK
  <2> QED
    BY <2>4, <2>5, <2>6 DEF LogInv, AppendOK
<1> QED
  BY <1>2, <1>3 DEF Listed

LEMMA ClearsKeepsLog ==
  ASSUME LogInv, NEW s \in LogSessions, Clears(s)
  PROVE  LogInv'
<1>1. logged' \in [LogSessions -> Facts \cup {NoFact}]
  BY DEF Clears, LogInv, SyncLogTypeOK
<1>2. LoggedIsKept'
  BY DEF Clears, LogInv, SyncLogTypeOK, LoggedIsKept, Pending
<1> QED
  BY <1>1, <1>2 DEF Clears, LogInv, SyncLogTypeOK, OldLapsed, SendingCovers

LEMMA SendLinesKeepsLog ==
  ASSUME LogInv, SendLines
  PROVE  LogInv'
<1>1. PICK last \in Taken :
        sending' = [phase |-> "out", facts |-> {l.fact : l \in {k \in Taken : ~k.old}},
                    through |-> last.seq]
  BY DEF SendLines
<1>2. UNCHANGED <<named, logged, lines, logSeq, quiet, heard, lapsed, losses>>
  BY DEF SendLines
<1>3. \A l \in Taken : l \in lines /\ l.fact \in Facts /\ l.seq \in 0..MaxLines /\ l.seq <= logSeq
  BY DEF Taken, LogInv, SyncLogTypeOK
<1>4. /\ sending'.phase = "out" /\ sending'.through = last.seq
      /\ \A l \in Taken : ~l.old => l.fact \in sending'.facts
  BY <1>1
<1>5. sending' \in [phase: {"none", "out", "accepted"}, facts: SUBSET Facts,
                   through: 0..MaxLines]
  BY <1>1, <1>3
<1>6. SyncLogTypeOK'
  BY <1>2, <1>5 DEF LogInv, SyncLogTypeOK
<1>7. SendingCovers'
  <2>1. \A l \in lines : l.seq <= last.seq => l \in Taken
    BY TakenIsPrefix
  <2>2. \A l \in lines : l.seq <= last.seq => l.fact \in lapsed \cup sending'.facts
    BY <1>4, <2>1 DEF LogInv, OldLapsed
  <2> QED
    BY <1>2, <1>3, <1>4, <2>2 DEF SendingCovers
<1>8. OldLapsed' /\ LoggedIsKept'
  BY <1>2 DEF LogInv, OldLapsed, LoggedIsKept, Pending
<1> QED
  BY <1>2, <1>6, <1>7, <1>8 DEF LogInv

LEMMA HubAcceptsKeepsLog ==
  ASSUME LogInv, HubAccepts
  PROVE  LogInv'
<1>1. /\ sending \in [phase: {"none", "out", "accepted"}, facts: SUBSET Facts, through: 0..MaxLines]
      /\ sending.phase = "out" /\ sending' = [sending EXCEPT !.phase = "accepted"]
  BY DEF HubAccepts, LogInv, SyncLogTypeOK
<1>2. /\ sending' \in [phase: {"none", "out", "accepted"}, facts: SUBSET Facts, through: 0..MaxLines]
      /\ sending'.phase = "accepted" /\ sending'.through = sending.through
      /\ sending # NotSending
  BY <1>1 DEF NotSending
<1>3. heard' = heard \cup sending.facts /\ heard' \subseteq Facts
  BY <1>1 DEF HubAccepts, LogInv, SyncLogTypeOK
<1>4. SyncLogTypeOK'
  BY <1>2, <1>3 DEF HubAccepts, LogInv, SyncLogTypeOK
<1>5. SendingCovers'
  BY <1>1, <1>2, <1>3 DEF HubAccepts, LogInv, SendingCovers
<1>6. OldLapsed' /\ LoggedIsKept' /\ IsFiniteSet(lines)'
  BY <1>3 DEF HubAccepts, LogInv, OldLapsed, LoggedIsKept, Pending
<1> QED
  BY <1>4, <1>5, <1>6 DEF LogInv

\* No check-in is out any more, and nothing else is different.
LEMMA NothingSentKeepsLog ==
  ASSUME LogInv, sending' = NotSending, quiet' \in BOOLEAN, losses' \in 0..MaxLosses,
         UNCHANGED <<named, logged, lines, logSeq, heard, lapsed>>
  PROVE  LogInv'
<1>1. sending' \in [phase: {"none", "out", "accepted"}, facts: SUBSET Facts, through: 0..MaxLines]
  BY DEF NotSending
<1> QED
  BY <1>1 DEF LogInv, SyncLogTypeOK, OldLapsed, SendingCovers, LoggedIsKept, Pending

LEMMA AcknowledgeKeepsLog ==
  ASSUME LogInv, AcknowledgeLog
  PROVE  LogInv'
<1>1. sending.phase = "accepted" /\ sending # NotSending /\ sending' = NotSending
  BY DEF AcknowledgeLog, NotSending
<1>2. losses' \in 0..MaxLosses
  BY DEF AcknowledgeLog, Loss, LogInv, SyncLogTypeOK
<1>3. UNCHANGED <<named, logged, logSeq, quiet, heard, lapsed>>
  BY DEF AcknowledgeLog
<1>4. CASE UNCHANGED lines
  BY <1>1, <1>2, <1>3, <1>4, NothingSentKeepsLog DEF LogInv, SyncLogTypeOK
<1>5. CASE lines' = {l \in lines : l.seq > sending.through}
  <2>1. lines' \subseteq lines /\ IsFiniteSet(lines')
    BY <1>5, FS_Subset DEF LogInv
  <2>2. sending' \in [phase: {"none", "out", "accepted"}, facts: SUBSET Facts, through: 0..MaxLines]
    BY <1>1 DEF NotSending
  <2>3. SyncLogTypeOK'
    BY <1>2, <1>3, <2>1, <2>2 DEF LogInv, SyncLogTypeOK
  <2>4. \A l \in lines : l \notin lines' => l.fact \in heard \cup lapsed
    <3>1. sending.through \in Nat /\ \A l \in lines : l.seq \in Nat
      BY DEF LogInv, SyncLogTypeOK
    <3> QED
      BY <1>1, <1>5, <3>1 DEF LogInv, SendingCovers
  <2>5. LoggedIsKept'
    BY <1>3, <2>4 DEF LogInv, LoggedIsKept, Pending
  <2> QED
    BY <1>1, <1>3, <2>1, <2>3, <2>5 DEF LogInv, OldLapsed, SendingCovers
<1> QED
  BY <1>4, <1>5 DEF AcknowledgeLog

LEMMA AgesKeepsLog ==
  ASSUME LogInv, Ages
  PROVE  LogInv'
<1>1. PICK l \in lines : /\ lines' = (lines \ {l}) \cup {[l EXCEPT !.old = TRUE]}
                         /\ lapsed' = lapsed \cup {l.fact}
  BY DEF Ages
<1> DEFINE aged == [l EXCEPT !.old = TRUE]
<1>2. l \in [fact: Facts, seq: 1..logSeq, old: BOOLEAN]
  BY DEF LogInv, SyncLogTypeOK
<1>3. aged \in [fact: Facts, seq: 1..logSeq, old: BOOLEAN] /\ aged.fact = l.fact /\ aged.seq = l.seq
  BY <1>2
<1>4. lines' = (lines \ {l}) \cup {aged}
  BY <1>1
<1> HIDE DEF aged
<1>5. losses' \in 0..MaxLosses /\ UNCHANGED <<named, logged, logSeq, sending, quiet, heard>>
  BY DEF Ages, Loss, LogInv, SyncLogTypeOK
<1>6. IsFiniteSet(lines')
  BY <1>4, FS_AddElement, FS_RemoveElement DEF LogInv
<1>7. \A k, m \in lines' : k.seq = m.seq => k = m
  BY <1>3, <1>4 DEF LogInv, SyncLogTypeOK
<1>8. SyncLogTypeOK'
  BY <1>1, <1>2, <1>3, <1>4, <1>5, <1>7 DEF LogInv, SyncLogTypeOK
<1>9. OldLapsed'
  BY <1>1, <1>3, <1>4 DEF LogInv, OldLapsed
<1>10. SendingCovers'
  BY <1>1, <1>3, <1>4, <1>5 DEF LogInv, SendingCovers
<1>11. LoggedIsKept'
  BY <1>1, <1>3, <1>4, <1>5 DEF LogInv, LoggedIsKept, Pending
<1> QED
  BY <1>6, <1>8, <1>9, <1>10, <1>11 DEF LogInv

LEMMA RebindKeepsLog ==
  ASSUME LogInv, RebindLog
  PROVE  LogInv'
<1>1. lines' = {} /\ IsFiniteSet(lines')
  BY FS_EmptySet DEF RebindLog
<1>2. losses' \in 0..MaxLosses /\ logged' \in [LogSessions -> Facts \cup {NoFact}]
  BY DEF RebindLog, Loss, LogInv, SyncLogTypeOK
<1>3. SyncLogTypeOK'
  BY <1>1, <1>2 DEF RebindLog, LogInv, SyncLogTypeOK
<1>4. OldLapsed' /\ SendingCovers' /\ LoggedIsKept'
  BY <1>1 DEF RebindLog, OldLapsed, SendingCovers, LoggedIsKept
<1> QED
  BY <1>1, <1>3, <1>4 DEF LogInv

LEMMA LogInitInv == SyncLogInit => LogInv
<1> SUFFICES ASSUME SyncLogInit PROVE LogInv
  OBVIOUS
<1>1. lines = {} /\ IsFiniteSet(lines) /\ sending = NotSending
  BY FS_EmptySet DEF SyncLogInit
<1>2. logged \in [LogSessions -> Facts \cup {NoFact}] /\ \A s \in LogSessions : logged[s] = NoFact
  BY DEF SyncLogInit
<1>3. sending \in [phase: {"none", "out", "accepted"}, facts: SUBSET Facts, through: 0..MaxLines]
  BY <1>1 DEF NotSending
<1>4. SyncLogTypeOK
  <2>1. logSeq \in 0..MaxLines /\ losses \in 0..MaxLosses
    BY DEF SyncLogInit
  <2> QED
    BY <1>1, <1>2, <1>3, <2>1 DEF SyncLogInit, SyncLogTypeOK
<1> QED
  BY <1>1, <1>2, <1>4 DEF LogInv, OldLapsed, SendingCovers, LoggedIsKept

LEMMA LogNextInv ==
  ASSUME LogInv, [SyncLogNext]_logVars
  PROVE  LogInv'
<1>1. ASSUME NEW s \in LogSessions, Listed(s) \/ Clears(s) \/ \E code \in Codes : Fails(s, code)
      PROVE  LogInv'
  BY <1>1, ListedKeepsLog, ClearsKeepsLog, FailsKeepsLog
<1>2. ASSUME HubRefuses \/ SendingLost
      PROVE  LogInv'
  <2>1. losses' \in 0..MaxLosses
    <3>1. Loss /\ losses \in 0..MaxLosses
      BY <1>2 DEF HubRefuses, SendingLost, LogInv, SyncLogTypeOK
    <3> QED
      BY <3>1 DEF Loss
  <2>2. quiet' \in BOOLEAN
    BY <1>2 DEF HubRefuses, SendingLost, LogInv, SyncLogTypeOK
  <2>3. sending' = NotSending /\ UNCHANGED <<named, logged, lines, logSeq, heard, lapsed>>
    BY <1>2 DEF HubRefuses, SendingLost
  <2> QED
    BY <2>1, <2>2, <2>3, NothingSentKeepsLog
<1>4. ASSUME QuietEnds
      PROVE  LogInv'
  BY <1>4 DEF QuietEnds, LogInv, SyncLogTypeOK, OldLapsed, SendingCovers, LoggedIsKept, Pending
<1>3. ASSUME UNCHANGED logVars
      PROVE  LogInv'
  BY <1>3 DEF logVars, LogInv, SyncLogTypeOK, OldLapsed, SendingCovers, LoggedIsKept, Pending
<1> QED
  BY <1>1, <1>2, <1>3, <1>4, SendLinesKeepsLog, HubAcceptsKeepsLog, AcknowledgeKeepsLog, AgesKeepsLog,
     RebindKeepsLog DEF SyncLogNext, Reports

LEMMA LogInvariant == SyncLogSpec => []LogInv
<1>1. SyncLogInit => LogInv
  BY LogInitInv
<1>2. LogInv /\ [SyncLogNext]_logVars => LogInv'
  BY LogNextInv
<1> QED
  BY <1>1, <1>2, PTL DEF SyncLogSpec

\* Every variable of the log has its type, and no two lines share a number.
THEOREM LogTyped == SyncLogSpec => []SyncLogTypeOK
<1>1. LogInv => SyncLogTypeOK
  BY DEF LogInv
<1> QED
  BY <1>1, LogInvariant, PTL

\* A failure that was logged was told to Hub, lapsed, or still has its line.
THEOREM LogKept == SyncLogSpec => []LoggedIsKept
<1>1. LogInv => LoggedIsKept
  BY DEF LogInv
<1> QED
  BY <1>1, LogInvariant, PTL

-----------------------------------------------------------------------------
(* The four services in one run.                                           *)

\* The hosts the run names are among those the page and Hub may ask for.
HostsGiven == MCPageHosts \subseteq PageHosts /\ MCHubHosts \subseteq HubHosts

\* A move of the run is a move of one service, which the others do not see.
LEMMA MovesAreServices ==
  ASSUME HostsGiven, MCNext
  PROVE  /\ [RemoteNext]_remoteVars /\ [SynthNext]_synthVars
         /\ [SyncLogNext]_logVars /\ [LoginNext]_loginVars
<1>1. PageOf \subseteq PageHosts /\ HubOf \subseteq HubHosts
  BY DEF HostsGiven, PageOf, HubOf, MCPageHosts, MCHubHosts
<1>2. CASE RemoteMoves
  <2>1. SavePage(PageOf) => SavePage(PageHosts)
    BY <1>1 DEF SavePage
  <2>2. HubAsks(HubOf) => HubAsks(HubHosts)
    BY <1>1 DEF HubAsks
  <2> QED
    BY <1>2, <2>1, <2>2 DEF RemoteMoves, RemoteNext
<1>3. CASE SynthMoves
  BY <1>3 DEF SynthMoves
<1>4. CASE LogMoves
  BY <1>4 DEF LogMoves
<1>5. CASE LoginMoves
  BY <1>5 DEF LoginMoves
<1> QED
  BY <1>2, <1>3, <1>4, <1>5 DEF MCNext

\* Every behaviour that the run explores is one of each service, its fairness
\* included: the bounds and the choice of who moves only leave behaviours out.
THEOREM RunsEveryService ==
  ASSUME HostsGiven
  PROVE  MCSpec => RemoteFairSpec /\ SynthSpec /\ SyncLogSpec /\ LoginSpec
<1>1. MCInit => RemoteInit /\ SynthInit /\ SyncLogInit /\ LoginInit
  BY DEF MCInit
<1>2. [MCNext]_<<remoteVars, synthVars, logVars, loginVars, instance>> =>
        /\ [RemoteNext]_remoteVars /\ [SynthNext]_synthVars
        /\ [SyncLogNext]_logVars /\ [LoginNext]_loginVars
  BY MovesAreServices
<1> QED
  BY <1>1, <1>2, PTL DEF MCSpec, RemoteFairSpec, RemoteSpec, SynthSpec, SyncLogSpec, LoginSpec

\* No step of the run takes a variable of any service out of its type.
THEOREM ServicesTyped ==
  ASSUME HostsGiven
  PROVE  MCSpec => []TypesOK
<1>1. RemoteTypeOK /\ SynthTypeOK /\ SyncLogTypeOK /\ LoginTypeOK => TypesOK
  BY DEF TypesOK
<1> QED
  BY <1>1, RunsEveryService, RemoteTypes, SynthTyped, LogTyped, LoginTyped, PTL DEF RemoteFairSpec
=============================================================================
