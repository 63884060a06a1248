------------------------------ MODULE SyncLog ------------------------------
(***************************************************************************)
(* The sync log: what Local tells Hub about sessions that fail.  A failure *)
(* is stored with its line in one write; a line names the Hub session once *)
(* there is one and is otherwise of the device, whose lines with one code  *)
(* are the same.  A check-in carries the oldest lines; its answer drops    *)
(* them by sequence number while others are appended.                      *)
(***************************************************************************)
EXTENDS Naturals, FiniteSets

CONSTANTS LogSessions, Codes,
          Device,        \* of a line without a session
          NoCode,
          Batch,         \* maxLogBatch
          MaxLines,      \* lines written in a run
          MaxLosses      \* lost requests and answers, refusals, crashes, failed saves

ASSUME SyncLogAssumption ==
  /\ Device \notin LogSessions /\ NoCode \notin Codes
  /\ Batch \in Nat \ {0} /\ MaxLines \in Nat /\ MaxLosses \in Nat

VARIABLES named,         \* sessions that have their Hub session ID
          logged,        \* Entry.LoggedFailure
          lines,         \* state.Log, in the order of the numbers
          logSeq,        \* state.LogSeq
          sending,       \* the check-in that is out: its lines, what it acknowledges
          quiet,         \* logRejectedUntil lies ahead
          heard,         \* what Hub has been told in this binding
          lapsed,        \* what became older than Hub accepts before it was told
          losses         \* so far

logVars == <<named, logged, lines, logSeq, sending, quiet, heard, lapsed, losses>>

Facts == [who: LogSessions \cup {Device}, code: Codes]
NoFact == [who |-> Device, code |-> NoCode]
NotSending == [phase |-> "none", facts |-> {}, through |-> 0]

SyncLogTypeOK ==
  /\ named \subseteq LogSessions
  /\ logged \in [LogSessions -> Facts \cup {NoFact}]
  /\ lines \subseteq [fact: Facts, seq: 1..logSeq, old: BOOLEAN]
  /\ \A l, k \in lines : l.seq = k.seq => l = k
  /\ logSeq \in 0..MaxLines
  /\ sending \in [phase: {"none", "out", "accepted"}, facts: SUBSET Facts, through: 0..MaxLines]
  /\ quiet \in BOOLEAN
  /\ heard \subseteq Facts /\ lapsed \subseteq Facts
  /\ losses \in 0..MaxLosses

SyncLogInit ==
  /\ named = {}
  /\ logged = [s \in LogSessions |-> NoFact]
  /\ lines = {}
  /\ logSeq = 0
  /\ sending = NotSending
  /\ quiet = FALSE
  /\ heard = {}
  /\ lapsed = {}
  /\ losses = 0

Loss == losses < MaxLosses /\ losses' = losses + 1
Pending(fact) == \E l \in lines : l.fact = fact

----------------------------------------------------------------------------
\* appendLog.
AppendLog(fact) ==
  /\ logSeq < MaxLines
  /\ logSeq' = logSeq + 1
  /\ lines' = lines \cup {[fact |-> fact, seq |-> logSeq + 1, old |-> FALSE]}

\* The fact of session s failing with code.
FactOf(s, code) == [who |-> IF s \in named THEN s ELSE Device, code |-> code]

\* failed and UpdateWithLog: a failure that was not the last one logged of the
\* session.  A save that fails takes all of it back.
Fails(s, code) ==
  LET fact == FactOf(s, code)
  IN  /\ logged[s] # fact
      /\ \/ /\ logged' = [logged EXCEPT ![s] = fact]
            /\ IF fact.who = Device /\ Pending(fact) THEN UNCHANGED <<lines, logSeq>>
               ELSE AppendLog(fact)
            /\ UNCHANGED losses
         \/ Loss /\ UNCHANGED <<logged, lines, logSeq>>
      /\ UNCHANGED <<named, sending, quiet, heard, lapsed>>

\* MarkListedAt: the session gets its ID, and its failure a line with it.
Listed(s) ==
  /\ s \notin named
  /\ named' = named \cup {s}
  /\ IF logged[s] = NoFact THEN UNCHANGED <<logged, lines, logSeq>>
     ELSE LET fact == [logged[s] EXCEPT !.who = s]
          IN  logged' = [logged EXCEPT ![s] = fact] /\ AppendLog(fact)
  /\ UNCHANGED <<sending, quiet, heard, lapsed, losses>>

\* The session was recorded, or Hub asked for a retry.
Clears(s) ==
  /\ logged[s] # NoFact
  /\ logged' = [logged EXCEPT ![s] = NoFact]
  /\ UNCHANGED <<named, lines, logSeq, sending, quiet, heard, lapsed, losses>>

----------------------------------------------------------------------------
Before(l) == {k \in lines : k.seq < l.seq}

\* The oldest lines Hub still accepts, up to a batch of them, and all before.
Taken == {l \in lines : Cardinality({k \in Before(l) : ~k.old}) < Batch}

\* refreshConsent, with lines to send.
SendLines ==
  /\ sending = NotSending /\ ~quiet
  /\ \E last \in Taken :
       /\ \A l \in Taken : l.seq <= last.seq
       /\ sending' = [phase |-> "out", facts |-> {l.fact : l \in {k \in Taken : ~k.old}},
                      through |-> last.seq]
  /\ UNCHANGED <<named, logged, lines, logSeq, quiet, heard, lapsed, losses>>

HubAccepts ==
  /\ sending.phase = "out"
  /\ heard' = heard \cup sending.facts
  /\ sending' = [sending EXCEPT !.phase = "accepted"]
  /\ UNCHANGED <<named, logged, lines, logSeq, quiet, lapsed, losses>>

\* Hub refuses the lines and takes the check-in without them.
HubRefuses ==
  /\ sending.phase = "out" /\ Loss
  /\ sending' = NotSending /\ quiet' = TRUE
  /\ UNCHANGED <<named, logged, lines, logSeq, heard, lapsed>>

\* The request or its answer is lost, or the process stops meanwhile.
SendingLost ==
  /\ sending # NotSending /\ Loss
  /\ sending' = NotSending
  /\ quiet' \in {quiet, FALSE}
  /\ UNCHANGED <<named, logged, lines, logSeq, heard, lapsed>>

QuietEnds ==
  /\ quiet
  /\ quiet' = FALSE
  /\ UNCHANGED <<named, logged, lines, logSeq, sending, heard, lapsed, losses>>

\* Mutant of AcknowledgeLog: everything that is unsent by now goes.
AcknowledgeAll ==
  /\ sending.phase = "accepted"
  /\ sending' = NotSending
  /\ lines' = {}
  /\ UNCHANGED <<named, logged, logSeq, quiet, heard, lapsed, losses>>

\* Mutant of AcknowledgeLog: the first line must be the last one sent.
AcknowledgeFirst ==
  /\ sending.phase = "accepted"
  /\ sending' = NotSending
  /\ lines' = lines \ {l \in lines : Before(l) = {} /\ l.seq = sending.through}
  /\ UNCHANGED <<named, logged, logSeq, quiet, heard, lapsed, losses>>

AcknowledgeLog ==
  /\ sending.phase = "accepted"
  /\ sending' = NotSending
  /\ \/ /\ lines' = {l \in lines : l.seq > sending.through}
        /\ UNCHANGED losses
     \/ Loss /\ UNCHANGED lines
  /\ UNCHANGED <<named, logged, logSeq, quiet, heard, lapsed>>

\* The oldest line passes what Hub retains.
Ages ==
  /\ \E l \in lines :
       /\ ~l.old /\ \A k \in Before(l) : k.old
       /\ lines' = (lines \ {l}) \cup {[l EXCEPT !.old = TRUE]}
       /\ lapsed' = lapsed \cup {l.fact}
  /\ Loss
  /\ UNCHANGED <<named, logged, logSeq, sending, quiet, heard>>

\* Queue.Rebind, between two check-ins; the numbers go on.
RebindLog ==
  /\ sending = NotSending /\ Loss
  /\ named' = {} /\ lines' = {} /\ heard' = {} /\ lapsed' = {}
  /\ logged' = [s \in LogSessions |-> NoFact]
  /\ UNCHANGED <<logSeq, sending, quiet>>

----------------------------------------------------------------------------
Reports == SendLines \/ HubAccepts \/ AcknowledgeLog \/ QuietEnds

SyncLogNext ==
  \/ \E s \in LogSessions : Listed(s) \/ Clears(s) \/ \E code \in Codes : Fails(s, code)
  \/ Reports \/ HubRefuses \/ SendingLost \/ Ages \/ RebindLog

\* Check-ins go on, and a Hub that need not refuse accepts.
SyncLogFairness == WF_logVars(Reports)

SyncLogSpec == SyncLogInit /\ [][SyncLogNext]_logVars /\ SyncLogFairness

----------------------------------------------------------------------------
\* A failure that will not be logged again because it was logged has been told to
\* Hub, or its line is still there, in spite of lines that are dropped by number
\* while others come, of one line for many sessions and of sessions that get
\* their names later.
LoggedIsKept ==
  \A s \in LogSessions :
    logged[s] # NoFact => Pending(logged[s]) \/ logged[s] \in heard \cup lapsed

\* Once failures stop coming no line is left, behind others, behind a refusal or
\* for its number.
LogEmpties == []<>(lines = {})

=============================================================================
