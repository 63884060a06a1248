---------------------------- MODULE CheckInProofs ----------------------------
(***************************************************************************)
(* Proofs about check-ins, for every set of commands, every limit and      *)
(* every number of policies and faults.  CommandJournal: a command runs at *)
(* most once, no result the Hub waits for is lost, what is reported is     *)
(* true and final.  SyncLoop: nothing that the wait noticed is lost        *)
(* between the goroutines.  Then about the run that checks both.           *)
(***************************************************************************)
EXTENDS MCCheckIn, FiniteSetTheorems, TLAPS

Busy == {"started", "pickedUp", "finish"}

\* The command under way is open, was never reported, and its record says where
\* it is.
CurFine ==
  /\ cur # {} <=> stage \in Busy
  /\ \A c \in cur :
       /\ c \in Ids(journal) /\ verdict[c] = "open" /\ c \notin waiting
       /\ journal[c].res = IF stage = "started" THEN "failed" ELSE "progress"
       /\ stage # "finish" => runs[c] = 0
       /\ stage = "finish" => outcome \in Final
       /\ stage = "finish" /\ outcome = "done" => runs[c] > 0 /\ c \notin Retries

\* What is still to be taken is open: no report falls in between.
AnswerOpen ==
  /\ answer \subseteq OpenCommands(verdict)
  /\ stage \notin Busy \cup {"answered", "deliver"} => answer = {}

\* Whose final result was sent is no longer open, so it may be acknowledged.
SentClosed ==
  stage = "answered" =>
    \A c \in sent \cap Ids(journal) : journal[c].res \in Final => verdict[c] # "open"

\* The Hub issued what the journal names, and did not forget it.
KnownIssued == \A c \in Ids(journal) : verdict[c] \notin {"none", "gone"}

\* A command runs only when the Hub handed it out, and is closed by its report.
Issued ==
  \A c \in Commands : /\ runs[c] > 0 => verdict[c] # "none"
                      /\ said[c] # {} => verdict[c] \notin {"none", "open"}

\* A final record is what was reported, if anything was; a record in progress
\* was not reported; "done" is true.
RecordsTrue ==
  \A c \in Ids(journal) :
    /\ journal[c].res \in Final => said[c] \subseteq {journal[c].res}
    /\ journal[c].res = "progress" => said[c] = {}
    /\ journal[c].res = "done" => runs[c] > 0 /\ (c \in Retries => c \in landed)

\* A retry that waits was executed, is in progress as long as the journal knows
\* it, and its session settled only if a revision landed since.
WaitingFine ==
  \A c \in waiting : /\ runs[c] > 0
                     /\ c \in Ids(journal) => journal[c].res = "progress"
                     /\ entry.settled => c \in landed

JInv ==
  /\ TypeOK /\ CurFine /\ AnswerOpen /\ SentClosed /\ KnownIssued /\ Issued
  /\ RecordsTrue /\ WaitingFine /\ OpenCommandsJournaled /\ AtMostOnce /\ DoneIsTrue

-----------------------------------------------------------------------------
(* The journal's operators.                                                *)

JournalOK(j) == /\ Ids(j) \subseteq Commands /\ j \in [Ids(j) -> Record]
                /\ Ordered(j)

\* What is counted up to a command counts it.
LEMMA UpToCounts ==
  ASSUME NEW j, JournalOK(j), NEW ids \in SUBSET Ids(j), NEW c \in ids
  PROVE  /\ IsFiniteSet(ids)
         /\ Cardinality(UpTo(j, ids, c)) \in 1..Cardinality(ids)
<1>1. IsFiniteSet(ids) /\ Cardinality(ids) \in Nat
  BY FS_Subset, FS_CardinalityType DEF JournalOK, Ordered
<1>2. j[c].nr \in Nat
  BY DEF JournalOK, Record
<1>3. UpTo(j, ids, c) \in SUBSET ids /\ c \in UpTo(j, ids, c)
  BY <1>2 DEF UpTo
<1>4. IsFiniteSet(UpTo(j, ids, c)) /\ Cardinality(UpTo(j, ids, c)) <= Cardinality(ids)
  BY <1>1, <1>3, FS_Subset
<1>5. Cardinality(UpTo(j, ids, c)) \in Nat /\ Cardinality(UpTo(j, ids, c)) # 0
  BY <1>3, <1>4, FS_CardinalityType, FS_EmptySet
<1> QED
  BY <1>1, <1>4, <1>5

\* What is kept keeps all but its place, and the places stay different.
LEMMA KeptFacts ==
  ASSUME NEW j, JournalOK(j), NEW ids \in SUBSET Ids(j)
  PROVE  /\ JournalOK(Kept(j, ids)) /\ Ids(Kept(j, ids)) = ids
         /\ \A c \in ids : Kept(j, ids)[c].res = j[c].res
<1> DEFINE k == Kept(j, ids)
           n(c) == Cardinality(UpTo(j, ids, c))
<1>1. Ids(k) = ids
  BY DEF Kept, Ids
<1>2. \A c \in ids : n(c) \in 1..Cardinality(ids) /\ n(c) \in Nat
  BY UpToCounts
<1>3. IsFiniteSet(ids)
  BY FS_Subset DEF JournalOK, Ordered
<1>4. \A c \in ids : /\ j[c] \in Record
                     /\ k[c] = [j[c] EXCEPT !.nr = n(c)]
                     /\ k[c] \in Record /\ k[c].res = j[c].res /\ k[c].nr = n(c)
  BY <1>2 DEF Kept, Record, JournalOK
<1>5. \A c, d \in ids : j[c].nr <= j[d].nr /\ n(c) = n(d) => c = d
  <2> SUFFICES ASSUME NEW c \in ids, NEW d \in ids, j[c].nr <= j[d].nr, n(c) = n(d)
               PROVE  c = d
    OBVIOUS
  <2>1. j[c].nr \in Nat /\ j[d].nr \in Nat
    BY DEF JournalOK, Record
  <2>2. UpTo(j, ids, c) \subseteq UpTo(j, ids, d)
    BY <2>1, \A e \in ids : j[e].nr \in Nat DEF UpTo, JournalOK, Record
  <2>3. IsFiniteSet(UpTo(j, ids, d))
    BY <1>3, FS_Subset DEF UpTo
  <2>4. UpTo(j, ids, d) = UpTo(j, ids, c)
    BY <2>2, <2>3, FS_Subset
  <2>5. d \in UpTo(j, ids, d)
    BY <2>1 DEF UpTo
  <2>6. j[d].nr <= j[c].nr
    BY <2>4, <2>5 DEF UpTo
  <2> QED
    BY <2>1, <2>6 DEF JournalOK, Ordered
<1>6. \A c, d \in ids : n(c) = n(d) => c = d
  <2> SUFFICES ASSUME NEW c \in ids, NEW d \in ids, n(c) = n(d)
               PROVE  c = d
    OBVIOUS
  <2>1. j[c].nr \in Nat /\ j[d].nr \in Nat
    BY DEF JournalOK, Record
  <2> HIDE DEF n
  <2>2. j[c].nr <= j[d].nr \/ j[d].nr <= j[c].nr
    BY <2>1
  <2> QED
    BY <1>5, <2>2
<1>7. ids \subseteq Commands
  BY DEF JournalOK
<1>8. k \in [ids -> Record]
  BY <1>4 DEF Kept
<1> HIDE DEF k, n
<1> QED
  BY <1>1, <1>2, <1>3, <1>4, <1>6, <1>7, <1>8 DEF JournalOK, Ordered, k

\* Pruning keeps every command with a result to report.
LEMMA PrunedFacts ==
  ASSUME NEW j, JournalOK(j)
  PROVE  /\ JournalOK(Pruned(j)) /\ Ids(Pruned(j)) \subseteq Ids(j)
         /\ \A c \in Ids(Pruned(j)) : Pruned(j)[c].res = j[c].res
         /\ \A c \in Ids(j) : j[c].res # "" => c \in Ids(Pruned(j))
<1>1. PICK ids : /\ ids \in SUBSET Ids(j) /\ Unacked(j) \subseteq ids
                 /\ Pruned(j) = Kept(j, ids)
  BY DEF Pruned, Young, Unacked
<1>2. /\ JournalOK(Pruned(j)) /\ Ids(Pruned(j)) = ids
      /\ \A c \in ids : Pruned(j)[c].res = j[c].res
  BY <1>1, KeptFacts
<1> QED
  BY <1>1, <1>2 DEF Unacked

\* k is the journal j with another result for some commands.
Marked(k, j, ids, res) ==
  /\ JournalOK(k) /\ Ids(k) = Ids(j)
  /\ \A c \in Ids(j) : k[c].res = IF c \in ids THEN res ELSE j[c].res

LEMMA WithResultsFacts ==
  ASSUME NEW j, JournalOK(j), NEW ids, NEW res \in Result
  PROVE  Marked(WithResults(j, ids, res), j, ids, res)
<1> DEFINE k == WithResults(j, ids, res)
<1>1. Ids(k) = Ids(j)
  BY DEF WithResults, Ids
<1>2. \A c \in Ids(j) : /\ k[c] \in Record /\ k[c].nr = j[c].nr
                        /\ k[c].res = IF c \in ids THEN res ELSE j[c].res
  BY DEF WithResults, JournalOK, Record
<1>3. k \in [Ids(j) -> Record]
  BY <1>2 DEF WithResults
<1> HIDE DEF k
<1>4. JournalOK(k)
  BY <1>1, <1>2, <1>3 DEF JournalOK, Ordered
<1> QED
  BY <1>1, <1>2, <1>4 DEF k, Marked

\* A record that ages keeps its result and its place.
LEMMA AgedFacts ==
  ASSUME NEW j, JournalOK(j), NEW c \in Ids(j)
  PROVE  /\ JournalOK([j EXCEPT ![c].old = TRUE]) /\ Ids([j EXCEPT ![c].old = TRUE]) = Ids(j)
         /\ \A d \in Ids(j) : [j EXCEPT ![c].old = TRUE][d].res = j[d].res
<1> DEFINE k == [j EXCEPT ![c].old = TRUE]
<1>1. Ids(k) = Ids(j)
  BY DEF Ids
<1>2. \A d \in Ids(j) : k[d] \in Record /\ k[d].nr = j[d].nr /\ k[d].res = j[d].res
  BY DEF JournalOK, Record, Ids
<1>3. k \in [Ids(j) -> Record]
  BY <1>2 DEF JournalOK, Ids
<1> HIDE DEF k
<1>4. JournalOK(k)
  BY <1>1, <1>2, <1>3 DEF JournalOK, Ordered
<1> QED
  BY <1>1, <1>2, <1>4 DEF k

LEMMA StartedFacts ==
  ASSUME NEW j, JournalOK(j), NEW c \in Commands, c \notin Ids(j)
  PROVE  /\ JournalOK(Started(j, c)) /\ Ids(Started(j, c)) = Ids(j) \cup {c}
         /\ Started(j, c)[c].res = "failed"
         /\ \A d \in Ids(j) : Started(j, c)[d].res = j[d].res
<1> DEFINE k == Started(j, c)
           n == Cardinality(Ids(j))
<1>1. Ids(k) = Ids(j) \cup {c}
  BY DEF Started, Ids
<1>2. IsFiniteSet(Ids(k)) /\ n \in Nat /\ Cardinality(Ids(k)) = n + 1
  BY <1>1, FS_AddElement, FS_CardinalityType DEF JournalOK, Ordered
<1> HIDE DEF n
<1>3. k[c] = [res |-> "failed", old |-> FALSE, nr |-> n + 1] /\ k[c] \in Record
  BY <1>2 DEF Started, Record, Result, Final, n
<1>4. \A d \in Ids(j) : k[d] = j[d] /\ k[d] \in Record /\ k[d].nr \in 1..n
  BY DEF Started, JournalOK, Ordered, n
<1>5. k \in [Ids(j) \cup {c} -> Record]
  BY <1>3, <1>4 DEF Started
<1> HIDE DEF k
<1>6. Ordered(k)
  <2>1. \A d \in Ids(k) : k[d].nr \in 1..Cardinality(Ids(k))
    BY <1>1, <1>2, <1>3, <1>4
  <2>2. \A d, e \in Ids(k) : k[d].nr = k[e].nr => d = e
    BY <1>1, <1>2, <1>3, <1>4 DEF JournalOK, Ordered
  <2> QED
    BY <1>2, <2>1, <2>2 DEF Ordered
<1> QED
  BY <1>1, <1>3, <1>4, <1>5, <1>6 DEF JournalOK, k

-----------------------------------------------------------------------------
(* The invariant.                                                          *)

USE CommandsAssumption, LimitsAssumption DEF CommandsAssumption, LimitsAssumption

LEMMA InitInv == Init => JInv
<1> SUFFICES ASSUME Init PROVE JInv
  OBVIOUS
<1>1. JournalOK(journal) /\ Ids(journal) = {}
  BY FS_EmptySet DEF Init, JournalOK, Ordered, Ids, NoRecords
<1>2. TypeOK
  <2>1. entry \in EntryState
    <3>1. PICK b \in BOOLEAN : entry = [settled |-> b, failed |-> FALSE, blocked |-> FALSE,
                                       excluded |-> FALSE]
      BY DEF Init
    <3> QED
      BY <3>1 DEF EntryState
  <2>2. verdict \in [Commands -> {"none", "open", "gone"} \cup Final] /\ runs \in [Commands -> Nat]
    BY DEF Init
  <2>3. said \in [Commands -> SUBSET Final]
    BY DEF Init
  <2>4. stage \in Stages /\ outcome \in Final \cup {""} /\ faults \in Nat
    BY DEF Init, Stages
  <2> QED
    BY <1>1, <2>1, <2>2, <2>3, <2>4 DEF Init, JournalOK, TypeOK
<1>3. CurFine /\ AnswerOpen
  BY DEF Init, CurFine, Busy, AnswerOpen
<1>8. \A c \in Commands : verdict[c] = "none" /\ runs[c] = 0 /\ said[c] = {}
  BY DEF Init
<1>4. SentClosed /\ Issued
  BY <1>1, <1>8 DEF SentClosed, Issued
<1>7. AtMostOnce
  BY <1>8 DEF AtMostOnce
<1>6. DoneIsTrue
  BY DEF Init, DoneIsTrue
<1>5. KnownIssued /\ RecordsTrue /\ WaitingFine /\ OpenCommandsJournaled
  BY <1>1 DEF Init, KnownIssued, RecordsTrue, WaitingFine, OpenCommandsJournaled
<1> QED
  BY <1>2, <1>3, <1>4, <1>5, <1>6, <1>7 DEF JInv

\* The part of the types that is not the journal's.
RestOK ==
  /\ held \subseteq Retries /\ waiting \subseteq held
  /\ entry \in EntryState /\ stage \in Stages
  /\ sent \subseteq Commands /\ answer \subseteq Commands
  /\ cur = {} \/ \E c \in Commands : cur = {c}
  /\ outcome \in Final \cup {""}
  /\ verdict \in [Commands -> {"none", "open", "gone"} \cup Final]
  /\ runs \in [Commands -> Nat] /\ landed \cup unsaved \subseteq Commands
  /\ said \in [Commands -> SUBSET Final]
  /\ faults \in Nat

LEMMA TypeSplits == TypeOK <=> JournalOK(journal) /\ RestOK
BY DEF TypeOK, JournalOK, RestOK

LEMMA TypeSplitsNext == TypeOK' <=> JournalOK(journal)' /\ RestOK'
BY DEF TypeOK, JournalOK, RestOK

LEMMA HappensCounts ==
  ASSUME RestOK, NEW kind, Happens(kind)
  PROVE  faults' \in Nat
<1>1. faults \in Nat
  BY DEF RestOK
<1> QED
  BY <1>1 DEF Happens

LEMMA RecordTypes ==
  ASSUME JournalOK(journal)
  PROVE  \A c \in Ids(journal) : c \in Commands /\ journal[c].res \in Result
BY DEF JournalOK, Record

LEMMA HubIssuesInv ==
  ASSUME JInv, NEW c \in Commands, HubIssues(c)
  PROVE  JInv'
<1>1. /\ JournalOK(journal) /\ RestOK
      /\ \A d \in Ids(journal) : d \in Commands /\ journal[d].res \in Result
  BY TypeSplits, RecordTypes DEF JInv
<1>2. JournalOK(journal')
  BY <1>1 DEF HubIssues, history, passVars
<1>3. RestOK'
  BY <1>1 DEF JInv, HubIssues, RestOK, EntryState, Stages, Final, history, passVars
<1>4. AnswerOpen'
  BY <1>1 DEF JInv, HubIssues, AnswerOpen, OpenCommands, Busy, history, passVars
<1>5. SentClosed'
  BY <1>1 DEF JInv, HubIssues, SentClosed, KnownIssued, history, passVars
<1>6. KnownIssued'
  BY <1>1 DEF JInv, HubIssues, KnownIssued, history, passVars
<1>7. Issued'
  BY <1>1 DEF JInv, HubIssues, Issued, history, passVars
<1>8. OpenCommandsJournaled'
  BY <1>1 DEF JInv, HubIssues, OpenCommandsJournaled, Issued, RestOK, EntryState, Stages,
     Final, history, passVars
<1>9. CurFine'
  BY <1>1 DEF JInv, HubIssues, CurFine, Busy, history, passVars
<1>10. RecordsTrue' /\ WaitingFine' /\ AtMostOnce' /\ DoneIsTrue'
  BY DEF JInv, HubIssues, RecordsTrue, WaitingFine, AtMostOnce, DoneIsTrue, history,
     passVars
<1> QED
  BY <1>2, <1>3, <1>4, <1>5, <1>6, <1>7, <1>8, <1>9, <1>10, TypeSplitsNext DEF JInv

LEMMA ExecuteInv ==
  ASSUME JInv, NEW c \in Commands, Execute(c)
  PROVE  JInv'
<1>1. /\ JournalOK(journal) /\ RestOK
      /\ \A d \in Ids(journal) : d \in Commands /\ journal[d].res \in Result
  BY TypeSplits, RecordTypes DEF JInv
<1>2. JournalOK(journal')
  BY <1>1 DEF Execute
<1>3. /\ cur = {c} /\ runs[c] = 0 /\ runs \in [Commands -> Nat]
      /\ runs' = [runs EXCEPT ![c] = runs[c] + 1]
  BY <1>1 DEF Execute, JInv, CurFine, RestOK
<1>4. /\ runs' \in [Commands -> Nat] /\ runs'[c] = 1
      /\ \A d \in Commands \ {c} : runs'[d] = runs[d]
  BY <1>3
<1>5. RestOK'
  BY <1>1, <1>3, <1>4 DEF JInv, Execute, RestOK, EntryState, Stages, Final, CurFine, Busy
<1>6. CurFine'
  BY <1>1, <1>3, <1>4 DEF JInv, Execute, CurFine, Busy
<1>7. Issued'
  BY <1>1, <1>3, <1>4 DEF JInv, Execute, Issued, CurFine, Busy
<1>8. RecordsTrue'
  BY <1>1, <1>3, <1>4 DEF JInv, Execute, RecordsTrue
<1>9. WaitingFine'
  BY <1>1, <1>3, <1>4 DEF JInv, Execute, WaitingFine, CurFine, Busy
<1>10. OpenCommandsJournaled'
  BY <1>1, <1>3, <1>4 DEF JInv, Execute, OpenCommandsJournaled, CurFine, Busy
<1>11. AtMostOnce'
  BY <1>1, <1>3, <1>4 DEF JInv, Execute, AtMostOnce, CurFine, Busy
<1>12. DoneIsTrue'
  BY <1>1, <1>3, <1>4 DEF JInv, Execute, DoneIsTrue
<1>13. AnswerOpen' /\ SentClosed' /\ KnownIssued'
  BY DEF JInv, Execute, AnswerOpen, OpenCommands, Busy, SentClosed, KnownIssued
<1> QED
  BY <1>2, <1>5, <1>6, <1>7, <1>8, <1>9, <1>10, <1>11, <1>12, <1>13, TypeSplitsNext DEF JInv

LEMMA RefuseInv ==
  ASSUME JInv, NEW c \in Commands, Refuse(c)
  PROVE  JInv'
<1>1. /\ JournalOK(journal) /\ RestOK
      /\ \A d \in Ids(journal) : d \in Commands /\ journal[d].res \in Result
  BY TypeSplits, RecordTypes DEF JInv
<1>2. JournalOK(journal')
  BY <1>1 DEF Refuse, history, passVars, Final
<1>3. RestOK'
  BY <1>1 DEF JInv, Refuse, RestOK, EntryState, Stages, Final, history, passVars
<1>4. CurFine'
  BY <1>1 DEF JInv, Refuse, CurFine, Busy, history, passVars, Final
<1>5. /\ AnswerOpen' /\ SentClosed' /\ KnownIssued' /\ Issued' /\ RecordsTrue'
      /\ WaitingFine' /\ OpenCommandsJournaled' /\ AtMostOnce' /\ DoneIsTrue'
  BY DEF JInv, Refuse, AnswerOpen, OpenCommands, Busy, SentClosed, KnownIssued, Issued,
     RecordsTrue, WaitingFine, OpenCommandsJournaled, AtMostOnce, DoneIsTrue, history,
     passVars, Final
<1> QED
  BY <1>2, <1>3, <1>4, <1>5, TypeSplitsNext DEF JInv

LEMMA RetryInv ==
  ASSUME JInv, NEW c \in Commands, Retry(c)
  PROVE  JInv'
<1>1. /\ JournalOK(journal) /\ RestOK
      /\ \A d \in Ids(journal) : d \in Commands /\ journal[d].res \in Result
  BY TypeSplits, RecordTypes DEF JInv
<1>2. JournalOK(journal')
  BY <1>1 DEF Retry
<1>3. /\ cur = {c} /\ runs[c] = 0 /\ c \in Ids(journal)
      /\ journal[c].res = "progress" /\ verdict[c] = "open"
      /\ runs \in [Commands -> Nat] /\ runs' = [runs EXCEPT ![c] = runs[c] + 1]
  BY <1>1 DEF Retry, JInv, CurFine, RestOK
<1>4. /\ runs' \in [Commands -> Nat] /\ runs'[c] = 1
      /\ \A d \in Commands \ {c} : runs'[d] = runs[d]
  BY <1>3
<1>5. entry' \in EntryState /\ (entry'.settled => entry.settled /\ entry.blocked)
  BY <1>1 DEF Retry, RestOK, EntryState
<1>6. /\ waiting' = waiting \cup {c} /\ landed \subseteq landed' /\ landed' \subseteq landed \cup {c}
      /\ entry.blocked => c \in landed'
  BY DEF Retry
<1>7. RestOK'
  BY <1>1, <1>3, <1>4, <1>5, <1>6 DEF JInv, Retry, RestOK, EntryState, Stages, Final
<1>8. CurFine'
  BY <1>1, <1>3, <1>4, <1>5, <1>6 DEF JInv, Retry, CurFine, Busy
<1>9. AnswerOpen'
  BY <1>1, <1>3, <1>4, <1>5, <1>6 DEF JInv, Retry, AnswerOpen, OpenCommands, Busy
<1>10. Issued'
  BY <1>1, <1>3, <1>4, <1>5, <1>6 DEF JInv, Retry, Issued, CurFine, Busy
<1>11. RecordsTrue'
  BY <1>1, <1>3, <1>4, <1>5, <1>6 DEF JInv, Retry, RecordsTrue
<1>12. WaitingFine'
  BY <1>1, <1>3, <1>4, <1>5, <1>6 DEF JInv, Retry, WaitingFine, CurFine, Busy
<1>13. OpenCommandsJournaled'
  BY <1>1, <1>3, <1>4, <1>5, <1>6 DEF JInv, Retry, OpenCommandsJournaled, CurFine, Busy
<1>14. AtMostOnce'
  BY <1>1, <1>3, <1>4, <1>5, <1>6 DEF JInv, Retry, AtMostOnce, CurFine, Busy
<1>15. DoneIsTrue'
  BY <1>1, <1>3, <1>4, <1>5, <1>6 DEF JInv, Retry, DoneIsTrue
<1>16. SentClosed' /\ KnownIssued'
  BY DEF JInv, Retry, SentClosed, KnownIssued
<1> QED
  BY <1>2, <1>7, <1>8, <1>9, <1>10, <1>11, <1>12, <1>13, <1>14, <1>15, <1>16,
     TypeSplitsNext DEF JInv

LEMMA DeliveredInv ==
  ASSUME JInv, Delivered
  PROVE  JInv'
<1>1. /\ JournalOK(journal) /\ RestOK
      /\ \A d \in Ids(journal) : d \in Commands /\ journal[d].res \in Result
  BY TypeSplits, RecordTypes DEF JInv
<1>2. JournalOK(journal')
  BY <1>1 DEF Delivered, history, passVars
<1>3. RestOK'
  BY <1>1 DEF JInv, Delivered, RestOK, EntryState, Stages, Final, history, passVars
<1>4. CurFine'
  BY <1>1 DEF JInv, Delivered, CurFine, Busy, history, passVars
<1>5. AnswerOpen'
  BY <1>1 DEF JInv, Delivered, AnswerOpen, OpenCommands, Busy, history, passVars
<1>6. /\ SentClosed' /\ KnownIssued' /\ Issued' /\ RecordsTrue' /\ WaitingFine'
      /\ OpenCommandsJournaled' /\ AtMostOnce' /\ DoneIsTrue'
  BY DEF JInv, Delivered, SentClosed, KnownIssued, Issued, RecordsTrue, WaitingFine,
     OpenCommandsJournaled, AtMostOnce, DoneIsTrue, history, passVars
<1> QED
  BY <1>2, <1>3, <1>4, <1>5, <1>6, TypeSplitsNext DEF JInv

LEMMA LandInv ==
  ASSUME JInv, Land
  PROVE  JInv'
<1>1. /\ JournalOK(journal) /\ RestOK
      /\ \A d \in Ids(journal) : d \in Commands /\ journal[d].res \in Result
  BY TypeSplits, RecordTypes DEF JInv
<1>2. JournalOK(journal')
  BY <1>1 DEF Land, EntryBecomes, passVars, Happens
<1>3. entry' \in EntryState
  BY <1>1 DEF Land, EntryBecomes, RestOK, EntryState
<1>4. RestOK'
  BY <1>1, <1>3 DEF JInv, Land, RestOK, EntryState, Stages, Final, EntryBecomes, passVars,
     Happens
<1>5. WaitingFine'
  BY <1>1, <1>3 DEF JInv, Land, WaitingFine, RestOK, EntryState, Stages, Final,
     EntryBecomes, passVars, Happens
<1>6. RecordsTrue'
  BY <1>1, <1>3 DEF JInv, Land, RecordsTrue, EntryBecomes, passVars, Happens
<1>7. DoneIsTrue'
  BY <1>1, <1>3 DEF JInv, Land, DoneIsTrue, EntryBecomes, passVars, Happens
<1>8. /\ CurFine' /\ AnswerOpen' /\ SentClosed' /\ KnownIssued' /\ Issued'
      /\ OpenCommandsJournaled' /\ AtMostOnce'
  BY DEF JInv, Land, CurFine, Busy, AnswerOpen, OpenCommands, SentClosed, KnownIssued,
     Issued, OpenCommandsJournaled, AtMostOnce, EntryBecomes, passVars, Happens
<1> QED
  BY <1>2, <1>4, <1>5, <1>6, <1>7, <1>8, TypeSplitsNext DEF JInv

LEMMA FailInv ==
  ASSUME JInv, Fail
  PROVE  JInv'
<1>1. /\ JournalOK(journal) /\ RestOK
      /\ \A d \in Ids(journal) : d \in Commands /\ journal[d].res \in Result
  BY TypeSplits, RecordTypes DEF JInv
<1>2. JournalOK(journal')
  BY <1>1 DEF Fail, EntryBecomes, passVars, Happens
<1>3. entry' \in EntryState /\ entry'.settled = entry.settled
  BY <1>1 DEF Fail, EntryBecomes, RestOK, EntryState
<1>4. RestOK'
  BY <1>1, <1>3 DEF JInv, Fail, RestOK, EntryState, Stages, Final, EntryBecomes, passVars,
     Happens
<1>5. WaitingFine'
  BY <1>1, <1>3 DEF JInv, Fail, WaitingFine, EntryBecomes, passVars, Happens
<1>6. /\ CurFine' /\ AnswerOpen' /\ SentClosed' /\ KnownIssued' /\ Issued'
      /\ RecordsTrue' /\ OpenCommandsJournaled' /\ AtMostOnce' /\ DoneIsTrue'
  BY DEF JInv, Fail, CurFine, Busy, AnswerOpen, OpenCommands, SentClosed, KnownIssued,
     Issued, RecordsTrue, OpenCommandsJournaled, AtMostOnce, DoneIsTrue, EntryBecomes,
     passVars, Happens
<1> QED
  BY <1>2, <1>4, <1>5, <1>6, TypeSplitsNext DEF JInv

LEMMA UnblockInv ==
  ASSUME JInv, Unblock
  PROVE  JInv'
<1>1. /\ JournalOK(journal) /\ RestOK
      /\ \A d \in Ids(journal) : d \in Commands /\ journal[d].res \in Result
  BY TypeSplits, RecordTypes DEF JInv
<1>2. JournalOK(journal')
  BY <1>1 DEF Unblock, EntryBecomes, passVars, Happens
<1>3. entry' \in EntryState /\ entry'.settled = entry.settled
  BY <1>1 DEF Unblock, EntryBecomes, RestOK, EntryState
<1>4. RestOK'
  BY <1>1, <1>3 DEF JInv, Unblock, RestOK, EntryState, Stages, Final, EntryBecomes,
     passVars, Happens
<1>5. WaitingFine'
  BY <1>1, <1>3 DEF JInv, Unblock, WaitingFine, EntryBecomes, passVars, Happens
<1>6. /\ CurFine' /\ AnswerOpen' /\ SentClosed' /\ KnownIssued' /\ Issued'
      /\ RecordsTrue' /\ OpenCommandsJournaled' /\ AtMostOnce' /\ DoneIsTrue'
  BY DEF JInv, Unblock, CurFine, Busy, AnswerOpen, OpenCommands, SentClosed, KnownIssued,
     Issued, RecordsTrue, OpenCommandsJournaled, AtMostOnce, DoneIsTrue, EntryBecomes,
     passVars, Happens
<1> QED
  BY <1>2, <1>4, <1>5, <1>6, TypeSplitsNext DEF JInv

LEMMA DisturbInv ==
  ASSUME JInv, Disturb
  PROVE  JInv'
<1>1. /\ JournalOK(journal) /\ RestOK
      /\ \A d \in Ids(journal) : d \in Commands /\ journal[d].res \in Result
  BY TypeSplits, RecordTypes DEF JInv
<1>2. JournalOK(journal')
  BY <1>1 DEF Disturb, EntryBecomes, passVars, Happens
<1>3. entry' \in EntryState /\ (entry'.settled => entry.settled)
  BY <1>1 DEF Disturb, EntryBecomes, RestOK, EntryState
<1>4. faults' \in Nat
  BY <1>1, HappensCounts DEF Disturb
<1>5. RestOK'
  BY <1>1, <1>3, <1>4 DEF JInv, Disturb, RestOK, EntryState, Stages, Final, EntryBecomes,
     passVars, Happens
<1>6. WaitingFine'
  BY <1>1, <1>3, <1>4 DEF JInv, Disturb, WaitingFine, EntryBecomes, passVars, Happens
<1>7. /\ CurFine' /\ AnswerOpen' /\ SentClosed' /\ KnownIssued' /\ Issued'
      /\ RecordsTrue' /\ OpenCommandsJournaled' /\ AtMostOnce' /\ DoneIsTrue'
  BY DEF JInv, Disturb, CurFine, Busy, AnswerOpen, OpenCommands, SentClosed, KnownIssued,
     Issued, RecordsTrue, OpenCommandsJournaled, AtMostOnce, DoneIsTrue, EntryBecomes,
     passVars, Happens
<1> QED
  BY <1>2, <1>5, <1>6, <1>7, TypeSplitsNext DEF JInv

LEMMA PassEndsInv ==
  ASSUME JInv, PassEnds
  PROVE  JInv'
<1>1. /\ JournalOK(journal) /\ RestOK
      /\ \A d \in Ids(journal) : d \in Commands /\ journal[d].res \in Result
  BY TypeSplits, RecordTypes DEF JInv
<1>2. JournalOK(journal')
  BY <1>1 DEF PassEnds, history, passVars
<1>3. RestOK'
  BY <1>1 DEF JInv, PassEnds, RestOK, EntryState, Stages, Final, history, passVars
<1>4. CurFine'
  BY <1>1 DEF JInv, PassEnds, CurFine, Busy, history, passVars
<1>5. AnswerOpen'
  BY <1>1 DEF JInv, PassEnds, AnswerOpen, OpenCommands, Busy, history, passVars
<1>6. SentClosed'
  BY <1>1 DEF JInv, PassEnds, SentClosed, history, passVars
<1>7. /\ KnownIssued' /\ Issued' /\ RecordsTrue' /\ WaitingFine'
      /\ OpenCommandsJournaled' /\ AtMostOnce' /\ DoneIsTrue'
  BY DEF JInv, PassEnds, KnownIssued, Issued, RecordsTrue, WaitingFine,
     OpenCommandsJournaled, AtMostOnce, DoneIsTrue, history, passVars
<1> QED
  BY <1>2, <1>3, <1>4, <1>5, <1>6, <1>7, TypeSplitsNext DEF JInv

LEMMA PassDoneInv ==
  ASSUME JInv, PassDone
  PROVE  JInv'
<1>1. /\ JournalOK(journal) /\ RestOK
      /\ \A d \in Ids(journal) : d \in Commands /\ journal[d].res \in Result
  BY TypeSplits, RecordTypes DEF JInv
<1>2. JournalOK(journal')
  BY <1>1 DEF PassDone, history, passVars
<1>3. RestOK'
  BY <1>1 DEF JInv, PassDone, RestOK, EntryState, Stages, Final, history, passVars
<1>4. CurFine'
  BY <1>1 DEF JInv, PassDone, CurFine, Busy, history, passVars
<1>5. AnswerOpen'
  BY <1>1 DEF JInv, PassDone, AnswerOpen, OpenCommands, Busy, history, passVars
<1>6. SentClosed'
  BY <1>1 DEF JInv, PassDone, SentClosed, history, passVars
<1>7. /\ KnownIssued' /\ Issued' /\ RecordsTrue' /\ WaitingFine'
      /\ OpenCommandsJournaled' /\ AtMostOnce' /\ DoneIsTrue'
  BY DEF JInv, PassDone, KnownIssued, Issued, RecordsTrue, WaitingFine,
     OpenCommandsJournaled, AtMostOnce, DoneIsTrue, history, passVars
<1> QED
  BY <1>2, <1>3, <1>4, <1>5, <1>6, <1>7, TypeSplitsNext DEF JInv

LEMMA SaveFailsInv ==
  ASSUME JInv, SaveFails
  PROVE  JInv'
<1>1. /\ JournalOK(journal) /\ RestOK
      /\ \A d \in Ids(journal) : d \in Commands /\ journal[d].res \in Result
  BY TypeSplits, RecordTypes DEF JInv
<1>2. JournalOK(journal')
  BY <1>1 DEF SaveFails, Happens
<1>3. faults' \in Nat
  BY <1>1, HappensCounts DEF SaveFails
<1>4. cur \subseteq Commands
  BY <1>1 DEF RestOK
<1>5. RestOK'
  BY <1>1, <1>3, <1>4 DEF JInv, SaveFails, RestOK, EntryState, Stages, Final, Happens
<1>6. CurFine'
  BY <1>1, <1>3, <1>4 DEF JInv, SaveFails, CurFine, Busy, Happens
<1>7. AnswerOpen'
  BY <1>1, <1>3, <1>4 DEF JInv, SaveFails, AnswerOpen, OpenCommands, Busy, Happens
<1>8. SentClosed'
  BY <1>1, <1>3, <1>4 DEF JInv, SaveFails, SentClosed, Happens
<1>9. /\ KnownIssued' /\ Issued' /\ RecordsTrue' /\ WaitingFine'
      /\ OpenCommandsJournaled' /\ AtMostOnce' /\ DoneIsTrue'
  BY DEF JInv, SaveFails, KnownIssued, Issued, RecordsTrue, WaitingFine,
     OpenCommandsJournaled, AtMostOnce, DoneIsTrue, Happens
<1> QED
  BY <1>2, <1>5, <1>6, <1>7, <1>8, <1>9, TypeSplitsNext DEF JInv

LEMMA AcknowledgeInv ==
  ASSUME JInv, Acknowledge
  PROVE  JInv'
<1>1. /\ JournalOK(journal) /\ RestOK
      /\ \A d \in Ids(journal) : d \in Commands /\ journal[d].res \in Result
  BY TypeSplits, RecordTypes DEF JInv
<1>2. /\ JournalOK(journal') /\ Ids(journal') = Ids(journal)
      /\ \A d \in Ids(journal) :
           journal'[d].res = IF d \in sent /\ journal[d].res # "progress" THEN ""
                             ELSE journal[d].res
  <2> DEFINE ids == {d \in sent \cap Ids(journal) : journal[d].res # "progress"}
  <2>1. journal' = WithResults(journal, ids, "")
    BY DEF Acknowledge, Acknowledged
  <2>2. "" \in Result
    BY DEF Result
  <2>3. \A d \in Ids(journal) : d \in ids <=> d \in sent /\ journal[d].res # "progress"
    OBVIOUS
  <2> HIDE DEF ids
  <2>4. Marked(journal', journal, ids, "")
    BY <1>1, <2>1, <2>2, WithResultsFacts
  <2> QED
    BY <2>3, <2>4 DEF Marked
<1>3. RestOK'
  BY <1>1, <1>2 DEF JInv, Acknowledge, RestOK, EntryState, Stages, Final, history, Result
<1>4. CurFine'
  BY <1>1, <1>2 DEF JInv, Acknowledge, CurFine, Busy, history, Result, Final
<1>5. AnswerOpen'
  BY <1>1, <1>2 DEF JInv, Acknowledge, AnswerOpen, OpenCommands, Busy, history, Result,
     Final
<1>6. SentClosed'
  BY <1>1, <1>2 DEF JInv, Acknowledge, SentClosed, history, Result, Final
<1>7. KnownIssued'
  BY <1>1, <1>2 DEF JInv, Acknowledge, KnownIssued, history, Result, Final
<1>8. RecordsTrue'
  BY <1>1, <1>2 DEF JInv, Acknowledge, RecordsTrue, history, Result, Final
<1>9. WaitingFine'
  BY <1>1, <1>2 DEF JInv, Acknowledge, WaitingFine, history, Result, Final
<1>10. OpenCommandsJournaled'
  BY <1>1, <1>2 DEF JInv, Acknowledge, OpenCommandsJournaled, SentClosed, history, Result,
     Final
<1>11. Issued' /\ AtMostOnce' /\ DoneIsTrue'
  BY DEF JInv, Acknowledge, Issued, AtMostOnce, DoneIsTrue, history, Result, Final
<1> QED
  BY <1>2, <1>3, <1>4, <1>5, <1>6, <1>7, <1>8, <1>9, <1>10, <1>11, TypeSplitsNext DEF JInv

LEMMA PickUpInv ==
  ASSUME JInv, NEW c \in Commands, PickUp(c)
  PROVE  JInv'
<1>1. /\ JournalOK(journal) /\ RestOK
      /\ \A d \in Ids(journal) : d \in Commands /\ journal[d].res \in Result
  BY TypeSplits, RecordTypes DEF JInv
<1>2. /\ JournalOK(journal') /\ Ids(journal') = Ids(journal)
      /\ \A d \in Ids(journal) :
           journal'[d].res = IF d = c THEN "progress" ELSE journal[d].res
  <2> DEFINE ids == {c}
  <2>1. journal' = WithResults(journal, ids, "progress")
    BY DEF PickUp, WithResult
  <2>2. "progress" \in Result
    BY DEF Result
  <2>3. \A d : d \in ids <=> d = c
    OBVIOUS
  <2> HIDE DEF ids
  <2>4. Marked(journal', journal, ids, "progress")
    BY <1>1, <2>1, <2>2, WithResultsFacts
  <2> QED
    BY <2>3, <2>4 DEF Marked
<1>3. /\ cur = {c} /\ c \in Ids(journal) /\ verdict[c] = "open" /\ said[c] = {}
      /\ c \notin waiting
  BY DEF PickUp, JInv, CurFine, Issued
<1>4. RestOK'
  BY <1>1, <1>2, <1>3 DEF JInv, PickUp, RestOK, EntryState, Stages, Final, history, passVars
<1>5. CurFine'
  BY <1>1, <1>2, <1>3 DEF JInv, PickUp, CurFine, Busy, history, passVars, Final
<1>6. AnswerOpen'
  BY <1>1, <1>2, <1>3 DEF JInv, PickUp, AnswerOpen, OpenCommands, Busy, history, passVars,
     Final
<1>7. SentClosed'
  BY <1>1, <1>2, <1>3 DEF JInv, PickUp, SentClosed, history, passVars, Final
<1>8. KnownIssued'
  BY <1>1, <1>2, <1>3 DEF JInv, PickUp, KnownIssued, history, passVars, Final
<1>9. RecordsTrue'
  BY <1>1, <1>2, <1>3 DEF JInv, PickUp, RecordsTrue, history, passVars, Final
<1>10. WaitingFine'
  BY <1>1, <1>2, <1>3 DEF JInv, PickUp, WaitingFine, history, passVars, Final
<1>11. OpenCommandsJournaled'
  BY <1>1, <1>2, <1>3 DEF JInv, PickUp, OpenCommandsJournaled, history, passVars, Final
<1>12. Issued' /\ AtMostOnce' /\ DoneIsTrue'
  BY DEF JInv, PickUp, Issued, AtMostOnce, DoneIsTrue, history, passVars, Final
<1> QED
  BY <1>2, <1>4, <1>5, <1>6, <1>7, <1>8, <1>9, <1>10, <1>11, <1>12, TypeSplitsNext DEF JInv

LEMMA FinishCommandInv ==
  ASSUME JInv, NEW c \in Commands, FinishCommand(c)
  PROVE  JInv'
<1>1. /\ JournalOK(journal) /\ RestOK
      /\ \A d \in Ids(journal) : d \in Commands /\ journal[d].res \in Result
  BY TypeSplits, RecordTypes DEF JInv
<1>2. /\ JournalOK(journal') /\ Ids(journal') = Ids(journal)
      /\ \A d \in Ids(journal) :
           journal'[d].res = IF d = c THEN outcome ELSE journal[d].res
  <2> DEFINE ids == {c}
  <2>1. journal' = WithResults(journal, ids, outcome)
    BY DEF FinishCommand, WithResult
  <2>2. outcome \in Result
    BY <1>1 DEF RestOK, Result
  <2>3. \A d : d \in ids <=> d = c
    OBVIOUS
  <2> HIDE DEF ids
  <2>4. Marked(journal', journal, ids, outcome)
    BY <1>1, <2>1, <2>2, WithResultsFacts
  <2> QED
    BY <2>3, <2>4 DEF Marked
<1>3. /\ cur = {c} /\ c \in Ids(journal) /\ verdict[c] = "open" /\ said[c] = {} /\ c \notin waiting
      /\ outcome \in Final /\ (outcome = "done" => runs[c] > 0 /\ c \notin Retries)
  BY DEF FinishCommand, JInv, CurFine, Issued
<1>4. RestOK'
  BY <1>1, <1>2, <1>3 DEF JInv, FinishCommand, RestOK, EntryState, Stages, Final, history
<1>5. CurFine'
  BY <1>1, <1>2, <1>3 DEF JInv, FinishCommand, CurFine, Busy, history, Final
<1>6. AnswerOpen'
  BY <1>1, <1>2, <1>3 DEF JInv, FinishCommand, AnswerOpen, OpenCommands, Busy, history,
     Final
<1>7. SentClosed'
  BY <1>1, <1>2, <1>3 DEF JInv, FinishCommand, SentClosed, history, Final
<1>8. KnownIssued'
  BY <1>1, <1>2, <1>3 DEF JInv, FinishCommand, KnownIssued, history, Final
<1>9. RecordsTrue'
  BY <1>1, <1>2, <1>3 DEF JInv, FinishCommand, RecordsTrue, history, Final
<1>10. WaitingFine'
  BY <1>1, <1>2, <1>3 DEF JInv, FinishCommand, WaitingFine, history, Final
<1>11. OpenCommandsJournaled'
  BY <1>1, <1>2, <1>3 DEF JInv, FinishCommand, OpenCommandsJournaled, history, Final
<1>12. Issued' /\ AtMostOnce' /\ DoneIsTrue'
  BY DEF JInv, FinishCommand, Issued, AtMostOnce, DoneIsTrue, history, Final
<1> QED
  BY <1>2, <1>4, <1>5, <1>6, <1>7, <1>8, <1>9, <1>10, <1>11, <1>12, TypeSplitsNext DEF JInv

LEMMA FinishRetryInv ==
  ASSUME JInv, NEW c \in Commands, FinishRetry(c)
  PROVE  JInv'
<1>1. /\ JournalOK(journal) /\ RestOK
      /\ \A d \in Ids(journal) : d \in Commands /\ journal[d].res \in Result
  BY TypeSplits, RecordTypes DEF JInv
<1>2. RetryOutcome(c) \in Final /\ (RetryOutcome(c) = "done" => entry.settled)
  BY DEF FinishRetry, Finished, RetryOutcome, Final
<1>3. /\ JournalOK(journal') /\ Ids(journal') = Ids(journal)
      /\ \A d \in Ids(journal) :
           journal'[d].res = IF d = c THEN RetryOutcome(c) ELSE journal[d].res
  <2> DEFINE ids == {c}
  <2>1. journal' = WithResults(journal, ids, RetryOutcome(c))
    BY DEF FinishRetry, Finished, WithResult
  <2>2. RetryOutcome(c) \in Result
    BY <1>2 DEF Result
  <2>3. \A d : d \in ids <=> d = c
    OBVIOUS
  <2> HIDE DEF ids
  <2>4. Marked(journal', journal, ids, RetryOutcome(c))
    BY <1>1, <2>1, <2>2, WithResultsFacts
  <2> QED
    BY <2>3, <2>4 DEF Marked
<1>4. /\ c \in waiting /\ c \in Ids(journal) /\ said[c] = {} /\ runs[c] > 0
      /\ entry.settled => c \in landed
  BY DEF FinishRetry, Finished, JInv, WaitingFine, RecordsTrue
<1>5. RestOK'
  BY <1>1, <1>2, <1>3, <1>4 DEF JInv, FinishRetry, RestOK, EntryState, Stages, Final,
     history, passVars
<1>6. CurFine'
  BY <1>1, <1>2, <1>3, <1>4 DEF JInv, FinishRetry, CurFine, Busy, history, passVars, Final
<1>7. AnswerOpen'
  BY <1>1, <1>2, <1>3, <1>4 DEF JInv, FinishRetry, AnswerOpen, OpenCommands, Busy,
     history, passVars, Final
<1>8. SentClosed'
  BY <1>1, <1>2, <1>3, <1>4 DEF JInv, FinishRetry, SentClosed, history, passVars, Final
<1>9. KnownIssued'
  BY <1>1, <1>2, <1>3, <1>4 DEF JInv, FinishRetry, KnownIssued, history, passVars, Final
<1>10. RecordsTrue'
  BY <1>1, <1>2, <1>3, <1>4 DEF JInv, FinishRetry, RecordsTrue, history, passVars, Final
<1>11. WaitingFine'
  BY <1>1, <1>2, <1>3, <1>4 DEF JInv, FinishRetry, WaitingFine, history, passVars, Final
<1>12. OpenCommandsJournaled'
  BY <1>1, <1>2, <1>3, <1>4 DEF JInv, FinishRetry, OpenCommandsJournaled, history,
     passVars, Final
<1>13. Issued' /\ AtMostOnce' /\ DoneIsTrue'
  BY DEF JInv, FinishRetry, Issued, AtMostOnce, DoneIsTrue, history, passVars, Final
<1> QED
  BY <1>3, <1>5, <1>6, <1>7, <1>8, <1>9, <1>10, <1>11, <1>12, <1>13, TypeSplitsNext DEF JInv

LEMMA RestartInv ==
  ASSUME JInv, Restart
  PROVE  JInv'
<1>1. /\ JournalOK(journal) /\ RestOK
      /\ \A d \in Ids(journal) : d \in Commands /\ journal[d].res \in Result
  BY TypeSplits, RecordTypes DEF JInv
<1>2. /\ JournalOK(Interrupted(journal)) /\ Ids(Interrupted(journal)) = Ids(journal)
      /\ \A d \in Ids(journal) :
           Interrupted(journal)[d].res = IF journal[d].res = "progress" THEN "failed"
                                         ELSE journal[d].res
  <2> DEFINE ids == {d \in Ids(journal) : journal[d].res = "progress"}
  <2>1. Interrupted(journal) = WithResults(journal, ids, "failed")
    BY DEF Interrupted
  <2>2. "failed" \in Result
    BY DEF Result, Final
  <2>3. \A d \in Ids(journal) : d \in ids <=> journal[d].res = "progress"
    OBVIOUS
  <2> HIDE DEF ids
  <2>4. Marked(Interrupted(journal), journal, ids, "failed")
    BY <1>1, <2>1, <2>2, WithResultsFacts
  <2> QED
    BY <2>3, <2>4 DEF Marked
<1>3. /\ JournalOK(journal') /\ Ids(journal') \subseteq Ids(journal)
      /\ \A d \in Ids(journal') : journal'[d].res = Interrupted(journal)[d].res
      /\ \A d \in Ids(journal) : journal[d].res # "" => d \in Ids(journal')
  BY <1>1, <1>2, PrunedFacts DEF Restart
<1>4. faults' \in Nat
  BY <1>1, HappensCounts DEF Restart
<1>5. RestOK'
  BY <1>1, <1>2, <1>3, <1>4 DEF JInv, Restart, RestOK, EntryState, Stages, Final, Happens
<1>6. CurFine'
  BY <1>1, <1>2, <1>3, <1>4 DEF JInv, Restart, CurFine, Busy, Happens, Final
<1>7. AnswerOpen'
  BY <1>1, <1>2, <1>3, <1>4 DEF JInv, Restart, AnswerOpen, OpenCommands, Busy, Happens,
     Final
<1>8. SentClosed'
  BY <1>1, <1>2, <1>3, <1>4 DEF JInv, Restart, SentClosed, Happens, Final
<1>9. KnownIssued'
  BY <1>1, <1>2, <1>3, <1>4 DEF JInv, Restart, KnownIssued, Happens, Final
<1>10. RecordsTrue'
  BY <1>1, <1>2, <1>3, <1>4 DEF JInv, Restart, RecordsTrue, Happens, Final
<1>11. WaitingFine'
  BY <1>1, <1>2, <1>3, <1>4 DEF JInv, Restart, WaitingFine, Happens, Final
<1>12. OpenCommandsJournaled'
  BY <1>1, <1>2, <1>3, <1>4 DEF JInv, Restart, OpenCommandsJournaled, Happens, Final
<1>13. Issued' /\ AtMostOnce' /\ DoneIsTrue'
  BY DEF JInv, Restart, Issued, AtMostOnce, DoneIsTrue, Happens, Final
<1> QED
  BY <1>3, <1>5, <1>6, <1>7, <1>8, <1>9, <1>10, <1>11, <1>12, <1>13, TypeSplitsNext DEF JInv

LEMMA AgeInv ==
  ASSUME JInv, NEW c \in Commands, Age(c)
  PROVE  JInv'
<1>1. /\ JournalOK(journal) /\ RestOK
      /\ \A d \in Ids(journal) : d \in Commands /\ journal[d].res \in Result
  BY TypeSplits, RecordTypes DEF JInv
<1>2. /\ JournalOK(journal') /\ Ids(journal') = Ids(journal)
      /\ \A d \in Ids(journal) : journal'[d].res = journal[d].res
  <2>1. c \in Ids(journal) /\ journal' = [journal EXCEPT ![c].old = TRUE]
    BY DEF Age
  <2>2. /\ JournalOK([journal EXCEPT ![c].old = TRUE])
        /\ Ids([journal EXCEPT ![c].old = TRUE]) = Ids(journal)
        /\ \A d \in Ids(journal) : [journal EXCEPT ![c].old = TRUE][d].res = journal[d].res
    BY <1>1, <2>1, AgedFacts
  <2> QED
    BY <2>1, <2>2
<1>3. faults' \in Nat
  BY <1>1, HappensCounts DEF Age
<1>4. RestOK'
  BY <1>1, <1>2, <1>3 DEF JInv, Age, RestOK, EntryState, Stages, Final, history, passVars,
     Happens
<1>5. CurFine'
  BY <1>1, <1>2, <1>3 DEF JInv, Age, CurFine, Busy, history, passVars, Happens
<1>6. SentClosed'
  BY <1>1, <1>2, <1>3 DEF JInv, Age, SentClosed, history, passVars, Happens
<1>7. KnownIssued'
  BY <1>1, <1>2, <1>3 DEF JInv, Age, KnownIssued, history, passVars, Happens
<1>8. RecordsTrue'
  BY <1>1, <1>2, <1>3 DEF JInv, Age, RecordsTrue, history, passVars, Happens
<1>9. WaitingFine'
  BY <1>1, <1>2, <1>3 DEF JInv, Age, WaitingFine, history, passVars, Happens
<1>10. OpenCommandsJournaled'
  BY <1>1, <1>2, <1>3 DEF JInv, Age, OpenCommandsJournaled, history, passVars, Happens
<1>11. AnswerOpen' /\ Issued' /\ AtMostOnce' /\ DoneIsTrue'
  BY DEF JInv, Age, AnswerOpen, OpenCommands, Busy, Issued, AtMostOnce, DoneIsTrue,
     history, passVars, Happens
<1> QED
  BY <1>2, <1>4, <1>5, <1>6, <1>7, <1>8, <1>9, <1>10, <1>11, TypeSplitsNext DEF JInv

LEMMA RebindInv ==
  ASSUME JInv, Rebind
  PROVE  JInv'
<1>1. /\ JournalOK(journal) /\ RestOK
      /\ \A d \in Ids(journal) : d \in Commands /\ journal[d].res \in Result
  BY TypeSplits, RecordTypes DEF JInv
<1>2. JournalOK(journal') /\ Ids(journal') = {}
  BY FS_EmptySet DEF Rebind, JournalOK, Ordered, Ids, NoRecords
<1>3. entry' \in EntryState /\ ~entry'.settled
  BY <1>1 DEF Rebind, RestOK, EntryState
<1>4. \A d \in Commands : verdict'[d] = IF verdict[d] = "none" THEN "none" ELSE "gone"
  BY DEF Rebind
<1>5. verdict' \in [Commands -> {"none", "open", "gone"} \cup Final]
  BY DEF Rebind
<1>6. faults' \in Nat
  BY <1>1, HappensCounts DEF Rebind
<1>7. RestOK'
  BY <1>1, <1>2, <1>3, <1>4, <1>5, <1>6 DEF JInv, Rebind, RestOK, EntryState, Stages,
     Final, history, passVars, Happens
<1>8. CurFine'
  BY <1>1, <1>2, <1>3, <1>4, <1>5, <1>6 DEF JInv, Rebind, CurFine, Busy, history,
     passVars, Happens
<1>9. AnswerOpen'
  BY <1>1, <1>2, <1>3, <1>4, <1>5, <1>6 DEF JInv, Rebind, AnswerOpen, OpenCommands, Busy,
     CurFine, history, passVars, Happens
<1>10. SentClosed'
  BY <1>1, <1>2, <1>3, <1>4, <1>5, <1>6 DEF JInv, Rebind, SentClosed, history, passVars,
     Happens
<1>11. KnownIssued'
  BY <1>1, <1>2, <1>3, <1>4, <1>5, <1>6 DEF JInv, Rebind, KnownIssued, history, passVars,
     Happens
<1>12. Issued'
  BY <1>1, <1>2, <1>3, <1>4, <1>5, <1>6 DEF JInv, Rebind, Issued, history, passVars, Happens
<1>13. RecordsTrue'
  BY <1>1, <1>2, <1>3, <1>4, <1>5, <1>6 DEF JInv, Rebind, RecordsTrue, history, passVars,
     Happens
<1>14. WaitingFine'
  BY <1>1, <1>2, <1>3, <1>4, <1>5, <1>6 DEF JInv, Rebind, WaitingFine, history, passVars,
     Happens
<1>15. OpenCommandsJournaled'
  BY <1>1, <1>2, <1>3, <1>4, <1>5, <1>6 DEF JInv, Rebind, OpenCommandsJournaled, history,
     passVars, Happens
<1>16. AtMostOnce' /\ DoneIsTrue'
  BY DEF JInv, Rebind, AtMostOnce, DoneIsTrue, history, passVars, Happens
<1> QED
  BY <1>2, <1>7, <1>8, <1>9, <1>10, <1>11, <1>12, <1>13, <1>14, <1>15, <1>16,
     TypeSplitsNext DEF JInv

-----------------------------------------------------------------------------
(* Taking a command.                                                       *)

\* A command that is not in the journal and that the Hub waits for was never
\* executed and never reported.
LEMMA NewIsFresh ==
  ASSUME JInv, NEW c \in Commands, StartCommand(c), c \notin Ids(Pruned(journal))
  PROVE  verdict[c] = "open" /\ runs[c] = 0 /\ said[c] = {} /\ c \notin waiting
<1>1. verdict[c] = "open"
  BY DEF StartCommand, JInv, AnswerOpen, OpenCommands
<1>2. JournalOK(journal) /\ runs \in [Commands -> Nat]
  BY TypeSplits DEF JInv, RestOK
<1>3. ~(c \in Ids(journal) /\ journal[c].res # "")
  BY <1>2, PrunedFacts
<1>4. runs[c] = 0
  <2>1. ~(runs[c] > 0)
    BY <1>1, <1>3 DEF JInv, OpenCommandsJournaled
  <2>2. runs[c] \in Nat
    BY <1>2
  <2> QED
    BY <2>1, <2>2
<1>5. said[c] = {}
  BY <1>1 DEF JInv, Issued
<1>6. c \notin waiting
  BY <1>4 DEF JInv, WaitingFine
<1> QED
  BY <1>1, <1>4, <1>5, <1>6

LEMMA StartCommandInv ==
  ASSUME JInv, NEW c \in Commands, StartCommand(c)
  PROVE  JInv'
<1> DEFINE j == Pruned(journal)
<1>1. /\ JournalOK(journal) /\ RestOK
      /\ \A d \in Ids(journal) : d \in Commands /\ journal[d].res \in Result
  BY TypeSplits, RecordTypes DEF JInv
<1>2. /\ JournalOK(j) /\ Ids(j) \subseteq Ids(journal)
      /\ \A d \in Ids(j) : j[d].res = journal[d].res
      /\ \A d \in Ids(journal) : journal[d].res # "" => d \in Ids(j)
  BY <1>1, PrunedFacts
<1>3. /\ cur = {} /\ stage = "deliver" /\ answer' \subseteq answer
      /\ answer \subseteq OpenCommands(verdict)
  BY DEF StartCommand, JInv, CurFine, Busy, AnswerOpen
<1>4. CASE c \in Ids(j)
  <2>1. journal' = j /\ cur' = cur /\ stage' = stage
    BY <1>4 DEF StartCommand
  <2> HIDE DEF j
  <2>2. JournalOK(journal)'
    BY <1>2, <2>1
  <2>3. RestOK'
    BY <1>1, <1>3, <2>1 DEF StartCommand, RestOK, history
  <2>4. CurFine' /\ AnswerOpen' /\ SentClosed'
    BY <1>3, <2>1 DEF StartCommand, CurFine, AnswerOpen, SentClosed, Busy
  <2>5. KnownIssued' /\ RecordsTrue' /\ WaitingFine'
    BY <1>2, <2>1 DEF StartCommand, JInv, KnownIssued, RecordsTrue, WaitingFine, history
  <2>6. OpenCommandsJournaled'
    BY <1>2, <2>1 DEF StartCommand, JInv, OpenCommandsJournaled, history
  <2>7. Issued' /\ AtMostOnce' /\ DoneIsTrue'
    BY DEF StartCommand, JInv, Issued, AtMostOnce, DoneIsTrue, history
  <2> QED
    BY <2>2, <2>3, <2>4, <2>5, <2>6, <2>7, TypeSplitsNext DEF JInv
<1>5. CASE c \notin Ids(j)
  <2> DEFINE k == Started(j, c)
  <2>1. journal' = Pruned(k) /\ cur' = {c} /\ stage' = "started"
    BY <1>5 DEF StartCommand
  <2>2. verdict[c] = "open" /\ runs[c] = 0 /\ said[c] = {} /\ c \notin waiting
    BY <1>5, NewIsFresh
  <2> HIDE DEF j
  <2>3. /\ JournalOK(k) /\ Ids(k) = Ids(j) \cup {c}
        /\ k[c].res = "failed" /\ \A d \in Ids(j) : k[d].res = j[d].res
    BY <1>2, <1>5, StartedFacts
  <2> HIDE DEF k
  <2>4. /\ JournalOK(journal') /\ Ids(journal') \subseteq Ids(k)
        /\ \A d \in Ids(journal') : journal'[d].res = k[d].res
        /\ \A d \in Ids(k) : k[d].res # "" => d \in Ids(journal')
    BY <2>1, <2>3, PrunedFacts
  <2>5. /\ c \in Ids(journal') /\ journal'[c].res = "failed"
        /\ \A d \in Ids(journal') \ {c} : d \in Ids(journal) /\ journal'[d].res = journal[d].res
        /\ \A d \in Ids(journal) : journal[d].res # "" => d \in Ids(journal')
    BY <1>2, <2>3, <2>4
  <2>6. RestOK'
    BY <1>1, <1>3, <2>1 DEF StartCommand, RestOK, Stages, history
  <2>7. CurFine'
    BY <2>1, <2>2, <2>5 DEF StartCommand, CurFine, Busy, history
  <2>8. AnswerOpen' /\ SentClosed'
    BY <1>3, <2>1 DEF StartCommand, AnswerOpen, SentClosed, Busy
  <2>9. KnownIssued'
    BY <2>2, <2>5 DEF StartCommand, JInv, KnownIssued
  <2>10. RecordsTrue'
    BY <2>2, <2>5 DEF StartCommand, JInv, RecordsTrue, history
  <2>11. WaitingFine'
    BY <2>2, <2>5 DEF StartCommand, JInv, WaitingFine, history
  <2>12. OpenCommandsJournaled'
    BY <2>2, <2>5 DEF StartCommand, JInv, OpenCommandsJournaled, history
  <2>13. Issued' /\ AtMostOnce' /\ DoneIsTrue'
    BY DEF StartCommand, JInv, Issued, AtMostOnce, DoneIsTrue, history
  <2> QED
    BY <2>4, <2>6, <2>7, <2>8, <2>9, <2>10, <2>11, <2>12, <2>13, TypeSplitsNext DEF JInv
<1> QED
  BY <1>4, <1>5

-----------------------------------------------------------------------------
(* The check-in.                                                           *)

\* What a check-in changes: a command whose final result it carries is closed.
LEMMA ReportFacts ==
  ASSUME JInv, Report(Results)
  PROVE  /\ Results \subseteq Ids(journal)
         /\ verdict' \in [Commands -> {"none", "open", "gone"} \cup Final]
         /\ said' \in [Commands -> SUBSET Final]
         /\ \A c \in Commands :
              verdict'[c] = IF verdict[c] = "open" /\ c \in Results /\ journal[c].res \in Final
                            THEN journal[c].res ELSE verdict[c]
         /\ \A c \in Commands :
              said'[c] = IF c \in Results THEN said[c] \cup ({journal[c].res} \cap Final)
                         ELSE said[c]
<1>1. Results \subseteq Ids(journal)
  BY DEF Results
<1>2. RestOK
  BY TypeSplits DEF JInv
<1>3. \A c \in Commands :
        verdict'[c] = IF verdict[c] = "open" /\ c \in Results /\ journal[c].res \in Final
                      THEN journal[c].res ELSE verdict[c]
  BY DEF Report, Heard
<1>4. verdict' \in [Commands -> {"none", "open", "gone"} \cup Final]
  BY <1>2 DEF Report, Heard, RestOK
<1>5. \A c \in Commands :
        said'[c] = IF c \in Results THEN said[c] \cup ({journal[c].res} \cap Final)
                   ELSE said[c]
  BY DEF Report
<1>6. said' \in [Commands -> SUBSET Final]
  BY <1>2 DEF Report, RestOK
<1> QED
  BY <1>1, <1>3, <1>4, <1>5, <1>6

\* A check-in keeps the parts about the records, whatever its answer.
LEMMA ReportKeeps ==
  ASSUME JInv, Report(Results), UNCHANGED <<journal, waiting, entry, runs, landed>>
  PROVE  /\ KnownIssued' /\ Issued' /\ RecordsTrue' /\ WaitingFine'
         /\ OpenCommandsJournaled' /\ AtMostOnce' /\ DoneIsTrue'
         /\ \A c \in Results : journal[c].res \in Final => verdict'[c] # "open"
<1>1. /\ Results \subseteq Ids(journal) /\ Ids(journal) \subseteq Commands
      /\ verdict \in [Commands -> {"none", "open", "gone"} \cup Final]
  BY ReportFacts DEF JInv, TypeOK
<1>2. /\ \A c \in Commands :
            verdict'[c] = IF verdict[c] = "open" /\ c \in Results /\ journal[c].res \in Final
                          THEN journal[c].res ELSE verdict[c]
      /\ \A c \in Commands :
            said'[c] = IF c \in Results THEN said[c] \cup ({journal[c].res} \cap Final)
                       ELSE said[c]
  BY ReportFacts
<1> HIDE DEF Results
<1>3. \A c \in Results : journal[c].res \in Final => verdict'[c] # "open"
  BY <1>1, <1>2 DEF Final
<1>4. \A c \in Commands : verdict[c] \notin {"none", "gone", "open"} => verdict[c] \in Final
  BY <1>1
<1>5. KnownIssued'
  BY <1>1, <1>2 DEF JInv, KnownIssued, Final
<1>6. Issued'
  <2>1. \A c \in Commands : runs'[c] > 0 => verdict'[c] # "none"
    BY <1>2 DEF JInv, Issued, Final
  <2>2. \A c \in Commands : said'[c] # {} => verdict'[c] \notin {"none", "open"}
    <3> SUFFICES ASSUME NEW c \in Commands, said'[c] # {}
                 PROVE  verdict'[c] \notin {"none", "open"}
      OBVIOUS
    <3>1. CASE said[c] # {}
      BY <3>1, <1>2 DEF JInv, Issued
    <3>2. CASE said[c] = {}
      <4>1. c \in Results /\ journal[c].res \in Final
        BY <3>2, <1>2
      <4>2. verdict[c] \notin {"none", "gone"} /\ verdict'[c] # "open"
        BY <4>1, <1>1, <1>3 DEF JInv, KnownIssued
      <4> QED
        BY <4>1, <4>2, <1>2 DEF Final
    <3> QED
      BY <3>1, <3>2
  <2> QED
    BY <2>1, <2>2 DEF Issued
<1>7. RecordsTrue'
  BY <1>1, <1>2 DEF JInv, RecordsTrue, Final
<1>8. WaitingFine' /\ AtMostOnce'
  BY DEF JInv, WaitingFine, AtMostOnce
<1>9. OpenCommandsJournaled'
  BY <1>2 DEF JInv, OpenCommandsJournaled, Final
<1>10. DoneIsTrue'
  BY <1>1, <1>2 DEF JInv, DoneIsTrue, RecordsTrue
<1> QED
  BY <1>3, <1>5, <1>6, <1>7, <1>8, <1>9, <1>10

LEMMA CheckInInv ==
  ASSUME JInv, NEW commands \in SUBSET Commands, CheckIn(commands)
  PROVE  JInv'
<1>1. /\ JournalOK(journal) /\ RestOK
      /\ \A d \in Ids(journal) : d \in Commands /\ journal[d].res \in Result
  BY TypeSplits, RecordTypes DEF JInv
<1>2. /\ JournalOK(journal') /\ Results \subseteq Commands
      /\ verdict' \in [Commands -> {"none", "open", "gone"} \cup Final]
      /\ said' \in [Commands -> SUBSET Final]
  BY <1>1, ReportFacts DEF CheckIn
<1>3. /\ KnownIssued' /\ Issued' /\ RecordsTrue' /\ WaitingFine'
      /\ OpenCommandsJournaled' /\ AtMostOnce' /\ DoneIsTrue'
      /\ \A c \in Results : journal[c].res \in Final => verdict'[c] # "open"
  BY ReportKeeps DEF CheckIn
<1>4. cur = {} /\ cur' = {}
  BY DEF CheckIn, JInv, CurFine, Busy
<1>5. RestOK'
  BY <1>1, <1>2 DEF CheckIn, RestOK, Stages
<1>6. CurFine' /\ AnswerOpen'
  BY <1>4 DEF CheckIn, CurFine, AnswerOpen, Busy
<1>7. SentClosed'
  BY <1>3 DEF CheckIn, SentClosed
<1> QED
  BY <1>2, <1>3, <1>5, <1>6, <1>7, TypeSplitsNext DEF JInv

LEMMA CheckInLostInv ==
  ASSUME JInv, CheckInLost
  PROVE  JInv'
<1>1. /\ JournalOK(journal) /\ RestOK
      /\ \A d \in Ids(journal) : d \in Commands /\ journal[d].res \in Result
  BY TypeSplits, RecordTypes DEF JInv
<1>2. /\ JournalOK(journal')
      /\ verdict' \in [Commands -> {"none", "open", "gone"} \cup Final]
      /\ said' \in [Commands -> SUBSET Final]
  BY <1>1, ReportFacts DEF CheckInLost
<1>3. /\ KnownIssued' /\ Issued' /\ RecordsTrue' /\ WaitingFine'
      /\ OpenCommandsJournaled' /\ AtMostOnce' /\ DoneIsTrue'
  BY ReportKeeps DEF CheckInLost
<1>4. cur = {} /\ answer = {} /\ cur' = cur /\ answer' = answer /\ stage' = "settle"
  BY DEF CheckInLost, JInv, CurFine, AnswerOpen, Busy, passVars
<1>5. faults' \in Nat
  BY <1>1, HappensCounts DEF CheckInLost
<1>6. RestOK'
  BY <1>1, <1>2, <1>4, <1>5 DEF CheckInLost, RestOK, Stages, passVars
<1>7. CurFine' /\ AnswerOpen' /\ SentClosed'
  BY <1>4 DEF CurFine, AnswerOpen, SentClosed, Busy
<1> QED
  BY <1>2, <1>3, <1>6, <1>7, TypeSplitsNext DEF JInv

-----------------------------------------------------------------------------
LEMMA StutterInv ==
  ASSUME JInv, UNCHANGED vars
  PROVE  JInv'
BY DEF vars, passVars, history, JInv, TypeOK, CurFine, AnswerOpen, SentClosed, KnownIssued,
   Issued, RecordsTrue, WaitingFine, OpenCommandsJournaled, AtMostOnce, DoneIsTrue

LEMMA NextInv ==
  ASSUME JInv, [Next]_vars
  PROVE  JInv'
<1>1. ASSUME NEW c \in Commands, Take(c)
      PROVE  JInv'
  BY <1>1, StartCommandInv, PickUpInv, ExecuteInv, RetryInv, RefuseInv, FinishCommandInv
     DEF Take
<1>2. ASSUME NEW c \in Commands, HubIssues(c) \/ FinishRetry(c) \/ Age(c)
      PROVE  JInv'
  BY <1>2, HubIssuesInv, FinishRetryInv, AgeInv
<1>3. ASSUME NEW commands \in SUBSET Commands, CheckIn(commands)
      PROVE  JInv'
  BY <1>3, CheckInInv
<1>4. ASSUME CheckInLost \/ Acknowledge \/ Delivered \/ PassEnds \/ PassDone
      PROVE  JInv'
  BY <1>4, CheckInLostInv, AcknowledgeInv, DeliveredInv, PassEndsInv, PassDoneInv
<1>5. ASSUME Land \/ Fail \/ Unblock \/ Disturb
      PROVE  JInv'
  BY <1>5, LandInv, FailInv, UnblockInv, DisturbInv
<1>6. ASSUME SaveFails \/ Restart \/ Rebind
      PROVE  JInv'
  BY <1>6, SaveFailsInv, RestartInv, RebindInv
<1>7. ASSUME UNCHANGED vars
      PROVE  JInv'
  BY <1>7, StutterInv
<1> QED
  BY <1>1, <1>2, <1>3, <1>4, <1>5, <1>6, <1>7 DEF Next

LEMMA Invariant == Spec => []JInv
<1>1. Init => JInv
  BY InitInv
<1>2. JInv /\ [Next]_vars => JInv'
  BY NextInv
<1> QED
  BY <1>1, <1>2, PTL DEF Spec

\* Every variable has its type, and no two commands of the journal share a
\* place, whatever is pruned, aged and renumbered.
THEOREM JournalTyped == Spec => []TypeOK
<1>1. JInv => TypeOK
  BY DEF JInv
<1> QED
  BY <1>1, Invariant, PTL

\* No command is executed twice, however often the Hub hands it out.
THEOREM OnceOnly == Spec => []AtMostOnce
<1>1. JInv => AtMostOnce
  BY DEF JInv
<1> QED
  BY <1>1, Invariant, PTL

\* No pruning, acknowledgement or crash loses a result the Hub waits for.
THEOREM OpenJournaled == Spec => []OpenCommandsJournaled
<1>1. JInv => OpenCommandsJournaled
  BY DEF JInv
<1> QED
  BY <1>1, Invariant, PTL

\* "done" is reported only for what was executed and, for a retry, landed.
THEOREM DoneTrue == Spec => []DoneIsTrue
<1>1. JInv => DoneIsTrue
  BY DEF JInv
<1> QED
  BY <1>1, Invariant, PTL

-----------------------------------------------------------------------------
(* The final report.                                                       *)

\* A reported command is not under way, and no step reports it differently.
LEMMA ReportStep ==
  ASSUME JInv, [Next]_vars, NEW c \in Commands, said[c] # {}
  PROVE  said'[c] = said[c] /\ runs'[c] = runs[c]
<1>1. c \notin cur /\ verdict[c] # "open"
  BY DEF JInv, CurFine, Issued
<1>2. ASSUME NEW d \in Commands, Execute(d) \/ Retry(d)
      PROVE  said'[c] = said[c] /\ runs'[c] = runs[c]
  <2>1. d # c /\ said' = said /\ runs' = [runs EXCEPT ![d] = @ + 1]
    BY <1>1, <1>2 DEF Execute, Retry
  <2> QED
    BY <2>1
<1>3. ASSUME Report(Results), runs' = runs
      PROVE  said'[c] = said[c] /\ runs'[c] = runs[c]
  <2>1. /\ Results \subseteq Ids(journal)
        /\ said'[c] = IF c \in Results THEN said[c] \cup ({journal[c].res} \cap Final)
                      ELSE said[c]
    BY <1>3, ReportFacts
  <2>2. c \in Ids(journal) /\ journal[c].res \in Final => said[c] = {journal[c].res}
    BY DEF JInv, RecordsTrue
  <2> QED
    BY <1>3, <2>1, <2>2
<1>4. ASSUME UNCHANGED <<said, runs>>
      PROVE  said'[c] = said[c] /\ runs'[c] = runs[c]
  BY <1>4
<1>5. ASSUME NEW d \in Commands, HubIssues(d) \/ FinishRetry(d) \/ Age(d) \/ StartCommand(d)
                                  \/ PickUp(d) \/ Refuse(d) \/ FinishCommand(d)
      PROVE  UNCHANGED <<said, runs>>
  BY <1>5 DEF HubIssues, FinishRetry, Age, StartCommand, PickUp, Refuse, FinishCommand,
     history
<1>6. ASSUME Acknowledge \/ Delivered \/ PassEnds \/ PassDone \/ SaveFails \/ Restart \/ Rebind
      PROVE  UNCHANGED <<said, runs>>
  BY <1>6 DEF Acknowledge, Delivered, PassEnds, PassDone, SaveFails, Restart, Rebind,
     history
<1>7. ASSUME Land \/ Fail \/ Unblock \/ Disturb
      PROVE  UNCHANGED <<said, runs>>
  BY <1>7 DEF Land, Fail, Unblock, Disturb, EntryBecomes
<1>8. ASSUME CheckInLost \/ \E commands \in SUBSET Commands : CheckIn(commands)
      PROVE  Report(Results) /\ runs' = runs
  BY <1>8 DEF CheckIn, CheckInLost
<1>9. ASSUME UNCHANGED vars
      PROVE  UNCHANGED <<said, runs>>
  BY <1>9 DEF vars, history
<1> QED
  BY <1>2, <1>3, <1>4, <1>5, <1>6, <1>7, <1>8, <1>9 DEF Next, Take

\* Once a final result was sent for a command, it stays the only one and the
\* command is never executed again.
THEOREM FinalReport == Spec => ReportIsFinal
<1>1. JInv /\ [Next]_vars =>
        [\A c \in Commands : said[c] # {} => said'[c] = said[c] /\ runs'[c] = runs[c]]_vars
  BY ReportStep
<1> QED
  BY <1>1, Invariant, PTL DEF Spec, ReportIsFinal

-----------------------------------------------------------------------------
(* The loop and its wait.                                                  *)

USE LoopAssumption DEF LoopAssumption

\* Local has heard of no policy that the owner did not set.
HeardOf == ask.policy <= hubPolicy /\ notified <= hubPolicy

LoopInv == LoopTypeOK /\ HeardOf /\ NoticesServed

LEMMA PassTyped ==
  /\ NewPass \in LoopState /\ NewPass.at = "check"
  /\ Resting \in AskState /\ Resting.policy = 0
BY DEF NewPass, LoopState, InPass, Resting, AskState

\* The flags, one by one.
Flags ==
  /\ refused \in BOOLEAN /\ unreachable \in BOOLEAN
  /\ wake \in BOOLEAN /\ policyWake \in BOOLEAN /\ retryWake \in BOOLEAN
  /\ pendingCommand \in BOOLEAN /\ handled \in BOOLEAN
Counts ==
  /\ applied \in 0..MaxPolicy /\ hubPolicy \in 1..MaxPolicy /\ applied <= hubPolicy
  /\ notified \in 0..MaxPolicy /\ notified <= hubPolicy
  /\ command \in {"none", "queued", "executed"}
  /\ troubles \in 0..MaxTroubles
LoopTyped1 == loop \in LoopState /\ blockedAt = IF loop.at = "blocked" THEN applied ELSE None
AskTyped == ask \in AskState /\ ask.policy <= hubPolicy

LEMMA LoopParts == LoopInv <=> Flags /\ Counts /\ LoopTyped1 /\ AskTyped /\ NoticesServed
<1>1. {refused, unreachable, wake, policyWake, retryWake, pendingCommand, handled} \subseteq BOOLEAN
      <=> Flags
  BY DEF Flags
<1>2. Counts /\ LoopTyped1 => blockedAt \in None..MaxPolicy
  BY DEF Counts, LoopTyped1, None
<1> QED
  BY <1>1, <1>2 DEF LoopInv, LoopTypeOK, HeardOf, Counts, LoopTyped1, AskTyped

LEMMA LoopInitInv == LoopInit => LoopInv
<1> SUFFICES ASSUME LoopInit PROVE LoopInv
  OBVIOUS
<1>1. Flags
  BY DEF LoopInit, Flags
<1>2. Counts
  BY DEF LoopInit, Counts
<1>3. LoopTyped1 /\ AskTyped
  BY <1>2, PassTyped DEF LoopInit, LoopTyped1, AskTyped, Counts
<1>4. NoticesServed
  BY PassTyped DEF LoopInit, NoticesServed, Answered
<1> QED
  BY <1>1, <1>2, <1>3, <1>4, LoopParts

LEMMA NextLoopParts ==
  LoopInv' <=> Flags' /\ Counts' /\ LoopTyped1' /\ AskTyped' /\ NoticesServed'
<1>1. {refused, unreachable, wake, policyWake, retryWake, pendingCommand, handled}' \subseteq BOOLEAN
      <=> Flags'
  BY DEF Flags
<1>2. Counts' /\ LoopTyped1' => blockedAt' \in None..MaxPolicy
  BY DEF Counts, LoopTyped1, None
<1> QED
  BY <1>1, <1>2 DEF LoopInv, LoopTypeOK, HeardOf, Counts, LoopTyped1, AskTyped

\* The steps of a pass: the check-in applies the newest policy, the commands it
\* brought are handled before the pass goes on.
LEMMA PassKeepsLoop ==
  ASSUME LoopInv, PassSteps \/ CheckInFails \/ WriteAnswered
  PROVE  LoopInv'
<1> USE LoopParts, NextLoopParts
<1>1. CASE CheckInAnswered
  <2>1. loop' \in LoopState /\ loop'.at = "take" /\ blockedAt' = None
    <3>1. (command = "queued") \in BOOLEAN /\ (hubPolicy > applied) \in BOOLEAN
      OBVIOUS
    <3>2. PICK t \in BOOLEAN, a \in BOOLEAN :
            loop' = [loop EXCEPT !.at = "take", !.taking = t, !.advanced = a]
      BY <1>1, <3>1 DEF CheckInAnswered
    <3> QED
      BY <1>1, <3>2 DEF CheckInAnswered, LoopTyped1, LoopState, InPass
  <2>2. Flags'
    BY <1>1 DEF CheckInAnswered, Flags, wakes, askVars
  <2>3. Counts'
    BY <1>1 DEF CheckInAnswered, Counts, wakes, askVars
  <2>4. LoopTyped1' /\ AskTyped'
    BY <1>1, <2>1 DEF CheckInAnswered, LoopTyped1, AskTyped, askVars
  <2>5. NoticesServed'
    BY <1>1, <2>1, <2>3 DEF CheckInAnswered, NoticesServed, Answered, Counts
  <2> QED
    BY <2>2, <2>3, <2>4, <2>5
<1>2. CASE TakeCommands
  <2>1. loop' \in LoopState /\ loop'.at = "work" /\ loop.at = "take"
    BY <1>2 DEF TakeCommands, LoopTyped1, LoopState, InPass
  <2>2. ask' \in AskState /\ ask'.policy = ask.policy
    BY <1>2 DEF TakeCommands, AskTyped, AskState
  <2>3. Flags' /\ Counts'
    BY <1>2 DEF TakeCommands, Flags, Counts, queueVars, wakes
  <2>4. LoopTyped1' /\ AskTyped'
    BY <1>2, <2>1, <2>2 DEF TakeCommands, LoopTyped1, AskTyped
  <2>5. NoticesServed'
    BY <1>2, <2>1 DEF TakeCommands, NoticesServed, Answered, queueVars, wakes
  <2> QED
    BY <2>3, <2>4, <2>5
<1>3. ASSUME NEW r \in {"ok", "failed", "blocked"}, Over(r), loop.at # "blocked",
             loop.at = "work" \/ r # "ok", UNCHANGED <<applied, notified, wake, blockedAt, ask,
                                                     pendingCommand, handled, hubPolicy>>
      PROVE  LoopTyped1' /\ AskTyped' /\ NoticesServed'
  <2>1. loop' \in LoopState /\ loop'.at = "over" /\ loop'.result = r
    BY <1>3 DEF Over, LoopTyped1, LoopState, InPass
  <2>2. LoopTyped1' /\ AskTyped'
    BY <1>3, <2>1 DEF LoopTyped1, AskTyped
  <2> QED
    BY <1>3, <2>1, <2>2 DEF NoticesServed, Answered
<1>4. CASE CheckInFails
  <2>1. Flags' /\ Counts'
    BY <1>4 DEF CheckInFails, Trouble, Flags, Counts, wakes, askVars
  <2> QED
    BY <1>3, <1>4, <2>1 DEF CheckInFails, wakes, askVars
<1>5. CASE Refused \/ PassEnded
  <2>1. /\ UNCHANGED <<applied, wakes, blockedAt, askVars, handled, hubPolicy, command>>
        /\ refused' \in {TRUE, refused} /\ troubles' \in 0..MaxTroubles
        /\ unreachable' \in BOOLEAN
    <3>1. (unreachable \/ ~refused) \in BOOLEAN
      OBVIOUS
    <3>2. CASE Refused
      <4>1. /\ UNCHANGED <<applied, wakes, blockedAt, askVars, handled, hubPolicy, command>>
            /\ refused' = TRUE /\ troubles' = troubles
        BY <3>2, Zenon DEF Refused
      <4>2. unreachable' \in BOOLEAN
        BY <3>1, <3>2, Zenon DEF Refused
      <4> QED
        BY <4>1, <4>2 DEF Counts
    <3>3. CASE PassEnded
      <4>1. UNCHANGED <<applied, refused, wakes, blockedAt, askVars, handled, hubPolicy, command>>
        BY <3>3, Zenon DEF PassEnded
      <4>2. \/ UNCHANGED <<unreachable, troubles>>
            \/ unreachable' = TRUE /\ Trouble
        BY <3>3, Zenon DEF PassEnded
      <4>3. troubles' \in 0..MaxTroubles
        BY <4>2 DEF Trouble, Counts
      <4>4. unreachable' \in BOOLEAN
        BY <4>2, Zenon DEF Flags
      <4> QED
        BY <4>1, <4>3, <4>4
    <3> QED
      BY <1>5, <3>2, <3>3
  <2>2. Flags' /\ Counts'
    BY <2>1 DEF Flags, Counts, wakes, askVars
  <2>3. loop.at = "work" /\ \E r \in {"ok", "failed", "blocked"} : Over(r)
    BY <1>5 DEF Refused, PassEnded
  <2> QED
    BY <1>3, <2>1, <2>2, <2>3 DEF wakes, askVars
<1>6. CASE WriteAnswered
  <2>1. Flags' /\ Counts'
    BY <1>6 DEF WriteAnswered, Flags, Counts, wakes, askVars
  <2> QED
    BY <1>6, <2>1 DEF WriteAnswered, LoopTyped1, AskTyped, NoticesServed, Answered, wakes, askVars
<1> QED
  BY <1>1, <1>2, <1>4, <1>5, <1>6 DEF PassSteps

\* The loop: every pass that it begins checks in first.
LEMMA LoopKeepsLoop ==
  ASSUME LoopInv, LoopSteps
  PROVE  LoopInv'
<1> USE LoopParts, NextLoopParts
<1>1. CASE Interrupt \/ Again \/ Unblocks \/ IdleEnds
  <2>1. loop' = NewPass /\ wake' = FALSE
    BY <1>1 DEF Interrupt, Again, Unblocks, IdleEnds, BeginPass
  <2>2. /\ retryWake' \in {retryWake, FALSE} /\ policyWake' \in {policyWake, FALSE}
        /\ UNCHANGED <<queueVars, askVars, handled, hubPolicy, command, troubles>>
    BY <1>1 DEF Interrupt, Again, Unblocks, IdleEnds
  <2>3. blockedAt' = None
    BY <1>1 DEF Interrupt, Again, Unblocks, IdleEnds, LoopTyped1, InPass
  <2>4. Flags' /\ Counts'
    BY <2>1, <2>2 DEF Flags, Counts, queueVars, askVars
  <2>5. LoopTyped1' /\ AskTyped' /\ NoticesServed'
    BY <2>1, <2>2, <2>3, PassTyped DEF LoopTyped1, AskTyped, NoticesServed, Answered, askVars
  <2> QED
    BY <2>4, <2>5
<1>2. CASE Blocks \/ GoesIdle
  <2>1. loop' \in LoopState /\ loop'.at \in {"idle", "blocked"}
    BY <1>2 DEF Blocks, GoesIdle, LoopTyped1, LoopState
  <2>2. blockedAt' = IF loop'.at = "blocked" THEN applied ELSE None
    BY <1>2 DEF Blocks, GoesIdle, LoopTyped1, LoopState
  <2>3. /\ wake' \in {wake, FALSE} /\ policyWake' \in {policyWake, FALSE}
        /\ UNCHANGED <<retryWake, queueVars, askVars, handled, hubPolicy, command, troubles>>
    BY <1>2 DEF Blocks, GoesIdle, wakes
  <2>4. Flags' /\ Counts'
    BY <2>3 DEF Flags, Counts, queueVars, askVars
  <2>5. LoopTyped1' /\ AskTyped' /\ NoticesServed'
    BY <2>1, <2>2, <2>3 DEF LoopTyped1, AskTyped, NoticesServed, Answered, queueVars, askVars
  <2> QED
    BY <2>4, <2>5
<1> QED
  BY <1>1, <1>2 DEF LoopSteps

\* The wait: what it newly notices wakes the loop that is not blocked.
LEMMA WaitKeepsLoop ==
  ASSUME LoopInv, WaitSteps \/ WaitFails
  PROVE  LoopInv'
<1> USE LoopParts, NextLoopParts
<1>1. CASE Ask
  <2>1. ask' \in AskState /\ ask'.policy <= hubPolicy
    <3>1. ask' = [Resting EXCEPT !.at = "asked", !.since = applied, !.newer = handled]
      BY <1>1, Zenon DEF Ask
    <3>2. applied \in 0..MaxPolicy /\ handled \in BOOLEAN /\ 0 <= hubPolicy
      BY DEF Counts, Flags
    <3> QED
      BY <3>1, <3>2, PassTyped DEF AskState
  <2>2. Flags' /\ Counts'
    BY <1>1 DEF Ask, Flags, Counts, queueVars, wakes
  <2> QED
    BY <1>1, <2>1, <2>2 DEF Ask, LoopTyped1, AskTyped, NoticesServed, Answered, queueVars, wakes
<1>2. CASE Replied
  <2>1. ask' \in AskState /\ ask'.policy <= hubPolicy
    <3>1. (command # "none") \in BOOLEAN
      OBVIOUS
    <3>2. PICK n \in BOOLEAN :
            ask' = [ask EXCEPT !.at = "replied", !.policy = hubPolicy, !.commands = n]
      BY <1>2, <3>1 DEF Replied
    <3>3. hubPolicy \in 0..MaxPolicy /\ hubPolicy <= hubPolicy
      BY DEF Counts
    <3> QED
      BY <3>2, <3>3 DEF AskTyped, AskState
  <2>2. Flags' /\ Counts'
    BY <1>2 DEF Replied, Flags, Counts, wakes
  <2> QED
    BY <1>2, <2>1, <2>2 DEF Replied, LoopTyped1, AskTyped, NoticesServed, Answered, wakes
<1>3. CASE Hear
  <2>1. AskTyped'
    BY <1>3, PassTyped DEF Hear, AskTyped, Counts
  <2>2. notified' \in {notified, ask.policy}
    BY <1>3 DEF Hear
  <2>3. /\ wake' \in {wake, TRUE} /\ policyWake' \in {policyWake, TRUE}
        /\ UNCHANGED <<loop, queueVars, retryWake, blockedAt, hubPolicy, command, troubles>>
    BY <1>3 DEF Hear, Wakes
  <2>4. pendingCommand' \in BOOLEAN /\ handled' \in BOOLEAN
    <3>1. StillPending \in BOOLEAN /\ ask.commands \in BOOLEAN /\ ask.behind \in BOOLEAN
      BY DEF StillPending, AskTyped, AskState, Flags
    <3> QED
      BY <1>3, <3>1 DEF Hear, Flags
  <2>5. Flags' /\ Counts'
    BY <2>2, <2>3, <2>4 DEF Flags, Counts, AskTyped, AskState, queueVars
  <2>6. LoopTyped1'
    BY <2>3 DEF LoopTyped1, queueVars
  <2>7. ASSUME Answered
        PROVE  \/ wake' = TRUE
               \/ UNCHANGED <<wake, notified, handled>> /\ (pendingCommand' => pendingCommand)
    <3>1. blockedAt = None
      BY <2>7 DEF Answered, LoopTyped1
    <3>2. CASE PolicyChanged \/ (ask.commands /\ ~StillPending)
      BY <1>3, <3>1, <3>2 DEF Hear, Wakes
    <3>3. CASE ~PolicyChanged /\ ~(ask.commands /\ ~StillPending)
      <4>1. UNCHANGED <<wake, notified, handled>> /\ pendingCommand' = StillPending
        BY <1>3, <3>1, <3>3 DEF Hear
      <4> QED
        BY <4>1 DEF StillPending
    <3> QED
      BY <3>2, <3>3
  <2>8. NoticesServed'
    <3>1. UNCHANGED <<loop, applied>> /\ (Answered' <=> Answered)
      BY <2>3 DEF Answered, queueVars
    <3> QED
      BY <2>7, <3>1 DEF NoticesServed
  <2> QED
    BY <2>1, <2>5, <2>6, <2>8
<1>4. CASE WaitFails \/ RetryPass
  <2>1. ask' \in AskState /\ ask'.policy = 0
    BY <1>4, PassTyped DEF WaitFails, RetryPass, AskState, Resting
  <2>2. /\ unreachable' \in {unreachable, TRUE} /\ troubles' \in 0..MaxTroubles
        /\ wake' \in {wake, TRUE}
        /\ UNCHANGED <<loop, applied, refused, policyWake, retryWake, blockedAt, notified,
                       pendingCommand, handled, hubPolicy, command>>
    <3>1. CASE WaitFails
      BY <3>1 DEF WaitFails, Trouble, Counts, wakes
    <3>2. CASE RetryPass
      BY <3>2 DEF RetryPass, WakeIfIdle, Counts, queueVars
    <3> QED
      BY <1>4, <3>1, <3>2
  <2>3. Flags' /\ Counts'
    BY <2>2 DEF Flags, Counts
  <2>4. LoopTyped1' /\ AskTyped'
    BY <2>1, <2>2 DEF LoopTyped1, AskTyped, Counts
  <2>5. NoticesServed'
    <3>1. (Answered' <=> Answered) /\ (wake => wake' = TRUE)
      <4>1. loop' = loop /\ wake' \in {wake, TRUE} /\ wake \in BOOLEAN
        BY <2>2 DEF Flags
      <4> QED
        BY <4>1 DEF Answered
    <3>2. UNCHANGED <<loop, applied, notified, pendingCommand, handled>>
      BY <2>2
    <3> QED
      BY <3>1, <3>2 DEF NoticesServed
  <2> QED
    BY <2>3, <2>4, <2>5
<1> QED
  BY <1>1, <1>2, <1>3, <1>4 DEF WaitSteps

LEMMA LoopNextInv == LoopInv /\ [LoopNext]_loopVars => LoopInv'
<1> USE LoopParts, NextLoopParts
<1>1. ASSUME LoopInv, OwnerSetsPolicy \/ HubQueues \/ RetryNow
      PROVE  LoopInv'
  <2>1. Flags' /\ Counts'
    <3>1. CASE OwnerSetsPolicy \/ HubQueues
      BY <1>1, <3>1 DEF OwnerSetsPolicy, HubQueues, Flags, Counts, queueVars, wakes, askVars
    <3>2. CASE RetryNow
      <4>1. troubles' \in 0..MaxTroubles
        BY <1>1, <3>2 DEF RetryNow, Trouble, Counts
      <4> QED
        BY <1>1, <3>2, <4>1 DEF RetryNow, Flags, Counts, queueVars, askVars
    <3> QED
      BY <1>1, <3>1, <3>2
  <2>2. LoopTyped1'
    BY <1>1 DEF OwnerSetsPolicy, HubQueues, RetryNow, LoopTyped1, queueVars
  <2>3. AskTyped'
    BY <1>1 DEF OwnerSetsPolicy, HubQueues, RetryNow, AskTyped, AskState, Counts, askVars
  <2>4. NoticesServed'
    BY <1>1 DEF OwnerSetsPolicy, HubQueues, RetryNow, NoticesServed, Answered, queueVars, wakes, askVars
  <2> QED
    BY <2>1, <2>2, <2>3, <2>4
<1>2. ASSUME LoopInv, UNCHANGED loopVars
      PROVE  LoopInv'
  BY <1>2 DEF loopVars, queueVars, wakes, askVars, Flags, Counts, LoopTyped1, AskTyped,
              NoticesServed, Answered
<1> QED
  BY <1>1, <1>2, PassKeepsLoop, LoopKeepsLoop, WaitKeepsLoop DEF LoopNext

LoopSpec == LoopInit /\ [][LoopNext]_loopVars

LEMMA LoopInvariant == LoopSpec => []LoopInv
BY LoopInitInv, LoopNextInv, PTL DEF LoopSpec

\* Every variable of the loop has its type, and a loop that is blocked knows the
\* policy it is blocked by.
THEOREM LoopTyped == LoopSpec => []LoopTypeOK
<1>1. LoopInv => LoopTypeOK
  BY DEF LoopInv
<1> QED
  BY <1>1, LoopInvariant, PTL

\* A signal between the waiting goroutine and the loop that was consumed was
\* consumed by a pass which then checked in.
THEOREM NothingNoticedIsLost == LoopSpec => []NoticesServed
<1>1. LoopInv => NoticesServed
  BY DEF LoopInv
<1> QED
  BY <1>1, LoopInvariant, PTL

-----------------------------------------------------------------------------
(* The journal and the loop in one run.                                    *)

LEMMA MovesAreParts ==
  ASSUME [MCNext]_all
  PROVE  [Next]_vars /\ [LoopNext]_loopVars
BY DEF all, MCNext, JournalMoves, LoopMoves

\* Every behaviour that the run explores is one of the journal, but for its
\* fairness, and one of the loop: the run's bounds and the choice of who moves
\* only leave behaviours out.
THEOREM RunsJournalAndLoop == MCSpec => Init /\ [][Next]_vars /\ LoopSpec
<1>1. MCInit => Init /\ LoopInit
  BY DEF MCInit
<1> QED
  BY <1>1, MovesAreParts, PTL DEF MCSpec, LoopSpec

\* No step of the run takes a variable of the journal or of the loop out of its
\* type.
THEOREM CheckInTyped == MCSpec => []TypesOK
<1>1. MCSpec => []JInv
  BY RunsJournalAndLoop, InitInv, NextInv, PTL
<1>2. JInv /\ LoopTypeOK => TypesOK
  BY DEF TypesOK, JInv
<1> QED
  BY <1>1, <1>2, RunsJournalAndLoop, LoopTyped, PTL
=============================================================================
