-------------------------- MODULE SynthesisProofs --------------------------
(***************************************************************************)
(* Proofs about Synthesis, for every set of sessions, number of slots and  *)
(* length of rounds: types and slots, that a worker closes a round only    *)
(* with a finished row for each of its calls, and that no call goes        *)
(* unrecorded unsaid.  Both accounts follow from one invariant of a single *)
(* worker, Accounted: how many of its calls have no finished row yet, and  *)
(* why.                                                                    *)
(***************************************************************************)
EXTENDS Synthesis, FiniteSetTheorems, TLAPS

Early == {"none", "queued", "begin"}

\* The call under way, which has no finished row yet.
Under(w) == IF w.phase \in {"running", "retry", "finish"} /\ w.ran THEN 1 ELSE 0

\* The calls of worker w without a finished row: the one under way, and others
\* only if a row was lost or the round has none.
Accounted(w) ==
  /\ w.phase \in Early => w.made = 0 /\ w.recorded = 0 /\ ~w.round /\ ~w.lost
  /\ w.phase # "none" => w.revision # 0
  /\ w.phase \in {"start", "run"} => w.made < MaxCalls
  /\ w.phase = "run" => ~w.ran
  /\ w.started => w.round
  /\ w.recorded + Under(w) <= w.made
  /\ w.round /\ ~w.lost => w.made = w.recorded + Under(w)
  /\ w.round /\ ~w.lost /\ w.phase = "finish" /\ w.ran => w.started

\* A worker that may leave calls unrecorded has said so.
Excused(w) == w.lost \/ (~w.round /\ w.phase \notin Early) => ~opened \/ unavailable

Down == workers = [s \in Sessions |-> Idle] /\ ~unrecorded

WorkersInv == \A s \in Sessions : Accounted(workers[s]) /\ Excused(workers[s])

Inv ==
  /\ SynthTypeOK
  /\ WorkersInv
  /\ RoundsComplete
  /\ ~serving => Down
  /\ LostIsSaid

USE SynthesisAssumption DEF SynthesisAssumption

----------------------------------------------------------------------------
\* A worker that stays in a slot, or is in none, keeps the number of slots.
LEMMA SlotsKept ==
  ASSUME SynthTypeOK, NEW s \in Sessions, NEW w \in WorkerStates, To(s, w),
         w.phase \in {"none", "queued"} \/ InSlot(s)
  PROVE  workers' \in [Sessions -> WorkerStates]
         /\ Cardinality({u \in Sessions : InSlot(u)})' <= Slots
<1> DEFINE T == {u \in Sessions : InSlot(u)}
<1>1. IsFiniteSet(T) /\ T' \in SUBSET T
  <2>1. T \in SUBSET Sessions
    OBVIOUS
  <2>2. T' \in SUBSET T
    BY DEF SynthTypeOK, To, InSlot, WorkerStates
  <2> QED
    BY <2>1, <2>2, FS_Subset
<1>2. Cardinality(T') <= Cardinality(T) /\ IsFiniteSet(T')
  BY <1>1, FS_Subset
<1>3. Cardinality(T) \in Nat /\ Cardinality(T') \in Nat
  BY <1>1, <1>2, FS_CardinalityType
<1>4. Cardinality(T) <= Slots
  BY DEF SynthTypeOK
<1>5. workers' \in [Sessions -> WorkerStates]
  BY DEF SynthTypeOK, To
<1> QED
  BY <1>2, <1>3, <1>4, <1>5

\* One that takes a free slot adds one.
LEMMA SlotTaken ==
  ASSUME SynthTypeOK, NEW s \in Sessions, NEW w \in WorkerStates, To(s, w),
         Cardinality({u \in Sessions : InSlot(u)}) < Slots
  PROVE  workers' \in [Sessions -> WorkerStates]
         /\ Cardinality({u \in Sessions : InSlot(u)})' <= Slots
<1> DEFINE T == {u \in Sessions : InSlot(u)}
<1>1. IsFiniteSet(T)
  <2>1. T \in SUBSET Sessions
    OBVIOUS
  <2> QED
    BY <2>1, FS_Subset
<1>2. T' \in SUBSET (T \cup {s})
  BY DEF SynthTypeOK, To, InSlot, WorkerStates
<1>3. IsFiniteSet(T \cup {s}) /\ Cardinality(T \cup {s}) <= Cardinality(T) + 1
  <2>1. Cardinality(T) \in Nat
    BY <1>1, FS_CardinalityType
  <2> HIDE DEF T
  <2>2. /\ IsFiniteSet(T \cup {s})
        /\ Cardinality(T \cup {s}) = IF s \in T THEN Cardinality(T) ELSE Cardinality(T) + 1
    BY <1>1, FS_AddElement
  <2> QED
    BY <2>1, <2>2
<1>4. IsFiniteSet(T') /\ Cardinality(T') <= Cardinality(T \cup {s})
  BY <1>2, <1>3, FS_Subset
<1>5. Cardinality(T) \in Nat /\ Cardinality(T') \in Nat /\ Cardinality(T \cup {s}) \in Nat
  BY <1>1, <1>3, <1>4, FS_CardinalityType
<1>6. workers' \in [Sessions -> WorkerStates]
  BY DEF SynthTypeOK, To
<1> QED
  BY <1>3, <1>4, <1>5, <1>6

\* What is left to show of a step of the worker of s that becomes w.
RestTyped ==
  /\ cached' \in [Sessions -> 0..MaxRevision]
  /\ cooldown' \subseteq [session: Sessions, revision: 1..MaxRevision]
  /\ cliMissing' \in BOOLEAN /\ unavailable' \in BOOLEAN
  /\ marker' \in BOOLEAN /\ unrecorded' \in BOOLEAN
  /\ troubles' \in 0..MaxTroubles /\ left' \in BOOLEAN
  /\ UNCHANGED <<askVars, runner, serving, stopped, opened, dbDown, short>>

LEMMA WorkerStep ==
  ASSUME Inv, NEW s \in Sessions, NEW w \in WorkerStates, To(s, w),
         \/ w.phase \in {"none", "queued"} \/ InSlot(s)
         \/ Cardinality({u \in Sessions : InSlot(u)}) < Slots,
         workers[s].phase # "none",
         RestTyped,
         unavailable => unavailable', marker => marker',
         Accounted(w), Excused(w)',
         unrecorded' => unrecorded \/ ~opened \/ unavailable'
  PROVE  Inv'
<1>1. workers' \in [Sessions -> WorkerStates]
      /\ Cardinality({u \in Sessions : InSlot(u)})' <= Slots
  BY SlotsKept, SlotTaken DEF Inv
<1>2. SynthTypeOK'
  BY <1>1 DEF Inv, SynthTypeOK, RestTyped, askVars
<1>3. WorkersInv'
  <2> SUFFICES ASSUME NEW u \in Sessions
               PROVE  (Accounted(workers[u]) /\ Excused(workers[u]))'
    BY DEF WorkersInv
  <2>1. CASE u = s
    BY <2>1 DEF To, Inv, SynthTypeOK
  <2>2. CASE u # s
    <3>1. workers'[u] = workers[u]
      BY <2>2 DEF To, Inv, SynthTypeOK
    <3> QED
      BY <3>1 DEF Inv, WorkersInv, Excused, RestTyped
  <2> QED
    BY <2>1, <2>2
<1>4. serving
  BY DEF Inv, Down, Idle
<1>5. LostIsSaid'
  BY <1>4 DEF Inv, LostIsSaid, CostsUnavailable, RestTyped
<1> QED
  BY <1>2, <1>3, <1>4, <1>5 DEF Inv, RestTyped, RoundsComplete

\* The worker of s leaves.
LEMMA WorkerLeaves ==
  ASSUME Inv, NEW s \in Sessions, Leaves(s),
         workers[s].phase # "none",
         RestTyped,
         unavailable => unavailable', marker => marker',
         workers[s].phase \in Early \/ Under(workers[s]) = 0
  PROVE  Inv'
<1>1. Idle \in WorkerStates /\ Idle.phase = "none" /\ ~Idle.lost
  BY DEF Idle, WorkerStates
<1>2. Accounted(Idle) /\ Excused(Idle)'
  BY DEF Accounted, Excused, Idle, Early, Under
<1>3. unrecorded' => unrecorded \/ ~opened \/ unavailable'
  <2>1. Accounted(workers[s]) /\ Excused(workers[s]) /\ workers[s] \in WorkerStates
    BY DEF Inv, WorkersInv, SynthTypeOK
  <2> QED
    BY <2>1 DEF Leaves, Accounted, Excused, Early, Under, WorkerStates
<1> QED
  BY <1>1, <1>2, <1>3, WorkerStep DEF Leaves

----------------------------------------------------------------------------
LEMMA InitInv == SynthInit => Inv
<1> SUFFICES ASSUME SynthInit PROVE Inv
  OBVIOUS
<1>1. Idle \in WorkerStates /\ Idle.phase = "none"
  BY DEF Idle, WorkerStates
<1>2. Cardinality({u \in Sessions : InSlot(u)}) <= Slots
  <2>1. {u \in Sessions : InSlot(u)} = {}
    BY <1>1 DEF SynthInit, InSlot
  <2> QED
    BY <2>1, FS_EmptySet
<1>3. SynthTypeOK
  <2>1. revision \in [Sessions -> 1..MaxRevision] /\ cached \in [Sessions -> 0..MaxRevision]
        /\ listed \in [Sessions -> 0..MaxRevision] /\ checked \in [Sessions -> 0..MaxRevision]
    BY DEF SynthInit
  <2>2. workers \in [Sessions -> WorkerStates]
    BY <1>1 DEF SynthInit
  <2>3. cooldown \subseteq [session: Sessions, revision: 1..MaxRevision]
        /\ troubles \in 0..MaxTroubles
    BY DEF SynthInit
  <2>4. /\ runner \in BOOLEAN /\ cliMissing \in BOOLEAN /\ serving \in BOOLEAN
        /\ stopped \in BOOLEAN /\ opened \in BOOLEAN /\ unavailable \in BOOLEAN
        /\ marker \in BOOLEAN /\ dbDown \in BOOLEAN /\ left \in BOOLEAN
        /\ short \subseteq Closings /\ unrecorded \in BOOLEAN
    BY DEF SynthInit
  <2> QED
    BY <1>2, <2>1, <2>2, <2>3, <2>4 DEF SynthTypeOK
<1>4. Accounted(Idle) /\ Excused(Idle)
  BY DEF Accounted, Excused, Idle, Early, Under
<1> QED
  BY <1>3, <1>4 DEF SynthInit, Inv, WorkersInv, Down, LostIsSaid, RoundsComplete

\* Steps that leave the workers alone.
LEMMA AskStep ==
  ASSUME Inv, List \/ \E s \in Sessions : Works(s) \/ SweepChecks(s) \/ ShareChecks(s)
  PROVE  Inv'
<1>1. UNCHANGED <<cached, workers, runner, cooldown, cliMissing, serving, stopped, accountVars,
                  dbDown, troubles>>
  BY DEF Works, List, SweepChecks, ShareChecks
<1>2. revision' \in [Sessions -> 1..MaxRevision] /\ listed' \in [Sessions -> 0..MaxRevision]
      /\ checked' \in [Sessions -> 0..MaxRevision]
  BY DEF Inv, SynthTypeOK, Works, List, SweepChecks, ShareChecks
<1>3. SynthTypeOK'
  BY <1>1, <1>2 DEF Inv, SynthTypeOK, accountVars, ledger, InSlot
<1>4. WorkersInv'
  BY <1>1 DEF Inv, WorkersInv, Excused, accountVars
<1> QED
  BY <1>1, <1>3, <1>4 DEF Inv, Down, LostIsSaid, CostsUnavailable, RoundsComplete, accountVars,
     ledger

LEMMA ClaimStep ==
  ASSUME Inv, NEW s \in Sessions, Claim(s)
  PROVE  Inv'
<1>1. checked' \in [Sessions -> 0..MaxRevision] /\ serving /\ checked[s] # 0
      /\ UNCHANGED <<revision, listed, cached, runner, cooldown, cliMissing, serving, stopped,
                     accountVars, dbDown, troubles>>
  BY DEF Inv, SynthTypeOK, Claim
<1>2. CASE UNCHANGED workers
  <2>1. SynthTypeOK'
    BY <1>1, <1>2 DEF Inv, SynthTypeOK, accountVars, ledger, InSlot
  <2>2. WorkersInv'
    BY <1>1, <1>2 DEF Inv, WorkersInv, Excused, accountVars
  <2> QED
    BY <1>1, <1>2, <2>1, <2>2 DEF Inv, LostIsSaid, CostsUnavailable, RoundsComplete, accountVars,
     ledger
<1>3. CASE To(s, [Idle EXCEPT !.phase = "queued", !.revision = checked[s]])
  <2>1. PICK w \in WorkerStates : w = [Idle EXCEPT !.phase = "queued", !.revision = checked[s]]
    <3>1. checked[s] \in 0..MaxRevision
      BY DEF Inv, SynthTypeOK
    <3>2. Idle \in WorkerStates
      BY DEF Idle, WorkerStates
    <3> QED
      BY <3>1, <3>2 DEF WorkerStates
  <2>2. w.phase = "queued" /\ To(s, w)
    BY <1>3, <2>1 DEF Idle
  <2>3. Accounted(w) /\ Excused(w)'
    BY <1>1, <2>1 DEF Accounted, Excused, Idle, Early, Under
  <2>4. SynthTypeOK'
    <3>1. workers' \in [Sessions -> WorkerStates]
          /\ Cardinality({u \in Sessions : InSlot(u)})' <= Slots
      BY <2>2, SlotsKept DEF Inv
    <3> QED
      BY <1>1, <3>1 DEF Inv, SynthTypeOK, accountVars, ledger
  <2>5. WorkersInv'
    <3> SUFFICES ASSUME NEW u \in Sessions
                 PROVE  (Accounted(workers[u]) /\ Excused(workers[u]))'
      BY DEF WorkersInv
    <3>1. workers'[u] = IF u = s THEN w ELSE workers[u]
      BY <2>2 DEF To, Inv, SynthTypeOK
    <3> QED
      BY <1>1, <2>3, <3>1 DEF Inv, WorkersInv, Excused, accountVars
  <2> QED
    BY <1>1, <2>4, <2>5 DEF Inv, LostIsSaid, CostsUnavailable, RoundsComplete, accountVars,
     ledger
<1> QED
  BY <1>2, <1>3 DEF Claim, To

----------------------------------------------------------------------------
(* The steps of a worker.  Each lemma names the state the worker takes, shows *)
(* that it is accounted for, and leaves the rest to WorkerStep.               *)

\* What the invariant says of the worker of s.
LEMMA AtWorker ==
  ASSUME Inv, NEW s \in Sessions
  PROVE  workers[s] \in WorkerStates /\ Accounted(workers[s]) /\ Excused(workers[s])
BY DEF Inv, WorkersInv, SynthTypeOK

\* Variables a worker leaves alone keep their types.
LEMMA RestKept ==
  ASSUME Inv, UNCHANGED <<askVars, cached, runner, cooldown, cliMissing, serving, stopped,
                          opened, ledger, dbDown, troubles>>,
         unavailable' \in BOOLEAN, marker' \in BOOLEAN, unrecorded' \in BOOLEAN
  PROVE  RestTyped
BY DEF RestTyped, Inv, SynthTypeOK, askVars, ledger

LEMMA Booleans ==
  ASSUME Inv
  PROVE  unavailable \in BOOLEAN /\ marker \in BOOLEAN /\ unrecorded \in BOOLEAN
         /\ left \in BOOLEAN
BY DEF Inv, SynthTypeOK

LEMMA ErrorSaid ==
  ASSUME Inv, AccountingError
  PROVE  unavailable' = TRUE /\ marker' \in BOOLEAN /\ (marker => marker')
<1>1. marker \in BOOLEAN /\ opened \in BOOLEAN
  BY DEF Inv, SynthTypeOK
<1>2. marker' = marker \/ marker' = (marker \/ opened)
  BY DEF AccountingError
<1> QED
  BY <1>1, <1>2 DEF AccountingError

LEMMA LeavesSays ==
  ASSUME NEW s \in Sessions, Leaves(s)
  PROVE  unrecorded' \in BOOLEAN
<1>1. unrecorded' = (unrecorded \/ workers[s].made # workers[s].recorded)
  BY DEF Leaves
<1> QED
  BY <1>1

LEMMA TakeSlotStep ==
  ASSUME Inv, NEW s \in Sessions, TakeSlot(s)
  PROVE  Inv'
<1>1. workers[s] \in WorkerStates /\ Accounted(workers[s]) /\ Excused(workers[s])
      /\ workers[s].phase = "queued"
  BY AtWorker DEF TakeSlot
<1>2. UNCHANGED <<askVars, cached, runner, cooldown, cliMissing, serving, stopped, opened,
                  unavailable, marker, ledger, dbDown, troubles>>
  BY DEF TakeSlot
<1>3. CASE Leaves(s)
  <2>1. RestTyped
    BY <1>2, <1>3, RestKept, LeavesSays, Booleans
  <2> QED
    BY <1>1, <1>2, <1>3, <2>1, WorkerLeaves DEF Early
<1>4. CASE Cardinality({u \in Sessions : InSlot(u)}) < Slots /\ Moves(s, "begin")
           /\ UNCHANGED unrecorded
  <2>1. PICK w \in WorkerStates : w = [workers[s] EXCEPT !.phase = "begin"]
    BY <1>1 DEF WorkerStates
  <2>2. Accounted(w) /\ Excused(w)'
    BY <1>1, <2>1 DEF Accounted, Excused, Early, Under, WorkerStates
  <2>3. RestTyped
    BY <1>2, <1>4, RestKept, Booleans
  <2>4. To(s, w)
    BY <1>4, <2>1 DEF Moves
  <2> QED
    BY <1>1, <1>2, <1>4, <2>2, <2>3, <2>4, WorkerStep
<1> QED
  BY <1>3, <1>4 DEF TakeSlot

LEMMA BeginStep ==
  ASSUME Inv, NEW s \in Sessions, Begin(s)
  PROVE  Inv'
<1>1. workers[s] \in WorkerStates /\ Accounted(workers[s]) /\ Excused(workers[s])
      /\ workers[s].phase = "begin" /\ InSlot(s)
  BY AtWorker DEF Begin, InSlot
<1>2. UNCHANGED <<askVars, cached, runner, cooldown, cliMissing, serving, stopped, opened,
                  ledger, dbDown, troubles>>
  BY DEF Begin
<1>3. CASE Leaves(s) /\ UNCHANGED <<unavailable, marker>>
  <2>1. RestTyped
    BY <1>2, <1>3, RestKept, LeavesSays, Booleans
  <2> QED
    BY <1>1, <1>2, <1>3, <2>1, WorkerLeaves DEF Early
<1>4. CASE /\ To(s, [workers[s] EXCEPT !.phase = "start", !.round = TRUE])
           /\ UNCHANGED <<unrecorded, unavailable, marker>>
  <2>1. PICK w \in WorkerStates : w = [workers[s] EXCEPT !.phase = "start", !.round = TRUE]
    BY <1>1 DEF WorkerStates
  <2>2. Accounted(w) /\ Excused(w)'
    BY <1>1, <2>1 DEF Accounted, Excused, Early, Under, WorkerStates
  <2>3. RestTyped
    BY <1>2, <1>4, RestKept, Booleans
  <2> QED
    BY <1>1, <1>2, <1>4, <2>1, <2>2, <2>3, WorkerStep
<1>5. CASE /\ Moves(s, "start") /\ UNCHANGED unrecorded
           /\ AccountingError \/ (~opened /\ UNCHANGED <<unavailable, marker>>)
  <2>1. PICK w \in WorkerStates : w = [workers[s] EXCEPT !.phase = "start"]
    BY <1>1 DEF WorkerStates
  <2>2. ~opened \/ unavailable'
    BY <1>5, ErrorSaid
  <2>3. Accounted(w) /\ Excused(w)'
    BY <1>1, <1>2, <2>1, <2>2 DEF Accounted, Excused, Early, Under, WorkerStates
  <2>4. unavailable' \in BOOLEAN /\ marker' \in BOOLEAN
        /\ (unavailable => unavailable') /\ (marker => marker')
    <3>1. CASE AccountingError
      BY <3>1, ErrorSaid
    <3>2. CASE unavailable' = unavailable /\ marker' = marker
      BY <3>2, Booleans
    <3> QED
      BY <1>5, <3>1, <3>2
  <2>5. RestTyped
    BY <1>2, <1>5, <2>4, RestKept, Booleans
  <2>6. To(s, w)
    BY <1>5, <2>1 DEF Moves
  <2> QED
    BY <1>1, <1>2, <1>5, <2>3, <2>4, <2>5, <2>6, WorkerStep
<1> QED
  BY <1>3, <1>4, <1>5 DEF Begin

\* A worker's step that changes nothing but the worker.
LEMMA QuietStep ==
  ASSUME Inv, NEW s \in Sessions, NEW w \in WorkerStates, To(s, w), InSlot(s),
         UNCHANGED <<askVars, cached, runner, cooldown, cliMissing, serving, stopped,
                     accountVars, dbDown, troubles>>,
         Accounted(w), Excused(w)
  PROVE  Inv'
<1>1. RestTyped
  BY RestKept, Booleans DEF accountVars
<1>2. Excused(w)'
  BY DEF Excused, accountVars
<1>3. workers[s].phase # "none" /\ UNCHANGED <<unavailable, marker, unrecorded>>
  BY DEF InSlot, accountVars
<1> QED
  BY <1>1, <1>2, <1>3, WorkerStep

LEMMA StartInvocationStep ==
  ASSUME Inv, NEW s \in Sessions, StartInvocation(s)
  PROVE  Inv'
<1>1. workers[s] \in WorkerStates /\ Accounted(workers[s]) /\ Excused(workers[s])
      /\ workers[s].phase = "start" /\ InSlot(s)
  BY AtWorker DEF StartInvocation, InSlot
<1>2. UNCHANGED <<askVars, cached, runner, cooldown, cliMissing, serving, stopped,
                  accountVars, dbDown, troubles>>
  BY DEF StartInvocation
<1>3. CASE Moves(s, "settle")
  <2>1. PICK w \in WorkerStates : w = [workers[s] EXCEPT !.phase = "settle"]
    BY <1>1 DEF WorkerStates
  <2>2. Accounted(w) /\ Excused(w)
    BY <1>1, <2>1 DEF Accounted, Excused, Early, Under, WorkerStates
  <2> QED
    BY <1>1, <1>2, <1>3, <2>1, <2>2, QuietStep DEF Moves
<1>4. CASE To(s, [workers[s] EXCEPT !.phase = "run", !.ran = FALSE, !.result = "none",
                                    !.started = workers[s].round /\ ~dbDown])
  <2>1. PICK w \in WorkerStates :
          w = [workers[s] EXCEPT !.phase = "run", !.ran = FALSE, !.result = "none",
                                 !.started = workers[s].round /\ ~dbDown]
    BY <1>1 DEF WorkerStates
  <2>2. Accounted(w) /\ Excused(w)
    BY <1>1, <2>1 DEF Accounted, Excused, Early, Under, WorkerStates
  <2> QED
    BY <1>1, <1>2, <1>4, <2>1, <2>2, QuietStep
<1> QED
  BY <1>3, <1>4 DEF StartInvocation

LEMMA CallRunnerStep ==
  ASSUME Inv, NEW s \in Sessions, CallRunner(s)
  PROVE  Inv'
<1>1. workers[s] \in WorkerStates /\ Accounted(workers[s]) /\ Excused(workers[s])
      /\ workers[s].phase = "run" /\ InSlot(s)
  BY AtWorker DEF CallRunner, InSlot
<1>2. UNCHANGED <<askVars, cached, runner, cooldown, cliMissing, serving, stopped,
                  accountVars, dbDown, troubles>>
  BY DEF CallRunner
<1>3. CASE To(s, [workers[s] EXCEPT !.phase = "finish", !.result = "failed"])
  <2>1. PICK w \in WorkerStates :
          w = [workers[s] EXCEPT !.phase = "finish", !.result = "failed"]
    BY <1>1 DEF WorkerStates
  <2>2. Accounted(w) /\ Excused(w)
    BY <1>1, <2>1 DEF Accounted, Excused, Early, Under, WorkerStates
  <2> QED
    BY <1>1, <1>2, <1>3, <2>1, <2>2, QuietStep
<1>4. CASE To(s, [workers[s] EXCEPT !.phase = "running", !.ran = TRUE, !.made = @ + 1])
  <2>1. PICK w \in WorkerStates :
          w = [workers[s] EXCEPT !.phase = "running", !.ran = TRUE, !.made = @ + 1]
    <3>1. workers[s].made < MaxCalls
      BY <1>1 DEF Accounted
    <3>2. workers[s].made + 1 \in 0..MaxCalls
      BY <1>1, <3>1 DEF WorkerStates
    <3> QED
      BY <1>1, <3>2 DEF WorkerStates
  <2>2. Accounted(w) /\ Excused(w)
    BY <1>1, <2>1 DEF Accounted, Excused, Early, Under, WorkerStates
  <2> QED
    BY <1>1, <1>2, <1>4, <2>1, <2>2, QuietStep
<1> QED
  BY <1>3, <1>4 DEF CallRunner

LEMMA RunnerAnswersStep ==
  ASSUME Inv, NEW s \in Sessions, RunnerAnswers(s)
  PROVE  Inv'
<1>1. workers[s] \in WorkerStates /\ Accounted(workers[s]) /\ Excused(workers[s])
      /\ workers[s].phase = "running" /\ InSlot(s)
  BY AtWorker DEF RunnerAnswers, InSlot
<1>2. UNCHANGED <<askVars, cached, runner, cooldown, cliMissing, serving, stopped,
                  accountVars, dbDown>>
  BY DEF RunnerAnswers
<1>3. PICK result \in {"success", "failed", "missing"} :
        To(s, [workers[s] EXCEPT !.phase = "retry", !.result = result])
  BY DEF RunnerAnswers
<1>4. PICK w \in WorkerStates : w = [workers[s] EXCEPT !.phase = "retry", !.result = result]
  BY <1>1 DEF WorkerStates
<1>5. Accounted(w) /\ Excused(w)
  BY <1>1, <1>4 DEF Accounted, Excused, Early, Under, WorkerStates
<1>6. troubles' \in 0..MaxTroubles
  BY DEF RunnerAnswers, Trouble, Inv, SynthTypeOK
<1>7. RestTyped
  <2>1. UNCHANGED <<unavailable, marker, unrecorded, left, short>>
    BY <1>2 DEF accountVars, ledger
  <2> QED
    BY <1>2, <1>6, <2>1 DEF RestTyped, Inv, SynthTypeOK, accountVars
<1>8. Excused(w)'
  BY <1>2, <1>5 DEF Excused, accountVars
<1> QED
  BY <1>1, <1>2, <1>3, <1>4, <1>5, <1>7, <1>8, WorkerStep DEF accountVars

LEMMA RetryStartStep ==
  ASSUME Inv, NEW s \in Sessions, RetryStart(s)
  PROVE  Inv'
<1>1. workers[s] \in WorkerStates /\ Accounted(workers[s]) /\ Excused(workers[s])
      /\ workers[s].phase = "retry" /\ InSlot(s)
  BY AtWorker DEF RetryStart, InSlot
<1>2. UNCHANGED <<askVars, cached, runner, cooldown, cliMissing, serving, stopped, opened,
                  ledger, unrecorded, dbDown, troubles>>
  BY DEF RetryStart
<1>3. CASE /\ ~workers[s].round \/ workers[s].started
           /\ Moves(s, "finish") /\ UNCHANGED <<unavailable, marker>>
  <2>1. PICK w \in WorkerStates : w = [workers[s] EXCEPT !.phase = "finish"]
    BY <1>1 DEF WorkerStates
  <2>2. Accounted(w) /\ Excused(w)
    BY <1>1, <1>3, <2>1 DEF Accounted, Excused, Early, Under, WorkerStates
  <2> QED
    BY <1>1, <1>2, <1>3, <2>1, <2>2, QuietStep DEF Moves, accountVars
<1>4. CASE /\ workers[s].round
           /\ To(s, [workers[s] EXCEPT !.phase = "finish", !.started = TRUE])
           /\ UNCHANGED <<unavailable, marker>>
  <2>1. PICK w \in WorkerStates : w = [workers[s] EXCEPT !.phase = "finish", !.started = TRUE]
    BY <1>1 DEF WorkerStates
  <2>2. Accounted(w) /\ Excused(w)
    BY <1>1, <1>4, <2>1 DEF Accounted, Excused, Early, Under, WorkerStates
  <2> QED
    BY <1>1, <1>2, <1>4, <2>1, <2>2, QuietStep DEF accountVars
<1>5. CASE /\ workers[s].round
           /\ To(s, [workers[s] EXCEPT !.phase = "finish", !.lost = TRUE])
           /\ AccountingError
  <2>1. PICK w \in WorkerStates : w = [workers[s] EXCEPT !.phase = "finish", !.lost = TRUE]
    BY <1>1 DEF WorkerStates
  <2>2. unavailable' = TRUE /\ marker' \in BOOLEAN /\ (marker => marker')
    BY <1>5, ErrorSaid
  <2>3. Accounted(w) /\ Excused(w)'
    BY <1>1, <2>1, <2>2 DEF Accounted, Excused, Early, Under, WorkerStates
  <2>4. RestTyped
    BY <1>2, <2>2, RestKept, Booleans
  <2> QED
    BY <1>1, <1>2, <1>5, <2>1, <2>2, <2>3, <2>4, WorkerStep
<1> QED
  BY <1>3, <1>4, <1>5 DEF RetryStart

LEMMA FinishInvocationStep ==
  ASSUME Inv, NEW s \in Sessions, FinishInvocation(s)
  PROVE  Inv'
<1>1. workers[s] \in WorkerStates /\ Accounted(workers[s]) /\ Excused(workers[s])
      /\ workers[s].phase = "finish" /\ InSlot(s)
  BY AtWorker DEF FinishInvocation, InSlot
<1>2. UNCHANGED <<askVars, cached, runner, cooldown, cliMissing, serving, stopped, opened,
                  marker, ledger, unrecorded, dbDown, troubles>>
  BY DEF FinishInvocation
<1>3. PICK phase \in NextPhases(s) :
       \/ ~workers[s].started /\ Moves(s, phase) /\ UNCHANGED unavailable
       \/ /\ workers[s].started
          /\ To(s, [workers[s] EXCEPT !.phase = phase,
                                      !.recorded = IF workers[s].ran THEN @ + 1 ELSE @])
          /\ UNCHANGED unavailable
       \/ /\ To(s, [workers[s] EXCEPT !.phase = phase, !.lost = TRUE])
          /\ unavailable' = TRUE
  BY DEF FinishInvocation
<1>4. phase \in {"start", "settle"} /\ (phase = "start" => workers[s].made < MaxCalls)
  BY DEF NextPhases
<1>5. CASE ~workers[s].started /\ Moves(s, phase) /\ UNCHANGED unavailable
  <2>1. PICK w \in WorkerStates : w = [workers[s] EXCEPT !.phase = phase]
    BY <1>1, <1>4 DEF WorkerStates
  <2>2. Accounted(w) /\ Excused(w)
    BY <1>1, <1>4, <1>5, <2>1 DEF Accounted, Excused, Early, Under, WorkerStates
  <2> QED
    BY <1>1, <1>2, <1>5, <2>1, <2>2, QuietStep DEF Moves, accountVars
<1>6. CASE /\ workers[s].started
           /\ To(s, [workers[s] EXCEPT !.phase = phase,
                                       !.recorded = IF workers[s].ran THEN @ + 1 ELSE @])
           /\ UNCHANGED unavailable
  <2>1. workers[s].ran => workers[s].recorded + 1 <= workers[s].made
    BY <1>1 DEF Accounted, Under
  <2>2. (IF workers[s].ran THEN workers[s].recorded + 1 ELSE workers[s].recorded)
        \in 0..MaxCalls
    BY <1>1, <2>1 DEF WorkerStates
  <2>3. PICK w \in WorkerStates :
          w = [workers[s] EXCEPT !.phase = phase,
                                 !.recorded = IF workers[s].ran THEN @ + 1 ELSE @]
    BY <1>1, <1>4, <2>2 DEF WorkerStates
  <2>4. Accounted(w) /\ Excused(w)
    BY <1>1, <1>4, <2>1, <2>3 DEF Accounted, Excused, Early, Under, WorkerStates
  <2> QED
    BY <1>1, <1>2, <1>6, <2>3, <2>4, QuietStep DEF accountVars
<1>7. CASE /\ To(s, [workers[s] EXCEPT !.phase = phase, !.lost = TRUE])
           /\ unavailable' = TRUE
  <2>1. PICK w \in WorkerStates : w = [workers[s] EXCEPT !.phase = phase, !.lost = TRUE]
    BY <1>1, <1>4 DEF WorkerStates
  <2>2. Accounted(w) /\ Excused(w)'
    BY <1>1, <1>4, <1>7, <2>1 DEF Accounted, Excused, Early, Under, WorkerStates
  <2>3. RestTyped
    BY <1>2, <1>7, RestKept, Booleans
  <2> QED
    BY <1>1, <1>2, <1>7, <2>1, <2>2, <2>3, WorkerStep
<1> QED
  BY <1>3, <1>5, <1>6, <1>7

LEMMA SettleStep ==
  ASSUME Inv, NEW s \in Sessions, Settle(s)
  PROVE  Inv'
<1>1. workers[s] \in WorkerStates /\ Accounted(workers[s]) /\ Excused(workers[s])
      /\ workers[s].phase = "settle" /\ InSlot(s)
  BY AtWorker DEF Settle, InSlot
<1>2. UNCHANGED <<askVars, runner, serving, stopped, accountVars, dbDown>>
  BY DEF Settle
<1>3. PICK w \in WorkerStates :
        /\ To(s, w)
        /\ \E result \in {workers[s].result, "failed", "interrupted"} :
             w = [workers[s] EXCEPT !.phase = "close", !.result = result]
  <2>1. [workers[s] EXCEPT !.phase = "close"]
          = [workers[s] EXCEPT !.phase = "close", !.result = workers[s].result]
    BY <1>1 DEF WorkerStates
  <2>2. PICK result \in {workers[s].result, "failed", "interrupted"} :
          To(s, [workers[s] EXCEPT !.phase = "close", !.result = result])
    BY <2>1 DEF Settle, Moves
  <2>3. [workers[s] EXCEPT !.phase = "close", !.result = result] \in WorkerStates
    BY <1>1 DEF WorkerStates
  <2> QED
    BY <2>2, <2>3
<1>4. Accounted(w) /\ Excused(w)
  <2>1. PICK result \in {workers[s].result, "failed", "interrupted"} :
          w = [workers[s] EXCEPT !.phase = "close", !.result = result]
    BY <1>3
  <2> QED
    BY <1>1, <2>1 DEF Accounted, Excused, Early, Under, WorkerStates
<1>5. workers[s].revision \in 1..MaxRevision
  BY <1>1 DEF WorkerStates, Accounted
<1>6. cached' \in [Sessions -> 0..MaxRevision]
  BY <1>5 DEF Settle, Inv, SynthTypeOK
<1>7. cooldown' \subseteq [session: Sessions, revision: 1..MaxRevision]
  <2>1. [session |-> s, revision |-> workers[s].revision]
          \in [session: Sessions, revision: 1..MaxRevision]
    BY <1>5
  <2>2. cooldown \subseteq [session: Sessions, revision: 1..MaxRevision]
    BY DEF Inv, SynthTypeOK
  <2>3. cooldown' \subseteq cooldown \cup {[session |-> s, revision |-> workers[s].revision]}
    BY DEF Settle
  <2> QED
    BY <2>1, <2>2, <2>3
<1>8. cliMissing' \in BOOLEAN /\ troubles' \in 0..MaxTroubles
  <2>1. troubles' \in 0..MaxTroubles
    BY DEF Settle, Trouble, Inv, SynthTypeOK
  <2>2. \/ cliMissing' = FALSE
        \/ cliMissing' = (cliMissing \/ (workers[s].result = "missing" /\ ~stopped))
    BY DEF Settle
  <2> QED
    BY <2>1, <2>2
<1>9. RestTyped
  <2>1. UNCHANGED <<unavailable, marker, unrecorded, left, short>>
    BY <1>2 DEF accountVars, ledger
  <2> QED
    BY <1>2, <1>6, <1>7, <1>8, <2>1, Booleans DEF RestTyped, accountVars
<1>10. Excused(w)'
  BY <1>2, <1>4 DEF Excused, accountVars
<1> QED
  BY <1>1, <1>2, <1>3, <1>4, <1>9, <1>10, WorkerStep DEF accountVars

LEMMA CloseStep ==
  ASSUME Inv, NEW s \in Sessions, Close(s)
  PROVE  Inv'
<1>1. workers[s] \in WorkerStates /\ Accounted(workers[s]) /\ Excused(workers[s])
      /\ workers[s].phase = "close" /\ Under(workers[s]) = 0
  BY AtWorker DEF Close, Under
<1>2. UNCHANGED <<askVars, cached, runner, cooldown, cliMissing, serving, stopped, opened,
                  dbDown, troubles>> /\ Leaves(s)
  BY DEF Close
<1>3. short' = short /\ left' \in BOOLEAN
  \* a worker closes its round only with all its calls recorded
  <2>1. workers[s].round /\ ~workers[s].lost => ~Misses(workers[s])
    BY <1>1 DEF Accounted, Misses, WorkerStates
  <2>2. short' = short
    BY <2>1 DEF Close
  <2>3. left' = left \/ left' = (left \/ Misses(workers[s]))
    BY DEF Close
  <2> QED
    BY <2>2, <2>3, Booleans DEF Misses
<1>4. AccountingError \/ UNCHANGED <<unavailable, marker>>
  BY DEF Close
<1>5. unavailable' \in BOOLEAN /\ marker' \in BOOLEAN
      /\ (unavailable => unavailable') /\ (marker => marker')
  <2>1. CASE AccountingError
    BY <2>1, ErrorSaid
  <2>2. CASE unavailable' = unavailable /\ marker' = marker
    BY <2>2, Booleans
  <2> QED
    BY <1>4, <2>1, <2>2
<1>6. RestTyped
  <2>1. unrecorded' \in BOOLEAN
    BY <1>2, LeavesSays
  <2> QED
    BY <1>2, <1>3, <1>5, <2>1 DEF RestTyped, Inv, SynthTypeOK, askVars
<1> QED
  BY <1>1, <1>2, <1>3, <1>5, <1>6, WorkerLeaves

----------------------------------------------------------------------------
(* Steps around the manager. *)

LEMMA AroundStep ==
  ASSUME Inv, SetRunner \/ CooldownEnds \/ Shutdown \/ DbStops \/ DbAnswers
  PROVE  Inv'
<1>1. UNCHANGED <<askVars, cached, workers, serving, accountVars>>
  BY DEF SetRunner, CooldownEnds, Shutdown, DbStops, DbAnswers
<1>2. runner' \in BOOLEAN /\ cliMissing' \in BOOLEAN /\ stopped' \in BOOLEAN
      /\ dbDown' \in BOOLEAN
  BY DEF SetRunner, CooldownEnds, Shutdown, DbStops, DbAnswers, Inv, SynthTypeOK
<1>3. cooldown' \subseteq cooldown /\ troubles' \in 0..MaxTroubles
  BY DEF SetRunner, CooldownEnds, Shutdown, DbStops, DbAnswers, Trouble, Inv, SynthTypeOK
<1>4. SynthTypeOK'
  BY <1>1, <1>2, <1>3 DEF Inv, SynthTypeOK, InSlot, askVars, accountVars, ledger
<1>5. WorkersInv'
  BY <1>1 DEF Inv, WorkersInv, Excused, accountVars
<1> QED
  BY <1>1, <1>4, <1>5 DEF Inv, Down, LostIsSaid, CostsUnavailable, RoundsComplete, accountVars,
     ledger

LEMMA ExitStep ==
  ASSUME Inv, Exit
  PROVE  Inv'
<1>1. Idle \in WorkerStates /\ Idle.phase = "none"
  BY DEF Idle, WorkerStates
<1>2. workers' = [s \in Sessions |-> Idle] /\ serving' = FALSE /\ unrecorded' = FALSE
      /\ UNCHANGED <<revision, cached, marker, short, dbDown>>
  BY DEF Exit
<1>3. Cardinality({u \in Sessions : InSlot(u)})' <= Slots
  <2>1. {u \in Sessions : InSlot(u)}' = {}
    BY <1>1, <1>2 DEF InSlot
  <2> QED
    BY <2>1, FS_EmptySet
<1>4. workers' \in [Sessions -> WorkerStates] /\ listed' \in [Sessions -> 0..MaxRevision]
      /\ checked' \in [Sessions -> 0..MaxRevision]
  BY <1>1, <1>2 DEF Exit
<1>5. troubles' \in 0..MaxTroubles
  BY DEF Exit, Trouble, Inv, SynthTypeOK
<1>6. /\ cooldown' \subseteq [session: Sessions, revision: 1..MaxRevision]
      /\ runner' \in BOOLEAN /\ cliMissing' \in BOOLEAN /\ serving' \in BOOLEAN
      /\ stopped' \in BOOLEAN /\ opened' \in BOOLEAN /\ unavailable' \in BOOLEAN
      /\ unrecorded' \in BOOLEAN
  BY DEF Exit
<1>7. left' \in BOOLEAN
  BY Booleans DEF Exit
<1>8. SynthTypeOK'
  BY <1>2, <1>3, <1>4, <1>5, <1>6, <1>7 DEF Inv, SynthTypeOK
<1>9. Accounted(Idle) /\ Excused(Idle)'
  BY DEF Accounted, Excused, Idle, Early, Under
<1>10. WorkersInv'
  BY <1>2, <1>9 DEF WorkersInv
<1> QED
  BY <1>2, <1>8, <1>10 DEF Inv, Down, LostIsSaid, RoundsComplete

LEMMA StartStep ==
  ASSUME Inv, Start
  PROVE  Inv'
<1>1. workers = [s \in Sessions |-> Idle] /\ ~unrecorded
  BY DEF Inv, Start, Down
<1>2. /\ serving' = TRUE /\ runner' \in BOOLEAN /\ opened' = ~dbDown
      /\ UNCHANGED <<askVars, cached, workers, cooldown, cliMissing, stopped, unavailable, marker,
                     unrecorded, dbDown, troubles>>
  BY DEF Start
<1>3. left' \in BOOLEAN /\ opened' \in BOOLEAN /\ serving' \in BOOLEAN
  BY <1>2, Booleans DEF Start, ClosesLeft, ledger
\* opening the store closes rounds as interrupted only
<1>4. short' \subseteq short \cup {[by |-> "opening", outcome |-> "interrupted"]}
  BY DEF Start, ClosesLeft, ledger
<1>5. short' \subseteq Closings /\ RoundsComplete'
  BY <1>4 DEF Inv, SynthTypeOK, RoundsComplete, Closings
<1>6. SynthTypeOK'
  BY <1>2, <1>3, <1>5 DEF Inv, SynthTypeOK, InSlot, askVars
<1>7. Accounted(Idle) /\ Excused(Idle)'
  BY DEF Accounted, Excused, Idle, Early, Under
<1>8. WorkersInv'
  BY <1>1, <1>2, <1>7 DEF WorkersInv
<1> QED
  BY <1>1, <1>2, <1>5, <1>6, <1>8 DEF Inv, LostIsSaid

LEMMA StutterStep ==
  ASSUME Inv, UNCHANGED synthVars
  PROVE  Inv'
<1>1. SynthTypeOK'
  BY DEF Inv, SynthTypeOK, InSlot, synthVars, askVars, accountVars, ledger
<1>2. WorkersInv'
  BY DEF Inv, WorkersInv, Excused, synthVars, accountVars
<1> QED
  BY <1>1, <1>2 DEF Inv, Down, LostIsSaid, CostsUnavailable, RoundsComplete,
     synthVars, accountVars, ledger

LEMMA NextInv == Inv /\ [SynthNext]_synthVars => Inv'
<1> SUFFICES ASSUME Inv, [SynthNext]_synthVars PROVE Inv'
  OBVIOUS
<1>1. CASE \E s \in Sessions : Works(s) \/ ShareChecks(s)
  BY <1>1, AskStep
<1>2. CASE Ensures
  <2>1. CASE List
    BY <2>1, AskStep
  <2>2. CASE \E s \in Sessions : SweepChecks(s) \/ Claim(s)
    BY <2>2, AskStep, ClaimStep
  <2> QED
    BY <1>2, <2>1, <2>2 DEF Ensures
<1>3. CASE Executes
  BY <1>3, TakeSlotStep, BeginStep, StartInvocationStep, CallRunnerStep, RunnerAnswersStep,
     RetryStartStep, FinishInvocationStep, SettleStep, CloseStep DEF Executes
<1>4. CASE SetRunner \/ CooldownEnds \/ Shutdown \/ DbStops \/ DbAnswers
  BY <1>4, AroundStep
<1>5. CASE Exit
  BY <1>5, ExitStep
<1>6. CASE Start
  BY <1>6, StartStep
<1>7. CASE UNCHANGED synthVars
  BY <1>7, StutterStep
<1> QED
  BY <1>1, <1>2, <1>3, <1>4, <1>5, <1>6, <1>7 DEF SynthNext

----------------------------------------------------------------------------
\* The invariant holds of every run of the summaries.
THEOREM Invariant == SynthSpec => []Inv
<1>1. SynthInit => Inv
  BY InitInv
<1>2. Inv /\ [SynthNext]_synthVars => Inv'
  BY NextInv
<1> QED
  BY <1>1, <1>2, PTL DEF SynthSpec

\* Types, and never more workers in their rounds than there are slots
\* (manager.go's semaphore), whatever runs and is stopped meanwhile.
THEOREM SynthTyped == SynthSpec => []SynthTypeOK
<1>1. Inv => SynthTypeOK
  BY DEF Inv
<1> QED
  BY <1>1, Invariant, PTL

\* A round that its worker closes, with whatever outcome, has a row with what each
\* of its calls used, however often the database is away; one left open by a lost
\* row or a crash is closed by the opening of the store alone, as interrupted.
THEOREM Rounds == SynthSpec => []RoundsComplete
<1>1. Inv => RoundsComplete
  BY DEF Inv
<1> QED
  BY <1>1, Invariant, PTL

\* A process that made a call no finished row tells of does not show its costs
\* as known.
THEOREM Lost == SynthSpec => []LostIsSaid
<1>1. Inv => LostIsSaid
  BY DEF Inv
<1> QED
  BY <1>1, Invariant, PTL
=============================================================================
