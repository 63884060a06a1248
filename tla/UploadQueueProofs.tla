------------------------- MODULE UploadQueueProofs -------------------------
(***************************************************************************)
(* Proofs about UploadQueue, for every set of sessions, every number of    *)
(* versions and every mix of faults: types, and that what the queue claims *)
(* was accepted by the Hub; then that what a pass sends is allowed and is  *)
(* what the queue holds, that a parked entry is taken up for a cause only, *)
(* and that every behaviour of the queue is one of HubCopy.                *)
(*                                                                         *)
(* The claims alone are not inductive: a pass works on copies that a later *)
(* check-in, crash or retry makes stale and may still store.  What is      *)
(* preserved is that every record of an entry, in the queue, in the batch  *)
(* or in the runner's hand, is Sound on its own.                           *)
(***************************************************************************)
EXTENDS UploadQueue, TLAPS

\* What a record of an entry aims to have accepted.
Target(e) == IF e.frozen # 0 THEN e.frozen ELSE e.act

AcceptedIn(h, s) == {v \in Versions : \E k \in DOMAIN h :
                       k[1] = s /\ k[2] = v /\ h[k] \in {"completed", "forgotten"}}
StateIn(h, k) == IF k \in DOMAIN h THEN h[k] ELSE "none"
KeyOf(s, e) == <<s, e.bundle, e.attempt>>

\* A record of the entry of s, with sources src and the Hub's uploads h.
SoundIn(source, h, s, e) ==
  /\ e.act <= source[s] /\ e.frozen <= source[s]
  /\ e.rev # 0 => e.rev \in AcceptedIn(h, s) /\ e.synced <= e.rev
  /\ e.upload # NoKey => /\ e.upload = KeyOf(s, e) /\ e.upload \in DOMAIN h
                         /\ e.rev = 0 /\ e.bundle # 0
                         /\ Target(e) <= e.bundle
  /\ e.bundle # 0 /\ e.rev = 0 =>
       Target(e) <= e.bundle \/ StateIn(h, KeyOf(s, e)) = "forgotten"
  /\ e.bundle # 0 /\ e.rev # 0 =>
       StateIn(h, KeyOf(s, e)) \in {"completed", "forgotten"}

GoodIn(source, h, s, e) == e \in Entry /\ SoundIn(source, h, s, e)
Good(s, e) == GoodIn(src, hub, s, e)

RestTyped ==
  /\ src \in [Sessions -> Versions]
  /\ spool \subseteq Bundle /\ pol \in Policy /\ owner \in OwnerPolicy
  /\ stopped \in BOOLEAN /\ newRetry \in BOOLEAN
  /\ local \in Nat \ {0} /\ faults \in Nat
  /\ Created \subseteq Key /\ \A k \in Created : hub[k] \in UploadState

QueueInv ==
  /\ q \in [Sessions -> Entry] /\ discards \subseteq Bundle
  /\ \A s \in Sessions : Good(s, q[s])

\* What each stage of a pass knows about the copy in its hand.
CopyInv ==
  /\ copy \in Entry
  /\ stage \in EntryStages =>
       Good(cur, copy) /\ (copy.frozen # 0 => copy.act = copy.frozen)
  /\ stage \in {"prepare", "create"} => copy.upload = NoKey
  /\ stage = "create" => copy.rev = 0 /\ copy.bundle # 0
  /\ stage \in {"status", "chunks", "finalize"} => copy.upload # NoKey
  /\ stage = "complete" =>
       /\ copy.rev = 0 /\ copy.bundle # 0 /\ copy.act <= copy.bundle
       /\ StateIn(hub, KeyOf(cur, copy)) \in {"completed", "forgotten"}

BatchInv ==
  /\ DOMAIN batch \subseteq Sessions
  /\ \A s \in DOMAIN batch : Good(s, batch[s])
  /\ stage = "idle" => DOMAIN batch = {}

StageTyped ==
  /\ stage \in {"idle"} \cup PassStages \cup EntryStages
  /\ loop \in {1, 2}
  /\ cur \in Sessions \cup {NoSession}
  /\ (stage \in EntryStages) = (cur # NoSession)

PassInv == StageTyped /\ BatchInv /\ CopyInv

Inv == RestTyped /\ QueueInv /\ PassInv

-----------------------------------------------------------------------------
(* Records.                                                                *)

\* The record of a session not yet queued is an entry.
LEMMA BlankTyped == Blank \in Entry
  BY BoundsAssumption DEF Blank, Entry

\* A record stays Sound when sources only advance and the Hub forgets no key.
Grows == /\ \A s \in Sessions : src[s] <= src'[s]
         /\ DOMAIN hub \subseteq DOMAIN hub'
         /\ \A k \in DOMAIN hub : hub[k] \in {"completed", "forgotten"} =>
              hub'[k] \in {"completed", "forgotten"}
         /\ \A k \in DOMAIN hub : hub[k] = "forgotten" => hub'[k] = "forgotten"

\* A Sound record stays Sound in a step that only Grows: a copy in the runner's
\* hand may grow old without becoming wrong.
LEMMA GoodGrows ==
  ASSUME RestTyped, RestTyped', Grows, NEW s \in Sessions, NEW e, Good(s, e)
  PROVE  GoodIn(src', hub', s, e)
<1>1. src[s] \in Nat /\ src'[s] \in Nat /\ src[s] <= src'[s]
  BY BoundsAssumption DEF RestTyped, Grows, Versions
<1>2. e.act <= src'[s] /\ e.frozen <= src'[s]
  BY <1>1, BoundsAssumption DEF Good, GoodIn, SoundIn, Entry
<1>3. AcceptedIn(hub, s) \subseteq AcceptedIn(hub', s)
  BY DEF AcceptedIn, Grows
<1>4. ASSUME NEW k PROVE
        /\ StateIn(hub, k) = "forgotten" => StateIn(hub', k) = "forgotten"
        /\ StateIn(hub, k) \in {"completed", "forgotten"} =>
             StateIn(hub', k) \in {"completed", "forgotten"}
  BY <1>4 DEF StateIn, Grows
<1>5. e.upload \in DOMAIN hub => e.upload \in DOMAIN hub'
  BY DEF Grows
<1> QED
  BY <1>2, <1>3, <1>4, <1>5 DEF Good, GoodIn, SoundIn

\* 0 stands for none in every version field.
LEMMA Zero == 0 \in 0..MaxVersion
  BY BoundsAssumption

\* Soundness looks at seven fields only.
LEMMA SameClaims ==
  ASSUME NEW s \in Sessions, NEW e, Good(s, e), NEW f \in Entry,
         f.act = e.act, f.frozen = e.frozen, f.rev = e.rev,
         f.synced = e.synced, f.bundle = e.bundle, f.upload = e.upload,
         f.attempt = e.attempt
  PROVE  Good(s, f)
  BY DEF Good, GoodIn, SoundIn, Target, KeyOf

\* A record that lost its bundle and its upload claims no more than before.
LEMMA GivenUpIn ==
  ASSUME NEW source, NEW h, NEW s \in Sessions, NEW e, GoodIn(source, h, s, e),
         NEW f \in Entry, f.act = e.act,
         f.frozen = e.frozen \/ (f.frozen = 0 /\ source[s] \in Nat),
         f.rev = 0 \/ (f.rev = e.rev /\ f.synced = e.synced),
         f.bundle = 0, f.upload = NoKey
  PROVE  GoodIn(source, h, s, f)
  BY DEF GoodIn, SoundIn

\* The same for the current sources and Hub.
LEMMA GivenUp ==
  ASSUME NEW s \in Sessions, NEW e, Good(s, e), NEW f \in Entry,
         f.act = e.act, f.frozen = e.frozen \/ (f.frozen = 0 /\ src[s] \in Nat),
         f.rev = 0 \/ (f.rev = e.rev /\ f.synced = e.synced),
         f.bundle = 0, f.upload = NoKey
  PROVE  Good(s, f)
  BY GivenUpIn DEF Good

\* Clearing bundle and upload (park, exclude) keeps a record Sound.
LEMMA ClearedGood ==
  ASSUME NEW s \in Sessions, NEW e, Good(s, e)
  PROVE  Good(s, Cleared(e)) /\ Cleared(e).frozen = e.frozen
         /\ Cleared(e).act = e.act /\ Cleared(e).upload = NoKey
<1>1. Cleared(e) \in Entry
  BY Zero, Zenon DEF Good, GoodIn, Entry, Cleared
<1>2. /\ Cleared(e).act = e.act /\ Cleared(e).frozen = e.frozen
      /\ Cleared(e).rev = e.rev /\ Cleared(e).synced = e.synced
      /\ Cleared(e).bundle = 0 /\ Cleared(e).upload = NoKey
  BY DEF Good, GoodIn, Entry, Cleared
<1> QED
  BY <1>1, <1>2, GivenUp

\* Giving up a hold (Queue.unfreeze) keeps a record Sound.
LEMMA UnfrozenGood ==
  ASSUME NEW s \in Sessions, NEW e, Good(s, e), src[s] \in Nat
  PROVE  Good(s, Unfrozen(e)) /\ Unfrozen(e).frozen = 0
         /\ Unfrozen(e).upload = NoKey /\ Unfrozen(e).bundle = 0
<1>1. e.attempt + 1 \in Nat
  BY DEF Good, GoodIn, Entry
<1>2. Unfrozen(e) \in Entry
  BY <1>1, Zero, Zenon DEF Good, GoodIn, Entry, Cleared, Unfrozen
<1>3. /\ Unfrozen(e).act = e.act /\ Unfrozen(e).frozen = 0
      /\ Unfrozen(e).rev = e.rev /\ Unfrozen(e).synced = e.synced
      /\ Unfrozen(e).bundle = 0 /\ Unfrozen(e).upload = NoKey
  BY DEF Good, GoodIn, Entry, Cleared, Unfrozen
<1> QED
  BY <1>2, <1>3, GivenUp

\* Leaving a session out (Queue.exclude) keeps its record Sound.
LEMMA ExcludeGoodIn ==
  ASSUME NEW source, NEW h, NEW s \in Sessions, NEW e, GoodIn(source, h, s, e),
         source[s] \in Nat
  PROVE  GoodIn(source, h, s, Exclude(e))
<1>1. Exclude(e) \in Entry
  BY Zero, Zenon DEF GoodIn, Entry, Cleared, Exclude
<1>2. /\ Exclude(e).act = e.act /\ Exclude(e).frozen = 0
      /\ Exclude(e).rev = e.rev /\ Exclude(e).synced = e.synced
      /\ Exclude(e).bundle = 0 /\ Exclude(e).upload = NoKey
  BY DEF GoodIn, Entry, Cleared, Exclude
<1> QED
  BY <1>1, <1>2, GivenUpIn

\* The same for the current sources and Hub.
LEMMA ExcludeGood ==
  ASSUME NEW s \in Sessions, NEW e, Good(s, e), src[s] \in Nat
  PROVE  Good(s, Exclude(e))
  BY ExcludeGoodIn DEF Good

\* Parking (Runner.park) keeps a record Sound.
LEMMA ParkGood ==
  ASSUME NEW s \in Sessions, NEW e, Good(s, e), local \in Nat
  PROVE  Good(s, Park(e)) /\ Park(e).frozen = e.frozen /\ Park(e).act = e.act
<1>1. Park(e) \in Entry
  BY Zero, Zenon DEF Good, GoodIn, Entry, Cleared, Park
<1>2. /\ Park(e).act = e.act /\ Park(e).frozen = e.frozen
      /\ Park(e).rev = e.rev /\ Park(e).synced = e.synced
      /\ Park(e).bundle = 0 /\ Park(e).upload = NoKey
  BY DEF Good, GoodIn, Entry, Cleared, Park
<1> QED
  BY <1>1, <1>2, GivenUp

\* The copy the runner uploads is as sound as the entry.
LEMMA UploadEntryGood ==
  ASSUME NEW s \in Sessions, NEW e, Good(s, e)
  PROVE  /\ Good(s, UploadEntry(e))
         /\ UploadEntry(e).frozen # 0 => UploadEntry(e).act = UploadEntry(e).frozen
         /\ UploadEntry(e).upload = e.upload
  BY BoundsAssumption DEF Good, GoodIn, Entry, SoundIn, UploadEntry, Target, KeyOf

\* Queue.update stores a sound entry whenever the copy is sound, stale or not.
LEMMA StoredGoodIn ==
  ASSUME NEW source, NEW h, NEW s \in Sessions, NEW e, GoodIn(source, h, s, e),
         GoodIn(source, h, s, q[s]), Accepts(s, e), source[s] \in Nat
  PROVE  GoodIn(source, h, s, Stored(s, e))
<1> DEFINE kept == [e EXCEPT !.act = q[s].act, !.slo = q[s].slo,
                             !.listed = q[s].listed,
                             !.frozen = IF e.rev # 0 THEN 0 ELSE e.frozen]
<1>1. CASE FrozenWrite(s, e)
  <2>1. e.frozen # 0 /\ e.act = e.frozen
    BY <1>1 DEF FrozenWrite
  <2>2. kept \in Entry
    BY Zero, Zenon DEF GoodIn, Entry
  <2>3. /\ kept.act = q[s].act /\ kept.rev = e.rev /\ kept.synced = e.synced
        /\ kept.frozen = IF e.rev # 0 THEN 0 ELSE e.frozen
        /\ kept.bundle = e.bundle /\ kept.upload = e.upload
        /\ kept.attempt = e.attempt
    BY DEF GoodIn, Entry
  <2>4. SoundIn(source, h, s, kept)
    BY <2>1, <2>3 DEF GoodIn, SoundIn, Target, KeyOf
  <2>5. GoodIn(source, h, s, kept)
    BY <2>2, <2>4 DEF GoodIn
  <2> QED
    BY <1>1, <2>5, ExcludeGoodIn DEF Stored
<1>2. CASE ~FrozenWrite(s, e)
  BY <1>2, ExcludeGoodIn DEF Stored
<1> QED
  BY <1>1, <1>2

\* What Queue.update stores of two Sound records is Sound, however old the copy.
LEMMA StoredGood ==
  ASSUME NEW s \in Sessions, NEW e, Good(s, e), Good(s, q[s]), Accepts(s, e),
         src[s] \in Nat
  PROVE  Good(s, Stored(s, e))
  BY StoredGoodIn DEF Good

\* An upload that is given up still had content new enough.
LEMMA GoneGood ==
  ASSUME NEW s \in Sessions, NEW e, Good(s, e), e.upload # NoKey
  PROVE  Good(s, [e EXCEPT !.upload = NoKey, !.attempt = e.attempt + 1])
<1> DEFINE f == [e EXCEPT !.upload = NoKey, !.attempt = e.attempt + 1]
<1>1. e.attempt + 1 \in Nat
  BY DEF Good, GoodIn, Entry
<1>2. f \in Entry
  BY <1>1, Zenon DEF Good, GoodIn, Entry
<1>3. /\ f.act = e.act /\ f.frozen = e.frozen /\ f.rev = e.rev
      /\ f.bundle = e.bundle /\ f.upload = NoKey
  BY DEF Good, GoodIn, Entry
<1>4. SoundIn(src, hub, s, f)
  BY <1>3 DEF Good, GoodIn, SoundIn, Target
<1> QED
  BY <1>2, <1>4 DEF Good, GoodIn

\* RetrySession forgets the claim with the bundle.
LEMMA RetriedGood ==
  ASSUME NEW s \in Sessions, NEW e, Good(s, e), src[s] \in Nat
  PROVE  Good(s, Retried(e))
<1>1. Good(s, Unfrozen(e)) /\ Unfrozen(e).bundle = 0 /\ Unfrozen(e).upload = NoKey
  BY UnfrozenGood
<1> DEFINE f == [Unfrozen(e) EXCEPT !.parked = 0, !.synced = 0, !.rev = 0]
<1>2. f \in Entry
  BY <1>1, Zero, Zenon DEF Good, GoodIn, Entry
<1>3. /\ f.act = Unfrozen(e).act /\ f.frozen = Unfrozen(e).frozen
      /\ f.rev = 0 /\ f.bundle = 0 /\ f.upload = NoKey
  BY <1>1 DEF Good, GoodIn, Entry
<1>4. Good(s, f)
  BY <1>1, <1>2, <1>3, GivenUp
<1> QED
  BY <1>1, <1>4 DEF Retried

\* A new policy (ApplyPolicyAt) keeps every record Sound.
LEMMA GovernedGood ==
  ASSUME NEW s \in Sessions, Good(s, q[s]), src[s] \in Nat
  PROVE  Good(s, Governed(s))
<1> DEFINE e == [q[s] EXCEPT !.slo = FALSE, !.excluded = s \in owner.rules]
<1>0. (s \in owner.rules) \in BOOLEAN
  OBVIOUS
<1>1. e \in Entry
  BY <1>0, Zenon DEF Good, GoodIn, Entry
<1>2. Good(s, e)
  <2>1. /\ e.act = q[s].act /\ e.frozen = q[s].frozen /\ e.rev = q[s].rev
        /\ e.synced = q[s].synced /\ e.bundle = q[s].bundle
        /\ e.upload = q[s].upload /\ e.attempt = q[s].attempt
    BY DEF Good, GoodIn, Entry
  <2> QED
    BY <1>1, <2>1, SameClaims
<1> QED
  BY <1>2, ExcludeGood DEF Governed

\* Blocking and unblocking a source keeps its record Sound.
LEMMA ReconciledGood ==
  ASSUME NEW s \in Sessions, NEW e, Good(s, e), local \in Nat, NEW failing
  PROVE  Good(s, Reconciled(e, failing))
<1> DEFINE f == [e EXCEPT !.blocked = TRUE, !.parked = local]
           g == [e EXCEPT !.blocked = FALSE, !.parked = 0]
<1>1. f \in Entry /\ g \in Entry
  BY Zenon DEF Good, GoodIn, Entry
<1>2. /\ f.act = e.act /\ f.frozen = e.frozen /\ f.rev = e.rev
      /\ f.synced = e.synced /\ f.bundle = e.bundle /\ f.upload = e.upload
      /\ f.attempt = e.attempt
  BY DEF Good, GoodIn, Entry
<1>3. /\ g.act = e.act /\ g.frozen = e.frozen /\ g.rev = e.rev
      /\ g.synced = e.synced /\ g.bundle = e.bundle /\ g.upload = e.upload
      /\ g.attempt = e.attempt
  BY DEF Good, GoodIn, Entry
<1>4. Good(s, f) /\ Good(s, g)
  BY <1>1, <1>2, <1>3, SameClaims
<1> QED
  BY <1>4 DEF Reconciled

\* A newer source starts over, except that a held capture goes on.
LEMMA MergedGood ==
  ASSUME NEW s \in Sessions, NEW e, Good(s, e), NEW v \in Versions, v <= src[s]
  PROVE  Good(s, Merged(e, v))
<1> DEFINE seen == [e EXCEPT !.act = v, !.listed = FALSE, !.blocked = FALSE]
           over == [Cleared(seen) EXCEPT !.parked = 0, !.rev = 0, !.attempt = 0]
<1>0. v \in 0..MaxVersion
  BY BoundsAssumption DEF Versions
<1>1. seen \in Entry /\ over \in Entry
  BY <1>0, Zero, Zenon DEF Good, GoodIn, Entry, Cleared
<1>2. /\ seen.act = v /\ seen.frozen = e.frozen /\ seen.rev = e.rev
      /\ seen.synced = e.synced /\ seen.bundle = e.bundle
      /\ seen.upload = e.upload /\ seen.attempt = e.attempt
  BY DEF Good, GoodIn, Entry
<1>3. /\ over.act = v /\ over.frozen = e.frozen /\ over.rev = 0
      /\ over.bundle = 0 /\ over.upload = NoKey
  BY DEF Good, GoodIn, Entry, Cleared
<1>4. CASE v <= e.act
  BY <1>4 DEF Merged
<1>5. CASE ~(v <= e.act) /\ e.frozen # 0
  <2>1. Good(s, seen)
    BY <1>1, <1>2, <1>5 DEF Good, GoodIn, SoundIn, Target, KeyOf
  <2> QED
    BY <1>5, <2>1 DEF Merged
<1>6. CASE ~(v <= e.act) /\ e.frozen = 0
  <2>1. Good(s, over)
    BY <1>1, <1>3, <1>6 DEF Good, GoodIn, SoundIn
  <2> QED
    BY <1>6, <2>1 DEF Merged
<1> QED
  BY <1>4, <1>5, <1>6

\* Releasing a parked entry (releaseParked) keeps it Sound.
LEMMA ReleasedGood ==
  ASSUME NEW s \in Sessions, NEW e, Good(s, e)
  PROVE  Good(s, Released(e))
<1> DEFINE f == [e EXCEPT !.parked = 0]
<1>1. f \in Entry
  BY Zenon DEF Good, GoodIn, Entry
<1>2. /\ f.act = e.act /\ f.frozen = e.frozen /\ f.rev = e.rev
      /\ f.synced = e.synced /\ f.bundle = e.bundle /\ f.upload = e.upload
      /\ f.attempt = e.attempt
  BY DEF Good, GoodIn, Entry
<1> QED
  BY <1>1, <1>2, SameClaims DEF Released

\* applyExclusions keeps a record Sound.
LEMMA ReclassifiedGood ==
  ASSUME NEW s \in Sessions, NEW e, Good(s, e), src[s] \in Nat
  PROVE  Good(s, Reclassified(s, e))
<1> DEFINE f == [e EXCEPT !.excluded = FALSE]
<1>1. f \in Entry
  BY Zenon DEF Good, GoodIn, Entry
<1>2. /\ f.act = e.act /\ f.frozen = e.frozen /\ f.rev = e.rev
      /\ f.synced = e.synced /\ f.bundle = e.bundle /\ f.upload = e.upload
      /\ f.attempt = e.attempt
  BY DEF Good, GoodIn, Entry
<1>3. Good(s, f) /\ Good(s, Exclude(e))
  BY <1>1, <1>2, SameClaims, ExcludeGood
<1> QED
  BY <1>3 DEF Reclassified

\* What discovery makes of a Sound record is Sound.
LEMMA DiscoveredGood ==
  ASSUME NEW s \in Sessions, Good(s, q[s]), RestTyped, NEW failing
  PROVE  Good(s, Discovered(s, failing))
<1> DEFINE e == Reconciled(q[s], failing)
<1>1. src[s] \in Versions /\ src[s] \in Nat /\ src[s] <= src[s] /\ local \in Nat
  BY BoundsAssumption DEF RestTyped, Versions
<1>2. Good(s, e)
  BY <1>1, ReconciledGood
<1>3. Good(s, Merged(e, src[s]))
  BY <1>1, <1>2, MergedGood
<1> QED
  BY <1>1, <1>2, <1>3, ReleasedGood, ReclassifiedGood DEF Discovered

\* The Hub holds no revision of s: the key of the claimed one was forgotten.
LEMMA MarkedGood ==
  ASSUME NEW s \in Sessions, Good(s, q[s]), RestTyped
  PROVE  Good(s, Marked(s))
<1> DEFINE e == q[s]
           f == [Exclude(e) EXCEPT !.slo = TRUE]
           g == [e EXCEPT !.listed = TRUE, !.sid = TRUE]
           h == [e EXCEPT !.listed = TRUE, !.sid = TRUE, !.synced = 0, !.rev = 0]
<1>1. src[s] \in Nat
  BY BoundsAssumption DEF RestTyped, Versions
<1>2. Good(s, f)
  <2>1. Good(s, Exclude(e))
    BY <1>1, ExcludeGood
  <2>2. f \in Entry
    BY <2>1, Zenon DEF Good, GoodIn, Entry
  <2>3. /\ f.act = Exclude(e).act /\ f.frozen = Exclude(e).frozen
        /\ f.rev = Exclude(e).rev /\ f.synced = Exclude(e).synced
        /\ f.bundle = Exclude(e).bundle /\ f.upload = Exclude(e).upload
        /\ f.attempt = Exclude(e).attempt
    BY <2>1 DEF Good, GoodIn, Entry
  <2> QED
    BY <2>1, <2>2, <2>3, SameClaims
<1>3. Good(s, g)
  <2>1. g \in Entry
    BY Zenon DEF Good, GoodIn, Entry
  <2>2. /\ g.act = e.act /\ g.frozen = e.frozen /\ g.rev = e.rev
        /\ g.synced = e.synced /\ g.bundle = e.bundle /\ g.upload = e.upload
        /\ g.attempt = e.attempt
    BY DEF Good, GoodIn, Entry
  <2> QED
    BY <2>1, <2>2, SameClaims
<1>4. ASSUME Held(s) = {} PROVE Good(s, h)
  <2>1. h \in Entry
    BY Zero, Zenon DEF Good, GoodIn, Entry
  <2>2. /\ h.act = e.act /\ h.frozen = e.frozen /\ h.rev = 0
        /\ h.bundle = e.bundle /\ h.upload = e.upload
        /\ h.attempt = e.attempt
    BY DEF Good, GoodIn, Entry
  <2>3. e.bundle # 0 => e.bundle \in Versions
    BY BoundsAssumption DEF Good, GoodIn, Entry, Versions
  <2>4. e.bundle # 0 => StateIn(hub, KeyOf(s, e)) # "completed"
    BY <1>4, <2>3, Zenon DEF Held, StateIn, KeyOf, Created
  <2>5. SoundIn(src, hub, s, h)
    BY <2>2, <2>4 DEF Good, GoodIn, SoundIn, Target, KeyOf
  <2> QED
    BY <2>1, <2>5 DEF Good, GoodIn
<1> QED
  BY <1>2, <1>3, <1>4 DEF Marked

-----------------------------------------------------------------------------
(* Frames: what a step leaves alone stays sound.                           *)

\* Source versions are numbers.
LEMMA SourceNat ==
  ASSUME RestTyped, NEW s \in Sessions
  PROVE  src[s] \in Nat /\ src[s] \in Versions
  BY BoundsAssumption DEF RestTyped, Versions

\* A step that changes neither sources nor Hub Grows.
LEMMA SameGrows ==
  ASSUME RestTyped, UNCHANGED <<src, hub>>
  PROVE  Grows
  BY BoundsAssumption DEF RestTyped, Grows, Versions

\* The bundle an entry names is one.
LEMMA BundlesTyped ==
  ASSUME NEW s \in Sessions, NEW e \in Entry
  PROVE  Bundles(s, e) \subseteq Bundle
<1>1. e.bundle # 0 => e.bundle \in Versions
  BY BoundsAssumption DEF Entry, Versions
<1> QED
  BY <1>1 DEF Bundles, Bundle

\* The queue's part of the invariant survives any step that only Grows.
LEMMA QueueKept ==
  ASSUME RestTyped, RestTyped', Grows, QueueInv, UNCHANGED queueVars
  PROVE  QueueInv'
<1>1. q' = q /\ discards' = discards
  BY DEF queueVars
<1>2. \A s \in Sessions : GoodIn(src', hub', s, q[s])
  BY GoodGrows DEF QueueInv
<1> QED
  BY <1>1, <1>2 DEF QueueInv, Good

\* Storing one Sound record (Queue.update, abandon) keeps the queue's part.
LEMMA PutInv ==
  ASSUME RestTyped, QueueInv, UNCHANGED <<src, hub>>,
         NEW s \in Sessions, NEW e, Good(s, e), Put(s, e)
  PROVE  QueueInv' /\ q'[s] = e
<1>1. e \in Entry /\ q[s] \in Entry
  BY DEF Good, GoodIn, QueueInv
<1>2. q' = [q EXCEPT ![s] = e]
      /\ discards' = discards \cup (Bundles(s, q[s]) \ Bundles(s, e))
  BY DEF Put
<1>3. q' \in [Sessions -> Entry] /\ q'[s] = e
  BY <1>1, <1>2 DEF QueueInv
<1>4. discards' \subseteq Bundle
  BY <1>1, <1>2, BundlesTyped DEF QueueInv
<1>5. \A x \in Sessions : GoodIn(src, hub, x, q'[x])
  BY <1>2 DEF QueueInv, Good
<1> QED
  BY <1>3, <1>4, <1>5 DEF QueueInv, Good

\* Storing a Sound record for every session keeps the queue's part.
LEMMA PutAllInv ==
  ASSUME RestTyped, QueueInv, UNCHANGED <<src, hub>>,
         NEW new \in [Sessions -> Entry], \A s \in Sessions : Good(s, new[s]),
         PutAll(new)
  PROVE  QueueInv'
<1>1. \A s \in Sessions : Bundles(s, q[s]) \subseteq Bundle
  BY BundlesTyped DEF QueueInv
<1>2. q' = new /\ discards' \subseteq Bundle
  BY <1>1, Zenon DEF PutAll, QueueInv
<1> QED
  BY <1>2 DEF QueueInv, Good

\* The same for a step that also changes the Hub.
LEMMA PutGrows ==
  ASSUME RestTyped, RestTyped', Grows, QueueInv,
         NEW s \in Sessions, NEW e, GoodIn(src', hub', s, e), Put(s, e)
  PROVE  QueueInv' /\ q'[s] = e
<1>1. e \in Entry /\ q[s] \in Entry
  BY DEF GoodIn, QueueInv
<1>2. q' = [q EXCEPT ![s] = e]
      /\ discards' = discards \cup (Bundles(s, q[s]) \ Bundles(s, e))
  BY DEF Put
<1>3. q' \in [Sessions -> Entry] /\ q'[s] = e
  BY <1>1, <1>2 DEF QueueInv
<1>4. discards' \subseteq Bundle
  BY <1>1, <1>2, BundlesTyped DEF QueueInv
<1>5. \A x \in Sessions : GoodIn(src', hub', x, q[x])
  BY GoodGrows DEF QueueInv
<1>6. \A x \in Sessions : GoodIn(src', hub', x, q'[x])
  BY <1>2, <1>5 DEF QueueInv
<1> QED
  BY <1>3, <1>4, <1>6 DEF QueueInv, Good

\* Queue.update of a Sound copy keeps the queue's part.
LEMMA UpdateInv ==
  ASSUME RestTyped, QueueInv, UNCHANGED <<src, hub>>,
         NEW s \in Sessions, NEW e, Good(s, e), Update(s, e)
  PROVE  QueueInv'
<1>1. Good(s, Stored(s, e))
  BY SourceNat, StoredGood DEF QueueInv, Update
<1> QED
  BY <1>1, PutInv DEF Update

\* The pass's part survives a step outside the pass that only Grows.
LEMMA PassKept ==
  ASSUME RestTyped, RestTyped', Grows, PassInv,
         UNCHANGED passVars
  PROVE  PassInv'
<1>1. /\ stage' = stage /\ loop' = loop /\ batch' = batch /\ cur' = cur
      /\ copy' = copy
  BY DEF passVars
<1>2. StageTyped'
  BY <1>1 DEF PassInv, StageTyped
<1>3. BatchInv'
  <2>1. \A s \in DOMAIN batch : GoodIn(src', hub', s, batch[s])
    BY GoodGrows DEF PassInv, BatchInv
  <2> QED
    BY <1>1, <2>1 DEF PassInv, BatchInv, Good
<1>4. CopyInv'
  <2>1. stage \in EntryStages => cur \in Sessions
    BY DEF PassInv, StageTyped
  <2>2. stage \in EntryStages => GoodIn(src', hub', cur, copy)
    BY <2>1, GoodGrows DEF PassInv, CopyInv
  <2>3. StateIn(hub, KeyOf(cur, copy)) \in {"completed", "forgotten"} =>
          StateIn(hub', KeyOf(cur, copy)) \in {"completed", "forgotten"}
    BY DEF StateIn, Grows
  <2>4. KeyOf(cur, copy)' = KeyOf(cur, copy)
    BY <1>1 DEF KeyOf
  <2> QED
    BY <1>1, <2>2, <2>3, <2>4 DEF PassInv, CopyInv, Good
<1> QED
  BY <1>2, <1>3, <1>4 DEF PassInv

\* A pass that ends leaves no copies behind.
LEMMA PassEndsInv ==
  ASSUME PassEnds
  PROVE  PassInv'
<1>1. /\ stage' = "idle" /\ loop' = 1 /\ batch' = EmptyBatch
      /\ cur' = NoSession /\ copy' = Blank
  BY DEF PassEnds
<1>2. DOMAIN batch' = {}
  BY <1>1 DEF EmptyBatch
<1> QED
  BY <1>1, <1>2, BlankTyped
     DEF PassInv, StageTyped, BatchInv, CopyInv, EntryStages, PassStages

\* Putting the entry down keeps the pass's part.
LEMMA NextEntryInv ==
  ASSUME RestTyped, RestTyped', Grows, PassInv, NextEntry
  PROVE  PassInv'
<1>1. /\ stage' = "pick" /\ loop' = loop /\ batch' = batch
      /\ cur' = NoSession /\ copy' = Blank
  BY DEF NextEntry
<1>2. StageTyped'
  BY <1>1 DEF PassInv, StageTyped, EntryStages, PassStages
<1>3. BatchInv'
  <2>1. \A s \in DOMAIN batch : GoodIn(src', hub', s, batch[s])
    BY GoodGrows DEF PassInv, BatchInv
  <2> QED
    BY <1>1, <2>1 DEF PassInv, BatchInv, Good
<1>4. CopyInv'
  BY <1>1, BlankTyped DEF CopyInv, EntryStages
<1> QED
  BY <1>2, <1>3, <1>4 DEF PassInv

\* An adverse event is counted.
LEMMA HappensTyped ==
  ASSUME RestTyped, NEW kind, Happens(kind)
  PROVE  faults' \in Nat
  BY DEF RestTyped, Happens

\* An upload changes its state, but never from accepted or forgotten.
LEMMA SetUploadGrows ==
  ASSUME RestTyped, NEW k \in Key, NEW st \in UploadState,
         UNCHANGED <<src, spool, pol, owner, stopped, newRetry, local>>,
         faults' \in Nat, SetUpload(k, st),
         k \in Created => hub[k] \notin {"completed", "forgotten"}
  PROVE  /\ RestTyped' /\ Grows
         /\ k \in DOMAIN hub' /\ hub'[k] = st
<1>1. /\ DOMAIN hub' = Created \cup {k}
      /\ \A x \in Created \cup {k} : hub'[x] = IF x = k THEN st ELSE hub[x]
  BY DEF SetUpload
<1>2. RestTyped'
  BY <1>1 DEF RestTyped, Created
<1>3. \A s \in Sessions : src[s] <= src'[s]
  BY SourceNat
<1>4. Grows
  BY <1>1, <1>3 DEF Grows, Created
<1> QED
  BY <1>1, <1>2, <1>4

\* The rest of the variables keep their types when they do not change.
LEMMA RestKept ==
  ASSUME RestTyped,
         UNCHANGED <<src, spool, pol, stopped, local, newRetry, hub, owner>>,
         faults' \in Nat
  PROVE  RestTyped' /\ Grows
<1>1. RestTyped'
  BY DEF RestTyped, Created
<1> QED
  BY <1>1, SameGrows

-----------------------------------------------------------------------------
(* The world.                                                              *)

\* A source that changes keeps Inv.
LEMMA SourceChangeInv ==
  ASSUME Inv, NEW s \in Sessions, SourceChange(s)
  PROVE  Inv'
<1>1. RestTyped'
  BY BoundsAssumption DEF Inv, RestTyped, SourceChange, hubVars, Versions,
                          Created
<1>2. Grows
  BY BoundsAssumption DEF Inv, RestTyped, SourceChange, hubVars, Versions, Grows
<1>3. UNCHANGED queueVars /\ UNCHANGED passVars
  BY DEF SourceChange
<1> QED
  BY <1>1, <1>2, <1>3, QueueKept, PassKept DEF Inv

\* An upload the Hub accepts or drops keeps Inv.
LEMMA HubAcceptsInv ==
  ASSUME Inv, NEW k, HubAccepts(k) \/ HubDrops(k)
  PROVE  Inv'
<1>1. k \in Key /\ k \in Created
  BY DEF Inv, RestTyped, HubAccepts, HubDrops
<1>2. CASE HubAccepts(k)
  <2>1. /\ SetUpload(k, "completed") /\ hub[k] = "finalizing"
        /\ UNCHANGED <<src, spool, pol, owner, stopped, newRetry, local>>
        /\ UNCHANGED queueVars /\ UNCHANGED passVars /\ faults' \in Nat
    BY <1>2 DEF HubAccepts, Inv, RestTyped
  <2>2. RestTyped' /\ Grows
    BY <1>1, <2>1, SetUploadGrows DEF Inv, UploadState
  <2> QED
    BY <2>1, <2>2, QueueKept, PassKept DEF Inv
<1>3. CASE HubDrops(k)
  <2>1. /\ SetUpload(k, "dead") /\ hub[k] \in {"open", "sent", "finalizing"}
        /\ UNCHANGED <<src, spool, pol, owner, stopped, newRetry, local>>
        /\ UNCHANGED queueVars /\ UNCHANGED passVars /\ faults' \in Nat
    BY <1>3, HappensTyped DEF HubDrops, Inv
  <2>2. RestTyped' /\ Grows
    BY <1>1, <2>1, SetUploadGrows DEF Inv, UploadState
  <2> QED
    BY <2>1, <2>2, QueueKept, PassKept DEF Inv
<1> QED
  BY <1>2, <1>3

\* Revisions the Hub forgets keep Inv: accepted keys become forgotten ones.
LEMMA HubForgetsInv ==
  ASSUME Inv, NEW s \in Sessions, HubForgets(s)
  PROVE  Inv'
<1>1. /\ UNCHANGED <<src, spool, pol, owner, stopped, newRetry, local>>
      /\ UNCHANGED queueVars /\ UNCHANGED passVars /\ faults' \in Nat
  BY HappensTyped DEF HubForgets, Inv
<1>2. /\ DOMAIN hub' = Created
      /\ \A k \in Created : hub'[k] = IF k[1] = s /\ hub[k] = "completed"
                                      THEN "forgotten" ELSE hub[k]
  BY DEF HubForgets
<1>3. RestTyped'
  BY <1>1, <1>2 DEF Inv, RestTyped, Created, UploadState
<1>4. \A x \in Sessions : src[x] <= src'[x]
  BY <1>1, SourceNat DEF Inv
<1>5. Grows
  BY <1>2, <1>4 DEF Grows, Created
<1> QED
  BY <1>1, <1>3, <1>5, QueueKept, PassKept DEF Inv

\* A policy set by the owner keeps Inv.
LEMMA OwnerSetsPolicyInv ==
  ASSUME Inv, OwnerSetsPolicy
  PROVE  Inv'
<1>1. /\ UNCHANGED <<src, spool, pol, hub, stopped, newRetry, local>>
      /\ UNCHANGED queueVars /\ UNCHANGED passVars /\ faults' \in Nat
  BY HappensTyped DEF OwnerSetsPolicy, Inv
<1>2. owner' \in OwnerPolicy
  <2>1. owner.ver + 1 \in Nat
    BY DEF Inv, RestTyped, OwnerPolicy
  <2> QED
    <3>1. PICK r, h \in SUBSET Sessions, p \in BOOLEAN :
            owner' = [ver |-> owner.ver + 1, rules |-> r, hidden |-> h,
                      paused |-> p]
      BY DEF OwnerSetsPolicy
    <3> QED
      BY <2>1, <3>1 DEF OwnerPolicy
<1>3. RestTyped' /\ Grows
  BY <1>1, <1>2, SameGrows DEF Inv, RestTyped, Created
<1> QED
  BY <1>1, <1>3, QueueKept, PassKept DEF Inv

\* A crash and the following Open keep Inv: only Listed is reset.
LEMMA RestartInv ==
  ASSUME Inv, Restart
  PROVE  Inv'
<1>1. /\ UNCHANGED <<src, spool, pol, hub, owner, stopped, discards>>
      /\ newRetry' \in BOOLEAN /\ local' \in Nat \ {0} /\ faults' \in Nat
      /\ PassEnds
      /\ q' = [s \in Sessions |-> [q[s] EXCEPT !.listed = FALSE]]
  <2>1. faults' \in Nat
    BY HappensTyped DEF Restart, Inv
  <2>2. local' \in Nat \ {0}
    BY DEF Restart, Inv, RestTyped
  <2> QED
    BY <2>1, <2>2 DEF Restart, hubVars
<1>2. RestTyped'
  BY <1>1 DEF Inv, RestTyped, Created
<1>3. ASSUME NEW s \in Sessions
      PROVE  Good(s, [q[s] EXCEPT !.listed = FALSE])
  <2> DEFINE e == q[s]
             f == [e EXCEPT !.listed = FALSE]
  <2>1. Good(s, e) /\ e \in Entry
    BY DEF Inv, QueueInv, Good, GoodIn
  <2>2. f \in Entry
    BY <2>1, Zenon DEF Entry
  <2>3. /\ f.act = e.act /\ f.frozen = e.frozen /\ f.rev = e.rev
        /\ f.synced = e.synced /\ f.bundle = e.bundle /\ f.upload = e.upload
        /\ f.attempt = e.attempt
    BY <2>1 DEF Entry
  <2> QED
    BY <2>1, <2>2, <2>3, SameClaims
<1>4. QueueInv'
  <2>1. \A s \in Sessions : GoodIn(src', hub', s, q'[s])
    BY <1>1, <1>3 DEF Good
  <2>2. q' \in [Sessions -> Entry]
    BY <1>1, <1>3 DEF Good, GoodIn
  <2> QED
    BY <1>1, <2>1, <2>2 DEF QueueInv, Inv, Good
<1> QED
  BY <1>1, <1>2, <1>4, PassEndsInv DEF Inv

\* Pairing with another Hub keeps Inv: claims and uploads are dropped with the
\* Hub they were made to, and between passes there are no copies.
LEMMA RebindInv ==
  ASSUME Inv, Rebind
  PROVE  Inv'
<1> DEFINE new == [s \in Sessions |-> [Blank EXCEPT !.act = q[s].act,
                                                    !.excluded = q[s].excluded]]
<1>0. newRetry' \in BOOLEAN
  BY DEF Rebind, Inv, RestTyped
<1>1. /\ UNCHANGED <<src, spool, owner, local>> /\ stage = "idle"
      /\ stopped' \in BOOLEAN /\ faults' \in Nat /\ PutAll(new)
      /\ pol' = [ver |-> 0, rules |-> {}, paused |-> FALSE]
      /\ hub' = NoUploads /\ UNCHANGED passVars
  BY HappensTyped DEF Rebind, Inv
<1>2. DOMAIN hub' = {}
  BY <1>1 DEF NoUploads
<1>3. pol' \in Policy
  BY <1>1 DEF Policy
<1>4. RestTyped'
  BY <1>0, <1>1, <1>2, <1>3 DEF Inv, RestTyped, Created
<1>5. ASSUME NEW s \in Sessions PROVE GoodIn(src', hub', s, new[s])
  <2>1. q[s] \in Entry /\ q[s].act <= src[s] /\ src[s] \in Nat
    BY SourceNat DEF Inv, QueueInv, Good, GoodIn, SoundIn
  <2> DEFINE f == [Blank EXCEPT !.act = q[s].act, !.excluded = q[s].excluded]
  <2>2. q[s].act \in 0..MaxVersion /\ q[s].excluded \in BOOLEAN
    BY <2>1 DEF Entry
  <2>3. f \in Entry
    BY <2>2, BlankTyped, Zenon DEF Entry
  <2>4. /\ f.act = q[s].act /\ f.frozen = 0 /\ f.rev = 0 /\ f.bundle = 0
        /\ f.upload = NoKey
    BY DEF Blank
  <2>5. SoundIn(src', hub', s, f)
    <3>1. src'[s] = src[s]
      BY <1>1
    <3> HIDE DEF f
    <3> QED
      BY <2>1, <2>4, <3>1 DEF SoundIn
  <2> QED
    BY <2>3, <2>5 DEF GoodIn
<1>6. new \in [Sessions -> Entry]
  BY <1>5, Zenon DEF GoodIn
<1>7. QueueInv'
  <2>1. \A s \in Sessions : Bundles(s, q[s]) \subseteq Bundle
    BY BundlesTyped DEF Inv, QueueInv
  <2>2. q' = new /\ discards' \subseteq Bundle
    BY <1>1, <2>1, Zenon DEF PutAll, Inv, QueueInv
  <2> QED
    BY <1>5, <1>6, <2>2 DEF QueueInv, Good
<1>8. PassInv'
  <2>1. /\ stage' = "idle" /\ loop' = loop /\ batch' = batch /\ cur' = cur
        /\ copy' = copy
    BY <1>1 DEF passVars
  <2>2. DOMAIN batch = {}
    BY <1>1 DEF Inv, PassInv, BatchInv
  <2> QED
    BY <1>1, <2>1, <2>2 DEF Inv, PassInv, StageTyped, BatchInv, CopyInv,
                            EntryStages, PassStages
<1> QED
  BY <1>4, <1>7, <1>8 DEF Inv

-----------------------------------------------------------------------------
(* The pass up to its content loops.                                       *)

\* A step between stages without an entry in hand keeps the pass's part.
LEMMA StageMoves ==
  ASSUME RestTyped, RestTyped', Grows, PassInv,
         stage \notin EntryStages, stage' \in PassStages, loop' \in {1, 2},
         UNCHANGED <<batch, cur, copy>>
  PROVE  PassInv'
<1>1. stage' \notin EntryStages /\ stage' # "idle"
  BY DEF PassStages, EntryStages
<1>2. StageTyped'
  BY <1>1 DEF PassInv, StageTyped
<1>3. BatchInv'
  <2>1. \A s \in DOMAIN batch : GoodIn(src', hub', s, batch[s])
    BY GoodGrows DEF PassInv, BatchInv
  <2> QED
    BY <1>1, <2>1 DEF PassInv, BatchInv, Good
<1>4. CopyInv'
  BY <1>1 DEF PassInv, CopyInv, EntryStages
<1> QED
  BY <1>2, <1>3, <1>4 DEF PassInv

\* A policy applied at a check-in keeps the queue's part.
LEMMA ApplyPolicyInv ==
  ASSUME Inv, ApplyPolicy, UNCHANGED <<src, spool, local, newRetry, hubVars, faults>>
  PROVE  RestTyped' /\ Grows /\ QueueInv'
<1>0. UNCHANGED <<src, spool, local, newRetry, hub, owner, faults>>
  BY DEF hubVars
<1>1. CASE owner.ver > pol.ver
  <2>1. /\ pol' = [ver |-> owner.ver, rules |-> owner.rules,
                   paused |-> owner.paused]
        /\ stopped' = FALSE
        /\ PutAll([s \in Sessions |-> Governed(s)])
    BY <1>1 DEF ApplyPolicy
  <2>2. pol' \in Policy
    BY <2>1 DEF Inv, RestTyped, Policy, OwnerPolicy
  <2>3. RestTyped' /\ Grows
    BY <1>0, <2>1, <2>2, SameGrows DEF Inv, RestTyped, Created
  <2> DEFINE new == [s \in Sessions |-> Governed(s)]
  <2>4. \A s \in Sessions : Good(s, Governed(s))
    BY SourceNat, GovernedGood DEF Inv, QueueInv
  <2>5. new \in [Sessions -> Entry] /\ \A s \in Sessions : Good(s, new[s])
    BY <2>4, Zenon DEF Good, GoodIn
  <2>6. QueueInv'
    <3> HIDE DEF new
    <3> QED
      BY <1>0, <2>1, <2>5, PutAllInv DEF Inv, new
  <2> QED
    BY <2>3, <2>6
<1>2. CASE ~(owner.ver > pol.ver)
  <2>1. UNCHANGED <<pol, stopped, queueVars>>
    BY <1>2 DEF ApplyPolicy
  <2>2. RestTyped' /\ Grows
    BY <1>0, <2>1, SameGrows DEF Inv, RestTyped, Created
  <2> QED
    BY <2>1, <2>2, QueueKept DEF Inv
<1> QED
  BY <1>1, <1>2

\* The check-in that starts a pass keeps Inv.
LEMMA StartPassInv ==
  ASSUME Inv, StartPass
  PROVE  Inv'
<1>1. RestTyped' /\ Grows /\ QueueInv'
  BY ApplyPolicyInv DEF StartPass
<1>2. /\ stage = "idle" /\ stage' = "begin"
      /\ UNCHANGED <<loop, batch, cur, copy>>
  BY DEF StartPass
<1>3. PassInv'
  BY <1>1, <1>2, StageMoves
     DEF Inv, PassInv, StageTyped, EntryStages, PassStages
<1> QED
  BY <1>1, <1>3 DEF Inv

\* A check-in during the pass keeps Inv, although it may make the copy stale.
LEMMA RefreshInv ==
  ASSUME Inv, Refresh
  PROVE  Inv'
<1>1. RestTyped' /\ Grows /\ QueueInv'
  BY ApplyPolicyInv DEF Refresh
<1>2. PassInv'
  BY <1>1, PassKept DEF Refresh, Inv
<1> QED
  BY <1>1, <1>2 DEF Inv

\* A Hub retry keeps Inv, although it may make the copy stale.
LEMMA TakeRetryInv ==
  ASSUME Inv, NEW s \in Sessions, TakeRetry(s)
  PROVE  Inv'
<1>1. /\ UNCHANGED <<src, spool, pol, stopped, local, hub, owner>>
      /\ UNCHANGED passVars /\ newRetry' = TRUE /\ faults' \in Nat
      /\ Put(s, Retried(q[s]))
  BY HappensTyped DEF TakeRetry, Inv, hubVars
<1>2. RestTyped' /\ Grows
  BY <1>1, SameGrows DEF Inv, RestTyped, Created
<1>3. Good(s, Retried(q[s]))
  BY SourceNat, RetriedGood DEF Inv, QueueInv
<1>4. QueueInv'
  BY <1>1, <1>3, PutInv DEF Inv
<1> QED
  BY <1>1, <1>2, <1>4, PassKept DEF Inv

\* The checks after the first check-in keep Inv.
LEMMA AdmitInv ==
  ASSUME Inv, Admit
  PROVE  Inv'
<1>1. /\ UNCHANGED <<src, spool, pol, stopped, local, hub, owner, faults>>
      /\ UNCHANGED queueVars /\ stage = "begin"
  BY DEF Admit, hubVars
<1>2. newRetry' \in BOOLEAN
  BY DEF Admit, Inv, RestTyped
<1>3. RestTyped' /\ Grows
  BY <1>1, <1>2, SameGrows DEF Inv, RestTyped, Created
<1>4. PassInv'
  <2>1. PassEnds \/ (stage' = "sweep" /\ UNCHANGED <<loop, batch, cur, copy>>)
    BY DEF Admit
  <2> QED
    BY <1>1, <1>3, <2>1, PassEndsInv, StageMoves
       DEF Inv, PassInv, StageTyped, EntryStages, PassStages
<1> QED
  BY <1>1, <1>3, <1>4, QueueKept DEF Inv

\* Deleting abandoned bundles keeps Inv.
LEMMA DiscardAbandonedInv ==
  ASSUME Inv, DiscardAbandoned
  PROVE  Inv'
<1>1. /\ UNCHANGED <<src, q, pol, stopped, local, newRetry, hub, owner>>
      /\ UNCHANGED <<loop, batch, cur, copy>>
      /\ stage = "sweep" /\ stage' = "discover"
  BY DEF DiscardAbandoned, hubVars
<1>2. spool' \subseteq spool /\ discards' \subseteq discards /\ faults' \in Nat
  BY HappensTyped DEF DiscardAbandoned, Inv, RestTyped
<1>3. RestTyped' /\ Grows
  BY <1>1, <1>2, SameGrows DEF Inv, RestTyped, Created
<1>4. QueueInv'
  BY <1>1, <1>2 DEF Inv, QueueInv, Good
<1>5. PassInv'
  BY <1>1, <1>3, StageMoves
     DEF Inv, PassInv, StageTyped, EntryStages, PassStages
<1> QED
  BY <1>3, <1>4, <1>5 DEF Inv

\* Discovery keeps Inv.
LEMMA DiscoverInv ==
  ASSUME Inv, NEW failing, Discover(failing)
  PROVE  Inv'
<1> DEFINE new == [s \in Sessions |-> Discovered(s, s \in failing)]
<1>1. /\ UNCHANGED <<src, spool, pol, stopped, local, newRetry, hub, owner>>
      /\ UNCHANGED <<loop, batch, cur, copy>>
      /\ stage = "discover" /\ stage' = "list" /\ PutAll(new)
  BY DEF Discover, hubVars
<1>2. faults' \in Nat
  BY HappensTyped DEF Discover, Inv, RestTyped
<1>3. RestTyped' /\ Grows
  BY <1>1, <1>2, RestKept DEF Inv
<1>4. \A s \in Sessions : Good(s, Discovered(s, s \in failing))
  BY DiscoveredGood DEF Inv, QueueInv
<1>5. new \in [Sessions -> Entry] /\ \A s \in Sessions : Good(s, new[s])
  BY <1>4, Zenon DEF Good, GoodIn
<1>6. QueueInv'
  <2> HIDE DEF new
  <2> QED
    BY <1>1, <1>5, PutAllInv DEF Inv
<1>7. PassInv'
  BY <1>1, <1>3, StageMoves
     DEF Inv, PassInv, StageTyped, EntryStages, PassStages
<1> QED
  BY <1>3, <1>6, <1>7 DEF Inv

\* Listing the sessions on the Hub keeps Inv.
LEMMA ListAllInv ==
  ASSUME Inv, ListAll
  PROVE  Inv'
<1> DEFINE new == [s \in Sessions |-> IF Listable(s) THEN Marked(s) ELSE q[s]]
<1>1. /\ UNCHANGED <<src, spool, pol, stopped, local, newRetry, hub, owner, faults>>
      /\ stage = "list"
  BY DEF ListAll, hubVars
<1>2. RestTyped' /\ Grows
  BY <1>1, RestKept DEF Inv, RestTyped
<1>3. \A s \in Sessions : Good(s, IF Listable(s) THEN Marked(s) ELSE q[s])
  BY MarkedGood DEF Inv, QueueInv
<1>4. new \in [Sessions -> Entry] /\ \A s \in Sessions : Good(s, new[s])
  BY <1>3, Zenon DEF Good, GoodIn
<1>5. CASE pol.paused
  BY <1>1, <1>2, <1>5, PassEndsInv, QueueKept DEF ListAll, Inv
<1>6. CASE ~pol.paused
  <2>1. PutAll(new) /\ stage' = "copies" /\ UNCHANGED <<loop, batch, cur, copy>>
    BY <1>6 DEF ListAll
  <2>2. QueueInv'
    <3> HIDE DEF new
    <3> QED
      BY <1>1, <1>4, <2>1, PutAllInv DEF Inv
  <2>3. PassInv'
    BY <1>1, <1>2, <2>1, StageMoves
       DEF Inv, PassInv, StageTyped, EntryStages, PassStages
  <2> QED
    BY <1>2, <2>2, <2>3 DEF Inv
<1> QED
  BY <1>5, <1>6

\* The copies a loop takes are Sound because the queue's entries are.
LEMMA TakeCopiesInv ==
  ASSUME Inv, NEW due, TakeCopies(due)
  PROVE  Inv'
<1>1. /\ UNCHANGED <<src, spool, pol, stopped, local, newRetry, hub, owner, faults>>
      /\ UNCHANGED queueVars /\ UNCHANGED <<loop, cur, copy>>
      /\ stage = "copies" /\ stage' = "pick"
      /\ batch' = [s \in due |-> q[s]] /\ due \subseteq Sessions
  BY DEF TakeCopies, hubVars, Eligible
<1>2. RestTyped' /\ Grows
  BY <1>1, RestKept DEF Inv, RestTyped
<1>3. QueueInv'
  BY <1>1, <1>2, QueueKept DEF Inv
<1>4. BatchInv'
  <2>1. q' = q
    BY <1>1 DEF queueVars
  <2>2. \A s \in due : GoodIn(src', hub', s, q[s])
    BY <1>1, <1>3, <2>1 DEF QueueInv, Good
  <2> QED
    BY <1>1, <2>2 DEF BatchInv, Good
<1>5. StageTyped' /\ CopyInv'
  BY <1>1 DEF Inv, PassInv, StageTyped, CopyInv, EntryStages, PassStages
<1> QED
  BY <1>2, <1>3, <1>4, <1>5 DEF Inv, PassInv

-----------------------------------------------------------------------------
(* The content loops.                                                      *)

\* The copy in hand and its entry are both Sound.
LEMMA CurGood ==
  ASSUME Inv, stage \in EntryStages
  PROVE  /\ cur \in Sessions /\ Good(cur, copy) /\ copy \in Entry
         /\ copy.frozen # 0 => copy.act = copy.frozen
         /\ Good(cur, q[cur]) /\ src[cur] \in Nat
  BY SourceNat DEF Inv, PassInv, StageTyped, CopyInv, QueueInv

\* Work on one entry goes on: only the copy matters.
LEMMA EntryMoves ==
  ASSUME RestTyped, RestTyped', Grows, PassInv, stage \in EntryStages,
         stage' \in EntryStages, UNCHANGED <<loop, batch, cur>>, CopyInv'
  PROVE  PassInv'
<1>1. stage' # "idle"
  BY DEF EntryStages
<1>2. StageTyped'
  BY DEF PassInv, StageTyped
<1>3. BatchInv'
  <2>1. \A s \in DOMAIN batch : GoodIn(src', hub', s, batch[s])
    BY GoodGrows DEF PassInv, BatchInv
  <2> QED
    BY <1>1, <2>1 DEF PassInv, BatchInv, Good
<1> QED
  BY <1>2, <1>3 DEF PassInv

\* The stage moves on with the same copy, and the Hub and queue are as before.
LEMMA StepQuiet ==
  ASSUME Inv, UNCHANGED <<src, spool, pol, stopped, local, newRetry, hub, owner>>,
         faults' \in Nat, UNCHANGED queueVars
  PROVE  RestTyped' /\ Grows /\ QueueInv'
<1>1. RestTyped' /\ Grows
  BY RestKept DEF Inv
<1> QED
  BY <1>1, QueueKept DEF Inv

\* Picking the next copy keeps Inv.
LEMMA PickInv ==
  ASSUME Inv, NEW s \in Sessions, Pick(s)
  PROVE  Inv'
<1>1. /\ UNCHANGED <<src, spool, pol, stopped, local, newRetry, hub, owner>>
      /\ UNCHANGED queueVars /\ faults' \in Nat /\ UNCHANGED loop
      /\ stage = "pick" /\ s \in DOMAIN batch /\ cur' = s
      /\ copy' = UploadEntry(batch[s]) /\ stage' = "consent"
      /\ batch' = [x \in DOMAIN batch \ {s} |-> batch[x]]
  BY DEF Pick, hubVars, Inv, RestTyped
<1>2. RestTyped' /\ Grows /\ QueueInv'
  BY <1>1, StepQuiet
<1>3. BatchInv'
  BY <1>1 DEF Inv, PassInv, BatchInv, Good
<1>4. CopyInv'
  <2>1. Good(s, batch[s])
    BY <1>1 DEF Inv, PassInv, BatchInv
  <2>2. /\ Good(s, UploadEntry(batch[s]))
        /\ UploadEntry(batch[s]).frozen # 0 =>
             UploadEntry(batch[s]).act = UploadEntry(batch[s]).frozen
    BY <2>1, UploadEntryGood
  <2> QED
    BY <1>1, <2>2 DEF CopyInv, Good, GoodIn
<1>5. StageTyped'
  BY <1>1, SessionsAssumption DEF Inv, PassInv, StageTyped, EntryStages
<1> QED
  BY <1>2, <1>3, <1>4, <1>5 DEF Inv, PassInv

\* The end of a loop keeps Inv.
LEMMA LoopEndsInv ==
  ASSUME Inv, LoopEnds
  PROVE  Inv'
<1>1. /\ UNCHANGED <<src, spool, pol, stopped, local, newRetry, hub, owner>>
      /\ UNCHANGED queueVars /\ faults' \in Nat /\ stage = "pick"
  BY DEF LoopEnds, hubVars, Inv, RestTyped
<1>2. RestTyped' /\ Grows /\ QueueInv'
  BY <1>1, StepQuiet
<1>3. PassEnds \/ (stage' = "copies" /\ loop' = 2 /\ UNCHANGED <<batch, cur, copy>>)
  BY DEF LoopEnds
<1>4. PassInv'
  BY <1>1, <1>2, <1>3, PassEndsInv, StageMoves
     DEF Inv, PassInv, StageTyped, EntryStages, PassStages
<1> QED
  BY <1>2, <1>4 DEF Inv

\* A pass stopped by a stale copy or a pause keeps Inv.
LEMMA DisallowedInv ==
  ASSUME Inv, Disallowed
  PROVE  Inv'
<1>1. /\ UNCHANGED <<src, spool, pol, stopped, local, newRetry, hub, owner>>
      /\ UNCHANGED queueVars /\ faults' \in Nat /\ PassEnds
  BY DEF Disallowed, hubVars, Inv, RestTyped
<1> QED
  BY <1>1, StepQuiet, PassEndsInv DEF Inv

\* Passing the consent check keeps Inv.
LEMMA ConsentInv ==
  ASSUME Inv, Consent
  PROVE  Inv'
<1>1. /\ UNCHANGED <<src, spool, pol, stopped, local, newRetry, hub, owner>>
      /\ UNCHANGED queueVars /\ faults' \in Nat
      /\ UNCHANGED <<loop, batch, cur>> /\ copy' = copy
      /\ stage = "consent"
      /\ stage' = IF copy.upload # NoKey THEN "status" ELSE "prepare"
  BY DEF Consent, hubVars, Inv, RestTyped
<1>2. RestTyped' /\ Grows /\ QueueInv'
  BY <1>1, StepQuiet
<1>3. stage \in EntryStages /\ stage' \in EntryStages
  BY <1>1 DEF EntryStages
<1>4. CopyInv'
  BY <1>1, <1>3, CurGood DEF CopyInv, Good
<1> QED
  BY <1>1, <1>2, <1>3, <1>4, EntryMoves DEF Inv

\* recoverUnprepared keeps Inv.
LEMMA RecoverUnpreparedInv ==
  ASSUME Inv, RecoverUnprepared
  PROVE  Inv'
<1>1. /\ UNCHANGED <<src, spool, pol, stopped, local, newRetry, hub, owner>>
      /\ faults' \in Nat /\ UNCHANGED <<stage, loop, batch, cur>>
      /\ stage = "prepare" /\ copy' = Unfrozen(q[cur]) /\ Put(cur, copy')
  BY DEF RecoverUnprepared, hubVars, Inv, RestTyped
<1>2. RestTyped' /\ Grows
  BY <1>1, RestKept DEF Inv
<1>3. stage \in EntryStages
  BY <1>1 DEF EntryStages
<1>4. /\ Good(cur, copy') /\ copy'.frozen = 0 /\ copy'.upload = NoKey
  BY <1>1, <1>3, CurGood, UnfrozenGood
<1>5. QueueInv'
  BY <1>1, <1>3, <1>4, CurGood, PutInv DEF Inv
<1>6. CopyInv'
  BY <1>1, <1>3, <1>4 DEF CopyInv, Good, GoodIn
<1> QED
  BY <1>1, <1>2, <1>3, <1>5, <1>6, EntryMoves DEF Inv

\* startPending keeps Inv: it withdraws the revision before a new capture.
LEMMA StartPendingInv ==
  ASSUME Inv, StartPending
  PROVE  Inv'
<1> DEFINE e == [copy EXCEPT !.rev = 0, !.bundle = 0]
<1>1. /\ UNCHANGED <<src, spool, pol, stopped, local, newRetry, hub, owner>>
      /\ faults' \in Nat /\ UNCHANGED <<stage, loop, batch, cur>>
      /\ stage = "prepare" /\ copy' = e /\ Update(cur, e)
  BY DEF StartPending, Save, hubVars, Inv, RestTyped
<1>2. RestTyped' /\ Grows
  BY <1>1, RestKept DEF Inv
<1>3. stage \in EntryStages /\ copy.upload = NoKey
  BY <1>1 DEF EntryStages, Inv, PassInv, CopyInv
<1>4. e \in Entry
  BY <1>3, CurGood, Zero, Zenon DEF Entry
<1>5. /\ e.act = copy.act /\ e.frozen = copy.frozen /\ e.rev = 0
      /\ e.bundle = 0 /\ e.upload = NoKey
  BY <1>3, CurGood DEF Entry
<1>6. Good(cur, e)
  BY <1>3, <1>4, <1>5, CurGood, GivenUp
<1>7. QueueInv'
  BY <1>1, <1>3, <1>6, CurGood, UpdateInv DEF Inv
<1>8. CopyInv'
  <2> HIDE DEF e
  <2> QED
    BY <1>1, <1>3, <1>4, <1>5, <1>6, CurGood DEF CopyInv, Good
<1> QED
  BY <1>1, <1>2, <1>3, <1>7, <1>8, EntryMoves DEF Inv

\* The hold takes the version the copy was made from.
LEMMA FreezeInv ==
  ASSUME Inv, Freeze
  PROVE  Inv'
<1> DEFINE e == [q[cur] EXCEPT !.frozen = copy.act]
<1>1. /\ UNCHANGED <<src, spool, pol, stopped, local, newRetry, hub, owner>>
      /\ faults' \in Nat /\ UNCHANGED <<stage, loop, batch, cur>>
      /\ stage = "prepare" /\ copy' = UploadEntry(q'[cur]) /\ Put(cur, e)
      /\ q[cur].frozen = 0 /\ q[cur].act = copy.act
      /\ q[cur].upload = copy.upload
  BY DEF Freeze, ReadyToCapture, Matches, hubVars, Inv, RestTyped
<1>2. RestTyped' /\ Grows
  BY <1>1, RestKept DEF Inv
<1>3. stage \in EntryStages /\ copy.upload = NoKey
  BY <1>1 DEF EntryStages, Inv, PassInv, CopyInv
<1>4. e \in Entry /\ copy.act \in Nat
  <2>1. copy.act \in 0..MaxVersion /\ q[cur] \in Entry
    BY <1>3, CurGood DEF Entry, Good, GoodIn
  <2>2. e \in Entry
    BY <2>1, Zenon DEF Entry
  <2> QED
    BY <2>1, <2>2, BoundsAssumption
<1>5. /\ e.act = copy.act /\ e.frozen = copy.act /\ e.rev = q[cur].rev
      /\ e.synced = q[cur].synced /\ e.bundle = q[cur].bundle
      /\ e.upload = NoKey /\ e.attempt = q[cur].attempt
  BY <1>1, <1>3, CurGood DEF Entry, Good, GoodIn
<1>6. Good(cur, e)
  <2>1. SoundIn(src, hub, cur, e)
    <3> HIDE DEF e
    <3> QED
      BY <1>1, <1>3, <1>5, CurGood DEF Good, GoodIn, SoundIn, Target, KeyOf
  <2> QED
    BY <1>4, <2>1 DEF Good, GoodIn
<1>7. QueueInv' /\ q'[cur] = e
  BY <1>1, <1>3, <1>6, CurGood, PutInv DEF Inv
<1>8. /\ Good(cur, UploadEntry(e)) /\ UploadEntry(e).upload = NoKey
      /\ UploadEntry(e).frozen # 0 => UploadEntry(e).act = UploadEntry(e).frozen
  BY <1>3, <1>5, <1>6, CurGood, UploadEntryGood
<1>9. CopyInv'
  <2> HIDE DEF e
  <2> QED
    BY <1>1, <1>3, <1>7, <1>8 DEF CopyInv, Good, GoodIn
<1> QED
  BY <1>1, <1>2, <1>3, <1>7, <1>9, EntryMoves DEF Inv

\* A capture keeps Inv: its content is as new as the source, hence as the version
\* the copy is for.
LEMMA CaptureInv ==
  ASSUME Inv, Capture
  PROVE  Inv'
<1> DEFINE e == [copy EXCEPT !.bundle = src[cur]]
<1>1. /\ UNCHANGED <<src, pol, stopped, local, newRetry, hub, owner, faults>>
      /\ UNCHANGED <<loop, batch, cur>> /\ stage = "prepare"
      /\ stage' = "create" /\ copy' = e /\ Update(cur, e) /\ copy.rev = 0
      /\ spool' = spool \cup {<<cur, src[cur]>>}
  BY DEF Capture, ReadyToCapture, Save, hubVars
<1>2. stage \in EntryStages /\ stage' \in EntryStages /\ copy.upload = NoKey
  BY <1>1 DEF EntryStages, Inv, PassInv, CopyInv
<1>3. cur \in Sessions /\ src[cur] \in Versions
  BY <1>2, CurGood, SourceNat DEF Inv
<1>4. RestTyped' /\ Grows
  <2>1. spool' \subseteq Bundle
    BY <1>1, <1>3 DEF Inv, RestTyped, Bundle
  <2> QED
    BY <1>1, <2>1, SameGrows DEF Inv, RestTyped, Created
<1>5. e \in Entry
  <2>1. src[cur] \in 0..MaxVersion
    BY <1>3, BoundsAssumption DEF Versions
  <2> QED
    BY <1>2, <2>1, CurGood, Zenon DEF Entry
<1>6. /\ e.act = copy.act /\ e.frozen = copy.frozen /\ e.rev = 0
      /\ e.bundle = src[cur] /\ e.upload = NoKey
  BY <1>1, <1>2, CurGood DEF Entry
<1>7. src[cur] # 0 /\ src[cur] \in Nat
  BY <1>3, BoundsAssumption DEF Versions
<1>8. Good(cur, e)
  <2>1. SoundIn(src, hub, cur, e)
    <3> HIDE DEF e
    <3> QED
      BY <1>2, <1>6, <1>7, CurGood DEF Good, GoodIn, SoundIn, Target
  <2> QED
    BY <1>5, <2>1 DEF Good, GoodIn
<1>9. QueueInv'
  <2> HIDE DEF e
  <2> QED
    BY <1>1, <1>3, <1>8, UpdateInv DEF Inv
<1>10. CopyInv'
  <2> HIDE DEF e
  <2> QED
    BY <1>1, <1>2, <1>5, <1>6, <1>7, <1>8, CurGood DEF CopyInv, Good
<1> QED
  BY <1>1, <1>2, <1>4, <1>9, <1>10, EntryMoves DEF Inv

\* Going on with the bundle of an earlier pass keeps Inv.
LEMMA ReuseBundleInv ==
  ASSUME Inv, ReuseBundle
  PROVE  Inv'
<1>1. /\ UNCHANGED <<src, spool, pol, stopped, local, newRetry, hub, owner>>
      /\ UNCHANGED queueVars /\ faults' \in Nat
      /\ UNCHANGED <<loop, batch, cur>> /\ copy' = copy
      /\ stage = "prepare" /\ stage' = "create" /\ copy.rev = 0 /\ copy.bundle # 0
  BY DEF ReuseBundle, ReadyToCapture, hubVars, Inv, RestTyped
<1>2. RestTyped' /\ Grows /\ QueueInv'
  BY <1>1, StepQuiet
<1>3. stage \in EntryStages /\ stage' \in EntryStages
  BY <1>1 DEF EntryStages
<1>4. CopyInv'
  BY <1>1, <1>3, CurGood DEF CopyInv, Good, Inv, PassInv
<1> QED
  BY <1>1, <1>2, <1>3, <1>4, EntryMoves DEF Inv

\* The key the runner sends is a key, because its bundle is in the spool.
LEMMA KeyTyped ==
  ASSUME Inv, stage \in EntryStages, HasBundle
  PROVE  UploadKey \in Key /\ UploadKey = KeyOf(cur, copy) /\ copy.bundle # 0
<1>1. <<cur, copy.bundle>> \in Bundle
  BY DEF HasBundle, Inv, RestTyped
<1>2. cur \in Sessions /\ copy.bundle \in Versions
  BY <1>1 DEF Bundle
<1>3. copy.attempt \in Nat
  BY CurGood DEF Entry
<1> QED
  BY <1>2, <1>3, BoundsAssumption DEF UploadKey, Key, KeyOf, Versions

\* An upload is opened only while its key is not forgotten, so its content is
\* new enough.
LEMMA CreateOpensInv ==
  ASSUME Inv, CreateOpens
  PROVE  Inv'
<1> DEFINE e == [copy EXCEPT !.upload = UploadKey, !.sid = TRUE]
<1>1. /\ UNCHANGED <<src, spool, pol, stopped, local, newRetry, owner, faults>>
      /\ UNCHANGED <<loop, batch, cur>> /\ stage = "create" /\ HasBundle
      /\ stage' = "consent" /\ copy' = e /\ Accepts(cur, e)
      /\ Put(cur, Stored(cur, e))
      /\ UploadAt(UploadKey) \in {"none", "open", "sent"}
      /\ IF UploadKey \in Created THEN UNCHANGED hub
                                  ELSE SetUpload(UploadKey, "open")
  BY DEF CreateOpens, Creating, Save, Update
<1>2. /\ stage \in EntryStages /\ stage' \in EntryStages
      /\ copy.upload = NoKey /\ copy.rev = 0
  BY <1>1 DEF EntryStages, Inv, PassInv, CopyInv
<1>3. UploadKey \in Key /\ UploadKey = KeyOf(cur, copy) /\ copy.bundle # 0
  BY <1>1, <1>2, KeyTyped
<1>4. RestTyped' /\ Grows /\ UploadKey \in DOMAIN hub'
  <2>1. CASE UploadKey \in Created
    <3>1. hub' = hub
      BY <1>1, <2>1
    <3>2. RestTyped'
      BY <1>1, <3>1 DEF Inv, RestTyped, Created
    <3>3. Grows
      BY <1>1, <3>1, SameGrows DEF Inv
    <3> QED
      BY <2>1, <3>1, <3>2, <3>3 DEF Created
  <2>2. CASE UploadKey \notin Created
    BY <1>1, <1>3, <2>2, SetUploadGrows DEF Inv, RestTyped, UploadState
  <2> QED
    BY <2>1, <2>2
<1>5. Target(copy) <= copy.bundle
  <2>1. StateIn(hub, KeyOf(cur, copy)) # "forgotten"
    BY <1>1, <1>3 DEF UploadAt, StateIn, Created
  <2> QED
    BY <1>2, <1>3, <2>1, CurGood DEF Good, GoodIn, SoundIn
<1>6. e \in Entry
  BY <1>2, <1>3, CurGood, Zenon DEF Entry
<1>7. /\ e.act = copy.act /\ e.frozen = copy.frozen /\ e.rev = 0
      /\ e.bundle = copy.bundle /\ e.upload = UploadKey
      /\ e.attempt = copy.attempt
  BY <1>2, CurGood DEF Entry
<1>8. GoodIn(src', hub', cur, e)
  <2>1. KeyOf(cur, e) = UploadKey /\ Target(e) <= e.bundle
    BY <1>3, <1>5, <1>7 DEF KeyOf, Target
  <2>2. e.act <= src'[cur] /\ e.frozen <= src'[cur]
    BY <1>1, <1>2, <1>7, CurGood DEF Good, GoodIn, SoundIn
  <2>3. SoundIn(src', hub', cur, e)
    <3> HIDE DEF e
    <3> QED
      BY <1>3, <1>4, <1>7, <2>1, <2>2 DEF SoundIn
  <2> QED
    BY <1>6, <2>3 DEF GoodIn
<1>9. QueueInv'
  <2>1. GoodIn(src', hub', cur, q[cur]) /\ src'[cur] \in Nat
    BY <1>1, <1>2, <1>4, CurGood, GoodGrows DEF Inv
  <2>2. GoodIn(src', hub', cur, Stored(cur, e))
    <3> HIDE DEF e
    <3> QED
      BY <1>1, <1>2, <1>8, <2>1, CurGood, StoredGoodIn
  <2> QED
    BY <1>1, <1>2, <1>4, <2>2, CurGood, PutGrows DEF Inv
<1>10. CopyInv'
  <2>1. e.frozen # 0 => e.act = e.frozen
    BY <1>2, <1>7, CurGood
  <2> HIDE DEF e
  <2> QED
    BY <1>1, <1>6, <1>8, <2>1 DEF CopyInv, Good
<1> QED
  BY <1>1, <1>2, <1>4, <1>9, <1>10, EntryMoves DEF Inv

\* A create whose answer is lost keeps Inv.
LEMMA CreateLostInv ==
  ASSUME Inv, CreateLost
  PROVE  Inv'
<1>1. /\ UNCHANGED <<src, spool, pol, stopped, local, newRetry, owner>>
      /\ UNCHANGED queueVars /\ faults' \in Nat /\ NextEntry
      /\ stage = "create" /\ HasBundle /\ UploadKey \notin Created
      /\ SetUpload(UploadKey, "open")
  BY HappensTyped DEF CreateLost, Creating, Inv
<1>2. stage \in EntryStages
  BY <1>1 DEF EntryStages
<1>3. RestTyped' /\ Grows
  BY <1>1, <1>2, KeyTyped, SetUploadGrows DEF Inv, UploadState
<1> QED
  BY <1>1, <1>3, NextEntryInv, QueueKept DEF Inv

\* A create that finds its key accepted keeps Inv.
LEMMA CreateCompletedInv ==
  ASSUME Inv, CreateCompleted
  PROVE  Inv'
<1> DEFINE e == [copy EXCEPT !.sid = TRUE]
<1>1. /\ UNCHANGED <<src, spool, pol, stopped, local, newRetry, hub, owner>>
      /\ UNCHANGED queueVars /\ faults' \in Nat
      /\ UNCHANGED <<loop, batch, cur>> /\ copy' = e
      /\ stage = "create" /\ stage' = "complete" /\ HasBundle
      /\ UploadAt(UploadKey) = "completed"
  BY DEF CreateCompleted, Creating, hubVars, Inv, RestTyped
<1>2. RestTyped' /\ Grows /\ QueueInv'
  BY <1>1, StepQuiet
<1>3. stage \in EntryStages /\ stage' \in EntryStages /\ copy.rev = 0
  BY <1>1 DEF EntryStages, Inv, PassInv, CopyInv
<1>4. StateIn(hub, KeyOf(cur, copy)) = "completed" /\ copy.bundle # 0
  BY <1>1, <1>3, KeyTyped DEF UploadAt, StateIn, Created
<1>5. copy.act <= copy.bundle
  BY <1>3, <1>4, CurGood DEF Good, GoodIn, SoundIn, Target
<1>6. e \in Entry
  BY <1>3, CurGood, Zenon DEF Entry
<1>7. /\ e.act = copy.act /\ e.frozen = copy.frozen /\ e.rev = copy.rev
      /\ e.synced = copy.synced /\ e.bundle = copy.bundle
      /\ e.upload = copy.upload /\ e.attempt = copy.attempt
  BY <1>3, CurGood DEF Entry
<1>8. Good(cur, e)
  BY <1>3, <1>6, <1>7, CurGood, SameClaims
<1>9. CopyInv'
  <2>1. KeyOf(cur, e) = KeyOf(cur, copy)
    BY <1>7 DEF KeyOf
  <2>2. KeyOf(cur, copy)' = KeyOf(cur, e)
    BY <1>1 DEF KeyOf
  <2> HIDE DEF e
  <2> QED
    BY <1>1, <1>3, <1>4, <1>5, <1>6, <1>7, <1>8, <2>1, <2>2, CurGood
       DEF CopyInv, Good
<1> QED
  BY <1>1, <1>2, <1>3, <1>9, EntryMoves DEF Inv

\* An answer that changes nothing keeps Inv when the entry is put down.
LEMMA PutDownInv ==
  ASSUME Inv, CreateUnusable \/ StatusFinalizing
  PROVE  Inv'
<1>1. /\ UNCHANGED <<src, spool, pol, stopped, local, newRetry, hub, owner>>
      /\ UNCHANGED queueVars /\ faults' \in Nat /\ NextEntry
  BY DEF CreateUnusable, StatusFinalizing, hubVars, Inv, RestTyped
<1>2. RestTyped' /\ Grows /\ QueueInv'
  BY <1>1, StepQuiet
<1> QED
  BY <1>1, <1>2, NextEntryInv DEF Inv

\* An upload found open keeps Inv.
LEMMA StatusOpenInv ==
  ASSUME Inv, StatusOpen
  PROVE  Inv'
<1>1. /\ UNCHANGED <<src, spool, pol, stopped, local, newRetry, hub, owner>>
      /\ UNCHANGED queueVars /\ faults' \in Nat
      /\ UNCHANGED <<loop, batch, cur>> /\ copy' = copy
      /\ stage = "status" /\ stage' = "chunks"
  BY DEF StatusOpen, hubVars, Inv, RestTyped
<1>2. RestTyped' /\ Grows /\ QueueInv'
  BY <1>1, StepQuiet
<1>3. stage \in EntryStages /\ stage' \in EntryStages
  BY <1>1 DEF EntryStages
<1>4. CopyInv'
  BY <1>1, <1>3, CurGood DEF CopyInv, Good, Inv, PassInv
<1> QED
  BY <1>1, <1>2, <1>3, <1>4, EntryMoves DEF Inv

\* An accepted upload of the entry has the content the entry waits for.
LEMMA UploadComplete ==
  ASSUME Inv, stage \in {"status", "finalize"}
  PROVE  /\ copy.rev = 0 /\ copy.bundle # 0 /\ copy.act <= copy.bundle
         /\ copy.upload = KeyOf(cur, copy) /\ copy.upload \in Created
         /\ copy.upload \in Key
<1>1. stage \in EntryStages /\ copy.upload # NoKey
  BY DEF EntryStages, Inv, PassInv, CopyInv
<1>2. /\ copy.rev = 0 /\ copy.bundle # 0 /\ Target(copy) <= copy.bundle
      /\ copy.upload = KeyOf(cur, copy) /\ copy.upload \in DOMAIN hub
  BY <1>1, CurGood DEF Good, GoodIn, SoundIn
<1>3. Target(copy) = copy.act
  BY <1>1, CurGood DEF Target
<1> QED
  BY <1>2, <1>3 DEF Created, Inv, RestTyped

\* An upload found completed keeps Inv.
LEMMA StatusCompletedInv ==
  ASSUME Inv, StatusCompleted
  PROVE  Inv'
<1>1. /\ UNCHANGED <<src, spool, pol, stopped, local, newRetry, hub, owner>>
      /\ UNCHANGED queueVars /\ faults' \in Nat
      /\ UNCHANGED <<loop, batch, cur>> /\ copy' = copy
      /\ stage = "status" /\ stage' = "complete"
      /\ UploadAt(copy.upload) = "completed"
  BY DEF StatusCompleted, hubVars, Inv, RestTyped
<1>2. RestTyped' /\ Grows /\ QueueInv'
  BY <1>1, StepQuiet
<1>3. stage \in EntryStages /\ stage' \in EntryStages
  BY <1>1 DEF EntryStages
<1>4. StateIn(hub, KeyOf(cur, copy)) = "completed"
  BY <1>1, UploadComplete DEF UploadAt, StateIn, Created
<1>5. KeyOf(cur, copy)' = KeyOf(cur, copy)
  BY <1>1 DEF KeyOf
<1>6. CopyInv'
  BY <1>1, <1>3, <1>4, <1>5, UploadComplete, CurGood
     DEF CopyInv, Good
<1> QED
  BY <1>1, <1>2, <1>3, <1>6, EntryMoves DEF Inv

\* Giving up an upload (dead, expired, gone) keeps Inv.
LEMMA GivesUpInv ==
  ASSUME Inv, StatusDead \/ UploadGone
  PROVE  Inv'
<1> DEFINE gone == [copy EXCEPT !.upload = NoKey, !.attempt = copy.attempt + 1]
<1>1. /\ UNCHANGED <<src, spool, pol, stopped, local, newRetry, hub, owner>>
      /\ NextEntry /\ stage \in {"status", "chunks", "finalize"}
      /\ Update(cur, gone) \/ Update(cur, Park(gone))
  BY DEF StatusDead, UploadGone, hubVars
<1>2. faults' \in Nat
  BY HappensTyped DEF StatusDead, UploadGone, Inv, RestTyped
<1>3. RestTyped' /\ Grows
  BY <1>1, <1>2, RestKept DEF Inv
<1>4. stage \in EntryStages /\ copy.upload # NoKey
  BY <1>1 DEF EntryStages, Inv, PassInv, CopyInv
<1>5. Good(cur, gone)
  BY <1>4, CurGood, GoneGood
<1>6. Good(cur, Park(gone))
  <2>1. local \in Nat
    BY DEF Inv, RestTyped
  <2> QED
    BY <1>4, <1>5, <2>1, CurGood, ParkGood
<1>7. QueueInv'
  <2> HIDE DEF gone
  <2> QED
    BY <1>1, <1>4, <1>5, <1>6, CurGood, UpdateInv DEF Inv
<1> QED
  BY <1>1, <1>3, <1>7, NextEntryInv DEF Inv

\* Sending chunks keeps Inv.
LEMMA PutChunksInv ==
  ASSUME Inv, PutChunks
  PROVE  Inv'
<1>1. /\ UNCHANGED <<src, spool, pol, stopped, local, newRetry, owner>>
      /\ UNCHANGED queueVars /\ faults' \in Nat
      /\ UNCHANGED <<loop, batch, cur>> /\ copy' = copy
      /\ stage = "chunks" /\ stage' = "finalize"
      /\ UploadAt(copy.upload) \in {"open", "sent"} /\ SetUpload(copy.upload, "sent")
  BY DEF PutChunks, Inv, RestTyped
<1>2. copy.upload \in Key /\ copy.upload \in Created
      /\ hub[copy.upload] \in {"open", "sent"}
  BY <1>1 DEF UploadAt, Inv, RestTyped
<1>3. RestTyped' /\ Grows
  BY <1>1, <1>2, SetUploadGrows DEF Inv, UploadState
<1>4. stage \in EntryStages /\ stage' \in EntryStages /\ copy.upload # NoKey
  BY <1>1 DEF EntryStages, Inv, PassInv, CopyInv
<1>5. CopyInv'
  <2>1. GoodIn(src', hub', cur, copy)
    BY <1>3, <1>4, CurGood, GoodGrows DEF Inv
  <2> QED
    BY <1>1, <1>4, <2>1, CurGood DEF CopyInv, Good
<1> QED
  BY <1>1, <1>3, <1>4, <1>5, EntryMoves, QueueKept DEF Inv

\* Finalizing, queued or verified at once, keeps Inv.
LEMMA FinalizeInv ==
  ASSUME Inv, Finalize
  PROVE  Inv'
<1>1. /\ UNCHANGED <<src, spool, pol, stopped, local, newRetry, owner>>
      /\ UNCHANGED queueVars /\ faults' \in Nat /\ stage = "finalize"
      /\ UploadAt(copy.upload) = "sent"
      /\ \/ SetUpload(copy.upload, "finalizing") /\ NextEntry
         \/ /\ SetUpload(copy.upload, "completed") /\ stage' = "complete"
            /\ UNCHANGED <<loop, batch, cur, copy>>
  BY DEF Finalize, Inv, RestTyped
<1>2. copy.upload \in Key /\ copy.upload \in Created /\ hub[copy.upload] = "sent"
  BY <1>1, UploadComplete DEF UploadAt
<1>3. CASE SetUpload(copy.upload, "finalizing") /\ NextEntry
  <2>1. RestTyped' /\ Grows
    BY <1>1, <1>2, <1>3, SetUploadGrows DEF Inv, UploadState
  <2> QED
    BY <1>1, <1>3, <2>1, NextEntryInv, QueueKept DEF Inv
<1>4. CASE /\ SetUpload(copy.upload, "completed") /\ stage' = "complete"
           /\ UNCHANGED <<loop, batch, cur, copy>>
  <2>1. /\ RestTyped' /\ Grows
        /\ copy.upload \in DOMAIN hub' /\ hub'[copy.upload] = "completed"
    BY <1>1, <1>2, <1>4, SetUploadGrows DEF Inv, UploadState
  <2>2. stage \in EntryStages /\ stage' \in EntryStages
    BY <1>1, <1>4 DEF EntryStages
  <2>3. CopyInv'
    <3>1. GoodIn(src', hub', cur, copy)
      BY <2>1, <2>2, CurGood, GoodGrows DEF Inv
    <3>2. StateIn(hub', KeyOf(cur, copy)) = "completed"
      BY <1>1, <2>1, UploadComplete DEF StateIn
    <3>3. KeyOf(cur, copy)' = KeyOf(cur, copy)
      BY <1>4 DEF KeyOf
    <3> QED
      BY <1>1, <1>4, <2>2, <3>1, <3>2, <3>3, UploadComplete, CurGood
         DEF CopyInv, Good
  <2> QED
    BY <1>1, <1>4, <2>1, <2>2, <2>3, EntryMoves, QueueKept DEF Inv
<1> QED
  BY <1>1, <1>3, <1>4

\* The accepted revision covers what the copy was made from.
LEMMA CompleteInv ==
  ASSUME Inv, Complete
  PROVE  Inv'
<1>1. /\ UNCHANGED <<src, spool, pol, stopped, local, newRetry, hub, owner>>
      /\ faults' \in Nat /\ stage = "complete"
  BY DEF Complete, hubVars, Inv, RestTyped
<1>2. RestTyped' /\ Grows
  BY <1>1, RestKept DEF Inv
<1>3. stage \in EntryStages
  BY <1>1 DEF EntryStages
<1>4. CASE ~Matches(cur, copy)
  BY <1>1, <1>2, <1>4, PassEndsInv, QueueKept DEF Complete, Inv
<1>5. CASE Matches(cur, copy)
  <2>1. /\ Update(cur, Completed) /\ copy' = q'[cur] /\ stage' = "discard"
        /\ UNCHANGED <<loop, batch, cur>>
    BY <1>5 DEF Complete
  <2>2. /\ copy.bundle # 0 /\ copy.act <= copy.bundle
        /\ StateIn(hub, KeyOf(cur, copy)) \in {"completed", "forgotten"}
    BY <1>1 DEF Inv, PassInv, CopyInv
  <2>3. copy.bundle \in Versions /\ copy.act \in 0..MaxVersion
        /\ copy.bundle \in 0..MaxVersion
    BY <1>3, <2>2, CurGood, BoundsAssumption DEF Entry, Versions
  <2>4. Completed \in Entry
    BY <1>3, <2>3, CurGood, Zenon DEF Entry, Completed
  <2>5. /\ Completed.act = copy.act /\ Completed.frozen = copy.frozen
        /\ Completed.rev = copy.bundle /\ Completed.synced = copy.act
        /\ Completed.bundle = copy.bundle /\ Completed.upload = NoKey
        /\ Completed.attempt = copy.attempt
    BY <1>3, CurGood DEF Entry, Completed
  <2>6. copy.bundle \in AcceptedIn(hub, cur)
    <3>1. KeyOf(cur, copy) \in DOMAIN hub
      BY <2>2 DEF StateIn
    <3>2. hub[KeyOf(cur, copy)] \in {"completed", "forgotten"}
      BY <2>2, <3>1 DEF StateIn
    <3> QED
      BY <2>3, <3>1, <3>2 DEF AcceptedIn, KeyOf
  <2>7. KeyOf(cur, Completed) = KeyOf(cur, copy)
    BY <2>5 DEF KeyOf
  <2>8. Good(cur, Completed)
    <3>1. SoundIn(src, hub, cur, Completed)
      BY <1>3, <2>2, <2>5, <2>6, <2>7, CurGood DEF Good, GoodIn, SoundIn
    <3> QED
      BY <2>4, <3>1 DEF Good, GoodIn
  <2>9. QueueInv' /\ q'[cur] = Stored(cur, Completed)
    <3>1. Good(cur, Stored(cur, Completed)) /\ Put(cur, Stored(cur, Completed))
      BY <1>3, <2>1, <2>8, CurGood, StoredGood DEF Update
    <3> QED
      BY <1>1, <1>3, <3>1, CurGood, PutInv DEF Inv
  <2>10. CopyInv'
    <3>1. Good(cur, q[cur])' /\ q'[cur] \in Entry
      BY <1>3, <2>1, <2>9, CurGood DEF QueueInv
    <3>2. q'[cur].frozen = 0
      <4> DEFINE kept == [Completed EXCEPT !.act = q[cur].act, !.slo = q[cur].slo,
                            !.listed = q[cur].listed,
                            !.frozen = IF Completed.rev # 0 THEN 0
                                                            ELSE Completed.frozen]
      <4>1. kept.frozen = 0
        BY <2>2, <2>4, <2>5 DEF Entry
      <4>2. kept \in Entry
        BY <2>4, <1>3, CurGood, Zero, Zenon DEF Entry, Good, GoodIn
      <4>3. Exclude(kept).frozen = 0 /\ Exclude(Completed).frozen = 0
        BY <2>4, <4>2 DEF Exclude, Cleared, Entry
      <4>4. ~FrozenWrite(cur, Completed) => Completed.frozen = 0
        BY <2>1 DEF Update, Accepts, PlainWrite
      <4> HIDE DEF kept
      <4>5. Stored(cur, Completed) \in {kept, Completed, Exclude(kept),
                                        Exclude(Completed)}
            /\ (~FrozenWrite(cur, Completed) =>
                  Stored(cur, Completed) \in {Completed, Exclude(Completed)})
            /\ (FrozenWrite(cur, Completed) =>
                  Stored(cur, Completed) \in {kept, Exclude(kept)})
        BY DEF Stored, kept
      <4> QED
        BY <2>9, <4>1, <4>3, <4>4, <4>5
    <3> QED
      BY <2>1, <3>1, <3>2 DEF CopyInv, Good
  <2>11. stage' \in EntryStages
    BY <2>1 DEF EntryStages
  <2> QED
    BY <1>2, <1>3, <2>1, <2>9, <2>10, <2>11, EntryMoves DEF Inv
<1> QED
  BY <1>4, <1>5

\* Deleting the uploaded bundle keeps Inv.
LEMMA DiscardUploadedInv ==
  ASSUME Inv, DiscardUploaded
  PROVE  Inv'
<1>1. /\ UNCHANGED <<src, pol, stopped, local, newRetry, hub, owner>>
      /\ UNCHANGED queueVars /\ NextEntry
  BY DEF DiscardUploaded, hubVars
<1>2. spool' \subseteq spool /\ faults' \in Nat
  BY HappensTyped DEF DiscardUploaded, Inv, RestTyped
<1>3. RestTyped' /\ Grows
  BY <1>1, <1>2, SameGrows DEF Inv, RestTyped, Created
<1> QED
  BY <1>1, <1>3, NextEntryInv, QueueKept DEF Inv

-----------------------------------------------------------------------------
(* Failures.                                                               *)

\* The lost bundle is forgotten with its upload, and the key with them.
LEMMA NotPreparedInv ==
  ASSUME Inv, NotPrepared
  PROVE  Inv'
<1> DEFINE e == IF q[cur].frozen # 0 THEN Unfrozen(q[cur]) ELSE copy
           f == [Cleared(e) EXCEPT !.attempt = e.attempt + 1]
<1>1. /\ UNCHANGED <<src, spool, pol, stopped, local, newRetry, hub, owner>>
      /\ faults' \in Nat /\ NextEntry
      /\ Put(cur, e) \/ Put(cur, f)
  BY DEF NotPrepared, hubVars, Inv, RestTyped
<1>2. RestTyped' /\ Grows
  BY <1>1, RestKept DEF Inv
<1>3. stage \in EntryStages
  BY DEF NotPrepared, EntryStages
<1>4. Good(cur, e)
  BY <1>3, CurGood, UnfrozenGood
<1>5. Good(cur, f)
  <2>1. Good(cur, Cleared(e)) /\ cur \in Sessions
    <3> HIDE DEF e
    <3> QED
      BY <1>3, <1>4, CurGood, ClearedGood
  <2>2. e.attempt + 1 \in Nat
    <3> HIDE DEF e
    <3> QED
      BY <1>4 DEF Good, GoodIn, Entry
  <2> HIDE DEF e
  <2>3. f \in Entry
    BY <2>1, <2>2, Zenon DEF Good, GoodIn, Entry
  <2>4. /\ f.act = Cleared(e).act /\ f.frozen = Cleared(e).frozen
        /\ f.rev = Cleared(e).rev /\ f.synced = Cleared(e).synced
        /\ f.bundle = Cleared(e).bundle /\ f.upload = Cleared(e).upload
    BY <2>1 DEF Good, GoodIn, Entry
  <2>5. Cleared(e).bundle = 0 /\ Cleared(e).upload = NoKey
    BY <1>4 DEF Good, GoodIn, Entry, Cleared
  <2> QED
    BY <2>1, <2>3, <2>4, <2>5, GivenUp
<1>6. QueueInv'
  <2> HIDE DEF e, f
  <2> QED
    BY <1>1, <1>3, <1>4, <1>5, CurGood, PutInv DEF Inv
<1> QED
  BY <1>1, <1>2, <1>6, NextEntryInv DEF Inv

\* A failed capture keeps Inv.
LEMMA PrepareFailsInv ==
  ASSUME Inv, PrepareFails
  PROVE  Inv'
<1> DEFINE e == IF copy.frozen # 0 THEN Unfrozen(q[cur]) ELSE copy
<1>1. /\ UNCHANGED <<src, spool, pol, stopped, local, newRetry, hub, owner>>
      /\ NextEntry
      /\ Put(cur, e) \/ Put(cur, Park(e))
  BY DEF PrepareFails, hubVars
<1>2. faults' \in Nat
  BY HappensTyped DEF PrepareFails, Inv
<1>3. RestTyped' /\ Grows
  BY <1>1, <1>2, RestKept DEF Inv
<1>4. stage \in EntryStages /\ local \in Nat
  BY DEF PrepareFails, ReadyToCapture, EntryStages, Inv, RestTyped
<1>5. Good(cur, e)
  BY <1>4, CurGood, UnfrozenGood
<1>6. QueueInv'
  <2> HIDE DEF e
  <2> QED
    BY <1>1, <1>4, <1>5, CurGood, ParkGood, PutInv DEF Inv
<1> QED
  BY <1>1, <1>3, <1>6, NextEntryInv DEF Inv

\* A refusal that parks the entry keeps Inv.
LEMMA ContentRefusedInv ==
  ASSUME Inv, ContentRefused
  PROVE  Inv'
<1>1. /\ UNCHANGED <<src, spool, pol, stopped, local, newRetry, hub, owner>>
      /\ NextEntry /\ Update(cur, Park(copy))
  BY DEF ContentRefused, hubVars
<1>2. faults' \in Nat
  BY HappensTyped DEF ContentRefused, Inv
<1>3. RestTyped' /\ Grows
  BY <1>1, <1>2, RestKept DEF Inv
<1>4. stage \in EntryStages /\ local \in Nat
  BY DEF ContentRefused, Creating, EntryStages, Inv, RestTyped
<1>5. QueueInv'
  BY <1>1, <1>4, CurGood, ParkGood, UpdateInv DEF Inv
<1> QED
  BY <1>1, <1>3, <1>5, NextEntryInv DEF Inv

\* left_out at create or finalize keeps Inv.
LEMMA LeftOutRefusedInv ==
  ASSUME Inv, LeftOutRefused
  PROVE  Inv'
<1> DEFINE e == [copy EXCEPT !.excluded = TRUE, !.slo = TRUE]
<1>1. /\ UNCHANGED <<src, spool, pol, stopped, local, newRetry, hub, owner>>
      /\ faults' \in Nat /\ NextEntry /\ Update(cur, e)
  BY DEF LeftOutRefused, hubVars, Inv, RestTyped
<1>2. RestTyped' /\ Grows
  BY <1>1, RestKept DEF Inv
<1>3. stage \in EntryStages
  BY DEF LeftOutRefused, AtHubCheck, Creating, EntryStages
<1>4. e \in Entry
  BY <1>3, CurGood, Zenon DEF Entry
<1>5. /\ e.act = copy.act /\ e.frozen = copy.frozen /\ e.rev = copy.rev
      /\ e.synced = copy.synced /\ e.bundle = copy.bundle
      /\ e.upload = copy.upload /\ e.attempt = copy.attempt
  BY <1>3, CurGood DEF Entry
<1>6. Good(cur, e)
  BY <1>3, <1>4, <1>5, CurGood, SameClaims
<1>7. QueueInv'
  <2> HIDE DEF e
  <2> QED
    BY <1>1, <1>3, <1>6, CurGood, UpdateInv DEF Inv
<1> QED
  BY <1>1, <1>2, <1>7, NextEntryInv DEF Inv

\* sync_paused at create or finalize keeps Inv.
LEMMA PausedRefusedInv ==
  ASSUME Inv, PausedRefused
  PROVE  Inv'
<1> DEFINE e == [copy EXCEPT !.parked = 0]
<1>1. /\ UNCHANGED <<src, spool, pol, local, newRetry, hub, owner, faults>>
      /\ stopped' = TRUE /\ PassEnds /\ Update(cur, e)
  BY DEF PausedRefused, hubVars
<1>2. RestTyped'
  BY <1>1 DEF Inv, RestTyped, Created
<1>3. stage \in EntryStages
  BY DEF PausedRefused, AtHubCheck, Creating, EntryStages
<1>4. e \in Entry
  BY <1>3, CurGood, Zenon DEF Entry
<1>5. /\ e.act = copy.act /\ e.frozen = copy.frozen /\ e.rev = copy.rev
      /\ e.synced = copy.synced /\ e.bundle = copy.bundle
      /\ e.upload = copy.upload /\ e.attempt = copy.attempt
  BY <1>3, CurGood DEF Entry
<1>6. Good(cur, e)
  BY <1>3, <1>4, <1>5, CurGood, SameClaims
<1>7. QueueInv'
  <2> HIDE DEF e
  <2> QED
    BY <1>1, <1>3, <1>6, CurGood, UpdateInv DEF Inv
<1> QED
  BY <1>1, <1>2, <1>7, PassEndsInv DEF Inv

\* Even a stale copy that Queue.update still accepts is sound.
LEMMA BudgetExpiresInv ==
  ASSUME Inv, BudgetExpires
  PROVE  Inv'
<1>1. /\ UNCHANGED <<src, spool, pol, stopped, local, newRetry, hub, owner>>
      /\ PassEnds
  BY DEF BudgetExpires, hubVars
<1>2. faults' \in Nat
  BY HappensTyped DEF BudgetExpires, Inv
<1>3. RestTyped' /\ Grows
  BY <1>1, <1>2, RestKept DEF Inv
<1>4. stage \in EntryStages
  BY DEF BudgetExpires, EntryStages
<1>5. Update(cur, copy) \/ UNCHANGED queueVars
  BY DEF BudgetExpires, Update
<1>6. QueueInv'
  BY <1>1, <1>3, <1>4, <1>5, CurGood, UpdateInv, QueueKept DEF Inv
<1> QED
  BY <1>1, <1>3, <1>6, PassEndsInv DEF Inv

\* Any other error keeps Inv.
LEMMA PassFailsInv ==
  ASSUME Inv, PassFails
  PROVE  Inv'
<1>1. UNCHANGED <<src, spool, pol, stopped, local, newRetry, hub, owner>>
  BY DEF PassFails, hubVars
<1>2. faults' \in Nat
  BY HappensTyped DEF PassFails, Inv
<1>3. RestTyped' /\ Grows
  BY <1>1, <1>2, RestKept DEF Inv
<1>4. CASE UNCHANGED queueVars
  <2>1. PassEnds \/ NextEntry
    BY DEF PassFails
  <2> QED
    BY <1>3, <1>4, <2>1, QueueKept, PassEndsInv, NextEntryInv DEF Inv
<1>5. CASE stage \in EntryStages /\ NextEntry /\ Put(cur, Unfrozen(q[cur]))
  BY <1>1, <1>3, <1>5, CurGood, UnfrozenGood, PutInv, NextEntryInv DEF Inv
<1> QED
  BY <1>4, <1>5 DEF PassFails

-----------------------------------------------------------------------------
(* The invariant, and what it implies.                                     *)

\* A queue without a state file satisfies Inv.
LEMMA InitInv == Init => Inv
<1> SUFFICES ASSUME Init PROVE Inv
  OBVIOUS
<1>1. /\ DOMAIN hub = {} /\ DOMAIN batch = {}
      /\ src = [s \in Sessions |-> 1] /\ q = [s \in Sessions |-> Blank]
      /\ stage = "idle" /\ loop = 1 /\ cur = NoSession /\ copy = Blank
  BY DEF Init, NoUploads, EmptyBatch
<1>2. RestTyped
  <2>1. pol \in Policy
    BY DEF Init, Policy
  <2>2. owner \in OwnerPolicy
    BY DEF Init, OwnerPolicy
  <2>3. src \in [Sessions -> Versions]
    BY <1>1, BoundsAssumption DEF Versions
  <2>4. spool \subseteq Bundle /\ local \in Nat \ {0} /\ faults \in Nat
    BY DEF Init
  <2>5. stopped \in BOOLEAN /\ newRetry \in BOOLEAN
    BY Zenon DEF Init
  <2>6. Created \subseteq Key /\ \A k \in Created : hub[k] \in UploadState
    BY <1>1 DEF Created
  <2> QED
    BY <2>1, <2>2, <2>3, <2>4, <2>5, <2>6 DEF RestTyped
<1>3. QueueInv
  <2>1. ASSUME NEW s \in Sessions PROVE Good(s, Blank)
    <3>1. /\ Blank.act = 0 /\ Blank.frozen = 0 /\ Blank.rev = 0
          /\ Blank.bundle = 0 /\ Blank.upload = NoKey
      BY DEF Blank
    <3>2. src[s] = 1
      BY <1>1
    <3> QED
      BY <3>1, <3>2, BlankTyped DEF Good, GoodIn, SoundIn
  <2> QED
    BY <1>1, <2>1, BlankTyped DEF Init, QueueInv
<1>4. PassInv
  BY <1>1, BlankTyped
     DEF PassInv, StageTyped, BatchInv, CopyInv, EntryStages
<1> QED
  BY <1>2, <1>3, <1>4 DEF Inv

\* Stuttering keeps Inv.
LEMMA StutterInv ==
  ASSUME Inv, UNCHANGED vars
  PROVE  Inv'
<1>1. /\ UNCHANGED <<src, spool, pol, stopped, local, newRetry, hub, owner, faults>>
      /\ UNCHANGED queueVars /\ UNCHANGED passVars
  BY DEF vars, queueVars, passVars
<1>2. RestTyped' /\ Grows /\ QueueInv'
  BY <1>1, StepQuiet DEF Inv, RestTyped
<1> QED
  BY <1>1, <1>2, PassKept DEF Inv

\* Every step keeps Inv.
LEMMA NextInv ==
  ASSUME Inv, [Next]_vars
  PROVE  Inv'
<1>1. CASE World
  BY <1>1, SourceChangeInv, HubForgetsInv, HubAcceptsInv, OwnerSetsPolicyInv,
     RestartInv, RebindInv DEF World
<1>2. CASE Prologue
  BY <1>2, StartPassInv, RefreshInv, AdmitInv, DiscardAbandonedInv, ListAllInv,
     TakeRetryInv, DiscoverInv, TakeCopiesInv DEF Prologue
<1>3. CASE Work
  <2>1. CASE \E s \in Sessions : Pick(s)
    BY <2>1, PickInv
  <2>2. CASE LoopEnds \/ Disallowed \/ Consent \/ RecoverUnprepared
             \/ StartPending \/ Freeze \/ Capture \/ ReuseBundle
    BY <2>2, LoopEndsInv, DisallowedInv, ConsentInv, RecoverUnpreparedInv,
       StartPendingInv, FreezeInv, CaptureInv, ReuseBundleInv
  <2>3. CASE CreateOpens \/ CreateCompleted \/ CreateUnusable \/ StatusOpen
             \/ StatusFinalizing \/ StatusCompleted \/ StatusDead
    BY <2>3, CreateOpensInv, CreateCompletedInv, PutDownInv, StatusOpenInv,
       StatusCompletedInv, GivesUpInv
  <2>4. CASE PutChunks \/ Finalize \/ Complete \/ DiscardUploaded
    BY <2>4, PutChunksInv, FinalizeInv, CompleteInv, DiscardUploadedInv
  <2> QED
    BY <1>3, <2>1, <2>2, <2>3, <2>4 DEF Work
<1>4. CASE Failure
  BY <1>4, CreateLostInv, GivesUpInv, NotPreparedInv, PrepareFailsInv,
     ContentRefusedInv, LeftOutRefusedInv, PausedRefusedInv, BudgetExpiresInv,
     PassFailsInv DEF Failure
<1>5. CASE UNCHANGED vars
  BY <1>5, StutterInv
<1> QED
  BY <1>1, <1>2, <1>3, <1>4, <1>5 DEF Next

\* The inductive invariant holds in every state of every behaviour.
THEOREM Sound == Spec => []Inv
<1>1. Init => Inv
  BY InitInv
<1>2. Inv /\ [Next]_vars => Inv'
  BY NextInv
<1> QED
  BY <1>1, <1>2, PTL DEF Spec

\* Inv implies the types.
LEMMA InvTypes == Inv => TypeOK
<1> SUFFICES ASSUME Inv PROVE TypeOK
  OBVIOUS
<1>1. \A s \in DOMAIN batch : batch[s] \in Entry
  BY DEF Inv, PassInv, BatchInv, Good, GoodIn
<1> QED
  BY <1>1 DEF Inv, RestTyped, QueueInv, PassInv, StageTyped, BatchInv, CopyInv,
              TypeOK

\* The invariant's accepted contents are the specification's.
LEMMA AcceptedSame ==
  ASSUME NEW s
  PROVE  AcceptedIn(hub, s) = Accepted(s)
  BY DEF AcceptedIn, Accepted, Created

\* Inv implies that a claimed revision was accepted.
LEMMA InvClaims == Inv => ClaimIsAccepted
<1> SUFFICES ASSUME Inv, NEW s \in Sessions, q[s].rev # 0
             PROVE  q[s].rev \in Accepted(s) /\ q[s].synced <= q[s].rev
  BY DEF ClaimIsAccepted
<1> QED
  BY AcceptedSame DEF Inv, QueueInv, Good, GoodIn, SoundIn

\* Inv implies that a settled session's newest version was accepted.
LEMMA InvNewer == Inv => NewerChangesStayPending
<1> SUFFICES ASSUME Inv, NEW s \in Sessions, q[s].act # 0, ~Pending(q[s])
             PROVE  \E v \in Accepted(s) : v >= q[s].act
  BY DEF NewerChangesStayPending
<1>1. /\ q[s].rev \in Accepted(s) /\ q[s].synced <= q[s].rev
      /\ ~(q[s].synced < q[s].act) /\ q[s] \in Entry
  BY AcceptedSame DEF Inv, QueueInv, Good, GoodIn, SoundIn, Pending
<1>2. q[s].rev \in Nat /\ q[s].synced \in Nat /\ q[s].act \in Nat
  BY <1>1, BoundsAssumption DEF Entry
<1>3. q[s].rev >= q[s].act
  BY <1>1, <1>2
<1> QED
  BY <1>1, <1>3

\* Inv implies that an upload is that of its bundle and attempt.
LEMMA InvMatches == Inv => UploadMatchesBundle
  BY DEF Inv, QueueInv, Good, GoodIn, SoundIn, KeyOf, UploadMatchesBundle,
         Created

-----------------------------------------------------------------------------
(* The theorems.                                                           *)

\* Every variable keeps its type.
THEOREM Typed == Spec => []TypeOK
  BY Sound, InvTypes, PTL

\* No interleaving of passes, check-ins, crashes, retries and Hub failures
\* makes the queue claim a revision the Hub did not accept, or one older than
\* the version it calls synced.
THEOREM Claims == Spec => []ClaimIsAccepted
  BY Sound, InvClaims, PTL

\* A session that counts as settled has content at least as new as its newest
\* discovered version on the Hub.
THEOREM NewerPending == Spec => []NewerChangesStayPending
  BY Sound, InvNewer, PTL

\* The open upload of an entry is always the one made for its bundle and
\* attempt.
THEOREM UploadMatches == Spec => []UploadMatchesBundle
  BY Sound, InvMatches, PTL

-----------------------------------------------------------------------------
(* Steps.  Inv says what a record is worth.  Two invariants add where        *)
(* records come from: no bundle and no upload is newer than its source, and  *)
(* a pass that works on an entry took it up while it was neither parked,     *)
(* blocked nor left out, and checks in again before it sends.                *)

Captured ==
  /\ \A k \in Created : k[2] <= src[k[1]]
  /\ \A s \in Sessions : q[s].bundle <= src[s]
  /\ \A s \in DOMAIN batch : batch[s].bundle <= src[s]
  /\ cur # NoSession => copy.bundle <= src[cur]

\* A copy worth working on.
Fresh(e) == ~e.excluded /\ ~e.blocked /\ e.parked = 0

\* An entry whose copy waits or is in hand is not parked by anybody else.
TakenUp ==
  /\ cur \notin DOMAIN batch
  /\ \A s \in DOMAIN batch : Fresh(batch[s]) /\ q[s].parked = 0
  /\ cur # NoSession => Fresh(copy) /\ q[cur].parked = 0

\* Between the check of a copy and the creation of its upload nothing changes
\* the entry or the policy.
Checked == stage \in {"prepare", "create"} => Matches(cur, copy) /\ ~pol.paused

WorkInv ==
  /\ stage # "pick" /\ stage \notin EntryStages => DOMAIN batch = {}
  /\ TakenUp
  /\ \A s \in Sessions : q[s].blocked => q[s].parked # 0
  /\ stopped => stage \in {"idle", "begin"}
  /\ Checked

SInv == Inv /\ Captured /\ WorkInv

-----------------------------------------------------------------------------
(* Records and the entries made of them.                                   *)

\* f is made of e without a new capture or claim.
Derives(e, f) ==
  /\ f.bundle \in {0, e.bundle}
  /\ f.blocked = e.blocked
  /\ f.rev = e.rev /\ f.synced = e.synced

\* What the operations on one record leave of it.
LEMMA RecordOps ==
  ASSUME NEW e \in Entry
  PROVE  /\ Derives(e, Cleared(e)) /\ Derives(e, Unfrozen(e)) /\ Derives(e, Exclude(e))
         /\ Derives(e, Park(e)) /\ Derives(e, UploadEntry(e))
         /\ Cleared(e).parked = e.parked /\ Unfrozen(e).parked = e.parked
         /\ Exclude(e).parked = e.parked /\ UploadEntry(e).parked = e.parked
         /\ UploadEntry(e).excluded = e.excluded /\ Unfrozen(e).excluded = e.excluded
  BY DEF Entry, Derives, Cleared, Unfrozen, Exclude, Park, UploadEntry

\* What Queue.update stores is made of the copy.
LEMMA StoredOps ==
  ASSUME NEW s \in Sessions, NEW e \in Entry
  PROVE  /\ Derives(e, Stored(s, e))
         /\ Stored(s, e).parked = e.parked
<1> DEFINE kept == IF FrozenWrite(s, e)
                   THEN [e EXCEPT !.act = q[s].act, !.slo = q[s].slo,
                                  !.listed = q[s].listed,
                                  !.frozen = IF e.rev # 0 THEN 0 ELSE e.frozen]
                   ELSE e
<1>1. /\ Derives(e, kept) /\ kept.parked = e.parked
  BY DEF Entry, Derives
<1>2. /\ Derives(kept, Exclude(kept)) /\ Exclude(kept).parked = kept.parked
  BY DEF Entry, Derives, Exclude, Cleared
<1> QED
  BY <1>1, <1>2 DEF Stored, Derives

LEMMA Typed3 ==
  ASSUME Inv
  PROVE  /\ q \in [Sessions -> Entry] /\ copy \in Entry
         /\ \A s \in DOMAIN batch : s \in Sessions /\ batch[s] \in Entry
         /\ src \in [Sessions -> Nat] /\ \A s \in Sessions : src[s] > 0
         /\ cur \in Sessions \cup {NoSession}
         /\ stage \in EntryStages <=> cur # NoSession
         /\ pol.paused \in BOOLEAN
  BY BoundsAssumption
  DEF Inv, QueueInv, PassInv, CopyInv, BatchInv, StageTyped, Good, GoodIn, RestTyped, Versions,
      Policy

-----------------------------------------------------------------------------
(* The shapes of steps.                                                      *)

\* The Hub learns of no key but the one in the runner's hand.
KeysFrom ==
  \A k \in DOMAIN hub' : k \in Created \/ (cur # NoSession /\ k[1] = cur /\ k[2] = copy.bundle)

LEMMA KeysCaptured ==
  ASSUME SInv, KeysFrom, Inv', \A s \in Sessions : src[s] <= src'[s]
  PROVE  \A k \in DOMAIN hub' : k[2] <= src'[k[1]]
<1>1. ASSUME NEW k \in DOMAIN hub' PROVE k[1] \in Sessions /\ k[2] \in Nat
  BY <1>1, BoundsAssumption DEF Inv, RestTyped, Created, Key, Versions
<1>2. ASSUME NEW s \in Sessions, NEW n \in Nat, n <= src[s] PROVE n <= src'[s]
  BY <1>2, Typed3, BoundsAssumption DEF SInv, Inv, RestTyped, Versions
<1> QED
  BY <1>1, <1>2 DEF KeysFrom, SInv, Captured

LEMMA Outside ==
  ASSUME SInv, Inv', UNCHANGED <<q, stage, batch, cur, copy, pol, stopped>>,
         \A s \in Sessions : src[s] <= src'[s], KeysFrom
  PROVE  Captured' /\ WorkInv'
<1>1. \A k \in DOMAIN hub' : k[2] <= src'[k[1]]
  BY KeysCaptured
<1>2. src' \in [Sessions -> Nat]
  BY Typed3, BoundsAssumption DEF Inv, RestTyped, Versions
<1>3. ASSUME NEW s \in Sessions, NEW e \in Entry, e.bundle <= src[s] PROVE e.bundle <= src'[s]
  <2>1. e.bundle \in Nat /\ src[s] \in Nat /\ src'[s] \in Nat /\ src[s] <= src'[s]
    BY <1>2, Typed3, BoundsAssumption DEF Entry, SInv
  <2> QED
    BY <1>3, <2>1
<1>4. Captured'
  BY <1>1, <1>3, Typed3 DEF SInv, Captured, Created
<1>5. WorkInv'
  BY DEF SInv, WorkInv, TakenUp, Checked, Matches, LeftOut, Fresh
<1> QED
  BY <1>4, <1>5

\* The entry in hand is put down, and perhaps stored.
StoresOne(e) ==
  /\ q' = [q EXCEPT ![cur] = e]
  /\ ~e.blocked
  /\ e.bundle \in {0, copy.bundle, q[cur].bundle}

LEMMA PutsDown ==
  ASSUME SInv, Inv', PassEnds \/ (stage \in EntryStages /\ NextEntry),
         UNCHANGED src, KeysFrom, stopped' => stopped \/ stage' = "idle",
         q' = q \/ (stage \in EntryStages /\ \E e \in Entry : StoresOne(e))
  PROVE  Captured' /\ WorkInv'
<1>1. cur' = NoSession /\ copy' = Blank /\ stage' \in {"idle", "pick"}
      /\ stage' \notin EntryStages
  BY DEF PassEnds, NextEntry, EntryStages
<1>2. \A s \in DOMAIN batch' : s \in DOMAIN batch /\ batch'[s] = batch[s] /\ s # cur
                               /\ stage' = "pick"
  BY DEF PassEnds, NextEntry, EmptyBatch, SInv, WorkInv, TakenUp
<1>3. \A k \in DOMAIN hub' : k[2] <= src'[k[1]]
  <2>1. \A s \in Sessions : src[s] <= src'[s]
    BY Typed3 DEF SInv
  <2> QED
    BY <2>1, KeysCaptured
<1>4. \A s \in Sessions : s # cur => q'[s] = q[s]
  BY Typed3 DEF StoresOne, SInv
<1>5. stage \in EntryStages /\ q' # q =>
        /\ cur \in Sessions /\ ~q'[cur].blocked
        /\ q'[cur].bundle \in {0, copy.bundle, q[cur].bundle}
  BY Typed3, SessionsAssumption DEF StoresOne, SInv
<1>6. Captured'
  <2>1. \A s \in Sessions : q'[s].bundle <= src[s]
    <3>1. q' # q => copy.bundle <= src[cur] /\ 0 <= src[cur]
      BY <1>5, Typed3, SessionsAssumption DEF SInv, Captured
    <3> QED
      BY <1>4, <1>5, <3>1 DEF SInv, Captured
  <2> QED
    BY <1>1, <1>2, <1>3, <2>1, Typed3 DEF SInv, Captured, Created
<1>7. WorkInv'
  <2>1. TakenUp'
    BY <1>1, <1>2, <1>4, Typed3, SessionsAssumption DEF SInv, WorkInv, TakenUp, Fresh
  <2>2. \A s \in Sessions : q'[s].blocked => q'[s].parked # 0
    BY <1>4, <1>5 DEF SInv, WorkInv
  <2>3. stopped' => stage' \in {"idle", "begin"}
    BY DEF PassEnds, NextEntry, SInv, WorkInv, EntryStages
  <2>4. stage' # "pick" => DOMAIN batch' = {}
    BY <1>2
  <2> QED
    BY <1>1, <2>1, <2>2, <2>3, <2>4 DEF WorkInv, Checked
<1> QED
  BY <1>6, <1>7

\* Work on the entry in hand goes on.
Known(n) == n \in {0, copy.bundle, q[cur].bundle, src[cur]}

LEMMA GoesOn ==
  ASSUME SInv, Inv', stage \in EntryStages, stage' \in EntryStages,
         UNCHANGED <<src, batch, cur>>, stopped' = stopped, KeysFrom, Checked',
         \/ q' = q
         \/ \E e \in Entry : /\ q' = [q EXCEPT ![cur] = e]
                             /\ ~e.blocked /\ e.parked = 0 /\ Known(e.bundle),
         Fresh(copy'), Known(copy'.bundle)
  PROVE  Captured' /\ WorkInv'
<1>1. cur \in Sessions /\ cur # NoSession
  BY Typed3, SessionsAssumption DEF SInv
<1>2. \A k \in DOMAIN hub' : k[2] <= src'[k[1]]
  <2>1. \A s \in Sessions : src[s] <= src'[s]
    BY Typed3 DEF SInv
  <2> QED
    BY <2>1, KeysCaptured
<1>3. \A s \in Sessions : s # cur => q'[s] = q[s]
  BY Typed3 DEF SInv
<1>4. \A n : Known(n) => n <= src[cur]
  BY <1>1, Typed3 DEF Known, SInv, Captured
<1>5. q' # q => ~q'[cur].blocked /\ q'[cur].parked = 0 /\ Known(q'[cur].bundle)
  BY <1>1, Typed3 DEF SInv
<1>6. Captured'
  BY <1>1, <1>2, <1>3, <1>4, <1>5, Typed3 DEF SInv, Captured, Created
<1>7. WorkInv'
  BY <1>1, <1>3, <1>5, Typed3 DEF SInv, WorkInv, TakenUp, EntryStages
<1> QED
  BY <1>6, <1>7

\* The pass has not taken copies yet.
LEMMA Before ==
  ASSUME SInv, Inv', stage # "pick", stage \notin EntryStages,
         stage' # "pick", stage' \notin EntryStages, UNCHANGED <<src, hub, batch, cur>>,
         stopped' => stage' \in {"idle", "begin"},
         \A s \in Sessions : /\ q'[s].bundle \in {0, q[s].bundle}
                             /\ q'[s].blocked => q'[s].parked # 0
  PROVE  Captured' /\ WorkInv'
<1>1. cur' = NoSession /\ DOMAIN batch' = {}
  BY Typed3 DEF SInv, WorkInv
<1>2. Captured'
  BY <1>1, Typed3 DEF SInv, Captured, Created
<1>3. WorkInv'
  BY <1>1 DEF WorkInv, TakenUp, Checked, EntryStages
<1> QED
  BY <1>2, <1>3

-----------------------------------------------------------------------------
(* The steps of the world and of a pass up to its loops.                    *)

LEMMA SameKeys == hub' = hub => KeysFrom
  BY DEF KeysFrom, Created

LEMMA WorldKeeps ==
  ASSUME SInv, Inv', World
  PROVE  Captured' /\ WorkInv'
<1>1. ASSUME NEW s \in Sessions, SourceChange(s) PROVE Captured' /\ WorkInv'
  <2>1. \A x \in Sessions : src[x] <= src'[x]
    BY <1>1, Typed3 DEF SourceChange, SInv
  <2> QED
    BY <1>1, <2>1, SameKeys, Outside DEF SourceChange, queueVars, passVars, hubVars
<1>2. ASSUME NEW s \in Sessions, HubForgets(s) PROVE Captured' /\ WorkInv'
  <2>1. DOMAIN hub' = Created /\ \A x \in Sessions : src[x] <= src'[x]
    BY <1>2, Typed3 DEF HubForgets, SInv
  <2> QED
    BY <1>2, <2>1, Outside DEF HubForgets, queueVars, passVars, KeysFrom
<1>3. ASSUME NEW k \in Created, HubAccepts(k) \/ HubDrops(k) PROVE Captured' /\ WorkInv'
  <2>1. DOMAIN hub' \subseteq Created /\ \A x \in Sessions : src[x] <= src'[x]
    BY <1>3, Typed3 DEF HubAccepts, HubDrops, SetUpload, SInv
  <2> QED
    BY <1>3, <2>1, Outside DEF HubAccepts, HubDrops, queueVars, passVars, KeysFrom
<1>4. ASSUME OwnerSetsPolicy PROVE Captured' /\ WorkInv'
  <2>1. \A x \in Sessions : src[x] <= src'[x]
    BY <1>4, Typed3 DEF OwnerSetsPolicy, SInv
  <2> QED
    BY <1>4, <2>1, SameKeys, Outside DEF OwnerSetsPolicy, queueVars, passVars
<1>5. ASSUME Restart \/ Rebind PROVE Captured' /\ WorkInv'
  <2>1. /\ src' = src /\ stage' = "idle" /\ DOMAIN batch' = {} /\ cur' = NoSession
        /\ DOMAIN hub' \subseteq Created
    BY <1>5, Typed3
    DEF Restart, Rebind, PassEnds, EmptyBatch, passVars, hubVars, NoUploads, Created, EntryStages,
        SInv, WorkInv
  <2>2. ASSUME NEW s \in Sessions
        PROVE  q'[s].bundle \in {0, q[s].bundle} /\ (q'[s].blocked => q'[s].parked # 0)
    <3>1. CASE Restart
      <4>1. q'[s] = [q[s] EXCEPT !.listed = FALSE] /\ q[s] \in Entry
        BY <3>1, Typed3 DEF Restart, SInv
      <4>2. q'[s].bundle = q[s].bundle /\ q'[s].blocked = q[s].blocked
            /\ q'[s].parked = q[s].parked
        BY <4>1 DEF Entry
      <4> QED
        BY <4>2 DEF SInv, WorkInv
    <3>2. CASE Rebind
      BY <3>2 DEF Rebind, PutAll, Blank
    <3> QED
      BY <1>5, <3>1, <3>2
  <2>3. Captured'
    BY <2>1, <2>2, Typed3 DEF SInv, Captured, Created
  <2> QED
    BY <2>1, <2>2, <2>3, SessionsAssumption DEF WorkInv, TakenUp, Checked, EntryStages
<1> QED
  BY <1>1, <1>2, <1>3, <1>4, <1>5 DEF World

\* A policy decides what is left out, and nothing else.
LEMMA PolicyOps ==
  ASSUME SInv, ApplyPolicy, NEW s \in Sessions
  PROVE  Derives(q[s], q'[s]) /\ q'[s].parked = q[s].parked
<1>1. q[s] \in Entry
  BY Typed3 DEF SInv
<1> DEFINE e == [q[s] EXCEPT !.slo = FALSE, !.excluded = s \in owner.rules]
<1>2. e \in Entry /\ Derives(q[s], e) /\ e.parked = q[s].parked
  <2>1. (s \in owner.rules) \in BOOLEAN
    OBVIOUS
  <2>2. e \in Entry
    BY <1>1, <2>1, Zenon DEF Entry
  <2> QED
    BY <1>1, <2>2 DEF Entry, Derives
<1>3. Derives(e, Exclude(e)) /\ Exclude(e).parked = e.parked
  BY <1>2, RecordOps
<1>4. Derives(q[s], Governed(s)) /\ Governed(s).parked = q[s].parked
  BY <1>2, <1>3 DEF Governed, Derives
<1> QED
  BY <1>4 DEF ApplyPolicy, PutAll, queueVars, Derives

\* A retry releases an entry, unless its source cannot be read.
LEMMA RetryOps ==
  ASSUME NEW e \in Entry
  PROVE  /\ Retried(e).bundle \in {0, e.bundle}
         /\ Retried(e).blocked = e.blocked
         /\ e.blocked => Retried(e).parked = e.parked
         /\ ~e.blocked => Retried(e).parked = 0
<1>1. Unfrozen(e).bundle = 0 /\ Unfrozen(e).blocked = e.blocked /\ Unfrozen(e).parked = e.parked
  BY DEF Entry, Unfrozen, Cleared
<1>2. LET f == [Unfrozen(e) EXCEPT !.parked = 0, !.synced = 0, !.rev = 0]
      IN  f.bundle = 0 /\ f.blocked = e.blocked /\ f.parked = 0
  BY DEF Entry, Unfrozen, Cleared
<1> QED
  BY <1>1, <1>2 DEF Retried

\* What each part of a discovery does to an entry.
LEMMA ReconciledOps ==
  ASSUME NEW e \in Entry, e.blocked => e.parked # 0, local \in Nat \ {0}, NEW failing \in BOOLEAN
  PROVE  LET r == Reconciled(e, failing)
         IN  /\ r \in Entry /\ r.act = e.act
             /\ r.bundle = e.bundle /\ r.rev = e.rev /\ r.synced = e.synced
             /\ r.blocked => r.parked # 0 /\ failing
             /\ r.parked \in {e.parked, 0, local}
             /\ r.parked = 0 /\ e.parked # 0 => e.blocked
<1>1. [e EXCEPT !.blocked = TRUE, !.parked = local] \in Entry
  BY Zenon DEF Entry
<1>2. [e EXCEPT !.blocked = FALSE, !.parked = 0] \in Entry
  BY Zenon DEF Entry
<1>3. CASE failing
  BY <1>1, <1>3 DEF Reconciled, Entry
<1>4. CASE ~failing
  BY <1>2, <1>4 DEF Reconciled, Entry
<1> QED
  BY <1>3, <1>4

LEMMA MergedOps ==
  ASSUME NEW e \in Entry, NEW v \in Versions
  PROVE  LET m == Merged(e, v)
         IN  /\ m \in Entry /\ m.act >= e.act
             /\ m.bundle \in {0, e.bundle} /\ m.rev \in {0, e.rev} /\ m.synced = e.synced
             /\ m.blocked => e.blocked /\ m.parked = e.parked
             /\ m.parked \in {0, e.parked}
             /\ m.parked # e.parked => m.act > e.act
<1> DEFINE seen == [e EXCEPT !.act = v, !.listed = FALSE, !.blocked = FALSE]
           over == [Cleared(seen) EXCEPT !.parked = 0, !.rev = 0, !.attempt = 0]
<1>1. v \in 0..MaxVersion /\ e.act \in Nat /\ v \in Nat
  BY BoundsAssumption DEF Versions, Entry
<1>2. seen \in Entry /\ over \in Entry
  BY <1>1, Zero, Zenon DEF Entry, Cleared
<1>3. /\ seen.act = v /\ seen.bundle = e.bundle /\ seen.rev = e.rev /\ seen.synced = e.synced
      /\ ~seen.blocked /\ seen.parked = e.parked
  BY DEF Entry
<1>4. /\ over.act = v /\ over.bundle = 0 /\ over.rev = 0 /\ over.synced = e.synced
      /\ ~over.blocked /\ over.parked = 0
  BY DEF Entry, Cleared
<1>5. CASE v <= e.act
  BY <1>1, <1>5 DEF Merged
<1>6. CASE ~(v <= e.act)
  <2>1. Merged(e, v) = IF e.frozen # 0 THEN seen ELSE over
    BY <1>6 DEF Merged
  <2> HIDE DEF seen, over
  <2> QED
    BY <1>1, <1>2, <1>3, <1>4, <1>6, <2>1
<1> QED
  BY <1>5, <1>6

LEMMA ReleasedOps ==
  ASSUME NEW e \in Entry
  PROVE  LET r == Released(e)
         IN  /\ r \in Entry /\ r.act = e.act /\ r.blocked = e.blocked
             /\ r.bundle = e.bundle /\ r.rev = e.rev /\ r.synced = e.synced
             /\ r.parked # e.parked => r.parked = 0 /\ e.parked # local /\ ~e.blocked
<1>1. [e EXCEPT !.parked = 0] \in Entry
  BY Zenon DEF Entry
<1> QED
  BY <1>1 DEF Released, Entry

LEMMA ReclassifiedOps ==
  ASSUME NEW s \in Sessions, NEW e \in Entry
  PROVE  LET r == Reclassified(s, e)
         IN  /\ r.act = e.act /\ r.blocked = e.blocked /\ r.parked = e.parked
             /\ r.bundle \in {0, e.bundle} /\ r.rev = e.rev /\ r.synced = e.synced
  BY DEF Reclassified, Exclude, Cleared, Entry

\* A discovery withdraws claims, and it parks what it blocks.
LEMMA DiscoverOps ==
  ASSUME SInv, NEW s \in Sessions, NEW failing \in BOOLEAN
  PROVE  LET d == Discovered(s, failing)
         IN  /\ d.bundle \in {0, q[s].bundle}
             /\ d.rev \in {0, q[s].rev} /\ d.synced = q[s].synced
             /\ d.blocked => d.parked # 0
             /\ q[s].parked # 0 /\ d.parked = 0 =>
                  d.act > q[s].act \/ q[s].blocked \/ q[s].parked # local
<1> DEFINE e == q[s]
           r == Reconciled(e, failing)
           m == IF failing THEN r ELSE Merged(r, src[s])
           d == Released(m)
<1>1. e \in Entry /\ (e.blocked => e.parked # 0) /\ local \in Nat \ {0} /\ src[s] \in Versions
  BY Typed3 DEF SInv, WorkInv, Inv, RestTyped
<1>2. /\ r \in Entry /\ r.act = e.act
      /\ r.bundle = e.bundle /\ r.rev = e.rev /\ r.synced = e.synced
      /\ r.blocked => r.parked # 0 /\ failing
      /\ r.parked \in {e.parked, 0, local}
      /\ r.parked = 0 /\ e.parked # 0 => e.blocked
  BY <1>1, ReconciledOps
<1>3. /\ m \in Entry /\ m.act >= r.act
      /\ m.bundle \in {0, r.bundle} /\ m.rev \in {0, r.rev} /\ m.synced = r.synced
      /\ m.blocked => m.parked # 0
      /\ m.parked \in {0, r.parked}
      /\ m.parked # r.parked => m.act > r.act
  <2>1. r.act \in Nat
    BY <1>2, BoundsAssumption DEF Entry
  <2>2. CASE failing
    <3> HIDE DEF r
    <3> QED
      BY <1>2, <2>1, <2>2
  <2>3. CASE ~failing
    <3> HIDE DEF r
    <3> QED
      BY <1>1, <1>2, <2>3, MergedOps
  <2> QED
    BY <2>2, <2>3
<1>4. /\ d \in Entry /\ d.act = m.act /\ d.blocked = m.blocked
      /\ d.bundle = m.bundle /\ d.rev = m.rev /\ d.synced = m.synced
      /\ d.parked # m.parked => d.parked = 0 /\ m.parked # local /\ ~m.blocked
  <2> HIDE DEF m
  <2> QED
    BY <1>3, ReleasedOps
<1>5. LET c == Reclassified(s, d)
      IN  /\ c.act = d.act /\ c.blocked = d.blocked /\ c.parked = d.parked
          /\ c.bundle \in {0, d.bundle} /\ c.rev = d.rev /\ c.synced = d.synced
  <2> HIDE DEF d
  <2> QED
    BY <1>4, ReclassifiedOps
<1>6. Discovered(s, failing) = Reclassified(s, d)
  BY DEF Discovered
<1> HIDE DEF d, m, r
<1> QED
  BY <1>2, <1>3, <1>4, <1>5, <1>6

\* A listing withdraws claims of revisions that the Hub no longer has.
LEMMA MarkedOps ==
  ASSUME NEW s \in Sessions, q[s] \in Entry
  PROVE  /\ Marked(s).bundle \in {0, q[s].bundle}
         /\ Marked(s).blocked = q[s].blocked /\ Marked(s).parked = q[s].parked
         /\ Marked(s).rev \in {0, q[s].rev}
         /\ Marked(s).rev # 0 => Marked(s).synced = q[s].synced
  BY DEF Marked, Exclude, Cleared, Entry

\* A check-in in the middle of a pass: no copy is taken, no entry parked.
LEMMA ChecksIn ==
  ASSUME SInv, Inv', stage \notin {"prepare", "create"},
         UNCHANGED <<src, hub, stage, batch, cur, copy>>, stopped' => stopped,
         \A s \in Sessions : /\ q'[s].bundle \in {0, q[s].bundle}
                             /\ q'[s].blocked = q[s].blocked
                             /\ q'[s].parked = 0 \/ q'[s].parked = q[s].parked
                             /\ q[s].blocked => q'[s].parked = q[s].parked
  PROVE  Captured' /\ WorkInv'
<1>1. Captured'
  BY Typed3 DEF SInv, Captured, Created
<1>2. WorkInv'
  <2>1. TakenUp'
    BY Typed3, SessionsAssumption DEF SInv, WorkInv, TakenUp, Fresh
  <2> QED
    BY <2>1 DEF SInv, WorkInv, Checked
<1> QED
  BY <1>1, <1>2

LEMMA PrologueKeeps ==
  ASSUME SInv, Inv', Prologue
  PROVE  Captured' /\ WorkInv'
<1> USE Typed3 DEF SInv
<1>1. CASE StartPass
  <2>1. \A s \in Sessions : Derives(q[s], q'[s]) /\ q'[s].parked = q[s].parked
    BY <1>1, PolicyOps DEF StartPass
  <2> QED
    BY <1>1, <2>1, Before DEF StartPass, Derives, WorkInv, EntryStages, hubVars
<1>2. CASE Refresh
  <2>1. \A s \in Sessions : Derives(q[s], q'[s]) /\ q'[s].parked = q[s].parked
    BY <1>2, PolicyOps DEF Refresh
  <2>2. stopped' => stopped
    BY <1>2 DEF Refresh, ApplyPolicy
  <2> QED
    BY <1>2, <2>1, <2>2, ChecksIn DEF Refresh, AtConsent, Derives, passVars, hubVars
<1>3. CASE Admit
  <2>1. CASE PassEnds
    <3>1. UNCHANGED <<src, q, hub, stopped>>
      BY <1>3 DEF Admit, queueVars, hubVars
    <3> QED
      BY <2>1, <3>1, PutsDown, SameKeys
  <2>2. CASE ~(pol.paused \/ stopped \/ newRetry)
    BY <1>3, <2>2, Before DEF Admit, queueVars, hubVars, EntryStages, WorkInv
  <2> QED
    BY <1>3, <2>1, <2>2 DEF Admit
<1>4. CASE DiscardAbandoned
  BY <1>4, Before DEF DiscardAbandoned, hubVars, EntryStages, WorkInv
<1>5. CASE ListAll
  <2>1. CASE PassEnds /\ UNCHANGED queueVars
    BY <1>5, <2>1, PutsDown, SameKeys DEF ListAll, queueVars, hubVars
  <2>2. CASE ~pol.paused
    <3>1. ASSUME NEW s \in Sessions
          PROVE  q'[s].bundle \in {0, q[s].bundle} /\ (q'[s].blocked => q'[s].parked # 0)
      <4>1. q'[s] = IF Listable(s) THEN Marked(s) ELSE q[s]
        BY <1>5, <2>2 DEF ListAll, PutAll
      <4> QED
        BY <4>1, MarkedOps DEF WorkInv
    <3> QED
      BY <1>5, <2>2, <3>1, Before DEF ListAll, hubVars, EntryStages, WorkInv
  <2> QED
    BY <1>5, <2>1, <2>2 DEF ListAll
<1>6. ASSUME NEW s \in Sessions, TakeRetry(s) PROVE Captured' /\ WorkInv'
  <2>1. ASSUME NEW x \in Sessions
        PROVE  /\ q'[x].bundle \in {0, q[x].bundle}
               /\ q'[x].blocked = q[x].blocked
               /\ q'[x].parked = 0 \/ q'[x].parked = q[x].parked
               /\ q[x].blocked => q'[x].parked = q[x].parked
    <3>1. q'[x] = IF x = s THEN Retried(q[s]) ELSE q[x]
      BY <1>6 DEF TakeRetry, Put
    <3> QED
      BY <3>1, RetryOps
  <2> QED
    BY <1>6, <2>1, ChecksIn DEF TakeRetry, AtConsent, passVars, hubVars
<1>7. ASSUME NEW failing \in SUBSET Sessions, Discover(failing) PROVE Captured' /\ WorkInv'
  <2>1. ASSUME NEW s \in Sessions
        PROVE  q'[s].bundle \in {0, q[s].bundle} /\ (q'[s].blocked => q'[s].parked # 0)
    <3>1. (s \in failing) \in BOOLEAN
      OBVIOUS
    <3>2. q'[s] = Discovered(s, s \in failing)
      BY <1>7 DEF Discover, PutAll
    <3> QED
      BY <3>1, <3>2, DiscoverOps
  <2> QED
    BY <1>7, <2>1, Before DEF Discover, hubVars, EntryStages, WorkInv
<1>8. ASSUME NEW due \in SUBSET Sessions, TakeCopies(due) PROVE Captured' /\ WorkInv'
  <2>1. /\ due \subseteq Eligible(loop) /\ batch' = [s \in due |-> q[s]]
        /\ stage = "copies" /\ stage' = "pick" /\ cur = NoSession
        /\ UNCHANGED <<src, q, cur, copy, hub, stopped>>
    BY <1>8 DEF TakeCopies, queueVars, hubVars, EntryStages
  <2>2. \A s \in DOMAIN batch' : Fresh(batch'[s]) /\ q[s].parked = 0 /\ batch'[s] = q[s]
                                 /\ s \in Sessions
    BY <2>1 DEF Eligible, Fresh, WorkInv
  <2>3. Captured'
    BY <2>1, <2>2 DEF Captured, Created
  <2>4. TakenUp'
    BY <2>1, <2>2, SessionsAssumption DEF TakenUp, Fresh
  <2>5. ~stopped /\ \A s \in Sessions : q[s].blocked => q[s].parked # 0
    BY <2>1 DEF WorkInv
  <2> QED
    BY <2>1, <2>3, <2>4, <2>5 DEF WorkInv, Checked, EntryStages
<1> QED
  BY <1>1, <1>2, <1>3, <1>4, <1>5, <1>6, <1>7, <1>8 DEF Prologue

-----------------------------------------------------------------------------
(* The steps of work on an entry.                                           *)

\* An entry that is worked on is not blocked.
LEMMA InHand ==
  ASSUME SInv, stage \in EntryStages
  PROVE  /\ cur \in Sessions /\ cur # NoSession /\ copy \in Entry /\ q[cur] \in Entry
         /\ Fresh(copy) /\ ~q[cur].blocked /\ q[cur].parked = 0
         /\ src[cur] \in Nat /\ ~stopped
<1>1. cur \in Sessions /\ cur # NoSession /\ stage \notin {"idle", "begin"}
  BY Typed3, SessionsAssumption DEF SInv, EntryStages
<1> QED
  BY <1>1, Typed3 DEF SInv, WorkInv, TakenUp

\* Queue.update keeps what the policy decided.
LEMMA StoredMatches ==
  ASSUME SInv, stage = "prepare", NEW e \in Entry, Save(e),
         e.frozen = copy.frozen, e.act = copy.act, e.attempt = copy.attempt,
         e.upload = copy.upload, e.rev = 0, Fresh(e), UNCHANGED <<pol, cur>>
  PROVE  /\ Matches(cur, copy)'
         /\ \E f \in Entry : /\ q' = [q EXCEPT ![cur] = f]
                             /\ ~f.blocked /\ f.parked = 0 /\ f.bundle = e.bundle
<1> DEFINE kept == [e EXCEPT !.act = q[cur].act, !.slo = q[cur].slo,
                             !.listed = q[cur].listed, !.frozen = e.frozen]
           f == IF FrozenWrite(cur, e) THEN kept ELSE e
<1>1. stage \in EntryStages
  BY DEF EntryStages
<1>2. /\ cur \in Sessions /\ q[cur] \in Entry /\ q \in [Sessions -> Entry]
      /\ Matches(cur, copy)
  BY <1>1, InHand, Typed3 DEF SInv, WorkInv, Checked
<1>3. kept \in Entry
  BY <1>2, Zenon DEF Entry
<1>4. /\ kept.act = q[cur].act /\ kept.frozen = e.frozen /\ kept.attempt = e.attempt
      /\ kept.bundle = e.bundle /\ kept.upload = e.upload
      /\ kept.excluded = e.excluded /\ kept.blocked = e.blocked /\ kept.parked = e.parked
  BY DEF Entry
<1>5. Accepts(cur, e) /\ copy' = e /\ q' = [q EXCEPT ![cur] = Stored(cur, e)]
  BY DEF Save, Update, Put
<1>6. Stored(cur, e) = f
  BY DEF Stored, Fresh
<1>7. f \in Entry /\ ~f.blocked /\ f.parked = 0 /\ f.bundle = e.bundle
  <2> HIDE DEF kept
  <2> QED
    BY <1>3, <1>4 DEF Fresh
<1>8. Matches(cur, copy)'
  <2>1. cur' = cur
    OBVIOUS
  <2>2. q'[cur] = f
    BY <1>2, <1>5, <1>6
  <2> HIDE DEF kept
  <2> QED
    BY <1>2, <1>4, <1>5, <2>1, <2>2
    DEF Matches, Accepts, FrozenWrite, PlainWrite, Fresh, LeftOut
<1> QED
  <2> HIDE DEF f
  <2> QED
    BY <1>5, <1>6, <1>7, <1>8

\* An upload that exists changes its state.
LEMMA ExistingKey ==
  ASSUME NEW st, SetUpload(copy.upload, st), UploadAt(copy.upload) # "none"
  PROVE  KeysFrom /\ DOMAIN hub' = Created
  BY DEF SetUpload, UploadAt, KeysFrom, Created

LEMMA MovesOn ==
  ASSUME SInv, Inv', stage \in EntryStages, stage' \in EntryStages,
         UNCHANGED <<src, batch, cur, copy, q, stopped>>, KeysFrom, Checked'
  PROVE  Captured' /\ WorkInv'
<1>1. Fresh(copy') /\ Known(copy'.bundle)
  BY InHand DEF Known
<1> QED
  BY <1>1, GoesOn

LEMMA PickKeeps ==
  ASSUME SInv, Inv', NEW s \in Sessions, Pick(s)
  PROVE  Captured' /\ WorkInv'
<1>1. /\ stage = "pick" /\ s \in DOMAIN batch /\ cur' = s /\ copy' = UploadEntry(batch[s])
      /\ batch' = [x \in DOMAIN batch \ {s} |-> batch[x]] /\ stage' = "consent"
      /\ UNCHANGED <<src, q, hub, stopped>>
  BY DEF Pick, queueVars, hubVars
<1>2. /\ batch[s] \in Entry /\ Fresh(batch[s]) /\ q[s].parked = 0 /\ batch[s].bundle <= src[s]
      /\ src[s] \in Nat
  BY <1>1, Typed3 DEF SInv, WorkInv, TakenUp, Captured
<1>3. /\ UploadEntry(batch[s]).bundle \in {0, batch[s].bundle}
      /\ Fresh(UploadEntry(batch[s]))
  BY <1>2, RecordOps DEF Fresh, Derives
<1>4. Captured'
  BY <1>1, <1>2, <1>3 DEF SInv, Captured, Created
<1>5. TakenUp'
  BY <1>1, <1>2, <1>3 DEF SInv, WorkInv, TakenUp
<1> QED
  BY <1>1, <1>4, <1>5 DEF SInv, WorkInv, Checked, EntryStages

LEMMA PrepareKeeps ==
  ASSUME SInv, Inv', RecoverUnprepared \/ StartPending \/ Freeze \/ Capture \/ ReuseBundle
  PROVE  Captured' /\ WorkInv'
<1>1. /\ stage = "prepare" /\ stage \in EntryStages /\ stage' \in EntryStages
      /\ UNCHANGED <<src, hub, batch, cur, stopped, pol>>
  BY DEF RecoverUnprepared, StartPending, Freeze, Capture, ReuseBundle, ReadyToCapture,
         EntryStages, queueVars, hubVars
<1>2. /\ cur \in Sessions /\ copy \in Entry /\ q[cur] \in Entry
      /\ Fresh(copy) /\ ~q[cur].blocked /\ q[cur].parked = 0
      /\ Matches(cur, copy) /\ ~pol.paused /\ q \in [Sessions -> Entry]
  BY <1>1, InHand, Typed3 DEF SInv, WorkInv, Checked
<1>3. KeysFrom
  BY <1>1, SameKeys
<1>4. CASE RecoverUnprepared
  <2> DEFINE e == Unfrozen(q[cur])
  <2>1. copy' = e /\ q' = [q EXCEPT ![cur] = e]
    BY <1>4 DEF RecoverUnprepared, Put
  <2>2. e \in Entry
    BY <1>1, CurGood, UnfrozenGood DEF SInv, Good, GoodIn
  <2>3. /\ e.bundle = 0 /\ e.frozen = 0 /\ e.act = q[cur].act
        /\ e.excluded = q[cur].excluded /\ ~e.blocked /\ e.parked = 0
    BY <1>2 DEF Unfrozen, Cleared, Entry
  <2> HIDE DEF e
  <2>4. Matches(cur, copy)'
    BY <1>1, <1>2, <2>1, <2>3 DEF Matches, LeftOut
  <2> QED
    BY <1>1, <1>2, <1>3, <2>1, <2>2, <2>3, <2>4, GoesOn
    DEF Checked, Fresh, Known, Matches
<1>5. CASE StartPending
  <2> DEFINE e == [copy EXCEPT !.rev = 0, !.bundle = 0]
  <2>1. Save(e) /\ copy' = e
    BY <1>5 DEF StartPending, Save
  <2>2. e \in Entry
    BY <1>2, Zero, Zenon DEF Entry
  <2>3. /\ e.frozen = copy.frozen /\ e.act = copy.act /\ e.attempt = copy.attempt
        /\ e.upload = copy.upload /\ e.rev = 0 /\ Fresh(e) /\ e.bundle = 0
    BY <1>2 DEF Entry, Fresh
  <2> HIDE DEF e
  <2>4. /\ Matches(cur, copy)'
        /\ \E f \in Entry : /\ q' = [q EXCEPT ![cur] = f]
                            /\ ~f.blocked /\ f.parked = 0 /\ f.bundle = e.bundle
    BY <1>1, <2>1, <2>2, <2>3, StoredMatches
  <2> QED
    BY <1>1, <1>2, <1>3, <2>1, <2>3, <2>4, GoesOn DEF Checked, Known
<1>6. CASE Freeze
  <2> DEFINE e == [q[cur] EXCEPT !.frozen = copy.act]
  <2>1. q' = [q EXCEPT ![cur] = e] /\ copy' = UploadEntry(q'[cur]) /\ copy.frozen = 0
    BY <1>6 DEF Freeze, Put
  <2>2. e \in Entry
    BY <1>2, Zenon DEF Entry
  <2>3. /\ e.frozen = copy.act /\ e.act = copy.act /\ e.attempt = copy.attempt
        /\ e.upload = copy.upload /\ e.bundle = copy.bundle
        /\ ~e.excluded /\ ~e.blocked /\ e.parked = 0
    BY <1>2, <2>1 DEF Entry, Matches
  <2>4. /\ UploadEntry(e).act = copy.act /\ UploadEntry(e).frozen = copy.act
        /\ UploadEntry(e).attempt = copy.attempt
        /\ UploadEntry(e).upload = copy.upload /\ UploadEntry(e).bundle = copy.bundle
        /\ Fresh(UploadEntry(e))
    BY <2>2, <2>3 DEF UploadEntry, Fresh, Entry
  <2>5. q'[cur] = e
    BY <1>2, <2>1
  <2> HIDE DEF e
  <2>6. Matches(cur, copy)'
    BY <1>1, <1>2, <2>1, <2>3, <2>4, <2>5 DEF Matches, LeftOut
  <2> QED
    BY <1>1, <1>2, <1>3, <2>1, <2>2, <2>3, <2>4, <2>5, <2>6, GoesOn DEF Checked, Known
<1>7. CASE Capture
  <2> DEFINE e == [copy EXCEPT !.bundle = src[cur]]
  <2>1. Save(e) /\ copy' = e /\ copy.rev = 0
    BY <1>7 DEF Capture, Save, ReadyToCapture
  <2>2. e \in Entry
    <3>1. src[cur] \in 0..MaxVersion
      BY <1>2, BoundsAssumption DEF SInv, Inv, RestTyped, Versions
    <3> QED
      BY <1>2, <3>1, Zenon DEF Entry
  <2>3. /\ e.frozen = copy.frozen /\ e.act = copy.act /\ e.attempt = copy.attempt
        /\ e.upload = copy.upload /\ e.rev = 0 /\ Fresh(e) /\ e.bundle = src[cur]
    BY <1>2, <2>1 DEF Entry, Fresh
  <2> HIDE DEF e
  <2>4. /\ Matches(cur, copy)'
        /\ \E f \in Entry : /\ q' = [q EXCEPT ![cur] = f]
                            /\ ~f.blocked /\ f.parked = 0 /\ f.bundle = e.bundle
    BY <1>1, <2>1, <2>2, <2>3, StoredMatches
  <2> QED
    BY <1>1, <1>2, <1>3, <2>1, <2>3, <2>4, GoesOn DEF Checked, Known
<1>8. CASE ReuseBundle
  <2>1. UNCHANGED <<q, copy>>
    BY <1>8 DEF ReuseBundle, queueVars
  <2> QED
    BY <1>1, <1>2, <1>3, <2>1, MovesOn DEF Checked, Matches, LeftOut
<1> QED
  BY <1>4, <1>5, <1>6, <1>7, <1>8

\* The entry is stored and put down.
LEMMA StoresDown ==
  ASSUME SInv, Inv', stage \in EntryStages, PassEnds \/ NextEntry, UNCHANGED src, KeysFrom,
         stopped' => stopped \/ stage' = "idle",
         NEW e, Put(cur, e), ~e.blocked, e.bundle \in {0, copy.bundle, q[cur].bundle}
  PROVE  Captured' /\ WorkInv'
<1>1. q' = [q EXCEPT ![cur] = e] /\ cur \in Sessions /\ q \in [Sessions -> Entry]
      /\ q' \in [Sessions -> Entry]
  BY InHand, Typed3 DEF Put, SInv, Inv, QueueInv
<1>2. e \in Entry
  <2>1. q'[cur] = e
    BY <1>1
  <2> QED
    BY <1>1, <2>1
<1> QED
  BY <1>1, <1>2, PutsDown DEF StoresOne

LEMMA UpdatesDown ==
  ASSUME SInv, Inv', stage \in EntryStages, PassEnds \/ NextEntry, UNCHANGED src, KeysFrom,
         stopped' => stopped \/ stage' = "idle",
         NEW e \in Entry, Update(cur, e), ~e.blocked, e.bundle \in {0, copy.bundle, q[cur].bundle}
  PROVE  Captured' /\ WorkInv'
<1>1. cur \in Sessions
  BY InHand
<1>2. Derives(e, Stored(cur, e))
  BY <1>1, StoredOps
<1>3. ~Stored(cur, e).blocked /\ Stored(cur, e).bundle \in {0, copy.bundle, q[cur].bundle}
  BY <1>2 DEF Derives
<1> QED
  BY <1>3, StoresDown DEF Update

\* A copy whose upload is given up.
LEMMA GoneOps ==
  ASSUME NEW e \in Entry
  PROVE  LET g == [e EXCEPT !.upload = NoKey, !.attempt = e.attempt + 1]
         IN  g \in Entry /\ Derives(e, g)
<1>1. e.attempt + 1 \in Nat
  BY DEF Entry
<1>2. [e EXCEPT !.upload = NoKey, !.attempt = e.attempt + 1] \in Entry
  BY <1>1, Zenon DEF Entry
<1> QED
  BY <1>2 DEF Entry, Derives

LEMMA ParkTyped ==
  ASSUME SInv, NEW e \in Entry
  PROVE  Park(e) \in Entry
<1>1. local \in Nat
  BY DEF SInv, Inv, RestTyped
<1> QED
  BY <1>1, Zero, Zenon DEF Entry, Park, Cleared

LEMMA SendKeeps ==
  ASSUME SInv, Inv',
         \/ Consent \/ CreateOpens \/ CreateCompleted \/ StatusOpen \/ StatusCompleted
         \/ PutChunks \/ (Finalize /\ stage' = "complete") \/ Complete
  PROVE  Captured' /\ WorkInv'
<1>1. /\ stage \in EntryStages
      /\ UNCHANGED <<src, stopped, pol>>
  BY DEF Consent, CreateOpens, CreateCompleted, StatusOpen, StatusCompleted, PutChunks, Finalize,
         Complete, Creating, EntryStages, queueVars, hubVars
<1>2. /\ cur \in Sessions /\ copy \in Entry /\ q[cur] \in Entry
      /\ Fresh(copy) /\ ~q[cur].blocked /\ q[cur].parked = 0
  BY <1>1, InHand
<1>3. CASE Consent
  <2>1. /\ UNCHANGED <<batch, cur, copy, q, hub>> /\ stage' \in {"status", "prepare"}
        /\ Allowed
    BY <1>3 DEF Consent, queueVars, hubVars
  <2>2. Checked'
    BY <1>1, <2>1 DEF Checked, Allowed, Matches, LeftOut
  <2> QED
    BY <1>1, <2>1, <2>2, MovesOn, SameKeys DEF EntryStages
<1>4. CASE CreateOpens
  <2> DEFINE e == [copy EXCEPT !.upload = UploadKey, !.sid = TRUE]
  <2>1. /\ UNCHANGED <<batch, cur>> /\ stage' = "consent" /\ Save(e) /\ copy' = e
        /\ hub' = hub \/ SetUpload(UploadKey, "open")
    BY <1>4 DEF CreateOpens, Save
  <2>2. KeysFrom
    <3>1. UploadKey[1] = cur /\ UploadKey[2] = copy.bundle
      BY DEF UploadKey
    <3>2. cur # NoSession
      BY <1>1, InHand
    <3> QED
      BY <2>1, <3>1, <3>2, SameKeys DEF SetUpload, KeysFrom, Created
  <2>3. e \in Entry /\ Fresh(e) /\ e.bundle = copy.bundle /\ ~e.blocked /\ e.parked = 0
    <3>1. UploadKey \in Key
      BY <1>1, <1>4, KeyTyped DEF CreateOpens, Creating, SInv
    <3>2. e \in Entry
      BY <1>2, <3>1, Zenon DEF Entry
    <3> QED
      BY <1>2, <3>2 DEF Entry, Fresh
  <2> HIDE DEF e
  <2>4. \E f \in Entry : /\ q' = [q EXCEPT ![cur] = f]
                         /\ ~f.blocked /\ f.parked = 0 /\ Known(f.bundle)
    <3>1. q' = [q EXCEPT ![cur] = Stored(cur, e)] /\ q \in [Sessions -> Entry]
          /\ q' \in [Sessions -> Entry]
      BY <2>1, Typed3 DEF Save, Update, Put, SInv, Inv, QueueInv
    <3>2. Stored(cur, e) \in Entry
      <4>1. q'[cur] = Stored(cur, e)
        BY <1>2, <3>1
      <4> QED
        BY <1>2, <3>1, <4>1
    <3>3. Derives(e, Stored(cur, e)) /\ Stored(cur, e).parked = e.parked
      BY <1>2, <2>3, StoredOps
    <3> QED
      BY <2>3, <3>1, <3>2, <3>3 DEF Derives, Known
  <2> QED
    BY <1>1, <2>1, <2>2, <2>3, <2>4, GoesOn DEF Checked, Known, EntryStages
<1>5. CASE CreateCompleted
  <2>1. /\ UNCHANGED <<batch, cur, q, hub>> /\ stage' = "complete"
        /\ copy' = [copy EXCEPT !.sid = TRUE]
    BY <1>5 DEF CreateCompleted, queueVars, hubVars
  <2>2. Fresh(copy') /\ Known(copy'.bundle)
    BY <1>2, <2>1 DEF Fresh, Known, Entry
  <2> QED
    BY <1>1, <2>1, <2>2, GoesOn, SameKeys DEF Checked, EntryStages
<1>6. CASE StatusOpen \/ StatusCompleted
  <2>1. /\ UNCHANGED <<batch, cur, copy, q, hub>> /\ stage' \in {"chunks", "complete"}
    BY <1>6 DEF StatusOpen, StatusCompleted, queueVars, hubVars
  <2> QED
    BY <1>1, <2>1, MovesOn, SameKeys DEF Checked, EntryStages
<1>7. CASE PutChunks \/ (Finalize /\ stage' = "complete")
  <2>1. /\ UNCHANGED <<batch, cur, copy, q>> /\ stage' \in {"finalize", "complete"}
    BY <1>7 DEF PutChunks, Finalize, NextEntry, queueVars
  <2>2. KeysFrom
    BY <1>7, ExistingKey DEF PutChunks, Finalize
  <2> QED
    BY <1>1, <2>1, <2>2, MovesOn DEF Checked, EntryStages
<1>8. CASE Complete
  <2>1. CASE ~Matches(cur, copy)
    BY <1>1, <1>8, <2>1, PutsDown, SameKeys DEF Complete, queueVars, hubVars
  <2>2. CASE Matches(cur, copy)
    <3>1. /\ Update(cur, Completed) /\ copy' = q'[cur] /\ stage' = "discard"
          /\ UNCHANGED <<batch, cur, hub>>
      BY <1>8, <2>2 DEF Complete, hubVars
    <3>2. /\ Completed \in Entry /\ Fresh(Completed) /\ Completed.bundle = copy.bundle
          /\ Completed.blocked = FALSE /\ Completed.parked = 0
      <4>1. Completed \in Entry
        BY <1>2, Zenon DEF Entry, Completed
      <4> QED
        BY <1>2, <4>1 DEF Entry, Completed, Fresh
    <3>3. q' = [q EXCEPT ![cur] = Stored(cur, Completed)] /\ q'[cur] = Stored(cur, Completed)
          /\ Stored(cur, Completed) \in Entry
      <4>1. q' = [q EXCEPT ![cur] = Stored(cur, Completed)] /\ q \in [Sessions -> Entry]
            /\ q' \in [Sessions -> Entry]
        BY <3>1, Typed3 DEF Update, Put, SInv, Inv, QueueInv
      <4>2. q'[cur] = Stored(cur, Completed)
        BY <1>2, <4>1
      <4> QED
        BY <1>2, <4>1, <4>2
    <3>4. Derives(Completed, Stored(cur, Completed)) /\ Stored(cur, Completed).parked = 0
      BY <1>2, <3>2, StoredOps
    <3>5. ~Stored(cur, Completed).excluded
      BY <3>2 DEF Stored, Fresh, Entry
    <3> QED
      BY <1>1, <3>1, <3>2, <3>3, <3>4, <3>5, GoesOn, SameKeys
      DEF Checked, Known, Fresh, Derives, EntryStages
  <2> QED
    BY <2>1, <2>2
<1> QED
  BY <1>3, <1>4, <1>5, <1>6, <1>7, <1>8

LEMMA QuietDown ==
  ASSUME SInv, Inv', \/ LoopEnds \/ Disallowed \/ CreateUnusable \/ StatusFinalizing
                     \/ (Finalize /\ NextEntry) \/ DiscardUploaded \/ CreateLost
  PROVE  Captured' /\ WorkInv'
<1>1. CASE LoopEnds
  <2>1. CASE loop = 1
    <3>1. /\ stage = "pick" /\ stage' = "copies" /\ DOMAIN batch = {} /\ cur = NoSession
          /\ UNCHANGED <<src, q, hub, batch, cur, copy, stopped>>
      BY <1>1, <2>1, Typed3 DEF LoopEnds, queueVars, hubVars, SInv, EntryStages
    <3>2. Captured'
      BY <3>1 DEF SInv, Captured, Created
    <3> QED
      BY <3>1, <3>2 DEF SInv, WorkInv, TakenUp, Checked, EntryStages
  <2>2. CASE loop # 1
    BY <1>1, <2>2, PutsDown, SameKeys DEF LoopEnds, queueVars, hubVars
  <2> QED
    BY <2>1, <2>2
<1>2. CASE Disallowed \/ CreateUnusable \/ StatusFinalizing \/ DiscardUploaded
  <2>1. UNCHANGED <<src, q, hub, stopped>> /\ (PassEnds \/ (stage \in EntryStages /\ NextEntry))
    BY <1>2 DEF Disallowed, CreateUnusable, StatusFinalizing, DiscardUploaded, Creating,
                queueVars, hubVars, EntryStages
  <2> QED
    BY <2>1, PutsDown, SameKeys
<1>3. CASE Finalize /\ NextEntry
  <2>1. UNCHANGED <<src, q, stopped>> /\ stage \in EntryStages
    BY <1>3 DEF Finalize, queueVars, EntryStages
  <2>2. KeysFrom
    BY <1>3, ExistingKey DEF Finalize
  <2> QED
    BY <1>3, <2>1, <2>2, PutsDown
<1>4. CASE CreateLost
  <2>1. UNCHANGED <<src, q, stopped>> /\ stage \in EntryStages /\ NextEntry
        /\ SetUpload(UploadKey, "open")
    BY <1>4 DEF CreateLost, Creating, queueVars, EntryStages
  <2>2. KeysFrom
    <3>1. cur # NoSession
      BY <2>1, InHand
    <3> QED
      BY <2>1, <3>1 DEF SetUpload, KeysFrom, Created, UploadKey
  <2> QED
    BY <2>1, <2>2, PutsDown
<1> QED
  BY <1>1, <1>2, <1>3, <1>4

LEMMA GivesUpDown ==
  ASSUME SInv, Inv', \/ StatusDead \/ UploadGone \/ NotPrepared \/ PrepareFails
                     \/ ContentRefused
  PROVE  Captured' /\ WorkInv'
<1>1. /\ stage \in EntryStages /\ NextEntry /\ UNCHANGED <<src, hub, stopped>>
  BY DEF StatusDead, UploadGone, NotPrepared, PrepareFails, ContentRefused, ReadyToCapture,
         Creating, EntryStages, queueVars, hubVars
<1>2. /\ cur \in Sessions /\ copy \in Entry /\ q[cur] \in Entry
      /\ ~copy.blocked /\ ~q[cur].blocked
  BY <1>1, InHand DEF Fresh
<1>3. KeysFrom
  BY <1>1, SameKeys
<1> DEFINE gone == [copy EXCEPT !.upload = NoKey, !.attempt = copy.attempt + 1]
<1>4. gone \in Entry /\ ~gone.blocked /\ gone.bundle \in {0, copy.bundle}
  BY <1>2, GoneOps DEF Derives
<1>5. CASE StatusDead \/ UploadGone
  <2>1. Update(cur, gone) \/ Update(cur, Park(gone))
    BY <1>5 DEF StatusDead, UploadGone
  <2> HIDE DEF gone
  <2>2. Park(gone) \in Entry /\ ~Park(gone).blocked /\ Park(gone).bundle \in {0, copy.bundle}
    BY <1>4, ParkTyped, RecordOps DEF Derives
  <2> QED
    BY <1>1, <1>3, <1>4, <2>1, <2>2, UpdatesDown
<1>6. CASE ContentRefused
  <2>1. Park(copy) \in Entry /\ ~Park(copy).blocked /\ Park(copy).bundle \in {0, copy.bundle}
    BY <1>2, ParkTyped, RecordOps DEF Derives
  <2> QED
    BY <1>1, <1>3, <1>6, <2>1, UpdatesDown DEF ContentRefused
<1>7. CASE NotPrepared \/ PrepareFails
  <2> DEFINE e == IF q[cur].frozen # 0 THEN Unfrozen(q[cur]) ELSE copy
             g == IF copy.frozen # 0 THEN Unfrozen(q[cur]) ELSE copy
             o == [Cleared(e) EXCEPT !.attempt = e.attempt + 1]
  <2>1. Unfrozen(q[cur]) \in Entry /\ ~Unfrozen(q[cur]).blocked
        /\ Unfrozen(q[cur]).bundle = 0
    BY <1>1, <1>2, CurGood, UnfrozenGood, RecordOps DEF SInv, Derives, Good, GoodIn
  <2>2. e \in Entry /\ g \in Entry /\ ~e.blocked /\ ~g.blocked
        /\ e.bundle \in {0, copy.bundle} /\ g.bundle \in {0, copy.bundle}
    BY <1>2, <2>1
  <2>3. ~o.blocked /\ o.bundle = 0
    <3> HIDE DEF e
    <3> QED
      BY <2>2 DEF Cleared, Entry
  <2>4. ~Park(g).blocked /\ Park(g).bundle = 0
    <3> HIDE DEF g
    <3> QED
      BY <2>2 DEF Park, Cleared, Entry
  <2>5. Put(cur, e) \/ Put(cur, g) \/ Put(cur, o) \/ Put(cur, Park(g))
    BY <1>7 DEF NotPrepared, PrepareFails
  <2> HIDE DEF e, g, o
  <2> QED
    BY <1>1, <1>3, <2>2, <2>3, <2>4, <2>5, StoresDown
<1> QED
  BY <1>5, <1>6, <1>7

LEMMA RefusedDown ==
  ASSUME SInv, Inv', LeftOutRefused \/ PausedRefused \/ BudgetExpires \/ PassFails
  PROVE  Captured' /\ WorkInv'
<1>1. UNCHANGED <<src, hub>> /\ KeysFrom
  BY SameKeys DEF LeftOutRefused, PausedRefused, BudgetExpires, PassFails, hubVars
<1>2. CASE LeftOutRefused
  <2> DEFINE e == [copy EXCEPT !.excluded = TRUE, !.slo = TRUE]
  <2>1. /\ stage \in EntryStages /\ NextEntry /\ UNCHANGED stopped /\ Update(cur, e)
    BY <1>2 DEF LeftOutRefused, AtHubCheck, Creating, EntryStages
  <2>2. e \in Entry /\ ~e.blocked /\ e.bundle = copy.bundle
    <3>1. copy \in Entry /\ ~copy.blocked
      BY <2>1, InHand DEF Fresh
    <3>2. e \in Entry
      BY <3>1, Zenon DEF Entry
    <3> QED
      BY <3>1, <3>2 DEF Entry
  <2> HIDE DEF e
  <2> QED
    BY <1>1, <2>1, <2>2, UpdatesDown
<1>3. CASE PausedRefused
  <2> DEFINE e == [copy EXCEPT !.parked = 0]
  <2>1. /\ stage \in EntryStages /\ PassEnds /\ stage' = "idle" /\ Update(cur, e)
    BY <1>3 DEF PausedRefused, AtHubCheck, Creating, EntryStages, PassEnds
  <2>2. e \in Entry /\ ~e.blocked /\ e.bundle = copy.bundle
    <3>1. copy \in Entry /\ ~copy.blocked
      BY <2>1, InHand DEF Fresh
    <3>2. e \in Entry
      BY <3>1, Zenon DEF Entry
    <3> QED
      BY <3>1, <3>2 DEF Entry
  <2> HIDE DEF e
  <2> QED
    BY <1>1, <2>1, <2>2, UpdatesDown
<1>4. CASE BudgetExpires
  <2>1. /\ stage \in EntryStages /\ PassEnds /\ UNCHANGED stopped
        /\ q' = q \/ Update(cur, copy)
    BY <1>4 DEF BudgetExpires, EntryStages, Update, queueVars
  <2>2. copy \in Entry /\ ~copy.blocked
    BY <2>1, InHand DEF Fresh
  <2> QED
    BY <1>1, <2>1, <2>2, UpdatesDown, PutsDown
<1>5. CASE PassFails
  <2>1. /\ UNCHANGED stopped /\ (PassEnds \/ (stage \in EntryStages /\ NextEntry))
        /\ \/ q' = q
           \/ stage \in EntryStages /\ NextEntry /\ Put(cur, Unfrozen(q[cur]))
    BY <1>5 DEF PassFails, queueVars
  <2>2. CASE q' = q
    BY <1>1, <2>1, <2>2, PutsDown
  <2>3. CASE stage \in EntryStages /\ NextEntry /\ Put(cur, Unfrozen(q[cur]))
    <3>1. ~Unfrozen(q[cur]).blocked /\ Unfrozen(q[cur]).bundle \in {0, q[cur].bundle}
      BY <2>3, InHand, RecordOps DEF Derives
    <3> QED
      BY <1>1, <2>1, <2>3, <3>1, StoresDown
  <2> QED
    BY <2>1, <2>2, <2>3
<1> QED
  BY <1>2, <1>3, <1>4, <1>5

LEMMA WorkKeeps ==
  ASSUME SInv, Inv', Work
  PROVE  Captured' /\ WorkInv'
<1>1. CASE \E s \in Sessions : Pick(s)
  <2>1. PICK s \in Sessions : Pick(s)
    BY <1>1
  <2> QED
    BY <2>1, PickKeeps
<1>2. CASE LoopEnds \/ Disallowed \/ CreateUnusable \/ StatusFinalizing \/ DiscardUploaded
  BY <1>2, QuietDown
<1>3. CASE RecoverUnprepared \/ StartPending \/ Freeze \/ Capture \/ ReuseBundle
  BY <1>3, PrepareKeeps
<1>4. CASE \/ Consent \/ CreateOpens \/ CreateCompleted \/ StatusOpen
           \/ StatusCompleted \/ PutChunks \/ Complete
  BY <1>4, SendKeeps
<1>5. CASE StatusDead
  BY <1>5, GivesUpDown
<1>6. CASE Finalize
  <2>1. NextEntry \/ stage' = "complete"
    BY <1>6 DEF Finalize
  <2>2. CASE NextEntry
    BY <1>6, <2>2, QuietDown
  <2>3. CASE stage' = "complete"
    BY <1>6, <2>3, SendKeeps
  <2> QED
    BY <2>1, <2>2, <2>3
<1> QED
  BY <1>1, <1>2, <1>3, <1>4, <1>5, <1>6 DEF Work

LEMMA SInvStep == SInv /\ [Next]_vars => SInv'
<1> SUFFICES ASSUME SInv, [Next]_vars PROVE SInv'
  OBVIOUS
<1>1. Inv'
  BY NextInv, StutterInv DEF SInv
<1>2. CASE UNCHANGED vars
  <2>1. /\ src' = src /\ hub' = hub /\ q' = q /\ batch' = batch /\ cur' = cur
        /\ copy' = copy /\ stage' = stage /\ stopped' = stopped /\ pol' = pol
    BY <1>2 DEF vars
  <2>2. Captured'
    BY <2>1 DEF SInv, Captured, Created
  <2>3. TakenUp' /\ Checked'
    BY <2>1 DEF SInv, WorkInv, TakenUp, Checked, Matches, LeftOut, Fresh
  <2>4. WorkInv'
    BY <2>1, <2>3 DEF SInv, WorkInv
  <2> QED
    BY <1>1, <2>2, <2>4 DEF SInv
<1>3. CASE Next
  <2>1. CASE World \/ Prologue
    BY <1>1, <2>1, WorldKeeps, PrologueKeeps DEF SInv
  <2>2. CASE Work
    BY <1>1, <2>2, WorkKeeps DEF SInv
  <2>3. CASE CreateLost
    BY <1>1, <2>3, QuietDown DEF SInv
  <2>4. CASE UploadGone \/ NotPrepared \/ PrepareFails \/ ContentRefused
    BY <1>1, <2>4, GivesUpDown DEF SInv
  <2>5. CASE LeftOutRefused \/ PausedRefused \/ BudgetExpires \/ PassFails
    BY <1>1, <2>5, RefusedDown DEF SInv
  <2> QED
    BY <1>3, <2>1, <2>2, <2>3, <2>4, <2>5 DEF Next, Failure
<1> QED
  BY <1>2, <1>3

LEMMA SInvInit == Init => SInv
<1>1. Init => Captured
  BY DEF Init, Captured, Created, NoUploads, EmptyBatch, Blank
<1>2. Init => WorkInv
  BY SessionsAssumption DEF Init, WorkInv, TakenUp, Checked, EmptyBatch, EntryStages, Blank
<1> QED
  BY <1>1, <1>2, InitInv DEF SInv

LEMMA StepInvariant == Spec => []SInv
  BY SInvInit, SInvStep, PTL DEF Spec


-----------------------------------------------------------------------------
(* What is sent.                                                           *)

\* Only the runner's own four calls write to the Hub from an entry's stages.
LEMMA WritingSteps ==
  ASSUME SInv, [Next]_vars, NEW s \in Sessions, LocalWrites(s)
  PROVE  CreateOpens \/ CreateLost \/ PutChunks \/ Finalize
<1>1. /\ stage \in {"create", "chunks", "finalize"} /\ hub' # hub /\ stage' # stage
  BY DEF LocalWrites
<1>2. Next
  BY <1>1 DEF vars
<1>3. CASE World
  BY <1>1, <1>3
  DEF World, SourceChange, HubForgets, HubAccepts, HubDrops, OwnerSetsPolicy, Restart, Rebind,
      passVars, hubVars
<1>4. CASE Prologue
  BY <1>1, <1>4
  DEF Prologue, StartPass, Refresh, Admit, DiscardAbandoned, ListAll, TakeRetry, Discover,
      TakeCopies, hubVars
<1>5. CASE Work /\ ~CreateOpens /\ ~PutChunks /\ ~Finalize
  BY <1>1, <1>5
  DEF Work, Pick, LoopEnds, Disallowed, Consent, RecoverUnprepared, StartPending, Freeze,
      Capture, ReuseBundle, CreateCompleted, CreateUnusable, StatusOpen, StatusFinalizing,
      StatusCompleted, StatusDead, Complete, DiscardUploaded, hubVars
<1>6. CASE Failure /\ ~CreateLost
  BY <1>1, <1>6
  DEF Failure, UploadGone, NotPrepared, PrepareFails, ContentRefused, LeftOutRefused,
      PausedRefused, BudgetExpires, PassFails, hubVars
<1> QED
  BY <1>2, <1>3, <1>4, <1>5, <1>6 DEF Next

\* Each of them acts on a checked copy: create relies on the check before the
\* capture, the others check again.
LEMMA WriteAllowed ==
  ASSUME SInv, [Next]_vars, NEW s \in Sessions, LocalWrites(s)
  PROVE  Allowed /\ ~stopped /\ cur = s
<1>1. stage \in {"create", "chunks", "finalize"} /\ cur = s
  BY DEF LocalWrites
<1>2. CreateOpens \/ CreateLost => Allowed
  BY DEF CreateOpens, CreateLost, Creating, SInv, WorkInv, Checked, Allowed
<1>3. PutChunks \/ Finalize => Allowed
  BY DEF PutChunks, Finalize
<1>4. ~stopped
  BY <1>1 DEF SInv, WorkInv
<1>5. CreateOpens \/ CreateLost \/ PutChunks \/ Finalize
  BY WritingSteps
<1> QED
  BY <1>1, <1>2, <1>3, <1>4, <1>5

\* Whatever policies, retries and refusals arrive between the check and the
\* write, nothing of a session is sent while the policy Local applied leaves it
\* out or pauses sync, while the Hub's refusal stands, or from a blocked source.
THEOREM ConsentBeforeWrites == Spec => WritesNeedConsent
<1>1. ASSUME SInv, [Next]_vars, NEW s \in Sessions, LocalWrites(s)
      PROVE  /\ ~LeftOut(s) /\ ~pol.paused /\ ~stopped
             /\ ~q[s].excluded /\ ~q[s].blocked
  BY <1>1, WriteAllowed DEF Allowed, Matches
<1>2. SInv /\ [Next]_vars =>
        [\A s \in Sessions : LocalWrites(s) =>
           /\ ~LeftOut(s) /\ ~pol.paused /\ ~stopped
           /\ ~q[s].excluded /\ ~q[s].blocked]_vars
  BY <1>1
<1> QED
  BY <1>2, StepInvariant, PTL DEF Spec, WritesNeedConsent

\* At every write the runner's copy is the entry the queue holds, however long
\* ago the copy was taken.
THEOREM CopyMatchesAtWrites == Spec => WritesMatchQueue
<1>1. ASSUME SInv, [Next]_vars, NEW s \in Sessions, LocalWrites(s)
      PROVE  Matches(s, copy)
  BY <1>1, WriteAllowed DEF Allowed
<1>2. SInv /\ [Next]_vars => [\A s \in Sessions : LocalWrites(s) => Matches(s, copy)]_vars
  BY <1>1
<1> QED
  BY <1>2, StepInvariant, PTL DEF Spec, WritesMatchQueue

-----------------------------------------------------------------------------
(* Parked entries.                                                         *)

\* While an entry is worked on, only that entry changes.
TouchesCurrent == q' = q \/ (stage \in EntryStages /\ \E e : q' = [q EXCEPT ![cur] = e])

LEMMA WorkTouches ==
  ASSUME Work \/ Failure
  PROVE  TouchesCurrent
<1>1. CASE Work
  <2>1. CASE \/ \E s \in Sessions : Pick(s)
             \/ LoopEnds \/ Disallowed \/ Consent \/ ReuseBundle \/ CreateCompleted
             \/ CreateUnusable \/ StatusOpen \/ StatusFinalizing \/ StatusCompleted
             \/ PutChunks \/ Finalize \/ DiscardUploaded
    BY <2>1
    DEF Pick, LoopEnds, Disallowed, Consent, ReuseBundle, CreateCompleted, CreateUnusable,
        StatusOpen, StatusFinalizing, StatusCompleted, PutChunks, Finalize, DiscardUploaded,
        queueVars, TouchesCurrent
  <2>2. CASE RecoverUnprepared \/ StartPending \/ Freeze \/ Capture \/ CreateOpens
    BY <2>2
    DEF RecoverUnprepared, StartPending, Freeze, Capture, CreateOpens, ReadyToCapture, Creating,
        Save, Update, Put, EntryStages, TouchesCurrent
  <2>3. CASE StatusDead \/ Complete
    BY <2>3 DEF StatusDead, Complete, Update, Put, queueVars, EntryStages, TouchesCurrent
  <2> QED
    BY <1>1, <2>1, <2>2, <2>3 DEF Work
<1>2. CASE Failure
  <2>1. CASE CreateLost \/ UploadGone \/ ContentRefused \/ LeftOutRefused \/ PausedRefused
    BY <2>1
    DEF CreateLost, UploadGone, ContentRefused, LeftOutRefused, PausedRefused, AtHubCheck,
        Creating, Update, Put, queueVars, EntryStages, TouchesCurrent
  <2>2. CASE NotPrepared \/ PrepareFails
    BY <2>2 DEF NotPrepared, PrepareFails, ReadyToCapture, Put, EntryStages, TouchesCurrent
  <2>3. CASE BudgetExpires \/ PassFails
    BY <2>3 DEF BudgetExpires, PassFails, Put, queueVars, EntryStages, TouchesCurrent
  <2> QED
    BY <1>2, <2>1, <2>2, <2>3 DEF Failure
<1> QED
  BY <1>1, <1>2

\* Why an entry is no longer parked.
Cause(s) == \/ q'[s].act > q[s].act \/ q[s].blocked
            \/ q[s].parked # local
            \/ newRetry' \/ pol'.ver = 0

LEMMA ReleaseHasCause ==
  ASSUME SInv, [Next]_vars, NEW s \in Sessions, q[s].parked # 0, q'[s].parked = 0
  PROVE  Cause(s)
<1>1. q \in [Sessions -> Entry] /\ Next
  BY Typed3 DEF SInv, vars
<1>2. CASE World
  <2>1. CASE Restart
    <3>1. q'[s] = [q[s] EXCEPT !.listed = FALSE] /\ q[s] \in Entry
      BY <1>1, <2>1 DEF Restart
    <3> QED
      BY <3>1 DEF Entry
  <2>2. CASE Rebind
    BY <2>2 DEF Rebind, Cause
  <2>3. CASE World /\ ~Restart /\ ~Rebind
    BY <2>3
    DEF World, SourceChange, HubForgets, HubAccepts, HubDrops, OwnerSetsPolicy, queueVars
  <2> QED
    BY <1>2, <2>1, <2>2, <2>3
<1>3. CASE Prologue
  <2>1. CASE StartPass \/ Refresh
    BY <2>1, PolicyOps DEF StartPass, Refresh
  <2>2. CASE ListAll
    BY <1>1, <2>2, MarkedOps DEF ListAll, PutAll, queueVars
  <2>3. CASE Admit \/ DiscardAbandoned \/ \E due \in SUBSET Sessions : TakeCopies(due)
    BY <2>3 DEF Admit, DiscardAbandoned, TakeCopies, queueVars
  <2>4. CASE \E x \in Sessions : TakeRetry(x)
    BY <2>4 DEF TakeRetry, Cause
  <2>5. ASSUME NEW failing \in SUBSET Sessions, Discover(failing)
        PROVE  Cause(s)
    <3>1. q'[s] = Discovered(s, s \in failing) /\ (s \in failing) \in BOOLEAN
      BY <2>5 DEF Discover, PutAll
    <3> QED
      BY <3>1, DiscoverOps DEF Cause
  <2> QED
    BY <1>3, <2>1, <2>2, <2>3, <2>4, <2>5 DEF Prologue
<1>4. CASE Work \/ Failure
  <2>1. stage \in EntryStages => q[cur].parked = 0 /\ cur \in Sessions
    BY InHand
  <2>2. stage \in EntryStages /\ cur # s => \A e : [q EXCEPT ![cur] = e][s] = q[s]
    BY <1>1
  <2> QED
    BY <1>4, <2>1, <2>2, WorkTouches DEF TouchesCurrent
<1> QED
  BY <1>1, <1>2, <1>3, <1>4 DEF Next

\* A parked entry stays parked until its source changes or is verified, another
\* version of Local runs, or a retry command or a new Hub arrives: no copy that
\* was taken before it was parked is stored over it.
THEOREM ParkedUntilCause == Spec => ParkedNeedsCause
<1>1. ASSUME SInv, [Next]_vars, NEW s \in Sessions, q[s].parked # 0, q'[s].parked = 0
      PROVE  \/ q'[s].act > q[s].act \/ q[s].blocked
             \/ q[s].parked # local
             \/ newRetry' \/ pol'.ver = 0
  BY <1>1, ReleaseHasCause DEF Cause
<1>2. SInv /\ [Next]_vars =>
        [\A s \in Sessions : q[s].parked # 0 /\ q'[s].parked = 0 =>
           \/ q'[s].act > q[s].act \/ q[s].blocked
           \/ q[s].parked # local
           \/ newRetry' \/ pol'.ver = 0]_vars
  BY <1>1
<1> QED
  BY <1>2, StepInvariant, PTL DEF Spec, ParkedNeedsCause

-----------------------------------------------------------------------------
(* The promise.                                                            *)

AcceptedKept == \A s \in Sessions : Accepted(s)' = Accepted(s)

LEMMA SameHub == hub' = hub => AcceptedKept
  BY DEF AcceptedKept, Accepted, Created

\* What an upload is before it is accepted does not show.
LEMMA UploadMoves ==
  ASSUME NEW k, NEW st, SetUpload(k, st), st \notin {"completed", "forgotten"},
         k \in Created => hub[k] \notin {"completed", "forgotten"}
  PROVE  AcceptedKept
<1>1. DOMAIN hub' = Created \cup {k}
      /\ \A x \in Created \cup {k} : hub'[x] = IF x = k THEN st ELSE hub[x]
  BY DEF SetUpload
<1>2. ASSUME NEW s \in Sessions, NEW v \in Versions
      PROVE  (\E x \in Created : x[1] = s /\ x[2] = v /\ hub[x] \in {"completed", "forgotten"})
               <=> (\E x \in DOMAIN hub' : /\ x[1] = s /\ x[2] = v
                                           /\ hub'[x] \in {"completed", "forgotten"})
  BY <1>1
<1> QED
  BY <1>2 DEF AcceptedKept, Accepted, Created

LEMMA UploadAccepted ==
  ASSUME SInv, NEW k \in Created, SetUpload(k, "completed"), UNCHANGED src,
         \A s \in Sessions : Claimed(s)' = Claimed(s)
  PROVE  Promise!Accept(k[1], k[2]) /\ k[1] \in Sessions /\ k[2] \in Versions
<1>1. k[1] \in Sessions /\ k[2] \in Versions /\ k[2] <= src[k[1]]
  BY DEF SInv, Captured, Inv, RestTyped, Created, Key
<1>2. DOMAIN hub' = Created
      /\ \A x \in Created : hub'[x] = IF x = k THEN "completed" ELSE hub[x]
  BY DEF SetUpload
<1>3. ASSUME NEW s \in Sessions, NEW v \in Versions
      PROVE  (\E x \in DOMAIN hub' : /\ x[1] = s /\ x[2] = v
                                     /\ hub'[x] \in {"completed", "forgotten"})
             <=> \/ \E x \in Created : /\ x[1] = s /\ x[2] = v
                                       /\ hub[x] \in {"completed", "forgotten"}
                 \/ s = k[1] /\ v = k[2]
  BY <1>2
<1>4. \A s \in Sessions : Accepted(s)' = IF s = k[1] THEN Accepted(s) \cup {k[2]} ELSE Accepted(s)
  BY <1>1, <1>3 DEF Accepted, Created
<1>5. [s \in Sessions |-> Accepted(s)]' =
        [[s \in Sessions |-> Accepted(s)] EXCEPT ![k[1]] = @ \cup {k[2]}]
  BY <1>1, <1>4
<1> QED
  BY <1>1, <1>5 DEF Promise!Accept

\* Steps after which no claim is new.
LEMMA Withdraws ==
  ASSUME UNCHANGED src, AcceptedKept, \A s \in Sessions : Claimed(s)' \in {0, Claimed(s)}
  PROVE  Promise!Next
<1> DEFINE which == {s \in Sessions : Claimed(s)' = 0}
<1>1. Promise!Withdraw(which)
  BY DEF Promise!Withdraw, AcceptedKept
<1> QED
  BY <1>1 DEF Promise!Next

\* Steps that change one entry: a new claim is backed, because the invariant
\* holds afterwards.
LEMMA OneClaim ==
  ASSUME Inv', UNCHANGED src, AcceptedKept, q \in [Sessions -> Entry],
         NEW s \in Sessions, NEW e, q' = [q EXCEPT ![s] = e]
  PROVE  Promise!Next
<1>1. \A x \in Sessions \ {s} : Claimed(x)' = Claimed(x)
  BY DEF Claimed
<1>2. CASE Claimed(s)' = 0
  BY <1>1, <1>2, Withdraws
<1>3. CASE Claimed(s)' # 0
  <2>1. /\ q'[s].rev # 0 /\ q'[s].synced = Claimed(s)' /\ q'[s].synced # 0
        /\ q'[s] \in Entry
    BY <1>3 DEF Claimed, Inv, QueueInv
  <2>2. Claimed(s)' \in Versions
    BY <2>1, BoundsAssumption DEF Entry, Versions
  <2>3. ClaimIsAccepted'
    BY InvClaims, PTL
  <2>4. \E w \in Accepted(s) : Claimed(s)' <= w
    BY <2>1, <2>3 DEF ClaimIsAccepted, AcceptedKept
  <2>5. [x \in Sessions |-> Claimed(x)]' =
          [[x \in Sessions |-> Claimed(x)] EXCEPT ![s] = Claimed(s)']
    BY <1>1
  <2>6. Promise!Claim(s, Claimed(s)')
    BY <2>4, <2>5 DEF Promise!Claim, AcceptedKept
  <2> QED
    BY <2>2, <2>6 DEF Promise!Next, Promise!Versions, Versions
<1> QED
  BY <1>2, <1>3

\* Promised: the step is one of HubCopy, or HubCopy does not see it.
Promised == Promise!Next \/ UNCHANGED Promise!vars

LEMMA WorldPromised ==
  ASSUME SInv, World
  PROVE  Promised
<1>1. src \in [Sessions -> Nat]
  BY Typed3 DEF SInv
<1>2. ASSUME NEW s \in Sessions, SourceChange(s) PROVE Promise!Next
  <2>1. AcceptedKept /\ \A x \in Sessions : Claimed(x)' = Claimed(x)
    BY <1>2, SameHub DEF SourceChange, hubVars, queueVars, Claimed
  <2>2. Promise!Change(s)
    BY <1>2, <2>1 DEF SourceChange, Promise!Change, AcceptedKept
  <2> QED
    BY <2>2 DEF Promise!Next
<1>3. ASSUME NEW s \in Sessions, HubForgets(s) PROVE Promise!Next
  <2>1. /\ DOMAIN hub' = Created /\ src' = src /\ q' = q
        /\ \A k \in Created : hub'[k] = IF k[1] = s /\ hub[k] = "completed"
                                        THEN "forgotten" ELSE hub[k]
    BY <1>3 DEF HubForgets, queueVars
  <2>2. AcceptedKept
    BY <2>1 DEF AcceptedKept, Accepted, Created
  <2> QED
    BY <2>1, <2>2, Withdraws DEF Claimed
<1>4. ASSUME NEW k \in Created, HubAccepts(k) PROVE Promise!Next
  <2>1. src' = src /\ SetUpload(k, "completed") /\ \A s \in Sessions : Claimed(s)' = Claimed(s)
    BY <1>4 DEF HubAccepts, queueVars, Claimed
  <2> QED
    BY <2>1, UploadAccepted DEF Promise!Next, Promise!Versions, Versions
<1>5. ASSUME NEW k \in Created, HubDrops(k) PROVE Promise!Next
  <2>1. src' = src /\ q' = q /\ AcceptedKept
    BY <1>5, UploadMoves DEF HubDrops, queueVars
  <2> QED
    BY <2>1, Withdraws DEF Claimed
<1>6. CASE OwnerSetsPolicy
  BY <1>6, SameHub, Withdraws DEF OwnerSetsPolicy, queueVars, Claimed, Promised
<1>7. CASE Restart
  <2>1. ASSUME NEW s \in Sessions PROVE Claimed(s)' = Claimed(s)
    <3>1. q'[s] = [q[s] EXCEPT !.listed = FALSE] /\ q[s] \in Entry
      BY <1>7, Typed3 DEF Restart, SInv
    <3>2. q'[s].rev = q[s].rev /\ q'[s].synced = q[s].synced
      BY <3>1 DEF Entry
    <3> QED
      BY <3>2 DEF Claimed
  <2> QED
    BY <1>7, <2>1, SameHub, Withdraws DEF Restart, hubVars, Promised
<1>8. CASE Rebind
  <2>1. /\ src' = src /\ hub' = NoUploads
        /\ \A s \in Sessions : q'[s].rev = 0
    BY <1>8 DEF Rebind, PutAll, Blank
  <2>2. \A s \in Sessions : Claimed(s)' = 0 /\ Accepted(s)' = {}
    BY <2>1 DEF Claimed, Accepted, Created, NoUploads
  <2>3. Promise!Replace
    BY <2>1, <2>2 DEF Promise!Replace
  <2> QED
    BY <2>3 DEF Promised, Promise!Next
<1> QED
  BY <1>2, <1>3, <1>4, <1>5, <1>6, <1>7, <1>8 DEF World, Promised

LEMMA ProloguePromised ==
  ASSUME SInv, Inv', Prologue
  PROVE  Promise!Next
<1>1. src' = src /\ AcceptedKept /\ q \in [Sessions -> Entry]
  BY SameHub, Typed3
  DEF Prologue, StartPass, Refresh, Admit, DiscardAbandoned, ListAll, TakeRetry, Discover,
      TakeCopies, hubVars, SInv
<1>2. CASE StartPass \/ Refresh
  <2>1. ASSUME NEW s \in Sessions PROVE Claimed(s)' = Claimed(s)
    BY <1>2, PolicyOps DEF StartPass, Refresh, Derives, Claimed
  <2> QED
    BY <1>1, <2>1, Withdraws
<1>3. CASE ListAll
  <2>1. ASSUME NEW s \in Sessions PROVE Claimed(s)' \in {0, Claimed(s)}
    <3>1. q'[s] = q[s] \/ q'[s] = Marked(s)
      BY <1>3 DEF ListAll, PutAll, queueVars
    <3> QED
      BY <1>1, <3>1, MarkedOps DEF Claimed
  <2> QED
    BY <1>1, <2>1, Withdraws
<1>4. CASE Admit \/ DiscardAbandoned \/ \E due \in SUBSET Sessions : TakeCopies(due)
  <2>1. q' = q
    BY <1>4 DEF Admit, DiscardAbandoned, TakeCopies, queueVars
  <2> QED
    BY <1>1, <2>1, Withdraws DEF Claimed
<1>5. ASSUME NEW s \in Sessions, TakeRetry(s) PROVE Promise!Next
  BY <1>1, <1>5, OneClaim DEF TakeRetry, Put
<1>6. ASSUME NEW failing \in SUBSET Sessions, Discover(failing) PROVE Promise!Next
  <2>1. ASSUME NEW s \in Sessions PROVE Claimed(s)' \in {0, Claimed(s)}
    <3>1. q'[s] = Discovered(s, s \in failing) /\ (s \in failing) \in BOOLEAN
      BY <1>6 DEF Discover, PutAll
    <3>2. q'[s].rev \in {0, q[s].rev} /\ q'[s].synced = q[s].synced
      BY <3>1, DiscoverOps
    <3> QED
      BY <3>2 DEF Claimed
  <2> QED
    BY <1>1, <2>1, Withdraws
<1> QED
  BY <1>2, <1>3, <1>4, <1>5, <1>6 DEF Prologue

\* Every step of a pass but a verified finalize leaves what is accepted alone.
LEMMA WorkAccepts ==
  ASSUME SInv, Work \/ Failure
  PROVE  /\ src' = src
         /\ \/ AcceptedKept
            \/ q' = q /\ copy.upload \in Created /\ SetUpload(copy.upload, "completed")
<1>1. src' = src
  <2>1. Work => src' = src
    BY DEF Work, Pick, LoopEnds, Disallowed, Consent, RecoverUnprepared, StartPending, Freeze,
      Capture, ReuseBundle, CreateOpens, CreateCompleted, CreateUnusable, StatusOpen,
      StatusFinalizing, StatusCompleted, StatusDead, PutChunks, Finalize, Complete,
      DiscardUploaded
  <2>2. Failure => src' = src
    BY DEF Failure, CreateLost, UploadGone, NotPrepared, PrepareFails, ContentRefused,
      LeftOutRefused, PausedRefused, BudgetExpires, PassFails
  <2> QED
    BY <2>1, <2>2
<1>2. CASE Work /\ ~CreateOpens /\ ~PutChunks /\ ~Finalize
  BY <1>1, <1>2, SameHub
  DEF Work, Pick, LoopEnds, Disallowed, Consent, RecoverUnprepared, StartPending, Freeze,
      Capture, ReuseBundle, CreateCompleted, CreateUnusable, StatusOpen, StatusFinalizing,
      StatusCompleted, StatusDead, Complete, DiscardUploaded, hubVars
<1>3. CASE Failure /\ ~CreateLost
  BY <1>1, <1>3, SameHub
  DEF Failure, UploadGone, NotPrepared, PrepareFails, ContentRefused, LeftOutRefused,
      PausedRefused, BudgetExpires, PassFails, hubVars
<1>4. CASE CreateOpens \/ CreateLost
  <2>1. hub' = hub \/ (SetUpload(UploadKey, "open") /\ UploadKey \notin Created)
    BY <1>4 DEF CreateOpens, CreateLost
  <2> QED
    BY <1>1, <2>1, SameHub, UploadMoves
<1>5. CASE PutChunks
  <2>1. /\ copy.upload \in Created /\ hub[copy.upload] \in {"open", "sent"}
        /\ SetUpload(copy.upload, "sent")
    BY <1>5 DEF PutChunks, UploadAt
  <2> QED
    BY <1>1, <2>1, UploadMoves
<1>6. CASE Finalize
  <2>1. copy.upload \in Created /\ hub[copy.upload] = "sent" /\ q' = q
    BY <1>6 DEF Finalize, UploadAt, queueVars
  <2>2. SetUpload(copy.upload, "finalizing") => AcceptedKept
    BY <2>1, UploadMoves
  <2> QED
    BY <1>1, <1>6, <2>1, <2>2 DEF Finalize
<1> QED
  BY <1>2, <1>3, <1>4, <1>5, <1>6

LEMMA WorkPromised ==
  ASSUME SInv, Inv', Work \/ Failure
  PROVE  Promise!Next
<1>1. src' = src /\ q \in [Sessions -> Entry]
  BY WorkAccepts, Typed3 DEF SInv
<1>2. CASE AcceptedKept /\ q' = q
  BY <1>1, <1>2, Withdraws DEF Claimed
<1>3. CASE AcceptedKept /\ q' # q
  <2>1. PICK e : q' = [q EXCEPT ![cur] = e]
    BY <1>3, WorkTouches DEF TouchesCurrent
  <2>2. cur \in Sessions
    BY <1>3, WorkTouches, InHand DEF TouchesCurrent
  <2> QED
    BY <1>1, <1>3, <2>1, <2>2, OneClaim
<1>4. CASE q' = q /\ copy.upload \in Created /\ SetUpload(copy.upload, "completed")
  <2>1. \A s \in Sessions : Claimed(s)' = Claimed(s)
    BY <1>4 DEF Claimed
  <2> QED
    BY <1>1, <1>4, <2>1, UploadAccepted DEF Promise!Next, Promise!Versions, Versions
<1> QED
  BY <1>2, <1>3, <1>4, WorkAccepts

\* The queue, its passes and the uploads implement HubCopy: the Hub accepts only
\* content the source had by then, and Local never calls a version synced that
\* the Hub did not accept first, for any number of sessions, versions and
\* faults.
THEOREM QueueKeepsPromise == Spec => KeepsPromise
<1>1. Init => Promise!Init
  BY DEF Init, Promise!Init, Accepted, Claimed, Created, NoUploads, Blank
<1>2. SInv /\ [Next]_vars => [Promise!Next]_(Promise!vars)
  <2> SUFFICES ASSUME SInv, [Next]_vars PROVE Promised
    BY DEF Promised
  <2>1. Inv'
    BY NextInv, StutterInv DEF SInv
  <2>2. CASE UNCHANGED vars
    BY <2>2 DEF vars, Promised, Promise!vars, Accepted, Claimed, Created
  <2>3. CASE Next
    BY <2>1, <2>3, WorldPromised, ProloguePromised, WorkPromised DEF Next, Promised
  <2> QED
    BY <2>2, <2>3
<1> QED
  BY <1>1, <1>2, StepInvariant, PTL DEF Spec, KeepsPromise, Promise!Spec
=============================================================================
