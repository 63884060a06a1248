--------------------------- MODULE HubLoginProofs ---------------------------
(***************************************************************************)
(* Proofs about HubLogin, for every set of processes and every number of   *)
(* logins, tokens and misses: the lock keeps transactions apart, what is   *)
(* stored is never older than the last login or logout that ran, and only  *)
(* a login whose token was lost on the way is ever taken for stolen.       *)
(***************************************************************************)
EXTENDS HubLogin, TLAPS

\* A login under way belongs to nobody else and is not stored yet; who holds the
\* lock to rotate works on what is stored, and on the newest token unless one was
\* lost.
Fine(w) ==
  /\ w.at \in {"approve", "save"} =>
       w.client # 0 /\ w.client <= loginRevision /\ w.client # stored.client
       /\ w.client \notin lossy
  /\ w.at = "save" => newest[w.client] = 1
  /\ w.at = "revoke" => w.client # 0
  /\ w.at \in {"rotate", "keep"} => w.client = stored.client /\ w.client # 0
  /\ w.at = "rotate" => w.token = stored.token
  /\ w.at = "keep" => w.token # 0 /\ (w.client \in lossy \/ newest[w.client] = w.token)

Beginning(w) == w.at \in {"approve", "save"}

Apart ==
  \A p, q \in Processes :
    p # q /\ Beginning(command[p]) /\ Beginning(command[q]) => command[p].client # command[q].client

\* The stored token is the newest, unless one was lost or the next is being kept.
StoredFine ==
  /\ stored.client <= loginRevision
  /\ stored.client # 0 =>
       stored.token # 0 /\ (\/ stored.client \in lossy \/ newest[stored.client] = stored.token
                            \/ \E p \in Processes : command[p].at = "keep")

History ==
  /\ settled <= loginRevision
  /\ \A c \in lossy : c <= loginRevision
  /\ \A r \in late : r.client \in lossy

LInv ==
  /\ LoginTypeOK
  /\ \A p \in Processes : Fine(command[p])
  /\ Apart
  /\ StoredFine
  /\ History
  /\ NewestStays
  /\ OnlyLossesReplay

USE LoginAssumption DEF LoginAssumption

----------------------------------------------------------------------------
\* The commands stay typed, and the lock stays with the one inside it.
LEMMA CommandTyped ==
  ASSUME LoginTypeOK, NEW p \in Processes, NEW w \in CommandStates, Becomes(p, w),
         \/ lock' = lock /\ (w.at \in Locked <=> lock = p)
         \/ lock = Nobody /\ lock' = p /\ w.at \in Locked
         \/ lock = p /\ lock' = Nobody /\ w.at \notin Locked
  PROVE  /\ command' \in [Processes -> CommandStates]
         /\ lock' \in Processes \cup {Nobody}
         /\ \A q \in Processes : command'[q].at \in Locked <=> lock' = q
<1>1. command' \in [Processes -> CommandStates]
  BY DEF LoginTypeOK, Becomes
<1>2. lock' \in Processes \cup {Nobody}
  BY DEF LoginTypeOK
<1>3. ASSUME NEW q \in Processes PROVE command'[q].at \in Locked <=> lock' = q
  <2>1. command'[q] = IF q = p THEN w ELSE command[q]
    BY DEF LoginTypeOK, Becomes
  <2>2. command[q].at \in Locked <=> lock = q
    BY DEF LoginTypeOK
  <2> HIDE DEF Locked
  <2> QED
    BY <2>1, <2>2
<1> QED
  BY <1>1, <1>2, <1>3

\* A command that is done, outside the lock, is fine in any state.
LEMMA DoneFine == Done \in CommandStates /\ Done.at = "idle" /\ Fine(Done) /\ ~Beginning(Done)
BY DEF Done, CommandStates, Locked, Unlocked, Fine, Beginning

LEMMA InitLInv == LoginInit => LInv
<1> SUFFICES ASSUME LoginInit PROVE LInv
  OBVIOUS
<1>1. command = [p \in Processes |-> Done] /\ stored = NoCredential /\ stored.client = 0
  BY DEF LoginInit, NoCredential
<1>2. LoginTypeOK
  <2>1. stored \in Credential
    BY <1>1 DEF NoCredential, Credential
  <2>2. command \in [Processes -> CommandStates]
    BY <1>1, DoneFine
  <2>3. \A p \in Processes : command[p].at \in Locked <=> lock = p
    BY <1>1, DoneFine DEF LoginInit, Locked
  <2>4. newest \in [Logins -> 0..MaxToken]
    BY DEF LoginInit
  <2> QED
    BY <2>1, <2>2, <2>3, <2>4 DEF LoginInit, LoginTypeOK
<1> QED
  BY <1>1, <1>2, DoneFine
     DEF LoginInit, LInv, Apart, StoredFine, History, NewestStays, OnlyLossesReplay

----------------------------------------------------------------------------
(* Steps of a command that leave the store and its tokens alone. *)

LEMMA QuietLoginStep ==
  ASSUME LInv, NEW p \in Processes, NEW w \in CommandStates, Becomes(p, w), Fine(w),
         Beginning(w) => Beginning(command[p]) /\ w.client = command[p].client,
         command[p].at # "keep",
         \/ lock' = lock /\ (w.at \in Locked <=> lock = p)
         \/ lock = Nobody /\ lock' = p /\ w.at \in Locked
         \/ lock = p /\ lock' = Nobody /\ w.at \notin Locked,
         UNCHANGED <<stored, newest, renewable, late, replayed, lossy>>,
         alive' \subseteq Logins,
         loginRevision' \in 0..MaxLogin, loginRevision <= loginRevision',
         settled' \in 0..MaxLogin, settled' <= loginRevision',
         stored.client # 0 => settled' = settled,
         misses' \in 0..MaxMisses
  PROVE  LInv'
<1>1. LoginTypeOK'
  BY CommandTyped DEF LInv, LoginTypeOK
<1>2. \A q \in Processes : command'[q] = IF q = p THEN w ELSE command[q]
  BY DEF LInv, LoginTypeOK, Becomes
<1>3. \A q \in Processes : Fine(command[q])'
  <2> SUFFICES ASSUME NEW q \in Processes PROVE Fine(command[q])'
    OBVIOUS
  <2>1. Fine(command'[q]) /\ command'[q] \in CommandStates
    BY <1>2 DEF LInv, LoginTypeOK
  <2> QED
    BY <2>1 DEF Fine, CommandStates, LInv, LoginTypeOK
<1>4. Apart'
  BY <1>2 DEF LInv, Apart
<1>5. StoredFine'
  BY <1>2 DEF LInv, StoredFine, LoginTypeOK, Credential
<1>6. History'
  <2>1. lossy \subseteq Logins
    BY DEF LInv, LoginTypeOK
  <2> QED
    BY <2>1 DEF LInv, History, LoginTypeOK, Logins
<1>7. NewestStays' /\ OnlyLossesReplay'
  BY DEF LInv, NewestStays, OnlyLossesReplay
<1> QED
  BY <1>1, <1>3, <1>4, <1>5, <1>6, <1>7 DEF LInv

\* What the invariant says of one command.
LEMMA AtCommand ==
  ASSUME LInv, NEW p \in Processes
  PROVE  /\ command[p] \in CommandStates /\ Fine(command[p])
         /\ command[p].at \in Locked <=> lock = p
         /\ misses \in 0..MaxMisses /\ alive \subseteq Logins
         /\ loginRevision \in 0..MaxLogin /\ settled \in 0..MaxLogin /\ settled <= loginRevision
         /\ stored \in Credential /\ lock \in Processes \cup {Nobody}
BY DEF LInv, LoginTypeOK, History

LEMMA MissTyped == ASSUME LInv, Miss PROVE misses' \in 0..MaxMisses
BY DEF LInv, LoginTypeOK, Miss

LEMMA GivesUpStep ==
  ASSUME LInv, NEW p \in Processes, GivesUp(p)
  PROVE  LInv'
<1>1. command[p].at # "keep" /\ lock # p
  BY AtCommand DEF GivesUp, Locked, Unlocked
<1> QED
  BY <1>1, AtCommand, DoneFine, QuietLoginStep DEF GivesUp, Ends, hubSideVars, Locked

LEMMA CheckStep ==
  ASSUME LInv, NEW p \in Processes, Check(p) \/ Send(p)
  PROVE  LInv'
<1>1. command[p].at \in {"check", "send"} /\ lock # p
  BY AtCommand DEF Check, Send, Locked
<1>2. CASE Ends(p)
  BY <1>1, <1>2, AtCommand, DoneFine, QuietLoginStep DEF Check, Send, Ends, hubSideVars, Locked
<1>3. CASE \E next \in {"send", "refresh"}, f \in BOOLEAN :
             Becomes(p, [command[p] EXCEPT !.at = next, !.forced = f])
  <2>1. PICK w \in CommandStates :
          Becomes(p, w) /\ w.at \in {"send", "refresh"}
    <3>1. PICK next \in {"send", "refresh"}, f \in BOOLEAN :
            Becomes(p, [command[p] EXCEPT !.at = next, !.forced = f])
      BY <1>3
    <3>2. /\ [command[p] EXCEPT !.at = next, !.forced = f] \in CommandStates
          /\ [command[p] EXCEPT !.at = next, !.forced = f].at = next
      <4>1. command[p] \in CommandStates /\ next \in Locked \cup Unlocked
        BY AtCommand DEF Unlocked
      <4> QED
        BY <4>1 DEF CommandStates
    <3> QED
      BY <3>1, <3>2
  <2>2. Fine(w) /\ ~Beginning(w) /\ w.at \notin Locked
    BY <2>1 DEF Fine, Beginning, Locked
  <2> QED
    BY <1>1, <2>1, <2>2, AtCommand, QuietLoginStep DEF Check, Send, hubSideVars
<1> QED
  <2>1. CASE Check(p)
    <3>1. PICK next \in {"send", "refresh"} : Becomes(p, [command[p] EXCEPT !.at = next])
      BY <2>1 DEF Check
    <3>2. [command[p] EXCEPT !.at = next]
            = [command[p] EXCEPT !.at = next, !.forced = command[p].forced]
      BY AtCommand DEF CommandStates
    <3>3. command[p].forced \in BOOLEAN
      BY AtCommand DEF CommandStates
    <3> QED
      BY <1>3, <3>1, <3>2, <3>3
  <2>2. CASE Send(p)
    BY <1>2, <1>3, <2>2 DEF Send
  <2> QED
    BY <2>1, <2>2

LEMMA LoadLoginStep ==
  ASSUME LInv, NEW p \in Processes, LoadLogin(p)
  PROVE  LInv'
<1>1. PICK w \in CommandStates : Becomes(p, w) /\ w.at = "check"
  <2>1. [Done EXCEPT !.at = "check", !.client = stored.client, !.token = stored.token]
          \in CommandStates
    BY AtCommand DEF Done, CommandStates, Credential, Unlocked
  <2>2. [Done EXCEPT !.at = "check", !.client = stored.client, !.token = stored.token].at
          = "check"
    BY DEF Done
  <2> QED
    BY <2>1, <2>2 DEF LoadLogin
<1>2. Fine(w) /\ ~Beginning(w) /\ w.at \notin Locked
  BY <1>1 DEF Fine, Beginning, Locked
<1>3. command[p].at = "idle" /\ lock # p
  BY DEF LoadLogin, Done
<1> QED
  BY <1>1, <1>2, <1>3, AtCommand, QuietLoginStep DEF LoadLogin, hubSideVars

LEMMA BeginRefreshStep ==
  ASSUME LInv, NEW p \in Processes, BeginRefresh(p)
  PROVE  LInv'
<1>1. command[p].at = "refresh" /\ lock = Nobody /\ lock # p
      /\ UNCHANGED <<loginRevision, stored, hubSideVars, settled, lossy, misses>>
  BY DEF BeginRefresh
<1>2. CASE Ends(p) /\ lock' = lock
  BY <1>1, <1>2, AtCommand, DoneFine, QuietLoginStep DEF Ends, hubSideVars, Locked
<1>3. CASE /\ Becomes(p, [command[p] EXCEPT !.at = "send", !.token = stored.token])
           /\ lock' = lock
  <2>1. PICK w \in CommandStates : Becomes(p, w) /\ w.at = "send"
    <3>1. command[p] \in CommandStates /\ stored.token \in 0..MaxToken
      BY AtCommand DEF Credential
    <3>2. /\ [command[p] EXCEPT !.at = "send", !.token = stored.token] \in CommandStates
          /\ [command[p] EXCEPT !.at = "send", !.token = stored.token].at = "send"
      BY <3>1 DEF CommandStates, Unlocked
    <3> QED
      BY <1>3, <3>2
  <2>2. Fine(w) /\ ~Beginning(w) /\ w.at \notin Locked
    BY <2>1 DEF Fine, Beginning, Locked
  <2> QED
    BY <1>1, <1>3, <2>1, <2>2, AtCommand, QuietLoginStep DEF hubSideVars
<1>4. CASE /\ Becomes(p, [command[p] EXCEPT !.at = "rotate", !.token = stored.token])
           /\ stored.client = command[p].client /\ command[p].client \in renewable
           /\ lock' = p
  <2>1. command[p].client # 0
    BY <1>4 DEF LInv, LoginTypeOK, Logins
  <2>2. PICK w \in CommandStates :
          /\ Becomes(p, w)
          /\ w.at = "rotate" /\ w.client = command[p].client /\ w.token = stored.token
    <3>1. command[p] \in CommandStates /\ stored.token \in 0..MaxToken
      BY AtCommand DEF Credential
    <3>2. [command[p] EXCEPT !.at = "rotate", !.token = stored.token] \in CommandStates
      BY <3>1 DEF CommandStates, Locked
    <3>3. /\ [command[p] EXCEPT !.at = "rotate", !.token = stored.token].at = "rotate"
          /\ [command[p] EXCEPT !.at = "rotate", !.token = stored.token].client
               = command[p].client
          /\ [command[p] EXCEPT !.at = "rotate", !.token = stored.token].token = stored.token
      BY <3>1 DEF CommandStates
    <3> QED
      BY <1>4, <3>2, <3>3
  <2>3. Fine(w) /\ ~Beginning(w) /\ w.at \in Locked
    BY <1>4, <2>1, <2>2 DEF Fine, Beginning, Locked
  <2> QED
    BY <1>1, <1>4, <2>2, <2>3, AtCommand, QuietLoginStep DEF hubSideVars
<1> QED
  BY <1>2, <1>3, <1>4 DEF BeginRefresh

LEMMA RevokeStoredStep ==
  ASSUME LInv, NEW p \in Processes, RevokeStored(p)
  PROVE  LInv'
<1>1. lock = p /\ command[p].at = "leave" /\ alive' \subseteq Logins
  BY AtCommand DEF RevokeStored, Locked
<1>2. misses' \in 0..MaxMisses
  BY AtCommand, MissTyped DEF RevokeStored
<1>3. PICK w \in CommandStates : Becomes(p, w) /\ w.at = "delete"
  BY AtCommand DEF RevokeStored, CommandStates, Locked
<1>4. Fine(w) /\ ~Beginning(w) /\ w.at \in Locked
  BY <1>3 DEF Fine, Beginning, Locked
<1> QED
  BY <1>1, <1>2, <1>3, <1>4, AtCommand, QuietLoginStep DEF RevokeStored

LEMMA RevokeUnusedStep ==
  ASSUME LInv, NEW p \in Processes, RevokeUnused(p)
  PROVE  LInv'
<1>1. lock # p /\ command[p].at = "revoke" /\ alive' \subseteq Logins
  BY AtCommand DEF RevokeUnused, Locked
<1> QED
  BY <1>1, AtCommand, DoneFine, QuietLoginStep DEF RevokeUnused, Ends, Locked

LEMMA BeginLogoutStep ==
  ASSUME LInv, NEW p \in Processes, BeginLogout(p)
  PROVE  LInv'
<1>1. /\ command[p] = Done /\ command[p].at = "idle" /\ lock = Nobody /\ lock # p
      /\ loginRevision' = loginRevision + 1 /\ loginRevision < MaxLogin
      /\ UNCHANGED <<stored, hubSideVars, lossy>>
  BY DEF BeginLogout, Done
<1>2. loginRevision' \in 0..MaxLogin /\ loginRevision <= loginRevision'
      /\ settled <= loginRevision'
  BY <1>1, AtCommand
<1>3. CASE stored.client = 0 /\ settled' = loginRevision + 1 /\ UNCHANGED <<lock, command, misses>>
  <2>1. Becomes(p, Done)
    BY <1>1, <1>3 DEF Becomes, LInv, LoginTypeOK
  <2> QED
    BY <1>1, <1>2, <1>3, <2>1, AtCommand, DoneFine, QuietLoginStep DEF hubSideVars, Locked
<1>4. CASE /\ lock' = p /\ UNCHANGED settled
           /\ \/ /\ Becomes(p, [Done EXCEPT !.at = "leave", !.client = stored.client])
                 /\ UNCHANGED misses
              \/ Becomes(p, [Done EXCEPT !.at = "delete"]) /\ Miss
  <2>1. PICK w \in CommandStates : Becomes(p, w) /\ w.at \in {"leave", "delete"}
    <3>1. stored.client \in 0..MaxLogin
      BY AtCommand DEF Credential
    <3>2. /\ [Done EXCEPT !.at = "leave", !.client = stored.client] \in CommandStates
          /\ [Done EXCEPT !.at = "leave", !.client = stored.client].at = "leave"
      BY <3>1, DoneFine DEF CommandStates, Locked
    <3>3. /\ [Done EXCEPT !.at = "delete"] \in CommandStates
          /\ [Done EXCEPT !.at = "delete"].at = "delete"
      BY DoneFine DEF CommandStates, Locked
    <3> QED
      BY <1>4, <3>2, <3>3
  <2>2. Fine(w) /\ ~Beginning(w) /\ w.at \in Locked
    BY <2>1 DEF Fine, Beginning, Locked
  <2>3. misses' \in 0..MaxMisses
    BY <1>4, AtCommand, MissTyped
  <2> QED
    BY <1>1, <1>2, <1>4, <2>1, <2>2, <2>3, AtCommand, QuietLoginStep DEF hubSideVars
<1> QED
  BY <1>3, <1>4 DEF BeginLogout
----------------------------------------------------------------------------
(* Steps that begin, keep or give up a login. *)

\* Nothing stored or begun has the revision a login starts with.
LEMMA StartLoginStep ==
  ASSUME LInv, NEW p \in Processes, StartLogin(p)
  PROVE  LInv'
<1>1. /\ command[p] = Done /\ lock = Nobody /\ lock' = lock
      /\ loginRevision' = loginRevision + 1 /\ loginRevision < MaxLogin
      /\ UNCHANGED <<stored, newest, alive, renewable, late, replayed, settled, lossy, misses>>
  BY DEF StartLogin, hubSideVars
<1>2. PICK w \in CommandStates :
        /\ Becomes(p, w)
        /\ w.at = "approve" /\ w.client = loginRevision + 1
  <2>1. loginRevision + 1 \in 0..MaxLogin
    BY <1>1, AtCommand
  <2>2. [Done EXCEPT !.at = "approve", !.client = loginRevision + 1] \in CommandStates
    BY <2>1, DoneFine DEF CommandStates, Unlocked
  <2>3. /\ [Done EXCEPT !.at = "approve", !.client = loginRevision + 1].at = "approve"
        /\ [Done EXCEPT !.at = "approve", !.client = loginRevision + 1].client
             = loginRevision + 1
    BY <2>1, DoneFine DEF CommandStates
  <2> QED
    BY <2>2, <2>3 DEF StartLogin
<1>3. \A q \in Processes : command'[q] = IF q = p THEN w ELSE command[q]
  BY <1>2 DEF LInv, LoginTypeOK, Becomes
<1>4. loginRevision \in Nat /\ stored.client \in Nat /\ stored.client <= loginRevision
      /\ loginRevision' \in 0..MaxLogin
  BY <1>1, AtCommand DEF LInv, StoredFine, Credential
<1>5. LoginTypeOK'
  <2>1. w.at \in Locked <=> lock = p
    BY <1>1, <1>2 DEF Locked
  <2> QED
    BY <1>1, <1>2, <1>4, <2>1, CommandTyped DEF LInv, LoginTypeOK
<1>6. \A q \in Processes : Fine(command[q])'
  <2> SUFFICES ASSUME NEW q \in Processes PROVE Fine(command[q])'
    OBVIOUS
  <2>1. CASE q = p
    <3>1. loginRevision + 1 \notin lossy
      BY <1>4 DEF LInv, History
    <3> QED
      BY <1>1, <1>2, <1>3, <1>4, <2>1, <3>1 DEF Fine
  <2>2. CASE q # p
    <3>1. command'[q] = command[q] /\ Fine(command[q]) /\ command[q] \in CommandStates
      BY <1>3, <2>2, AtCommand
    <3>2. command[q].client \in Nat
      BY <3>1 DEF CommandStates
    <3> QED
      BY <1>1, <1>4, <3>1, <3>2 DEF Fine
  <2> QED
    BY <2>1, <2>2
<1>7. Apart'
  <2>1. \A q \in Processes : Beginning(command[q]) => command[q].client # loginRevision + 1
    BY <1>4, AtCommand DEF Fine, Beginning, CommandStates
  <2> QED
    BY <1>2, <1>3, <2>1 DEF LInv, Apart
<1>8. StoredFine'
  <2>1. \A q \in Processes : command[q].at = "keep" => command'[q].at = "keep"
    BY <1>1, <1>3, DoneFine
  <2> QED
    BY <1>1, <1>4, <2>1 DEF LInv, StoredFine
<1>9. History' /\ NewestStays' /\ OnlyLossesReplay'
  <2>1. lossy \subseteq Logins
    BY DEF LInv, LoginTypeOK
  <2> QED
    BY <1>1, <1>4, <2>1 DEF LInv, LoginTypeOK, Logins, History, NewestStays, OnlyLossesReplay
<1> QED
  BY <1>5, <1>6, <1>7, <1>8, <1>9 DEF LInv
\* Nobody else is inside a transaction.
LEMMA Alone ==
  ASSUME LInv, NEW p \in Processes, lock \in {p, Nobody}, NEW q \in Processes, q # p
  PROVE  command[q].at \notin Locked /\ command[q].at \notin {"rotate", "keep"}
BY DEF LInv, LoginTypeOK, Locked

\* Who approved a login gets its first token; nobody else has to do with it.
LEMMA ApprovedStep ==
  ASSUME LInv, NEW p \in Processes, Approved(p)
  PROVE  LInv'
<1> DEFINE c == command[p].client
<1>1. /\ command[p].at = "approve" /\ newest' = [newest EXCEPT ![c] = 1]
      /\ alive' = alive \cup {c} /\ renewable' \in {renewable, renewable \cup {c}}
      /\ UNCHANGED <<lock, loginRevision, stored, late, settled, lossy, replayed>>
  BY DEF Approved
<1>2. command[p] \in CommandStates /\ c # 0 /\ c \in Logins /\ c # stored.client /\ c \notin lossy
  BY <1>1, AtCommand DEF Fine, CommandStates, Logins
<1>3. misses' \in 0..MaxMisses
  BY AtCommand, MissTyped DEF Approved
<1>4. PICK w \in CommandStates :
        /\ Becomes(p, w)
        /\ w = Done \/ (w.at = "save" /\ w.client = c)
  <2>1. [command[p] EXCEPT !.at = "save", !.token = 1] \in CommandStates
    <3>1. 1 \in 0..MaxToken /\ command[p] \in CommandStates /\ "save" \in Locked \cup Unlocked
      BY <1>2 DEF Unlocked
    <3> QED
      BY <3>1 DEF CommandStates
  <2>2. /\ [command[p] EXCEPT !.at = "save", !.token = 1].at = "save"
        /\ [command[p] EXCEPT !.at = "save", !.token = 1].client = c
    BY <1>2 DEF CommandStates
  <2> HIDE DEF c
  <2> QED
    BY <2>1, <2>2, DoneFine DEF Approved, Ends
<1>5. \A q \in Processes : command'[q] = IF q = p THEN w ELSE command[q]
  BY <1>4 DEF LInv, LoginTypeOK, Becomes
<1>6. newest' \in [Logins -> 0..MaxToken] /\ newest'[c] = 1
      /\ \A d \in Logins : d # c => newest'[d] = newest[d]
  BY <1>1, <1>2 DEF LInv, LoginTypeOK
<1> HIDE DEF c
<1>7. LoginTypeOK'
  <2>1. lock # p /\ w.at \notin Locked
    BY <1>1, <1>4, AtCommand DEF Locked, Done
  <2>2. alive' \subseteq Logins /\ renewable' \subseteq Logins
    BY <1>1, <1>2 DEF LInv, LoginTypeOK
  <2> QED
    BY <1>1, <1>3, <1>4, <1>6, <2>1, <2>2, CommandTyped DEF LInv, LoginTypeOK
<1>8. \A q \in Processes : Fine(command[q])'
  <2> SUFFICES ASSUME NEW q \in Processes PROVE Fine(command[q])'
    OBVIOUS
  <2>1. CASE q = p
    <3>1. c <= loginRevision
      BY <1>1, AtCommand DEF Fine, c
    <3> QED
      BY <1>1, <1>2, <1>4, <1>5, <1>6, <2>1, <3>1 DEF Fine, Done
  <2>2. CASE q # p
    <3>1. command'[q] = command[q] /\ Fine(command[q]) /\ command[q] \in CommandStates
      BY <1>5, <2>2, AtCommand
    <3>2. Beginning(command[q]) => command[q].client \in Logins /\ command[q].client # c
      BY <1>1, <2>2, <3>1 DEF LInv, Apart, Beginning, Fine, c, CommandStates, Logins
    <3>3. command[q].at = "keep" => command[q].client \in Logins /\ command[q].client # c
      BY <1>2, <3>1 DEF Fine, CommandStates, Logins
    <3> QED
      BY <1>1, <1>6, <3>1, <3>2, <3>3 DEF Fine, Beginning
  <2> QED
    BY <2>1, <2>2
<1>9. Apart'
  BY <1>1, <1>4, <1>5, DoneFine DEF LInv, Apart, Beginning, c
<1>10. StoredFine'
  <2>1. \A q \in Processes : command[q].at = "keep" => command'[q].at = "keep"
    BY <1>1, <1>5
  <2>2. stored.client # 0 => stored.client \in Logins
    BY AtCommand DEF Credential, Logins
  <2> QED
    BY <1>1, <1>2, <1>6, <2>1, <2>2 DEF LInv, StoredFine
<1>11. History' /\ NewestStays' /\ OnlyLossesReplay'
  BY <1>1 DEF LInv, History, NewestStays, OnlyLossesReplay
<1> QED
  BY <1>7, <1>8, <1>9, <1>10, <1>11 DEF LInv

\* The store changes outside any rotation: what is saved is the last login begun,
\* or nothing is left.
LEMMA StoreLoginStep ==
  ASSUME LInv, NEW p \in Processes, NEW w \in CommandStates, Becomes(p, w),
         w.at \in {"idle", "revoke"}, Fine(w),
         \/ lock = p
         \/ lock = Nobody /\ command[p].at = "save" /\ command[p].client = loginRevision,
         lock' = Nobody,
         UNCHANGED <<loginRevision, newest, alive, renewable, late, replayed, lossy>>,
         command[p].at \notin {"rotate", "keep"},
         misses' \in 0..MaxMisses,
         settled' \in {settled, loginRevision},
         \/ stored' = stored /\ settled' = settled
         \/ stored' = NoCredential
         \/ /\ command[p].at = "save" /\ command[p].client = loginRevision
            /\ stored' = [client |-> command[p].client, token |-> 1]
  PROVE  LInv'
<1>1. \A q \in Processes : command'[q] = IF q = p THEN w ELSE command[q]
  BY DEF LInv, LoginTypeOK, Becomes
<1>2. stored \in Credential /\ stored' \in Credential /\ stored'.client \in Nat
  <2>1. command[p] \in CommandStates /\ NoCredential \in Credential
    BY AtCommand DEF NoCredential, Credential
  <2> QED
    BY <2>1, AtCommand DEF Credential, CommandStates
<1>3. \/ stored' = stored /\ settled' = settled
      \/ stored'.client = 0
      \/ /\ command[p].at = "save" /\ stored'.client = command[p].client
         /\ stored'.token = 1 /\ stored'.client = loginRevision
  BY DEF NoCredential
<1>4. LoginTypeOK'
  <2>1. w.at \notin Locked
    BY DEF Locked
  <2>2. (lock' = lock /\ lock # p) \/ lock = p
    BY DEF LInv, LoginTypeOK
  <2>3. settled' \in 0..MaxLogin
    BY AtCommand
  <2> QED
    BY <1>2, <2>1, <2>2, <2>3, CommandTyped DEF LInv, LoginTypeOK
<1>5. \A q \in Processes : Fine(command[q])'
  <2> SUFFICES ASSUME NEW q \in Processes PROVE Fine(command[q])'
    OBVIOUS
  <2>1. CASE q = p
    BY <1>1, <2>1 DEF Fine
  <2>2. CASE q # p
    <3>1. command'[q] = command[q] /\ Fine(command[q]) /\ command[q].at \notin {"rotate", "keep"}
      BY <1>1, <2>2, AtCommand, Alone
    <3>2. Beginning(command[q]) => command[q].client # stored'.client
      BY <1>3, <2>2, <3>1 DEF LInv, Apart, Beginning, Fine
    <3> QED
      BY <3>1, <3>2 DEF Fine, Beginning
  <2> QED
    BY <2>1, <2>2
<1>6. Apart'
  BY <1>1 DEF LInv, Apart, Beginning
<1>7. StoredFine'
  <2>1. \A q \in Processes : command[q].at # "keep"
    BY Alone
  <2>2. command[p].at = "save" => newest[command[p].client] = 1
    BY AtCommand DEF Fine
  <2> QED
    BY <1>2, <1>3, <2>1, <2>2, AtCommand DEF LInv, StoredFine
<1>8. History' /\ NewestStays' /\ OnlyLossesReplay'
  BY <1>2, <1>3, AtCommand DEF LInv, History, NewestStays, OnlyLossesReplay
<1> QED
  BY <1>4, <1>5, <1>6, <1>7, <1>8 DEF LInv
LEMMA SaveLoginStep ==
  ASSUME LInv, NEW p \in Processes, SaveLogin(p)
  PROVE  LInv'
<1>1. /\ command[p].at = "save" /\ lock = Nobody /\ lock' = lock
      /\ UNCHANGED <<loginRevision, newest, alive, renewable, late, replayed, lossy>>
  BY DEF SaveLogin, hubSideVars
<1>2. /\ [command[p] EXCEPT !.at = "revoke"] \in CommandStates
      /\ [command[p] EXCEPT !.at = "revoke"].at = "revoke"
      /\ [command[p] EXCEPT !.at = "revoke"].client = command[p].client
  BY AtCommand DEF CommandStates, Unlocked
<1>3. PICK w \in CommandStates :
        /\ Becomes(p, w) /\ w \in {Done, [command[p] EXCEPT !.at = "revoke"]}
        /\ \/ /\ loginRevision = command[p].client /\ settled' \in {settled, loginRevision}
              /\ \/ stored' = stored /\ settled' = settled
                 \/ stored' = [client |-> command[p].client, token |-> 1]
           \/ UNCHANGED <<stored, settled>> /\ w = [command[p] EXCEPT !.at = "revoke"]
  BY <1>2, DoneFine DEF SaveLogin, Ends
<1>4. w.at \in {"idle", "revoke"} /\ Fine(w) /\ ~Beginning(w) /\ w.at \notin Locked
  <2>1. CASE w = Done
    BY <2>1, DoneFine DEF Locked
  <2>2. CASE w.at = "revoke" /\ w.client = command[p].client
    BY <1>1, <2>2, AtCommand DEF Fine, Beginning, Locked
  <2> QED
    BY <1>2, <1>3, <2>1, <2>2
<1>5. misses' \in 0..MaxMisses
  BY AtCommand, MissTyped DEF SaveLogin
<1>6. CASE loginRevision = command[p].client /\ ~(stored' = stored /\ settled' = settled)
  <2>1. /\ settled' \in {settled, loginRevision}
        /\ stored' = [client |-> command[p].client, token |-> 1]
    BY <1>3, <1>6
  <2> QED
    BY <1>1, <1>3, <1>4, <1>5, <1>6, <2>1, StoreLoginStep
<1>7. CASE stored' = stored /\ settled' = settled
  <2>1. lock # p
    BY <1>1
  <2> QED
    BY <1>1, <1>3, <1>4, <1>5, <1>7, <2>1, AtCommand, QuietLoginStep
<1> QED
  BY <1>3, <1>6, <1>7

LEMMA DeleteStoredStep ==
  ASSUME LInv, NEW p \in Processes, DeleteStored(p)
  PROVE  LInv'
<1>1. lock = p /\ command[p].at = "delete"
  BY AtCommand DEF DeleteStored, Locked
<1> QED
  BY <1>1, AtCommand, DoneFine, StoreLoginStep DEF DeleteStored, Ends, hubSideVars

LEMMA LogoutFailsStep ==
  ASSUME LInv, NEW p \in Processes, LogoutFails(p)
  PROVE  LInv'
<1>1. lock = p /\ command[p].at \notin {"rotate", "keep"} /\ misses' \in 0..MaxMisses
  BY AtCommand, MissTyped DEF LogoutFails, Locked
<1>2. CASE UNCHANGED stored
  BY <1>1, <1>2, AtCommand, DoneFine, QuietLoginStep DEF LogoutFails, Ends, hubSideVars, Locked
<1>3. CASE stored' = NoCredential
  BY <1>1, <1>3, DoneFine, StoreLoginStep DEF LogoutFails, Ends, hubSideVars
<1> QED
  BY <1>2, <1>3 DEF LogoutFails

----------------------------------------------------------------------------
(* Rotations. *)

\* What the invariant says of a command that rotates or keeps a token: it is alone.
LEMMA Rotating ==
  ASSUME LInv, NEW p \in Processes, command[p].at \in {"rotate", "keep"}
  PROVE  /\ lock = p
         /\ command[p].client = stored.client /\ stored.client \in Logins
         /\ stored.client <= loginRevision
         /\ stored.token \in 1..MaxToken
         /\ command[p].at = "rotate" =>
              command[p].token = stored.token
              /\ (stored.client \in lossy \/ newest[stored.client] = stored.token)
         /\ command[p].at = "keep" =>
              command[p].token \in 1..MaxToken
              /\ (stored.client \in lossy \/ newest[stored.client] = command[p].token)
<1>1. lock = p
  BY AtCommand DEF Locked
<1>2. Fine(command[p]) /\ command[p] \in CommandStates /\ stored \in Credential
  BY AtCommand
<1>3. stored.client \in Logins /\ stored.token \in 1..MaxToken
  BY <1>2 DEF LInv, StoredFine, Fine, Credential, Logins
<1>4. \A q \in Processes : q # p => command[q].at # "keep"
  BY <1>1, Alone
<1>5. command[p].at = "rotate" =>
        (stored.client \in lossy \/ newest[stored.client] = stored.token)
  BY <1>3, <1>4 DEF LInv, StoredFine, Logins
<1>6. command[p].token \in 0..MaxToken
  BY <1>2 DEF CommandStates
<1>7. command[p].at = "keep" => command[p].token # 0
  BY <1>2 DEF Fine
<1>8. stored.client <= loginRevision
  BY DEF LInv, StoredFine
<1> QED
  BY <1>1, <1>2, <1>3, <1>5, <1>6, <1>7, <1>8 DEF Fine

LEMMA RotateStep ==
  ASSUME LInv, NEW p \in Processes, Rotate(p)
  PROVE  LInv'
<1> DEFINE c == stored.client
           t == stored.token
<1>1. /\ command[p].at = "rotate" /\ lock = p /\ command[p].client = c /\ c \in Logins
      /\ t \in 1..MaxToken /\ command[p].token = t /\ (c \in lossy \/ newest[c] = t)
      /\ UNCHANGED <<loginRevision, stored, renewable, late, settled, lossy, misses>>
  BY Rotating DEF Rotate
<1>2. CASE Refuses(c, t) /\ Ends(p) /\ lock' = Nobody
  <2>1. alive' \subseteq Logins /\ replayed' \subseteq Logins /\ replayed' \subseteq lossy
        /\ newest' = newest
    BY <1>1, <1>2 DEF Refuses, LInv, LoginTypeOK, OnlyLossesReplay
  <2>2. \A q \in Processes : command'[q] = IF q = p THEN Done ELSE command[q]
    BY <1>2 DEF LInv, LoginTypeOK, Becomes, Ends
  <2>3. LoginTypeOK'
    <3>1. Done.at \notin Locked
      BY DEF Done, Locked
    <3> QED
      BY <1>1, <1>2, <2>1, <3>1, DoneFine, CommandTyped DEF LInv, LoginTypeOK, Ends
  <2>4. \A q \in Processes : Fine(command[q])'
    BY <1>1, <2>1, <2>2, AtCommand, DoneFine DEF Fine
  <2>5. Apart'
    BY <2>2, DoneFine DEF LInv, Apart, Beginning
  <2>6. StoredFine'
    BY <1>1, <2>1 DEF LInv, StoredFine, Logins
  <2>7. History' /\ NewestStays' /\ OnlyLossesReplay'
    BY <1>1, <2>1 DEF LInv, History, NewestStays, OnlyLossesReplay
  <2> QED
    BY <2>3, <2>4, <2>5, <2>6, <2>7 DEF LInv
<1>3. CASE /\ Rotates(c, t) /\ lock' = lock
           /\ Becomes(p, [command[p] EXCEPT !.at = "keep", !.token = t + 1])
  <2>1. newest[c] = t /\ t + 1 \in 1..MaxToken /\ newest' = [newest EXCEPT ![c] = t + 1]
        /\ UNCHANGED <<alive, replayed>>
    BY <1>1, <1>3 DEF Rotates
  <2>2. PICK w \in CommandStates :
          Becomes(p, w) /\ w.at = "keep" /\ w.client = c /\ w.token = t + 1
    <3>1. command[p] \in CommandStates /\ t + 1 \in 0..MaxToken
      BY <2>1, AtCommand
    <3>2. [command[p] EXCEPT !.at = "keep", !.token = t + 1] \in CommandStates
      BY <3>1 DEF CommandStates, Locked
    <3>3. /\ [command[p] EXCEPT !.at = "keep", !.token = t + 1].at = "keep"
          /\ [command[p] EXCEPT !.at = "keep", !.token = t + 1].client = command[p].client
          /\ [command[p] EXCEPT !.at = "keep", !.token = t + 1].token = t + 1
      BY <3>1 DEF CommandStates
    <3> HIDE DEF c, t
    <3> QED
      BY <1>1, <1>3, <3>2, <3>3
  <2>3. \A q \in Processes : command'[q] = IF q = p THEN w ELSE command[q]
    BY <2>2 DEF LInv, LoginTypeOK, Becomes
  <2>4. newest' \in [Logins -> 0..MaxToken] /\ newest'[c] = t + 1
        /\ \A d \in Logins : d # c => newest'[d] = newest[d]
    BY <1>1, <2>1 DEF LInv, LoginTypeOK
  <2>5. LoginTypeOK'
    <3>1. w.at \in Locked
      BY <2>2 DEF Locked
    <3> QED
      BY <1>1, <1>3, <2>1, <2>2, <2>4, <3>1, CommandTyped DEF LInv, LoginTypeOK
  <2>6. \A q \in Processes : Fine(command[q])'
    <3> SUFFICES ASSUME NEW q \in Processes PROVE Fine(command[q])'
      OBVIOUS
    <3>1. CASE q = p
      <4>1. c # 0 /\ t + 1 # 0
        BY <1>1 DEF Logins
      <4> QED
        BY <1>1, <2>2, <2>3, <2>4, <3>1, <4>1 DEF Fine
    <3>2. CASE q # p
      <4>1. /\ command'[q] = command[q] /\ Fine(command[q]) /\ command[q] \in CommandStates
            /\ command[q].at \notin {"rotate", "keep"}
        BY <1>1, <2>3, <3>2, AtCommand, Alone
      <4>2. Beginning(command[q]) => command[q].client \in Logins /\ command[q].client # c
        BY <4>1 DEF Beginning, Fine, CommandStates, Logins
      <4> QED
        BY <1>1, <2>4, <4>1, <4>2 DEF Fine, Beginning
    <3> QED
      BY <3>1, <3>2
  <2>7. Apart'
    BY <2>2, <2>3 DEF LInv, Apart, Beginning
  <2>8. StoredFine'
    BY <1>1, <2>2, <2>3 DEF LInv, StoredFine, Logins
  <2>9. History' /\ NewestStays' /\ OnlyLossesReplay'
    BY <1>1, <2>1 DEF LInv, History, NewestStays, OnlyLossesReplay
  <2> QED
    BY <2>5, <2>6, <2>7, <2>8, <2>9 DEF LInv
<1> QED
  BY <1>1, <1>2, <1>3 DEF Rotate
\* From here on any use of this login's tokens may be taken for a theft.
LEMMA RotateFailsStep ==
  ASSUME LInv, NEW p \in Processes, RotateFails(p)
  PROVE  LInv'
<1> DEFINE c == stored.client
           r == [client |-> c, token |-> stored.token]
<1>1. /\ command[p].at = "rotate" /\ lock = p /\ lock' = Nobody
      /\ command[p].client = c /\ command[p].token = stored.token
      /\ c \in Logins /\ c <= loginRevision /\ stored.token \in 1..MaxToken
      /\ Becomes(p, Done)
      /\ UNCHANGED <<loginRevision, stored, newest, alive, renewable, settled, replayed>>
  BY Rotating DEF RotateFails, Ends
<1>2. misses' \in 0..MaxMisses
  BY AtCommand, MissTyped DEF RotateFails
<1>3. CASE UNCHANGED <<late, lossy>>
  BY <1>1, <1>2, <1>3, AtCommand, DoneFine, QuietLoginStep DEF Locked
<1>4. CASE late' = late \cup {r} /\ lossy' = lossy \cup {c}
  <2>1. \A q \in Processes : command'[q] = IF q = p THEN Done ELSE command[q]
    BY <1>1 DEF LInv, LoginTypeOK, Becomes
  <2>2. LoginTypeOK'
    <3>1. Done.at \notin Locked
      BY DEF Done, Locked
    <3>2. late' \subseteq [client: Logins, token: 1..MaxToken] /\ lossy' \subseteq Logins
      BY <1>1, <1>4 DEF LInv, LoginTypeOK
    <3> QED
      BY <1>1, <1>2, <3>1, <3>2, DoneFine, CommandTyped DEF LInv, LoginTypeOK
  <2>3. \A q \in Processes : Fine(command[q])'
    BY <1>1, <1>4, <2>1, AtCommand, DoneFine DEF Fine
  <2>4. Apart'
    BY <2>1, DoneFine DEF LInv, Apart, Beginning
  <2>5. StoredFine'
    BY <1>1, <1>4 DEF LInv, StoredFine, Logins
  <2>6. History' /\ NewestStays' /\ OnlyLossesReplay'
    <3>1. \A d \in lossy' : d <= loginRevision'
      BY <1>1, <1>4 DEF LInv, History
    <3>2. \A u \in late' : u.client \in lossy'
      BY <1>4 DEF LInv, History
    <3> QED
      BY <1>1, <1>4, <3>1, <3>2 DEF LInv, History, NewestStays, OnlyLossesReplay
  <2> QED
    BY <2>2, <2>3, <2>4, <2>5, <2>6 DEF LInv
<1> QED
  BY <1>1, <1>3, <1>4 DEF RotateFails

LEMMA KeepTokenStep ==
  ASSUME LInv, NEW p \in Processes, KeepToken(p)
  PROVE  LInv'
<1> DEFINE c == stored.client
           own == [client |-> c, token |-> command[p].token]
<1>1. /\ command[p].at = "keep" /\ lock = p /\ lock' = Nobody /\ command[p].client = c
      /\ c \in Logins /\ c <= loginRevision /\ stored.token \in 1..MaxToken
      /\ command[p].token \in 1..MaxToken
      /\ c \in lossy \/ newest[c] = command[p].token
      /\ UNCHANGED <<loginRevision, newest, alive, renewable, late, replayed, settled>>
  BY Rotating DEF KeepToken, hubSideVars
<1>2. misses' \in 0..MaxMisses
  BY AtCommand, MissTyped DEF KeepToken
<1>3. /\ [command[p] EXCEPT !.at = "send"] \in CommandStates
      /\ [command[p] EXCEPT !.at = "send"].at = "send"
  BY AtCommand DEF CommandStates, Unlocked
<1>4. PICK w \in CommandStates :
        /\ Becomes(p, w) /\ w.at \in {"idle", "send"}
        /\ \/ stored' = own /\ lossy' = lossy
           \/ stored' \in {stored, own} /\ lossy' = lossy \cup {c}
  BY <1>1, <1>3, DoneFine DEF KeepToken, Ends
<1>5. \A q \in Processes : command'[q] = IF q = p THEN w ELSE command[q]
  BY <1>4 DEF LInv, LoginTypeOK, Becomes
<1>6. /\ stored' \in Credential /\ stored'.client = c /\ stored'.token # 0
      /\ lossy' \in {lossy, lossy \cup {c}}
      /\ c \in lossy' \/ (newest[c] = stored'.token /\ stored' = own)
  BY <1>1, <1>4, AtCommand DEF Credential, Logins
<1>7. LoginTypeOK'
  <2>1. w.at \notin Locked
    BY <1>4 DEF Locked
  <2>2. lossy' \subseteq Logins
    BY <1>1, <1>6 DEF LInv, LoginTypeOK
  <2> QED
    BY <1>1, <1>2, <1>4, <1>6, <2>1, <2>2, CommandTyped DEF LInv, LoginTypeOK
<1>8. \A q \in Processes : Fine(command[q])'
  <2> SUFFICES ASSUME NEW q \in Processes PROVE Fine(command[q])'
    OBVIOUS
  <2>1. CASE q = p
    BY <1>4, <1>5, <2>1 DEF Fine
  <2>2. CASE q # p
    <3>1. /\ command'[q] = command[q] /\ Fine(command[q])
          /\ command[q].at \notin {"rotate", "keep"}
      BY <1>1, <1>5, <2>2, AtCommand, Alone
    <3> QED
      BY <1>1, <1>6, <3>1 DEF Fine
  <2> QED
    BY <2>1, <2>2
<1>9. Apart'
  BY <1>4, <1>5 DEF LInv, Apart, Beginning
<1>10. StoredFine'
  BY <1>1, <1>6 DEF StoredFine
<1>11. History' /\ NewestStays' /\ OnlyLossesReplay'
  <2>1. \A d \in lossy' : d <= loginRevision'
    BY <1>1, <1>6 DEF LInv, History
  <2> QED
    BY <1>1, <1>6, <2>1 DEF LInv, History, NewestStays, OnlyLossesReplay
<1> QED
  BY <1>7, <1>8, <1>9, <1>10, <1>11 DEF LInv

LEMMA LateUseStep ==
  ASSUME LInv, LateUse
  PROVE  LInv'
<1>1. PICK r \in late :
        /\ late' = late \ {r}
        /\ Rotates(r.client, r.token) \/ Refuses(r.client, r.token)
        /\ UNCHANGED <<lock, loginRevision, stored, command, renewable, settled, lossy, misses>>
  BY DEF LateUse
<1>2. r.client \in lossy /\ r.client \in Logins /\ r.token \in 1..MaxToken
  BY DEF LInv, LoginTypeOK, History
<1>3. /\ newest' \in [Logins -> 0..MaxToken] /\ alive' \subseteq Logins
      /\ replayed' \subseteq Logins /\ replayed' \subseteq lossy
      /\ \A d \in Logins : d \notin lossy => newest'[d] = newest[d]
  <2>1. CASE Rotates(r.client, r.token)
    <3>1. r.token + 1 \in 0..MaxToken
      BY <1>2, <2>1 DEF Rotates
    <3> QED
      BY <1>2, <2>1, <3>1 DEF Rotates, LInv, LoginTypeOK, OnlyLossesReplay
  <2>2. CASE Refuses(r.client, r.token)
    BY <1>2, <2>2 DEF Refuses, LInv, LoginTypeOK, OnlyLossesReplay
  <2> QED
    BY <1>1, <2>1, <2>2
<1>4. LoginTypeOK'
  BY <1>1, <1>3 DEF LInv, LoginTypeOK
<1>5. \A q \in Processes : Fine(command[q])'
  <2> SUFFICES ASSUME NEW q \in Processes PROVE Fine(command[q])'
    OBVIOUS
  <2>1. Fine(command[q]) /\ command[q] \in CommandStates
    BY AtCommand
  <2>2. command[q].client # 0 => command[q].client \in Logins
    BY <2>1 DEF CommandStates, Logins
  <2> QED
    BY <1>1, <1>3, <2>1, <2>2 DEF Fine
<1>6. Apart'
  BY <1>1 DEF LInv, Apart
<1>7. StoredFine'
  <2>1. stored.client # 0 => stored.client \in Logins
    BY DEF LInv, LoginTypeOK, Credential, Logins
  <2> QED
    BY <1>1, <1>3, <2>1 DEF LInv, StoredFine
<1>8. History' /\ NewestStays' /\ OnlyLossesReplay'
  BY <1>1, <1>3 DEF LInv, History, NewestStays, OnlyLossesReplay
<1> QED
  BY <1>4, <1>5, <1>6, <1>7, <1>8 DEF LInv

----------------------------------------------------------------------------
LEMMA NextLInv == LInv /\ [LoginNext]_loginVars => LInv'
<1> SUFFICES ASSUME LInv, [LoginNext]_loginVars PROVE LInv'
  OBVIOUS
<1>1. ASSUME NEW p \in Processes,
             \/ StartLogin(p) \/ Approved(p) \/ SaveLogin(p) \/ RevokeUnused(p)
             \/ BeginLogout(p) \/ RevokeStored(p) \/ DeleteStored(p) \/ LogoutFails(p)
      PROVE  LInv'
  BY <1>1, StartLoginStep, ApprovedStep, SaveLoginStep, RevokeUnusedStep, BeginLogoutStep,
     RevokeStoredStep, DeleteStoredStep, LogoutFailsStep
<1>2. ASSUME NEW p \in Processes,
             \/ LoadLogin(p) \/ Check(p) \/ BeginRefresh(p) \/ Rotate(p) \/ RotateFails(p)
             \/ KeepToken(p) \/ Send(p) \/ GivesUp(p)
      PROVE  LInv'
  BY <1>2, LoadLoginStep, CheckStep, BeginRefreshStep, RotateStep, RotateFailsStep,
     KeepTokenStep, GivesUpStep
<1>3. CASE UNCHANGED loginVars
  BY <1>3 DEF loginVars, hubSideVars, LInv, LoginTypeOK, Fine, Apart, Beginning, StoredFine,
     History, NewestStays, OnlyLossesReplay
<1> QED
  BY <1>1, <1>2, <1>3, LateUseStep DEF LoginNext

\* The state stays typed; in particular a transaction holds the lock as long as it
\* lasts, and nobody else is in one (hub_auth_lock.go:142).
THEOREM LoginTyped == LoginSpec => []LoginTypeOK
<1>1. LInv => LoginTypeOK
  BY DEF LInv
<1> QED
  BY InitLInv, NextLInv, <1>1, PTL DEF LoginSpec

\* What is stored is never older than the last login saved or logout run
\* (hub_cli.go:373).
THEOREM Newest == LoginSpec => []NewestStays
<1>1. LInv => NewestStays
  BY DEF LInv
<1> QED
  BY InitLInv, NextLInv, <1>1, PTL DEF LoginSpec

\* The Hub takes no login for stolen unless a use of its refresh token was not
\* seen through (hub_cli.go:801).
THEOREM Replays == LoginSpec => []OnlyLossesReplay
<1>1. LInv => OnlyLossesReplay
  BY DEF LInv
<1> QED
  BY InitLInv, NextLInv, <1>1, PTL DEF LoginSpec
=============================================================================
