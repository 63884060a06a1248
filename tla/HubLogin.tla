------------------------------ MODULE HubLogin ------------------------------
(***************************************************************************)
(* The login of the `coslash hub` commands.  Every command is a process of *)
(* its own; they share one stored credential and one lock file, which also *)
(* holds a revision that a login advances when it starts and a logout when *)
(* it runs.  The Hub hands out a new refresh token with every use of the   *)
(* last one and takes the use of an older one for a theft: it revokes the  *)
(* whole login.  Commands are killed and requests get lost, or arrive when *)
(* the command that sent them has given up.                                *)
(***************************************************************************)
EXTENDS Naturals

CONSTANTS Processes,
          Nobody,       \* holds the lock
          MaxLogin,     \* logins and logouts of a run
          MaxToken,     \* refresh tokens of a login
          MaxMisses     \* lost requests and answers, failed stores, killed transactions

ASSUME LoginAssumption ==
  Nobody \notin Processes /\ MaxLogin \in Nat \ {0} /\ MaxToken \in Nat \ {0} /\ MaxMisses \in Nat

VARIABLES lock,           \* who holds agent-access.lock
          loginRevision,  \* what is written in it
          stored,         \* the credential in the store
          command,        \* what each process does
          newest,         \* Hub: the last token of each login
          alive,          \* Hub: logins that are not revoked
          renewable,      \* Hub: logins it gave a refresh token
          late,           \* uses of a refresh token nobody waits for any more
          settled,        \* the last login that was saved or logout that deleted
          lossy,          \* logins a use of whose refresh token was not seen through
          replayed,       \* logins the Hub revoked for an old token
          misses          \* so far

hubSideVars == <<newest, alive, renewable, late, replayed>>
loginVars == <<lock, loginRevision, stored, command, hubSideVars, settled, lossy, misses>>

\* Every login registers a client of its own: it is known by the revision it
\* started with.  The tokens of a login are counted.
Logins == 1..MaxLogin
Credential == [client: 0..MaxLogin, token: 0..MaxToken]
NoCredential == [client |-> 0, token |-> 0]

\* Inside a transaction that waits for the Hub; the other stages are outside.
Locked == {"rotate", "keep", "leave", "delete"}
Unlocked == {"idle", "approve", "save", "revoke", "check", "refresh", "send"}
CommandStates ==
  [at: Locked \cup Unlocked, client: 0..MaxLogin, token: 0..MaxToken, forced: BOOLEAN]
Done == [at |-> "idle", client |-> 0, token |-> 0, forced |-> FALSE]

LoginTypeOK ==
  /\ lock \in Processes \cup {Nobody}
  /\ loginRevision \in 0..MaxLogin
  /\ stored \in Credential
  /\ command \in [Processes -> CommandStates]
  /\ \A p \in Processes : command[p].at \in Locked <=> lock = p
  /\ newest \in [Logins -> 0..MaxToken]
  /\ alive \subseteq Logins /\ renewable \subseteq Logins
  /\ late \subseteq [client: Logins, token: 1..MaxToken]
  /\ settled \in 0..MaxLogin
  /\ lossy \subseteq Logins /\ replayed \subseteq Logins
  /\ misses \in 0..MaxMisses

LoginInit ==
  /\ lock = Nobody
  /\ loginRevision = 0
  /\ stored = NoCredential
  /\ command = [p \in Processes |-> Done]
  /\ newest = [c \in Logins |-> 0]
  /\ alive = {} /\ renewable = {} /\ late = {}
  /\ settled = 0
  /\ lossy = {} /\ replayed = {}
  /\ misses = 0

Miss == misses < MaxMisses /\ misses' = misses + 1
Becomes(p, w) == command' = [command EXCEPT ![p] = w]
Ends(p) == Becomes(p, Done)

----------------------------------------------------------------------------
(* login. *)

\* The revision advances before the person is asked.
StartLogin(p) ==
  /\ command[p] = Done /\ lock = Nobody /\ loginRevision < MaxLogin
  /\ loginRevision' = loginRevision + 1
  /\ Becomes(p, [Done EXCEPT !.at = "approve", !.client = loginRevision + 1])
  /\ UNCHANGED <<lock, stored, hubSideVars, settled, lossy, misses>>

\* pollDeviceToken: the person agrees, and the tokens arrive or not.
Approved(p) ==
  LET c == command[p].client
  IN  /\ command[p].at = "approve"
      /\ newest' = [newest EXCEPT ![c] = 1]
      /\ alive' = alive \cup {c}
      /\ renewable' \in {renewable, renewable \cup {c}}
      /\ \/ Becomes(p, [command[p] EXCEPT !.at = "save", !.token = 1]) /\ UNCHANGED misses
         \/ Ends(p) /\ Miss
      /\ UNCHANGED <<lock, loginRevision, stored, late, settled, lossy, replayed>>

\* Mutant of SaveLogin: whoever is approved last is saved.
SaveAnyway(p) ==
  LET c == command[p].client
  IN  /\ command[p].at = "save" /\ lock = Nobody
      /\ stored' = [client |-> c, token |-> 1]
      /\ settled' = IF settled < c THEN c ELSE settled
      /\ Ends(p)
      /\ UNCHANGED <<lock, loginRevision, hubSideVars, lossy, misses>>

\* The credential is saved and read back, unless another login or logout began.
SaveLogin(p) ==
  LET c == command[p].client
      own == [client |-> c, token |-> 1]
  IN  /\ command[p].at = "save" /\ lock = Nobody
      /\ \/ /\ loginRevision = c
            /\ stored' = own /\ settled' = c
            /\ Ends(p) /\ UNCHANGED misses
         \/ /\ loginRevision = c /\ Miss
            /\ stored' \in {stored, own}
            /\ Becomes(p, [command[p] EXCEPT !.at = "revoke"])
            /\ UNCHANGED settled
         \/ /\ loginRevision # c
            /\ Becomes(p, [command[p] EXCEPT !.at = "revoke"])
            /\ UNCHANGED <<stored, settled, misses>>
      /\ UNCHANGED <<lock, loginRevision, hubSideVars, lossy>>

\* revokeBestEffort; a request that is lost is a command that ends.
RevokeUnused(p) ==
  /\ command[p].at = "revoke"
  /\ alive' = alive \ {command[p].client}
  /\ Ends(p)
  /\ UNCHANGED <<lock, loginRevision, stored, newest, renewable, late, settled, lossy, replayed,
                 misses>>

----------------------------------------------------------------------------
(* logout. *)

\* The revision advances and the credential is read, if it can be.
BeginLogout(p) ==
  /\ command[p] = Done /\ lock = Nobody /\ loginRevision < MaxLogin
  /\ loginRevision' = loginRevision + 1
  /\ \/ stored.client = 0 /\ UNCHANGED misses
        /\ settled' = loginRevision + 1 /\ UNCHANGED <<lock, command>>
     \/ /\ stored.client # 0
        /\ \/ /\ Becomes(p, [Done EXCEPT !.at = "leave", !.client = stored.client])
              /\ UNCHANGED misses
           \/ Becomes(p, [Done EXCEPT !.at = "delete"]) /\ Miss
        /\ lock' = p /\ UNCHANGED settled
  /\ UNCHANGED <<stored, hubSideVars, lossy>>

\* The login is revoked, or Hub does not hear of it.
RevokeStored(p) ==
  /\ command[p].at = "leave"
  /\ \/ alive' = alive \ {command[p].client} /\ UNCHANGED misses
     \/ Miss /\ UNCHANGED alive
  /\ Becomes(p, [command[p] EXCEPT !.at = "delete"])
  /\ UNCHANGED <<lock, loginRevision, stored, newest, renewable, late, settled, lossy, replayed>>

DeleteStored(p) ==
  /\ command[p].at = "delete"
  /\ stored' = NoCredential /\ settled' = loginRevision
  /\ lock' = Nobody /\ Ends(p)
  /\ UNCHANGED <<loginRevision, hubSideVars, lossy, misses>>

\* The store refuses, or the command is killed before or after it deleted.
LogoutFails(p) ==
  /\ command[p].at \in {"leave", "delete"} /\ Miss
  /\ UNCHANGED stored \/ (command[p].at = "delete" /\ stored' = NoCredential)
  /\ lock' = Nobody /\ Ends(p)
  /\ UNCHANGED <<loginRevision, hubSideVars, settled, lossy>>

----------------------------------------------------------------------------
(* A request of another command: tools, search, call, status. *)

LoadLogin(p) ==
  /\ command[p] = Done /\ lock = Nobody /\ stored.client # 0
  /\ Becomes(p, [Done EXCEPT !.at = "check", !.client = stored.client, !.token = stored.token])
  /\ UNCHANGED <<lock, loginRevision, stored, hubSideVars, settled, lossy, misses>>

\* Whether an access token is still fresh is left open.
Check(p) ==
  /\ command[p].at = "check"
  /\ \E next \in {"send", "refresh"} : Becomes(p, [command[p] EXCEPT !.at = next])
  /\ UNCHANGED <<lock, loginRevision, stored, hubSideVars, settled, lossy, misses>>

\* Mutant of BeginRefresh: what the command read before is used.
RefreshFromSnapshot(p) ==
  /\ command[p].at = "refresh" /\ lock = Nobody
  /\ stored.client = command[p].client /\ command[p].client \in renewable
  /\ lock' = p /\ Becomes(p, [command[p] EXCEPT !.at = "rotate"])
  /\ UNCHANGED <<loginRevision, stored, hubSideVars, settled, lossy, misses>>

\* refreshIfNeeded: what is stored now decides.
BeginRefresh(p) ==
  LET c == command[p].client
  IN  /\ command[p].at = "refresh" /\ lock = Nobody
      /\ \/ /\ stored.client # c \/ c \notin renewable
            /\ Ends(p) /\ UNCHANGED lock
         \/ /\ stored.client = c /\ stored.token # command[p].token
            /\ Becomes(p, [command[p] EXCEPT !.at = "send", !.token = stored.token])
            /\ UNCHANGED lock
         \/ /\ stored.client = c /\ c \in renewable
            /\ Becomes(p, [command[p] EXCEPT !.at = "rotate", !.token = stored.token])
            /\ lock' = p
      /\ UNCHANGED <<loginRevision, stored, hubSideVars, settled, lossy, misses>>

\* Hub: a use of token t of login c.
Rotates(c, t) ==
  /\ c \in alive /\ newest[c] = t /\ t < MaxToken
  /\ newest' = [newest EXCEPT ![c] = t + 1]
  /\ UNCHANGED <<alive, replayed>>
Refuses(c, t) ==
  /\ c \notin alive \/ newest[c] # t
  /\ alive' = alive \ {c}
  /\ replayed' = IF c \in alive THEN replayed \cup {c} ELSE replayed
  /\ UNCHANGED newest

\* rotateCredentialInTransaction, up to the answer.
Rotate(p) ==
  LET c == command[p].client
      t == command[p].token
  IN  /\ command[p].at = "rotate"
      /\ \/ /\ Rotates(c, t)
            /\ Becomes(p, [command[p] EXCEPT !.at = "keep", !.token = t + 1])
            /\ UNCHANGED lock
         \/ Refuses(c, t) /\ Ends(p) /\ lock' = Nobody
      /\ UNCHANGED <<loginRevision, stored, renewable, late, settled, lossy, misses>>

\* The command is killed or gives up; its request was not handled, or is under
\* way and will be answered in vain.
RotateFails(p) ==
  LET c == command[p].client
  IN  /\ command[p].at = "rotate" /\ Miss
      /\ \/ UNCHANGED <<late, lossy>>
         \/ /\ late' = late \cup {[client |-> c, token |-> command[p].token]}
            /\ lossy' = lossy \cup {c}
      /\ lock' = Nobody /\ Ends(p)
      /\ UNCHANGED <<loginRevision, stored, newest, alive, renewable, settled, replayed>>

KeepToken(p) ==
  LET c == command[p].client
      own == [client |-> c, token |-> command[p].token]
  IN  /\ command[p].at = "keep"
      /\ \/ /\ stored' = own
            /\ Becomes(p, [command[p] EXCEPT !.at = "send"])
            /\ UNCHANGED <<lossy, misses>>
         \/ /\ Miss
            /\ stored' \in {stored, own}
            /\ lossy' = lossy \cup {c}
            /\ Ends(p)
      /\ lock' = Nobody
      /\ UNCHANGED <<loginRevision, hubSideVars, settled>>

\* sendMCP: an answer, or a first 401.
Send(p) ==
  /\ command[p].at = "send"
  /\ \/ Ends(p)
     \/ /\ ~command[p].forced
        /\ Becomes(p, [command[p] EXCEPT !.at = "refresh", !.forced = TRUE])
  /\ UNCHANGED <<lock, loginRevision, stored, hubSideVars, settled, lossy, misses>>

----------------------------------------------------------------------------
\* A command outside the lock fails or is killed.
GivesUp(p) ==
  /\ command[p] # Done /\ command[p].at \in Unlocked
  /\ Ends(p)
  /\ UNCHANGED <<lock, loginRevision, stored, hubSideVars, settled, lossy, misses>>

LateUse ==
  \E r \in late :
    /\ late' = late \ {r}
    /\ Rotates(r.client, r.token) \/ Refuses(r.client, r.token)
    /\ UNCHANGED <<lock, loginRevision, stored, command, renewable, settled, lossy, misses>>

LoginNext ==
  \/ \E p \in Processes :
       \/ StartLogin(p) \/ Approved(p) \/ SaveLogin(p) \/ RevokeUnused(p)
       \/ BeginLogout(p) \/ RevokeStored(p) \/ DeleteStored(p) \/ LogoutFails(p)
       \/ LoadLogin(p) \/ Check(p) \/ BeginRefresh(p) \/ Rotate(p) \/ RotateFails(p)
       \/ KeepToken(p) \/ Send(p) \/ GivesUp(p)
  \/ LateUse

LoginSpec == LoginInit /\ [][LoginNext]_loginVars

----------------------------------------------------------------------------
(* Properties. *)

\* What is stored is never older than the last login that was saved or logout
\* that ran: a slow approval or a refresh brings nothing back
\* (docs/implementation-notes.md:73).
NewestStays == stored.client # 0 => settled <= stored.client

\* However many commands find their token expired at once, the Hub sees an old
\* refresh token only of a login whose token was lost on the way (hub_cli.go:801,
\* docs/implementation-notes.md:90).
OnlyLossesReplay == replayed \subseteq lossy
=============================================================================
