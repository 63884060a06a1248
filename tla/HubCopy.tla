------------------------------ MODULE HubCopy ------------------------------
(***************************************************************************)
(* What session sync promises, without queues, passes or uploads: the Hub  *)
(* accepts contents of a session no newer than its source, and Local calls *)
(* a source version synced only when the Hub has accepted content at least *)
(* as new.  Local may withdraw such a claim at any time and start over.    *)
(***************************************************************************)
EXTENDS Integers

CONSTANTS Sessions, MaxVersion

VARIABLES source,    \* the version each source is at
          accepted,  \* the contents the Hub ever accepted
          claimed    \* the version Local calls synced; 0: none

vars == <<source, accepted, claimed>>
Versions == 1..MaxVersion

Init == /\ source = [s \in Sessions |-> 1]
        /\ accepted = [s \in Sessions |-> {}]
        /\ claimed = [s \in Sessions |-> 0]

Change(s) ==
  /\ source[s] < MaxVersion
  /\ source' = [source EXCEPT ![s] = @ + 1]
  /\ UNCHANGED <<accepted, claimed>>

Accept(s, v) ==
  /\ v <= source[s]
  /\ accepted' = [accepted EXCEPT ![s] = @ \cup {v}]
  /\ UNCHANGED <<source, claimed>>

Claim(s, v) ==
  /\ \E w \in accepted[s] : v <= w
  /\ claimed' = [claimed EXCEPT ![s] = v]
  /\ UNCHANGED <<source, accepted>>

Withdraw(which) ==
  /\ claimed' = [s \in Sessions |-> IF s \in which THEN 0 ELSE claimed[s]]
  /\ UNCHANGED <<source, accepted>>

\* Another Hub takes over: nothing is accepted there yet.
Replace ==
  /\ accepted' = [s \in Sessions |-> {}]
  /\ claimed' = [s \in Sessions |-> 0]
  /\ UNCHANGED source

Next == \/ \E s \in Sessions : Change(s)
        \/ \E s \in Sessions, v \in Versions : Accept(s, v) \/ Claim(s, v)
        \/ \E which \in SUBSET Sessions : Withdraw(which)
        \/ Replace

Spec == Init /\ [][Next]_vars
=============================================================================
