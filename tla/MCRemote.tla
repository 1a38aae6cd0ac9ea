-------------------------------- MODULE MCRemote --------------------------------
(* Instances of the components of managed nodes and relays: the addresses of a  *)
(* node's relay pools (RelayPool), a server's enrolment (Enrolment) and the     *)
(* calls to a node (RemoteCall).  They share no variable: a behaviour moves one *)
(* of them and leaves the others in their initial states.                       *)
EXTENDS RelayPool, Enrolment, RemoteCall

VARIABLE part    \* the component that moves

allvars == <<part, relayvars, enrolvars, callvars>>

RemoteInit ==
  /\ part \in {"relay", "enrol", "call"}
  /\ RelayInit /\ EnrolInit /\ CallInit

Relaying == part = "relay" /\ RelayNext /\ UNCHANGED <<part, enrolvars, callvars>>
\* Servers differ in nothing but their number: the first of them is the first to have
\* a file.
Enrolling ==
  /\ part = "enrol" /\ EnrolNext /\ UNCHANGED <<part, relayvars, callvars>>
  /\ \A m, n \in Machines : m < n /\ file'[n] # 0 => file[m] # 0
\* Calls differ in nothing but their number: they are made in its order.
Asking ==
  /\ part = "call" /\ CallNext /\ UNCHANGED <<part, relayvars, enrolvars>>
  /\ \A c, d \in Calls : c < d /\ call'[d] # NoCall => call[c] # NoCall

RemoteNext == Relaying \/ Enrolling \/ Asking

\* In their initial state relay pools have no step that must be taken, so that the
\* fairness is void where they stand still.
RemoteSpec == RemoteInit /\ [][RemoteNext]_allvars /\ RelayFairness

\* A pool of two items and one of one.
TwoAndOne == [p \in Pools |-> IF p = "p" THEN 2 ELSE 1]

(* The type invariants of the three. *)
RemoteTypeOK == RelayTypeOK /\ EnrolTypeOK /\ CallTypeOK
===============================================================================
