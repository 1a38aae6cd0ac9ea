------------------------------ MODULE Enrolment ------------------------------
(***************************************************************************)
(* How a server becomes a managed node (service/agent.go,                  *)
(* service/agent_pairing.go, api/agentHandler.go).                         *)
(*                                                                         *)
(* The controller keeps one row per node, with the hash of its token and   *)
(* of its pairing code.  The other server is sent a link with a pairing    *)
(* code, or with the enrolment key all servers share; it exchanges it for  *)
(* a token, tries the token once, writes the agent's environment file and  *)
(* restarts the agent.  Credentials are numbered in the order they are     *)
(* drawn (newAgentToken: 32 random bytes), 0 is none, and a hash stands    *)
(* for the credential it is of.                                            *)
(*                                                                         *)
(* Bounds: MaxCreds credentials are drawn in a behaviour.                  *)
(***************************************************************************)
EXTENDS Naturals, FiniteSets

CONSTANTS
    Nodes,      \* ids of agent_nodes rows, never used twice
    Machines,   \* servers with an agent
    Connects,   \* ConnectLocalController calls, each on a server of its own choice
    MaxCreds

ASSUME EnrolAssumption == Machines # {} /\ 0 \notin Nodes /\ MaxCreds \in Nat

VARIABLES
    nodes,      \* the agent_nodes table
    born,       \* ids that were given out
    key,        \* the enrolment key in the settings table
    drawn,      \* number of credentials drawn so far
    link,       \* what each ConnectLocalController call is doing
    beat,       \* the heartbeat of each server's agent, while it is handled
    file,       \* the token in each server's environment file
    service,    \* the token its agent service runs with, 0 when it is stopped
    broken      \* servers whose last restart of the agent failed

enrolvars == <<nodes, born, key, drawn, link, beat, file, service, broken>>

Creds == 0 .. MaxCreds

(* open is that the code is in its 15 minutes, by the token of the last    *)
(* report, late that the token was replaced while a report of the node was *)
(* being handled.                                                          *)
Absent == [token |-> 0, code |-> 0, open |-> FALSE, seen |-> FALSE, by |-> 0, late |-> FALSE]
NoLink == [at |-> "idle", machine |-> CHOOSE m \in Machines : TRUE,
           cred |-> 0, node |-> 0, token |-> 0, undone |-> FALSE]
Quiet == [node |-> 0, token |-> 0]

EnrolInit ==
    /\ nodes = [n \in Nodes |-> Absent]
    /\ born = {}
    /\ key = 0
    /\ drawn = 0
    /\ link = [c \in Connects |-> NoLink]
    /\ beat = [m \in Machines |-> Quiet]
    /\ file = [m \in Machines |-> 0]
    /\ service = [m \in Machines |-> 0]
    /\ broken = {}

Enrolled(n) == nodes[n].token # 0

(* The row a credential names.                                             *)
ByToken(t) == {n \in Nodes : t # 0 /\ nodes[n].token = t}
ByCode(c)  == {n \in Nodes : c # 0 /\ nodes[n].code = c /\ nodes[n].open}

Draw(k) == drawn + k <= MaxCreds /\ drawn' = drawn + k

(* A report of node n has been looked up by token and not yet written.     *)
Reporting(n) ==
    \/ \E m \in Machines : beat[m].node = n
    \/ \E c \in Connects : link[c].at = "probing" /\ link[c].node = n

(* The row with a new token: the node has not been seen with it.           *)
WithToken(n, t, c) ==
    [nodes[n] EXCEPT !.token = t, !.code = c, !.open = c # 0, !.seen = FALSE,
                     !.late = Reporting(n)]

(* The calls that hold a token of n, after the user replaced or removed it.*)
Undone(n) == [c \in Connects |-> IF link[c].token # 0 /\ link[c].node = n
                                    THEN [link[c] EXCEPT !.undone = TRUE] ELSE link[c]]

-----------------------------------------------------------------------------
(* The user at the controller.                                             *)

Fresh(t, c) == [Absent EXCEPT !.token = t, !.code = c, !.open = c # 0]

(* Create: a row with a token and a pairing code.                          *)
Create(n) ==
    /\ n \notin born
    /\ Draw(2)
    /\ nodes' = [nodes EXCEPT ![n] = Fresh(drawn + 1, drawn + 2)]
    /\ born' = born \cup {n}
    /\ UNCHANGED <<key, link, beat, file, service, broken>>

(* Rotate: the row is read for its id only.                                *)
Rotate(n) ==
    /\ Enrolled(n)
    /\ Draw(2)
    /\ nodes' = [nodes EXCEPT ![n] = WithToken(n, drawn + 1, drawn + 2)]
    /\ link' = Undone(n)
    /\ UNCHANGED <<born, key, beat, file, service, broken>>

Delete(n) ==
    /\ Enrolled(n)
    /\ nodes' = [nodes EXCEPT ![n] = Absent]
    /\ link' = Undone(n)
    /\ UNCHANGED <<born, key, drawn, beat, file, service, broken>>

(* The 15 minutes of a pairing code pass.                                  *)
Expire(n) ==
    /\ nodes[n].open
    /\ nodes' = [nodes EXCEPT ![n].open = FALSE]
    /\ UNCHANGED <<born, key, drawn, link, beat, file, service, broken>>

(* The enrolment link is made with a new key, the old one stops working.   *)
RotateAgentEnrollmentKey ==
    /\ Draw(1)
    /\ key' = drawn + 1
    /\ UNCHANGED <<nodes, born, link, beat, file, service, broken>>

-----------------------------------------------------------------------------
(* ConnectLocalController, and the controller's side of the exchange.      *)

Goto(c, at) == link' = [link EXCEPT ![c].at = at]
Leave(c) == link' = [link EXCEPT ![c] = NoLink]

Connect(c, m, cred) ==
    /\ link[c].at = "idle"
    /\ link' = [link EXCEPT ![c] = [NoLink EXCEPT !.at = "asked", !.machine = m, !.cred = cred]]
    /\ UNCHANGED <<nodes, born, key, drawn, beat, file, service, broken>>

(* Pair: the transaction of ConsumePairingCode reads the row by its code.  *)
PairRead(c) ==
    /\ link[c].at = "asked"
    /\ \E n \in ByCode(link[c].cred) :
         link' = [link EXCEPT ![c].at = "found", ![c].node = n]
    /\ UNCHANGED <<nodes, born, key, drawn, beat, file, service, broken>>

\* A mutant: the update asks for the id only.
ConsumedTwice(c) == TRUE

(* The update still matches the row; the time it compares with is the      *)
(* reading's, so a code that runs out in between is accepted.              *)
Consumable(c) == nodes[link[c].node].code = link[c].cred

Told(c, n, t) == link' = [link EXCEPT ![c].at = "told", ![c].node = n, ![c].token = t]

(* It replaces the token and clears the code, where both still are.        *)
PairWrite(c) ==
    /\ link[c].at = "found"
    /\ Consumable(c)
    /\ Draw(1)
    /\ nodes' = [nodes EXCEPT ![link[c].node] = WithToken(link[c].node, drawn + 1, 0)]
    /\ Told(c, link[c].node, drawn + 1)
    /\ UNCHANGED <<born, key, beat, file, service, broken>>

(* Enroll: the key is validated, then CreateConnected adds a row without a *)
(* pairing code.                                                           *)
EnrollRead(c) ==
    /\ link[c].at = "asked"
    /\ link[c].cred = key
    /\ Goto(c, "valid")
    /\ UNCHANGED <<nodes, born, key, drawn, beat, file, service, broken>>

CreateConnected(c, n) ==
    /\ link[c].at = "valid"
    /\ n \notin born
    /\ Draw(1)
    /\ nodes' = [nodes EXCEPT ![n] = Fresh(drawn + 1, 0)]
    /\ born' = born \cup {n}
    /\ Told(c, n, drawn + 1)
    /\ UNCHANGED <<key, beat, file, service, broken>>

(* The code or key is not known, the update matched no row or met another  *)
(* writer, or the name or the host's capacity is refused.                  *)
Refused(c) ==
    /\ \/ link[c].at = "asked" /\ ByCode(link[c].cred) = {} /\ link[c].cred # key
       \/ link[c].at \in {"found", "valid"}
    /\ Leave(c)
    /\ UNCHANGED <<nodes, born, key, drawn, beat, file, service, broken>>

(* The answer does not reach the server in its 15 seconds, or it is not    *)
(* what validatePanelURL and validAgentCredential accept; the check of the *)
(* token runs into its 20; the file or the unit cannot be written.         *)
GivesUp(c) ==
    /\ link[c].at \in {"told", "probing", "proven"}
    /\ Leave(c)
    /\ UNCHANGED <<nodes, born, key, drawn, beat, file, service, broken>>

(* sui-agent --once: a report with the new token (applyReport).            *)
CheckRead(c) ==
    /\ link[c].at = "told"
    /\ link[c].node \in ByToken(link[c].token)
    /\ Goto(c, "probing")
    /\ UNCHANGED <<nodes, born, key, drawn, beat, file, service, broken>>

(* A row written by its id, which a deletion may have taken away.          *)
Reported(n, t) ==
    nodes' = [nodes EXCEPT ![n] = IF Enrolled(n) THEN [@ EXCEPT !.seen = TRUE, !.by = t] ELSE @]

CheckWrite(c) ==
    /\ link[c].at = "probing"
    /\ Reported(link[c].node, link[c].token)
    /\ Goto(c, "proven")
    /\ UNCHANGED <<born, key, drawn, beat, file, service, broken>>

WriteFile(c) ==
    /\ link[c].at = "proven"
    /\ file' = [file EXCEPT ![link[c].machine] = link[c].token]
    /\ Goto(c, "saved")
    /\ UNCHANGED <<nodes, born, key, drawn, beat, service, broken>>

(* systemctl restart and is-active: the unit reads the file again.         *)
RestartAgent(c) ==
    LET m == link[c].machine IN
    /\ link[c].at = "saved"
    /\ service' = [service EXCEPT ![m] = file[m]]
    /\ broken' = broken \ {m}
    /\ Leave(c)
    /\ UNCHANGED <<nodes, born, key, drawn, beat, file>>

(* One of the four commands fails: before the restart, or by it.           *)
RestartFails(c) ==
    LET m == link[c].machine IN
    /\ link[c].at = "saved"
    /\ \E t \in {service[m], 0} : service' = [service EXCEPT ![m] = t]
    /\ broken' = broken \cup {m}
    /\ Leave(c)
    /\ UNCHANGED <<nodes, born, key, drawn, beat, file>>

-----------------------------------------------------------------------------
(* The agent of a server reports: the row is looked up by the token, then  *)
(* written by its id.                                                      *)

Heartbeat(m) ==
    /\ beat[m] = Quiet
    /\ \E n \in ByToken(service[m]) :
         beat' = [beat EXCEPT ![m] = [node |-> n, token |-> service[m]]]
    /\ UNCHANGED <<nodes, born, key, drawn, link, file, service, broken>>

HeartbeatWrite(m) ==
    /\ beat[m] # Quiet
    /\ Reported(beat[m].node, beat[m].token)
    /\ beat' = [beat EXCEPT ![m] = Quiet]
    /\ UNCHANGED <<born, key, drawn, link, file, service, broken>>

Exchange(c) ==
    \/ PairRead(c) \/ PairWrite(c)
    \/ EnrollRead(c) \/ (\E n \in Nodes : CreateConnected(c, n))
    \/ Refused(c)

ConnectStep(c) ==
    \/ \E m \in Machines, cred \in 1 .. drawn : Connect(c, m, cred)
    \/ Exchange(c)
    \/ CheckRead(c) \/ CheckWrite(c) \/ WriteFile(c)
    \/ RestartAgent(c) \/ RestartFails(c) \/ GivesUp(c)

EnrolNext ==
    \/ \E n \in Nodes : Create(n) \/ Rotate(n) \/ Delete(n) \/ Expire(n)
    \/ RotateAgentEnrollmentKey
    \/ \E c \in Connects : ConnectStep(c)
    \/ \E m \in Machines : Heartbeat(m) \/ HeartbeatWrite(m)

EnrolSpec == EnrolInit /\ [][EnrolNext]_enrolvars

-----------------------------------------------------------------------------
EnrolTypeOK ==
    /\ nodes \in [Nodes -> [token : Creds, code : Creds, open : BOOLEAN, seen : BOOLEAN,
                            by : Creds, late : BOOLEAN]]
    /\ born \subseteq Nodes
    /\ key \in Creds /\ drawn \in Creds
    /\ link \in [Connects -> [at : {"idle", "asked", "found", "valid", "told", "probing",
                                 "proven", "saved"},
                           machine : Machines, cred : Creds, node : Nodes \cup {0},
                           token : Creds, undone : BOOLEAN]]
    /\ beat \in [Machines -> [node : Nodes \cup {0}, token : Creds]]
    /\ file \in [Machines -> Creds] /\ service \in [Machines -> Creds]
    /\ broken \subseteq Machines

(* A code is used by one server: a call that was told a token holds its    *)
(* node's token until the user rotates or deletes the node, whoever else   *)
(* sends the same link meanwhile (ConsumePairingCode, CreateConnected).    *)
ToldTokenIsTheNodes ==
    \A c \in Connects : link[c].token # 0 =>
        link[c].undone \/ nodes[link[c].node].token = link[c].token

(* A node shown as seen was seen with the token it has now (Rotate and     *)
(* ConsumePairingCode reset last_seen), except by a report that was being  *)
(* handled when the token was replaced.                                    *)
SeenWithItsToken ==
    \A n \in Nodes : nodes[n].seen => nodes[n].by = nodes[n].token \/ nodes[n].late

(* Once no call is between the file and the restart, and the last restart  *)
(* did not fail, the agent runs with the token of its file, whichever of   *)
(* two concurrent calls wrote it (ConnectLocalController).                 *)
AgentRunsItsFile ==
    \A m \in Machines :
        \/ m \in broken
        \/ \E c \in Connects : link[c].at = "saved" /\ link[c].machine = m
        \/ service[m] = file[m]

(* The three: controller and server agree on who holds which token.        *)
EnrolmentHolds == ToldTokenIsTheNodes /\ SeenWithItsToken /\ AgentRunsItsFile

=============================================================================
