------------------------------ MODULE RemoteCall ------------------------------
(***************************************************************************)
(* An operation the controller asks of a managed node, end to end          *)
(* (api/apiService.go, service/agent_hub.go DispatchRPC, agent/client.go,  *)
(* agent/local_client.go, web/control_socket.go, service/local_control.go, *)
(* service/remote_quick_add.go, service/remote_relay.go).                  *)
(*                                                                         *)
(* The controller sends it over the agent's connection; the agent takes    *)
(* one of the connection's slots for it and posts it to the panel's        *)
(* control socket; the panel's configuration changes, and the answer       *)
(* travels back.  Every hop gives up on its own: a caller that is told of  *)
(* a failure may ask again, with the revision it had read.  The hub's side *)
(* in detail is module AgentHub, a save in detail module ConfigSave.       *)
(*                                                                         *)
(* The methods that only read change nothing and are left out.             *)
(*                                                                         *)
(* Bounds: MaxConns connections, MaxRevision changes of the configuration; *)
(* a quick-add makes QuickSaves changes.                                   *)
(***************************************************************************)
EXTENDS Naturals, FiniteSets

CONSTANTS
    Calls,          \* calls of the controller's users, retries among them
    Slots,          \* rpcSlots of a connection
    QuickSaves,
    MaxConns, MaxRevision

ASSUME CallAssumption ==
    QuickSaves \in Nat \ {0} /\ MaxConns \in Nat \ {0} /\ MaxRevision \in Nat

VARIABLES
    call,       \* each call: what it asks, with which revision, and its answer
    conn,       \* the agent's connection, 0 when there is none
    conns,      \* connections made so far
    frame,      \* where each call's message is between controller and agent
    slot,       \* the connection whose slot a call holds in the agent
    reply,      \* the panel's answer as the agent has it
    job,        \* the call in the panel: handled, done with an answer, or not there
    made,       \* number of configuration changes each call made
    revision    \* MAX(id) of the changes table

callvars == <<call, conn, conns, frame, slot, reply, job, made, revision>>

Methods == {"save", "quick", "relay"}
Refusals == {"offline", "busy"}
(* Of the rest, failed is every error that says nothing either way: the    *)
(* panel's own, an answer that could not be had from it (503), a closed    *)
(* connection, a timeout.                                                  *)
Answers == Refusals \cup {"ok", "conflict", "failed"}
Checked == {"save", "quick"}
NoCall == [method |-> "save", expected |-> 0, answer |-> "unasked"]
NoJob == [at |-> "none", answer |-> "none"]
Gone  == [at |-> "gone", answer |-> "none"]

CallInit ==
    /\ call = [c \in Calls |-> NoCall]
    /\ conn = 1 /\ conns = 1
    /\ frame = [c \in Calls |-> "none"]
    /\ slot = [c \in Calls |-> 0]
    /\ reply = [c \in Calls |-> "none"]
    /\ job = [c \in Calls |-> NoJob]
    /\ made = [c \in Calls |-> 0]
    /\ revision = 0

Waiting(c) == call[c].answer = "waiting"
Hears(c, a) == call' = [call EXCEPT ![c].answer = a]
Saves(m) == IF m = "quick" THEN QuickSaves ELSE 1

-----------------------------------------------------------------------------
(* The controller.                                                         *)

(* DispatchRPC, with the revision of an earlier read of the node.          *)
DispatchRPC(c, m, e) ==
    /\ call[c] = NoCall
    /\ e # 0 => m \in Checked
    /\ call' = [call EXCEPT ![c] = [method |-> m, expected |-> e,
                                    answer |-> IF conn = 0 THEN "offline" ELSE "waiting"]]
    /\ frame' = IF conn = 0 THEN frame ELSE [frame EXCEPT ![c] = "request"]
    /\ UNCHANGED <<conn, conns, slot, reply, job, made, revision>>

(* agentRPCTimeout.                                                        *)
CallTimeout(c) ==
    /\ Waiting(c)
    /\ Hears(c, "failed")
    /\ UNCHANGED <<conn, conns, frame, slot, reply, job, made, revision>>

(* HandleRPCResponse: an answer nobody waits for any more is dropped.      *)
Delivered(c) ==
    /\ frame[c] \in Answers
    /\ frame' = [frame EXCEPT ![c] = "none"]
    /\ IF Waiting(c) THEN Hears(c, frame[c]) ELSE call' = call
    /\ UNCHANGED <<conn, conns, slot, reply, job, made, revision>>

(* The connection breaks: what is on the way is lost, the calls that wait  *)
(* are failed, and what the agent has begun goes on.                       *)
Disconnect ==
    /\ conn # 0
    /\ conn' = 0
    /\ frame' = [c \in Calls |-> "none"]
    /\ call' = [c \in Calls |-> IF Waiting(c) THEN [call[c] EXCEPT !.answer = "failed"] ELSE call[c]]
    /\ UNCHANGED <<conns, slot, reply, job, made, revision>>

(* runWebSocket dials again, with slots of its own.                        *)
Reconnect ==
    /\ conn = 0
    /\ conns < MaxConns
    /\ conn' = conns + 1 /\ conns' = conns + 1
    /\ UNCHANGED <<call, frame, slot, reply, job, made, revision>>

-----------------------------------------------------------------------------
(* The agent.                                                              *)

Held == {c \in Calls : slot[c] = conn}

TakeSlot(c) ==
    /\ frame[c] = "request"
    /\ Cardinality(Held) < Slots
    /\ frame' = [frame EXCEPT ![c] = "none"]
    /\ slot' = [slot EXCEPT ![c] = conn]
    /\ UNCHANGED <<call, conn, conns, reply, job, made, revision>>

Busy(c) ==
    /\ frame[c] = "request"
    /\ Cardinality(Held) >= Slots
    /\ frame' = [frame EXCEPT ![c] = "busy"]
    /\ UNCHANGED <<call, conn, conns, slot, reply, job, made, revision>>

Calling(c) == slot[c] # 0 /\ reply[c] = "none"

(* CallLocalRPC: the socket is dialled and the request handled.            *)
Post(c) ==
    /\ Calling(c)
    /\ job[c] = NoJob
    /\ job' = [job EXCEPT ![c].at = "handled"]
    /\ UNCHANGED <<call, conn, conns, frame, slot, reply, made, revision>>

\* A mutant: the answer is taken for one that says so when it could not be read.
TakenForOk == "ok"

(* What an answer is before the panel's is decoded over it.                *)
NoResponse == "failed"

(* The dial fails, because the socket is not served, or the answer does    *)
(* not come in localRPCTimeout: the panel's handler is not told, and goes  *)
(* on.                                                                     *)
PostFails(c) ==
    /\ Calling(c)
    /\ reply' = [reply EXCEPT ![c] = NoResponse]
    /\ job' = [job EXCEPT ![c] = IF @.at = "done" THEN Gone ELSE @]
    /\ UNCHANGED <<call, conn, conns, frame, slot, made, revision>>

PanelAnswers(c) ==
    /\ Calling(c)
    /\ job[c].at = "done"
    /\ reply' = [reply EXCEPT ![c] = job[c].answer]
    /\ job' = [job EXCEPT ![c] = Gone]
    /\ UNCHANGED <<call, conn, conns, frame, slot, made, revision>>

(* The answer is written to the connection the request came over, and the  *)
(* slot is given back however the write ends.                              *)
SendBack(c) ==
    /\ slot[c] # 0
    /\ reply[c] # "none"
    /\ frame' = IF slot[c] = conn THEN [frame EXCEPT ![c] = reply[c]] ELSE frame
    /\ slot' = [slot EXCEPT ![c] = 0]
    /\ reply' = [reply EXCEPT ![c] = "none"]
    /\ UNCHANGED <<call, conn, conns, job, made, revision>>

-----------------------------------------------------------------------------
(* The panel of the managed node.                                          *)

\* A mutant: only a revision the panel has not reached is refused.
NotAhead(c) == revision >= call[c].expected + made[c]

(* SaveWithRevision; each save of a quick-add expects the last one's.      *)
AsExpected(c) == revision = call[c].expected + made[c]

Change(c) ==
    /\ revision < MaxRevision
    /\ revision' = revision + 1
    /\ made' = [made EXCEPT ![c] = @ + 1]

(* The handler's answer, if the agent still waits for it.                  *)
Ends(c, a) == job' = [job EXCEPT ![c] = IF Calling(c) THEN [at |-> "done", answer |-> a] ELSE Gone]

(* One save under the save lock, and the answer with the last of them.     *)
SaveStep(c) ==
    /\ job[c].at = "handled"
    /\ call[c].method \in Checked => AsExpected(c)
    /\ Change(c)
    /\ IF made[c] + 1 = Saves(call[c].method) THEN Ends(c, "ok") ELSE job' = job
    /\ UNCHANGED <<call, conn, conns, frame, slot, reply>>

(* Another save came first (409).                                          *)
Conflict(c) ==
    /\ job[c].at = "handled"
    /\ call[c].method \in Checked
    /\ ~AsExpected(c)
    /\ Ends(c, "conflict")
    /\ UNCHANGED <<call, conn, conns, frame, slot, reply, made, revision>>

(* The payload is refused, a save fails, or it fails after its commit.     *)
Fails(c) ==
    /\ job[c].at = "handled"
    /\ \/ UNCHANGED <<made, revision>>
       \/ /\ call[c].method \in Checked => AsExpected(c)
          /\ Change(c)
    /\ Ends(c, "failed")
    /\ UNCHANGED <<call, conn, conns, frame, slot, reply>>

(* A user of the node's own panel saves.                                   *)
LocalSave ==
    /\ revision < MaxRevision
    /\ revision' = revision + 1
    /\ UNCHANGED <<call, conn, conns, frame, slot, reply, job, made>>

(* The panel's process ends, and its handlers with it; stopControlSocket   *)
(* waits five seconds for them only.                                       *)
PanelExits ==
    /\ \E c \in Calls : job[c].at \in {"handled", "done"}
    /\ job' = [c \in Calls |-> IF job[c] = NoJob THEN NoJob ELSE Gone]
    /\ UNCHANGED <<call, conn, conns, frame, slot, reply, made, revision>>

Handle(c) == SaveStep(c) \/ Conflict(c) \/ Fails(c)

CallNext ==
    \/ \E c \in Calls :
        \/ \E m \in Methods, e \in 0 .. revision : DispatchRPC(c, m, e)
        \/ CallTimeout(c) \/ Delivered(c)
        \/ TakeSlot(c) \/ Busy(c) \/ Post(c) \/ PostFails(c) \/ PanelAnswers(c) \/ SendBack(c)
        \/ Handle(c)
    \/ Disconnect \/ Reconnect
    \/ LocalSave \/ PanelExits

CallSpec == CallInit /\ [][CallNext]_callvars

-----------------------------------------------------------------------------
CallTypeOK ==
    /\ call \in [Calls -> [method : Methods, expected : 0 .. MaxRevision,
                           answer : Answers \cup {"unasked", "waiting"}]]
    /\ conn \in 0 .. conns /\ conns \in 1 .. MaxConns
    /\ frame \in [Calls -> Answers \cup {"none", "request"}]
    /\ slot \in [Calls -> 0 .. MaxConns]
    /\ reply \in [Calls -> Answers \cup {"none"}]
    /\ job \in [Calls -> [at : {"none", "handled", "done", "gone"}, answer : Answers \cup {"none"}]]
    /\ made \in [Calls -> 0 .. MaxRevision]
    /\ revision \in 0 .. MaxRevision

(* What a caller is told is true: of a success, that everything it asked   *)
(* for was done; of a node that is offline or busy, that nothing is or     *)
(* will be; of a conflict, that a single save did nothing and a quick-add  *)
(* did not finish.  A failure says nothing either way.              *)
AnswersAreTrue ==
    \A c \in Calls :
        /\ call[c].answer = "ok" => made[c] = Saves(call[c].method)
        /\ call[c].answer \in Refusals => made[c] = 0 /\ job[c] = NoJob
        /\ call[c].answer = "conflict" => made[c] < Saves(call[c].method)

(* A save that is asked again with the revision it was first asked with is *)
(* done once, however the answer to the first was lost                     *)
(* (SaveWithRevision).  A relay pool carries no revision.                  *)
RetryIsSafe ==
    \A c, d \in Calls :
        /\ call[c].method \in Checked /\ call[d].method \in Checked
        /\ call[c].expected = call[d].expected
        /\ made[c] > 0 /\ made[d] > 0
        => c = d

=============================================================================
