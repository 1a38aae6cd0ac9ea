--------------------------- MODULE AgentHubProofs ---------------------------
(* Proofs about AgentHub: the registry of sessions, the pending calls and   *)
(* the types of its state, for any nodes, sessions, calls and terminals.    *)
EXTENDS AgentHub, SequenceTheorems, FiniteSetTheorems, TLAPS

-----------------------------------------------------------------------------
(* The registry.                                                            *)

\* Which stages a handler can be in given its connection, and the promise
\* OpenIsRegistered; inductive because only Register opens a connection.
RegInv ==
    /\ hub \in [Node -> Session \union {NoSession}]
    /\ stage \in [Session -> Stage]
    /\ conn \in [Session -> {"none", "open", "closed"}]
    /\ OpenIsRegistered
    /\ \A s \in Session : conn[s] = "open" => stage[s] = "reading"
    /\ \A s \in Session : stage[s] \in {"unborn", "accepted"} <=> conn[s] = "none"

LEMMA RegInit == Init => RegInv
  BY HubAssumption DEF Init, RegInv, OpenIsRegistered, Stage

\* The steps that leave hub, stage and conn alone cannot disturb RegInv.
LEMMA RegQuiet == ASSUME RegInv, UNCHANGED <<hub, stage, conn>> PROVE RegInv'
  BY DEF RegInv, OpenIsRegistered

\* Connections only close.
LEMMA RegBreaks ==
    ASSUME RegInv, NEW S, conn' = Closing(S), UNCHANGED <<hub, stage>>
    PROVE  RegInv'
  BY DEF RegInv, OpenIsRegistered, Closing

LEMMA RegStep == RegInv /\ [Next]_vars => RegInv'
<1> SUFFICES ASSUME RegInv, [Next]_vars PROVE RegInv'
    OBVIOUS
<1> USE HubAssumption
<1>1. ASSUME NEW s \in Session, Register(s) PROVE RegInv'
  BY <1>1 DEF Register, RegInv, OpenIsRegistered, Closing, Stage
<1>2. ASSUME NEW s \in Session, Authenticate(s) PROVE RegInv'
  BY <1>2 DEF Authenticate, RegInv, OpenIsRegistered, Stage
<1>3. ASSUME NEW s \in Session, HandlerStep(s) PROVE RegInv'
  <2>1. CASE ReadFails(s)
    BY <2>1 DEF ReadFails, RegInv, OpenIsRegistered, Stage
  <2>2. CASE Unregister(s)
    BY <2>2 DEF Unregister, Owns, RegInv, OpenIsRegistered, Stage
  <2>3. CASE FailPending(s)
    BY <2>3 DEF FailPending, RegInv, OpenIsRegistered, Stage
  <2>4. CASE FailRPCPending(s)
    BY <2>4 DEF FailRPCPending, RegInv, OpenIsRegistered, Stage
  <2>5. CASE FailPings(s)
    BY <2>5 DEF FailPings, RegInv, OpenIsRegistered, Stage
  <2>6. CASE CloseAllTerminals(s)
    BY <2>6 DEF CloseAllTerminals, RegInv, OpenIsRegistered, Stage
  <2> QED BY <1>3, <2>1, <2>2, <2>3, <2>4, <2>5, <2>6 DEF HandlerStep
<1>4. ASSUME NEW s \in Session, ReadStep(s) PROVE RegInv'
  BY <1>4, RegQuiet DEF ReadStep, HandleResult, HandlePong, HandleTerminalClosed, regVars
<1>5. ASSUME NEW s \in Session, ProbeStep(s) PROVE RegInv'
  BY <1>5, RegQuiet, RegBreaks
     DEF ProbeStep, ProbeTick, ProbeWrite, ProbeLost, ProbeStops, Sends, Breaks, regVars
<1>6. ASSUME NEW n \in Node, DeleteNode(n) PROVE RegInv'
  BY <1>6, RegQuiet DEF DeleteNode
<1>7. ASSUME NEW c \in Call, CallStep(c) PROVE RegInv'
  BY <1>7, RegQuiet, RegBreaks
     DEF CallStep, DispatchRegister, DispatchWrite, DispatchUndo, DispatchClose, Sends, Breaks,
         regVars
<1>8. ASSUME NEW c \in Call, DispatchReceive(c) \/ DispatchTimeout(c)
             \/ \E n \in Node : DispatchLookup(c, n)
      PROVE  RegInv'
  BY <1>8, RegQuiet DEF DispatchReceive, DispatchTimeout, DispatchLookup, regVars
<1>9. ASSUME NEW t \in Term, TermStep(t) PROVE RegInv'
  BY <1>9, RegQuiet, RegBreaks
     DEF TermStep, AttachRegister, AttachWrite, AttachUndo, Detach, DetachNotify, Sends, Breaks,
         regVars
<1>10. ASSUME NEW t \in Term, BrowserCloses(t) \/ \E n \in Node : AttachLookup(t, n)
       PROVE  RegInv'
  BY <1>10, RegQuiet DEF BrowserCloses, AttachLookup, regVars
<1>11. ASSUME NEW s \in Session, AgentStep(s) PROVE RegInv'
  BY <1>11, RegQuiet
     DEF AgentStep, AgentAnswers, AgentPongs, AgentOpens, AgentOpened, AgentCloses, ShellExits,
         ReaderEnds, LoopEnds, regVars
<1>12. ASSUME NEW s \in Session, ConnDrops(s) PROVE RegInv'
  BY <1>12, RegBreaks DEF ConnDrops, Breaks
<1>13. ASSUME UNCHANGED vars PROVE RegInv'
  BY <1>13, RegQuiet DEF vars, regVars
<1> QED
  BY <1>1, <1>2, <1>3, <1>4, <1>5, <1>6, <1>7, <1>8, <1>9, <1>10, <1>11, <1>12, <1>13
  DEF Next, PanelStep

\* Every connection that is still open is the one the hub dispatches to,
\* whatever the order in which handlers of one node register and unregister
\* (RegisterSession and its unregister closure).
THEOREM OpenSessionsAreRegistered == Spec => []OpenIsRegistered
<1>1. RegInv => OpenIsRegistered
  BY DEF RegInv
<1> QED BY <1>1, RegInit, RegStep, PTL DEF Spec

-----------------------------------------------------------------------------
(* Pending calls.                                                           *)

\* A call that waits is in the pending map of its session or has been told;
\* a call that is in a pending map has not been told yet.
CallInv ==
    /\ pending \in [Session -> SUBSET Call]
    /\ call \in [Call -> [pc : CallPc, via : Session \union {NoSession}, outcome : Outcome]]
    /\ chan \in [Call -> [val : Value, closed : BOOLEAN]]
    /\ PendingIsLive
    /\ \A s \in Session : \A c \in pending[s] : chan[c].val = "empty" /\ ~chan[c].closed
    /\ \A c \in Call : call[c].pc \in {"idle", "looked"} =>
                           chan[c].val = "empty" /\ ~chan[c].closed
    /\ \A c \in Call : call[c].pc \notin {"idle", "done"} => call[c].via \in Session
    /\ \A c \in Call : call[c].pc \in {"registered", "waiting"} =>
                           c \in pending[call[c].via] \/ chan[c].closed
    /\ \A c \in Call : (call[c].pc = "waiting" /\ AfterFail(call[c].via, c)) => chan[c].closed

LEMMA CallInit == Init => CallInv
  BY HubAssumption DEF Init, CallInv, PendingIsLive, CallPc, Outcome, Value, AfterFail

\* Steps that leave the calls alone and move no handler past failing them.
LEMMA CallQuiet ==
    ASSUME CallInv, UNCHANGED <<pending, call, chan>>,
           \A s \in Session, c \in Call : AfterFail(s, c)' => AfterFail(s, c)
    PROVE  CallInv'
  BY DEF CallInv, PendingIsLive

\* A handler that fails the calls of a kind tells every one of them.
LEMMA FailKeeps ==
    ASSUME CallInv, NEW s \in Session, NEW kind, Fail(s, kind),
           \A r \in Session, c \in Call :
               AfterFail(r, c)' => AfterFail(r, c) \/ (r = s /\ c \in kind)
    PROVE  CallInv'
  BY DEF CallInv, PendingIsLive, Fail, Value

\* The other panel steps that keep pending, call and chan.
LEMMA CallSameStage ==
    ASSUME CallInv, UNCHANGED <<pending, call, chan, stage>> PROVE CallInv'
  BY CallQuiet DEF AfterFail

CallType == [Call -> [pc : CallPc, via : Session \union {NoSession}, outcome : Outcome]]

\* What moving one call does to the others, and to itself.
LEMMA CallMoves ==
    ASSUME call \in CallType, NEW c \in Call, NEW p \in CallPc, call' = [call EXCEPT ![c].pc = p]
    PROVE  /\ call' \in CallType
           /\ call'[c].pc = p /\ call'[c].via = call[c].via
           /\ \A d \in Call \ {c} : call'[d] = call[d]
  BY DEF CallType

LEMMA CallLooks ==
    ASSUME call \in CallType, NEW c \in Call, NEW s \in Session,
           call' = [call EXCEPT ![c].pc = "looked", ![c].via = s]
    PROVE  /\ call' \in CallType
           /\ call'[c].pc = "looked" /\ call'[c].via = s
           /\ \A d \in Call \ {c} : call'[d] = call[d]
<1>1. call[c] \in [pc : CallPc, via : Session \union {NoSession}, outcome : Outcome]
  BY DEF CallType
<1> DEFINE r == [call[c] EXCEPT !.pc = "looked", !.via = s]
<1>2. /\ r \in [pc : CallPc, via : Session \union {NoSession}, outcome : Outcome]
      /\ r.pc = "looked" /\ r.via = s
  BY <1>1 DEF CallPc
<1>3. call' = [call EXCEPT ![c] = r]
  OBVIOUS
<1> HIDE DEF r
<1> QED
  BY <1>2, <1>3 DEF CallType

LEMMA CallDone ==
    ASSUME call \in CallType, NEW c \in Call, NEW o \in Outcome, call' = Answered(c, o)
    PROVE  /\ call' \in CallType
           /\ call'[c].pc = "done" /\ call'[c].via = call[c].via
           /\ \A d \in Call \ {c} : call'[d] = call[d]
  BY DEF CallType, CallPc, Answered

\* Where a step of the call c leaves the rest of the calls, the invariant is
\* about c alone.
LEMMA CallAlone ==
    ASSUME CallInv, NEW c \in Call, UNCHANGED stage,
           call' \in CallType,
           chan' \in [Call -> [val : Value, closed : BOOLEAN]],
           pending' \in [Session -> SUBSET Call],
           \A d \in Call \ {c} : call'[d] = call[d] /\ chan'[d] = chan[d],
           \A s \in Session, d \in Call \ {c} : d \in pending'[s] <=> d \in pending[s],
           \A s \in Session : c \in pending'[s] =>
               /\ call'[c].via = s /\ call'[c].pc \in {"registered", "waiting", "undo"}
               /\ chan'[c].val = "empty" /\ ~chan'[c].closed,
           call'[c].pc \in {"idle", "looked"} => chan'[c].val = "empty" /\ ~chan'[c].closed,
           call'[c].pc \notin {"idle", "done"} => call'[c].via \in Session,
           call'[c].pc \in {"registered", "waiting"} =>
               c \in pending'[call'[c].via] \/ chan'[c].closed,
           (call'[c].pc = "waiting" /\ AfterFail(call'[c].via, c)) => chan'[c].closed
    PROVE  CallInv'
<1>1. \A d \in Call \ {c} : d \in Call /\ call'[d] = call[d] /\ chan'[d] = chan[d]
  OBVIOUS
<1>2. PendingIsLive'
  BY <1>1 DEF CallInv, PendingIsLive
<1>3. \A s \in Session : \A d \in pending'[s] : chan'[d].val = "empty" /\ ~chan'[d].closed
  BY <1>1 DEF CallInv
<1>4. \A s \in Session, d \in Call : AfterFail(s, d)' <=> AfterFail(s, d)
  BY DEF AfterFail
<1>5. \A d \in Call : call'[d].pc \in {"registered", "waiting"} =>
                          d \in pending'[call'[d].via] \/ chan'[d].closed
  BY <1>1 DEF CallInv
<1>6. \A d \in Call : (call'[d].pc = "waiting" /\ AfterFail(call'[d].via, d)) => chan'[d].closed
  BY <1>1, <1>4 DEF CallInv
<1>7. \A d \in Call : call'[d].pc \in {"idle", "looked"} =>
                          chan'[d].val = "empty" /\ ~chan'[d].closed
  BY <1>1 DEF CallInv
<1>8. \A d \in Call : call'[d].pc \notin {"idle", "done"} => call'[d].via \in Session
  BY <1>1 DEF CallInv
<1>9. (\A d \in Call : (call[d].pc = "waiting" /\ AfterFail(call[d].via, d)) => chan[d].closed)'
  BY <1>6 DEF AfterFail
<1> QED BY <1>2, <1>3, <1>5, <1>7, <1>8, <1>9 DEF CallInv, CallType

\* One step of the call c.
LEMMA CallOwnStep ==
    ASSUME RegInv, CallInv, NEW c \in Call, CallStep(c) PROVE CallInv'
<1>0. /\ call \in CallType /\ chan \in [Call -> [val : Value, closed : BOOLEAN]]
      /\ pending \in [Session -> SUBSET Call]
      /\ call[c].pc \in {"idle", "looked"} => chan[c].val = "empty" /\ ~chan[c].closed
      /\ call[c].pc \in {"registered", "waiting"} => c \in pending[call[c].via] \/ chan[c].closed
      /\ call[c].pc \notin {"idle", "done"} => call[c].via \in Session
      /\ \A s \in Session : c \in pending[s] =>
           /\ call[c].via = s /\ call[c].pc \in {"registered", "waiting", "undo"}
           /\ chan[c].val = "empty" /\ ~chan[c].closed
  BY DEF CallInv, CallType, PendingIsLive
<1> DEFINE s == call[c].via
<1>1. CASE DispatchRegister(c)
  <2>1. /\ call' = [call EXCEPT ![c].pc = "registered"] /\ "registered" \in CallPc
        /\ pending' = [pending EXCEPT ![s] = @ \union {c}] /\ UNCHANGED <<chan, stage>>
        /\ call[c].pc = "looked"
    BY <1>1 DEF DispatchRegister, regVars, CallPc
  <2>2. s \in Session
    BY <2>1 DEF CallInv
  <2>3. \A r \in Session : c \notin pending[r]
    BY <2>1 DEF CallInv, PendingIsLive
  <2>4. /\ call' \in CallType /\ call'[c].pc = "registered" /\ call'[c].via = s
        /\ \A d \in Call \ {c} : call'[d] = call[d]
    BY <1>0, <2>1, CallMoves
  <2>5. /\ pending' \in [Session -> SUBSET Call]
        /\ \A r \in Session, d \in Call \ {c} : d \in pending'[r] <=> d \in pending[r]
        /\ \A r \in Session : c \in pending'[r] <=> r = s
    BY <1>0, <2>1, <2>2, <2>3
  <2> QED BY <1>0, <2>1, <2>2, <2>4, <2>5, CallAlone
<1>2. CASE DispatchWrite(c)
  <2>0. call[c].pc = "registered" /\ s \in Session /\ UNCHANGED <<pending, chan, stage>>
    BY <1>2 DEF DispatchWrite, CallInv
  <2>1. CASE Sends(s, [kind |-> "call", id |-> c]) /\ call' = [call EXCEPT ![c].pc = "waiting"]
    <3>1. ~AfterFail(s, c)
      BY <2>0, <2>1 DEF Sends, RegInv, AfterFail
    <3>2. "waiting" \in CallPc
      BY DEF CallPc
    <3>3. /\ call' \in CallType /\ call'[c].pc = "waiting" /\ call'[c].via = s
          /\ \A d \in Call \ {c} : call'[d] = call[d]
      BY <1>0, <2>1, <3>2, CallMoves
    <3> QED BY <1>0, <2>0, <3>1, <3>3, CallAlone
  <2>2. CASE Breaks(s) /\ call' = [call EXCEPT ![c].pc = "undo"]
    <3>1. "undo" \in CallPc
      BY DEF CallPc
    <3>2. /\ call' \in CallType /\ call'[c].pc = "undo" /\ call'[c].via = s
          /\ \A d \in Call \ {c} : call'[d] = call[d]
      BY <1>0, <2>2, <3>1, CallMoves
    <3> QED BY <1>0, <2>0, <3>2, CallAlone
  <2> QED BY <1>2, <2>1, <2>2 DEF DispatchWrite
<1>3. CASE DispatchUndo(c)
  <2>1. /\ call' = [call EXCEPT ![c].pc = "closing"] /\ "closing" \in CallPc
        /\ pending' = [pending EXCEPT ![s] = @ \ {c}] /\ UNCHANGED <<chan, stage>>
        /\ call[c].pc = "undo"
    BY <1>3 DEF DispatchUndo, Withdraw, regVars, CallPc
  <2>2. \A r \in Session : c \notin pending'[r]
    BY <2>1 DEF CallInv, PendingIsLive
  <2>3. /\ call' \in CallType /\ call'[c].pc = "closing" /\ call'[c].via = s
        /\ \A d \in Call \ {c} : call'[d] = call[d]
    BY <1>0, <2>1, CallMoves
  <2>4. /\ pending' \in [Session -> SUBSET Call]
        /\ \A r \in Session, d \in Call \ {c} : d \in pending'[r] <=> d \in pending[r]
    BY <1>0, <2>1
  <2>5. s \in Session
    BY <1>0, <2>1
  <2> QED BY <1>0, <2>1, <2>2, <2>3, <2>4, <2>5, CallAlone
<1>4. CASE DispatchClose(c)
  <2> DEFINE o == IF chan[c].closed THEN "panic" ELSE "senderror"
  <2>1. /\ call' = Answered(c, o) /\ o \in Outcome
        /\ chan' = [chan EXCEPT ![c].closed = TRUE] /\ UNCHANGED <<pending, stage>>
        /\ call[c].pc = "closing"
    BY <1>4 DEF DispatchClose, Outcome
  <2>2. \A r \in Session : c \notin pending[r]
    BY <2>1 DEF CallInv, PendingIsLive
  <2>3. /\ chan' \in [Call -> [val : Value, closed : BOOLEAN]]
        /\ \A d \in Call \ {c} : chan'[d] = chan[d]
    BY <2>1 DEF CallInv
  <2> HIDE DEF o
  <2>4. /\ call' \in CallType /\ call'[c].pc = "done"
        /\ \A d \in Call \ {c} : call'[d] = call[d]
    BY <1>0, <2>1, CallDone
  <2> QED BY <1>0, <2>1, <2>2, <2>3, <2>4, CallAlone
<1> QED BY <1>1, <1>2, <1>3, <1>4 DEF CallStep

LEMMA CallEnds ==
    ASSUME RegInv, CallInv, NEW c \in Call,
           DispatchReceive(c) \/ DispatchTimeout(c) \/ \E n \in Node : DispatchLookup(c, n)
    PROVE  CallInv'
<1>0. /\ call \in CallType /\ chan \in [Call -> [val : Value, closed : BOOLEAN]]
      /\ pending \in [Session -> SUBSET Call]
      /\ call[c].pc \in {"idle", "looked"} => chan[c].val = "empty" /\ ~chan[c].closed
      /\ call[c].pc \in {"registered", "waiting"} => c \in pending[call[c].via] \/ chan[c].closed
      /\ call[c].pc \notin {"idle", "done"} => call[c].via \in Session
      /\ \A s \in Session : c \in pending[s] =>
           /\ call[c].via = s /\ call[c].pc \in {"registered", "waiting", "undo"}
           /\ chan[c].val = "empty" /\ ~chan[c].closed
  BY DEF CallInv, CallType, PendingIsLive
<1>1. CASE DispatchReceive(c)
  <2> DEFINE o == IF chan[c].val = "empty" THEN "failed" ELSE chan[c].val
  <2>1. /\ call' = Answered(c, o) /\ chan' = [chan EXCEPT ![c].val = "empty"]
        /\ UNCHANGED <<pending, stage>> /\ call[c].pc = "waiting"
        /\ chan[c].val # "empty" \/ chan[c].closed
    BY <1>1 DEF DispatchReceive, regVars
  <2>2. o \in Outcome
    BY DEF CallInv, Value, Outcome
  <2>3. \A r \in Session : c \notin pending[r]
    BY <2>1 DEF CallInv
  <2>4. /\ chan' \in [Call -> [val : Value, closed : BOOLEAN]]
        /\ \A d \in Call \ {c} : chan'[d] = chan[d]
    BY <2>1 DEF CallInv, Value
  <2> QED BY <1>0, <2>1, <2>2, <2>3, <2>4, CallDone, CallAlone
<1>2. CASE DispatchTimeout(c)
  <2>1. /\ call' = Answered(c, "timeout") /\ "timeout" \in Outcome
        /\ pending' = [pending EXCEPT ![call[c].via] = @ \ {c}]
        /\ UNCHANGED <<chan, stage>>
    BY <1>2 DEF DispatchTimeout, Withdraw, regVars, Outcome
  <2>2. \A r \in Session : c \notin pending'[r]
    BY <2>1 DEF CallInv, PendingIsLive
  <2> QED BY <1>0, <2>1, <2>2, CallDone, CallAlone
<1>3. ASSUME NEW n \in Node, DispatchLookup(c, n) PROVE CallInv'
  <2>0. call[c].pc = "idle" /\ UNCHANGED <<pending, chan, stage>>
    BY <1>3 DEF DispatchLookup, regVars
  <2>1. \A r \in Session : c \notin pending[r]
    BY <2>0 DEF CallInv, PendingIsLive
  <2>2. CASE hub[n] = NoSession
    <3>1. call' = Answered(c, "offline") /\ "offline" \in Outcome
      BY <1>3, <2>2 DEF DispatchLookup, Outcome
    <3> QED BY <1>0, <2>0, <2>1, <3>1, CallDone, CallAlone
  <2>3. CASE hub[n] # NoSession
    <3>1. call' = [call EXCEPT ![c].pc = "looked", ![c].via = hub[n]] /\ hub[n] \in Session
      BY <1>3, <2>3 DEF DispatchLookup, RegInv
    <3>2. /\ call' \in CallType /\ call'[c].pc = "looked" /\ call'[c].via = hub[n]
          /\ \A d \in Call \ {c} : call'[d] = call[d]
      BY <1>0, <3>1, CallLooks
    <3> QED BY <1>0, <2>0, <2>1, <3>1, <3>2, CallAlone
  <2> QED BY <2>2, <2>3
<1> QED BY <1>1, <1>2, <1>3

\* A result frame completes at most one waiting call.
LEMMA CallAnswered ==
    ASSUME CallInv, NEW s \in Session, NEW c \in Call, NEW ok \in BOOLEAN, HandleResult(s, c, ok)
    PROVE  CallInv'
<1> DEFINE value == IF ok THEN "ok" ELSE "failed"
           S == Matches(s, c)
<1>1. Answer(c, S, value) /\ UNCHANGED <<call, stage>>
  BY DEF HandleResult, regVars
<1>2. CASE S = {}
  BY <1>1, <1>2, CallSameStage DEF Answer
<1>3. CASE S # {}
  <2>1. S \subseteq Session /\ \A t \in S : c \in pending[t]
    BY DEF Matches
  <2>2. S = {call[c].via}
    BY <1>3, <2>1 DEF CallInv, PendingIsLive
  <2> HIDE DEF S
  <2>3. /\ pending' = [t \in Session |-> IF t \in S THEN pending[t] \ {c} ELSE pending[t]]
        /\ chan' = [chan EXCEPT ![c] = [val |-> value, closed |-> TRUE]]
        /\ UNCHANGED <<call, stage>>
    BY <1>1, <1>3 DEF Answer
  <2>4. /\ pending' \in [Session -> SUBSET Call]
        /\ chan' \in [Call -> [val : Value, closed : BOOLEAN]]
        /\ chan'[c].closed /\ \A d \in Call \ {c} : chan'[d] = chan[d]
        /\ \A r \in Session : c \notin pending'[r]
        /\ \A r \in Session, d \in Call \ {c} : d \in pending'[r] <=> d \in pending[r]
    BY <2>2, <2>3 DEF CallInv, PendingIsLive, Value
  <2>5. call[c].pc \notin {"idle", "looked"} /\ call[c].via \in Session /\ call \in CallType
    BY <1>3, <2>1 DEF CallInv, PendingIsLive, CallType
  <2> QED BY <2>3, <2>4, <2>5, CallAlone
<1> QED BY <1>2, <1>3

LEMMA CallStepKeeps == RegInv /\ CallInv /\ [Next]_vars => CallInv'
<1> SUFFICES ASSUME RegInv, CallInv, [Next]_vars PROVE CallInv'
    OBVIOUS
<1>0. stage \in [Session -> Stage]
  BY DEF RegInv
<1>1. ASSUME NEW s \in Session, Authenticate(s) \/ Register(s) PROVE CallInv'
  <2>1. UNCHANGED <<pending, call, chan>>
    BY <1>1 DEF Authenticate, Register, callVars
  <2>2. \A r \in Session, c \in Call : AfterFail(r, c)' => AfterFail(r, c)
    BY <1>0, <1>1 DEF Authenticate, Register, AfterFail
  <2> QED BY <2>1, <2>2, CallQuiet
<1>2. ASSUME NEW s \in Session, HandlerStep(s) PROVE CallInv'
  <2>1. CASE FailPending(s)
    <3>1. \A r \in Session, c \in Call :
             AfterFail(r, c)' => AfterFail(r, c) \/ (r = s /\ c \in Cmd)
      BY <1>0, <2>1 DEF FailPending, AfterFail
    <3> QED BY <2>1, <3>1, FailKeeps DEF FailPending
  <2>2. CASE FailRPCPending(s)
    <3>1. \A r \in Session, c \in Call :
             AfterFail(r, c)' => AfterFail(r, c) \/ (r = s /\ c \in Rpc)
      BY <1>0, <2>2 DEF FailRPCPending, AfterFail, Call
    <3> QED BY <2>2, <3>1, FailKeeps DEF FailRPCPending
  <2>3. CASE ReadFails(s) \/ Unregister(s) \/ FailPings(s) \/ CloseAllTerminals(s)
    <3>1. UNCHANGED <<pending, call, chan>>
      BY <2>3 DEF ReadFails, Unregister, FailPings, CloseAllTerminals, callVars
    <3>2. \A r \in Session, c \in Call : AfterFail(r, c)' => AfterFail(r, c)
      BY <1>0, <2>3 DEF ReadFails, Unregister, FailPings, CloseAllTerminals, AfterFail
    <3> QED BY <3>1, <3>2, CallQuiet
  <2> QED BY <1>2, <2>1, <2>2, <2>3 DEF HandlerStep
<1>3. ASSUME NEW s \in Session, ReadStep(s) PROVE CallInv'
  <2>1. CASE \E c \in Call, ok \in BOOLEAN : HandleResult(s, c, ok)
    BY <2>1, CallAnswered
  <2>2. CASE \/ \E p \in 1..MaxPing : HandlePong(s, p)
             \/ \E t \in Term : HandleTerminalClosed(s, t)
    BY <2>2, CallSameStage DEF HandlePong, HandleTerminalClosed, callVars, regVars
  <2> QED BY <1>3, <2>1, <2>2 DEF ReadStep
<1>4. ASSUME NEW c \in Call, CallStep(c) PROVE CallInv'
  BY <1>4, CallOwnStep
<1>5. ASSUME NEW c \in Call, DispatchReceive(c) \/ DispatchTimeout(c)
             \/ \E n \in Node : DispatchLookup(c, n)
      PROVE  CallInv'
  BY <1>5, CallEnds
<1>6. ASSUME NEW s \in Session, ProbeStep(s) PROVE CallInv'
  BY <1>6, CallSameStage
     DEF ProbeStep, ProbeTick, ProbeWrite, ProbeLost, ProbeStops, callVars, regVars
<1>7. ASSUME NEW n \in Node, DeleteNode(n) PROVE CallInv'
  BY <1>7, CallSameStage DEF DeleteNode
<1>8. ASSUME NEW t \in Term, TermStep(t) PROVE CallInv'
  BY <1>8, CallSameStage
     DEF TermStep, AttachRegister, AttachWrite, AttachUndo, Detach, DetachNotify, callVars, regVars
<1>9. ASSUME NEW t \in Term, BrowserCloses(t) \/ \E n \in Node : AttachLookup(t, n)
      PROVE  CallInv'
  BY <1>9, CallSameStage DEF BrowserCloses, AttachLookup, callVars, regVars
<1>10. ASSUME NEW s \in Session, AgentStep(s) PROVE CallInv'
  BY <1>10, CallSameStage
     DEF AgentStep, AgentAnswers, AgentPongs, AgentOpens, AgentOpened, AgentCloses, ShellExits,
         ReaderEnds, LoopEnds, callVars, regVars
<1>11. ASSUME NEW s \in Session, ConnDrops(s) PROVE CallInv'
  BY <1>11, CallSameStage DEF ConnDrops, callVars
<1>12. ASSUME UNCHANGED vars PROVE CallInv'
  BY <1>12, CallSameStage DEF vars, callVars, regVars
<1> QED
  BY <1>1, <1>2, <1>3, <1>4, <1>5, <1>6, <1>7, <1>8, <1>9, <1>10, <1>11, <1>12
  DEF Next, PanelStep

LEMMA HubInvariant == Spec => [](RegInv /\ CallInv)
  BY RegInit, RegStep, CallInit, CallStepKeeps, PTL DEF Spec

\* The pending maps hold only calls still in progress on that session
\* (DispatchCommand, DispatchRPC, failPending, HandleCommandResult).
THEOREM PendingCallsAreLive == Spec => []PendingIsLive
<1>1. CallInv => PendingIsLive
  BY DEF CallInv
<1> QED BY <1>1, HubInvariant, PTL

\* A caller that waits on a session whose handler has failed its calls has an
\* answer, in every order of registering, writing and disconnecting
\* (DispatchCommand against unregister and failPending).
THEOREM WaitersAreAnswered == Spec => []NoStrandedWaiter
<1>1. CallInv => NoStrandedWaiter
  BY DEF CallInv, NoStrandedWaiter
<1> QED BY <1>1, HubInvariant, PTL

\* What ClosedChannelStaysSilent asks of one step.
Silent == \A c \in Call : chan[c].closed => chan'[c].closed /\ chan'[c].val \in {chan[c].val, "empty"}

LEMMA SilentStep == CallInv /\ [Next]_vars => Silent
<1> SUFFICES ASSUME CallInv, [Next]_vars PROVE Silent
    OBVIOUS
<1>0. /\ chan \in [Call -> [val : Value, closed : BOOLEAN]]
      /\ \A s \in Session : \A c \in pending[s] : ~chan[c].closed
  BY DEF CallInv
<1>1. CASE UNCHANGED chan
  BY <1>1 DEF Silent
<1>2. ASSUME NEW s \in Session, NEW kind, Fail(s, kind) PROVE Silent
  BY <1>0, <1>2 DEF Fail, Silent
<1>3. ASSUME NEW s \in Session, NEW c \in Call, NEW ok \in BOOLEAN, HandleResult(s, c, ok)
      PROVE  Silent
  <2>1. CASE Matches(s, c) = {}
    BY <1>1, <1>3, <2>1 DEF HandleResult, Answer
  <2>2. CASE Matches(s, c) # {}
    <3>1. ~chan[c].closed
      BY <1>0, <2>2 DEF Matches
    <3>2. \A d \in Call \ {c} : chan'[d] = chan[d]
      BY <1>0, <1>3, <2>2 DEF HandleResult, Answer
    <3> QED BY <3>1, <3>2 DEF Silent
  <2> QED BY <2>1, <2>2
<1>4. ASSUME NEW c \in Call, DispatchClose(c) PROVE Silent
  BY <1>0, <1>4 DEF DispatchClose, Silent
<1>5. ASSUME NEW c \in Call, DispatchReceive(c) PROVE Silent
  BY <1>0, <1>5 DEF DispatchReceive, Silent
<1>6. ASSUME NEW s \in Session,
             Authenticate(s) \/ Register(s) \/ HandlerStep(s) \/ ProbeStep(s) \/ AgentStep(s)
             \/ ConnDrops(s)
      PROVE  Silent
  BY <1>1, <1>2, <1>6
     DEF Authenticate, Register, HandlerStep, ReadFails, Unregister, FailPending,
         FailRPCPending, FailPings, CloseAllTerminals, ProbeStep, ProbeTick, ProbeWrite,
         ProbeLost, ProbeStops, AgentStep, AgentAnswers, AgentPongs, AgentOpens, AgentOpened,
         AgentCloses, ShellExits, ReaderEnds, LoopEnds, ConnDrops, callVars
<1>7. ASSUME NEW s \in Session, ReadStep(s) PROVE Silent
  BY <1>1, <1>3, <1>7 DEF ReadStep, HandlePong, HandleTerminalClosed, callVars
<1>8. ASSUME NEW n \in Node, DeleteNode(n) PROVE Silent
  BY <1>1, <1>8 DEF DeleteNode
<1>9. ASSUME NEW c \in Call,
             CallStep(c) \/ DispatchReceive(c) \/ DispatchTimeout(c)
             \/ \E n \in Node : DispatchLookup(c, n)
      PROVE  Silent
  BY <1>1, <1>4, <1>5, <1>9
     DEF CallStep, DispatchRegister, DispatchWrite, DispatchUndo, DispatchTimeout, DispatchLookup
<1>10. ASSUME NEW t \in Term,
              TermStep(t) \/ BrowserCloses(t) \/ \E n \in Node : AttachLookup(t, n)
       PROVE  Silent
  BY <1>1, <1>10
     DEF TermStep, AttachRegister, AttachWrite, AttachUndo, Detach, DetachNotify,
         BrowserCloses, AttachLookup, callVars
<1>11. CASE UNCHANGED vars
  BY <1>1, <1>11 DEF vars, callVars
<1> QED
  BY <1>6, <1>7, <1>8, <1>9, <1>10, <1>11 DEF Next, PanelStep

\* No answer, failed map or late result ever touches a closed result channel
\* again (HandleCommandResult, HandleRPCResponse, failPending).
THEOREM ClosedChannelsAreSilent == Spec => ClosedChannelStaysSilent
<1>1. CallInv /\ [Next]_vars => [Silent]_vars
  BY SilentStep
<1>2. ClosedChannelStaysSilent <=> [][Silent]_vars
  BY DEF ClosedChannelStaysSilent, Silent
<1> QED BY <1>1, <1>2, HubInvariant, PTL DEF Spec

-----------------------------------------------------------------------------
(* Types, one group of variables at a time.                                 *)

\* The appenders keep a sequence, no longer than its limit.
LEMMA NewestKeeps ==
    ASSUME NEW T, NEW seq \in Seq(T), NEW n \in Nat \ {0}
    PROVE  Newest(seq, n) \in Seq(T) /\ Len(Newest(seq, n)) <= n
<1>1. CASE Len(seq) > n
  <2>1. Len(seq) - n + 1 \in 1..Len(seq) + 1 /\ Len(seq) \in Len(seq) - n..Len(seq)
    BY <1>1
  <2>2. SubSeq(seq, Len(seq) - n + 1, Len(seq)) \in Seq(T)
    BY <1>1, <2>1, SubSeqProperties
  <2>3. Len(SubSeq(seq, Len(seq) - n + 1, Len(seq))) = n
    BY <1>1, <2>1, SubSeqProperties
  <2> QED BY <1>1, <2>2, <2>3 DEF Newest
<1>2. CASE ~(Len(seq) > n)
  BY <1>2 DEF Newest
<1> QED BY <1>1, <1>2

LogInv ==
    /\ cmdLog \in [Node -> Seq(LogEntry)]
    /\ \A n \in Node : Len(cmdLog[n]) <= LogLimit

LEMMA LoggedKeeps ==
    ASSUME LogInv, NEW c \in Call, NEW ok \in BOOLEAN, call[c].via \in Session, Logged(c, ok)
    PROVE  LogInv'
<1> DEFINE n == NodeOf[call[c].via]
           new == Append(cmdLog[n], [id |-> c, ok |-> ok])
<1>1. n \in Node /\ LogLimit \in Nat \ {0}
  BY HubAssumption
<1>2. new \in Seq(LogEntry)
  <2>1. [id |-> c, ok |-> ok] \in LogEntry
    BY DEF LogEntry
  <2> QED BY <1>1, <2>1 DEF LogInv
<1>3. Newest(new, LogLimit) \in Seq(LogEntry) /\ Len(Newest(new, LogLimit)) <= LogLimit
  BY <1>1, <1>2, NewestKeeps
<1>4. CASE cmdLog' = [cmdLog EXCEPT ![n] = Newest(new, LogLimit)]
  BY <1>1, <1>3, <1>4 DEF LogInv
<1>5. CASE cmdLog' = cmdLog
  BY <1>5 DEF LogInv
<1> QED BY <1>4, <1>5 DEF Logged

PingInv ==
    /\ nextPing \in [Session -> Nat \ {0}] /\ pings \in [Session -> SUBSET Nat]
    /\ \A s \in Session : pings[s] \subseteq 1..nextPing[s]
    /\ probe \in [Session -> {"off", "probing", "writing", "lost", "done"}]
    /\ counted \in [Session -> SUBSET Nat]
    /\ latency \in [Node -> Seq(BOOLEAN)]
    /\ \A n \in Node : Len(latency[n]) <= LatencyLimit
    /\ \A s \in Session : probe[s] \in {"writing", "lost"} => nextPing[s] > 1

\* Any number of samples leaves the histories well formed.
LEMMA SampleKeeps ==
    ASSUME PingInv, NEW s \in Session, NEW ps \in SUBSET (1..nextPing[s]), NEW ok \in BOOLEAN,
           Sample(s, ps, ok)
    PROVE  /\ counted' \in [Session -> SUBSET Nat]
           /\ latency' \in [Node -> Seq(BOOLEAN)]
           /\ \A n \in Node : Len(latency'[n]) <= LatencyLimit
<1> DEFINE n == NodeOf[s]
           more == [i \in 1..Cardinality(ps) |-> ok]
           new == latency[n] \o more
<1>1. n \in Node /\ LatencyLimit \in Nat \ {0}
  BY HubAssumption
<1>2. Cardinality(ps) \in Nat
  <2>1. IsFiniteSet(1..nextPing[s])
    BY FS_Interval DEF PingInv
  <2> QED BY <2>1, FS_Subset, FS_CardinalityType
<1>3. more \in Seq(BOOLEAN)
  BY <1>2
<1>4. new \in Seq(BOOLEAN)
  BY <1>1, <1>3 DEF PingInv
<1>5. Newest(new, LatencyLimit) \in Seq(BOOLEAN) /\ Len(Newest(new, LatencyLimit)) <= LatencyLimit
  BY <1>1, <1>4, NewestKeeps
<1>6. latency' = [latency EXCEPT ![n] = Newest(new, LatencyLimit)]
  BY DEF Sample
<1>7. counted' = [counted EXCEPT ![s] = @ \union ps]
  BY DEF Sample
<1>8. ps \subseteq Nat
  BY DEF PingInv
<1> HIDE DEF new, more, n
<1> QED BY <1>1, <1>5, <1>6, <1>7, <1>8 DEF PingInv

LEMMA PingStep == PingInv /\ [Next]_vars => PingInv'
<1> SUFFICES ASSUME PingInv, [Next]_vars PROVE PingInv'
    OBVIOUS
<1>1. CASE UNCHANGED pingVars
  BY <1>1 DEF PingInv, pingVars
<1>2. ASSUME NEW s \in Session, Register(s) PROVE PingInv'
  BY <1>2 DEF Register, PingInv
<1>3. ASSUME NEW s \in Session, FailPings(s) PROVE PingInv'
  <2>1. pings[s] \in SUBSET (1..nextPing[s])
    BY DEF PingInv
  <2>2. /\ counted' \in [Session -> SUBSET Nat] /\ latency' \in [Node -> Seq(BOOLEAN)]
        /\ \A n \in Node : Len(latency'[n]) <= LatencyLimit
    BY <1>3, <2>1, SampleKeeps DEF FailPings
  <2> QED BY <1>3, <2>2 DEF FailPings, PingInv
<1>4. ASSUME NEW s \in Session, ProbeTick(s) PROVE PingInv'
  <2> PICK late \in SUBSET pings[s] :
         /\ Sample(s, late, FALSE)
         /\ IF pings[s] \ late # {}
            THEN /\ pings' = [pings EXCEPT ![s] = @ \ late]
                 /\ UNCHANGED <<nextPing, probe>>
            ELSE /\ nextPing[s] <= MaxPing
                 /\ pings' = [pings EXCEPT ![s] = {nextPing[s]}]
                 /\ nextPing' = [nextPing EXCEPT ![s] = @ + 1]
                 /\ probe' = [probe EXCEPT ![s] = "writing"]
    BY <1>4 DEF ProbeTick
  <2>1. late \in SUBSET (1..nextPing[s])
    BY DEF PingInv
  <2>2. /\ counted' \in [Session -> SUBSET Nat] /\ latency' \in [Node -> Seq(BOOLEAN)]
        /\ \A n \in Node : Len(latency'[n]) <= LatencyLimit
    BY <2>1, SampleKeeps
  <2>3. CASE pings[s] \ late # {}
    BY <2>2, <2>3 DEF PingInv
  <2>4. CASE pings[s] \ late = {}
    <3>1. nextPing[s] \in Nat \ {0}
      BY DEF PingInv
    <3>2. {nextPing[s]} \subseteq 1..(nextPing[s] + 1) /\ nextPing[s] + 1 \in Nat \ {0}
          /\ nextPing[s] + 1 > 1
      BY <3>1
    <3>3. /\ pings' = [pings EXCEPT ![s] = {nextPing[s]}]
          /\ nextPing' = [nextPing EXCEPT ![s] = nextPing[s] + 1]
          /\ probe' = [probe EXCEPT ![s] = "writing"]
      BY <2>4
    <3>4. /\ nextPing' \in [Session -> Nat \ {0}] /\ pings' \in [Session -> SUBSET Nat]
          /\ probe' \in [Session -> {"off", "probing", "writing", "lost", "done"}]
      BY <3>1, <3>2, <3>3 DEF PingInv
    <3>5. \A r \in Session : pings'[r] \subseteq 1..nextPing'[r]
      BY <3>2, <3>3 DEF PingInv
    <3>6. \A r \in Session : probe'[r] \in {"writing", "lost"} => nextPing'[r] > 1
      BY <3>2, <3>3 DEF PingInv
    <3> QED BY <2>2, <3>4, <3>5, <3>6 DEF PingInv
  <2> QED BY <2>3, <2>4
<1>5. ASSUME NEW s \in Session, ProbeWrite(s) PROVE PingInv'
  BY <1>5 DEF ProbeWrite, PingInv
<1>6. ASSUME NEW s \in Session, ProbeLost(s) PROVE PingInv'
  <2>0. nextPing[s] \in Nat /\ nextPing[s] > 1
    BY <1>6 DEF ProbeLost, PingInv
  <2>1. {nextPing[s] - 1} \in SUBSET (1..nextPing[s])
    BY <2>0
  <2>2. /\ counted' \in [Session -> SUBSET Nat] /\ latency' \in [Node -> Seq(BOOLEAN)]
        /\ \A n \in Node : Len(latency'[n]) <= LatencyLimit
    BY <1>6, <2>1, SampleKeeps DEF ProbeLost
  <2> QED BY <1>6, <2>2 DEF ProbeLost, PingInv
<1>7. ASSUME NEW s \in Session, ProbeStops(s) PROVE PingInv'
  BY <1>7 DEF ProbeStops, PingInv
<1>8. ASSUME NEW s \in Session, NEW p \in 1..MaxPing, HandlePong(s, p) PROVE PingInv'
  <2>1. CASE p \in pings[s] /\ Sample(s, {p}, TRUE) /\ pings' = [pings EXCEPT ![s] = @ \ {p}]
    <3>1. {p} \in SUBSET (1..nextPing[s])
      BY <2>1 DEF PingInv
    <3>2. /\ counted' \in [Session -> SUBSET Nat] /\ latency' \in [Node -> Seq(BOOLEAN)]
          /\ \A n \in Node : Len(latency'[n]) <= LatencyLimit
      BY <2>1, <3>1, SampleKeeps
    <3> QED BY <1>8, <2>1, <3>2 DEF HandlePong, PingInv
  <2>2. CASE UNCHANGED <<pings, counted, latency>>
    BY <1>8, <2>2 DEF HandlePong, PingInv
  <2> QED BY <1>8, <2>1, <2>2 DEF HandlePong
<1>9. ASSUME NEW n \in Node, DeleteNode(n) PROVE PingInv'
  BY <1>9, HubAssumption DEF DeleteNode, PingInv
<1>10. ASSUME NEW s \in Session,
              Authenticate(s) \/ HandlerStep(s) \/ AgentStep(s) \/ ConnDrops(s)
       PROVE  PingInv'
  BY <1>1, <1>3, <1>10
     DEF Authenticate, HandlerStep, ReadFails, Unregister, FailPending, FailRPCPending,
         CloseAllTerminals, AgentStep, AgentAnswers, AgentPongs, AgentOpens, AgentOpened,
         AgentCloses, ShellExits, ReaderEnds, LoopEnds, ConnDrops
<1>11. ASSUME NEW s \in Session, ReadStep(s) PROVE PingInv'
  BY <1>1, <1>8, <1>11 DEF ReadStep, HandleResult, HandleTerminalClosed
<1>12. ASSUME NEW c \in Call,
              CallStep(c) \/ DispatchReceive(c) \/ DispatchTimeout(c)
              \/ \E n \in Node : DispatchLookup(c, n)
       PROVE  PingInv'
  BY <1>1, <1>12
     DEF CallStep, DispatchRegister, DispatchWrite, DispatchUndo, DispatchClose,
         DispatchReceive, DispatchTimeout, DispatchLookup
<1>13. ASSUME NEW t \in Term,
              TermStep(t) \/ BrowserCloses(t) \/ \E n \in Node : AttachLookup(t, n)
       PROVE  PingInv'
  BY <1>1, <1>13
     DEF TermStep, AttachRegister, AttachWrite, AttachUndo, Detach, DetachNotify,
         BrowserCloses, AttachLookup
<1>14. ASSUME NEW s \in Session, ProbeStep(s) PROVE PingInv'
  BY <1>4, <1>5, <1>6, <1>7, <1>14 DEF ProbeStep
<1>15. CASE UNCHANGED vars
  BY <1>1, <1>15 DEF vars
<1> QED
  BY <1>2, <1>9, <1>10, <1>11, <1>12, <1>13, <1>14, <1>15 DEF Next, PanelStep

LEMMA LogInit == Init => LogInv
  BY HubAssumption DEF Init, LogInv

LEMMA PingInit == Init => PingInv
  BY HubAssumption DEF Init, PingInv

LEMMA LogStep == CallInv /\ LogInv /\ [Next]_vars => LogInv'
<1> SUFFICES ASSUME CallInv, LogInv, [Next]_vars PROVE LogInv'
    OBVIOUS
<1>1. CASE UNCHANGED cmdLog
  BY <1>1 DEF LogInv
<1>2. ASSUME NEW c \in Call, DispatchReceive(c) PROVE LogInv'
  BY <1>2, LoggedKeeps DEF DispatchReceive, CallInv
<1>3. ASSUME NEW c \in Call, DispatchTimeout(c) PROVE LogInv'
  BY <1>3, LoggedKeeps DEF DispatchTimeout, CallInv
<1>4. ASSUME NEW n \in Node, DeleteNode(n) PROVE LogInv'
  BY <1>4, HubAssumption DEF DeleteNode, LogInv
<1>5. ASSUME NEW s \in Session,
             Authenticate(s) \/ Register(s) \/ HandlerStep(s) \/ ReadStep(s) \/ ProbeStep(s)
             \/ AgentStep(s) \/ ConnDrops(s)
      PROVE  LogInv'
  BY <1>1, <1>5
     DEF Authenticate, Register, HandlerStep, ReadFails, Unregister, FailPending,
         FailRPCPending, FailPings, CloseAllTerminals, Fail, ReadStep, HandleResult, HandlePong,
         HandleTerminalClosed, ProbeStep, ProbeTick, ProbeWrite, ProbeLost, ProbeStops,
         AgentStep, AgentAnswers, AgentPongs, AgentOpens, AgentOpened, AgentCloses, ShellExits,
         ReaderEnds, LoopEnds, ConnDrops, callVars
<1>6. ASSUME NEW c \in Call, CallStep(c) \/ \E n \in Node : DispatchLookup(c, n) PROVE LogInv'
  BY <1>1, <1>6
     DEF CallStep, DispatchRegister, DispatchWrite, DispatchUndo, DispatchClose, DispatchLookup
<1>7. ASSUME NEW t \in Term,
             TermStep(t) \/ BrowserCloses(t) \/ \E n \in Node : AttachLookup(t, n)
      PROVE  LogInv'
  BY <1>1, <1>7
     DEF TermStep, AttachRegister, AttachWrite, AttachUndo, Detach, DetachNotify,
         BrowserCloses, AttachLookup, callVars
<1>8. CASE UNCHANGED vars
  BY <1>1, <1>8 DEF vars, callVars
<1> QED
  BY <1>2, <1>3, <1>4, <1>5, <1>6, <1>7, <1>8 DEF Next, PanelStep

SetInv ==
    /\ rows \subseteq Node /\ cancelled \subseteq Session
    /\ terms \in [Session -> SUBSET Term]
    /\ term \in [Term -> [pc : TermPc, via : Session \union {NoSession}]]
    /\ browser \subseteq Term
    /\ client \subseteq Session /\ reading \subseteq Session
    /\ opening \in [Session -> SUBSET Term] /\ shells \in [Session -> SUBSET Term]
    /\ up \in BOOLEAN

LEMMA SetInit == Init => SetInv
  BY HubAssumption DEF Init, SetInv, TermPc

LEMMA SetStep == RegInv /\ SetInv /\ [Next]_vars => SetInv'
<1> SUFFICES ASSUME RegInv, SetInv, [Next]_vars PROVE SetInv'
    OBVIOUS
<1>1. ASSUME UNCHANGED <<rows, cancelled, terms, term, browser, agentVars, up>> PROVE SetInv'
  BY <1>1 DEF SetInv, agentVars
<1>2. ASSUME NEW s \in Session, Authenticate(s) \/ Register(s) PROVE SetInv'
  <2>1. CASE Authenticate(s)
    BY <1>1, <2>1 DEF Authenticate, termVars, wireVars
  <2>2. CASE Register(s)
    <3>1. {hub[NodeOf[s]]} \ {NoSession} \subseteq Session
      BY HubAssumption DEF RegInv
    <3>2. cancelled' \subseteq Session /\ client' \subseteq Session /\ reading' \subseteq Session
      BY <2>2, <3>1 DEF Register, SetInv
    <3>3. UNCHANGED <<rows, terms, term, browser, opening, shells, up>>
      BY <2>2 DEF Register, termVars
    <3> QED BY <3>2, <3>3 DEF SetInv
  <2> QED BY <1>2, <2>1, <2>2
<1>3. ASSUME NEW s \in Session, HandlerStep(s) PROVE SetInv'
  <2>1. CASE CloseAllTerminals(s)
    BY <2>1 DEF CloseAllTerminals, SetInv, wireVars, agentVars
  <2> QED BY <1>1, <1>3, <2>1
          DEF HandlerStep, ReadFails, Unregister, FailPending, FailRPCPending, FailPings,
              termVars, wireVars
<1>4. ASSUME NEW s \in Session, ReadStep(s) PROVE SetInv'
  <2>1. ASSUME NEW t \in Term, HandleTerminalClosed(s, t) PROVE SetInv'
    BY <2>1 DEF HandleTerminalClosed, SetInv, regVars, agentVars
  <2> QED BY <1>1, <1>4, <2>1
          DEF ReadStep, HandleResult, HandlePong, regVars, termVars
<1>5. ASSUME NEW s \in Session, ProbeStep(s) PROVE SetInv'
  BY <1>1, <1>5
     DEF ProbeStep, ProbeTick, ProbeWrite, ProbeLost, ProbeStops, Sends, Breaks, regVars,
         termVars, wireVars
<1>6. ASSUME NEW n \in Node, DeleteNode(n) PROVE SetInv'
  BY <1>6 DEF DeleteNode, SetInv, termVars, wireVars, agentVars
<1>7. ASSUME NEW c \in Call, CallStep(c) PROVE SetInv'
  <2>1. CASE DispatchClose(c)
    BY <2>1 DEF DispatchClose, SetInv, termVars, agentVars
  <2> QED BY <1>1, <1>7, <2>1
          DEF CallStep, DispatchRegister, DispatchWrite, DispatchUndo, Sends, Breaks, regVars,
              termVars, wireVars
<1>8. ASSUME NEW c \in Call, DispatchReceive(c) \/ DispatchTimeout(c)
             \/ \E n \in Node : DispatchLookup(c, n)
      PROVE  SetInv'
  BY <1>1, <1>8 DEF DispatchReceive, DispatchTimeout, DispatchLookup, regVars, termVars, wireVars
<1>9. ASSUME NEW t \in Term, TermStep(t) PROVE SetInv'
  <2>1. CASE AttachRegister(t)
    BY <2>1 DEF AttachRegister, SetInv, TermPc, regVars, wireVars, agentVars
  <2>2. CASE AttachWrite(t)
    BY <2>2 DEF AttachWrite, Sends, Breaks, SetInv, TermPc, agentVars
  <2>3. CASE AttachUndo(t)
    BY <2>3 DEF AttachUndo, SetInv, TermPc, regVars, wireVars, agentVars
  <2>4. CASE Detach(t)
    BY <2>4 DEF Detach, SetInv, TermPc, regVars, wireVars, agentVars
  <2>5. CASE DetachNotify(t)
    BY <2>5 DEF DetachNotify, Sends, Breaks, SetInv, TermPc, wireVars, agentVars
  <2> QED BY <1>9, <2>1, <2>2, <2>3, <2>4, <2>5 DEF TermStep
<1>10. ASSUME NEW t \in Term, BrowserCloses(t) PROVE SetInv'
  BY <1>10 DEF BrowserCloses, SetInv, regVars, wireVars, agentVars
<1>11. ASSUME NEW t \in Term, NEW n \in Node, AttachLookup(t, n) PROVE SetInv'
  BY <1>11 DEF AttachLookup, RegInv, SetInv, TermPc, regVars, wireVars, agentVars
<1>12. ASSUME NEW s \in Session, AgentStep(s) PROVE SetInv'
  <2>1. ASSUME NEW t \in Term,
               AgentOpens(s, t) \/ AgentOpened(s, t) \/ AgentCloses(s, t) \/ ShellExits(s, t)
        PROVE  SetInv'
    BY <2>1 DEF AgentOpens, AgentOpened, AgentCloses, ShellExits, SetInv, regVars, termVars
  <2>2. CASE ReaderEnds(s) \/ LoopEnds(s)
    BY <2>2 DEF ReaderEnds, LoopEnds, SetInv, regVars, termVars
  <2> QED BY <1>1, <1>12, <2>1, <2>2
          DEF AgentStep, AgentAnswers, AgentPongs, regVars, termVars
<1>13. ASSUME NEW s \in Session, ConnDrops(s) PROVE SetInv'
  BY <1>1, <1>13 DEF ConnDrops, Breaks, termVars
<1>14. ASSUME UNCHANGED vars PROVE SetInv'
  BY <1>1, <1>14 DEF vars, regVars, termVars, wireVars
<1> QED
  BY <1>2, <1>3, <1>4, <1>5, <1>6, <1>7, <1>8, <1>9, <1>10, <1>11, <1>12, <1>13, <1>14
  DEF Next, PanelStep

\* Frames in flight.
WireInv ==
    /\ toAgent \in [Session -> SUBSET Frame]
    /\ toPanel \in [Session -> SUBSET Reply]

LEMMA WireInit == Init => WireInv
  BY DEF Init, WireInv

LEMMA SendsKeeps ==
    ASSUME WireInv, NEW s \in Session, NEW frame \in Frame, Sends(s, frame) PROVE WireInv'
  BY DEF WireInv, Sends

LEMMA BreaksKeeps ==
    ASSUME WireInv, NEW s, Breaks(s) PROVE WireInv'
  BY DEF WireInv, Breaks, Discarding

LEMMA TakesKeeps ==
    ASSUME WireInv, NEW s \in Session, NEW frame, Takes(s, frame)
    PROVE  toAgent' \in [Session -> SUBSET Frame]
  BY DEF WireInv, Takes

LEMMA RepliesKeeps ==
    ASSUME WireInv, NEW s \in Session, NEW frames \in SUBSET Reply, Replies(s, frames)
    PROVE  toPanel' \in [Session -> SUBSET Reply]
  BY DEF WireInv, Replies

LEMMA WireStep == RegInv /\ CallInv /\ PingInv /\ SetInv /\ WireInv /\ [Next]_vars => WireInv'
<1> SUFFICES ASSUME RegInv, CallInv, PingInv, SetInv, WireInv, [Next]_vars PROVE WireInv'
    OBVIOUS
<1>1. CASE UNCHANGED <<toAgent, toPanel>>
  BY <1>1 DEF WireInv
<1>2. ASSUME NEW s \in Session, Register(s) PROVE WireInv'
  BY <1>2 DEF Register, Discarding, WireInv
<1>3. ASSUME NEW s \in Session, Authenticate(s) \/ HandlerStep(s) PROVE WireInv'
  BY <1>1, <1>3
     DEF Authenticate, HandlerStep, ReadFails, Unregister, FailPending, FailRPCPending,
         FailPings, CloseAllTerminals, wireVars
<1>4. ASSUME NEW s \in Session, ReadStep(s) PROVE WireInv'
  <2>1. /\ toAgent' = toAgent
        /\ \E frame : toPanel' = [toPanel EXCEPT ![s] = @ \ {frame}]
    BY <1>4 DEF ReadStep, HandleResult, HandlePong, HandleTerminalClosed
  <2> QED
    BY <2>1 DEF WireInv
<1>5. ASSUME NEW s \in Session, ProbeStep(s) PROVE WireInv'
  <2>1. CASE ProbeWrite(s)
    <3>0. nextPing[s] - 1 \in Nat
      BY DEF PingInv
    <3>1. [kind |-> "ping", id |-> nextPing[s] - 1] \in Frame
      BY <3>0 DEF Frame
    <3> QED BY <2>1, <3>1, SendsKeeps, BreaksKeeps DEF ProbeWrite
  <2> QED BY <1>1, <1>5, <2>1 DEF ProbeStep, ProbeTick, ProbeLost, ProbeStops, wireVars
<1>6. ASSUME NEW c \in Call, CallStep(c) PROVE WireInv'
  <2>1. CASE DispatchWrite(c)
    <3>1. [kind |-> "call", id |-> c] \in Frame /\ call[c].via \in Session
      BY <2>1 DEF Frame, DispatchWrite, CallInv
    <3> QED BY <2>1, <3>1, SendsKeeps, BreaksKeeps DEF DispatchWrite
  <2>2. CASE DispatchClose(c)
    BY <2>2 DEF DispatchClose, Discarding, WireInv
  <2> QED BY <1>1, <1>6, <2>1, <2>2 DEF CallStep, DispatchRegister, DispatchUndo, wireVars
<1>7. ASSUME NEW c \in Call, DispatchReceive(c) \/ DispatchTimeout(c)
             \/ \E n \in Node : DispatchLookup(c, n)
      PROVE  WireInv'
  BY <1>1, <1>7 DEF DispatchReceive, DispatchTimeout, DispatchLookup, wireVars
<1>8. ASSUME NEW t \in Term, TermStep(t) PROVE WireInv'
  <2>1. CASE AttachWrite(t)
    <3>1. [kind |-> "open", id |-> t] \in Frame
      BY DEF Frame
    <3>2. CASE Sends(term[t].via, [kind |-> "open", id |-> t])
      BY <3>1, <3>2 DEF Sends, WireInv
    <3>3. CASE Breaks(term[t].via)
      BY <3>3, BreaksKeeps
    <3> QED BY <2>1, <3>2, <3>3 DEF AttachWrite
  <2>2. CASE DetachNotify(t)
    <3> DEFINE cur == hub[NodeOf[term[t].via]]
    <3>1. [kind |-> "close", id |-> t] \in Frame
      BY DEF Frame
    <3>2. CASE Sends(cur, [kind |-> "close", id |-> t])
      BY <3>1, <3>2 DEF Sends, WireInv
    <3>3. CASE Breaks(cur)
      BY <3>3, BreaksKeeps
    <3> QED BY <1>1, <2>2, <3>2, <3>3 DEF DetachNotify, wireVars
  <2> QED BY <1>1, <1>8, <2>1, <2>2
          DEF TermStep, AttachRegister, AttachUndo, Detach, wireVars
<1>9. ASSUME NEW t \in Term, BrowserCloses(t) \/ \E n \in Node : AttachLookup(t, n)
      PROVE  WireInv'
  BY <1>1, <1>9 DEF BrowserCloses, AttachLookup, wireVars
<1>10. ASSUME NEW s \in Session, AgentStep(s) PROVE WireInv'
  <2>1. ASSUME NEW c \in Call, NEW ok \in BOOLEAN, AgentAnswers(s, c, ok) PROVE WireInv'
    <3>1. {[kind |-> IF ok THEN "ok" ELSE "failed", id |-> c]} \in SUBSET Reply
      BY DEF Reply
    <3> QED BY <2>1, <3>1, TakesKeeps, RepliesKeeps DEF AgentAnswers, WireInv
  <2>2. ASSUME NEW p \in 1..MaxPing, AgentPongs(s, p) PROVE WireInv'
    <3>1. {[kind |-> "pong", id |-> p]} \in SUBSET Reply
      BY DEF Reply
    <3> QED BY <2>2, <3>1, TakesKeeps, RepliesKeeps DEF AgentPongs, WireInv
  <2>3. ASSUME NEW t \in Term,
               AgentOpens(s, t) \/ AgentOpened(s, t) \/ AgentCloses(s, t) \/ ShellExits(s, t)
        PROVE  WireInv'
    <3>1. {[kind |-> "closed", id |-> t]} \in SUBSET Reply
      BY DEF Reply
    <3> QED BY <2>3, <3>1, TakesKeeps, RepliesKeeps
            DEF AgentOpens, AgentOpened, AgentCloses, ShellExits, WireInv
  <2>4. CASE ReaderEnds(s) \/ LoopEnds(s)
    BY <2>4 DEF ReaderEnds, LoopEnds, WireInv
  <2> QED BY <1>10, <2>1, <2>2, <2>3, <2>4 DEF AgentStep
<1>11. ASSUME NEW s \in Session, ConnDrops(s) PROVE WireInv'
  BY <1>11, BreaksKeeps DEF ConnDrops
<1>12. ASSUME NEW n \in Node, DeleteNode(n) PROVE WireInv'
  BY <1>1, <1>12 DEF DeleteNode, wireVars
<1>13. ASSUME UNCHANGED vars PROVE WireInv'
  BY <1>1, <1>13 DEF vars, wireVars
<1> QED
  BY <1>2, <1>3, <1>4, <1>5, <1>6, <1>7, <1>8, <1>9, <1>10, <1>11, <1>12, <1>13
  DEF Next, PanelStep

\* The state of the hub has its type: in particular the command log and the
\* latency history never outgrow their limits (appendAgentCommandLog,
\* appendAgentLatency).
THEOREM HubTypes == Spec => []TypeOK
<1> DEFINE Inv == RegInv /\ CallInv /\ LogInv /\ PingInv /\ SetInv /\ WireInv
<1>1. Init => Inv
  BY RegInit, CallInit, LogInit, PingInit, SetInit, WireInit
<1>2. Inv /\ [Next]_vars => Inv'
  BY RegStep, CallStepKeeps, LogStep, PingStep, SetStep, WireStep
<1>3. Inv => TypeOK
  BY DEF RegInv, CallInv, LogInv, PingInv, SetInv, WireInv, TypeOK
<1> HIDE DEF Inv
<1> QED BY <1>1, <1>2, <1>3, PTL DEF Spec

-----------------------------------------------------------------------------
(* The latency probes.                                                      *)

\* Every probe sent so far has left a sample or is still in the map; while one is
\* being written the map holds no other; and once the handler has failed the map,
\* only a probe that is about to notice the dead connection is in it.
ProbeInv ==
    \A s \in Session :
        /\ 1..(nextPing[s] - 1) \subseteq counted[s] \union pings[s]
        /\ probe[s] \in {"writing", "lost"} => pings[s] \subseteq {nextPing[s] - 1}
        /\ stage[s] \in {"closingTerms", "gone"} =>
             pings[s] = {} \/ probe[s] \in {"writing", "lost"}

LEMMA ProbeInit == Init => ProbeInv
  BY DEF Init, ProbeInv

LEMMA ProbeQuiet ==
    ASSUME ProbeInv, UNCHANGED <<pings, nextPing, probe, counted>>,
           \A s \in Session : stage'[s] \in {"closingTerms", "gone"} =>
                                stage[s] \in {"closingTerms", "gone"}
    PROVE  ProbeInv'
  BY DEF ProbeInv

\* A step of one session that takes ps out of its map after sampling them.
LEMMA ProbeSamples ==
    ASSUME PingInv, ProbeInv, NEW s \in Session, NEW ps \in SUBSET Nat, NEW ok \in BOOLEAN,
           Sample(s, ps, ok), pings' = [pings EXCEPT ![s] = @ \ ps], nextPing' = nextPing
    PROVE  /\ \A r \in Session : 1..(nextPing'[r] - 1) \subseteq counted'[r] \union pings'[r]
           /\ \A r \in Session : pings'[r] \subseteq pings[r]
<1>1. counted' = [counted EXCEPT ![s] = @ \union ps]
  BY DEF Sample
<1>2. \A r \in Session : /\ counted'[r] = (IF r = s THEN counted[r] \union ps ELSE counted[r])
                         /\ pings'[r] = (IF r = s THEN pings[r] \ ps ELSE pings[r])
  BY <1>1 DEF PingInv
<1>3. ASSUME NEW r \in Session
      PROVE  /\ 1..(nextPing'[r] - 1) \subseteq counted'[r] \union pings'[r]
             /\ pings'[r] \subseteq pings[r]
  <2>1. 1..(nextPing[r] - 1) \subseteq counted[r] \union pings[r] /\ nextPing'[r] = nextPing[r]
    BY DEF ProbeInv
  <2>2. counted[r] \union pings[r] \subseteq counted'[r] \union pings'[r]
    BY ONLY <1>2
  <2>3. pings'[r] \subseteq pings[r]
    BY ONLY <1>2
  <2> QED BY <2>1, <2>2, <2>3
<1> QED BY <1>3

LEMMA ProbeStepKeeps == RegInv /\ PingInv /\ ProbeInv /\ [Next]_vars => ProbeInv'
<1> SUFFICES ASSUME RegInv, PingInv, ProbeInv, [Next]_vars PROVE ProbeInv'
    OBVIOUS
<1>1. CASE UNCHANGED <<pingVars, stage>>
  BY <1>1, ProbeQuiet DEF pingVars
<1>2. ASSUME NEW s \in Session, Authenticate(s) PROVE ProbeInv'
  BY <1>2, ProbeQuiet DEF Authenticate, pingVars, RegInv
<1>3. ASSUME NEW s \in Session, Register(s) PROVE ProbeInv'
  BY <1>3 DEF Register, ProbeInv, RegInv, PingInv
<1>4. ASSUME NEW s \in Session, HandlerStep(s) PROVE ProbeInv'
  <2>1. CASE ReadFails(s) \/ Unregister(s) \/ FailPending(s) \/ FailRPCPending(s)
              \/ CloseAllTerminals(s)
    BY <2>1, ProbeQuiet
       DEF ReadFails, Unregister, FailPending, FailRPCPending, CloseAllTerminals, pingVars, RegInv
  <2>2. CASE FailPings(s)
    <3>1. pings[s] \in SUBSET Nat /\ pings'[s] = {} /\ probe' = probe /\ nextPing' = nextPing
      BY <2>2 DEF FailPings, PingInv
    <3>2. pings' = [pings EXCEPT ![s] = @ \ pings[s]]
      BY <2>2 DEF FailPings, PingInv
    <3>3. /\ \A r \in Session : 1..(nextPing'[r] - 1) \subseteq counted'[r] \union pings'[r]
          /\ \A r \in Session : pings'[r] \subseteq pings[r]
      BY <2>2, <3>1, <3>2, ProbeSamples DEF FailPings
    <3>4. \A r \in Session \ {s} : stage'[r] = stage[r]
      BY <2>2 DEF FailPings, RegInv
    <3> QED BY <3>1, <3>3, <3>4 DEF ProbeInv
  <2> QED BY <1>4, <2>1, <2>2 DEF HandlerStep
<1>5. ASSUME NEW s \in Session, ProbeTick(s) PROVE ProbeInv'
  <2> PICK late \in SUBSET pings[s] :
         /\ Sample(s, late, FALSE)
         /\ IF pings[s] \ late # {}
            THEN /\ pings' = [pings EXCEPT ![s] = @ \ late]
                 /\ UNCHANGED <<nextPing, probe>>
            ELSE /\ nextPing[s] <= MaxPing
                 /\ pings' = [pings EXCEPT ![s] = {nextPing[s]}]
                 /\ nextPing' = [nextPing EXCEPT ![s] = @ + 1]
                 /\ probe' = [probe EXCEPT ![s] = "writing"]
    BY <1>5 DEF ProbeTick
  <2>0. probe[s] = "probing" /\ UNCHANGED stage
    BY <1>5 DEF ProbeTick, regVars
  <2>1. CASE pings[s] \ late # {}
    <3>1. late \in SUBSET Nat /\ pings' = [pings EXCEPT ![s] = @ \ late]
          /\ UNCHANGED <<nextPing, probe>>
      BY <2>1 DEF PingInv
    <3>2. /\ \A r \in Session : 1..(nextPing'[r] - 1) \subseteq counted'[r] \union pings'[r]
          /\ \A r \in Session : pings'[r] \subseteq pings[r]
      BY <3>1, ProbeSamples
    <3> QED BY <2>0, <3>1, <3>2 DEF ProbeInv
  <2>2. CASE pings[s] \ late = {}
    <3>1. nextPing[s] \in Nat \ {0}
      BY DEF PingInv
    <3>2. /\ pings'[s] = {nextPing[s]} /\ nextPing'[s] = nextPing[s] + 1 /\ probe'[s] = "writing"
          /\ \A r \in Session \ {s} : pings'[r] = pings[r] /\ nextPing'[r] = nextPing[r]
                                      /\ probe'[r] = probe[r]
      BY <2>2 DEF PingInv
    <3>3. /\ counted'[s] = counted[s] \union pings[s]
          /\ \A r \in Session \ {s} : counted'[r] = counted[r]
      <4>1. counted' = [counted EXCEPT ![s] = @ \union late] /\ late = pings[s]
        BY <2>2 DEF Sample
      <4> QED BY <4>1 DEF PingInv
    <3>4. 1..(nextPing'[s] - 1) \subseteq counted'[s] \union pings'[s]
      <4>1. 1..(nextPing[s] - 1) \subseteq counted[s] \union pings[s]
        BY DEF ProbeInv
      <4>2. \A k \in 1..nextPing[s] : k \in 1..(nextPing[s] - 1) \/ k = nextPing[s]
        BY <3>1
      <4>3. nextPing'[s] - 1 = nextPing[s]
        BY <3>1, <3>2
      <4> QED BY <3>2, <3>3, <4>1, <4>2, <4>3
    <3>5. pings'[s] \subseteq {nextPing'[s] - 1}
      BY <3>1, <3>2
    <3> QED BY <2>0, <3>2, <3>3, <3>4, <3>5 DEF ProbeInv
  <2> QED BY <2>1, <2>2
<1>6. ASSUME NEW s \in Session, ProbeWrite(s) PROVE ProbeInv'
  <2>1. UNCHANGED <<pings, nextPing, counted, stage>> /\ probe[s] = "writing"
    BY <1>6 DEF ProbeWrite
  <2>2. CASE conn[s] = "open" /\ probe' = [probe EXCEPT ![s] = "probing"]
    <3>1. stage[s] = "reading"
      BY <2>2 DEF RegInv
    <3> QED BY <2>1, <2>2, <3>1 DEF ProbeInv, PingInv
  <2>3. CASE probe' = [probe EXCEPT ![s] = "lost"]
    BY <2>1, <2>3 DEF ProbeInv, PingInv
  <2> QED BY <1>6, <2>2, <2>3 DEF ProbeWrite, Sends
<1>7. ASSUME NEW s \in Session, ProbeLost(s) PROVE ProbeInv'
  <2>1. /\ probe[s] = "lost" /\ pings' = [pings EXCEPT ![s] = @ \ {nextPing[s] - 1}]
        /\ Sample(s, {nextPing[s] - 1}, FALSE) /\ probe' = [probe EXCEPT ![s] = "probing"]
        /\ UNCHANGED <<nextPing, stage>>
    BY <1>7 DEF ProbeLost, regVars
  <2>2. {nextPing[s] - 1} \in SUBSET Nat
    BY <2>1 DEF PingInv
  <2>3. /\ \A r \in Session : 1..(nextPing'[r] - 1) \subseteq counted'[r] \union pings'[r]
        /\ \A r \in Session : pings'[r] \subseteq pings[r]
    BY <2>1, <2>2, ProbeSamples
  <2>4. pings'[s] = {}
    BY <2>1 DEF ProbeInv, PingInv
  <2> QED BY <2>1, <2>3, <2>4 DEF ProbeInv, PingInv
<1>8. ASSUME NEW s \in Session, ProbeStops(s) PROVE ProbeInv'
  BY <1>8 DEF ProbeStops, regVars, ProbeInv, PingInv
<1>9. ASSUME NEW s \in Session, NEW p \in 1..MaxPing, HandlePong(s, p) PROVE ProbeInv'
  <2>0. UNCHANGED <<nextPing, probe, stage>>
    BY <1>9 DEF HandlePong, regVars
  <2>1. CASE Sample(s, {p}, TRUE) /\ pings' = [pings EXCEPT ![s] = @ \ {p}]
    <3>1. {p} \in SUBSET Nat
      BY HubAssumption
    <3>2. /\ \A r \in Session : 1..(nextPing'[r] - 1) \subseteq counted'[r] \union pings'[r]
          /\ \A r \in Session : pings'[r] \subseteq pings[r]
      BY <2>0, <2>1, <3>1, ProbeSamples
    <3> QED BY <2>0, <3>2 DEF ProbeInv
  <2>2. CASE UNCHANGED <<pings, counted, latency>>
    BY <2>0, <2>2, ProbeQuiet
  <2> QED BY <1>9, <2>1, <2>2 DEF HandlePong
<1>10. ASSUME NEW s \in Session, ReadStep(s) \/ AgentStep(s) \/ ConnDrops(s) PROVE ProbeInv'
  BY <1>1, <1>9, <1>10
     DEF ReadStep, HandleResult, HandleTerminalClosed, AgentStep, AgentAnswers, AgentPongs,
         AgentOpens, AgentOpened, AgentCloses, ShellExits, ReaderEnds, LoopEnds, ConnDrops, regVars
<1>11. ASSUME NEW n \in Node, DeleteNode(n) PROVE ProbeInv'
  BY <1>11, ProbeQuiet DEF DeleteNode
<1>12. ASSUME NEW c \in Call,
              CallStep(c) \/ DispatchReceive(c) \/ DispatchTimeout(c)
              \/ \E n \in Node : DispatchLookup(c, n)
       PROVE  ProbeInv'
  BY <1>1, <1>12
     DEF CallStep, DispatchRegister, DispatchWrite, DispatchUndo, DispatchClose,
         DispatchReceive, DispatchTimeout, DispatchLookup, regVars
<1>13. ASSUME NEW t \in Term,
              TermStep(t) \/ BrowserCloses(t) \/ \E n \in Node : AttachLookup(t, n)
       PROVE  ProbeInv'
  BY <1>1, <1>13
     DEF TermStep, AttachRegister, AttachWrite, AttachUndo, Detach, DetachNotify,
         BrowserCloses, AttachLookup, regVars
<1>14. ASSUME NEW s \in Session, ProbeStep(s) PROVE ProbeInv'
  BY <1>5, <1>6, <1>7, <1>8, <1>14 DEF ProbeStep
<1>15. CASE UNCHANGED vars
  BY <1>1, <1>15 DEF vars, regVars
<1> QED
  BY <1>2, <1>3, <1>4, <1>10, <1>11, <1>12, <1>13, <1>14, <1>15 DEF Next, PanelStep

\* No probe is forgotten, whichever of the probe goroutine, the pong and the failed
\* map gets to it first (runLatencyProbe, HandlePong, failPings).
THEOREM ProbesAreCounted == Spec => []EveryProbeCounted
<1>1. RegInv /\ PingInv /\ ProbeInv => EveryProbeCounted
  BY DEF ProbeInv, EveryProbeCounted
<1> QED BY <1>1, RegInit, RegStep, PingInit, PingStep, ProbeInit, ProbeStepKeeps, PTL DEF Spec

-----------------------------------------------------------------------------
(* The terminals.                                                           *)

LEMMA BridgeInit == Init => NoOrphanBridge
  BY DEF Init, NoOrphanBridge

LEMMA BridgeQuiet ==
    ASSUME NoOrphanBridge, UNCHANGED term,
           \A s \in Session : terms'[s] \subseteq terms[s],
           \A s \in Session : stage'[s] = "gone" => stage[s] = "gone"
    PROVE  NoOrphanBridge'
  BY DEF NoOrphanBridge

LEMMA BridgeStep == RegInv /\ SetInv /\ NoOrphanBridge /\ [Next]_vars => NoOrphanBridge'
<1> SUFFICES ASSUME RegInv, SetInv, NoOrphanBridge, [Next]_vars PROVE NoOrphanBridge'
    OBVIOUS
<1>1. CASE UNCHANGED <<terms, term, stage>>
  BY <1>1, BridgeQuiet
<1>2. ASSUME NEW s \in Session, Authenticate(s) \/ Register(s) PROVE NoOrphanBridge'
  BY <1>2, BridgeQuiet DEF Authenticate, Register, termVars, RegInv
<1>3. ASSUME NEW s \in Session, HandlerStep(s) PROVE NoOrphanBridge'
  <2>1. CASE ReadFails(s) \/ Unregister(s) \/ FailPending(s) \/ FailRPCPending(s) \/ FailPings(s)
    BY <2>1, BridgeQuiet
       DEF ReadFails, Unregister, FailPending, FailRPCPending, FailPings, termVars, RegInv
  <2>2. CASE CloseAllTerminals(s)
    BY <2>2 DEF CloseAllTerminals, NoOrphanBridge, RegInv, SetInv
  <2> QED BY <1>3, <2>1, <2>2 DEF HandlerStep
<1>4. ASSUME NEW s \in Session, ReadStep(s) PROVE NoOrphanBridge'
  <2>1. ASSUME NEW t \in Term, HandleTerminalClosed(s, t) PROVE NoOrphanBridge'
    BY <2>1, BridgeQuiet DEF HandleTerminalClosed, regVars, SetInv
  <2> QED BY <1>1, <1>4, <2>1 DEF ReadStep, HandleResult, HandlePong, regVars, termVars
<1>5. ASSUME NEW s \in Session, ProbeStep(s) \/ AgentStep(s) \/ ConnDrops(s) PROVE NoOrphanBridge'
  BY <1>1, <1>5
     DEF ProbeStep, ProbeTick, ProbeWrite, ProbeLost, ProbeStops, AgentStep, AgentAnswers,
         AgentPongs, AgentOpens, AgentOpened, AgentCloses, ShellExits, ReaderEnds, LoopEnds,
         ConnDrops, regVars, termVars
<1>6. ASSUME NEW n \in Node, DeleteNode(n) PROVE NoOrphanBridge'
  BY <1>1, <1>6 DEF DeleteNode, termVars
<1>7. ASSUME NEW c \in Call,
             CallStep(c) \/ DispatchReceive(c) \/ DispatchTimeout(c)
             \/ \E n \in Node : DispatchLookup(c, n)
      PROVE  NoOrphanBridge'
  BY <1>1, <1>7
     DEF CallStep, DispatchRegister, DispatchWrite, DispatchUndo, DispatchClose,
         DispatchReceive, DispatchTimeout, DispatchLookup, regVars, termVars
<1>8. ASSUME NEW t \in Term, TermStep(t) PROVE NoOrphanBridge'
  <2>1. CASE AttachRegister(t)
    BY <2>1 DEF AttachRegister, NoOrphanBridge, regVars, SetInv
  <2>2. CASE AttachWrite(t)
    <3>1. UNCHANGED <<stage, terms>> /\ term[t].pc = "registered"
      BY <2>2 DEF AttachWrite
    <3>2. CASE conn[term[t].via] = "open" /\ term' = [term EXCEPT ![t].pc = "open"]
      BY <3>1, <3>2 DEF NoOrphanBridge, RegInv, SetInv
    <3>3. CASE term' = [term EXCEPT ![t].pc = "undo"]
      BY <3>1, <3>3 DEF NoOrphanBridge, SetInv
    <3> QED BY <2>2, <3>2, <3>3 DEF AttachWrite, Sends
  <2>3. CASE AttachUndo(t)
    BY <2>3 DEF AttachUndo, NoOrphanBridge, regVars, SetInv
  <2>4. CASE Detach(t)
    BY <2>4 DEF Detach, NoOrphanBridge, regVars, SetInv
  <2>5. CASE DetachNotify(t)
    BY <2>5 DEF DetachNotify, NoOrphanBridge, SetInv
  <2> QED BY <1>8, <2>1, <2>2, <2>3, <2>4, <2>5 DEF TermStep
<1>9. ASSUME NEW t \in Term, BrowserCloses(t) PROVE NoOrphanBridge'
  BY <1>1, <1>9 DEF BrowserCloses, regVars
<1>10. ASSUME NEW t \in Term, NEW n \in Node, AttachLookup(t, n) PROVE NoOrphanBridge'
  BY <1>10 DEF AttachLookup, NoOrphanBridge, regVars, SetInv
<1>11. CASE UNCHANGED vars
  BY <1>1, <1>11 DEF vars, regVars, termVars
<1> QED
  BY <1>2, <1>3, <1>4, <1>5, <1>6, <1>7, <1>8, <1>9, <1>10, <1>11 DEF Next, PanelStep

\* A session that is gone keeps no terminal, whichever comes first of its
\* closeAllTerminals and an attach that had looked it up (AttachBrowserTerminal).
THEOREM NoBridgeIsOrphan == Spec => []NoOrphanBridge
BY RegInit, RegStep, SetInit, SetStep, BridgeInit, BridgeStep, PTL DEF Spec
=============================================================================
