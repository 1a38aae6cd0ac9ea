------------------------------ MODULE AgentHub ------------------------------
(***************************************************************************)
(* The agent hub of the panel (service/agent_hub.go) with the WebSocket    *)
(* handlers that drive it (api/agentHandler.go, api/agentTerminal.go) and  *)
(* the part of the remote agent that answers (agent/client.go).            *)
(*                                                                         *)
(* Every action is one critical section or one network operation of one    *)
(* goroutine: the reader of an agent session (registration, read loop,     *)
(* deferred unregister), its latency probe, a DispatchCommand/DispatchRPC  *)
(* call, a browser terminal handler, or the remote agent.                  *)
(***************************************************************************)
EXTENDS Naturals, Sequences, FiniteSets

CONSTANTS
    Node,           \* ids of the agent nodes
    Session,        \* WebSocket connections the agents ever open
    NodeOf,         \* the node each connection authenticates as
    Cmd, Rpc,       \* DispatchCommand calls and DispatchRPC calls
    Mutating,       \* the RPC calls whose method changes configuration
    Batch,          \* the commands issued by a goroutine of DispatchBatch
    Term,           \* browser terminals
    MaxPing,        \* bound: probes a session sends
    LogLimit,       \* agentCommandHistory
    LatencyLimit,   \* agentLatencyHistory
    NoSession       \* the nil *agentSession

Call == Cmd \union Rpc

ASSUME HubAssumption ==
    /\ NodeOf \in [Session -> Node]
    /\ Cmd \intersect Rpc = {}
    /\ Mutating \subseteq Rpc
    /\ Batch \subseteq Cmd
    /\ NoSession \notin Session
    /\ MaxPing \in Nat
    /\ LogLimit \in Nat \ {0}
    /\ LatencyLimit \in Nat \ {0}

VARIABLES
    hub,        \* agentSessions
    rows,       \* rows of the agent_nodes table
    stage,      \* where the handler goroutine of a session stands
    conn,       \* the panel's end of the WebSocket
    cancelled,  \* sessions whose context is cancelled
    pending,    \* session.pending and session.rpcPending (ids do not clash)
    call,       \* progress of each dispatched call
    chan,       \* the one-slot result channel of each call
    cmdLog,     \* agentCmdLogs
    pings,      \* session.pings
    nextPing,   \* next probe id of a session
    probe,      \* where the runLatencyProbe goroutine stands
    counted,    \* history: probes that have produced a latency sample
    latency,    \* agentLatencies, each sample reduced to its OK flag
    terms,      \* session.terms
    term,       \* progress of each browser terminal handler
    browser,    \* browser sockets still open
    toAgent, toPanel,  \* frames in flight
    client,     \* sessions whose runWebSocket loop runs on the agent
    reading,    \* sessions whose frame reader runs on the agent
    opening,    \* the PTY the agent's reader is starting
    shells,     \* terminals: the PTYs the agent holds for a session
    up          \* the panel process is alive

regVars  == <<hub, rows, stage, conn, cancelled>>
callVars == <<pending, call, chan, cmdLog>>
pingVars == <<pings, nextPing, probe, counted, latency>>
termVars == <<terms, term, browser>>
agentVars == <<client, reading, opening, shells>>
wireVars == <<toAgent, toPanel, agentVars>>
vars == <<regVars, callVars, pingVars, termVars, wireVars, up>>

Stage == {"unborn", "accepted", "reading", "removing", "failing",
          "failingRPC", "failingPings", "closingTerms", "gone"}
CallPc == {"idle", "looked", "registered", "waiting", "undo", "closing", "done"}
Outcome == {"none", "offline", "senderror", "ok", "failed", "gone", "timeout", "panic"}
Value == {"empty", "ok", "failed", "gone"}
TermPc == {"idle", "looked", "registered", "undo", "open", "notify", "done"}
Frame == [kind : {"call", "ping", "open", "close"}, id : Call \union Term \union Nat]
Reply == [kind : {"ok", "failed", "pong", "closed"}, id : Call \union Term \union Nat]
LogEntry == [id : Call, ok : BOOLEAN]

\* Mutant: the appenders trim one entry too late.
NewestButOne(seq, n) ==
    IF Len(seq) > n + 1 THEN SubSeq(seq, Len(seq) - n + 1, Len(seq)) ELSE seq
\* Keep the newest n elements (the slices of the history appenders).
Newest(seq, n) == IF Len(seq) > n THEN SubSeq(seq, Len(seq) - n + 1, Len(seq)) ELSE seq

Init ==
    /\ hub = [n \in Node |-> NoSession] /\ rows = Node
    /\ stage = [s \in Session |-> "unborn"]
    /\ conn = [s \in Session |-> "none"] /\ cancelled = {}
    /\ pending = [s \in Session |-> {}]
    /\ call = [c \in Call |-> [pc |-> "idle", via |-> NoSession, outcome |-> "none"]]
    /\ chan = [c \in Call |-> [val |-> "empty", closed |-> FALSE]]
    /\ cmdLog = [n \in Node |-> <<>>]
    /\ pings = [s \in Session |-> {}] /\ nextPing = [s \in Session |-> 1]
    /\ probe = [s \in Session |-> "off"] /\ counted = [s \in Session |-> {}]
    /\ latency = [n \in Node |-> <<>>]
    /\ terms = [s \in Session |-> {}]
    /\ term = [t \in Term |-> [pc |-> "idle", via |-> NoSession]] /\ browser = {}
    /\ toAgent = [s \in Session |-> {}] /\ toPanel = [s \in Session |-> {}]
    /\ client = {} /\ reading = {}
    /\ opening = [s \in Session |-> {}] /\ shells = [s \in Session |-> {}]
    /\ up = TRUE

\* Connections that are closed: the panel reads nothing more from them.
Closing(S) == [s \in Session |-> IF s \in S /\ conn[s] = "open" THEN "closed" ELSE conn[s]]
Discarding(S) == [s \in Session |-> IF s \in S THEN {} ELSE toPanel[s]]

-----------------------------------------------------------------------------
(* The handler goroutine of an agent session.                              *)

\* AuthenticateToken finds the row of the node; websocket.Accept follows.
Authenticate(s) ==
    /\ stage[s] = "unborn" /\ NodeOf[s] \in rows
    /\ stage' = [stage EXCEPT ![s] = "accepted"]
    /\ UNCHANGED <<hub, rows, conn, cancelled, callVars, pingVars, termVars, wireVars, up>>

\* RegisterSession: under agentHubMu a live session of the same node is cancelled
\* and its connection closed before the new one takes its place; then the latency
\* probe is started. (SetWSConnected writes a map nobody reads.)
Register(s) ==
    LET n == NodeOf[s]
        old == {hub[n]} \ {NoSession}
    IN  /\ stage[s] = "accepted"
        /\ hub' = [hub EXCEPT ![n] = s]
        /\ stage' = [stage EXCEPT ![s] = "reading"]
        /\ cancelled' = cancelled \union old
        /\ conn' = [Closing(old) EXCEPT ![s] = "open"]
        /\ toPanel' = Discarding(old)
        /\ probe' = [probe EXCEPT ![s] = "probing"]
        /\ client' = client \union {s} /\ reading' = reading \union {s}
        /\ UNCHANGED <<rows, callVars, pings, nextPing, counted, latency, termVars, toAgent,
                       opening, shells, up>>

\* conn.Read fails: the handler returns and its deferred unregister begins.
ReadFails(s) ==
    /\ stage[s] = "reading" /\ conn[s] = "closed"
    /\ stage' = [stage EXCEPT ![s] = "removing"]
    /\ UNCHANGED <<hub, rows, conn, cancelled, callVars, pingVars, termVars,
                   wireVars, up>>

\* Mutant: whatever session the node has now is deleted.
OwnsAny(s) == TRUE
\* Only the session that is still the registered one is deleted.
Owns(s) == hub[NodeOf[s]] = s

Unregister(s) ==
    /\ stage[s] = "removing"
    /\ hub' = IF Owns(s) THEN [hub EXCEPT ![NodeOf[s]] = NoSession] ELSE hub
    /\ stage' = [stage EXCEPT ![s] = "failing"]
    /\ UNCHANGED <<rows, conn, cancelled, callVars, pingVars, termVars, wireVars, up>>

\* Mutant: the map is emptied and nobody is told.
FailSilently(s, kind) ==
    /\ pending' = [pending EXCEPT ![s] = @ \ kind]
    /\ UNCHANGED <<call, chan, cmdLog>>
\* Answer every call of the given kind that waits on the session.
Fail(s, kind) ==
    LET victims == pending[s] \intersect kind IN
    /\ chan' = [c \in Call |-> IF c \in victims
                               THEN [val |-> IF chan[c].val = "empty" THEN "gone" ELSE chan[c].val,
                                     closed |-> TRUE]
                               ELSE chan[c]]
    /\ pending' = [pending EXCEPT ![s] = @ \ kind]
    /\ UNCHANGED <<call, cmdLog>>

FailPending(s) ==
    /\ stage[s] = "failing" /\ Fail(s, Cmd)
    /\ stage' = [stage EXCEPT ![s] = "failingRPC"]
    /\ UNCHANGED <<hub, rows, conn, cancelled, pingVars, termVars, wireVars, up>>

\* Mutant: the commands are failed again instead of the RPCs.
FailCommandsTwice(s) ==
    /\ stage[s] = "failingRPC" /\ Fail(s, Cmd)
    /\ stage' = [stage EXCEPT ![s] = "failingPings"]
    /\ UNCHANGED <<hub, rows, conn, cancelled, pingVars, termVars, wireVars, up>>

FailRPCPending(s) ==
    /\ stage[s] = "failingRPC" /\ Fail(s, Rpc)
    /\ stage' = [stage EXCEPT ![s] = "failingPings"]
    /\ UNCHANGED <<hub, rows, conn, cancelled, pingVars, termVars, wireVars, up>>

\* Mutant: only answered probes leave a sample.
SampleAnswered(s, ps, ok) ==
    IF ok THEN /\ latency' = [latency EXCEPT ![NodeOf[s]] = Newest(Append(@, ok), LatencyLimit)]
               /\ counted' = [counted EXCEPT ![s] = @ \union ps]
    ELSE UNCHANGED <<latency, counted>>
\* appendAgentLatency, once for each probe in ps.
Sample(s, ps, ok) ==
    LET n == NodeOf[s] IN
    /\ latency' = [latency EXCEPT ![n] =
                      Newest(@ \o [i \in 1..Cardinality(ps) |-> ok], LatencyLimit)]
    /\ counted' = [counted EXCEPT ![s] = @ \union ps]

FailPings(s) ==
    /\ stage[s] = "failingPings"
    /\ Sample(s, pings[s], FALSE)
    /\ pings' = [pings EXCEPT ![s] = {}]
    /\ stage' = [stage EXCEPT ![s] = "closingTerms"]
    /\ UNCHANGED <<hub, rows, conn, cancelled, callVars, nextPing, probe, termVars,
                   wireVars, up>>

\* closeAllTerminals, and cancel(), the end of unregister.
CloseAllTerminals(s) ==
    /\ stage[s] = "closingTerms"
    /\ terms' = [terms EXCEPT ![s] = {}]
    /\ browser' = browser \ terms[s]
    /\ cancelled' = cancelled \union {s}
    /\ stage' = [stage EXCEPT ![s] = "gone"]
    /\ UNCHANGED <<hub, rows, conn, callVars, pingVars, term, wireVars, up>>

\* AgentService.Delete: the row and the per-node histories go; a live session
\* of the node is not touched.
DeleteNode(n) ==
    /\ n \in rows
    /\ rows' = rows \ {n}
    /\ cmdLog' = [cmdLog EXCEPT ![n] = <<>>]
    /\ latency' = [latency EXCEPT ![n] = <<>>]
    /\ UNCHANGED <<hub, stage, conn, cancelled, pending, call, chan, pings, nextPing, probe,
                   counted, termVars, wireVars, up>>

-----------------------------------------------------------------------------
(* WriteJSON on a session: the frame goes out on an open connection, or    *)
(* the write fails (closed connection, or a deadline, which closes it).    *)

Sends(s, frame) ==
    /\ conn[s] = "open"
    /\ toAgent' = [toAgent EXCEPT ![s] = @ \union {frame}]
    /\ UNCHANGED <<conn, toPanel, agentVars>>

Breaks(s) ==
    /\ conn' = Closing({s}) /\ toPanel' = Discarding({s})
    /\ UNCHANGED <<toAgent, agentVars>>

-----------------------------------------------------------------------------
(* DispatchCommand and DispatchRPC: look the session up, register a result *)
(* channel, write the request, then wait for the channel or the timer.     *)

\* Mutant: the entry of a call that gave up stays in the map.
Forget(s, c) == pending' = pending
\* Take the entry of a call out of the pending map of its session.
Withdraw(s, c) == pending' = [pending EXCEPT ![s] = @ \ {c}]

Answered(c, outcome) == [call EXCEPT ![c].pc = "done", ![c].outcome = outcome]

DispatchLookup(c, n) ==
    /\ call[c].pc = "idle"
    /\ call' = IF hub[n] = NoSession THEN Answered(c, "offline")
               ELSE [call EXCEPT ![c].pc = "looked", ![c].via = hub[n]]
    /\ UNCHANGED <<regVars, pending, chan, cmdLog, pingVars, termVars, wireVars, up>>

DispatchRegister(c) ==
    LET s == call[c].via IN
    /\ call[c].pc = "looked"
    /\ pending' = [pending EXCEPT ![s] = @ \union {c}]
    /\ call' = [call EXCEPT ![c].pc = "registered"]
    /\ UNCHANGED <<regVars, chan, cmdLog, pingVars, termVars, wireVars, up>>

DispatchWrite(c) ==
    LET s == call[c].via IN
    /\ call[c].pc = "registered"
    /\ \/ Sends(s, [kind |-> "call", id |-> c])
          /\ call' = [call EXCEPT ![c].pc = "waiting"]
       \/ Breaks(s)
          /\ call' = [call EXCEPT ![c].pc = "undo"]
    /\ UNCHANGED <<hub, rows, stage, cancelled, pending, chan, cmdLog, pingVars,
                   termVars, up>>

\* The write failed: take the entry back out of the pending map ...
DispatchUndo(c) ==
    LET s == call[c].via IN
    /\ call[c].pc = "undo"
    /\ Withdraw(s, c)
    /\ call' = [call EXCEPT ![c].pc = "closing"]
    /\ UNCHANGED <<regVars, chan, cmdLog, pingVars, termVars, wireVars, up>>

\* ... and close the channel. Closing a closed channel panics: in a request
\* handler the server recovers, in a DispatchBatch goroutine the process ends.
DispatchClose(c) ==
    /\ call[c].pc = "closing"
    /\ chan' = [chan EXCEPT ![c].closed = TRUE]
    /\ call' = Answered(c, IF chan[c].closed THEN "panic" ELSE "senderror")
    /\ up' = ~(chan[c].closed /\ c \in Batch)
    /\ LET lost == IF up' THEN {} ELSE Session IN
           conn' = Closing(lost) /\ toPanel' = Discarding(lost)
    /\ UNCHANGED <<hub, rows, stage, cancelled, pending, cmdLog, pingVars, termVars,
                   toAgent, agentVars>>

\* Commands are always logged; an RPC when it changes configuration or failed.
Logged(c, ok) ==
    LET n == NodeOf[call[c].via] IN
    cmdLog' = IF c \in Cmd \union Mutating \/ ~ok
              THEN [cmdLog EXCEPT ![n] = Newest(Append(@, [id |-> c, ok |-> ok]), LogLimit)]
              ELSE cmdLog

DispatchReceive(c) ==
    /\ call[c].pc = "waiting"
    /\ chan[c].val # "empty" \/ chan[c].closed
    /\ call' = Answered(c, IF chan[c].val = "empty" THEN "failed" ELSE chan[c].val)
    /\ chan' = [chan EXCEPT ![c].val = "empty"]
    /\ Logged(c, chan[c].val = "ok")
    /\ UNCHANGED <<regVars, pending, pingVars, termVars, wireVars, up>>

\* agentCommandTimeout / agentRPCTimeout.
DispatchTimeout(c) ==
    LET s == call[c].via IN
    /\ call[c].pc = "waiting"
    /\ Withdraw(s, c)
    /\ call' = Answered(c, "timeout")
    /\ Logged(c, FALSE)
    /\ UNCHANGED <<regVars, chan, pingVars, termVars, wireVars, up>>

\* The session whose pending map a result frame read on s is matched with:
\* HandleCommandResult searches the hub, HandleRPCResponse looks the node up.
Matches(s, c) ==
    IF c \in Cmd THEN {t \in Session : (\E n \in Node : hub[n] = t) /\ c \in pending[t]}
                 ELSE {t \in Session : hub[NodeOf[s]] = t /\ c \in pending[t]}

\* Mutant: the answered entry stays in the map.
AnswerKeeping(c, S, value) ==
    IF S = {} THEN UNCHANGED <<pending, chan>>
    ELSE pending' = pending /\ chan' = [chan EXCEPT ![c] = [val |-> value, closed |-> TRUE]]
\* Take the entry out of the maps of S, put the value on the channel and close it.
Answer(c, S, value) ==
    IF S = {} THEN UNCHANGED <<pending, chan>>
    ELSE /\ pending' = [t \in Session |-> IF t \in S THEN pending[t] \ {c} ELSE pending[t]]
         /\ chan' = [chan EXCEPT ![c] = [val |-> value, closed |-> TRUE]]

HandleResult(s, c, ok) ==
    LET frame == [kind |-> IF ok THEN "ok" ELSE "failed", id |-> c] IN
    /\ stage[s] = "reading" /\ frame \in toPanel[s]
    /\ toPanel' = [toPanel EXCEPT ![s] = @ \ {frame}]
    /\ Answer(c, Matches(s, c), frame.kind)
    /\ UNCHANGED <<regVars, call, cmdLog, pingVars, termVars, toAgent, agentVars, up>>

-----------------------------------------------------------------------------
(* runLatencyProbe and HandlePong.                                         *)

\* One tick: late entries are dropped as lost; nothing is sent while a probe
\* is still outstanding.
ProbeTick(s) ==
    /\ probe[s] = "probing"
    /\ \E late \in SUBSET pings[s] :
         /\ Sample(s, late, FALSE)
         /\ IF pings[s] \ late # {}
            THEN /\ pings' = [pings EXCEPT ![s] = @ \ late]
                 /\ UNCHANGED <<nextPing, probe>>
            ELSE /\ nextPing[s] <= MaxPing
                 /\ pings' = [pings EXCEPT ![s] = {nextPing[s]}]
                 /\ nextPing' = [nextPing EXCEPT ![s] = @ + 1]
                 /\ probe' = [probe EXCEPT ![s] = "writing"]
    /\ UNCHANGED <<regVars, callVars, termVars, wireVars, up>>

ProbeWrite(s) ==
    /\ probe[s] = "writing"
    /\ \/ Sends(s, [kind |-> "ping", id |-> nextPing[s] - 1])
          /\ probe' = [probe EXCEPT ![s] = "probing"]
       \/ Breaks(s)
          /\ probe' = [probe EXCEPT ![s] = "lost"]
    /\ UNCHANGED <<hub, rows, stage, cancelled, callVars, pings, nextPing, counted,
                   latency, termVars, up>>

\* The write of the probe failed: delete the entry and count it as lost.
ProbeLost(s) ==
    LET p == nextPing[s] - 1 IN
    /\ probe[s] = "lost"
    /\ pings' = [pings EXCEPT ![s] = @ \ {p}]
    /\ Sample(s, {p}, FALSE)
    /\ probe' = [probe EXCEPT ![s] = "probing"]
    /\ UNCHANGED <<regVars, callVars, nextPing, termVars, wireVars, up>>

ProbeStops(s) ==
    /\ probe[s] = "probing" /\ s \in cancelled
    /\ probe' = [probe EXCEPT ![s] = "done"]
    /\ UNCHANGED <<regVars, callVars, pings, nextPing, counted, latency, termVars, wireVars, up>>

HandlePong(s, p) ==
    LET frame == [kind |-> "pong", id |-> p]
        cur == hub[NodeOf[s]]
    IN  /\ stage[s] = "reading" /\ frame \in toPanel[s]
        /\ toPanel' = [toPanel EXCEPT ![s] = @ \ {frame}]
        /\ IF cur \in Session /\ cur = s /\ p \in pings[s]
           THEN /\ pings' = [pings EXCEPT ![s] = @ \ {p}]
                /\ Sample(s, {p}, TRUE)
           ELSE UNCHANGED <<pings, counted, latency>>
        /\ UNCHANGED <<regVars, callVars, nextPing, probe, termVars, toAgent, agentVars, up>>

-----------------------------------------------------------------------------
(* Browser terminals: AgentTerminal with Attach/DetachBrowserTerminal.     *)

\* IsWSConnected, websocket.Accept and the session lookup of Attach.
AttachLookup(t, n) ==
    /\ term[t].pc = "idle" /\ hub[n] # NoSession
    /\ term' = [term EXCEPT ![t] = [pc |-> "looked", via |-> hub[n]]]
    /\ browser' = browser \union {t}
    /\ UNCHANGED <<regVars, callVars, pingVars, terms, wireVars, up>>

AttachRegister(t) ==
    LET s == term[t].via IN
    /\ term[t].pc = "looked"
    /\ terms' = [terms EXCEPT ![s] = @ \union {t}]
    /\ term' = [term EXCEPT ![t].pc = "registered"]
    /\ UNCHANGED <<regVars, callVars, pingVars, browser, wireVars, up>>

AttachWrite(t) ==
    LET s == term[t].via IN
    /\ term[t].pc = "registered"
    /\ \/ Sends(s, [kind |-> "open", id |-> t])
          /\ term' = [term EXCEPT ![t].pc = "open"]
       \/ Breaks(s)
          /\ term' = [term EXCEPT ![t].pc = "undo"]
    /\ UNCHANGED <<hub, rows, stage, cancelled, callVars, pingVars, terms, browser, up>>

\* Mutant: the failed attach leaves its entry behind.
AttachAbandon(t) ==
    /\ term[t].pc = "undo"
    /\ term' = [term EXCEPT ![t].pc = "done"]
    /\ browser' = browser \ {t}
    /\ UNCHANGED <<regVars, callVars, pingVars, terms, wireVars, up>>

AttachUndo(t) ==
    LET s == term[t].via IN
    /\ term[t].pc = "undo"
    /\ terms' = [terms EXCEPT ![s] = @ \ {t}]
    /\ term' = [term EXCEPT ![t].pc = "done"]
    /\ browser' = browser \ {t}
    /\ UNCHANGED <<regVars, callVars, pingVars, wireVars, up>>

\* The user closes the browser socket.
BrowserCloses(t) ==
    /\ term[t].pc = "open" /\ t \in browser
    /\ browser' = browser \ {t}
    /\ UNCHANGED <<regVars, callVars, pingVars, terms, term, wireVars, up>>

\* Mutant: the agent is not told.
DetachQuietly(t) ==
    /\ term[t].pc = "open" /\ t \notin browser
    /\ term' = [term EXCEPT ![t].pc = "done"]
    /\ terms' = [s \in Session |-> IF s = hub[NodeOf[term[t].via]] THEN terms[s] \ {t} ELSE terms[s]]
    /\ UNCHANGED <<regVars, callVars, pingVars, browser, wireVars, up>>
\* The handler's read fails: DetachBrowserTerminal on whatever session the hub
\* holds for the node now.
Detach(t) ==
    LET cur == hub[NodeOf[term[t].via]] IN
    /\ term[t].pc = "open" /\ t \notin browser
    /\ IF cur = NoSession
       THEN term' = [term EXCEPT ![t].pc = "done"] /\ UNCHANGED terms
       ELSE /\ terms' = [terms EXCEPT ![cur] = @ \ {t}]
            /\ term' = [term EXCEPT ![t].pc = "notify"]
    /\ UNCHANGED <<regVars, callVars, pingVars, browser, wireVars, up>>

\* WriteToSession(terminal_close), which looks the session up once more.
DetachNotify(t) ==
    LET cur == hub[NodeOf[term[t].via]] IN
    /\ term[t].pc = "notify"
    /\ \/ cur = NoSession /\ UNCHANGED <<conn, wireVars>>
       \/ cur # NoSession /\ Sends(cur, [kind |-> "close", id |-> t])
       \/ cur # NoSession /\ Breaks(cur)
    /\ term' = [term EXCEPT ![t].pc = "done"]
    /\ UNCHANGED <<hub, rows, stage, cancelled, callVars, pingVars, terms, browser, up>>

\* HandleTerminalFromAgent with terminal_closed; the other frames only pass.
HandleTerminalClosed(s, t) ==
    LET frame == [kind |-> "closed", id |-> t]
        cur == hub[NodeOf[s]]
    IN  /\ stage[s] = "reading" /\ frame \in toPanel[s]
        /\ toPanel' = [toPanel EXCEPT ![s] = @ \ {frame}]
        /\ terms' = [r \in Session |-> IF r = cur THEN terms[r] \ {t} ELSE terms[r]]
        /\ UNCHANGED <<regVars, callVars, pingVars, term, browser, toAgent, agentVars, up>>

-----------------------------------------------------------------------------
(* The remote agent (agent/client.go, runWebSocket) and the network.       *)

\* What the agent writes is lost once the panel's end is closed.
Replies(s, frames) ==
    toPanel' = [toPanel EXCEPT ![s] = IF conn[s] = "open" THEN @ \union frames ELSE @]

\* The agent's reader takes a frame; it handles one at a time.
Takes(s, frame) ==
    /\ s \in reading /\ opening[s] = {} /\ frame \in toAgent[s]
    /\ toAgent' = [toAgent EXCEPT ![s] = @ \ {frame}]

AgentAnswers(s, c, ok) ==
    /\ Takes(s, [kind |-> "call", id |-> c])
    /\ Replies(s, {[kind |-> IF ok THEN "ok" ELSE "failed", id |-> c]})
    /\ UNCHANGED <<regVars, callVars, pingVars, termVars, agentVars, up>>

AgentPongs(s, p) ==
    /\ Takes(s, [kind |-> "ping", id |-> p])
    /\ Replies(s, {[kind |-> "pong", id |-> p]})
    /\ UNCHANGED <<regVars, callVars, pingVars, termVars, agentVars, up>>

\* terminal_open: the PTY is being started ...
AgentOpens(s, t) ==
    /\ Takes(s, [kind |-> "open", id |-> t])
    /\ opening' = [opening EXCEPT ![s] = {t}]
    /\ UNCHANGED <<regVars, callVars, pingVars, termVars, toPanel, client, reading, shells, up>>

\* ... and enters the terminals map, or its failure is reported.
AgentOpened(s, t) ==
    /\ t \in opening[s]
    /\ opening' = [opening EXCEPT ![s] = {}]
    /\ \/ shells' = [shells EXCEPT ![s] = @ \union {t}] /\ UNCHANGED toPanel
       \/ Replies(s, {[kind |-> "closed", id |-> t]}) /\ UNCHANGED shells
    /\ UNCHANGED <<regVars, callVars, pingVars, termVars, toAgent, client, reading, up>>

\* terminal_close; frames of one terminal are handled in the order sent.
AgentCloses(s, t) ==
    /\ Takes(s, [kind |-> "close", id |-> t])
    /\ [kind |-> "open", id |-> t] \notin toAgent[s]
    /\ shells' = [shells EXCEPT ![s] = @ \ {t}]
    /\ Replies(s, {[kind |-> "closed", id |-> t]})
    /\ UNCHANGED <<regVars, callVars, pingVars, termVars, client, reading, opening, up>>

\* The shell exits by itself: pumpTerminalOutput reports and closes the PTY.
ShellExits(s, t) ==
    /\ t \in shells[s]
    /\ shells' = [shells EXCEPT ![s] = @ \ {t}]
    /\ Replies(s, {[kind |-> "closed", id |-> t]})
    /\ UNCHANGED <<regVars, callVars, pingVars, termVars, toAgent, client, reading, opening, up>>

\* The connection is dead: the reader ends with its read error ...
ReaderEnds(s) ==
    /\ s \in reading /\ opening[s] = {} /\ conn[s] = "closed"
    /\ reading' = reading \ {s}
    /\ toAgent' = [toAgent EXCEPT ![s] = {}]
    /\ UNCHANGED <<regVars, callVars, pingVars, termVars, toPanel, client, opening, shells, up>>

\* ... and the loop returns, on that error or on a report it cannot write, and
\* closes the PTYs in the map (deferred closeAllTerminals).
LoopEnds(s) ==
    /\ s \in client /\ conn[s] = "closed"
    /\ client' = client \ {s}
    /\ shells' = [shells EXCEPT ![s] = {}]
    /\ UNCHANGED <<regVars, callVars, pingVars, termVars, toAgent, toPanel, reading, opening, up>>

\* The network, or the agent, drops the connection.
ConnDrops(s) ==
    /\ conn[s] = "open"
    /\ Breaks(s)
    /\ UNCHANGED <<hub, rows, stage, cancelled, callVars, pingVars, termVars, up>>

-----------------------------------------------------------------------------
HandlerStep(s) ==
    \/ ReadFails(s) \/ Unregister(s) \/ FailPending(s) \/ FailRPCPending(s) \/ FailPings(s)
    \/ CloseAllTerminals(s)
ReadStep(s) ==
    \/ \E c \in Call, ok \in BOOLEAN : HandleResult(s, c, ok)
    \/ \E p \in 1..MaxPing : HandlePong(s, p)
    \/ \E t \in Term : HandleTerminalClosed(s, t)
ProbeStep(s) == ProbeTick(s) \/ ProbeWrite(s) \/ ProbeLost(s) \/ ProbeStops(s)
CallStep(c) ==
    DispatchRegister(c) \/ DispatchWrite(c) \/ DispatchUndo(c) \/ DispatchClose(c)
TermStep(t) ==
    AttachRegister(t) \/ AttachWrite(t) \/ AttachUndo(t) \/ Detach(t) \/ DetachNotify(t)
AgentStep(s) ==
    \/ \E c \in Call, ok \in BOOLEAN : AgentAnswers(s, c, ok)
    \/ \E p \in 1..MaxPing : AgentPongs(s, p)
    \/ \E t \in Term :
         AgentOpens(s, t) \/ AgentOpened(s, t) \/ AgentCloses(s, t) \/ ShellExits(s, t)
    \/ ReaderEnds(s) \/ LoopEnds(s)

PanelStep ==
    \/ \E s \in Session : Authenticate(s) \/ Register(s) \/ HandlerStep(s) \/ ReadStep(s) \/ ProbeStep(s)
    \/ \E n \in Node : DeleteNode(n)
    \/ \E c \in Call : CallStep(c) \/ DispatchReceive(c) \/ DispatchTimeout(c)
                       \/ \E n \in Node : DispatchLookup(c, n)
    \/ \E t \in Term : TermStep(t) \/ BrowserCloses(t) \/ \E n \in Node : AttachLookup(t, n)

Next ==
    \/ up /\ PanelStep
    \/ \E s \in Session : AgentStep(s) \/ ConnDrops(s)

Spec == Init /\ [][Next]_vars

\* Goroutines are scheduled and network writes end within their deadlines.
\* Nothing is assumed of users, of the network, of an agent that may never answer,
\* nor of the timers of the calls.
Fairness ==
    /\ \A s \in Session : WF_vars(up /\ HandlerStep(s))
    /\ \A c \in Call : WF_vars(up /\ (CallStep(c) \/ DispatchReceive(c)))
    /\ \A t \in Term : WF_vars(up /\ TermStep(t))
    /\ \A s \in Session : WF_vars(ReaderEnds(s)) /\ WF_vars(LoopEnds(s))
    /\ \A s \in Session, t \in Term :
         WF_vars(AgentOpens(s, t)) /\ WF_vars(AgentOpened(s, t)) /\ WF_vars(AgentCloses(s, t))

FairSpec == Spec /\ Fairness

-----------------------------------------------------------------------------
TypeOK ==
    /\ hub \in [Node -> Session \union {NoSession}]
    /\ rows \subseteq Node
    /\ stage \in [Session -> Stage]
    /\ conn \in [Session -> {"none", "open", "closed"}]
    /\ cancelled \subseteq Session
    /\ pending \in [Session -> SUBSET Call]
    /\ call \in [Call -> [pc : CallPc, via : Session \union {NoSession}, outcome : Outcome]]
    /\ chan \in [Call -> [val : Value, closed : BOOLEAN]]
    /\ cmdLog \in [Node -> Seq(LogEntry)]
    /\ \A n \in Node : Len(cmdLog[n]) <= LogLimit
    /\ nextPing \in [Session -> Nat \ {0}] /\ pings \in [Session -> SUBSET Nat]
    /\ \A s \in Session : pings[s] \subseteq 1..nextPing[s]
    /\ probe \in [Session -> {"off", "probing", "writing", "lost", "done"}]
    /\ counted \in [Session -> SUBSET Nat]
    /\ latency \in [Node -> Seq(BOOLEAN)]
    /\ \A n \in Node : Len(latency[n]) <= LatencyLimit
    /\ terms \in [Session -> SUBSET Term]
    /\ term \in [Term -> [pc : TermPc, via : Session \union {NoSession}]]
    /\ browser \subseteq Term
    /\ toAgent \in [Session -> SUBSET Frame] /\ toPanel \in [Session -> SUBSET Reply]
    /\ client \subseteq Session /\ reading \subseteq Session
    /\ opening \in [Session -> SUBSET Term] /\ shells \in [Session -> SUBSET Term]
    /\ up \in BOOLEAN

\* The stages a handler passes after it has answered the calls of a kind.
AfterFail(s, c) ==
    stage[s] \in (IF c \in Cmd THEN {"failingRPC"} ELSE {})
                 \union {"failingPings", "closingTerms", "gone"}

\* A connection that is still open is the one the hub dispatches to: replacing
\* a session closes the old connection in the same critical section, and the
\* late unregister of a replaced session must not remove its successor
\* (RegisterSession and its unregister closure).
OpenIsRegistered ==
    \A s \in Session : conn[s] = "open" => hub[NodeOf[s]] = s

\* The pending maps hold only calls that are still in progress on that very
\* session: every way a call can end (answer, timeout, failed write, agent gone)
\* takes the entry out (DispatchCommand, DispatchRPC, failPending).
PendingIsLive ==
    \A s \in Session : \A c \in pending[s] :
        call[c].via = s /\ call[c].pc \in {"registered", "waiting", "undo"}

\* When an agent disconnects, a caller that waits on its session has been handed
\* an answer by the time its pending map was failed, and is never left to sit out
\* its timer, even if it registered after the map was emptied (failPending).
NoStrandedWaiter ==
    \A c \in Call :
        (call[c].pc = "waiting" /\ AfterFail(call[c].via, c)) =>
            chan[c].val # "empty" \/ chan[c].closed

\* A session that is gone keeps no terminal, except one whose attach is about to
\* notice the dead connection (closeAllTerminals against AttachBrowserTerminal).
NoOrphanBridge ==
    \A s \in Session : \A t \in terms[s] :
        stage[s] = "gone" =>
            term[t].via = s /\ term[t].pc \in {"registered", "undo"}

\* No probe is forgotten: once the probe goroutine of a session has ended, each
\* ping it issued has produced a sample (runLatencyProbe, failPings, HandlePong).
EveryProbeCounted ==
    \A s \in Session :
        (probe[s] = "done" /\ stage[s] = "gone") =>
            pings[s] = {} /\ 1..(nextPing[s] - 1) \subseteq counted[s]

\* A dispatched command ends with a result or an error for its caller.
\* "DispatchCommand sends a control command to an online agent and waits for
\* the result" (service/agent_hub.go:362): a panic is neither.
DispatchNeverPanics == \A c \in Call : call[c].outcome # "panic"

\* Nobody sends on, or closes again through a pending map, a result channel that
\* is already closed, which would panic in the read loop of a session: an answer,
\* a failed pending map and a late answer never hit the same call twice
\* (HandleCommandResult, HandleRPCResponse, failPending).
ClosedChannelStaysSilent ==
    [][\A c \in Call : chan[c].closed =>
           chan'[c].closed /\ chan'[c].val \in {chan[c].val, "empty"}]_vars

\* A call over a connection that dies comes back without waiting for its timer,
\* whatever the agent and other sessions do, unless the process itself dies
\* (DispatchCommand, DispatchRPC, failPending, failRPCPending).
DisconnectEndsCalls ==
    \A c \in Call :
        (call[c].via # NoSession /\ \E s \in Session : s = call[c].via /\ conn[s] = "closed")
            ~> (call[c].pc = "done" \/ ~up)

\* Once the panel is finished with a terminal, no agent session that stays up
\* keeps its PTY: terminal_close reaches it, or its connection is lost and the
\* deferred closeAllTerminals reaps it (Detach..., WriteToSession, runWebSocket).
ShellsReaped ==
    \A t \in Term :
        (term[t].pc = "done") ~> (\A s \in client : t \notin shells[s] \union opening[s])
=============================================================================
