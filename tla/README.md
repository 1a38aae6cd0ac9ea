# A TLA+ model of s-ui

This directory models and verifies the control logic of the panel in this
repository: the Go process that stores proxy configuration in SQLite, runs a
sing-box core in-process and an Xray core as a child, counts client traffic, and
controls remote servers through agents connected over WebSocket. Modules are
checked with TLC on small instances; all of their safety properties are also proved
with TLAPS for every value of the constants. Section 9 says what stays with TLC and
why.

## 1. Inventory

| Component | Source | State | Operations | Hard behaviour |
|---|---|---|---|---|
| Agent hub | `service/agent_hub.go`, `api/agentHandler.go`, `api/agentTerminal.go` | `agentSessions`, per session `pending`, `rpcPending`, `pings`, `terms`; command log and latency histories | register / unregister a session, dispatch a command or RPC, latency probe, attach / detach a browser terminal, delete a node | a reconnect overlaps the end of the old session; a call registers while its session fails its pending map; answers race timers; a failed write races a disconnect |
| Agent registry and enrolment | `service/agent.go`, `service/agent_pairing.go` | `agent_nodes` rows (token hash, pair code, expiry) | create, rotate, pair, enrol with key, delete, heartbeat | a pair code is used once; a rotated token against live sessions; lost enrolment answers |
| Remote agent | `agent/client.go`, `agent/terminal_unix.go` | PTY map, RPC slots, report interval | reconnect loop, frame reader, reports, HTTP fallback | a reader that is still opening a PTY when the loop returns |
| Core lifecycle | `core/main.go`, `core/box.go`, `core/xray_runtime.go`, `service/config.go`, `cronjob/checkCoreJob.go`, `app/app.go` | `Core.isRunning/instance`, `startCoreInProgress`, cooldown, `XrayRuntime.cmd/done` | start, stop, restart, ensure, watchdog every 5 s | stop against start, watchdog against user, process exit against restart |
| Configuration save | `service/config.go` and the per-object services | rows, `changes`, running in/outbounds | `SaveWithRevision`, per-object save, rollback, core update after commit | the runtime is changed before the commit; a failed save restores it |
| Clients and quota | `service/client.go`, `service/stats.go`, `cronjob/*` | `clients.up/down/expiry/enable`, `stats` | save client, count traffic, deplete, periodic reset | jobs against user edits; counters swapped out before the transaction commits |
| Trackers | `core/tracker_stats.go`, `core/tracker_conn.go` | counters, tracked connections | count, read-and-reset, track, close by inbound | close while a connection is being tracked |
| Relay pools | `service/relay.go` | pools, items, IPv6 addresses on the host | create, delete, rotate, restore | addresses are added to the host before the rows exist; rollback of one without the other |
| Relay fallback outbound | `core/relay_fallback_outbound.go` | none | dial IPv6 first, then IPv4 through SOCKS | which errors allow the fallback |
| Xray configuration, subscriptions, links | `service/xray_config.go`, `sub/`, `util/` | none | translation of rows to text | none: pure functions |
| Settings, users, web server, backup, CLI, frontend | `service/setting.go`, `api/`, `web/`, `database/`, `cmd/`, `frontend/` | key-value rows, files | storage and I/O | restore of a backup under a running panel |

What makes each correct is listed, line by line, under `hazards` in
`PROJECT.json`.

## 2. Modules and plan

| Module | What it models | What it promises | Standing |
|---|---|---|---|
| `AgentHub`, `MCAgentHub`, `AgentHubProofs` | agent hub, its handlers and one connection of the remote agent | every dispatched call returns, exactly once | checked and proved |
| `CoreRuntime`, `MCCoreRuntime`, `CoreRuntimeProofs` | the sing-box core under users, watchdog and traffic job | `IsRunning()` tells the truth between operations; the watchdog brings the core back | checked and proved |
| `XrayRuntime`, `XrayRuntimeProofs`, `XrayChild` | the Xray child process | `XrayChild`: at most one child | checked and proved |
| `ConfigSave`, `ConfigSaveProofs` | saves: transaction, patches of the running cores, rollback, revisions | the cores run the committed rows | checked and proved |
| `ClientQuota`, `ClientQuotaProofs` | counters, connections, depletion and resets of clients, edits | enabled clients are served, disabled ones are out, nobody is billed too much | checked and proved |
| `ClientLinks`, `PanelProofs` | the share links in the rows of clients | links follow the rows they are made from | checked and proved |
| `RelayRoutes`, `RelayRoutesProofs` | rules, outbounds and ports of relay pools | traffic leaves as the pool's mode says; the user's rules stay | checked and proved |
| `RelayPool`, `RemoteProofs` | relay pools, the host's addresses and the core | addresses, rows and core agree whatever fails | checked and proved |
| `Enrolment`, `RemoteProofs` | pairing codes, enrolment key, tokens, the agent's file and service | controller and server agree on who holds which token | checked and proved |
| `ApiTokens`, `PanelProofs` | the administrator, sessions and API tokens | the API accepts the tokens of the table | checked and proved |
| `RemoteCall`, `RemoteProofs` | a call to a managed node over all its hops | what the caller is told is true; a retry is safe | checked and proved |
| `DbImport`, `PanelProofs` | import, backup and opening of the database | the user's rows are kept | checked and proved |

`MCPanel` and `MCRemote` instantiate the modules from `ConfigSave` on for two
runs (section 8).

The modules are separate where the code is: each leaves to another what that one
states. `ConfigSave` takes a start of sing-box as one step that reads rows and
one that runs them, because `CoreRuntime` has its accesses; `RemoteCall` takes a
save as one step that `ConfigSave` has in full, and a dispatch as one that
`AgentHub` has; `RelayPool` leaves the core's swap to `CoreRuntime` and what the
rows of a pool say to `RelayRoutes`.

A proof of a property is by an inductive invariant of its own, which every proof
module states first: what each phase of an operation knows, and what has to be
true of the rest of the state for the next phase to keep it. Proofs are laid out
with one lemma per action (or group of actions) that the invariant survives, one
for the whole next-state relation, and the theorems last.

## 3. AgentHub

### Correspondence

A *session* is one WebSocket connection of an agent together with the handler
goroutine that serves it. `stage` is where that goroutine stands: `Authenticate`
(token lookup), `Register` (`RegisterSession`), the read loop (`HandleResult`,
`HandlePong`, `HandleTerminalClosed`), and the steps of the deferred `unregister`
closure, each under its own lock: `Unregister`, `FailPending`, `FailRPCPending`,
`FailPings`, `CloseAllTerminals`. `hub` is `agentSessions`, `pending` the two
pending maps (ids are UUIDs, so one set of calls serves both), `chan` the one-slot
result channel of a call.

A *call* is one invocation of `DispatchCommand` or `DispatchRPC`; `DispatchLookup`,
`DispatchRegister`, `DispatchWrite`, then either `DispatchUndo` and
`DispatchClose` (the write failed) or `DispatchReceive` / `DispatchTimeout` are its
critical sections. A *terminal* is one browser WebSocket (`AttachLookup` ...
`DetachNotify`). The latency probe of a session is a goroutine of its own
(`ProbeTick`, `ProbeWrite`, `ProbeLost`, `ProbeStops`).

On the agent's side a frame reader takes one frame at a time (`AgentAnswers`,
`AgentPongs`, `AgentOpens`/`AgentOpened`, `AgentCloses`) while the loop of
`runWebSocket` may end independently (`LoopEnds`), since it also returns when a
report cannot be written.

Abstractions: frames carry their kind and id only; a latency sample is its OK
flag; terminal input, output and resize frames change no state and are left out;
`HandleCommandResult`'s search and its re-check under the lock are one step,
because the re-check discards whatever changed in between; `SetWSConnected`
writes a map that nothing reads and is left out. The network is external: a
connection may drop at any moment (`ConnDrops`), a write that fails closes the
connection and delivers nothing, and a closed connection delivers no more frames to
the panel; these are properties of the WebSocket library as the code uses it.

### Runs

| Run | Question | Bounds |
|---|---|---|
| `HubCalls` | do registry, pending map and result channel agree in every interleaving of a batch command with a reconnecting agent, and does the call return when its connection dies, without its timer? | one node, two connections, one command |
| `HubMixed` | does a session that fails its pending maps one after the other strand a caller, and is every latency probe accounted for? | one connection, one command, one RPC, two probes |
| `HubTerminals` | can a terminal stay attached to a session that is gone, and is the PTY of a finished terminal reaped? | two connections, one terminal |
| `HubPanics` | finding: a failed write can close the result channel twice | one connection, one command |

Two connections of one node are what replacement and a late unregister need; a
third would only replace the second in the same way. One command per run is
enough for the map and channel properties because calls meet only through their
own map entry and channel; two kinds of calls and the probes meet through the
order in which a handler fails them, which is `HubMixed`. A deadlock check would only report
that the finite set of connections is used up, so it is off.

`HubPanics` is a violation run. `DispatchCommand`'s failed-write path closes the
result channel unconditionally; when the session has been unregistered meanwhile,
`failPending` has closed it already and the second close panics. Inside a
`DispatchBatch` goroutine that ends the process, which the model shows as `up`
becoming false.

### Fairness

`Fairness` asks that goroutines run (`HandlerStep`, `CallStep`, `DispatchReceive`,
`TermStep`), which the Go scheduler provides since every lock is released and
every write has a deadline, and that the agent process notices a dead connection
and serves its frame queue for terminals. It asks nothing of users, of the network,
of an agent that may never answer, or of the timers of the calls; so
`DisconnectEndsCalls` shows that a disconnect alone ends a call.

### Proofs

`AgentHubProofs` proves, for any sets of nodes, connections, calls and terminals:

- `OpenSessionsAreRegistered`: from `RegInv`, which adds to `OpenIsRegistered` the
  stages a handler may be in while its connection is open or not yet made. Without
  them a handler that unregisters could own an open connection.
- `PendingCallsAreLive` and `WaitersAreAnswered`: from `CallInv`, which says that a
  call in a pending map has not been told anything yet, and that a waiting call
  is in the map or has been told. `FailPending` keeps the last conjunct because it
  tells everyone in the map; `DispatchWrite` keeps it because a write succeeds
  only on an open connection, whose handler is still reading (`RegInv`).
- `ClosedChannelsAreSilent`: the action property, from `CallInv`.
- `HubTypes`: type correctness, one group of variables at a time, with the lemma
  `NewestKeeps` for the bounded histories.

- `EveryProbeCounted` (theorem `ProbesAreCounted`): from `ProbeInv`. A probe that was
  sent has left a sample or is still in the map; while one is being written the map
  holds no other; and once the handler has failed the map, only a probe that is about
  to notice the dead connection is in it.
- `NoOrphanBridge` (theorem `NoBridgeIsOrphan`): inductive relative to `RegInv` and the
  types (`SetInv`). An attach that adds its terminal to a session that is gone writes
  to a connection that is not open (`RegInv`), so that its write fails and it takes
  the terminal away again.

The only assumption is `HubAssumption`, the declaration of the constants.
Model-checked only: the two liveness properties.

## 4. CoreRuntime

### Correspondence

`running` and `instance` are the fields of `Core`, which no lock protects; `busy` is
`startCoreInProgress` and `cooling` says that `startCooldown` has not passed since
`lastStartFailTime`. `box` says what each `Box` (the sing-box instance that
`core/box.go` wraps) is doing. A goroutine is in an operation `op` and has reached
a phase `pc` of it:

| Phases | Code |
|---|---|
| `take`, `drop` | the test-and-set of `startCoreInProgress` and its deferred reset (`Take`, `TakeRefused`, `Drop`) |
| `stop`, `close`, `forget` | the accesses of `Core.Stop`: `isRunning = false` and the nil test, `c.instance.Close()`, `c.instance = nil` |
| `start`, `begin`, `finish`, `undo`, `undone` | the accesses of `Core.Start`: `NewBox` into `c.instance`, `c.instance.Start()`, `isRunning = true`, or the close and reset of a Box that did not start |
| `ensure` | `ensureXrayCore` |
| `clear`, `boot` | `RestartCore` forgets the cooldown; `CreateRelay` starts the core after its commit |

`AfterTake`, `AfterStop` and `AfterStart` are the order in which each operation goes
through them, `Fails` its error paths. `StartCore` is the watchdog's and
`App.Start`'s; `SaveObject`, `SaveConfig` and `SaveRollback` are the three ways in
which `saveLocked` reaches the core; `RotateRelay`, `CreateRelay` and `DeleteRelay`
swap it with a new configuration, and `RotateRestore` and `RelayRestore` are their
deferred restores of the old one. Every access to a shared field that another
goroutine may get in front of is a step of its own: `c.instance` is read again in
`Begin`, `Close` and `Undo`, and may then be nil. A nil dereference is recovered by
gin in a request, after the deferred functions have run (`Fails`), and ends the
process in a cron job (`up`).

Abstractions: a configuration is whether it is rejected, builds, or starts. A Box
closes at once as far as its ports are concerned; it can listen only while no other
Box serves (`PortsFree`), since they are built from the same inbounds. A Box object
nothing refers to is reused for the next one. `configSaveMu` and `relayMu` are
represented by the operations that run under them being exclusive (`Serial`).
`asked` is a history variable: whether a user, or only the traffic schedule, has asked
for the core so far.
Adding and removing single in- and outbounds does not touch these fields and
is in `ConfigSave`. `ensureXrayCore` may succeed or fail here; its own state
is the subject of `XrayRuntime`.

### Runs

| Run | Question | Bounds |
|---|---|---|
| `CoreFlagged` | do flag, pointer and Box agree among the operations that take the flag, is the flag always given back, and does the watchdog bring the core back after any failed operation? | two users, two watchdog ticks, two Boxes |
| `CoreRacing` | has the flag one owner when the unguarded operations run too, and does the core stay down in safe mode until somebody asks for it? | two users, one job, three Boxes, safe mode |
| `CoreStopRace` | finding: `RestartCore` against the watchdog | one user, one job, three Boxes |
| `CoreSafeReset` | finding: the traffic reset in safe mode | one user, one job, two Boxes, safe mode |

Two goroutines of each kind are what every race above needs: one inside
`Core.Start` or `Core.Stop`, one that passes it. An operation refers to at most one
Box beside `instance`, so two goroutines need three Boxes where both may start at
once and two where the flag keeps them apart. Deadlock checking is off because
the process may end (`up` false).

The findings. `RestartCore` calls `StopCore` before anything looks at the flag. When
`Core.Stop` overlaps a `Core.Start`, `isRunning` may end up true over a nil instance,
and `StartCore` skips the start from then on: `CoreComesBack` fails. `DeleteRelay` and
`CreateRelay` have the same problem with their own stop and start (the run with
`UserKinds = {"DeleteRelay"}` fails in the same way), and may also leave a Box that
nothing refers to and that keeps the ports. `ResetTrafficJob` ends
with `RestartCore` and so starts the core in safe mode; `CreateRelay` does too, but
there a user has asked for a relay.

### Fairness

Goroutines run and time passes. The watchdog ticks for ever (`CheckCore`). A
configuration it tries again and again is accepted in the end (strong fairness of its
`Build` and of its `Finish`, which ports that stay taken still block): without it a
configuration that never parses keeps the core down, which is no error of the
lifecycle. Nothing is asked of users.

### Proofs

`CoreRuntimeProofs` proves, for any users, jobs, boxes and any set of operations:

- `CoreTypes` and `OneFlagOwner`, from `FlagInv`. It adds to `FlagIsOwned` which phases
  each operation may be in (`Fits`), because an operation owns the flag by being in
  an operation that takes it, beyond `take`: an unguarded operation must never
  enter `drop`, and a guarded one never become idle without it.

and, when only operations that take the flag run (`OnlyFlagged`; the run
`CoreFlagged` is an instance of it):

- `HonestCore`, `NoBoxLeaks` and `NoNilIsRead`, from `CoreInv`: what each phase knows
  of the core (`Here`), and that a core that is not running has no Box between two
  operations (`Resting`). Because of `FlagInv` a goroutine beyond `take` is alone
  (`Alone`), so each step needs to be looked at for its own goroutine only
  (`StepOf`, `QuietStep`). The findings show that the restriction is needed.

- `SafeModeWaits` (theorem `SafeModeHolds`), without that restriction: from `SafeInv`.
  Until somebody has asked for the core, only `RestartXray` and `RotateRelay` may be
  under way in safe mode, and they find the core down and leave it, so that they never
  reach a phase beyond `take` but `ensure` and `drop` (`Waiting`).

Model-checked only: the liveness properties.

## 5. XrayRuntime

### Correspondence

`cmd` and `done` are `r.cmd` and `r.done` (`r.cancel` goes with `cmd`); `proc` is what
the operating system knows of each child and `full` whether its one-slot channel
holds an exit status. Every step of `Start` and `Stop` is one critical section of
`r.mu`, or one wait: `Start` holds the mutex while it spawns (`StartSpawns`) and then
waits 700 ms (`StartSeesExit`, `StartSettles`); `Stop` takes the child (`StopTakes`),
releases the mutex, cancels it (`StopCancels`) and waits 2 s (`StopSeesExit`,
`StopGivesUp`). `Reaps` is the goroutine per child, which clears the record and
sends on `r.done` under the mutex. Timers are choices: they may fire before or
after the event they race with. `stale` is a history variable: the children that
were running when the Stop of a caller began.

`XrayChild` is the promise to the rest of the panel. `XrayRuntime` implements it with
the children that are spawned and not reaped as its `children`.

### Runs and proofs

`XrayRaces` (three callers, two processes) checks `ReaperNeverBlocks`,
`StopIsEffective`, the refinement `OneChild`, and that a child that was killed or has
exited is forgotten, so that a later `Start` is not a silent no-op
(`DeadChildIsForgotten`). Three callers are what a Stop, a Restart and a Start of the
watchdog need to meet; two identities are the old child some caller still waits for
and the new one, and the theorems below hold for any number. Its fairness:
goroutines run, a killed process dies; a child nobody kills may live for ever.
There is no deadlock to look for: a caller may always call again.

`XrayRuntimeProofs` proves the three safety properties for any callers and
processes from `IInv`: `Recording` (a child that is not reaped is the one on record
and its channel is empty; this is what makes the send on the *current* `r.done` the
send on the child's *own* channel) and `Stopping` (what a stopping caller must see
dead is the child it has taken, and is killed by the time it waits).

## 6. The panel's own components

### ConfigSave

`rows` are the committed rows (`obj` has, for each object, the number of the change
that last wrote it), `live` and `xlive` the configurations sing-box and Xray run,
`save` the `saveLocked` that holds `configSaveMu`. A save begins with one of `Put-`,
`Del-` and `Save...`, which say what it writes and which objects of the running core
it touches; `RunRemove` and `RunAdd` patch the core object by object, `WriteRows`
writes the rows, before or after that as the kind of object has it (`RowsFirst`);
`Commit`, then `AfterConfig`, `AfterDown` or `AfterUp` are what `saveLocked` does after
the commit, and `SaveFails` its deferred function. `StartCore` / `CoreStarted` are
the watchdog or a user, `StopCore` the first half of a restart, `JobRecords` a cron
job that writes to `changes` without `configSaveMu`. Remote editors read a revision and
the rows (`ReadRevision`, `ReadRows`), and save under `SaveWithRevision` (`RemoteSave`,
`Conflict`); a quick add is three saves (`QuickTls`, `QuickClient`, `QuickInbound`).

`drift` and `xdrift` record why a core may legitimately not run what is saved:
`refused` (another core operation was in progress, which the caller is told),
`crossed` (a start read the rows before a commit, or a save that had found the core
down met one that came up) and `skipped`, the finding below. `CoreFollowsSaves` and
`XrayFollowsSaves` hold outside of them; `RemoteEditsAreFresh` is an action property of
the revision check. An object's content is the number of the change that wrote it,
so that two saves of the same content count as different: stricter than the code
needs.

Proved, from `SaveAssumption` (inbounds are no other objects, savers and `NoOne` are
told apart): `CoreFollowsSaves`, `XrayFollowsSaves`, `RemoteEditsAreFresh` and the types,
for any objects, editors and number of changes. `SaveInv` has for each phase of a save
which objects the core already runs as the next rows have them, which as the
committed ones, and which one is out (`Runs`); what a start that is under way has
read (`CoreInv`); that a save which is not said to affect Xray leaves its inbounds as
they are (`XrayInv`); and that an editor whose revision is the last one has seen the
committed rows (`EditInv`).

The run `SaveSkipsXray` is a finding: with sing-box down and an Xray child up, a save
of an Xray inbound goes through `StartCore`, which leaves the child alone, and is
answered with success.

### ClientQuota

A client has all inbounds of `Boxed`; `users` is whom each running inbound lets in,
`conn` a connection from its acceptance (`Accept`) over its registration with the
trackers (`Routed`) to its end. `old` and `late` mark a connection that was accepted
before its inbound was swept. `GetStats` and `SaveStats` are the two halves of the
statistics job, between which the counters belong to `taken`; `DepleteClients` is
`ResetClients` and the depletion in one transaction, `CutRemove` and `CutAdd` the
restart of inbounds after it; `SaveClient`, `SaveRemove`, `SaveAdd`, `SaveCommit` the save
of a client whose row a browser loaded with `LoadForm`; `ResetAllClientsTraffic` and
`RestartCore` the traffic job. `EnabledClientsAreServed` and `NoConnectionSurvives` are
about a moment at which none of them is in the middle of something. `missed` are the
inbounds that something the code does leaves with other users, each marked where it
happens and never by comparing users: a commit finds a start under way that has read
the rows already (`Overtakes`); a start ends, or the depletion restarts an inbound, while
a save of other users is open, whose rows it does not see (`Hidden`); a restart of the
depletion fails (`CutFails`); and the global reset enables every client but gives up,
at the row of changes or at `SetGlobalResetLast`, before it restarts the core
(`ResetStops`, the early returns of `resetTrafficJob.go:40-50`). A save itself is never an excuse: the
mutant `SaveAddCommitted`, which reads the users outside of its transaction, breaks
`EnabledClientsAreServed`. Reading the users and adding the inbound is one step
(`CutAdd`, `SaveAdd`). `NeverOverbilled` is about every state. Traffic may be lost
(a failed transaction, a core that stops with its tracker, a stale form): the code
accepts that, and no property speaks against it.

All three are proved with the types, for any clients, inbounds, volume and traffic,
from `QuotaAssumption`; it asks for a client, because an empty table of clients could
not be told from the absence of a start. Of `QuotaInv`, `Bills` bounds every copy of a
row, the browser's and the save's too: what a row bills and the tracker and
`SaveStats` hold is no more than was sent. `Served` says which rows each running
inbound was built from that nothing is to restart any more: the committed ones, or
those that a save is about to commit, unless it is marked. `Admitted` says that tracked connections are of
clients their inbound lets in: a restart has closed those of the others, and what it
could not see yet is not counted as tracked.

### ClientLinks

A link records what it was made from (`LinkOf`), so that a link is current when it is
the one that would be made now. `SaveOneClient`, `EditBulk`, `DeleteClients` are the
acts of `ClientService.Save`, with `updateLinksWithFixedInbounds`; `NewInbound`,
`EditInbound`, `DeleteInbound`, `EditTls` the saves that look for links by tag;
`CreateRelay`, `DeleteRelay`, `RepairRelay` what pools do to inbounds and clients.
`LinksAreCurrent` excuses a client whose inbound a pool deleted or repaired
(`pooled`) or whose remark a bulk edit set back to what the browser had loaded
(`reverted`): the model has both behaviours of the code.

`LinksAreCurrent` is proved for any inbounds, clients, tags, external links and pools,
without an assumption on the constants. It is inductive together with the types,
the uniqueness of tags (`TagsDiffer`), which finding a link by its tag rests on, and
`NothingAhead`: no row and no form of the browser knows an inbound that is not there
yet, so that a new inbound takes nobody's links over, and a client that is not there
has no external links to lose. The lemma `LinksRemade` is the argument of every save of
an inbound: links are made again for some inbounds, those whose tag is not looked
for stay, and they are the links of all others.

### RelayRoutes

Rules are records in the order in which the router reads them, `Exit` is where
traffic of a pool's inbound for a destination leaves by the rules, outbounds
and the fallback outbound (`ByFallback`), and `Promised` is what README.md:178-191 of the
repository says of the pool's mode. A pool stands for one of its items where
rules are concerned and has `Count` ports. `CreatePool` and `DeletePool` are one
transaction each, `Boot` is the repair at startup, `LoadConfig` and `SaveForm` a browser
that edits the whole configuration and may add a rule of the user's. `Update` is `updateRelayRouteRules`: `AllWritten`, the
new rules in the order of the pools' numbers, in front of `Kept`, the others without
those that the code takes for generated ones. `ServedAsPromised` and `DeadPoolsLeaveNothing`
(together `RoutesHold`) leave out what a user has edited (`edited`) or brought back
with an old copy (`revived`); `UserRulesStay` is about every step but the browser's.

What an update takes for generated (`Recognised`) includes rules of users: one that
leads to an outbound of the pool, and every reject of IPv4, whatever else it is about.
`UserRules` has rules of each kind: a route of everything to `direct` and to a pool's
outbound, one about a single inbound that stays, and two that name the inbounds of
all pools, a reject of mail over IPv4 and a route of mail to an outbound of the first
pool. `UserRulesStay` says which of them an update may remove, that it removes them as
a whole, for the other inbounds they name too, and that the rest stays in its order.
So the property is weaker than the title of the code's test,
`TestUpdateRelayRouteRulesAddsAndRemovesOnlyRelayRules` (`relay_test.go:719`): the reject of
mail is no relay rule, and the creation, deletion or repair of a pool whose inbound
it names removes it (`relay.go:2545`).

`Promised` departs from README.md in one place. README.md:191 says that with the Apple ID
option all names but Apple's three leave by the address; the code sends the names
of `relayVintedCaptchaDomains` to the upstream too (`relay.go:70`, `relay.go:2562`), and
`relay_test.go:922` asserts that. The model writes that rule (`Written`), has such a name
among its destinations (`Dests`), and `Promised` follows comment and test. README.md's own
sentence does not hold of the code: as soon as a pool with the option exists, a
captcha name leaves by the upstream.

The router of sing-box is external and modelled as `service/relay_test.go` and the
code rely on it: the first rule that decides, and what a resolve action makes known.

`RelayRoutesProofs` proves `RoutesTypeOK`, `RoutesHold` and `UserRulesStay` for any
number of pools of any size, ports and saves, under `RoutesAssumption` (there is a
pool, pools have items, and ports are numbers). Lists of any length need induction
over data, and the library's induction theorems, which take an operator, cannot be
used; `Least`, `Induct` and `SeqInduct` say the same of a set, from the library's theorem
that a well-founded relation has minimal elements in every set, and `Recursion` that a
recursive function has a value. On them stand, in this order:

1. *selection* (`OnlyConcat`, `OnlyTwice`, `OnlyRange`): what filtering does to lists;
2. *parts* (`KeptParts`, `AllWrittenParts`, `UpdateParts`): an update puts the rules of
   each of its pools in front of what is left of the rules about it, leaves the rules
   about every other pool as they were, and keeps the user's;
3. *locality* (`SameRouting`): where traffic of a pool leaves depends on the rules
   about that pool only, in their order: names that are resolved included;
4. *service* (`WrittenServes`): the rules written for a pool of each of the seven kinds,
   in front of any others, serve each destination as is promised, whether or not the
   address reaches it;
5. *ports* (`NextPortRangeIs`): the search, which skips to behind each conflict,
   finds the first free range, and fails only if there is none;
6. the invariant `RoutesInv`. `RoutesHold` is not inductive: a deletion removes what it
   recognises by the pool's outbounds, so that the rules of the configuration *and of
   the browser's copy* that name a pool's inbound have to be recognised as its own
   (`OwnRule`), no rule may name a pool that is yet to come, whose creation would
   turn it into one of a live pool, and the copy has to have the resolver that its
   rules need. TLC checked the same formula, for two pools and five ports (254 740 states), before
   it was proved.

### ApiTokens

One administrator. `LoginRead` / `LoginWrite` and `ChangeRead` / `ChangeSave` are the two
statements of `CheckUser` and `ChangePass`; a change of the tokens table is followed by
`ReloadRead` and `ReloadSwap` in the same request. `AccountsHold` is
`TokensAreFollowed` and `PasswordIsTheLastSet`. Their excuses are behaviours of the
code: an older reading of the table replaces a newer one, or a reload panics
(`overtaken`); a session asks for a token under a name that is no longer the user's
(`misnamed`), after which `LoadTokens` dereferences a nil user and the panel does not
start; a login upgrades a plain password while another is set (`crossed`).

`AccountsHold` is proved for any sessions, names, passwords and number of tokens, from
`TokensAssumption`. `TokensInv` adds what a request has read and may still act on: a
reading of the table that nothing has passed is the table as it is, or another
reload is under way that it will pass or be passed by (`ReadingInv`); a login on a plain
password has compared it with the one that is set (`LoginInv`); a change has a name
to set (`ChangeInv`).

### DbImport

`disk` maps the paths of `ImportDB` to files, `data` says what is in a file, `handle` is
the file the open database is connected to, whatever its name is by now. Each of
`CreateTemp` ... `InitPasses` is one step of `ImportDB`, `FailsEarly`, `MoveInFails` and
`InitFails` its error returns with the deferred removals, `ProcessEnds` a crash or the
`log.Fatal` of a migration. `Save` is any other request, on a connection that is open or
opens the path anew (`Connected`). `mine` is the file with the rows the user has
been told of. `RowsAreKept` says that they are at the path or in the fallback, that the
panel starts with them, and that a backup has those of the tables it copies, outside
of four marked cases:
a rejected upload that stayed open answered a save (`forked`), a rename back that
failed (`unmoved`), a start with other rows (`remade`), and a process that ended while
the file was being replaced (`cutOff`), since nothing looks for the fallback at start.

Rows are of two kinds of `Tables`: those `GetDb` lists (`Listed`), and `agent_nodes`, which
`InitDB` creates and `GetDb` does not copy (`backup.go:49-63`, `db.go:123`). `GetDbReads`
leaves it out as the code does, so no backup has the managed nodes, and a panel that
restores one has none; `BackupHasTheSaves` claims the listed tables only. No document
of the repository says whether nodes belong in a backup, so this is a note and a
hazard, not a finding. The statistics and the changes, which the caller may exclude,
are not told apart.

`RowsAreKept` is proved for any number of files and saves from `DbAssumption`. `DbInv`
says that no two paths have the same file (`FilesApart`), where the file with the
user's rows is in each phase of an import (`MineIsThere`; that needs no excuse for
`forked`), and what a backup has copied so far (`ScanInv`).

## 7. The components of managed nodes and relays

### RelayPool

`pools` are the committed items, `host` the addresses on the interface, `core` the
addresses the running core binds. An operation holds `relayMu` (`op`) and goes through
`AddAddress`, `AddressesReady`, `WriteAndStop`, `StartNew`, `Commit`, `BootCore`,
`RemoveAddress`, `Finish`; `OpFails` is any error return with the deferred functions,
`Crash` and `Reboot` the end of the process and of the host, `NetworkRestart` a host that
loses its added addresses, `EnsureAddresses` the job that puts them back.
`NoStrayAddress` excuses an address whose removal failed or whose process ended
(`strays`), `CoreBindsTheRows` a start with the rows of before while a create or a
delete was about to commit (`crossed`), and `UsedAddressesStay` an address that two
items were given (`op.shared`).

These three and the types are proved for any pools, sizes and addresses, from
`PoolAssumption` (the host's own addresses are addresses, pools have items). `PoolInv`
says what an operation that has not committed will add and give up (`Planned`), what
one that has committed still gives up (`Leaving`), where every added address comes
from (`HostKnown`: a pool's row, the host itself, the operation under way, or
`strays`), and which rows a running core has read (`CoreKnown`).

`LostAddressReturns` is a liveness property. Its fairness (`RelayFairness`): an operation
that has begun goes on, since each of its steps has a timeout, and the job that
puts addresses back gets `relayMu` and finds an interface that takes them
infinitely often if it needs to infinitely often (strong fairness, because users
may begin operations again and again; `sync.Mutex` is starvation-free). Nothing is
asked of users, crashes or the network.

### Enrolment

`nodes` is the table `agent_nodes`, with credentials as numbers in the order they are
drawn. `ConnectLocalController` on another server is `link`: it sends its code or key
(`Connect`), the controller reads and consumes it in two statements (`PairRead`,
`PairWrite`) or creates a node (`EnrollRead`, `CreateConnected`), the server tries the
token (`CheckRead`, `CheckWrite`), writes the file and restarts the agent. A refusal,
a lost answer and a failed command end it anywhere. `Heartbeat` / `HeartbeatWrite` are
a report that is looked up by token and written by id. `EnrolmentHolds` is three
statements: a call that was told a token holds its node's until the user rotates or
deletes it; a node that is shown as seen was seen with the token it has, save for a
report that was being handled (`late`); the agent runs with the token of its file.

It is proved with the types for any nodes, servers, calls and number of credentials,
from `EnrolAssumption`. `EnrolInv` adds that ids are not given out twice (`BornFirst`),
that a call was told a token of a row whose code is consumed (`LinkInv`; a code that
still opened the row would let another call replace the token), and that a report
or a check that is being handled has the token of its row, or the row's was
replaced meanwhile (`Current`).

### RemoteCall

A call travels as `frame` from controller to agent, holds a `slot` of the connection,
is a `job` in the node's panel and comes back as `reply` and `frame`. The connection may
break and be made again at any moment; the controller's timer (`CallTimeout`), the
agent's (`PostFails`) and the end of the panel (`PanelExits`) are independent. A user of
the node saves too (`LocalSave`). `AnswersAreTrue` says what each answer means;
`RetryIsSafe` that of two calls with the same revision one at most changes anything.
An operation on relay pools has no revision: the second property leaves it out.

Both are proved with the types for any calls, slots, connections and changes, from
`CallAssumption`. `CallsInv` follows an answer back along its way. An answer says what
the call has changed, at each hop it may be at (`Truthful`); before the panel is done
nobody has heard of an end (`Unheard`), and a call that was turned away goes nowhere
any more (`Turned`); the changes of a call are those that follow its revision
(`Claimed`), which is why a second call with that revision makes none.

## 8. The composed runs

Components that share no variable are checked in one run: `part` is chosen in the
initial state and never changes, the component it names moves and the others stay
as they are. The state graph is the sum of theirs, not their product. What interacts
interacts within a module.

The MC modules EXTEND the components, so that a run checks the properties that the
theorems are about. `PanelComposes` and `RemoteComposes` (in `PanelProofs` and
`RemoteProofs`) prove that each composed specification implements that of every
component in it, so that what is proved of a component is proved of the run;
`PanelTypes` and `RemoteTypes` put the type theorems together this way.

`Panel` (`MCPanel`: `ConfigSave`, `ClientQuota`, `RelayRoutes`, `ApiTokens`, `DbImport`,
`ClientLinks`; 720 000 states) has these bounds:

- *saves*: one object of each kind, the inbound and the service with TLS, one remote
  editor beside the browser, three changes. Two savers and a change between a read
  and a save are what each race of a revision needs; a failed save needs an object that
  is patched, and one written before or after, which the kinds of object provide.
- *quota*: two clients (with and without a periodic reset), one inbound, one unit of
  traffic of one client, either, over a volume of zero, two moments, one save. A client
  that is over its volume, one that is reset and one that is both occur, each beside
  a client that must not be touched.
- *routes*: two pools of any kind, one of two items; four ports with one taken, so
  that ranges meet, skip and do not fit; one save of the browser, with each of five
  rules of the user's in front or behind, two of which name both pools.
- *tokens*: two sessions, two names, two passwords, one token.
- *import*: three files, so that two uploads are tried, or one and a database made
  anew; one save for each file and kind of table.
- *links*: two inbounds, one with TLS, two clients, two tags, one external link;
  `AnItem` gives a pool's item the first inbound and the second client. A second
  client is not born together with a second inbound, external links or another content
  of the TLS row (the conjunct of `Linking`): a bulk edit and a pool need two
  clients, a renaming that takes over a tag two inbounds, and no save looks at both.

`Remote` (`MCRemote`: `RelayPool`, `Enrolment`, `RemoteCall`; 550 000 states):

- *relay*: a pool of two items and one of one, two addresses beside the host's own:
  a rotation of one item beside another, and pools that are given the same address.
- *enrol*: one node id, two servers, two calls (at one server or two), five credentials:
  a node with its code, a rotation or a pairing, and a key. Servers are interchangeable:
  the first is the first to have a file.
- *call*: two calls, one slot, two connections, two changes, quick adds of two saves:
  a retry, a full connection, and a change by somebody else between two steps. Calls
  are interchangeable and made in the order of their numbers.

Deadlock checking is off in both, since bounds stop them and a database may end in a
panel that does not start. Both runs check a type invariant of all parts and every
property named above. The mutants in `PROJECT.json` say which plausible mistake each
property finds.

## 9. What stays with TLC

- The liveness properties: `DisconnectEndsCalls`, `ShellsReaped` (`AgentHub`),
  `CoreComesBack`, `FlagIsFreed` (`CoreRuntime`), `DeadChildIsForgotten` (`XrayRuntime`) and
  `LostAddressReturns` (`RelayPool`). Proofs under fairness need ENABLED, which the
  prover does not have.
- The violation runs, whose counterexamples need no proof.

## 10. Not modelled

- Formatting and translation: subscriptions (`sub/`), the text of links
  (`util/genLink.go`, `util/linkToJson.go`), Xray's JSON (`service/xray_config.go`),
  options of objects. They are pure functions of stored rows and have tests of their
  own; the modules say when they are applied, and to which rows.
- Key-value settings, host status, the web and subscription servers with TLS
  and middleware, logs: storage and I/O without state of their own to get wrong.
- External programs and services: nginx, WARP, the provisioning of addresses by the
  network, `systemctl` beyond its outcome. Migrations are SQL that runs once; what
  matters here is that they pass, fail or end the process.
- Relay pools: the schedule of rotations, which `SetRelayRotation` only ever switches off,
  the links that refresh an item without a login beyond the rotation they start, and
  the discovery and probing of addresses, whose outcome is a choice in `RelayPool`.
- Terminal input and the contents of reports, which pass through.
- The statistics table and its deletion, the inbounds of Xray in `ClientQuota`
  (disabling a client restarts only those of sing-box), and what a caller of `GetDb`
  excludes of the statistics and the changes.
- The command line and the web frontend.
