----------------------------- MODULE CoreRuntime -----------------------------
(***************************************************************************)
(* The life of the embedded sing-box core: core/main.go (Core.Start and    *)
(* Core.Stop, which use no lock), and the operations of service/config.go  *)
(* and service/relay.go that start, stop and swap it.  Most of them hold   *)
(* startCoreInProgress while they do; RestartCore (StopCore), CreateRelay  *)
(* and DeleteRelay do not.  Goroutines of the API (Users) and of the cron  *)
(* scheduler (Jobs) interleave between any two accesses to the core.       *)
(***************************************************************************)
EXTENDS Naturals, FiniteSets

CONSTANTS
  Users,      \* goroutines that serve API requests; gin recovers their panics
  Jobs,       \* goroutines of the cron scheduler; a panic ends the process
  Boxes,      \* sing-box instances that exist at the same time
  NoBox,      \* a nil *Box
  UserKinds,  \* the operations users call
  JobKinds,   \* the cron jobs that are scheduled
  SkipCore    \* config.IsSkipCore(): the safe mode

\* The operations that run StartCore(), restartSingBoxCore, and so on under the
\* flag, and those that work on the core without it.
Starters   == {"StartCore", "SaveObject", "CreateBoot"}
Flagged    == Starters \cup
              {"SaveConfig", "SaveRollback", "RestartXray", "RotateRelay", "RotateRestore"}
Unflagged  == {"RestartCore", "CreateRelay", "DeleteRelay", "RelayRestore"}
Operations == Flagged \cup Unflagged

\* Operations that hold configSaveMu, and those that hold relayMu.
SaveOps  == {"SaveObject", "SaveConfig", "SaveRollback"}
RelayOps == {"CreateRelay", "CreateBoot", "DeleteRelay", "RelayRestore",
             "RotateRelay", "RotateRestore"}

ASSUME CoreAssumption ==
  /\ NoBox \notin Boxes
  /\ Users \cap Jobs = {}
  /\ UserKinds \subseteq Operations
  /\ JobKinds \subseteq {"CheckCore", "ResetTraffic"}
  /\ SkipCore \in BOOLEAN

VARIABLES
  running,   \* Core.isRunning
  instance,  \* Core.instance
  box,       \* what each Box is doing
  busy,      \* startCoreInProgress
  cooling,   \* less than startCooldown since lastStartFailTime
  op,        \* the operation a goroutine is in
  pc,        \* and the phase it has reached
  target,    \* the Box whose Start() the goroutine is executing
  up,        \* the panel process is alive
  asked      \* who has asked so far for the core to be started

vars == <<running, instance, box, busy, cooling, op, pc, target, up, asked>>
core == <<running, instance, box>>

Goroutines == Users \cup Jobs

Phases == {"idle", "take", "stop", "close", "forget", "clear", "start", "begin",
           "finish", "undo", "undone", "ensure", "boot", "drop"}

\* The phases that lie between the first and the last access to the core of a
\* Core.Stop or Core.Start call.
CorePhases == {"close", "forget", "begin", "finish", "undo", "undone"}

TypeOK ==
  /\ running \in BOOLEAN
  /\ instance \in Boxes \cup {NoBox}
  /\ box \in [Boxes -> {"closed", "built", "starting", "serving"}]
  /\ busy \in BOOLEAN
  /\ cooling \in BOOLEAN
  /\ op \in [Goroutines -> Operations \cup {"none"}]
  /\ pc \in [Goroutines -> Phases]
  /\ target \in [Goroutines -> Boxes \cup {NoBox}]
  /\ up \in BOOLEAN
  /\ asked \in {"nobody", "schedule", "user"}

Init ==
  /\ running = FALSE
  /\ instance = NoBox
  /\ box = [b \in Boxes |-> "closed"]
  /\ busy = FALSE
  /\ cooling = FALSE
  /\ op = [t \in Goroutines |-> "none"]
  /\ pc = [t \in Goroutines |-> "idle"]
  /\ target = [t \in Goroutines |-> NoBox]
  /\ up = TRUE
  /\ asked = "nobody"

-----------------------------------------------------------------------------
\* Moving a goroutine.

Becomes(t, k, phase) ==
  /\ op' = [op EXCEPT ![t] = IF phase = "idle" THEN "none" ELSE k]
  /\ pc' = [pc EXCEPT ![t] = phase]

Goes(t, phase) == Becomes(t, op[t], phase)

\* t holds startCoreInProgress.
Holds(t) == op[t] \in Flagged /\ pc[t] \notin {"idle", "take"}

\* No goroutine is in one of the operations ks: their mutex is free.
Serial(ks) == \A u \in Goroutines : op[u] \notin ks

\* A mutant: a restart that does not stop the old core first.
AfterTakeUnstopped(k) == IF k = "RestartXray" THEN "ensure" ELSE "start"

AfterTake(k) == IF k \in Starters THEN "start"
                ELSE IF k = "RestartXray" THEN "ensure"
                ELSE IF k = "RotateRelay" /\ ~running THEN "drop"
                ELSE "stop"

AfterStop(k) == IF k = "RestartCore" THEN "clear" ELSE "start"

AfterStart(k) == IF k \in Starters \cup {"SaveConfig"} THEN "ensure"
                 ELSE IF k \in {"SaveRollback", "RotateRelay", "RotateRestore"} THEN "drop"
                 ELSE IF k = "CreateRelay" THEN "boot"
                 ELSE "idle"

\* A mutant: an early return that keeps the flag.
FailsHolding(t) ==
  \/ op[t] \in {"CreateRelay", "DeleteRelay"} /\ Becomes(t, "RelayRestore", "stop")
  \/ op[t] = "RotateRelay" /\ Becomes(t, "RotateRestore", "stop")
  \/ op[t] \notin {"CreateRelay", "DeleteRelay", "RotateRelay"} /\ Goes(t, "idle")

\* An operation returns an error: its deferred functions restore the previous
\* configuration of a relay change, and give the flag back.
Fails(t) ==
  \/ op[t] \in {"CreateRelay", "DeleteRelay"} /\ Becomes(t, "RelayRestore", "stop")
  \/ op[t] = "RotateRelay" /\ Becomes(t, "RotateRestore", "stop")
  \/ op[t] \in Flagged \ {"RotateRelay"} /\ Goes(t, "drop")
  \/ op[t] \in {"RestartCore", "RelayRestore"} /\ Goes(t, "idle")

\* A failed start inside StartCore() begins the cooldown.
Cooldown(t) == cooling' = (cooling \/ op[t] \in Starters)

\* A mutant: the flag is not given back by a deferred function.
PanicsHolding(t) ==
  \/ t \in Users /\ Goes(t, "idle") /\ UNCHANGED up
  \/ t \in Jobs /\ up' = FALSE /\ UNCHANGED <<op, pc>>

\* A nil *Box is dereferenced.  In a request the deferred functions run and gin
\* recovers; in a cron job nothing does.
Panics(t) ==
  \/ t \in Users /\ Fails(t) /\ UNCHANGED up
  \/ t \in Jobs /\ up' = FALSE /\ UNCHANGED <<op, pc>>

-----------------------------------------------------------------------------
\* Operations begin.

\* A mutant: the watchdog does not look at the safe mode.
CheckCoreAlways(t) ==
  /\ "CheckCore" \in JobKinds
  /\ t \in Jobs
  /\ pc[t] = "idle"
  /\ Becomes(t, "StartCore", "take")
  /\ UNCHANGED <<core, busy, cooling, target, up, asked>>

\* CheckCoreJob.Run every 5 s, and App.Start.
CheckCore(t) ==
  /\ "CheckCore" \in JobKinds
  /\ ~SkipCore
  /\ t \in Jobs
  /\ pc[t] = "idle"
  /\ Becomes(t, "StartCore", "take")
  /\ UNCHANGED <<core, busy, cooling, target, up, asked>>

\* The end of ResetTrafficJob.Run: RestartCore.
ResetTraffic(t) ==
  /\ "ResetTraffic" \in JobKinds
  /\ t \in Jobs
  /\ pc[t] = "idle"
  /\ Becomes(t, "RestartCore", "stop")
  /\ asked' = (IF asked = "nobody" THEN "schedule" ELSE asked)
  /\ UNCHANGED <<core, busy, cooling, target, up>>

\* A request enters operation k at the given phase.
Calls(t, k, phase) ==
  /\ k \in UserKinds
  /\ t \in Users
  /\ pc[t] = "idle"
  /\ Becomes(t, k, phase)
  /\ UNCHANGED <<core, busy, cooling, target, up>>

\* RestartSb and ResetTraffic of the API.
RestartCore(t) == Calls(t, "RestartCore", "stop") /\ asked' = "user"

\* saveLocked has committed a change and finds the core down.
SaveObject(t) ==
  /\ Serial(SaveOps)
  /\ ~running /\ ~SkipCore
  /\ Calls(t, "SaveObject", "take")
  /\ UNCHANGED asked

\* saveLocked has committed a new base configuration: restartCoreWithConfig.
SaveConfig(t) ==
  /\ Serial(SaveOps)
  /\ running \/ ~SkipCore
  /\ Calls(t, "SaveConfig", "take")
  /\ UNCHANGED asked

\* saveLocked has rolled a change back and restores the core: restartSingBoxCore.
SaveRollback(t) ==
  /\ Serial(SaveOps)
  /\ running
  /\ Calls(t, "SaveRollback", "take")
  /\ UNCHANGED asked

\* RestartXrayCore from the API, or from a save that touches Xray inbounds.
RestartXray(t) == Calls(t, "RestartXray", "take") /\ UNCHANGED asked

\* CreateRelay, DeleteRelay and rotateRelayItemsLocked, once their rows are written.
CreateRelay(t) ==
  /\ Serial(RelayOps)
  /\ Calls(t, "CreateRelay", IF running THEN "stop" ELSE "boot")
  /\ asked' = "user"

DeleteRelay(t) ==
  /\ Serial(RelayOps)
  /\ running
  /\ Calls(t, "DeleteRelay", "stop")
  /\ UNCHANGED asked

RotateRelay(t) ==
  /\ Serial(RelayOps)
  /\ Calls(t, "RotateRelay", "take")
  /\ UNCHANGED asked

-----------------------------------------------------------------------------
\* The flag and the cooldown.

\* A mutant: the flag is not looked at.
BlockedByCooldown(t) == op[t] \in Starters /\ cooling

\* An operation that would take the flag may not: another holds it, or StartCore()
\* is cooling down.
Blocked(t) == busy \/ (op[t] \in Starters /\ cooling)

TakeRefused(t) ==
  /\ pc[t] = "take"
  /\ Blocked(t)
  /\ Goes(t, "idle")
  /\ UNCHANGED <<core, busy, cooling, target, up, asked>>

Take(t) ==
  /\ pc[t] = "take"
  /\ ~Blocked(t)
  /\ busy' = TRUE
  /\ Goes(t, AfterTake(op[t]))
  /\ UNCHANGED <<core, cooling, target, up, asked>>

Drop(t) ==
  /\ pc[t] = "drop"
  /\ busy' = FALSE
  /\ Goes(t, "idle")
  /\ UNCHANGED <<core, cooling, target, up, asked>>

\* RestartCore forgets the last failure, then calls StartCore().
ClearCooldown(t) ==
  /\ pc[t] = "clear"
  /\ cooling' = FALSE
  /\ Becomes(t, "StartCore", "take")
  /\ UNCHANGED <<core, busy, target, up, asked>>

Cools == cooling /\ cooling' = FALSE
         /\ UNCHANGED <<core, busy, op, pc, target, up, asked>>

-----------------------------------------------------------------------------
\* Core.Stop.

\* Callers that stop the core only when IsRunning().
StopsIfRunning == {"SaveConfig", "SaveRollback", "RelayRestore", "RotateRestore"}

StopSkipped(t) ==
  /\ pc[t] = "stop"
  /\ op[t] \in StopsIfRunning /\ ~running
  /\ Goes(t, AfterStop(op[t]))
  /\ UNCHANGED <<core, busy, cooling, target, up, asked>>

\* A mutant: isRunning is not cleared.
StopStale(t) ==
  /\ pc[t] = "stop"
  /\ running \/ op[t] \notin StopsIfRunning
  /\ Goes(t, IF instance = NoBox THEN AfterStop(op[t]) ELSE "close")
  /\ UNCHANGED <<running, instance, box, busy, cooling, target, up, asked>>

Stop(t) ==
  /\ pc[t] = "stop"
  /\ running \/ op[t] \notin StopsIfRunning
  /\ running' = FALSE
  /\ Goes(t, IF instance = NoBox THEN AfterStop(op[t]) ELSE "close")
  /\ UNCHANGED <<instance, box, busy, cooling, target, up, asked>>

\* c.instance is read again for its Close.
Close(t) ==
  /\ pc[t] = "close"
  /\ \/ /\ instance = NoBox
        /\ Panics(t)
        /\ UNCHANGED box
     \/ /\ instance # NoBox
        /\ box' = [box EXCEPT ![instance] = "closed"]
        /\ Goes(t, "forget")
        /\ UNCHANGED up
  /\ UNCHANGED <<running, instance, busy, cooling, target, asked>>

\* Close has returned, with or without an error.
Forget(t) ==
  /\ pc[t] = "forget"
  /\ instance' = NoBox
  /\ Goes(t, AfterStop(op[t])) \/ Fails(t)
  /\ UNCHANGED <<running, box, busy, cooling, target, up, asked>>

-----------------------------------------------------------------------------
\* Core.Start.

\* A Box object that nothing refers to any more stands for one still to be made.
Unused(b) ==
  /\ box[b] \in {"closed", "built"}
  /\ instance # b
  /\ \A u \in Goroutines : target[u] # b

\* A Box can listen only while no other Box has its ports.
PortsFree(b) == \A c \in Boxes \ {b} : box[c] # "serving"

StartSkipped(t) ==
  /\ pc[t] = "start"
  /\ op[t] \in Starters /\ running
  /\ Goes(t, AfterStart(op[t]))
  /\ UNCHANGED <<core, busy, cooling, target, up, asked>>

MayStart(t) == pc[t] = "start" /\ ~(op[t] \in Starters /\ running)

\* The configuration cannot be read (no cooldown) or does not parse.
StartRejected(t) ==
  /\ MayStart(t)
  /\ Fails(t)
  /\ UNCHANGED cooling \/ Cooldown(t)
  /\ UNCHANGED <<core, busy, target, up, asked>>

BuildFails(t) ==
  /\ MayStart(t)
  /\ instance' = NoBox
  /\ Fails(t)
  /\ Cooldown(t)
  /\ UNCHANGED <<running, box, busy, target, up, asked>>

Build(t) ==
  /\ MayStart(t)
  /\ \E b \in Boxes :
       /\ Unused(b)
       /\ box' = [box EXCEPT ![b] = "built"]
       /\ instance' = b
  /\ Goes(t, "begin")
  /\ UNCHANGED <<running, busy, cooling, target, up, asked>>

\* A mutant: isRunning is set before the Box has started.
BeginEarly(t) ==
  /\ pc[t] = "begin"
  /\ instance # NoBox
  /\ target' = [target EXCEPT ![t] = instance]
  /\ box' = IF box[instance] = "built"
            THEN [box EXCEPT ![instance] = "starting"] ELSE box
  /\ Goes(t, "finish")
  /\ running' = TRUE
  /\ UNCHANGED <<instance, busy, cooling, up, asked>>

\* c.instance is read again for its Start.
Begin(t) ==
  /\ pc[t] = "begin"
  /\ \/ /\ instance = NoBox
        /\ Panics(t)
        /\ UNCHANGED <<box, target>>
     \/ /\ instance # NoBox
        /\ target' = [target EXCEPT ![t] = instance]
        /\ box' = IF box[instance] = "built"
                  THEN [box EXCEPT ![instance] = "starting"] ELSE box
        /\ Goes(t, "finish")
        /\ UNCHANGED up
  /\ UNCHANGED <<running, instance, busy, cooling, asked>>

Finish(t) ==
  /\ pc[t] = "finish"
  /\ PortsFree(target[t])
  /\ box' = IF box[target[t]] = "starting"
            THEN [box EXCEPT ![target[t]] = "serving"] ELSE box
  /\ running' = TRUE
  /\ target' = [target EXCEPT ![t] = NoBox]
  /\ Goes(t, AfterStart(op[t]))
  /\ UNCHANGED <<instance, busy, cooling, up, asked>>

FinishFails(t) ==
  /\ pc[t] = "finish"
  /\ target' = [target EXCEPT ![t] = NoBox]
  /\ Goes(t, "undo")
  /\ UNCHANGED <<core, busy, cooling, up, asked>>

\* The failed Box is closed through c.instance, which is read again.
Undo(t) ==
  /\ pc[t] = "undo"
  /\ \/ /\ instance = NoBox
        /\ Panics(t)
        /\ UNCHANGED box
     \/ /\ instance # NoBox
        /\ box' = [box EXCEPT ![instance] = "closed"]
        /\ Goes(t, "undone")
        /\ UNCHANGED up
  /\ UNCHANGED <<running, instance, busy, cooling, target, asked>>

Undone(t) ==
  /\ pc[t] = "undone"
  /\ instance' = NoBox
  /\ Fails(t)
  /\ Cooldown(t)
  /\ UNCHANGED <<running, box, busy, target, up, asked>>

-----------------------------------------------------------------------------
\* ensureXrayCore, whose own state is that of XrayRuntime; it may fail.
Ensure(t) ==
  /\ pc[t] = "ensure"
  /\ Goes(t, "drop")
  /\ UNCHANGED cooling \/ Cooldown(t)
  /\ UNCHANGED <<core, busy, target, up, asked>>

\* CreateRelay after its commit: StartCore() if the core is down.
Boot(t) ==
  /\ pc[t] = "boot"
  /\ IF running THEN Goes(t, "idle") ELSE Becomes(t, "CreateBoot", "take")
  /\ UNCHANGED <<core, busy, cooling, target, up, asked>>

-----------------------------------------------------------------------------
Enter(t) ==
  \/ CheckCore(t) \/ ResetTraffic(t)
  \/ RestartCore(t) \/ SaveObject(t) \/ SaveConfig(t) \/ SaveRollback(t)
  \/ RestartXray(t) \/ CreateRelay(t) \/ DeleteRelay(t) \/ RotateRelay(t)

FlagStep(t) == TakeRefused(t) \/ Take(t) \/ Drop(t) \/ ClearCooldown(t)

StopStep(t) == StopSkipped(t) \/ Stop(t) \/ Close(t) \/ Forget(t)

StartStep(t) ==
  \/ StartSkipped(t) \/ StartRejected(t) \/ BuildFails(t) \/ Build(t) \/ Begin(t)
  \/ Finish(t) \/ FinishFails(t) \/ Undo(t) \/ Undone(t)

Step(t) == FlagStep(t) \/ StopStep(t) \/ StartStep(t) \/ Ensure(t) \/ Boot(t)

Next == up /\ (Cools \/ \E t \in Goroutines : Enter(t) \/ Step(t))

Spec == Init /\ [][Next]_vars

\* Goroutines run, time passes, the watchdog keeps ticking, and a configuration
\* it tries again and again is accepted in the end, unless the ports stay taken.
Fairness ==
  /\ WF_vars(up /\ Cools)
  /\ \A t \in Goroutines : WF_vars(up /\ Step(t))
  /\ \A t \in Jobs : /\ WF_vars(up /\ CheckCore(t))
                     /\ SF_vars(up /\ Build(t))
                     /\ SF_vars(up /\ Finish(t))

LiveSpec == Spec /\ Fairness

-----------------------------------------------------------------------------
\* Properties.

\* Between two core operations, IsRunning() says whether a Box is serving: the
\* watchdog, the saves and the traffic job all decide on it (core/main.go:92, 97).
CoreHonest ==
  (\A t \in Goroutines : pc[t] \notin CorePhases) =>
    (running <=> instance # NoBox /\ box[instance] = "serving")

\* A Box that runs is the one Core.instance refers to; any other would keep its
\* ports and could never be closed (core/main.go:70, 81, 102).
NoLeakedBox == \A b \in Boxes : box[b] \in {"starting", "serving"} => instance = b

\* A goroutine that reads c.instance again, to close or start it, finds a Box
\* (core/main.go:78, 80, 101).
NoNilBox == \A t \in Goroutines : pc[t] \in {"close", "begin", "undo"} => instance # NoBox

\* startCoreInProgress is set exactly while one operation owns it, through errors
\* and recovered panics too (service/config.go:118-136).
FlagIsOwned ==
  /\ busy <=> \E t \in Goroutines : Holds(t)
  /\ \A t, u \in Goroutines : Holds(t) /\ Holds(u) => t = u

CoreDown == ~running /\ \A b \in Boxes : box[b] \notin {"starting", "serving"}

\* In safe mode the core stays down until somebody asks for it: a user's restart or
\* relay, or the scheduled traffic reset.  Neither the watchdog nor a save brings it
\* up (cronjob/checkCoreJob.go:17, service/config.go:544).
SafeModeWaits == SkipCore /\ asked = "nobody" => CoreDown

\* What the start-up message says of the safe mode: nothing starts the core before a
\* user does (app/app.go:101).
UsersStartCores == SkipCore /\ asked # "user" => CoreDown

Serving == running /\ instance # NoBox /\ box[instance] = "serving"

\* Once users leave it alone, the watchdog brings the core back for good
\* (cronjob/cronJob.go:47), unless the process is gone.
CoreComesBack ==
  (<>[](\A u \in Users : pc[u] = "idle")) => (<>[]Serving \/ <>~up)

\* The flag is always given back (service/config.go:132, 184, 210, 265, 282).
FlagIsFreed == busy ~> (~busy \/ ~up)

=============================================================================
