----------------------------- MODULE XrayRuntime -----------------------------
(***************************************************************************)
(* core/xray_runtime.go: the Xray core as a child process.  Start, Stop    *)
(* and Restart are called by any goroutine; the mutex r.mu guards the      *)
(* record of the child but is released while a caller waits for the child  *)
(* to exit.  A goroutine per child waits for it and clears the record.     *)
(***************************************************************************)
EXTENDS FiniteSets

CONSTANTS
  Callers,  \* goroutines that call Start, Stop or Restart
  Procs,    \* child processes: an identity is reused once nobody refers to it
  NoProc    \* a nil *exec.Cmd, a nil channel

ASSUME XrayAssumption == NoProc \notin Procs

VARIABLES
  cmd,     \* the child r.cmd and r.cancel belong to
  done,    \* the child r.done was made for
  proc,    \* the process itself; "gone": reaped, or not spawned yet
  full,    \* the one-slot channel of a child holds its exit status
  pc,      \* where a caller is
  child,   \* the child whose cancel and done a caller has taken
  again,   \* the caller is in Restart and will call Start after Stop
  stale    \* children that were running when the caller's Stop began

vars == <<cmd, done, proc, full, pc, child, again, stale>>
record == <<cmd, done, proc, full>>

TypeOK ==
  /\ cmd \in Procs \cup {NoProc}
  /\ done \in Procs \cup {NoProc}
  /\ proc \in [Procs -> {"gone", "alive", "killed", "exited"}]
  /\ full \in [Procs -> BOOLEAN]
  /\ pc \in [Callers -> {"idle", "start", "settle", "stop", "cancel", "wait"}]
  /\ child \in [Callers -> Procs \cup {NoProc}]
  /\ again \in [Callers -> BOOLEAN]
  /\ stale \in [Callers -> SUBSET Procs]

Init ==
  /\ cmd = NoProc
  /\ done = NoProc
  /\ proc = [p \in Procs |-> "gone"]
  /\ full = [p \in Procs |-> FALSE]
  /\ pc = [c \in Callers |-> "idle"]
  /\ child = [c \in Callers |-> NoProc]
  /\ again = [c \in Callers |-> FALSE]
  /\ stale = [c \in Callers |-> {}]

Alive == {p \in Procs : proc[p] = "alive"}

-----------------------------------------------------------------------------
\* Calls.

CallStart(c) ==
  /\ pc[c] = "idle"
  /\ pc' = [pc EXCEPT ![c] = "start"]
  /\ UNCHANGED <<record, child, again, stale>>

CallStop(c) ==
  /\ pc[c] = "idle"
  /\ pc' = [pc EXCEPT ![c] = "stop"]
  /\ stale' = [stale EXCEPT ![c] = Alive]
  /\ UNCHANGED <<record, child, again>>

CallRestart(c) ==
  /\ pc[c] = "idle"
  /\ pc' = [pc EXCEPT ![c] = "stop"]
  /\ stale' = [stale EXCEPT ![c] = Alive]
  /\ again' = [again EXCEPT ![c] = TRUE]
  /\ UNCHANGED <<record, child>>

\* The caller returns, and forgets the child it was waiting for.
Returns(c) ==
  /\ pc' = [pc EXCEPT ![c] = "idle"]
  /\ child' = [child EXCEPT ![c] = NoProc]

-----------------------------------------------------------------------------
\* Start.

\* A mutant: the process is asked, not the record.
RecordedAlive == cmd # NoProc /\ proc[cmd] = "alive"

\* isRunningLocked: there is a record, whatever has become of the process.
Recorded == cmd # NoProc

StartAlreadyRunning(c) ==
  /\ pc[c] = "start"
  /\ Recorded
  /\ Returns(c)
  /\ UNCHANGED <<record, again, stale>>

\* The binary is missing, the configuration cannot be written, the pipes or
\* the process cannot be created.
StartFails(c) ==
  /\ pc[c] = "start"
  /\ ~Recorded
  /\ Returns(c)
  /\ UNCHANGED <<record, again, stale>>

\* No process with this identity is left, nor a caller that refers to it.
Fresh(p) ==
  /\ proc[p] = "gone"
  /\ \A c \in Callers : child[c] # p /\ p \notin stale[c]

StartSpawns(c) ==
  /\ pc[c] = "start"
  /\ ~Recorded
  /\ \E p \in Procs :
       /\ Fresh(p)
       /\ cmd' = p
       /\ done' = p
       /\ proc' = [proc EXCEPT ![p] = "alive"]
       /\ full' = [full EXCEPT ![p] = FALSE]
       /\ child' = [child EXCEPT ![c] = p]
  /\ pc' = [pc EXCEPT ![c] = "settle"]
  /\ UNCHANGED <<again, stale>>

\* The child exits within 700 ms: Start returns an error.
StartSeesExit(c) ==
  /\ pc[c] = "settle"
  /\ full[child[c]]
  /\ full' = [full EXCEPT ![child[c]] = FALSE]
  /\ Returns(c)
  /\ UNCHANGED <<cmd, done, proc, again, stale>>

\* 700 ms have passed.
StartSettles(c) ==
  /\ pc[c] = "settle"
  /\ Returns(c)
  /\ UNCHANGED <<record, again, stale>>

-----------------------------------------------------------------------------
\* Stop, alone or as the first half of Restart.

StopReturns(c) ==
  /\ pc' = [pc EXCEPT ![c] = IF again[c] THEN "start" ELSE "idle"]
  /\ child' = [child EXCEPT ![c] = NoProc]
  /\ again' = [again EXCEPT ![c] = FALSE]
  /\ stale' = [stale EXCEPT ![c] = {}]

StopNothing(c) ==
  /\ pc[c] = "stop"
  /\ ~Recorded
  /\ StopReturns(c)
  /\ UNCHANGED record

StopTakes(c) ==
  /\ pc[c] = "stop"
  /\ Recorded
  /\ child' = [child EXCEPT ![c] = cmd]
  /\ pc' = [pc EXCEPT ![c] = "cancel"]
  /\ UNCHANGED <<record, again, stale>>

\* A mutant: a signal the child may ignore.
KillPolitely(p) == UNCHANGED proc

\* The kill signal reaches a child that has not exited by itself.
Kill(p) == proc' = [proc EXCEPT ![p] = IF @ = "alive" THEN "killed" ELSE @]

\* cancel() of the context the child runs under.
StopCancels(c) ==
  /\ pc[c] = "cancel"
  /\ Kill(child[c])
  /\ pc' = [pc EXCEPT ![c] = "wait"]
  /\ UNCHANGED <<cmd, done, full, child, again, stale>>

StopSeesExit(c) ==
  /\ pc[c] = "wait"
  /\ full[child[c]]
  /\ full' = [full EXCEPT ![child[c]] = FALSE]
  /\ StopReturns(c)
  /\ UNCHANGED <<cmd, done, proc>>

\* 2 s have passed: Process.Kill.
StopGivesUp(c) ==
  /\ pc[c] = "wait"
  /\ Kill(child[c])
  /\ StopReturns(c)
  /\ UNCHANGED <<cmd, done, full>>

-----------------------------------------------------------------------------
\* The child, and the goroutine that waits for it.

Exits(p) ==
  /\ proc[p] \in {"alive", "killed"}
  /\ proc' = [proc EXCEPT ![p] = "exited"]
  /\ UNCHANGED <<cmd, done, full, pc, child, again, stale>>

\* A mutant: the status is sent, the record is kept.
ReapsKeeping(p) ==
  /\ proc[p] = "exited"
  /\ ~full[done]
  /\ full' = [full EXCEPT ![done] = TRUE]
  /\ proc' = [proc EXCEPT ![p] = "gone"]
  /\ stale' = [c \in Callers |-> stale[c] \ {p}]
  /\ UNCHANGED <<cmd, done, pc, child, again>>

\* cmd.Wait has returned: under r.mu the record is cleared and the status is
\* sent on r.done, which must have room.
Reaps(p) ==
  /\ proc[p] = "exited"
  /\ ~full[done]
  /\ cmd' = NoProc
  /\ full' = [full EXCEPT ![done] = TRUE]
  /\ proc' = [proc EXCEPT ![p] = "gone"]
  /\ stale' = [c \in Callers |-> stale[c] \ {p}]
  /\ UNCHANGED <<done, pc, child, again>>

-----------------------------------------------------------------------------
Call(c) == CallStart(c) \/ CallStop(c) \/ CallRestart(c)

StartStep(c) ==
  \/ StartAlreadyRunning(c) \/ StartFails(c) \/ StartSpawns(c)
  \/ StartSeesExit(c) \/ StartSettles(c)

StopStep(c) ==
  \/ StopNothing(c) \/ StopTakes(c) \/ StopCancels(c)
  \/ StopSeesExit(c) \/ StopGivesUp(c)

Next ==
  \/ \E c \in Callers : Call(c) \/ StartStep(c) \/ StopStep(c)
  \/ \E p \in Procs : Exits(p) \/ Reaps(p)

Spec == Init /\ [][Next]_vars

\* Goroutines run, and a killed process dies; a child nobody kills may live on.
Fairness ==
  /\ \A c \in Callers : WF_vars(StartStep(c) \/ StopStep(c))
  /\ \A p \in Procs : WF_vars(proc[p] = "killed" /\ Exits(p)) /\ WF_vars(Reaps(p))

LiveSpec == Spec /\ Fairness

-----------------------------------------------------------------------------
\* Properties.

Children == {p \in Procs : proc[p] # "gone"}

\* At most one child, and no new one before the old one is reaped, although
\* the waiting goroutine clears r.cmd whoever's it is (core/xray_runtime.go:192).
Promise == INSTANCE XrayChild WITH children <- Children
OneChild == Promise!Spec

\* The goroutine that reaps a child, holding r.mu, never blocks on r.done: the
\* channel is the child's own and is empty (core/xray_runtime.go:194).
ReaperNeverBlocks == \A p \in Procs : proc[p] = "exited" => done = p /\ ~full[p]

\* When Stop returns, whatever made it return, no child that ran when it was
\* called runs on unkilled (core/xray_runtime.go:216).
StopIsEffective ==
  [][\A c \in Callers :
       pc[c] \in {"stop", "wait"} /\ pc'[c] \in {"idle", "start"} =>
         \A p \in stale[c] : proc'[p] # "alive"]_vars

\* A child that has been killed or has exited leaves the record, so that a later
\* Start, by the watchdog if by nobody else, is not refused (core/xray_runtime.go:123).
DeadChildIsForgotten ==
  \A p \in Procs : (cmd = p /\ proc[p] # "alive") ~> (cmd # p)

=============================================================================
