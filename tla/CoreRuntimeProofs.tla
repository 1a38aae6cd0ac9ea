-------------------------- MODULE CoreRuntimeProofs --------------------------
(***************************************************************************)
(* Proofs about CoreRuntime, for any users, jobs and boxes.  First the     *)
(* flag, whatever operations run; then the core itself, when only          *)
(* operations that take the flag run.                                      *)
(***************************************************************************)
EXTENDS CoreRuntime, TLAPS

\* The phases an operation may be in, as far as the flag depends on it.
Fits(k, phase) ==
  /\ k \in Unflagged => phase \notin {"take", "ensure", "drop"}
  /\ k = "RestartXray" => phase \in {"take", "ensure", "drop"}
  /\ phase = "clear" => k = "RestartCore"
  /\ phase = "boot" => k = "CreateRelay"
  /\ phase = "idle" <=> k = "none"

Fitting == \A t \in Goroutines : Fits(op[t], pc[t])

FlagInv == TypeOK /\ Fitting /\ FlagIsOwned

\* What a step that leaves the flag alone has to keep.
Kept ==
  /\ op' \in [Goroutines -> Operations \cup {"none"}]
  /\ pc' \in [Goroutines -> Phases]
  /\ Fitting'
  /\ FlagIsOwned'

-----------------------------------------------------------------------------
\* A goroutine that moves without gaining or losing the flag.
LEMMA MovesKeep ==
  ASSUME FlagInv, NEW t \in Goroutines, NEW k \in Operations, NEW phase \in Phases,
         Becomes(t, k, phase), busy' = busy,
         phase = "idle" \/ Fits(k, phase),
         Holds(t) <=> k \in Flagged /\ phase \notin {"idle", "take"}
  PROVE  Kept
<1> USE DEF FlagInv, TypeOK
<1>1. /\ op' \in [Goroutines -> Operations \cup {"none"}]
      /\ pc' \in [Goroutines -> Phases]
  BY DEF Becomes
<1>2. \A u \in Goroutines \ {t} : op'[u] = op[u] /\ pc'[u] = pc[u]
  BY DEF Becomes
<1>3. op'[t] = (IF phase = "idle" THEN "none" ELSE k) /\ pc'[t] = phase
  BY DEF Becomes
<1>4. Fitting'
  <2>1. Fits(op'[t], pc'[t])
    BY <1>3 DEF Fits, Unflagged, Operations, Flagged, Starters
  <2>2. \A u \in Goroutines \ {t} : Fits(op'[u], pc'[u])
    BY <1>2 DEF Fitting
  <2> QED
    BY <2>1, <2>2 DEF Fitting
<1>5. \A u \in Goroutines : Holds(u)' <=> Holds(u)
  <2>1. Holds(t)' <=> Holds(t)
    BY <1>3 DEF Holds
  <2>2. \A u \in Goroutines \ {t} : Holds(u)' <=> Holds(u)
    BY <1>2 DEF Holds
  <2> QED
    BY <2>1, <2>2
<1>6. FlagIsOwned'
  BY <1>5 DEF FlagIsOwned
<1> QED
  BY <1>1, <1>4, <1>6 DEF Kept

\* An operation that fails keeps the flag it has until its deferred functions
\* give it back.
LEMMA FailsKeep ==
  ASSUME FlagInv, NEW t \in Goroutines, Fails(t), busy' = busy,
         pc[t] \notin {"idle", "take"}
  PROVE  Kept
<1> USE DEF FlagInv, TypeOK
<1>1. op[t] \in Operations /\ Fits(op[t], pc[t])
  BY DEF Fitting, Fits
<1>2. CASE op[t] \in {"CreateRelay", "DeleteRelay"}
  <2>1. Becomes(t, "RelayRestore", "stop")
    BY <1>2 DEF Fails, Flagged, Starters
  <2>2. "RelayRestore" \in Operations /\ "stop" \in Phases
    BY DEF Operations, Unflagged, Phases
  <2>3. Fits("RelayRestore", "stop")
    BY DEF Fits, Unflagged
  <2>4. ~Holds(t) /\ "RelayRestore" \notin Flagged
    BY <1>2 DEF Holds, Flagged, Starters
  <2> QED
    BY <2>1, <2>2, <2>3, <2>4, MovesKeep
<1>3. CASE op[t] = "RotateRelay"
  <2>1. Becomes(t, "RotateRestore", "stop")
    BY <1>3 DEF Fails, Flagged, Starters
  <2>2. "RotateRestore" \in Operations /\ "stop" \in Phases
    BY DEF Operations, Flagged, Phases
  <2>3. Fits("RotateRestore", "stop")
    BY DEF Fits, Unflagged
  <2>4. Holds(t) /\ "RotateRestore" \in Flagged
    BY <1>3 DEF Holds, Flagged, Starters
  <2> QED
    BY <2>1, <2>2, <2>3, <2>4, MovesKeep
<1>4. CASE op[t] \in Flagged \ {"RotateRelay"}
  <2>1. Becomes(t, op[t], "drop")
    BY <1>4 DEF Fails, Goes, Flagged, Starters
  <2>2. "drop" \in Phases
    BY DEF Phases
  <2>3. Fits(op[t], "drop")
    BY <1>1, <1>4 DEF Fits, Unflagged, Flagged, Starters
  <2>4. Holds(t)
    BY <1>4 DEF Holds
  <2> QED
    BY <1>1, <1>4, <2>1, <2>2, <2>3, <2>4, MovesKeep
<1>5. CASE op[t] \in Unflagged \ {"CreateRelay", "DeleteRelay"}
  <2>1. Becomes(t, op[t], "idle")
    BY <1>5 DEF Fails, Goes, Flagged, Starters, Unflagged
  <2>2. "idle" \in Phases
    BY DEF Phases
  <2>3. ~Holds(t)
    BY <1>5 DEF Holds, Flagged, Starters, Unflagged
  <2> QED
    BY <1>1, <2>1, <2>2, <2>3, MovesKeep
<1> QED
  BY <1>1, <1>2, <1>3, <1>4, <1>5 DEF Operations

\* So does one that panics, in a request; in a job the process ends.
LEMMA PanicsKeep ==
  ASSUME FlagInv, NEW t \in Goroutines, Panics(t), busy' = busy,
         pc[t] \notin {"idle", "take"}
  PROVE  Kept /\ up' \in BOOLEAN
<1>1. CASE t \in Users /\ Fails(t) /\ UNCHANGED up
  BY <1>1, FailsKeep DEF FlagInv, TypeOK
<1>2. CASE t \in Jobs /\ up' = FALSE /\ UNCHANGED <<op, pc>>
  BY <1>2 DEF FlagInv, TypeOK, Kept, Fitting, FlagIsOwned, Holds
<1> QED
  BY <1>1, <1>2 DEF Panics

\* A goroutine goes on within its operation.
LEMMA GoesKeep ==
  ASSUME FlagInv, NEW t \in Goroutines, NEW phase \in Phases, Goes(t, phase),
         busy' = busy, pc[t] \notin {"idle", "take"},
         phase \notin {"idle", "take"}, Fits(op[t], phase)
  PROVE  Kept
<1>1. op[t] \in Operations
  BY DEF FlagInv, TypeOK, Fitting, Fits
<1> QED
  BY <1>1, MovesKeep DEF Goes, Holds

\* A request or a job enters an operation.
LEMMA EntersKeep ==
  ASSUME FlagInv, NEW t \in Goroutines, NEW k \in Operations,
         NEW phase \in {"take", "stop", "boot"}, Becomes(t, k, phase), busy' = busy,
         pc[t] = "idle", Fits(k, phase), phase = "take" \/ k \notin Flagged
  PROVE  Kept
<1>1. phase \in Phases
  BY DEF Phases
<1>2. ~Holds(t)
  BY DEF Holds
<1> QED
  BY <1>1, <1>2, MovesKeep

-----------------------------------------------------------------------------
LEMMA InitFlagInv == Init => FlagInv
<1> SUFFICES ASSUME Init PROVE FlagInv
  OBVIOUS
<1>1. TypeOK
  BY DEF Init, TypeOK, Phases
<1>2. Fitting
  BY DEF Init, Fitting, Fits, Unflagged
<1>3. FlagIsOwned
  BY DEF Init, FlagIsOwned, Holds
<1> QED
  BY <1>1, <1>2, <1>3 DEF FlagInv

LEMMA EnterFlagInv ==
  ASSUME FlagInv, NEW t \in Goroutines, Enter(t)
  PROVE  FlagInv'
<1>1. /\ UNCHANGED <<running, instance, box, busy, cooling, target, up>>
      /\ asked' \in {asked, "schedule", "user"}
  BY DEF Enter, CheckCore, ResetTraffic, RestartCore, SaveObject, SaveConfig, SaveRollback,
     RestartXray, CreateRelay, DeleteRelay, RotateRelay, Calls, core
<1>2. PICK k \in Operations, phase \in {"take", "stop", "boot"} :
        /\ Becomes(t, k, phase)
        /\ pc[t] = "idle"
        /\ Fits(k, phase)
        /\ phase = "take" \/ k \notin Flagged
  <2> USE DEF Fits, Operations, Unflagged, Flagged, Starters
  <2>1. CASE CheckCore(t)
    BY <2>1 DEF CheckCore
  <2>2. CASE ResetTraffic(t)
    BY <2>2 DEF ResetTraffic
  <2>3. CASE RestartCore(t)
    BY <2>3 DEF RestartCore, Calls
  <2>4. CASE SaveObject(t)
    BY <2>4 DEF SaveObject, Calls
  <2>5. CASE SaveConfig(t)
    BY <2>5 DEF SaveConfig, Calls
  <2>6. CASE SaveRollback(t)
    BY <2>6 DEF SaveRollback, Calls
  <2>7. CASE RestartXray(t)
    BY <2>7 DEF RestartXray, Calls
  <2>8. CASE CreateRelay(t)
    BY <2>8 DEF CreateRelay, Calls
  <2>9. CASE DeleteRelay(t)
    BY <2>9 DEF DeleteRelay, Calls
  <2>10. CASE RotateRelay(t)
    BY <2>10 DEF RotateRelay, Calls
  <2> QED
    BY <2>1, <2>2, <2>3, <2>4, <2>5, <2>6, <2>7, <2>8, <2>9, <2>10 DEF Enter
<1>3. Kept
  BY <1>1, <1>2, EntersKeep
<1> QED
  BY <1>1, <1>3 DEF FlagInv, TypeOK, Kept

LEMMA FlagStepFlagInv ==
  ASSUME FlagInv, NEW t \in Goroutines, FlagStep(t)
  PROVE  FlagInv'
<1> USE DEF FlagInv, TypeOK, core
<1>1. CASE TakeRefused(t)
  <2>1. Kept
    <3>1. Becomes(t, op[t], "idle") /\ busy' = busy /\ pc[t] = "take"
      BY <1>1 DEF TakeRefused, Goes
    <3>2. op[t] \in Operations /\ "idle" \in Phases /\ ~Holds(t)
      BY <3>1 DEF Fitting, Fits, Phases, Holds
    <3> QED
      BY <3>1, <3>2, MovesKeep
  <2> QED
    BY <1>1, <2>1 DEF TakeRefused, Kept
<1>2. CASE Take(t)
  <2> DEFINE phase == AfterTake(op[t])
  <2>1. /\ pc[t] = "take" /\ ~busy /\ busy'
        /\ Becomes(t, op[t], phase)
    BY <1>2 DEF Take, Blocked, Goes
  <2>2. op[t] \in Flagged
    BY <2>1 DEF Fitting, Fits, Operations
  <2>3. phase \in {"start", "ensure", "drop", "stop"}
    BY DEF AfterTake
  <2>4. op[t] = "RestartXray" => phase = "ensure"
    BY DEF AfterTake, Starters
  <2> HIDE DEF phase
  <2>5. op' = op /\ pc' = [pc EXCEPT ![t] = phase]
    BY <2>1, <2>3 DEF Becomes
  <2>6. Fitting'
    BY <2>2, <2>3, <2>4, <2>5 DEF Fitting, Fits, Unflagged, Flagged, Starters
  <2>7. Holds(t)' /\ \A u \in Goroutines \ {t} : ~Holds(u)'
    BY <2>1, <2>2, <2>3, <2>5 DEF FlagIsOwned, Holds
  <2>8. FlagIsOwned'
    BY <2>1, <2>7 DEF FlagIsOwned
  <2>9. pc' \in [Goroutines -> Phases]
    BY <2>3, <2>5 DEF Phases
  <2> QED
    BY <1>2, <2>5, <2>6, <2>8, <2>9 DEF Take
<1>3. CASE Drop(t)
  <2>1. /\ pc[t] = "drop"
        /\ busy' = FALSE
        /\ op' = [op EXCEPT ![t] = "none"]
        /\ pc' = [pc EXCEPT ![t] = "idle"]
    BY <1>3 DEF Drop, Goes, Becomes
  <2>2. Holds(t)
    BY <2>1 DEF Holds, Fitting, Fits, Operations
  <2>3. Fitting'
    BY <2>1 DEF Fitting, Fits, Unflagged
  <2>4. \A u \in Goroutines : ~Holds(u)'
    BY <2>1, <2>2 DEF FlagIsOwned, Holds
  <2>5. FlagIsOwned'
    BY <2>1, <2>4 DEF FlagIsOwned
  <2> QED
    BY <1>3, <2>1, <2>3, <2>5 DEF Drop, Phases
<1>4. CASE ClearCooldown(t)
  <2>1. Kept
    <3>1. Becomes(t, "StartCore", "take") /\ busy' = busy /\ pc[t] = "clear"
      BY <1>4 DEF ClearCooldown
    <3>2. op[t] = "RestartCore"
      BY <3>1 DEF Fitting, Fits
    <3>3. ~Holds(t) /\ "StartCore" \in Operations /\ "take" \in Phases
      BY <3>2 DEF Holds, Operations, Flagged, Starters, Phases
    <3>4. Fits("StartCore", "take")
      BY DEF Fits, Unflagged
    <3> QED
      BY <3>1, <3>3, <3>4, MovesKeep
  <2> QED
    BY <1>4, <2>1 DEF ClearCooldown, Kept
<1> QED
  BY <1>1, <1>2, <1>3, <1>4 DEF FlagStep

\* Where Core.Stop and Core.Start lead.
LEMMA AfterFits ==
  ASSUME NEW k \in Operations, k # "RestartXray"
  PROVE  /\ AfterStop(k) \in {"clear", "start"} /\ Fits(k, AfterStop(k))
         /\ AfterStart(k) \in {"ensure", "drop", "boot", "idle"}
         /\ AfterStart(k) = "idle" => k \notin Flagged
         /\ AfterStart(k) # "idle" => Fits(k, AfterStart(k))
BY DEF AfterStop, AfterStart, Fits, Operations, Unflagged, Flagged, Starters

\* The last phase of a Core.Start that has succeeded, or was not needed.
LEMMA StartedKeeps ==
  ASSUME FlagInv, NEW t \in Goroutines, Goes(t, AfterStart(op[t])), busy' = busy,
         pc[t] \in {"start", "finish"}
  PROVE  Kept
<1>1. op[t] \in Operations /\ op[t] # "RestartXray"
  BY DEF FlagInv, TypeOK, Fitting, Fits
<1>2. AfterStart(op[t]) \in Phases
  BY <1>1, AfterFits DEF Phases
<1>3. Holds(t) <=> op[t] \in Flagged /\ AfterStart(op[t]) \notin {"idle", "take"}
  BY <1>1, AfterFits DEF Holds
<1> QED
  BY <1>1, <1>2, <1>3, AfterFits, MovesKeep DEF Goes

LEMMA StopStepFlagInv ==
  ASSUME FlagInv, NEW t \in Goroutines, StopStep(t)
  PROVE  FlagInv'
<1> USE CoreAssumption DEF FlagInv, TypeOK, core
<1>1. op[t] \in Operations /\ op[t] # "RestartXray" /\ pc[t] \in {"stop", "close", "forget"}
  BY DEF StopStep, StopSkipped, Stop, Close, Forget, Fitting, Fits
<1>2. CASE StopSkipped(t)
  <2>1. AfterStop(op[t]) \in Phases \ {"idle", "take"}
    BY <1>1, AfterFits DEF Phases
  <2>2. Kept
    BY <1>1, <1>2, <2>1, AfterFits, GoesKeep DEF StopSkipped
  <2> QED
    BY <1>2, <2>2 DEF StopSkipped, Kept
<1>3. CASE Stop(t)
  <2> DEFINE phase == IF instance = NoBox THEN AfterStop(op[t]) ELSE "close"
  <2>1. phase \in Phases \ {"idle", "take"} /\ Fits(op[t], phase)
    <3>1. Fits(op[t], "close")
      BY <1>1 DEF Fits, Operations, Unflagged, Flagged, Starters
    <3> QED
      BY <1>1, <3>1, AfterFits DEF Phases
  <2>2. Goes(t, phase) /\ busy' = busy
    BY <1>3 DEF Stop
  <2> HIDE DEF phase
  <2>3. Kept
    BY <1>1, <2>1, <2>2, GoesKeep
  <2> QED
    BY <1>3, <2>3 DEF Stop, Kept
<1>4. CASE Close(t)
  <2>1. CASE instance = NoBox
    <3>1. Kept /\ up' \in BOOLEAN
      BY <1>1, <1>4, <2>1, PanicsKeep DEF Close
    <3> QED
      BY <1>4, <2>1, <3>1 DEF Close, Kept
  <2>2. CASE instance # NoBox
    <3>1. "forget" \in Phases /\ Fits(op[t], "forget")
      BY <1>1 DEF Fits, Phases, Operations, Unflagged, Flagged, Starters
    <3>2. Kept
      BY <1>1, <1>4, <2>2, <3>1, GoesKeep DEF Close
    <3> QED
      BY <1>4, <2>2, <3>2 DEF Close, Kept
  <2> QED
    BY <2>1, <2>2
<1>5. CASE Forget(t)
  <2>1. Kept
    <3>1. CASE Goes(t, AfterStop(op[t]))
      <4>1. AfterStop(op[t]) \in Phases \ {"idle", "take"}
        BY <1>1, AfterFits DEF Phases
      <4> QED
        BY <1>1, <1>5, <3>1, <4>1, AfterFits, GoesKeep DEF Forget
    <3>2. CASE Fails(t)
      BY <1>1, <1>5, <3>2, FailsKeep DEF Forget
    <3> QED
      BY <1>5, <3>1, <3>2 DEF Forget
  <2> QED
    BY <1>5, <2>1 DEF Forget, Kept
<1> QED
  BY <1>2, <1>3, <1>4, <1>5 DEF StopStep

LEMMA StartStepFlagInv ==
  ASSUME FlagInv, NEW t \in Goroutines, StartStep(t)
  PROVE  FlagInv'
<1> USE CoreAssumption DEF FlagInv, TypeOK, core, MayStart
<1>1. /\ op[t] \in Operations /\ op[t] # "RestartXray"
      /\ pc[t] \in {"start", "begin", "finish", "undo", "undone"}
  BY DEF StartStep, StartSkipped, StartRejected, BuildFails, Build, Begin, Finish,
     FinishFails, Undo, Undone, Fitting, Fits
<1>2. \A phase \in {"begin", "finish", "undo", "undone"} :
        phase \in Phases \ {"idle", "take"} /\ Fits(op[t], phase)
  BY <1>1 DEF Fits, Phases, Operations, Unflagged, Flagged, Starters
<1>3. CASE StartSkipped(t)
  <2>1. Kept
    BY <1>3, StartedKeeps DEF StartSkipped
  <2> QED
    BY <1>3, <2>1 DEF StartSkipped, Kept
<1>4. CASE StartRejected(t)
  <2>1. Kept
    BY <1>1, <1>4, FailsKeep DEF StartRejected
  <2> QED
    BY <1>4, <2>1 DEF StartRejected, Cooldown, Kept
<1>5. CASE BuildFails(t)
  <2>1. Kept
    BY <1>1, <1>5, FailsKeep DEF BuildFails
  <2> QED
    BY <1>5, <2>1 DEF BuildFails, Cooldown, Kept
<1>6. CASE Build(t)
  <2>1. Kept
    BY <1>1, <1>2, <1>6, GoesKeep DEF Build
  <2> QED
    BY <1>6, <2>1 DEF Build, Kept
<1>7. CASE Begin(t)
  <2>1. CASE instance = NoBox
    <3>1. Kept /\ up' \in BOOLEAN
      BY <1>1, <1>7, <2>1, PanicsKeep DEF Begin
    <3> QED
      BY <1>7, <2>1, <3>1 DEF Begin, Kept
  <2>2. CASE instance # NoBox
    <3>1. Kept
      BY <1>1, <1>2, <1>7, <2>2, GoesKeep DEF Begin
    <3>2. box' \in [Boxes -> {"closed", "built", "starting", "serving"}]
      BY <1>7, <2>2 DEF Begin
    <3> QED
      BY <1>7, <2>2, <3>1, <3>2 DEF Begin, Kept
  <2> QED
    BY <2>1, <2>2
<1>8. CASE Finish(t)
  <2>1. Kept
    BY <1>8, StartedKeeps DEF Finish
  <2>2. box' \in [Boxes -> {"closed", "built", "starting", "serving"}]
    BY <1>8 DEF Finish
  <2> QED
    BY <1>8, <2>1, <2>2 DEF Finish, Kept
<1>9. CASE FinishFails(t)
  <2>1. Kept
    BY <1>1, <1>2, <1>9, GoesKeep DEF FinishFails
  <2> QED
    BY <1>9, <2>1 DEF FinishFails, Kept
<1>10. CASE Undo(t)
  <2>1. CASE instance = NoBox
    <3>1. Kept /\ up' \in BOOLEAN
      BY <1>1, <1>10, <2>1, PanicsKeep DEF Undo
    <3> QED
      BY <1>10, <2>1, <3>1 DEF Undo, Kept
  <2>2. CASE instance # NoBox
    <3>1. Kept
      BY <1>1, <1>2, <1>10, <2>2, GoesKeep DEF Undo
    <3> QED
      BY <1>10, <2>2, <3>1 DEF Undo, Kept
  <2> QED
    BY <2>1, <2>2
<1>11. CASE Undone(t)
  <2>1. Kept
    BY <1>1, <1>11, FailsKeep DEF Undone
  <2> QED
    BY <1>11, <2>1 DEF Undone, Cooldown, Kept
<1> QED
  BY <1>3, <1>4, <1>5, <1>6, <1>7, <1>8, <1>9, <1>10, <1>11 DEF StartStep

LEMMA EnsureFlagInv ==
  ASSUME FlagInv, NEW t \in Goroutines, Ensure(t)
  PROVE  FlagInv'
<1> USE DEF FlagInv, TypeOK, core
<1>1. pc[t] = "ensure" /\ Goes(t, "drop") /\ busy' = busy
  BY DEF Ensure
<1>2. "drop" \in Phases /\ Fits(op[t], "drop")
  BY <1>1 DEF Fitting, Fits, Phases
<1>3. Kept
  BY <1>1, <1>2, GoesKeep
<1> QED
  BY <1>3 DEF Ensure, Cooldown, Kept

LEMMA BootFlagInv ==
  ASSUME FlagInv, NEW t \in Goroutines, Boot(t)
  PROVE  FlagInv'
<1> USE DEF FlagInv, TypeOK, core
<1>1. /\ pc[t] = "boot" /\ op[t] = "CreateRelay" /\ busy' = busy
      /\ ~Holds(t)
      /\ Becomes(t, "CreateRelay", "idle") \/ Becomes(t, "CreateBoot", "take")
  BY DEF Boot, Goes, Fitting, Fits, Holds, Flagged, Starters
<1>2. /\ {"CreateRelay", "CreateBoot"} \subseteq Operations
      /\ {"idle", "take"} \subseteq Phases
      /\ Fits("CreateBoot", "take")
  BY DEF Operations, Flagged, Unflagged, Starters, Phases, Fits
<1>3. Kept
  BY <1>1, <1>2, MovesKeep
<1> QED
  BY <1>3 DEF Boot, Kept

LEMMA StepFlagInv == FlagInv /\ [Next]_vars => FlagInv'
<1> SUFFICES ASSUME FlagInv, [Next]_vars PROVE FlagInv'
  OBVIOUS
<1>1. CASE UNCHANGED vars
  BY <1>1 DEF vars, FlagInv, TypeOK, Fitting, FlagIsOwned, Holds
<1>2. CASE Cools
  BY <1>2 DEF Cools, core, FlagInv, TypeOK, Fitting, FlagIsOwned, Holds
<1>3. ASSUME NEW t \in Goroutines, Enter(t) \/ Step(t) PROVE FlagInv'
  BY <1>3, EnterFlagInv, FlagStepFlagInv, StopStepFlagInv, StartStepFlagInv,
     EnsureFlagInv, BootFlagInv DEF Step
<1> QED
  BY <1>1, <1>2, <1>3 DEF Next

LEMMA SpecFlagInv == Spec => []FlagInv
BY InitFlagInv, StepFlagInv, PTL DEF Spec

\* Type correctness of the core and of the operations on it
\* (core/main.go:30, service/config.go:19).
THEOREM CoreTypes == Spec => []TypeOK
BY SpecFlagInv, PTL DEF FlagInv

\* Whatever operations run, fail and panic, startCoreInProgress is set exactly
\* while one of them owns it (service/config.go:118-136).
THEOREM OneFlagOwner == Spec => []FlagIsOwned
BY SpecFlagInv, PTL DEF FlagInv

-----------------------------------------------------------------------------
\* From here on only operations that hold the flag touch the core: no RestartCore,
\* no creation or deletion of a relay, no scheduled traffic reset.
OnlyFlagged ==
  /\ UserKinds \cap Unflagged = {}
  /\ JobKinds \subseteq {"CheckCore"}

\* What the phase of an operation says about the core.
Here(t) ==
  /\ op[t] \notin Unflagged
  /\ pc[t] = "start" => op[t] \in Starters \/ ~running
  /\ pc[t] \in CorePhases => ~running /\ instance \in Boxes
  /\ pc[t] \in {"forget", "undone"} => box[instance] = "closed"
  /\ pc[t] = "begin" => box[instance] = "built"
  /\ pc[t] = "finish" => target[t] = instance /\ box[instance] = "starting"

\* Between core operations a core that is not running has no Box.
Resting ==
  (\A t \in Goroutines : pc[t] \notin CorePhases) =>
    IF running THEN instance # NoBox /\ box[instance] = "serving" ELSE instance = NoBox

CoreInv == (\A t \in Goroutines : Here(t)) /\ Resting /\ NoLeakedBox

\* Whoever is beyond "take" is alone, and holds the flag.
LEMMA Alone ==
  ASSUME FlagInv, CoreInv, NEW t \in Goroutines, pc[t] \notin {"idle", "take"}
  PROVE  /\ op[t] \in Flagged
         /\ \A u \in Goroutines \ {t} : pc[u] \in {"idle", "take"}
<1> USE DEF FlagInv, TypeOK
<1>1. \A u \in Goroutines : pc[u] \notin {"idle", "take"} => op[u] \in Flagged
  BY DEF CoreInv, Here, Fitting, Fits, Operations
<1>2. \A u \in Goroutines : pc[u] \notin {"idle", "take"} => Holds(u)
  BY <1>1 DEF Holds
<1> QED
  BY <1>1, <1>2 DEF FlagIsOwned

\* A failing operation gives the flag back, or restores the old configuration.
LEMMA FailsTo ==
  ASSUME FlagInv, CoreInv, NEW t \in Goroutines, Fails(t), pc[t] \notin {"idle", "take"}
  PROVE  /\ pc' \in {[pc EXCEPT ![t] = "stop"], [pc EXCEPT ![t] = "drop"]}
         /\ \E k \in Flagged : op' = [op EXCEPT ![t] = k]
<1>1. op[t] \in Flagged
  BY Alone
<1>2. CASE op[t] = "RotateRelay"
  <2>1. Becomes(t, "RotateRestore", "stop")
    BY <1>2 DEF Fails, Flagged, Starters
  <2>2. "RotateRestore" \in Flagged
    BY DEF Flagged
  <2> QED
    BY <2>1, <2>2 DEF Becomes
<1>3. CASE op[t] # "RotateRelay"
  <2>1. Becomes(t, op[t], "drop")
    BY <1>1, <1>3 DEF Fails, Goes, Flagged, Starters
  <2> QED
    BY <1>1, <2>1 DEF Becomes
<1> QED
  BY <1>2, <1>3

\* The invariant after a step of t, from what the step did to t and to the core.
LEMMA StepOf ==
  ASSUME FlagInv, CoreInv, NEW t \in Goroutines, pc[t] \notin {"idle", "take"},
         \A u \in Goroutines \ {t} : op'[u] = op[u] /\ pc'[u] = pc[u],
         Here(t)', NoLeakedBox',
         pc'[t] \notin CorePhases =>
           IF running' THEN instance' # NoBox /\ box'[instance'] = "serving"
                       ELSE instance' = NoBox
  PROVE  CoreInv'
<1>1. \A u \in Goroutines \ {t} : Here(u)'
  BY Alone DEF CoreInv, Here, CorePhases
<1>2. Resting'
  BY DEF Resting
<1> QED
  BY <1>1, <1>2 DEF CoreInv

\* A step that leaves the core alone, outside Core.Stop and Core.Start.
LEMMA QuietStep ==
  ASSUME FlagInv, CoreInv, NEW t \in Goroutines, NEW k, NEW phase,
         op' = [op EXCEPT ![t] = k], pc' = [pc EXCEPT ![t] = phase],
         k \notin Unflagged, phase \notin CorePhases, pc[t] \notin CorePhases,
         phase = "start" => k \in Starters \/ ~running,
         UNCHANGED <<running, instance, box, target>>
  PROVE  CoreInv'
<1> USE DEF FlagInv, TypeOK
<1>1. Here(t)'
  BY DEF Here, CorePhases
<1>2. \A u \in Goroutines \ {t} : Here(u)'
  BY DEF Here, CoreInv
<1>3. Resting'
  BY DEF Resting, CoreInv
<1>4. NoLeakedBox'
  BY DEF NoLeakedBox, CoreInv
<1> QED
  BY <1>1, <1>2, <1>3, <1>4 DEF CoreInv

LEMMA InitCoreInv == Init => CoreInv
BY CoreAssumption DEF Init, CoreInv, Here, Resting, NoLeakedBox, CorePhases, Unflagged

\* The requests and jobs that remain all begin by asking for the flag.
LEMMA EnterCoreInv ==
  ASSUME OnlyFlagged, FlagInv, CoreInv, NEW t \in Goroutines, Enter(t)
  PROVE  CoreInv'
<1>1. UNCHANGED <<running, instance, box, target>> /\ pc[t] = "idle"
  BY DEF Enter, CheckCore, ResetTraffic, RestartCore, SaveObject, SaveConfig, SaveRollback,
     RestartXray, CreateRelay, DeleteRelay, RotateRelay, Calls, core
<1>2. PICK k \in Flagged : Becomes(t, k, "take")
  <2> USE DEF Flagged, Starters
  <2>1. \A j \in Unflagged : \A phase : ~Calls(t, j, phase)
    BY DEF OnlyFlagged, Calls
  <2>2. ~RestartCore(t) /\ ~CreateRelay(t) /\ ~DeleteRelay(t)
    BY <2>1 DEF RestartCore, CreateRelay, DeleteRelay, Unflagged
  <2>3. ~ResetTraffic(t)
    BY DEF OnlyFlagged, ResetTraffic
  <2>4. CASE CheckCore(t)
    BY <2>4 DEF CheckCore
  <2>5. CASE SaveObject(t)
    BY <2>5 DEF SaveObject, Calls
  <2>6. CASE SaveConfig(t)
    BY <2>6 DEF SaveConfig, Calls
  <2>7. CASE SaveRollback(t)
    BY <2>7 DEF SaveRollback, Calls
  <2>8. CASE RestartXray(t)
    BY <2>8 DEF RestartXray, Calls
  <2>9. CASE RotateRelay(t)
    BY <2>9 DEF RotateRelay, Calls
  <2> QED
    BY <2>2, <2>3, <2>4, <2>5, <2>6, <2>7, <2>8, <2>9 DEF Enter
<1>3. op' = [op EXCEPT ![t] = k] /\ pc' = [pc EXCEPT ![t] = "take"]
  BY <1>2 DEF Becomes
<1>4. k \notin Unflagged
  BY DEF Flagged, Starters, Unflagged
<1> QED
  BY <1>1, <1>3, <1>4, QuietStep DEF CorePhases

LEMMA FlagStepCoreInv ==
  ASSUME FlagInv, CoreInv, NEW t \in Goroutines, FlagStep(t)
  PROVE  CoreInv'
<1> USE DEF core
<1>1. op[t] \notin Unflagged /\ "none" \notin Unflagged
  BY DEF CoreInv, Here, Unflagged
<1>2. CASE TakeRefused(t)
  BY <1>1, <1>2, QuietStep DEF TakeRefused, Goes, Becomes, CorePhases
<1>3. CASE Take(t)
  <2> DEFINE phase == AfterTake(op[t])
  <2>1. phase \in {"start", "ensure", "drop", "stop"}
        /\ (phase = "start" => op[t] \in Starters)
    BY DEF AfterTake
  <2>2. Goes(t, phase) /\ pc[t] = "take" /\ UNCHANGED <<running, instance, box, target>>
    BY <1>3 DEF Take
  <2> HIDE DEF phase
  <2>3. op' = [op EXCEPT ![t] = op[t]] /\ pc' = [pc EXCEPT ![t] = phase]
    BY <2>1, <2>2 DEF Goes, Becomes
  <2> QED
    BY <1>1, <2>1, <2>2, <2>3, QuietStep DEF CorePhases
<1>4. CASE Drop(t)
  BY <1>1, <1>4, QuietStep DEF Drop, Goes, Becomes, CorePhases
<1>5. CASE ClearCooldown(t)
  BY <1>1, <1>5 DEF ClearCooldown, FlagInv, Fitting, Fits, Unflagged
<1> QED
  BY <1>2, <1>3, <1>4, <1>5 DEF FlagStep

\* Core.Stop leaves no Box behind.
LEMMA StopStepCoreInv ==
  ASSUME FlagInv, CoreInv, NEW t \in Goroutines, StopStep(t)
  PROVE  CoreInv'
<1> USE CoreAssumption DEF FlagInv, TypeOK, core
<1>1. pc[t] \in {"stop", "close", "forget"} /\ op[t] \in Flagged
  BY Alone DEF StopStep, StopSkipped, Stop, Close, Forget
<1>2. op[t] \notin Unflagged /\ AfterStop(op[t]) = "start"
  BY <1>1 DEF AfterStop, Flagged, Starters, Unflagged
<1>3. \A phase : Goes(t, phase) /\ phase # "idle" =>
        op' = op /\ pc' = [pc EXCEPT ![t] = phase]
  BY DEF Goes, Becomes
<1>4. Here(t) /\ NoLeakedBox
  BY DEF CoreInv
<1>5. CASE StopSkipped(t)
  BY <1>1, <1>2, <1>3, <1>5, QuietStep DEF StopSkipped, CorePhases
<1>6. CASE Stop(t)
  <2>1. CASE instance = NoBox
    <3>1. op' = op /\ pc' = [pc EXCEPT ![t] = "start"]
      BY <1>2, <1>3, <1>6, <2>1 DEF Stop
    <3>2. Here(t)' /\ NoLeakedBox'
      BY <1>2, <1>4, <1>6, <3>1 DEF Stop, Here, NoLeakedBox, CorePhases
    <3> QED
      BY <1>1, <1>6, <2>1, <3>1, <3>2, StepOf DEF Stop
  <2>2. CASE instance # NoBox
    <3>1. op' = op /\ pc' = [pc EXCEPT ![t] = "close"]
      BY <1>3, <1>6, <2>2 DEF Stop
    <3>2. Here(t)' /\ NoLeakedBox'
      BY <1>2, <1>4, <1>6, <2>2, <3>1 DEF Stop, Here, NoLeakedBox, CorePhases
    <3> QED
      BY <1>1, <3>1, <3>2, StepOf DEF CorePhases
  <2> QED
    BY <2>1, <2>2
<1>7. CASE Close(t)
  <2>1. ~running /\ instance \in Boxes
    BY <1>4, <1>7 DEF Close, Here, CorePhases
  <2>2. /\ box' = [box EXCEPT ![instance] = "closed"]
        /\ op' = op /\ pc' = [pc EXCEPT ![t] = "forget"]
        /\ UNCHANGED <<running, instance, target>>
    BY <1>3, <1>7, <2>1 DEF Close
  <2>3. Here(t)' /\ NoLeakedBox'
    BY <1>2, <1>4, <2>1, <2>2 DEF Here, NoLeakedBox, CorePhases
  <2> QED
    BY <1>1, <2>2, <2>3, StepOf DEF CorePhases
<1>8. CASE Forget(t)
  <2>1. ~running /\ box[instance] = "closed"
    BY <1>4, <1>8 DEF Forget, Here, CorePhases
  <2>2. instance' = NoBox /\ UNCHANGED <<running, box, target>>
    BY <1>8 DEF Forget
  <2>3. PICK k \in Flagged, phase \in {"start", "stop", "drop"} :
          op' = [op EXCEPT ![t] = k] /\ pc' = [pc EXCEPT ![t] = phase]
    <3>1. CASE Goes(t, AfterStop(op[t]))
      BY <1>1, <1>2, <1>3, <3>1
    <3>2. CASE Fails(t)
      BY <1>1, <3>2, FailsTo
    <3> QED
      BY <1>8, <3>1, <3>2 DEF Forget
  <2>4. Here(t)'
    BY <2>1, <2>2, <2>3 DEF Here, CorePhases, Flagged, Starters, Unflagged
  <2>5. NoLeakedBox'
    BY <1>4, <2>1, <2>2 DEF NoLeakedBox
  <2> QED
    BY <1>1, <2>1, <2>2, <2>3, <2>4, <2>5, StepOf
<1> QED
  BY <1>5, <1>6, <1>7, <1>8 DEF StopStep

\* Core.Start begins with no Box, and leaves one that serves, or none.
LEMMA StartStepCoreInv ==
  ASSUME FlagInv, CoreInv, NEW t \in Goroutines, StartStep(t)
  PROVE  CoreInv'
<1> USE CoreAssumption DEF FlagInv, TypeOK, core
<1>1. pc[t] \in {"start", "begin", "finish", "undo", "undone"} /\ op[t] \in Flagged
  BY Alone DEF StartStep, StartSkipped, StartRejected, BuildFails, Build, Begin, Finish,
     FinishFails, Undo, Undone, MayStart
<1>2. op[t] \notin Unflagged /\ op[t] # "RestartXray"
  BY <1>1 DEF Flagged, Starters, Unflagged, Fitting, Fits
<1>3. \A phase : Goes(t, phase) /\ phase # "idle" =>
        op' = op /\ pc' = [pc EXCEPT ![t] = phase]
  BY DEF Goes, Becomes
<1>4. Here(t) /\ NoLeakedBox
  BY DEF CoreInv
<1>5. AfterStart(op[t]) \in {"ensure", "drop"}
  BY <1>1, <1>2 DEF AfterStart, Flagged, Starters
<1>6. MayStart(t) => ~running /\ instance = NoBox
  <2>1. MayStart(t) => ~running
    BY <1>4 DEF MayStart, Here
  <2>2. MayStart(t) => \A u \in Goroutines : pc[u] \notin CorePhases
    BY Alone DEF MayStart, CorePhases
  <2> QED
    BY <2>1, <2>2 DEF CoreInv, Resting
<1>7. CASE StartSkipped(t)
  BY <1>1, <1>2, <1>3, <1>5, <1>7, QuietStep DEF StartSkipped, CorePhases
<1>8. CASE StartRejected(t)
  <2>1. PICK k \in Flagged, phase \in {"stop", "drop"} :
          op' = [op EXCEPT ![t] = k] /\ pc' = [pc EXCEPT ![t] = phase]
    BY <1>1, <1>8, FailsTo DEF StartRejected
  <2>2. k \notin Unflagged
    BY DEF Flagged, Starters, Unflagged
  <2> QED
    BY <1>8, <2>1, <2>2, QuietStep DEF StartRejected, MayStart, CorePhases
<1>9. CASE BuildFails(t)
  <2>1. PICK k \in Flagged, phase \in {"stop", "drop"} :
          op' = [op EXCEPT ![t] = k] /\ pc' = [pc EXCEPT ![t] = phase]
    BY <1>1, <1>9, FailsTo DEF BuildFails
  <2>2. ~running /\ instance = NoBox /\ instance' = NoBox /\ UNCHANGED <<running, box, target>>
    BY <1>6, <1>9 DEF BuildFails
  <2>3. Here(t)' /\ NoLeakedBox'
    BY <1>4, <2>1, <2>2
    DEF Here, NoLeakedBox, CorePhases, Flagged, Starters, Unflagged
  <2> QED
    BY <1>1, <2>1, <2>2, <2>3, StepOf
<1>10. CASE Build(t)
  <2>1. op' = op /\ pc' = [pc EXCEPT ![t] = "begin"]
    BY <1>3, <1>10 DEF Build
  <2>2. PICK b \in Boxes : box' = [box EXCEPT ![b] = "built"] /\ instance' = b
    BY <1>10 DEF Build
  <2>3. ~running /\ ~running' /\ instance = NoBox
    BY <1>6, <1>10 DEF Build
  <2>4. Here(t)' /\ NoLeakedBox'
    BY <1>2, <1>4, <2>1, <2>2, <2>3 DEF Here, NoLeakedBox, CorePhases
  <2> QED
    BY <1>1, <2>1, <2>4, StepOf DEF CorePhases
<1>11. CASE Begin(t)
  <2>1. ~running /\ instance \in Boxes /\ box[instance] = "built"
    BY <1>4, <1>11 DEF Begin, Here, CorePhases
  <2>2. /\ box' = [box EXCEPT ![instance] = "starting"]
        /\ target' = [target EXCEPT ![t] = instance]
        /\ op' = op /\ pc' = [pc EXCEPT ![t] = "finish"]
        /\ UNCHANGED <<running, instance>>
    BY <1>3, <1>11, <2>1 DEF Begin
  <2>3. Here(t)' /\ NoLeakedBox'
    BY <1>2, <1>4, <2>1, <2>2 DEF Here, NoLeakedBox, CorePhases
  <2> QED
    BY <1>1, <2>2, <2>3, StepOf DEF CorePhases
<1>12. CASE Finish(t)
  <2>1. instance \in Boxes /\ target[t] = instance /\ box[instance] = "starting"
    BY <1>4, <1>12 DEF Finish, Here, CorePhases
  <2>2. /\ box' = [box EXCEPT ![instance] = "serving"]
        /\ running' /\ instance' = instance
        /\ op' = op /\ pc' = [pc EXCEPT ![t] = AfterStart(op[t])]
    BY <1>3, <1>5, <1>12, <2>1 DEF Finish
  <2>3. Here(t)' /\ NoLeakedBox'
    BY <1>2, <1>4, <1>5, <2>1, <2>2 DEF Here, NoLeakedBox, CorePhases
  <2> QED
    BY <1>1, <2>1, <2>2, <2>3, StepOf
<1>13. CASE FinishFails(t)
  <2>1. op' = op /\ pc' = [pc EXCEPT ![t] = "undo"] /\ UNCHANGED <<running, instance, box>>
    BY <1>3, <1>13 DEF FinishFails
  <2>2. Here(t)' /\ NoLeakedBox'
    BY <1>2, <1>4, <1>13, <2>1 DEF FinishFails, Here, NoLeakedBox, CorePhases
  <2> QED
    BY <1>1, <2>1, <2>2, StepOf DEF CorePhases
<1>14. CASE Undo(t)
  <2>1. ~running /\ instance \in Boxes
    BY <1>4, <1>14 DEF Undo, Here, CorePhases
  <2>2. /\ box' = [box EXCEPT ![instance] = "closed"]
        /\ op' = op /\ pc' = [pc EXCEPT ![t] = "undone"]
        /\ UNCHANGED <<running, instance, target>>
    BY <1>3, <1>14, <2>1 DEF Undo
  <2>3. Here(t)' /\ NoLeakedBox'
    BY <1>2, <1>4, <2>1, <2>2 DEF Here, NoLeakedBox, CorePhases
  <2> QED
    BY <1>1, <2>2, <2>3, StepOf DEF CorePhases
<1>15. CASE Undone(t)
  <2>1. PICK k \in Flagged, phase \in {"stop", "drop"} :
          op' = [op EXCEPT ![t] = k] /\ pc' = [pc EXCEPT ![t] = phase]
    BY <1>1, <1>15, FailsTo DEF Undone
  <2>2. ~running /\ box[instance] = "closed" /\ instance' = NoBox
        /\ UNCHANGED <<running, box, target>>
    BY <1>4, <1>15 DEF Undone, Here, CorePhases
  <2>3. Here(t)' /\ NoLeakedBox'
    BY <1>4, <2>1, <2>2
    DEF Here, NoLeakedBox, CorePhases, Flagged, Starters, Unflagged
  <2> QED
    BY <1>1, <2>1, <2>2, <2>3, StepOf
<1> QED
  BY <1>7, <1>8, <1>9, <1>10, <1>11, <1>12, <1>13, <1>14, <1>15 DEF StartStep

LEMMA StepCoreInv ==
  ASSUME OnlyFlagged, FlagInv, CoreInv, [Next]_vars
  PROVE  CoreInv'
<1> USE DEF core
<1>1. CASE UNCHANGED vars
  BY <1>1 DEF vars, CoreInv, Here, Resting, NoLeakedBox
<1>2. CASE Cools
  BY <1>2 DEF Cools, CoreInv, Here, Resting, NoLeakedBox
<1>3. ASSUME NEW t \in Goroutines, Ensure(t) PROVE CoreInv'
  <2>1. /\ pc[t] = "ensure" /\ op' = [op EXCEPT ![t] = op[t]]
        /\ pc' = [pc EXCEPT ![t] = "drop"]
        /\ UNCHANGED <<running, instance, box, target>>
    BY <1>3 DEF Ensure, Goes, Becomes
  <2>2. op[t] \notin Unflagged
    BY DEF CoreInv, Here
  <2> QED
    BY <2>1, <2>2, QuietStep DEF CorePhases
<1>4. ASSUME NEW t \in Goroutines, Boot(t) PROVE FALSE
  BY <1>4 DEF Boot, FlagInv, Fitting, Fits, CoreInv, Here, Unflagged
<1> QED
  BY <1>1, <1>2, <1>3, <1>4, EnterCoreInv, FlagStepCoreInv, StopStepCoreInv,
     StartStepCoreInv DEF Next, Step

LEMMA SpecCoreInv ==
  ASSUME OnlyFlagged
  PROVE  Spec => []CoreInv
<1>1. FlagInv /\ CoreInv /\ [Next]_vars => CoreInv'
  BY StepCoreInv
<1> QED
  BY <1>1, InitCoreInv, SpecFlagInv, PTL DEF Spec

\* Among operations that take the flag, IsRunning() tells between any two core
\* operations whether a Box serves (core/main.go:92, 97; service/config.go:138).
THEOREM HonestCore ==
  ASSUME OnlyFlagged
  PROVE  Spec => []CoreHonest
<1>1. CoreInv => CoreHonest
  BY DEF CoreInv, Resting, CoreHonest
<1> QED
  BY <1>1, SpecCoreInv, PTL

\* They never leave a Box running that Core.instance no longer refers to
\* (core/main.go:70, 81, 102).
THEOREM NoBoxLeaks ==
  ASSUME OnlyFlagged
  PROVE  Spec => []NoLeakedBox
BY SpecCoreInv, PTL DEF CoreInv

\* And whenever Core.Start or Core.Stop reads c.instance again, it is not nil
\* (core/main.go:78, 80, 101).
THEOREM NoNilIsRead ==
  ASSUME OnlyFlagged
  PROVE  Spec => []NoNilBox
<1>1. CoreInv => NoNilBox
  BY CoreAssumption DEF CoreInv, Here, NoNilBox, CorePhases
<1> QED
  BY <1>1, SpecCoreInv, PTL

-----------------------------------------------------------------------------
\* The safe mode.

\* Until somebody asks for the core, only operations are under way that find it
\* down and leave it: a restart of Xray, and a rotation of relay addresses.
Waiting ==
  /\ CoreDown
  /\ \A t \in Goroutines : /\ op[t] \in {"none", "RestartXray", "RotateRelay"}
                           /\ pc[t] \in {"idle", "take", "ensure", "drop"}

SafeInv == SkipCore /\ asked = "nobody" => Waiting

LEMMA InitSafeInv == Init => SafeInv
BY DEF Init, SafeInv, Waiting, CoreDown

\* A goroutine moves to a phase that does not touch the core.
LEMMA WaitsOn ==
  ASSUME FlagInv, Waiting, UNCHANGED core, NEW t \in Goroutines, NEW k, NEW phase,
         Becomes(t, k, phase), k \in {"none", "RestartXray", "RotateRelay"},
         phase \in {"idle", "take", "ensure", "drop"}
  PROVE  Waiting'
<1>1. \A u \in Goroutines :
        /\ op'[u] \in {op[u], k, "none"} /\ pc'[u] \in {pc[u], phase}
  BY DEF Becomes, FlagInv, TypeOK
<1>2. CoreDown'
  BY DEF Waiting, CoreDown, core
<1> QED
  BY <1>1, <1>2 DEF Waiting

LEMMA StepSafeInv == FlagInv /\ SafeInv /\ [Next]_vars => SafeInv'
<1> SUFFICES ASSUME FlagInv, SafeInv, [Next]_vars, SkipCore, asked' = "nobody" PROVE Waiting'
  BY DEF SafeInv
<1>1. CASE asked # "nobody"
  BY <1>1 DEF vars, Next, Cools, Enter, CheckCore, ResetTraffic, RestartCore, SaveObject,
     SaveConfig, SaveRollback, RestartXray, CreateRelay, DeleteRelay, RotateRelay, Step,
     FlagStep, TakeRefused, Take, Drop, ClearCooldown, StopStep, StopSkipped, Stop, Close,
     Forget, StartStep, StartSkipped, StartRejected, BuildFails, Build, Begin, Finish,
     FinishFails, Undo, Undone, Ensure, Boot
<1>2. CASE asked = "nobody"
  <2>1. Waiting /\ ~running
    BY <1>2 DEF SafeInv, Waiting, CoreDown
  <2>2. CASE UNCHANGED vars \/ Cools
    BY <2>1, <2>2 DEF vars, Cools, core, Waiting, CoreDown
  <2>3. ASSUME NEW t \in Goroutines, Enter(t) PROVE Waiting'
    <3>1. RestartXray(t) \/ RotateRelay(t)
      BY <2>1, <2>3 DEF Enter, CheckCore, ResetTraffic, RestartCore, SaveObject, SaveConfig,
         SaveRollback, CreateRelay, DeleteRelay
    <3> QED
      BY <2>1, <3>1, WaitsOn DEF RestartXray, RotateRelay, Calls
  <2>4. ASSUME NEW t \in Goroutines, FlagStep(t) PROVE Waiting'
    <3>1. TakeRefused(t) \/ Take(t) \/ Drop(t)
      BY <2>1, <2>4 DEF FlagStep, ClearCooldown, Waiting
    <3>2. op[t] \in {"none", "RestartXray", "RotateRelay"}
      BY <2>1 DEF Waiting
    <3>3. CASE TakeRefused(t) \/ Drop(t)
      BY <2>1, <3>2, <3>3, WaitsOn DEF TakeRefused, Drop, Goes
    <3>4. CASE Take(t)
      <4>1. op[t] # "none"
        BY <3>4 DEF Take, FlagInv, Fitting, Fits
      <4>2. AfterTake(op[t]) \in {"ensure", "drop"}
        BY <2>1, <3>2, <4>1 DEF AfterTake, Starters
      <4> QED
        BY <2>1, <3>2, <3>4, <4>2, WaitsOn DEF Take, Goes
    <3> QED
      BY <3>1, <3>3, <3>4
  <2>5. ASSUME NEW t \in Goroutines, StopStep(t) \/ StartStep(t) \/ Boot(t) PROVE FALSE
    BY <2>1, <2>5 DEF StopStep, StopSkipped, Stop, Close, Forget, StartStep, StartSkipped,
       StartRejected, BuildFails, Build, MayStart, Begin, Finish, FinishFails, Undo, Undone,
       Boot, Waiting
  <2>6. ASSUME NEW t \in Goroutines, Ensure(t) PROVE Waiting'
    <3>1. op[t] \in {"none", "RestartXray", "RotateRelay"}
      BY <2>1 DEF Waiting
    <3> QED
      BY <2>1, <2>6, <3>1, WaitsOn DEF Ensure, Goes
  <2> QED
    BY <2>2, <2>3, <2>4, <2>5, <2>6 DEF Next, Step
<1> QED
  BY <1>1, <1>2

\* In safe mode the core stays down until somebody asks for it, whatever saves,
\* relay rotations and Xray restarts go on meanwhile (cronjob/checkCoreJob.go:17,
\* service/config.go:544).
THEOREM SafeModeHolds == Spec => []SafeModeWaits
<1>1. SafeInv => SafeModeWaits
  BY DEF SafeInv, Waiting, SafeModeWaits
<1> QED
  BY <1>1, InitSafeInv, SpecFlagInv, StepSafeInv, PTL DEF Spec
=============================================================================
