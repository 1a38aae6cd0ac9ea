-------------------------- MODULE XrayRuntimeProofs --------------------------
(***************************************************************************)
(* Proofs about XrayRuntime, for any sets of callers and processes.        *)
(***************************************************************************)
EXTENDS XrayRuntime, TLAPS

\* A process that has not been reaped is the one on record, and its channel is
\* empty; the record is never of a process that has been reaped.
Recording ==
  /\ \A p \in Procs : proc[p] # "gone" => cmd = p /\ done = p /\ ~full[p]
  /\ cmd # NoProc => proc[cmd] # "gone"

\* What a stopping caller must see dead is unreaped, is the child it has taken,
\* and has been killed by the time the caller waits.
Stopping ==
  \A c \in Callers : \A p \in stale[c] :
    /\ proc[p] # "gone"
    /\ pc[c] \in {"cancel", "wait"} => child[c] = p
    /\ pc[c] = "wait" => proc[p] # "alive"

IInv == TypeOK /\ Recording /\ Stopping

-----------------------------------------------------------------------------
LEMMA InitIInv == Init => IInv
<1> SUFFICES ASSUME Init PROVE IInv
  OBVIOUS
<1>1. TypeOK
  BY DEF Init, TypeOK
<1>2. Recording
  BY DEF Init, Recording
<1>3. Stopping
  BY DEF Init, Stopping
<1> QED
  BY <1>1, <1>2, <1>3 DEF IInv

\* The three parts of the invariant, for the steps of one caller.
LEMMA CallerStep ==
  ASSUME IInv, NEW c \in Callers, Call(c) \/ StartStep(c) \/ StopStep(c)
  PROVE  IInv'
<1> USE XrayAssumption DEF IInv, TypeOK, record
<1>1. CASE CallStart(c)
  BY <1>1 DEF CallStart, Recording, Stopping
<1>2. CASE CallStop(c)
  BY <1>2 DEF CallStop, Recording, Stopping, Alive
<1>3. CASE CallRestart(c)
  BY <1>3 DEF CallRestart, Recording, Stopping, Alive
<1>4. CASE StartAlreadyRunning(c)
  BY <1>4 DEF StartAlreadyRunning, Returns, Recording, Stopping
<1>5. CASE StartFails(c)
  BY <1>5 DEF StartFails, Returns, Recording, Stopping
<1>6. CASE StartSpawns(c)
  <2>1. PICK p \in Procs :
          /\ Fresh(p)
          /\ cmd' = p
          /\ done' = p
          /\ proc' = [proc EXCEPT ![p] = "alive"]
          /\ full' = [full EXCEPT ![p] = FALSE]
          /\ child' = [child EXCEPT ![c] = p]
    BY <1>6 DEF StartSpawns
  <2>2. cmd = NoProc /\ \A q \in Procs : proc[q] = "gone"
    BY <1>6 DEF StartSpawns, Recorded, Recording
  <2>3. /\ pc' = [pc EXCEPT ![c] = "settle"]
        /\ UNCHANGED <<again, stale>>
    BY <1>6 DEF StartSpawns
  <2>4. TypeOK'
    BY <2>1, <2>3
  <2>5. Recording'
    BY <2>1, <2>2 DEF Recording
  <2>6. Stopping'
    BY <2>1, <2>2, <2>3 DEF Stopping
  <2> QED
    BY <2>4, <2>5, <2>6
<1>7. CASE StartSeesExit(c)
  BY <1>7 DEF StartSeesExit, Returns, Recording, Stopping
<1>8. CASE StartSettles(c)
  BY <1>8 DEF StartSettles, Returns, Recording, Stopping
<1>9. CASE StopNothing(c)
  <2>1. TypeOK'
    BY <1>9 DEF StopNothing, StopReturns, Recorded
  <2>2. Recording'
    BY <1>9 DEF StopNothing, StopReturns, Recorded, Recording
  <2>3. Stopping'
    BY <1>9 DEF StopNothing, StopReturns, Recorded, Recording, Stopping
  <2> QED
    BY <2>1, <2>2, <2>3
<1>10. CASE StopTakes(c)
  BY <1>10 DEF StopTakes, Recorded, Recording, Stopping
<1>11. CASE StopCancels(c)
  <2>1. TypeOK'
    BY <1>11 DEF StopCancels, Kill
  <2>2. Recording'
    BY <1>11 DEF StopCancels, Kill, Recording
  <2>3. Stopping'
    BY <1>11 DEF StopCancels, Kill, Recording, Stopping
  <2> QED
    BY <2>1, <2>2, <2>3
<1>12. CASE StopSeesExit(c)
  <2>1. TypeOK'
    BY <1>12 DEF StopSeesExit, StopReturns
  <2>2. Recording'
    BY <1>12 DEF StopSeesExit, StopReturns, Recording
  <2>3. Stopping'
    BY <1>12 DEF StopSeesExit, StopReturns, Recording, Stopping
  <2> QED
    BY <2>1, <2>2, <2>3
<1>13. CASE StopGivesUp(c)
  <2>1. /\ proc' = [proc EXCEPT ![child[c]] = IF @ = "alive" THEN "killed" ELSE @]
        /\ stale' = [stale EXCEPT ![c] = {}]
        /\ pc' = [pc EXCEPT ![c] = IF again[c] THEN "start" ELSE "idle"]
        /\ child' = [child EXCEPT ![c] = NoProc]
        /\ UNCHANGED <<cmd, done, full>>
    BY <1>13 DEF StopGivesUp, StopReturns, Kill
  <2>2. \A p \in Procs : /\ proc'[p] = "gone" <=> proc[p] = "gone"
                        /\ proc'[p] = "alive" => proc[p] = "alive"
    BY <2>1
  <2>3. TypeOK'
    BY <1>13, <2>1 DEF StopGivesUp, StopReturns
  <2>4. Recording'
    BY <2>1, <2>2 DEF Recording
  <2>5. Stopping'
    BY <2>1, <2>2 DEF Stopping
  <2> QED
    BY <2>3, <2>4, <2>5
<1> QED
  BY <1>1, <1>2, <1>3, <1>4, <1>5, <1>6, <1>7, <1>8, <1>9, <1>10, <1>11, <1>12, <1>13
     DEF Call, StartStep, StopStep

\* And for the steps of a process and of the goroutine that waits for it.
LEMMA ProcessStep ==
  ASSUME IInv, NEW p \in Procs, Exits(p) \/ Reaps(p)
  PROVE  IInv'
<1> USE XrayAssumption DEF IInv, TypeOK
<1>1. CASE Exits(p)
  BY <1>1 DEF Exits, Recording, Stopping
<1>2. CASE Reaps(p)
  <2>1. TypeOK'
    BY <1>2 DEF Reaps
  <2>2. Recording'
    BY <1>2 DEF Reaps, Recording
  <2>3. Stopping'
    BY <1>2 DEF Reaps, Stopping
  <2> QED
    BY <2>1, <2>2, <2>3
<1> QED
  BY <1>1, <1>2

LEMMA StepIInv == IInv /\ [Next]_vars => IInv'
<1> SUFFICES ASSUME IInv, [Next]_vars PROVE IInv'
  OBVIOUS
<1>1. CASE UNCHANGED vars
  BY <1>1 DEF vars, IInv, TypeOK, Recording, Stopping
<1>2. ASSUME NEW c \in Callers, Call(c) \/ StartStep(c) \/ StopStep(c) PROVE IInv'
  BY <1>2, CallerStep
<1>3. ASSUME NEW p \in Procs, Exits(p) \/ Reaps(p) PROVE IInv'
  BY <1>3, ProcessStep
<1> QED
  BY <1>1, <1>2, <1>3 DEF Next

LEMMA SpecIInv == Spec => []IInv
BY InitIInv, StepIInv, PTL DEF Spec

-----------------------------------------------------------------------------
\* Type correctness of the runtime's record (core/xray_runtime.go:22).
THEOREM XrayTypes == Spec => []TypeOK
BY SpecIInv, PTL DEF IInv

\* The goroutine that reaps a child always finds room in r.done, which is that
\* child's own channel (core/xray_runtime.go:194).
THEOREM ReapersNeverBlock == Spec => []ReaperNeverBlocks
<1>1. IInv => ReaperNeverBlocks
  BY DEF IInv, Recording, ReaperNeverBlocks
<1> QED
  BY <1>1, SpecIInv, PTL

\* A returning Stop leaves no child running that it was called to stop
\* (core/xray_runtime.go:216).
THEOREM StopsAreEffective == Spec => StopIsEffective
<1> DEFINE Effective ==
      \A c \in Callers :
        pc[c] \in {"stop", "wait"} /\ pc'[c] \in {"idle", "start"} =>
          \A p \in stale[c] : proc'[p] # "alive"
<1>1. ASSUME IInv, [Next]_vars PROVE [Effective]_vars
  <2> SUFFICES ASSUME Next,
                      NEW c \in Callers,
                      pc[c] \in {"stop", "wait"}, pc'[c] \in {"idle", "start"},
                      NEW p \in stale[c]
               PROVE  proc'[p] # "alive"
    BY <1>1
  <2> USE <1>1 DEF IInv, TypeOK, record
  <2>1. p \in Procs
    OBVIOUS
  <2>2. ASSUME NEW d \in Callers, Call(d) \/ StartStep(d) \/ StopStep(d)
        PROVE  d = c /\ (StopNothing(c) \/ StopSeesExit(c) \/ StopGivesUp(c))
    BY <2>2 DEF Call, StartStep, StopStep, CallStart, CallStop, CallRestart,
         StartAlreadyRunning, StartFails, StartSpawns, StartSeesExit, StartSettles,
         Returns, StopNothing, StopTakes, StopCancels, StopSeesExit, StopGivesUp,
         StopReturns
  <2>3. ~ \E q \in Procs : Exits(q) \/ Reaps(q)
    BY DEF Exits, Reaps
  <2>4. StopNothing(c) \/ StopSeesExit(c) \/ StopGivesUp(c)
    BY <2>2, <2>3 DEF Next
  <2>5. CASE StopNothing(c)
    BY <2>1, <2>5, XrayAssumption DEF StopNothing, Recorded, Recording, Stopping
  <2>6. CASE StopSeesExit(c)
    BY <2>1, <2>6 DEF StopSeesExit, Stopping
  <2>7. CASE StopGivesUp(c)
    BY <2>1, <2>7 DEF StopGivesUp, Kill, Stopping
  <2> QED
    BY <2>4, <2>5, <2>6, <2>7
<1> QED
  BY <1>1, SpecIInv, PTL DEF Spec, StopIsEffective

-----------------------------------------------------------------------------
\* XrayRuntime implements XrayChild: the children it has spawned and not reaped
\* are never two, and one is spawned only when none is left
\* (core/xray_runtime.go:123, 192).
THEOREM RuntimeImplementsChild == Spec => OneChild
<1>1. Init => Promise!Init
  BY DEF Init, Promise!Init, Children
<1>2. ASSUME IInv, [Next]_vars PROVE [Promise!Next]_Children
  <2> USE <1>2, XrayAssumption DEF IInv, TypeOK, record
  <2>1. CASE proc' = proc
    BY <2>1 DEF Children
  <2>2. ASSUME NEW c \in Callers, StartSpawns(c) PROVE Promise!Next
    <3>1. PICK p \in Procs : proc' = [proc EXCEPT ![p] = "alive"]
      BY <2>2 DEF StartSpawns
    <3>2. Children = {}
      BY <2>2 DEF StartSpawns, Recorded, Recording, Children
    <3>3. Children' = {p}
      BY <3>1, <3>2 DEF Children
    <3> QED
      BY <3>2, <3>3 DEF Promise!Next, Promise!Spawn
  <2>3. ASSUME NEW c \in Callers, StopCancels(c) \/ StopGivesUp(c)
        PROVE  Children' = Children
    BY <2>3 DEF StopCancels, StopGivesUp, Kill, Children
  <2>4. ASSUME NEW p \in Procs, Exits(p) PROVE Children' = Children
    BY <2>4 DEF Exits, Children
  <2>5. ASSUME NEW p \in Procs, Reaps(p) PROVE Promise!Next
    <3>1. p \in Children /\ Children' = Children \ {p}
      BY <2>5 DEF Reaps, Children
    <3> QED
      BY <3>1 DEF Promise!Next, Promise!Reap
  <2>6. ASSUME NEW c \in Callers,
               Call(c) \/ StartStep(c) \/ StopStep(c),
               ~StartSpawns(c), ~StopCancels(c), ~StopGivesUp(c)
        PROVE  proc' = proc
    BY <2>6 DEF Call, StartStep, StopStep, CallStart, CallStop, CallRestart,
         StartAlreadyRunning, StartFails, StartSeesExit, StartSettles,
         StopNothing, StopTakes, StopSeesExit
  <2>7. CASE UNCHANGED vars
    BY <2>1, <2>7 DEF vars
  <2> QED
    BY <2>1, <2>2, <2>3, <2>4, <2>5, <2>6, <2>7 DEF Next, StartStep, StopStep
<1> QED
  BY <1>1, <1>2, SpecIInv, PTL DEF Spec, OneChild, Promise!Spec

=============================================================================
