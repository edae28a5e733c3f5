------------------------ MODULE TaskExecutionProofs ------------------------
(***************************************************************************)
(* Theorems about TaskExecution, for any number of requests, processes and *)
(* continuation rounds and any set of configurations.                      *)
(***************************************************************************)
EXTENDS TaskExecution, FiniteSetTheorems, TLAPS

-----------------------------------------------------------------------------
\* Types

\* Writing a kanban status leaves a plan of the right form.
LEMMA UpdatePlanStatusType ==
  ASSUME TypeOK, NEW s \in Statuses, UpdatePlanStatus(s)
  PROVE  plan' \in Plans
BY DEF TypeOK, UpdatePlanStatus, Plans

\* The two ways a route begins, each ending in a well-typed state of the service.
LEMMA ReplaceType ==
  ASSUME TypeOK, NEW c \in Coroutines, Replace(c)
  PROVE  /\ running' \in Proc \cup {NoProc}
         /\ stopFlag' \in BOOLEAN
         /\ pc' \in [Coroutines -> PCs]
         /\ target' \in [Coroutines -> Proc \cup {NoProc}]
         /\ want' \in [Coroutines -> Kinds]
         /\ UNCHANGED <<attempt, round, specDir>>
<1>1. CASE running = NoProc
  BY <1>1 DEF Replace, BeginStart, Goto, TypeOK, PCs, Finished, Kinds, NoProc
<1>2. CASE running # NoProc
  BY <1>2 DEF Replace, BeginStop, Goto, TypeOK, PCs, Finished, Kinds, NoProc
<1> QED BY <1>1, <1>2

\* Every start, stop and resumed route keeps the types.
LEMMA ProceedType ==
  ASSUME TypeOK, NEW c \in Coroutines, Proceed(c)
  PROVE  TypeOK'
<1> USE DEF TypeOK, Goto, PCs, Finished, Kinds, NoProc, service, procs, disk
<1>1. CASE ResolveToken(c) BY <1>1 DEF Proceed, ResolveToken
<1>2. CASE Spawn(c) BY <1>2 DEF Proceed, Spawn, NewProcess
<1>3. CASE SpawnFails(c)
  <2>1. plan' \in Plans
    BY <1>3, UpdatePlanStatusType DEF SpawnFails, Statuses, Plans
  <2> QED BY <1>3, <2>1 DEF Proceed, SpawnFails
<1>4. CASE Attach(c)
  <2>1. plan' \in Plans
    BY <1>4 DEF Attach, Statuses, Plans
  <2>2. pc' \in [Coroutines -> PCs]
    BY <1>4 DEF Attach
  <2> QED BY <1>4, <2>1, <2>2 DEF Proceed, Attach
<1>5. CASE StopObservesExit(c)
  <2>1. plan' \in Plans
    BY <1>5, UpdatePlanStatusType DEF StopObservesExit, Statuses, Plans
  <2> QED BY <1>5, <2>1 DEF Proceed, StopObservesExit
<1>6. CASE StopDropsTracking(c)
  <2>1. specDir' \in BOOLEAN BY <1>6, Zenon DEF StopDropsTracking
  <2>2. /\ running' \in Proc \cup {NoProc} /\ attempt' \in 0..2
        /\ pc' \in [Coroutines -> PCs]
    BY <1>6 DEF StopDropsTracking, DropTracking
  <2>3. UNCHANGED <<stopFlag, round, proc, kind, retryOf, target, want, plan, review, settings>>
    BY <1>6 DEF StopDropsTracking
  <2> QED BY <2>1, <2>2, <2>3
<1>7. CASE StopReturns(c) BY <1>7 DEF Proceed, StopReturns, BeginStart
<1>8. CASE ResumeRoute(c)
  <2>1. Replace(c) /\ UNCHANGED <<procs, disk>> BY <1>8 DEF ResumeRoute
  <2> QED BY <2>1, ReplaceType DEF Proceed
<1> QED BY <1>1, <1>2, <1>3, <1>4, <1>5, <1>6, <1>7, <1>8 DEF Proceed

\* Every request keeps the types.
LEMMA RequestType ==
  ASSUME TypeOK, NEW c \in Calls, Request(c)
  PROVE  TypeOK'
<1> USE DEF TypeOK, Goto, PCs, Finished, Kinds, NoProc, service, procs, disk
<1>0. c \in Coroutines /\ UNCHANGED settings BY DEF Coroutines, Request
<1>1. CASE StartRoute(c)
  <2>1. CASE plan.status = "done" BY <1>0, <1>1, <2>1 DEF StartRoute
  <2>2. CASE /\ plan.status # "done" /\ ~plan.valid
             /\ BeginStart(c, "spec")
             /\ UNCHANGED <<service, target, plan, review, procs>>
    BY <1>0, <2>2 DEF BeginStart
  <2>3. CASE /\ plan' = [plan EXCEPT !.valid = TRUE, !.pending = TRUE, !.status = "in_progress"]
             /\ review' = "approved"
             /\ Replace(c)
             /\ UNCHANGED procs
    <3>1. plan' \in Plans
      BY <2>3 DEF Statuses, Plans
    <3> QED BY <1>0, <2>3, <3>1, ReplaceType
  <2>4. CASE Replace(c) /\ UNCHANGED <<procs, disk>> BY <1>0, <2>4, ReplaceType
  <2>5. CASE /\ plan.status # "done" /\ plan.valid /\ review # "approved"
             /\ IF running = NoProc /\ ~settings.requireReview
                  THEN BeginStart(c, "exec") /\ UNCHANGED plan
                  ELSE /\ Goto(c, "refused")
                       /\ plan' = IF running = NoProc
                                    THEN [plan EXCEPT !.status = "plan_review"] ELSE plan
                       /\ UNCHANGED want
             /\ UNCHANGED <<service, target, review, procs>>
    <3>1. plan' \in Plans
      BY <2>5 DEF Statuses, Plans
    <3> QED BY <1>0, <2>5, <3>1 DEF BeginStart
  <2> QED BY <1>1, <2>1, <2>2, <2>3, <2>4, <2>5 DEF StartRoute
<1>2. CASE StopRoute(c) BY <1>0, <1>2 DEF StopRoute, BeginStop
<1>3. CASE ApproveRoute(c)
  <2>1. plan' \in Plans
    BY <1>3 DEF ApproveRoute, Statuses, Plans
  <2> QED BY <1>0, <1>3, <2>1 DEF ApproveRoute
<1>4. CASE ChangesRoute(c)
  <2>1. plan' \in Plans
    BY <1>4 DEF ChangesRoute, Statuses, Plans
  <2> QED BY <1>0, <1>4, <2>1 DEF ChangesRoute
<1>5. CASE DoneRoute(c)
  <2>1. plan' \in Plans
    BY <1>5 DEF DoneRoute, Statuses, Plans
  <2> QED BY <1>0, <1>5, <2>1 DEF DoneRoute
<1> QED BY <1>1, <1>2, <1>3, <1>4, <1>5 DEF Request

\* Every step of a monitor keeps the types.
LEMMA MonitorType ==
  ASSUME TypeOK, NEW p \in Proc, Monitor(p)
  PROVE  TypeOK'
<1> USE DEF TypeOK, Goto, PCs, Finished, Kinds, NoProc, service, procs, disk, DropTracking
<1>0. p \in Coroutines /\ UNCHANGED settings BY DEF Coroutines, Monitor
<1>1. CASE ObserveExit(p) BY <1>0, <1>1 DEF ObserveExit
<1>2. CASE DecideFallback(p) BY <1>0, <1>2 DEF DecideFallback
<1>3. CASE AwaitReview(p)
  <2>1. plan' \in Plans
    BY <1>3, UpdatePlanStatusType DEF AwaitReview, Statuses, Plans
  <2> QED BY <1>0, <1>3, <2>1 DEF AwaitReview
<1>4. CASE StartBuild(p) BY <1>0, <1>4 DEF StartBuild
<1>5. CASE DecideFailover(p) BY <1>0, <1>5 DEF DecideFailover
<1>6. CASE Respawn(p)
  <2>1. PICK q \in Proc : /\ NewProcess(q, kind[p], p)
                          /\ pc' = [pc EXCEPT ![p] = "done", ![q] = "wait"]
    BY <1>6 DEF Respawn
  <2>2. q \in Coroutines BY DEF Coroutines
  <2>3. pc' \in [Coroutines -> PCs] BY <1>0, <2>1, <2>2
  <2>4. /\ proc' \in [Proc -> {"unused", "alive", "ok", "failed"}]
        /\ kind' \in [Proc -> Kinds]
        /\ retryOf' \in [Proc -> Proc \cup {NoProc}]
        /\ running' \in Proc
    BY <2>1 DEF NewProcess
  <2>5. attempt' \in 0..2 BY <1>6 DEF Respawn
  <2> QED BY <1>0, <1>6, <2>3, <2>4, <2>5 DEF Respawn
<1>7. CASE RespawnFails(p)
  <2>1. specDir' \in BOOLEAN BY <1>7, Zenon DEF RespawnFails
  <2>2. /\ running' \in Proc \cup {NoProc} /\ attempt' \in 0..2
        /\ pc' \in [Coroutines -> PCs]
    BY <1>0, <1>7 DEF RespawnFails
  <2>3. UNCHANGED <<stopFlag, round, proc, kind, retryOf, target, want, plan, review, settings>>
    BY <1>7 DEF RespawnFails
  <2> QED BY <2>1, <2>2, <2>3
<1>8. CASE DeferToStop(p) BY <1>0, <1>8 DEF DeferToStop
<1>9. CASE Continue(p)
  <2>1. round' \in 0..MaxRounds BY <1>9, BoundsAssumption DEF Continue
  <2> QED BY <1>0, <1>9, <2>1 DEF Continue
<1>10. CASE Conclude(p)
  <2>1. plan' \in Plans
    BY <1>10, UpdatePlanStatusType DEF Conclude, Statuses, Plans
  <2>2. round' \in 0..MaxRounds BY <1>10, BoundsAssumption DEF Conclude
  <2> QED BY <1>0, <1>10, <2>1, <2>2 DEF Conclude
<1>11. CASE Cleanup(p) BY <1>0, <1>11 DEF Cleanup
<1> QED BY <1>1, <1>2, <1>3, <1>4, <1>5, <1>6, <1>7, <1>8, <1>9, <1>10, <1>11 DEF Monitor

\* Every sync tick and every step of an agent keeps the types.
LEMMA TickAgentType ==
  ASSUME TypeOK, NEW p \in Proc, Tick(p) \/ Agent(p)
  PROVE  TypeOK'
<1> USE DEF TypeOK, Goto, PCs, Finished, Kinds, NoProc, service, procs, disk
<1>0. p \in Coroutines /\ UNCHANGED settings BY DEF Coroutines, Tick, Agent
<1>1. CASE SeeCheckpoint(p)
  <2>1. plan' \in Plans
    BY <1>1, UpdatePlanStatusType DEF SeeCheckpoint, Statuses, Plans
  <2> QED BY <1>0, <1>1, <2>1 DEF SeeCheckpoint
<1>2. CASE ForceRestart(p) BY <1>0, <1>2 DEF ForceRestart
<1>3. CASE BlockAtGate(p) BY <1>0, <1>3 DEF BlockAtGate
<1>4. CASE WritePlan(p)
  <2>1. plan' \in Plans
    BY <1>4 DEF WritePlan, Plans
  <2> QED BY <1>0, <1>4, <2>1 DEF WritePlan
<1>5. CASE WorkOnPlan(p)
  <2>1. plan' \in Plans
    BY <1>5 DEF WorkOnPlan, Plans
  <2> QED BY <1>0, <1>5, <2>1 DEF WorkOnPlan
<1>6. CASE Exit(p) BY <1>0, <1>6 DEF Exit
<1> QED BY <1>1, <1>2, <1>3, <1>4, <1>5, <1>6 DEF Tick, Agent

\* The initial states are well typed.
LEMMA TypeAtInit ==
  ASSUME Init
  PROVE  TypeOK
<1>1. stopFlag \in BOOLEAN /\ specDir \in BOOLEAN
  BY Zenon DEF Init
<1>2. plan \in Plans
  BY DEF Init, Statuses, Plans
<1>3. /\ running \in Proc \cup {NoProc} /\ attempt \in 0..2 /\ round \in 0..MaxRounds
      /\ proc \in [Proc -> {"unused", "alive", "ok", "failed"}]
      /\ kind \in [Proc -> Kinds]
      /\ retryOf \in [Proc -> Proc \cup {NoProc}]
      /\ pc \in [Coroutines -> PCs]
      /\ target \in [Coroutines -> Proc \cup {NoProc}]
      /\ want \in [Coroutines -> Kinds]
      /\ review \in {"none", "awaiting", "approved"}
      /\ settings \in Settings
  BY BoundsAssumption DEF Init, Kinds, PCs, NoProc
<1> QED BY <1>1, <1>2, <1>3 DEF TypeOK

\* Every step keeps the types.
LEMMA TypeIsKept ==
  ASSUME TypeOK, [Next]_vars
  PROVE  TypeOK'
<1>1. CASE UNCHANGED vars BY <1>1 DEF vars, service, procs, disk, TypeOK
<1> QED BY <1>1, RequestType, ProceedType, MonitorType, TickAgentType DEF Next

\* The variables keep their types.
THEOREM TypeCorrect == Spec => []TypeOK
<1>1. Init => TypeOK BY TypeAtInit
<1>2. TypeOK /\ [Next]_vars => TypeOK' BY TypeIsKept
<1> QED BY <1>1, <1>2, PTL DEF Spec

-----------------------------------------------------------------------------
\* Monitors and retries

Used(p) == proc[p] # "unused"

\* What is true of processes, monitors and retries in every reachable state.
UnusedIsBlank ==
  \A p \in Proc : ~Used(p) => pc[p] = "idle" /\ retryOf[p] = NoProc

\* A start that is about to create a monitor names a process that has none yet,
\* and no other start names it.
AttachIsExclusive ==
  \A c \in Coroutines : pc[c] = "attach" =>
    /\ target[c] \in Proc /\ Used(target[c]) /\ pc[target[c]] = "idle"
    /\ \A d \in Coroutines : pc[d] = "attach" /\ target[d] = target[c] => d = c

\* Only the monitor of a first run is about to retry, and it is done once it has.
RetryOnlyFirst ==
  \A p \in Proc : pc[p] \in {"fallback", "failover"} => retryOf[p] = NoProc

RetriedIsDone ==
  \A q \in Proc : retryOf[q] # NoProc => pc[retryOf[q]] = "done"

\* What the routes that start nothing can be at.
Roles ==
  /\ \A c \in StopCalls : pc[c] \in {"idle", "stopping", "popping", "stopped"} \cup Finished
  /\ \A c \in DoneCalls : pc[c] \in {"idle", "done"}

IInv ==
  /\ TypeOK /\ Roles
  /\ UnusedIsBlank /\ AttachIsExclusive /\ RetryOnlyFirst /\ RetriedIsDone
  /\ EveryProcessIsWatched /\ OneRetryPerRun

\* A coroutine goes on, or ends, without a new process or monitor.
Moves(c) ==
  /\ c \in Calls \/ pc[c] # "idle"
  /\ pc[c] \notin Finished \cup {"attach"}
  /\ pc'[c] \notin {"idle", "attach"}
  /\ pc'[c] \in {"fallback", "failover"} => c \in Proc /\ retryOf[c] = NoProc
  /\ c \in StopCalls => /\ pc'[c] \in {"stopping", "popping", "stopped"} \cup Finished
                        /\ pc'[c] = "refused" => pc[c] = "idle"
  /\ c \in DoneCalls => pc'[c] = "done"
  /\ c \in Proc /\ pc[c] \in {"wait", "terminating"} /\ Alive(c) => pc'[c] = "terminating"
  /\ \A d \in Coroutines \ {c} : pc'[d] = pc[d] /\ target'[d] = target[d]
  /\ UNCHANGED retryOf
  /\ \A p \in Proc : (Used(p)' <=> Used(p)) /\ (Alive(p)' => Alive(p))

\* No coroutine goes on.
Stays ==
  /\ UNCHANGED <<pc, target, retryOf>>
  /\ \A p \in Proc : (Used(p)' <=> Used(p)) /\ (Alive(p)' => Alive(p))

\* Requests and processes have different names.
LEMMA CallsAreNotProcesses == Calls \cap Proc = {}
BY CallsAssumption, BoundsAssumption DEF Proc

\* A request for one route is no request for another; stated for those that start
\* nothing.
LEMMA CallsAreDisjoint ==
  /\ StartCalls \cap DoneCalls = {} /\ StartCalls \cap StopCalls = {}
  /\ StopCalls \cap DoneCalls = {}
  /\ ApproveCalls \cap StopCalls = {} /\ ApproveCalls \cap DoneCalls = {}
  /\ ChangeCalls \cap StopCalls = {} /\ ChangeCalls \cap DoneCalls = {}
<1>1. \A i, j \in 1..5 :
        i # j => <<StartCalls, StopCalls, ApproveCalls, ChangeCalls, DoneCalls>>[i]
                 \cap <<StartCalls, StopCalls, ApproveCalls, ChangeCalls, DoneCalls>>[j] = {}
  BY CallsAssumption
<1> QED BY <1>1

\* NoProc names no process.
LEMMA NoProcIsNoProcess == NoProc \notin Proc
BY BoundsAssumption DEF Proc, NoProc

\* Every step is a move, one of the three ways a process or a monitor comes to be, or
\* leaves the coroutines where they are.
LEMMA StepShape ==
  ASSUME TypeOK, Roles, [Next]_vars
  PROVE  \/ \E c \in Coroutines : Moves(c) \/ Spawn(c) \/ Attach(c)
         \/ \E p \in Proc : Respawn(p)
         \/ Stays
<1> USE DEF Goto, PCs, Finished, service, procs, disk, Used, Alive
<1>1. CASE UNCHANGED vars BY <1>1 DEF vars, Stays
<1>2. ASSUME NEW c \in Calls, Request(c) PROVE Moves(c)
  <2>0. c \in Coroutines /\ c \notin Proc BY CallsAreNotProcesses DEF Coroutines
  <2> USE CallsAreDisjoint
  <2>1. CASE StartRoute(c)
    BY <2>0, <2>1 DEF StartRoute, BeginStart, Replace, BeginStop, Moves, TypeOK
  <2>2. CASE StopRoute(c) BY <2>0, <2>2 DEF StopRoute, BeginStop, Moves, TypeOK
  <2>3. CASE ApproveRoute(c) BY <2>0, <2>3 DEF ApproveRoute, Moves, TypeOK
  <2>4. CASE ChangesRoute(c) BY <2>0, <2>4 DEF ChangesRoute, Moves, TypeOK
  <2>5. CASE DoneRoute(c) BY <2>0, <2>5 DEF DoneRoute, Moves, TypeOK
  <2> QED BY <1>2, <2>1, <2>2, <2>3, <2>4, <2>5 DEF Request
<1>3. ASSUME NEW c \in Coroutines, Proceed(c) PROVE Moves(c) \/ Spawn(c) \/ Attach(c)
  <2>1. CASE ResolveToken(c) BY <2>1 DEF ResolveToken, Moves, TypeOK, Roles
  <2>2. CASE SpawnFails(c) BY <2>2 DEF SpawnFails, Moves, TypeOK, Roles
  <2>3. CASE StopObservesExit(c) BY <2>3 DEF StopObservesExit, Moves, TypeOK, Roles
  <2>4. CASE StopDropsTracking(c) BY <2>4 DEF StopDropsTracking, Moves, TypeOK, Roles
  <2>5. CASE StopReturns(c) BY <2>5 DEF StopReturns, BeginStart, Moves, TypeOK, Roles
  <2>6. CASE ResumeRoute(c)
    BY <2>6 DEF ResumeRoute, BeginStart, Replace, BeginStop, Moves, TypeOK, Roles
  <2> QED BY <1>3, <2>1, <2>2, <2>3, <2>4, <2>5, <2>6 DEF Proceed
<1>4. ASSUME NEW p \in Proc, Monitor(p) PROVE Moves(p) \/ Respawn(p)
  <2>0. p \in Coroutines /\ p \notin StopCalls /\ p \notin DoneCalls
    BY CallsAreNotProcesses DEF Coroutines, Calls
  <2>1. CASE ObserveExit(p) BY <2>0, <2>1 DEF ObserveExit, Exited, Moves, TypeOK
  <2>2. CASE DecideFallback(p)
    BY <2>0, <2>2 DEF DecideFallback, CanFallBack, AtExit, Exited, Retryable, Moves, TypeOK
  <2>3. CASE AwaitReview(p) BY <2>0, <2>3 DEF AwaitReview, AtExit, Exited, Moves, TypeOK
  <2>4. CASE StartBuild(p) BY <2>0, <2>4 DEF StartBuild, AtExit, Exited, Moves, TypeOK
  <2>5. CASE DecideFailover(p)
    BY <2>0, <2>5 DEF DecideFailover, BuildExited, MayFailOver, Retryable, Moves, TypeOK
  <2>6. CASE RespawnFails(p) BY <2>0, <2>6 DEF RespawnFails, Moves, TypeOK
  <2>7. CASE DeferToStop(p) BY <2>0, <2>7 DEF DeferToStop, Settling, BuildExited, Moves, TypeOK
  <2>8. CASE Continue(p) BY <2>0, <2>8 DEF Continue, Settling, BuildExited, Moves, TypeOK
  <2>9. CASE Conclude(p) BY <2>0, <2>9 DEF Conclude, Settling, BuildExited, Moves, TypeOK
  <2>10. CASE Cleanup(p) BY <2>0, <2>10 DEF Cleanup, Moves, TypeOK
  <2> QED BY <1>4, <2>1, <2>2, <2>3, <2>4, <2>5, <2>6, <2>7, <2>8, <2>9, <2>10 DEF Monitor
<1>5. ASSUME NEW p \in Proc, Tick(p) \/ Agent(p) PROVE Moves(p) \/ Stays
  <2>0. p \in Coroutines /\ p \notin StopCalls /\ p \notin DoneCalls
    BY CallsAreNotProcesses DEF Coroutines, Calls
  <2>1. CASE SeeCheckpoint(p) BY <2>0, <2>1 DEF SeeCheckpoint, Stays
  <2>2. CASE ForceRestart(p) BY <2>0, <2>2 DEF ForceRestart, Moves, TypeOK
  <2>3. CASE BlockAtGate(p) BY <2>0, <2>3 DEF BlockAtGate, Stays
  <2>4. CASE WritePlan(p) BY <2>0, <2>4 DEF WritePlan, Stays
  <2>5. CASE WorkOnPlan(p) BY <2>0, <2>5 DEF WorkOnPlan, Stays
  <2>6. CASE Exit(p) BY <2>0, <2>6 DEF Exit, Stays, TypeOK
  <2> QED BY <1>5, <2>1, <2>2, <2>3, <2>4, <2>5, <2>6 DEF Tick, Agent
<1> QED BY <1>1, <1>2, <1>3, <1>4, <1>5 DEF Next, Coroutines

\* A move leaves every process with its monitor and every retry as it was.
LEMMA MovesKeepIInv ==
  ASSUME IInv, TypeOK', NEW c \in Coroutines, Moves(c)
  PROVE  IInv'
<1> USE CallsAreNotProcesses, NoProcIsNoProcess DEF Coroutines
<1>1. UnusedIsBlank' BY DEF IInv, UnusedIsBlank, Moves
<1>2. AttachIsExclusive' BY DEF IInv, AttachIsExclusive, Moves
<1>3. RetryOnlyFirst' BY DEF IInv, RetryOnlyFirst, Moves
<1>4. RetriedIsDone' BY DEF IInv, RetriedIsDone, Moves, Finished, TypeOK
<1>5. EveryProcessIsWatched'
  <2> SUFFICES ASSUME NEW p \in Proc
               PROVE  /\ Alive(p)' => pc'[p] \in {"wait", "terminating"} \/ Attaching(p)'
                      /\ Exited(p)' => pc'[p] # "idle" \/ Attaching(p)'
    BY DEF EveryProcessIsWatched
  <2>1. Attaching(p) => Attaching(p)' BY DEF Attaching, Moves
  <2>2. p \in Coroutines /\ (p # c => pc'[p] = pc[p]) BY DEF Moves
  <2>3. Alive(p)' => pc'[p] \in {"wait", "terminating"} \/ Attaching(p)'
    BY <2>1, <2>2 DEF IInv, EveryProcessIsWatched, Moves
  <2>4. Exited(p)' => pc'[p] # "idle" \/ Attaching(p)'
    <3>1. Exited(p)' => Alive(p) \/ Exited(p)
      BY DEF Moves, Used, Exited, Alive, IInv, TypeOK
    <3> QED BY <2>1, <2>2, <3>1 DEF IInv, EveryProcessIsWatched, Moves
  <2> QED BY <2>3, <2>4
<1>6. OneRetryPerRun' BY DEF IInv, OneRetryPerRun, Moves
<1>7. Roles'
  <2>1. \A d \in StopCalls \cup DoneCalls : d \in Coroutines BY DEF Calls
  <2>2. \A d \in StopCalls :
          pc'[d] \in {"idle", "stopping", "popping", "stopped"} \cup Finished
    BY <2>1 DEF Moves, IInv, Roles
  <2>3. \A d \in DoneCalls : pc'[d] \in {"idle", "done"}
    BY <2>1 DEF Moves, IInv, Roles
  <2> QED BY <2>2, <2>3 DEF Roles
<1> QED BY <1>1, <1>2, <1>3, <1>4, <1>5, <1>6, <1>7 DEF IInv

\* A process spawned by a start is new, unmonitored and named by that start alone.
LEMMA SpawnKeepsIInv ==
  ASSUME IInv, TypeOK', NEW c \in Coroutines, Spawn(c)
  PROVE  IInv'
<1> USE NoProcIsNoProcess DEF Coroutines
<1>0. PICK q \in Proc : NewProcess(q, want[c], NoProc) /\ target' = [target EXCEPT ![c] = q]
  BY DEF Spawn
<1>1. /\ ~Used(q) /\ pc[q] = "idle" /\ retryOf[q] = NoProc
      /\ \A p \in Proc : Used(p)' <=> p = q \/ Used(p)
      /\ UNCHANGED retryOf
  BY <1>0 DEF NewProcess, Fresh, IInv, UnusedIsBlank, Used, TypeOK
<1>2. /\ pc[c] = "spawn" /\ pc'[c] = "attach" /\ target'[c] = q
      /\ \A d \in Coroutines \ {c} : pc'[d] = pc[d] /\ target'[d] = target[d]
  BY <1>0 DEF Spawn, Goto, IInv, TypeOK
<1>3. UnusedIsBlank' BY <1>1, <1>2 DEF IInv, UnusedIsBlank
<1>4. AttachIsExclusive' BY <1>1, <1>2 DEF IInv, AttachIsExclusive
<1>5. RetryOnlyFirst' BY <1>1, <1>2 DEF IInv, RetryOnlyFirst
<1>6. RetriedIsDone' BY <1>1, <1>2 DEF IInv, RetriedIsDone, TypeOK
<1>7. EveryProcessIsWatched'
  <2>1. Attaching(q)' BY <1>2 DEF Attaching
  <2>2. \A p \in Proc \ {q} : proc'[p] = proc[p]
    BY <1>0 DEF NewProcess, IInv, TypeOK
  <2>3. \A p \in Proc \ {q} : Attaching(p) => Attaching(p)' BY <1>2 DEF Attaching
  <2>4. \A p \in Proc : pc[p] \in {"wait", "terminating"} => pc'[p] = pc[p] BY <1>2
  <2>5. \A p \in Proc : pc[p] # "idle" => pc'[p] # "idle" BY <1>2
  <2> QED BY <2>1, <2>2, <2>3, <2>4, <2>5 DEF IInv, EveryProcessIsWatched, Alive, Exited
<1>8. OneRetryPerRun' BY <1>1 DEF IInv, OneRetryPerRun
<1>9. Roles' BY <1>2 DEF IInv, Roles, Finished, Calls
<1> QED BY <1>3, <1>4, <1>5, <1>6, <1>7, <1>8, <1>9 DEF IInv

\* Creating the monitor ends the start that names the process, and that start alone.
LEMMA AttachKeepsIInv ==
  ASSUME IInv, TypeOK', NEW c \in Coroutines, Attach(c)
  PROVE  IInv'
<1> USE NoProcIsNoProcess DEF Coroutines
<1> DEFINE q == target[c]
<1>1. /\ q \in Proc /\ Used(q) /\ pc[q] = "idle" /\ pc[c] = "attach"
      /\ \A d \in Coroutines : pc[d] = "attach" /\ target[d] = q => d = c
  BY DEF Attach, IInv, AttachIsExclusive
<1>2. /\ pc'[q] = "wait" /\ pc'[c] = "done"
      /\ \A d \in Coroutines \ {c, q} : pc'[d] = pc[d]
      /\ \A d \in Coroutines \ {c} : target'[d] = target[d]
  BY <1>1 DEF Attach, IInv, TypeOK
<1>3. UNCHANGED <<proc, retryOf>> /\ \A p \in Proc : Used(p)' <=> Used(p)
  BY DEF Attach, procs, Used
<1> HIDE DEF q
<1>4. UnusedIsBlank' BY <1>1, <1>2, <1>3 DEF IInv, UnusedIsBlank
<1>5. AttachIsExclusive'
  <2> SUFFICES ASSUME NEW d \in Coroutines, pc'[d] = "attach"
               PROVE  /\ target'[d] \in Proc /\ proc'[target'[d]] # "unused"
                      /\ pc'[target'[d]] = "idle"
                      /\ \A e \in Coroutines :
                           pc'[e] = "attach" /\ target'[e] = target'[d] => e = d
    BY DEF AttachIsExclusive, Used
  <2>1. d \notin {c, q} /\ pc[d] = "attach" /\ target'[d] = target[d] /\ target[d] # q
    BY <1>1, <1>2
  <2>2. target[d] \in Proc /\ Used(target[d]) /\ pc[target[d]] = "idle"
    BY <2>1 DEF IInv, AttachIsExclusive
  <2>3. pc'[target[d]] = "idle" BY <1>1, <1>2, <2>1, <2>2
  <2>4. ASSUME NEW e \in Coroutines, pc'[e] = "attach", target'[e] = target'[d] PROVE e = d
    <3>1. e \notin {c, q} /\ pc[e] = "attach" /\ target'[e] = target[e] BY <1>2, <2>4
    <3> QED BY <2>1, <2>4, <3>1 DEF IInv, AttachIsExclusive
  <2> QED BY <1>3, <2>1, <2>2, <2>3, <2>4 DEF Used
<1>6. RetryOnlyFirst' BY <1>1, <1>2, <1>3 DEF IInv, RetryOnlyFirst
<1>7. RetriedIsDone' BY <1>1, <1>2, <1>3 DEF IInv, RetriedIsDone, TypeOK
<1>8. EveryProcessIsWatched'
  <2>1. target[c] = q BY DEF q
  <2>2. \A p \in Proc \ {q} : Attaching(p) => Attaching(p)'
    BY <1>1, <1>2, <2>1 DEF Attaching
  <2>3. \A p \in Proc : pc[p] \in {"wait", "terminating"} => pc'[p] = pc[p] BY <1>1, <1>2
  <2>4. \A p \in Proc : pc[p] # "idle" => pc'[p] # "idle" BY <1>1, <1>2
  <2> QED BY <1>2, <1>3, <2>2, <2>3, <2>4 DEF IInv, EveryProcessIsWatched, Alive, Exited
<1>9. OneRetryPerRun' BY <1>3 DEF IInv, OneRetryPerRun
<1>10. Roles' BY <1>1, <1>2, CallsAreNotProcesses DEF IInv, Roles, Finished, Calls
<1> QED BY <1>4, <1>5, <1>6, <1>7, <1>8, <1>9, <1>10 DEF IInv

\* A retry gets its monitor at once, and the run it retries had none before.
LEMMA RespawnKeepsIInv ==
  ASSUME IInv, TypeOK', NEW p \in Proc, Respawn(p)
  PROVE  IInv'
<1> USE NoProcIsNoProcess DEF Coroutines
<1>0. PICK q \in Proc : /\ NewProcess(q, kind[p], p)
                        /\ pc' = [pc EXCEPT ![p] = "done", ![q] = "wait"]
  BY DEF Respawn
<1>1. /\ ~Used(q) /\ pc[q] = "idle" /\ retryOf[q] = NoProc
      /\ \A r \in Proc : Used(r)' <=> r = q \/ Used(r)
      /\ retryOf'[q] = p
      /\ \A r \in Proc \ {q} : retryOf'[r] = retryOf[r]
  BY <1>0 DEF NewProcess, Fresh, IInv, UnusedIsBlank, Used, TypeOK
<1>2. /\ pc[p] \in {"fallback", "failover"} /\ retryOf[p] = NoProc /\ p # q
      /\ \A r \in Proc : retryOf[r] \notin {p, q}
  BY <1>1 DEF Respawn, IInv, RetryOnlyFirst, RetriedIsDone
<1>3. /\ pc'[p] = "done" /\ pc'[q] = "wait"
      /\ \A d \in Coroutines \ {p, q} : pc'[d] = pc[d]
      /\ UNCHANGED target
  BY <1>0, <1>2 DEF Respawn, IInv, TypeOK
<1>4. UnusedIsBlank' BY <1>1, <1>2, <1>3 DEF IInv, UnusedIsBlank
<1>5. AttachIsExclusive' BY <1>1, <1>2, <1>3 DEF IInv, AttachIsExclusive
<1>6. RetryOnlyFirst' BY <1>1, <1>2, <1>3 DEF IInv, RetryOnlyFirst
<1>7. RetriedIsDone' BY <1>1, <1>2, <1>3 DEF IInv, RetriedIsDone, TypeOK
<1>8. EveryProcessIsWatched'
  <2>1. \A r \in Proc \ {q} : proc'[r] = proc[r]
    BY <1>0 DEF NewProcess, IInv, TypeOK
  <2>2. \A r \in Proc : Attaching(r) => Attaching(r)'
    BY <1>1, <1>2, <1>3 DEF Attaching
  <2>3. \A r \in Proc : pc[r] \in {"wait", "terminating"} => pc'[r] \in {"wait", "terminating"}
    BY <1>2, <1>3
  <2>4. \A r \in Proc : pc[r] # "idle" => pc'[r] # "idle" BY <1>3
  <2> QED BY <1>3, <2>1, <2>2, <2>3, <2>4 DEF IInv, EveryProcessIsWatched, Alive, Exited
<1>9. OneRetryPerRun' BY <1>1, <1>2 DEF IInv, OneRetryPerRun, TypeOK
<1>10. Roles' BY <1>2, <1>3, CallsAreNotProcesses DEF IInv, Roles, Calls
<1> QED BY <1>4, <1>5, <1>6, <1>7, <1>8, <1>9, <1>10 DEF IInv

\* The inductive invariant.
LEMMA Inductive == Spec => []IInv
<1>1. Init => IInv
  <2> SUFFICES ASSUME Init PROVE IInv
    OBVIOUS
  <2>1. TypeOK BY TypeAtInit
  <2> QED BY <2>1
          DEF Init, IInv, Roles, UnusedIsBlank, AttachIsExclusive, RetryOnlyFirst, RetriedIsDone,
              EveryProcessIsWatched, OneRetryPerRun, Used, Alive, Exited, Coroutines, Calls
<1>2. IInv /\ [Next]_vars => IInv'
  <2> SUFFICES ASSUME IInv, [Next]_vars PROVE IInv'
    OBVIOUS
  <2>1. TypeOK /\ TypeOK' /\ Roles BY TypeIsKept DEF IInv
  <2>2. CASE Stays
    <3>1. /\ UnusedIsBlank' /\ AttachIsExclusive' /\ RetryOnlyFirst' /\ RetriedIsDone'
          /\ OneRetryPerRun' /\ Roles'
      BY <2>1, <2>2 DEF Stays, IInv, UnusedIsBlank, AttachIsExclusive, RetryOnlyFirst,
         RetriedIsDone, OneRetryPerRun, Roles, Used
    <3>2. \A p \in Proc : Exited(p)' => Alive(p) \/ Exited(p)
      BY <2>1, <2>2 DEF Stays, Used, Exited, Alive, TypeOK
    <3>3. EveryProcessIsWatched'
      BY <2>2, <3>2 DEF Stays, IInv, EveryProcessIsWatched, Attaching
    <3> QED BY <2>1, <3>1, <3>3 DEF IInv
  <2> QED BY <2>1, <2>2, StepShape, MovesKeepIInv, SpawnKeepsIInv, AttachKeepsIInv,
             RespawnKeepsIInv
<1> QED BY <1>1, <1>2, PTL DEF Spec

\* No process is ever left without a monitor or a start about to create one, however
\* many requests overlap and wherever their awaits fall.
THEOREM Watched == Spec => []EveryProcessIsWatched
<1>1. IInv => EveryProcessIsWatched BY DEF IInv
<1> QED BY <1>1, Inductive, PTL

\* No run is retried twice and no retry is retried: the model fallback and the profile
\* failover together spawn at most one more process for a run.
THEOREM RetriedOnce == Spec => []OneRetryPerRun
<1>1. IInv => OneRetryPerRun BY DEF IInv
<1> QED BY <1>1, Inductive, PTL

-----------------------------------------------------------------------------
\* The done column

\* Of the steps that write the plan's status, only those of a user and of an agent that
\* writes its own copy of the plan take it from done.
LEMMA StepKeepsDone ==
  ASSUME TypeOK, [Next]_vars, plan.status = "done", plan'.status # "done"
  PROVE  \/ \E c \in StartCalls \cup ApproveCalls \cup ChangeCalls : pc'[c] # pc[c]
         \/ \E p \in Proc : WorkOnPlan(p) \/ WritePlan(p)
<1> USE DEF service, procs, disk
<1>1. plan' # plan OBVIOUS
<1>2. ASSUME NEW s \in Statuses, UpdatePlanStatus(s) PROVE FALSE
  BY <1>1, <1>2 DEF UpdatePlanStatus
<1>3. ASSUME NEW c \in Calls, Request(c)
      PROVE  c \in StartCalls \cup ApproveCalls \cup ChangeCalls /\ pc'[c] # pc[c]
  <2>0. c \in Coroutines BY DEF Coroutines
  <2>1. CASE StartRoute(c)
    BY <1>1, <2>0, <2>1 DEF StartRoute, TypeOK, Goto
  <2>2. CASE StopRoute(c) BY <1>1, <2>2 DEF StopRoute
  <2>3. CASE ApproveRoute(c) BY <2>0, <2>3 DEF ApproveRoute, TypeOK, Goto
  <2>4. CASE ChangesRoute(c) BY <2>0, <2>4 DEF ChangesRoute, TypeOK, Goto
  <2>5. CASE DoneRoute(c) BY <2>5 DEF DoneRoute, TypeOK
  <2> QED BY <1>3, <2>1, <2>2, <2>3, <2>4, <2>5 DEF Request
<1>4. ASSUME NEW c \in Coroutines, Proceed(c) PROVE c \in StartCalls /\ pc'[c] # pc[c]
  <2>1. CASE ResolveToken(c) BY <1>1, <2>1 DEF ResolveToken
  <2>2. CASE Spawn(c) BY <1>1, <2>2 DEF Spawn
  <2>3. CASE SpawnFails(c) BY <1>1, <1>2, <2>3 DEF SpawnFails, Statuses
  <2>4. CASE Attach(c) BY <1>1, <2>4 DEF Attach, TypeOK, Coroutines
  <2>5. CASE StopObservesExit(c) BY <1>1, <1>2, <2>5 DEF StopObservesExit, Statuses
  <2>6. CASE StopDropsTracking(c) BY <1>1, <2>6 DEF StopDropsTracking
  <2>7. CASE StopReturns(c) BY <1>1, <2>7 DEF StopReturns
  <2>8. CASE ResumeRoute(c) BY <1>1, <2>8 DEF ResumeRoute
  <2> QED BY <1>4, <2>1, <2>2, <2>3, <2>4, <2>5, <2>6, <2>7, <2>8 DEF Proceed
<1>5. ASSUME NEW p \in Proc, Monitor(p) PROVE FALSE
  <2>1. UNCHANGED plan \/ \E s \in Statuses : UpdatePlanStatus(s)
    BY <1>5 DEF Monitor, ObserveExit, DecideFallback, AwaitReview, StartBuild,
       DecideFailover, Respawn, RespawnFails, DeferToStop, Continue, Conclude, Cleanup, Statuses
  <2> QED BY <1>1, <1>2, <2>1
<1>6. ASSUME NEW p \in Proc, Tick(p) PROVE FALSE
  <2>1. UNCHANGED plan \/ \E s \in Statuses : UpdatePlanStatus(s)
    BY <1>6 DEF Tick, SeeCheckpoint, ForceRestart, Statuses
  <2> QED BY <1>1, <1>2, <2>1
<1>7. ASSUME NEW p \in Proc, Agent(p) PROVE WorkOnPlan(p) \/ WritePlan(p)
  BY <1>1, <1>7 DEF Agent, BlockAtGate, Exit
<1>8. CASE UNCHANGED vars BY <1>1, <1>8 DEF vars
<1> QED BY <1>3, <1>4, <1>5, <1>6, <1>7, <1>8 DEF Next

\* The status that a user's acceptance gave a task is kept by every monitor, stop and
\* retry, whatever they were in the middle of.  What takes it away is another request, or
\* an agent still at work, which brings the status of its own copy of the plan.
THEOREM DoneKept == Spec => DoneStaysDone
<1>1. TypeOK /\ [Next]_vars =>
        [plan.status = "done" /\ plan'.status # "done"
           => \/ \E c \in StartCalls \cup ApproveCalls \cup ChangeCalls : pc'[c] # pc[c]
              \/ \E p \in Proc : WorkOnPlan(p) \/ WritePlan(p)]_vars
  BY StepKeepsDone
<1> QED BY <1>1, TypeCorrect, PTL DEF Spec, DoneStaysDone

-----------------------------------------------------------------------------
\* How many agents work

Active(c) == pc[c] \notin Finished \cup {"idle"}

\* The coroutines under way that start agents or wait for one.
AtWork == {c \in Coroutines \ StopCalls : Active(c)}

Bounded ==
  /\ IsFiniteSet(Begun) /\ IsFiniteSet(AtWork)
  /\ Cardinality(AtWork) <= Cardinality(Begun)

\* Handing the work over to another coroutine leaves the count as it is.
LEMMA HandOver ==
  ASSUME NEW S, IsFiniteSet(S), NEW x \in S, NEW y, y \notin S
  PROVE  /\ IsFiniteSet((S \ {x}) \cup {y})
         /\ Cardinality((S \ {x}) \cup {y}) = Cardinality(S)
<1>1. IsFiniteSet(S \ {x}) /\ Cardinality(S \ {x}) = Cardinality(S) - 1
  BY FS_RemoveElement
<1>2. y \notin S \ {x} OBVIOUS
<1>3. /\ IsFiniteSet((S \ {x}) \cup {y})
      /\ Cardinality((S \ {x}) \cup {y}) = Cardinality(S \ {x}) + 1
  BY <1>1, <1>2, FS_AddElement
<1> QED BY <1>1, <1>3, FS_CardinalityType

\* A coroutine that goes on is at work already, or a request that adds to both counts.
LEMMA MovesKeepBounded ==
  ASSUME IInv, Bounded, NEW c \in Coroutines, Moves(c)
  PROVE  Bounded'
<1> USE DEF Finished
<1>0. /\ \A d \in Coroutines \ {c} : pc'[d] = pc[d]
      /\ pc'[c] # "idle" /\ pc[c] \notin Finished
      /\ \A d \in StartCalls \cup ApproveCalls \cup ChangeCalls :
           d \in Coroutines /\ d \notin Proc /\ d \notin StopCalls
  BY CallsAreNotProcesses, CallsAreDisjoint DEF Moves, Calls, Coroutines
<1>1. CASE c \in Begun \/ c \notin StartCalls \cup ApproveCalls \cup ChangeCalls
  <2>1. Begun' = Begun BY <1>0, <1>1 DEF Begun
  <2>2. AtWork' \in SUBSET AtWork
    <3>1. c \notin Begun => c \in StopCalls \/ c \in DoneCalls \/ pc[c] # "idle"
      BY <1>1 DEF Moves, Calls
    <3>2. c \in DoneCalls => ~Active(c)' BY DEF Moves, Active
    <3>3. pc[c] # "idle" => Active(c) BY <1>0 DEF Active
    <3> QED BY <1>0, <3>1, <3>2, <3>3 DEF AtWork, Active, Begun
  <2>3. IsFiniteSet(AtWork') /\ Cardinality(AtWork') <= Cardinality(AtWork)
    BY <2>2, FS_Subset DEF Bounded
  <2> QED BY <2>1, <2>3, FS_CardinalityType DEF Bounded
<1>2. CASE c \in (StartCalls \cup ApproveCalls \cup ChangeCalls) \ Begun
  <2>1. Begun' = Begun \cup {c} BY <1>0, <1>2 DEF Begun
  <2>2. IsFiniteSet(Begun') /\ Cardinality(Begun') = Cardinality(Begun) + 1
    BY <1>2, <2>1, FS_AddElement DEF Bounded
  <2>3. AtWork' \in SUBSET (AtWork \cup {c}) BY <1>0 DEF AtWork, Active
  <2>4. IsFiniteSet(AtWork') /\ Cardinality(AtWork') <= Cardinality(AtWork \cup {c})
    BY <2>3, FS_Subset, FS_AddElement DEF Bounded
  <2>5. Cardinality(AtWork \cup {c}) <= Cardinality(AtWork) + 1
    <3>1. Cardinality(AtWork \cup {c})
            = IF c \in AtWork THEN Cardinality(AtWork) ELSE Cardinality(AtWork) + 1
      BY FS_AddElement DEF Bounded
    <3>2. Cardinality(AtWork) \in Nat BY FS_CardinalityType DEF Bounded
    <3> QED BY <3>1, <3>2
  <2>6. Cardinality(AtWork \cup {c}) \in Nat
    BY FS_AddElement, FS_CardinalityType DEF Bounded
  <2> QED BY <2>2, <2>4, <2>5, <2>6, FS_CardinalityType DEF Bounded
<1> QED BY <1>1, <1>2

\* A monitor is created in the place of the coroutine that spawned its process.
LEMMA HandOverKeepsBounded ==
  ASSUME Bounded, NEW c \in AtWork, NEW q \in Proc, pc[q] = "idle",
         pc'[c] = "done", pc'[q] = "wait", \A d \in Coroutines \ {c, q} : pc'[d] = pc[d]
  PROVE  Bounded'
<1> USE DEF Finished
<1>1. q \in Coroutines \ StopCalls /\ c \in Coroutines \ StopCalls /\ q # c /\ q \notin AtWork
  BY CallsAreNotProcesses DEF Coroutines, Calls, AtWork, Active
<1>2. Begun' = Begun
  <2>1. \A d \in StartCalls \cup ApproveCalls \cup ChangeCalls : d \in Coroutines /\ d # q
    BY CallsAreNotProcesses DEF Coroutines, Calls
  <2>2. pc[c] # "idle" BY DEF AtWork, Active
  <2> QED BY <2>1, <2>2 DEF Begun
<1>3. AtWork' = (AtWork \ {c}) \cup {q} BY <1>1 DEF AtWork, Active
<1> QED BY <1>1, <1>2, <1>3, HandOver DEF Bounded

\* The count of those at work stays within the requests.
LEMMA BoundedInductive == Spec => []Bounded
<1>1. Init => Bounded
  <2> SUFFICES ASSUME Init PROVE Bounded
    OBVIOUS
  <2>1. Begun = {} /\ AtWork = {}
    BY DEF Init, Begun, AtWork, Active, Coroutines, Calls
  <2> QED BY <2>1, FS_EmptySet DEF Bounded
<1>2. IInv /\ Bounded /\ [Next]_vars => Bounded'
  <2> SUFFICES ASSUME IInv, Bounded, [Next]_vars PROVE Bounded'
    OBVIOUS
  <2>1. CASE \E c \in Coroutines : Moves(c) BY <2>1, MovesKeepBounded
  <2>2. ASSUME NEW c \in Coroutines, Spawn(c) PROVE Bounded'
    <3>1. \A d \in Coroutines : pc'[d] = pc[d] \/ (pc[d] = "spawn" /\ pc'[d] = "attach")
      BY <2>2 DEF Spawn, Goto, IInv, TypeOK
    <3>2. AtWork' = AtWork BY <3>1 DEF AtWork, Active, Finished
    <3>3. Begun' = Begun BY <3>1 DEF Begun, Coroutines, Calls
    <3> QED BY <3>2, <3>3 DEF Bounded
  <2>3. ASSUME NEW c \in Coroutines, Attach(c) PROVE Bounded'
    <3>1. pc[c] = "attach" /\ target[c] \in Proc /\ pc[target[c]] = "idle"
      BY <2>3 DEF Attach, IInv, AttachIsExclusive
    <3>2. /\ pc'[c] = "done" /\ pc'[target[c]] = "wait"
          /\ \A d \in Coroutines \ {c, target[c]} : pc'[d] = pc[d]
      BY <2>3, <3>1 DEF Attach, IInv, TypeOK, Coroutines
    <3>3. c \in AtWork BY <3>1 DEF AtWork, Active, IInv, Roles, Finished
    <3> QED BY <3>1, <3>2, <3>3, HandOverKeepsBounded
  <2>4. ASSUME NEW p \in Proc, Respawn(p) PROVE Bounded'
    <3>1. PICK q \in Proc : /\ NewProcess(q, kind[p], p)
                            /\ pc' = [pc EXCEPT ![p] = "done", ![q] = "wait"]
      BY <2>4 DEF Respawn
    <3>2. pc[p] \in {"fallback", "failover"} /\ pc[q] = "idle"
      BY <2>4, <3>1 DEF Respawn, NewProcess, Fresh, IInv, UnusedIsBlank, Used
    <3>3. /\ pc'[p] = "done" /\ pc'[q] = "wait"
          /\ \A d \in Coroutines \ {p, q} : pc'[d] = pc[d]
      BY <3>1, <3>2 DEF IInv, TypeOK, Coroutines
    <3>4. p \in AtWork
      BY <3>2, CallsAreNotProcesses DEF AtWork, Active, Finished, Coroutines, Calls
    <3> QED BY <3>2, <3>3, <3>4, HandOverKeepsBounded
  <2>5. CASE Stays
    <3>1. Begun' = Begun /\ AtWork' = AtWork BY <2>5 DEF Stays, Begun, AtWork, Active
    <3> QED BY <3>1 DEF Bounded
  <2>6. TypeOK /\ Roles BY DEF IInv
  <2> QED BY <2>1, <2>2, <2>3, <2>4, <2>5, <2>6, StepShape
<1> QED BY <1>1, <1>2, Inductive, PTL DEF Spec

\* Behind each live process there is a coroutine at work of its own.
LEMMA LiveIsAtWork ==
  ASSUME IInv, Bounded
  PROVE  Cardinality({p \in Proc : Alive(p)}) <= Cardinality(AtWork)
<1> DEFINE Live == {p \in Proc : Alive(p)}
           behind == [p \in Live |->
                        IF pc[p] \in {"wait", "terminating"} THEN p
                        ELSE CHOOSE c \in Coroutines : pc[c] = "attach" /\ target[c] = p]
<1>1. \A p \in Live : pc[p] \notin {"wait", "terminating"} =>
        behind[p] \in Coroutines /\ pc[behind[p]] = "attach" /\ target[behind[p]] = p
  BY DEF IInv, EveryProcessIsWatched, Attaching
<1>2. \A p \in Live : pc[p] \in {"wait", "terminating"} => behind[p] = p
  OBVIOUS
<1> HIDE DEF behind
<1>3. \A p \in Live : behind[p] \in AtWork
  BY <1>1, <1>2, CallsAreNotProcesses
     DEF AtWork, Active, Finished, Coroutines, Calls, IInv, Roles
<1>4. \A p, q \in Live : behind[p] = behind[q] => p = q BY <1>1, <1>2
<1>5. behind \in [Live -> AtWork]
  <2>1. DOMAIN behind = Live /\ behind = [p \in Live |-> behind[p]] BY DEF behind
  <2> QED BY <1>3, <2>1
<1>6. behind \in Injection(Live, AtWork)
  BY <1>4, <1>5 DEF Injection, IsInjective
<1> QED BY <1>6, FS_Injection DEF Bounded

\* However many requests overlap and wherever their awaits fall, the retries, the
\* continuations and the build after the specification never put more agents to work
\* than there were requests for one.
THEOREM AgentsAreBounded == Spec => []AgentsBounded
<1>1. IInv /\ Bounded => AgentsBounded
  <2> SUFFICES ASSUME IInv, Bounded PROVE AgentsBounded
    OBVIOUS
  <2>1. IsFiniteSet(Proc) BY BoundsAssumption, FS_Interval DEF Proc
  <2>2. IsFiniteSet({p \in Proc : Alive(p)}) BY <2>1, FS_Subset
  <2> QED BY <2>2, LiveIsAtWork, FS_CardinalityType DEF AgentsBounded, Bounded
<1> QED BY <1>1, Inductive, BoundedInductive, PTL

-----------------------------------------------------------------------------
\* A task started once, and stopped whenever somebody likes

OneStart ==
  /\ ApproveCalls = {} /\ ChangeCalls = {}
  /\ \A c, d \in StartCalls : c = d

\* Then one coroutine at a time is at work, and none before the start.
LEMMA OneAtWork ==
  ASSUME OneStart, Bounded
  PROVE  /\ \A c, d \in AtWork : c = d
         /\ (\A s \in StartCalls : pc[s] = "idle") => AtWork = {}
<1>0. IsFiniteSet(AtWork) /\ Cardinality(AtWork) \in Nat /\ Cardinality(Begun) \in Nat
  BY FS_CardinalityType DEF Bounded
<1>1. Cardinality(Begun) <= 1
  <2>1. PICK s : Begun \in SUBSET {s}
    <3>1. CASE StartCalls = {} BY <3>1 DEF Begun, OneStart
    <3>2. CASE StartCalls # {} BY <3>2 DEF Begun, OneStart
    <3> QED BY <3>1, <3>2
  <2>2. IsFiniteSet({s}) /\ Cardinality({s}) = 1 BY FS_Singleton
  <2> QED BY <2>1, <2>2, FS_Subset
<1>2. ASSUME NEW c \in AtWork, NEW d \in AtWork, c # d PROVE FALSE
  <2>1. IsFiniteSet({c}) /\ Cardinality({c}) = 1 BY FS_Singleton
  <2>2. Cardinality({c} \cup {d}) = 2 BY <1>2, <2>1, FS_AddElement
  <2>3. {c} \cup {d} \in SUBSET AtWork OBVIOUS
  <2>4. Cardinality({c} \cup {d}) <= Cardinality(AtWork) BY <1>0, <2>3, FS_Subset
  <2> QED BY <1>0, <1>1, <2>2, <2>4 DEF Bounded
<1>3. ASSUME \A s \in StartCalls : pc[s] = "idle" PROVE AtWork = {}
  <2>1. Begun = {} BY <1>3 DEF Begun, OneStart
  <2>2. Cardinality(AtWork) = 0 BY <1>0, <2>1, FS_EmptySet DEF Bounded
  <2> QED BY <1>0, <2>2, FS_EmptySet
<1> QED BY <1>2, <1>3

\* While the coroutine at work is no monitor of a live process and about to create none,
\* no process is alive.
LEMMA NobodyLives ==
  ASSUME OneStart, IInv, Bounded, NEW c \in AtWork, pc[c] # "attach",
         pc[c] \notin {"wait", "terminating"} \/ (c \in Proc /\ ~Alive(c))
  PROVE  \A p \in Proc : ~Alive(p)
<1> SUFFICES ASSUME NEW p \in Proc, Alive(p) PROVE FALSE
  OBVIOUS
<1>1. CASE pc[p] \in {"wait", "terminating"}
  <2>1. p \in AtWork
    BY <1>1, CallsAreNotProcesses DEF AtWork, Active, Finished, Coroutines, Calls
  <2>2. p = c BY <2>1, OneAtWork
  <2> QED BY <1>1, <2>2
<1>2. CASE Attaching(p)
  <2>1. PICK d \in Coroutines : pc[d] = "attach" BY <1>2 DEF Attaching
  <2>2. d \in AtWork BY <2>1 DEF AtWork, Active, Finished, IInv, Roles
  <2>3. d = c BY <2>2, OneAtWork
  <2> QED BY <2>1, <2>3
<1> QED BY <1>1, <1>2 DEF IInv, EveryProcessIsWatched

\* At most one agent runs.
OneAgent == \A p, q \in Proc : Alive(p) /\ Alive(q) => p = q

LEMMA LiveIsAlone ==
  ASSUME OneStart, IInv, Bounded
  PROVE  OneAgent
<1> SUFFICES ASSUME NEW p \in Proc, NEW q \in Proc, Alive(p), Alive(q) PROVE p = q
  BY DEF OneAgent
<1>1. ASSUME NEW r \in Proc, Alive(r)
      PROVE  \E c \in AtWork : (c = r /\ pc[r] # "attach") \/ (pc[c] = "attach" /\ target[c] = r)
  <2>1. CASE pc[r] \in {"wait", "terminating"}
    BY <2>1, CallsAreNotProcesses DEF AtWork, Active, Finished, Coroutines, Calls
  <2>2. CASE Attaching(r)
    BY <2>2 DEF Attaching, AtWork, Active, Finished, IInv, Roles
  <2> QED BY <1>1, <2>1, <2>2 DEF IInv, EveryProcessIsWatched
<1> QED BY <1>1, OneAtWork

\* A task started once and stopped at any moments has one live agent at most, through spec
\* creation, the build, its retries and any number of continuations.
THEOREM OneAgentAtOnce ==
  ASSUME OneStart
  PROVE  Spec => []OneAgent
BY LiveIsAlone, Inductive, BoundedInductive, PTL

\* The only start finds nothing tracked, and a start that has not spawned yet neither: it
\* never has to stop what it replaces.
SpawnsAlone == \A c \in Coroutines : pc[c] \in {"token", "spawn"} => running = NoProc

Chain ==
  /\ \A c \in Coroutines \ StopCalls : pc[c] \notin {"resume", "stopping", "popping", "stopped"}
  /\ (\A s \in StartCalls : pc[s] = "idle") => running = NoProc
  /\ SpawnsAlone

\* Only a new process gets tracked.
LEMMA TrackingShape ==
  ASSUME [Next]_vars
  PROVE  \/ running' \in {running, NoProc}
         \/ \E c \in Coroutines : Spawn(c)
         \/ \E p \in Proc : Respawn(p)
<1> USE DEF service, procs, disk, DropTracking
<1>1. CASE UNCHANGED vars BY <1>1 DEF vars
<1>2. ASSUME NEW c \in Calls, Request(c) PROVE running' \in {running, NoProc}
  BY <1>2 DEF Request, StartRoute, StopRoute, ApproveRoute, ChangesRoute, DoneRoute,
     Replace, BeginStop
<1>3. ASSUME NEW c \in Coroutines, Proceed(c) PROVE running' \in {running, NoProc} \/ Spawn(c)
  BY <1>3 DEF Proceed, ResolveToken, SpawnFails, Attach, StopObservesExit, StopDropsTracking,
     StopReturns, ResumeRoute, Replace, BeginStop
<1>4. ASSUME NEW p \in Proc, Monitor(p) PROVE running' \in {running, NoProc} \/ Respawn(p)
  BY <1>4 DEF Monitor, ObserveExit, DecideFallback, AwaitReview, StartBuild, DecideFailover,
     RespawnFails, DeferToStop, Continue, Conclude, Cleanup
<1>5. ASSUME NEW p \in Proc, Tick(p) \/ Agent(p) PROVE running' \in {running, NoProc}
  BY <1>5 DEF Tick, Agent, SeeCheckpoint, ForceRestart, BlockAtGate, WritePlan,
     WorkOnPlan, Exit
<1> QED BY <1>1, <1>2, <1>3, <1>4, <1>5 DEF Next

\* Where coroutines come to when they start: the start itself, if nothing is tracked, or a
\* monitor that has just dropped what was.
LEMMA StartsShape ==
  ASSUME OneStart, IInv, Chain, [Next]_vars, NEW c \in Coroutines, pc'[c] # pc[c]
  PROVE  /\ pc'[c] = "token" => running' = NoProc
         /\ pc'[c] = "spawn" => pc[c] = "token" /\ running' = running
         /\ c \notin StopCalls =>
              pc'[c] \notin {"resume", "stopping", "popping", "stopped"}
<1> USE DEF Goto, service, procs, disk, DropTracking, PCs, Finished
<1>1. CASE UNCHANGED vars BY <1>1 DEF vars
<1>2. ASSUME NEW d \in Calls, Request(d)
      PROVE  /\ pc'[d] = "token" => running' = NoProc
             /\ pc'[d] # "spawn"
             /\ d \notin StopCalls => pc'[d] \notin {"resume", "stopping", "popping", "stopped"}
             /\ c = d
  <2>0. d \in Coroutines BY DEF Coroutines
  <2>1. CASE StartRoute(d)
    <3>1. running = NoProc /\ d \in StartCalls BY <2>1 DEF StartRoute, OneStart, Chain
    <3>2. /\ running' = running
          /\ pc' \in {[pc EXCEPT ![d] = "token"], [pc EXCEPT ![d] = "refused"]}
      BY <2>1, <3>1 DEF StartRoute, Replace, BeginStart
    <3> QED BY <2>0, <3>1, <3>2 DEF IInv, TypeOK
  <2>2. CASE StopRoute(d) BY <2>0, <2>2 DEF StopRoute, BeginStop, IInv, TypeOK
  <2>3. CASE DoneRoute(d) BY <2>0, <2>3 DEF DoneRoute, IInv, TypeOK
  <2> QED BY <1>2, <2>1, <2>2, <2>3 DEF Request, OneStart, ApproveRoute, ChangesRoute
<1>3. ASSUME NEW d \in Coroutines, Proceed(d)
      PROVE  /\ pc'[d] # "token"
             /\ pc'[d] = "spawn" => pc[d] = "token" /\ running' = running
             /\ d \notin StopCalls => pc'[d] \notin {"resume", "stopping", "popping", "stopped"}
             /\ c = d \/ pc'[c] = "wait"
  <2>1. CASE ResolveToken(d) BY <2>1 DEF ResolveToken, IInv, TypeOK
  <2>2. CASE Spawn(d) BY <2>2 DEF Spawn, IInv, TypeOK
  <2>3. CASE SpawnFails(d) BY <2>3 DEF SpawnFails, IInv, TypeOK
  <2>4. CASE Attach(d)
    BY <2>4 DEF Attach, IInv, TypeOK, AttachIsExclusive, Coroutines
  <2>5. CASE StopObservesExit(d) \/ StopDropsTracking(d) \/ StopReturns(d) \/ ResumeRoute(d)
    <3>1. d \in StopCalls
      BY <2>5 DEF StopObservesExit, StopDropsTracking, StopReturns, ResumeRoute, Chain
    <3>2. ~ResumeRoute(d) BY <3>1 DEF ResumeRoute, IInv, Roles
    <3> QED BY <2>5, <3>1, <3>2
            DEF StopObservesExit, StopDropsTracking, StopReturns, IInv, TypeOK
  <2> QED BY <1>3, <2>1, <2>2, <2>3, <2>4, <2>5 DEF Proceed
<1>4. ASSUME NEW p \in Proc, Monitor(p)
      PROVE  /\ pc'[p] = "token" => running' = NoProc
             /\ pc'[p] \notin {"spawn", "resume", "stopping", "popping", "stopped"}
             /\ c = p \/ pc'[c] = "wait"
  <2>0. p \in Coroutines BY DEF Coroutines
  <2>1. CASE Respawn(p) BY <2>0, <2>1 DEF Respawn, IInv, TypeOK, Coroutines
  <2>2. CASE ~Respawn(p)
    BY <1>4, <2>0, <2>2 DEF Monitor, ObserveExit, DecideFallback, AwaitReview, StartBuild,
       DecideFailover, RespawnFails, DeferToStop, Continue, Conclude, Cleanup, IInv, TypeOK
  <2> QED BY <2>1, <2>2
<1>5. ASSUME NEW p \in Proc, Tick(p) \/ Agent(p) PROVE c = p /\ pc'[c] = "terminating"
  BY <1>5 DEF Tick, Agent, SeeCheckpoint, ForceRestart, BlockAtGate, WritePlan,
     WorkOnPlan, Exit, IInv, TypeOK, Coroutines
<1> QED BY <1>1, <1>2, <1>3, <1>4, <1>5 DEF Next

\* A request made is not taken back.
LEMMA StartStays ==
  ASSUME IInv, [Next]_vars, NEW s \in StartCalls, pc[s] # "idle"
  PROVE  pc'[s] # "idle"
<1>0. s \in Calls /\ s \in Coroutines /\ s \notin Proc
  BY CallsAreNotProcesses DEF Calls, Coroutines
<1>1. CASE \E c \in Coroutines : Moves(c)
  BY <1>0, <1>1 DEF Moves
<1>2. CASE \E c \in Coroutines : Spawn(c)
  BY <1>0, <1>2 DEF Spawn, Goto, IInv, TypeOK
<1>3. CASE \E c \in Coroutines : Attach(c)
  BY <1>0, <1>3 DEF Attach, IInv, TypeOK
<1>4. CASE \E p \in Proc : Respawn(p)
  BY <1>0, <1>4 DEF Respawn, IInv, TypeOK
<1>5. CASE Stays BY <1>5 DEF Stays
<1> QED BY <1>1, <1>2, <1>3, <1>4, <1>5, StepShape DEF IInv

\* Who spawns, or spawns again, is alone at work.
LEMMA SpawnerIsAlone ==
  ASSUME OneStart, IInv, Bounded,
         (\E c \in Coroutines : Spawn(c)) \/ (\E p \in Proc : Respawn(p))
  PROVE  /\ \A c \in Coroutines : pc'[c] \notin {"token", "spawn"}
         /\ \E s \in StartCalls : pc[s] # "idle"
<1> USE DEF AtWork, Active, Finished
<1>1. ASSUME NEW c \in AtWork, pc[c] \in {"spawn", "fallback", "failover"},
             pc'[c] \in {"attach", "done"},
             \A d \in Coroutines \ {c} : pc'[d] = pc[d] \/ pc'[d] = "wait"
      PROVE  /\ \A d \in Coroutines : pc'[d] \notin {"token", "spawn"}
             /\ \E s \in StartCalls : pc[s] # "idle"
  <2>1. \A d \in Coroutines : pc[d] \in {"token", "spawn"} => d \in AtWork
    BY DEF IInv, Roles
  <2> QED BY <1>1, <2>1, OneAtWork
<1>2. CASE \E c \in Coroutines : Spawn(c)
  <2>1. PICK c \in Coroutines : Spawn(c) BY <1>2
  <2>2. /\ pc[c] = "spawn" /\ pc'[c] = "attach"
        /\ \A d \in Coroutines \ {c} : pc'[d] = pc[d]
    BY <2>1 DEF Spawn, Goto, IInv, TypeOK
  <2>3. c \in AtWork BY <2>2 DEF IInv, Roles
  <2> QED BY <1>1, <2>2, <2>3
<1>3. CASE \E p \in Proc : Respawn(p)
  <2>1. PICK p \in Proc : Respawn(p) BY <1>3
  <2>2. PICK q \in Proc : NewProcess(q, kind[p], p) /\ pc' = [pc EXCEPT ![p] = "done", ![q] = "wait"]
    BY <2>1 DEF Respawn
  <2>3. pc[p] \in {"fallback", "failover"} /\ pc[q] = "idle" /\ p # q
    BY <2>1, <2>2 DEF Respawn, NewProcess, Fresh, IInv, UnusedIsBlank, Used
  <2>4. /\ pc'[p] = "done"
        /\ \A d \in Coroutines \ {p} : pc'[d] = pc[d] \/ pc'[d] = "wait"
    BY <2>2, <2>3 DEF IInv, TypeOK, Coroutines
  <2>5. p \in AtWork BY <2>3, CallsAreNotProcesses DEF Coroutines, Calls
  <2> QED BY <1>1, <2>3, <2>4, <2>5
<1> QED BY <1>2, <1>3

LEMMA ChainInductive ==
  ASSUME OneStart
  PROVE  Spec => []Chain
<1>1. Init => Chain
  BY DEF Init, Chain, SpawnsAlone
<1>2. IInv /\ Bounded /\ Chain /\ [Next]_vars => Chain'
  <2> SUFFICES ASSUME IInv, Bounded, Chain, [Next]_vars PROVE Chain'
    OBVIOUS
  <2>1. ASSUME NEW c \in Coroutines \ StopCalls
        PROVE  pc'[c] \notin {"resume", "stopping", "popping", "stopped"}
    BY StartsShape DEF Chain
  <2>2. ASSUME \A s \in StartCalls : pc'[s] = "idle" PROVE running' = NoProc
    <3>1. \A s \in StartCalls : pc[s] = "idle" BY <2>2, StartStays
    <3>2. ~((\E c \in Coroutines : Spawn(c)) \/ (\E p \in Proc : Respawn(p)))
      BY <3>1, SpawnerIsAlone
    <3> QED BY <3>1, <3>2, TrackingShape DEF Chain
  <2>3. SpawnsAlone'
    <3> SUFFICES ASSUME NEW c \in Coroutines, pc'[c] \in {"token", "spawn"}
                 PROVE  running' = NoProc
      BY DEF SpawnsAlone
    <3>1. CASE pc'[c] = pc[c]
      <4>1. running = NoProc BY <3>1 DEF Chain, SpawnsAlone
      <4> QED BY <4>1, SpawnerIsAlone, TrackingShape
    <3>2. CASE pc'[c] # pc[c] BY <3>2, StartsShape DEF Chain, SpawnsAlone
    <3> QED BY <3>1, <3>2
  <2> QED BY <2>1, <2>2, <2>3 DEF Chain
<1> QED BY <1>1, <1>2, Inductive, BoundedInductive, PTL DEF Spec

-----------------------------------------------------------------------------
\* What running_tasks says while nobody has stopped the task

Held == {"wait", "terminating", "exited", "fallback", "failover", "cleanup"}

\* The tracked process is in the hands of the coroutine at work.
TrackedIsHeld == \A p \in Proc : running = p => pc[p] \in Held \/ Attaching(p)

Tracking == Undisturbed => stopFlag = FALSE /\ LiveIsTracked /\ TrackedIsHeld

\* A stop that has been made is not taken back, and no stop is under way before one.
LEMMA UndisturbedBefore ==
  ASSUME IInv, [Next]_vars, Undisturbed'
  PROVE  Undisturbed
<1>0. \A c \in StopCalls : c \in Coroutines /\ c \notin Proc
  BY CallsAreNotProcesses DEF Coroutines, Calls
<1>1. ASSUME NEW c \in StopCalls PROVE pc[c] \in {"idle", "refused"}
  <2>0. pc'[c] \in {"idle", "refused"} BY DEF Undisturbed
  <2>1. CASE \E d \in Coroutines : Moves(d)
    <3>1. PICK d \in Coroutines : Moves(d) BY <2>1
    <3>2. CASE c = d BY <2>0, <3>1, <3>2 DEF Moves, Finished
    <3>3. CASE c # d BY <1>0, <2>0, <3>1, <3>3 DEF Moves
    <3> QED BY <3>2, <3>3
  <2>2. CASE \E d \in Coroutines : Spawn(d)
    BY <1>0, <2>0, <2>2 DEF Spawn, Goto, IInv, TypeOK, Roles, Finished
  <2>3. CASE \E d \in Coroutines : Attach(d)
    BY <1>0, <2>0, <2>3 DEF Attach, IInv, TypeOK, Roles, Finished, AttachIsExclusive
  <2>4. CASE \E p \in Proc : Respawn(p)
    BY <1>0, <2>0, <2>4 DEF Respawn, IInv, TypeOK
  <2>5. CASE Stays BY <2>0, <2>5 DEF Stays
  <2> QED BY <2>1, <2>2, <2>3, <2>4, <2>5, StepShape DEF IInv
<1> QED BY <1>1 DEF Undisturbed

\* What routes do that launch nothing, and a start without a process, leaves it right.
LEMMA AsideKeepsTracking ==
  ASSUME IInv, Undisturbed, Tracking, UNCHANGED <<running, stopFlag, proc>>,
         \A p \in Proc : pc'[p] = pc[p] \/ pc'[p] \in Held,
         \A c \in Coroutines : pc[c] = "attach" => pc'[c] = pc[c] /\ target'[c] = target[c]
  PROVE  Tracking'
<1>1. \A p \in Proc : Attaching(p) => Attaching(p)' BY DEF Attaching
<1> QED BY <1>1 DEF Tracking, LiveIsTracked, TrackedIsHeld, Alive

LEMMA RequestKeepsTracking ==
  ASSUME OneStart, IInv, Chain, Undisturbed, Undisturbed', Tracking,
         NEW c \in Calls, Request(c)
  PROVE  Tracking'
<1> USE DEF Goto, service, procs, disk
<1>0. c \in Coroutines /\ c \notin Proc BY CallsAreNotProcesses DEF Coroutines
<1>1. CASE StartRoute(c)
  <2>1. running = NoProc /\ c \in StartCalls BY <1>1 DEF StartRoute, OneStart, Chain
  <2>2. UNCHANGED <<running, stopFlag, proc, target>>
    BY <1>1, <2>1 DEF StartRoute, Replace, BeginStart
  <2>3. pc[c] = "idle" /\ \A d \in Coroutines \ {c} : pc'[d] = pc[d]
    BY <1>0, <1>1, <2>1 DEF StartRoute, Replace, BeginStart, IInv, TypeOK
  <2> QED BY <1>0, <2>2, <2>3, AsideKeepsTracking DEF Coroutines
<1>2. CASE StopRoute(c)
  <2>1. c \in StopCalls /\ pc[c] = "idle" /\ \A d \in Coroutines \ {c} : pc'[d] = pc[d]
    BY <1>0, <1>2 DEF StopRoute, BeginStop, IInv, TypeOK
  <2>2. pc'[c] \in {"idle", "refused"} BY <2>1 DEF Undisturbed
  <2>3. UNCHANGED <<running, stopFlag, proc, target>>
    BY <1>0, <1>2, <2>2 DEF StopRoute, BeginStop, IInv, TypeOK
  <2> QED BY <1>0, <2>1, <2>3, AsideKeepsTracking DEF Coroutines
<1>3. CASE DoneRoute(c)
  <2>1. /\ pc[c] = "idle" /\ \A d \in Coroutines \ {c} : pc'[d] = pc[d]
        /\ UNCHANGED <<running, stopFlag, proc, target>>
    BY <1>0, <1>3 DEF DoneRoute, IInv, TypeOK
  <2> QED BY <1>0, <2>1, AsideKeepsTracking DEF Coroutines
<1> QED BY <1>1, <1>2, <1>3 DEF Request, OneStart, ApproveRoute, ChangesRoute

\* The coroutine at work goes on while no process is alive; it drops what is tracked, or
\* keeps it in its hands.
LEMMA PassOn ==
  ASSUME OneStart, IInv, Bounded, Undisturbed, Tracking, NEW c \in AtWork, pc[c] # "attach",
         stopFlag' = stopFlag,
         \A p \in Proc : ~Alive(p)',
         running' = NoProc \/ (running' = running /\ pc'[c] \in Held)
  PROVE  Tracking'
<1>1. LiveIsTracked' BY DEF LiveIsTracked
<1>2. TrackedIsHeld'
  <2> SUFFICES ASSUME NEW p \in Proc, running' = p PROVE pc'[p] \in Held
    BY DEF TrackedIsHeld
  <2>1. running = p /\ pc'[c] \in Held BY NoProcIsNoProcess
  <2>2. ~Attaching(p)
    BY OneAtWork DEF Attaching, AtWork, Active, Finished, IInv, Roles
  <2>3. pc[p] \in Held BY <2>1, <2>2 DEF Tracking, TrackedIsHeld
  <2>4. p \in AtWork
    BY <2>3, CallsAreNotProcesses DEF AtWork, Active, Finished, Held, Coroutines, Calls
  <2>5. p = c BY <2>4, OneAtWork
  <2> QED BY <2>1, <2>5
<1> QED BY <1>1, <1>2 DEF Tracking

LEMMA ProceedKeepsTracking ==
  ASSUME OneStart, IInv, Bounded, Chain, Undisturbed, Tracking,
         NEW c \in Coroutines, Proceed(c)
  PROVE  Tracking'
<1> USE DEF Goto, service, procs, disk, AtWork, Active, Finished
<1>1. CASE ResolveToken(c) \/ SpawnFails(c)
  <2>1. /\ pc[c] \in {"token", "spawn"} /\ running = NoProc
        /\ UNCHANGED <<running, stopFlag, proc>>
    BY <1>1 DEF ResolveToken, SpawnFails, Chain, SpawnsAlone
  <2>2. c \in AtWork BY <2>1 DEF IInv, Roles
  <2>3. \A p \in Proc : ~Alive(p)' BY <2>1, <2>2, NobodyLives DEF Alive
  <2> QED BY <2>1, <2>2, <2>3, PassOn
<1>2. CASE Spawn(c)
  <2>0. PICK q \in Proc : NewProcess(q, want[c], NoProc) /\ target' = [target EXCEPT ![c] = q]
    BY <1>2 DEF Spawn
  <2>1. pc[c] = "spawn" /\ pc'[c] = "attach" /\ target'[c] = q
    BY <1>2, <2>0 DEF Spawn, IInv, TypeOK
  <2>2. c \in AtWork BY <2>1 DEF IInv, Roles
  <2>3. \A p \in Proc : ~Alive(p) BY <2>1, <2>2, NobodyLives
  <2>4. (\A p \in Proc : Alive(p)' => p = q) /\ running' = q
    BY <2>0, <2>3 DEF NewProcess, Alive, IInv, TypeOK
  <2>5. Attaching(q)' BY <2>1 DEF Attaching
  <2>6. stopFlag' = stopFlag BY <1>2 DEF Spawn
  <2> QED BY <2>4, <2>5, <2>6 DEF Tracking, LiveIsTracked, TrackedIsHeld
<1>3. CASE Attach(c)
  <2>1. /\ pc[c] = "attach" /\ target[c] \in Proc /\ target[c] \in Coroutines
        /\ pc[target[c]] = "idle"
    BY <1>3 DEF Attach, IInv, AttachIsExclusive, Coroutines
  <2>2. /\ pc'[target[c]] = "wait" /\ UNCHANGED <<running, stopFlag, proc>>
    BY <1>3, <2>1 DEF Attach, IInv, TypeOK
  <2>3. c \in AtWork BY <2>1 DEF IInv, Roles
  <2>4. \A p \in Proc : running = p => p = target[c]
    <3> SUFFICES ASSUME NEW p \in Proc, running = p PROVE p = target[c] OBVIOUS
    <3>1. CASE Attaching(p)
      BY <2>3, <3>1, OneAtWork DEF Attaching, IInv, Roles
    <3>2. CASE pc[p] \in Held
      <4>1. p \in AtWork BY <3>2, CallsAreNotProcesses DEF Held, Coroutines, Calls
      <4> QED BY <2>1, <2>3, <3>2, <4>1, OneAtWork DEF Held
    <3> QED BY <3>1, <3>2 DEF Tracking, TrackedIsHeld
  <2> QED BY <2>2, <2>4 DEF Tracking, LiveIsTracked, TrackedIsHeld, Alive, Held
<1>4. ~(StopObservesExit(c) \/ StopDropsTracking(c) \/ StopReturns(c) \/ ResumeRoute(c))
  BY DEF StopObservesExit, StopDropsTracking, StopReturns, ResumeRoute, Chain, Undisturbed
<1> QED BY <1>1, <1>2, <1>3, <1>4 DEF Proceed

\* A monitor's step.  None defers to a stop.
LEMMA MonitorKeepsTracking ==
  ASSUME OneStart, IInv, Bounded, Chain, Undisturbed, Tracking, NEW p \in Proc, Monitor(p)
  PROVE  Tracking'
<1> USE DEF Goto, service, procs, disk
<1>0. p \in Coroutines /\ p \notin StopCalls
  BY CallsAreNotProcesses DEF Coroutines, Calls
<1>1. pc[p] \notin {"idle", "attach"} \cup Finished
  BY DEF Monitor, ObserveExit, DecideFallback, AwaitReview, StartBuild, DecideFailover,
     Respawn, RespawnFails, DeferToStop, Continue, Conclude, Cleanup, Settling, BuildExited,
     AtExit, Finished
<1>2. p \in AtWork BY <1>0, <1>1 DEF AtWork, Active
<1>3. \A r \in Proc : ~Alive(r)
  <2>1. pc[p] \notin {"wait", "terminating"} \/ ~Alive(p)
    BY DEF Monitor, ObserveExit, DecideFallback, AwaitReview, StartBuild, DecideFailover,
       Respawn, RespawnFails, DeferToStop, Continue, Conclude, Cleanup, Settling, BuildExited,
       AtExit, Exited, Alive
  <2> QED BY <1>1, <1>2, <2>1, NobodyLives
<1>4. CASE Respawn(p)
  <2>0. PICK q \in Proc : /\ NewProcess(q, kind[p], p)
                          /\ pc' = [pc EXCEPT ![p] = "done", ![q] = "wait"]
    BY <1>4 DEF Respawn
  <2>1. (\A r \in Proc : Alive(r)' => r = q) /\ running' = q
    BY <1>3, <2>0 DEF NewProcess, Alive, IInv, TypeOK
  <2>2. pc'[q] = "wait" BY <2>0 DEF IInv, TypeOK, Coroutines
  <2>3. stopFlag' = stopFlag BY <1>4 DEF Respawn
  <2> QED BY <2>1, <2>2, <2>3 DEF Tracking, LiveIsTracked, TrackedIsHeld, Held
<1>5. CASE ~Respawn(p)
  <2>1. ~DeferToStop(p) BY DEF DeferToStop, Tracking
  <2>2. \A r \in Proc : ~Alive(r)'
    BY <1>3, <1>5 DEF Monitor, ObserveExit, DecideFallback, AwaitReview, StartBuild,
       DecideFailover, RespawnFails, DeferToStop, Continue, Conclude, Cleanup, Alive, IInv, TypeOK
  <2>3. stopFlag' = stopFlag
    BY <1>5, <2>1 DEF Monitor, ObserveExit, DecideFallback, AwaitReview, StartBuild,
       DecideFailover, RespawnFails, Continue, Conclude, Cleanup
  <2>4. running' = NoProc \/ (running' = running /\ pc'[p] \in Held)
    BY <1>0, <1>5, <2>1 DEF Monitor, ObserveExit, DecideFallback, AwaitReview, StartBuild,
       DecideFailover, RespawnFails, Continue, Conclude, Cleanup, DropTracking,
       Held, IInv, TypeOK
  <2> QED BY <1>1, <1>2, <2>2, <2>3, <2>4, PassOn
<1> QED BY <1>4, <1>5

LEMMA TickAgentKeepsTracking ==
  ASSUME IInv, Undisturbed, Tracking, NEW p \in Proc, Tick(p) \/ Agent(p)
  PROVE  Tracking'
<1> USE DEF Goto, service, procs, disk
<1>0. p \in Coroutines BY DEF Coroutines
<1>1. UNCHANGED <<running, stopFlag, target>>
  BY DEF Tick, Agent, SeeCheckpoint, ForceRestart, BlockAtGate, WritePlan, WorkOnPlan, Exit
<1>2. \A r \in Proc : Alive(r)' => Alive(r)
  BY DEF Tick, Agent, SeeCheckpoint, ForceRestart, BlockAtGate, WritePlan, WorkOnPlan, Exit,
     Alive, IInv, TypeOK
<1>3. \A d \in Coroutines :
        pc'[d] = pc[d] \/ (d = p /\ pc[d] = "wait" /\ pc'[d] = "terminating")
  BY <1>0 DEF Tick, Agent, SeeCheckpoint, ForceRestart, BlockAtGate, WritePlan, WorkOnPlan,
     Exit, IInv, TypeOK
<1>4. \A r \in Proc : Attaching(r) => Attaching(r)' BY <1>1, <1>3 DEF Attaching
<1> QED BY <1>1, <1>2, <1>3, <1>4
        DEF Tracking, LiveIsTracked, TrackedIsHeld, Held, Coroutines

LEMMA TrackingInductive ==
  ASSUME OneStart
  PROVE  Spec => []Tracking
<1>1. Init => Tracking
  BY NoProcIsNoProcess DEF Init, Tracking, LiveIsTracked, TrackedIsHeld, Alive
<1>2. IInv /\ Bounded /\ Chain /\ Tracking /\ [Next]_vars => Tracking'
  <2> SUFFICES ASSUME IInv, Bounded, Chain, Tracking, [Next]_vars, Undisturbed'
               PROVE  Tracking'
    BY DEF Tracking
  <2>0. Undisturbed BY UndisturbedBefore
  <2>1. CASE UNCHANGED vars
    BY <2>1 DEF vars, service, procs, disk, Tracking, Undisturbed, LiveIsTracked,
       TrackedIsHeld, Attaching, Alive
  <2> QED BY <2>0, <2>1, RequestKeepsTracking, ProceedKeepsTracking, MonitorKeepsTracking,
             TickAgentKeepsTracking DEF Next
<1> QED BY <1>1, <1>2, Inductive, BoundedInductive, ChainInductive, PTL DEF Spec

\* While nobody has stopped a task started once, running_tasks names the agent that runs,
\* and never a process whose monitor has ended: a stop would find it, and a start is not
\* refused for ever.
THEOREM TrackingExact ==
  ASSUME OneStart
  PROVE  Spec => []TrackingIsExact
<1>1. IInv /\ Tracking => TrackingIsExact
  <2> SUFFICES ASSUME IInv, Tracking, Undisturbed, running # NoProc
               PROVE  pc[running] \notin Finished
    BY DEF TrackingIsExact, TrackedIsOwned, Tracking
  <2>1. running \in Proc BY DEF IInv, TypeOK
  <2>2. CASE Attaching(running)
    BY <2>2 DEF Attaching, IInv, AttachIsExclusive, Finished
  <2>3. CASE pc[running] \in Held BY <2>3 DEF Held, Finished
  <2> QED BY <2>1, <2>2, <2>3 DEF Tracking, TrackedIsHeld
<1> QED BY <1>1, Inductive, TrackingInductive, PTL

-----------------------------------------------------------------------------
\* What the board shows in the end

Outcomes == {"plan_review", "completed", "errors", "done"}

\* No coroutine is at work but one that has reported and cleans up.
Resting == \A c \in AtWork : pc[c] = "cleanup"

\* The outcome is written no later than the last coroutine turns to its cleanup.
OutcomeIsShown ==
  /\ Undisturbed /\ Resting /\ plan.valid
  /\ \E c \in StartCalls : pc[c] = "done"
  /\ \A p \in Proc : pc[p] # "crashed"
  => plan.status \in Outcomes

\* A status that is due is set, or the task is done.
LEMMA OutcomeWritten ==
  ASSUME TypeOK, NEW s \in Outcomes, UpdatePlanStatus(s)
  PROVE  plan'.valid => plan'.status \in Outcomes
<1>1. plan \in Plans BY DEF TypeOK
<1>2. CASE plan.valid /\ plan.status # "done"
  <2>1. plan' = [plan EXCEPT !.status = s] BY <1>2 DEF UpdatePlanStatus
  <2> QED BY <1>1, <2>1 DEF Plans
<1>3. CASE ~(plan.valid /\ plan.status # "done")
  <2>1. plan' = plan BY <1>3 DEF UpdatePlanStatus
  <2> QED BY <1>3, <2>1 DEF Outcomes
<1> QED BY <1>2, <1>3

\* While a process is alive its monitor is not at rest, or is not created yet.
LEMMA LiveIsNoRest == ASSUME IInv, NEW p \in Proc, Alive(p) PROVE ~Resting
<1>1. CASE pc[p] \in {"wait", "terminating"}
  BY <1>1, CallsAreNotProcesses DEF Resting, AtWork, Active, Finished, Coroutines, Calls
<1>2. CASE Attaching(p)
  BY <1>2 DEF Attaching, Resting, AtWork, Active, Finished, IInv, Roles
<1> QED BY <1>1, <1>2 DEF IInv, EveryProcessIsWatched

\* The only start was refused, or is under way; accepting the task settles it.
LEMMA RequestShowsOutcome ==
  ASSUME OneStart, IInv, Chain, Undisturbed, Undisturbed', OutcomeIsShown,
         NEW c \in Calls, Request(c)
  PROVE  OutcomeIsShown'
<1> USE CallsAreNotProcesses DEF Coroutines, Goto, Finished, service, procs, disk
<1>0. c \in Coroutines /\ c \notin Proc OBVIOUS
<1>1. CASE StartRoute(c)
  <2>1. c \in StartCalls /\ running = NoProc
    BY <1>1 DEF StartRoute, OneStart, Chain
  <2>2. pc' \in {[pc EXCEPT ![c] = "token"], [pc EXCEPT ![c] = "refused"]}
    BY <1>1, <2>1 DEF StartRoute, Replace, BeginStart
  <2>3. pc'[c] \in {"token", "refused"} BY <1>0, <2>2 DEF IInv, TypeOK
  <2>4. \A d \in StartCalls : pc'[d] # "done" BY <2>1, <2>3 DEF OneStart
  <2> QED BY <2>4 DEF OutcomeIsShown
<1>2. CASE DoneRoute(c)
  <2>1. plan'.valid => plan'.status = "done"
    <3>1. plan \in Plans
      BY DEF IInv, TypeOK, Plans
    <3>2. CASE plan.valid
      <4>1. plan' = [plan EXCEPT !.status = "done"] BY <1>2, <3>2 DEF DoneRoute
      <4> QED BY <3>1, <4>1 DEF Plans
    <3>3. CASE ~plan.valid BY <1>2, <3>3 DEF DoneRoute
    <3> QED BY <3>2, <3>3
  <2> QED BY <2>1 DEF OutcomeIsShown, Outcomes
<1>3. CASE StopRoute(c)
  <2>1. c \in StopCalls /\ pc[c] = "idle" /\ \A d \in Coroutines \ {c} : pc'[d] = pc[d]
    BY <1>0, <1>3 DEF StopRoute, BeginStop, IInv, TypeOK
  <2>2. plan' = plan BY <1>3 DEF StopRoute
  <2>3. \A d \in Coroutines \ StopCalls : pc'[d] = pc[d] BY <2>1
  <2>4. AtWork' = AtWork BY <2>3 DEF AtWork, Active
  <2>5. \A d \in StartCalls \cup Proc : d \in Coroutines \ StopCalls
    BY CallsAreDisjoint DEF Calls
  <2>6. Resting' => Resting BY <2>3, <2>4 DEF Resting, AtWork
  <2> QED BY <2>2, <2>3, <2>5, <2>6 DEF OutcomeIsShown
<1> QED BY <1>1, <1>2, <1>3 DEF Request, OneStart, ApproveRoute, ChangesRoute

\* A start goes on, or fails: a request with its error, a monitor with a status.
LEMMA ProceedShowsOutcome ==
  ASSUME OneStart, IInv, Chain, Undisturbed, OutcomeIsShown, NEW c \in Coroutines, Proceed(c)
  PROVE  OutcomeIsShown'
<1> USE DEF Goto, service, procs, disk, AtWork, Active, Finished
<1>1. CASE ResolveToken(c) \/ Spawn(c)
  <2>1. c \notin StopCalls BY <1>1 DEF ResolveToken, Spawn, IInv, Roles
  <2>2. pc'[c] \in {"spawn", "attach"} BY <1>1 DEF ResolveToken, Spawn, IInv, TypeOK
  <2>3. ~Resting' BY <2>1, <2>2 DEF Resting
  <2> QED BY <2>3 DEF OutcomeIsShown
<1>2. CASE Attach(c)
  <2>1. target[c] \in Proc /\ target[c] \in Coroutines \ StopCalls
    BY <1>2, CallsAreNotProcesses DEF Attach, IInv, AttachIsExclusive, Coroutines, Calls
  <2>2. pc'[target[c]] = "wait" BY <1>2, <2>1 DEF Attach, IInv, TypeOK
  <2>3. ~Resting' BY <2>1, <2>2 DEF Resting
  <2> QED BY <2>3 DEF OutcomeIsShown
<1>3. CASE SpawnFails(c)
  <2>1. CASE c \in Calls
    <3>1. c \in StartCalls BY <1>3, <2>1 DEF SpawnFails, OneStart, Calls, IInv, Roles
    <3>2. pc'[c] = "failed" BY <1>3, <2>1 DEF SpawnFails, IInv, TypeOK
    <3>3. \A d \in StartCalls : pc'[d] # "done" BY <3>1, <3>2 DEF OneStart
    <3> QED BY <3>3 DEF OutcomeIsShown
  <2>2. CASE c \notin Calls
    <3>1. UpdatePlanStatus("completed") BY <1>3, <2>2 DEF SpawnFails
    <3>2. plan'.valid => plan'.status \in Outcomes
      BY <3>1, OutcomeWritten DEF Outcomes, IInv
    <3> QED BY <3>2 DEF OutcomeIsShown
  <2> QED BY <2>1, <2>2
<1>4. ~(StopObservesExit(c) \/ StopDropsTracking(c) \/ StopReturns(c) \/ ResumeRoute(c))
  BY DEF StopObservesExit, StopDropsTracking, StopReturns, ResumeRoute, Chain, Undisturbed
<1> QED BY <1>1, <1>2, <1>3, <1>4 DEF Proceed

\* A monitor writes the outcome and cleans up, goes on with the task, or crashes.
LEMMA MonitorShowsOutcome ==
  ASSUME OneStart, IInv, Bounded, Undisturbed, Tracking, OutcomeIsShown,
         NEW p \in Proc, Monitor(p)
  PROVE  OutcomeIsShown'
<1> USE DEF Goto, service, procs, disk
<1>0. /\ p \in Coroutines \ StopCalls
      /\ \A d \in StartCalls : d \in Coroutines /\ d \notin Proc
  BY CallsAreNotProcesses DEF Coroutines, Calls
<1>1. CASE ObserveExit(p) \/ DecideFallback(p) \/ StartBuild(p) \/ DecideFailover(p)
           \/ Continue(p)
  <2>1. pc'[p] \in {"exited", "fallback", "token", "failover"}
    BY <1>0, <1>1 DEF ObserveExit, DecideFallback, StartBuild, DecideFailover, Continue,
       IInv, TypeOK
  <2>2. ~Resting' BY <1>0, <2>1 DEF Resting, AtWork, Active, Finished
  <2> QED BY <2>2 DEF OutcomeIsShown
<1>2. CASE Respawn(p)
  <2>1. PICK q \in Proc : pc' = [pc EXCEPT ![p] = "done", ![q] = "wait"]
    BY <1>2 DEF Respawn
  <2>2. q \in Coroutines \ StopCalls /\ pc'[q] = "wait"
    BY <2>1, CallsAreNotProcesses DEF Coroutines, Calls, IInv, TypeOK
  <2>3. ~Resting' BY <2>2 DEF Resting, AtWork, Active, Finished
  <2> QED BY <2>3 DEF OutcomeIsShown
<1>3. CASE RespawnFails(p)
  <2>1. pc'[p] = "crashed" BY <1>0, <1>3 DEF RespawnFails, IInv, TypeOK
  <2> QED BY <2>1 DEF OutcomeIsShown
<1>4. CASE AwaitReview(p) \/ Conclude(p)
  <2>1. \E s \in Outcomes : UpdatePlanStatus(s)
    BY <1>4 DEF AwaitReview, Conclude, Outcomes
  <2>2. plan'.valid => plan'.status \in Outcomes BY <2>1, OutcomeWritten DEF IInv
  <2> QED BY <2>2 DEF OutcomeIsShown
<1>5. CASE Cleanup(p)
  <2>1. /\ pc[p] = "cleanup" /\ plan' = plan /\ pc'[p] = "done"
        /\ \A d \in Coroutines \ {p} : pc'[d] = pc[d]
    BY <1>0, <1>5 DEF Cleanup, IInv, TypeOK
  <2>2. p \in AtWork BY <1>0, <2>1 DEF AtWork, Active, Finished
  <2>3. Resting BY <2>1, <2>2, OneAtWork DEF Resting
  <2>4. \A d \in StartCalls : pc'[d] = pc[d] BY <1>0, <2>1
  <2>5. \A q \in Proc : pc'[q] # "crashed" => pc[q] # "crashed"
    BY <2>1 DEF Coroutines
  <2> QED BY <2>1, <2>3, <2>4, <2>5 DEF OutcomeIsShown
<1>6. ~DeferToStop(p) BY DEF DeferToStop, Tracking
<1> QED BY <1>1, <1>2, <1>3, <1>4, <1>5, <1>6 DEF Monitor

\* While processes and their ticks go on the task is not at rest.
LEMMA TickAgentShowsOutcome ==
  ASSUME IInv, OutcomeIsShown, NEW p \in Proc, Tick(p) \/ Agent(p)
  PROVE  OutcomeIsShown'
<1> USE DEF Goto, service, procs, disk
<1>0. p \in Coroutines BY DEF Coroutines
<1>1. Alive(p)
  BY DEF Tick, Agent, SeeCheckpoint, ForceRestart, BlockAtGate, WritePlan, WorkOnPlan, Exit
<1>2. \A d \in Coroutines :
        pc'[d] = pc[d] \/ (d = p /\ pc[d] = "wait" /\ pc'[d] = "terminating")
  BY <1>0 DEF Tick, Agent, SeeCheckpoint, ForceRestart, BlockAtGate, WritePlan, WorkOnPlan,
     Exit, IInv, TypeOK
<1>3. ~Resting BY <1>1, LiveIsNoRest
<1>4. ~Resting' BY <1>2, <1>3 DEF Resting, AtWork, Active, Finished
<1> QED BY <1>4 DEF OutcomeIsShown

\* A task started once shows an outcome when all is over, if nobody has stopped it, unless
\* it ended before there was a plan to hold the outcome, or a retry could not be spawned.
THEOREM SettledOnce ==
  ASSUME OneStart
  PROVE  Spec => []QuietIsSettled
<1>1. Init => OutcomeIsShown
  BY DEF Init, OutcomeIsShown, Coroutines, Calls
<1>2. IInv /\ Bounded /\ Chain /\ Tracking /\ OutcomeIsShown /\ [Next]_vars => OutcomeIsShown'
  <2> SUFFICES ASSUME IInv, Bounded, Chain, Tracking, OutcomeIsShown, [Next]_vars, Undisturbed'
               PROVE  OutcomeIsShown'
    BY DEF OutcomeIsShown
  <2>0. Undisturbed BY UndisturbedBefore
  <2>1. CASE UNCHANGED vars
    BY <2>1 DEF vars, disk, OutcomeIsShown, Undisturbed, Resting, AtWork, Active
  <2> QED BY <2>0, <2>1, RequestShowsOutcome, ProceedShowsOutcome, MonitorShowsOutcome,
             TickAgentShowsOutcome DEF Next
<1>3. OutcomeIsShown => QuietIsSettled
  BY DEF OutcomeIsShown, QuietIsSettled, Unplanned, RetryCrashed, Quiet, Resting, AtWork,
         Active, Outcomes
<1> QED BY <1>1, <1>2, <1>3, Inductive, BoundedInductive, ChainInductive, TrackingInductive, PTL
        DEF Spec

-----------------------------------------------------------------------------
\* What a stop ends

PlainBuilds == \A p \in Proc : kind[p] # "spec" /\ retryOf[p] = NoProc

Engaged == \E c \in StopCalls : pc[c] \in {"stopping", "popping", "stopped", "done"}

\* Once a stop has taken hold, what is at work will see its mark or is about to end, so that
\* nothing is spawned any more; and the process the stop waits for is the live one.
StopHolds ==
  /\ LiveIsTracked
  /\ Engaged => \A w \in AtWork :
       \/ pc[w] = "cleanup"
       \/ stopFlag /\ pc[w] \in {"attach", "wait", "terminating", "exited", "fallback", "failover"}
  /\ \A c \in StopCalls :
       /\ pc[c] \in {"popping", "stopped", "done"} => \A p \in Proc : ~Alive(p)
       /\ pc[c] = "stopping" => \A p \in Proc : Alive(p) => target[c] = p

UnusedIsPlain == \A p \in Proc : ~Used(p) => kind[p] = "exec"

StopInv ==
  /\ UnusedIsPlain
  /\ (\A s \in StartCalls : pc[s] = "idle") => Undisturbed
  /\ PlainBuilds => StopHolds

\* The kind of a process and the run it retries are given to it once.
LEMMA KindShape ==
  ASSUME IInv, [Next]_vars
  PROVE  \/ kind' = kind /\ retryOf' = retryOf /\ \A p \in Proc : Used(p)' <=> Used(p)
         \/ \E q \in Proc, k \in Kinds, r \in Proc \cup {NoProc} : NewProcess(q, k, r)
<1> USE DEF procs, service, Goto
<1>1. CASE \E c \in Coroutines : Spawn(c)
  BY <1>1, NoProcIsNoProcess DEF Spawn, IInv, TypeOK
<1>2. CASE \E p \in Proc : Respawn(p)
  BY <1>2 DEF Respawn, IInv, TypeOK
<1>3. CASE \E c \in Coroutines : Attach(c)
  BY <1>3 DEF Attach, Used
<1>4. CASE (\E c \in Coroutines : Moves(c)) \/ Stays
  <2>1. retryOf' = retryOf /\ \A p \in Proc : Used(p)' <=> Used(p)
    BY <1>4 DEF Moves, Stays
  <2>2. kind' = kind \/ (\E c \in Coroutines : Spawn(c)) \/ (\E p \in Proc : Respawn(p))
    BY DEF Next, vars, Request, StartRoute, StopRoute, ApproveRoute, ChangesRoute, DoneRoute,
       Proceed, ResolveToken, SpawnFails, Attach, StopObservesExit, StopDropsTracking,
       StopReturns, ResumeRoute, Monitor, ObserveExit, DecideFallback, AwaitReview, StartBuild,
       DecideFailover, RespawnFails, DeferToStop, Continue, Conclude, Cleanup,
       Tick, Agent, SeeCheckpoint, ForceRestart, BlockAtGate, WritePlan, WorkOnPlan, Exit
  <2> QED BY <1>1, <1>2, <2>1, <2>2
<1> QED BY <1>1, <1>2, <1>3, <1>4, StepShape DEF IInv

LEMMA PlainBefore ==
  ASSUME IInv, UnusedIsPlain, [Next]_vars
  PROVE  UnusedIsPlain' /\ (PlainBuilds' => PlainBuilds)
<1>1. CASE /\ kind' = kind /\ retryOf' = retryOf
           /\ \A p \in Proc : Used(p)' <=> Used(p)
  BY <1>1 DEF UnusedIsPlain, PlainBuilds
<1>2. ASSUME NEW q \in Proc, NEW k \in Kinds, NEW r \in Proc \cup {NoProc}, NewProcess(q, k, r)
      PROVE  UnusedIsPlain' /\ (PlainBuilds' => PlainBuilds)
  <2>1. /\ kind[q] = "exec" /\ retryOf[q] = NoProc /\ Used(q)'
        /\ \A p \in Proc \ {q} :
             kind'[p] = kind[p] /\ retryOf'[p] = retryOf[p] /\ (Used(p)' <=> Used(p))
    BY <1>2 DEF NewProcess, Fresh, Used, UnusedIsPlain, IInv, UnusedIsBlank, TypeOK
  <2> QED BY <2>1 DEF UnusedIsPlain, PlainBuilds
<1> QED BY <1>1, <1>2, KindShape

\* The coroutine at work goes on, without a process, to what a stop allows.
LEMMA WorkerLetsStop ==
  ASSUME OneStart, IInv, Bounded, StopHolds, NEW c \in AtWork,
         \A d \in Coroutines \ {c} : pc'[d] = pc[d],
         \A p \in Proc : ~Alive(p)',
         Engaged => \/ ~Active(c)' \/ pc'[c] = "cleanup"
                    \/ /\ stopFlag' = stopFlag /\ pc[c] # "cleanup"
                       /\ pc'[c] \in {"exited", "fallback", "failover"}
  PROVE  StopHolds'
<1>1. \A d \in StopCalls : d \in Coroutines /\ d # c /\ pc'[d] = pc[d]
  BY DEF AtWork, Coroutines, Calls
<1>2. Engaged' <=> Engaged BY <1>1 DEF Engaged
<1>3. \A w \in AtWork' : w = c /\ Active(c)'
  BY OneAtWork DEF AtWork, Active
<1>4. LiveIsTracked' BY DEF LiveIsTracked
<1>5. ASSUME Engaged, NEW w \in AtWork'
      PROVE  \/ pc'[w] = "cleanup"
             \/ stopFlag' /\ pc'[w] \in {"attach", "wait", "terminating", "exited", "fallback", "failover"}
  <2>1. w = c /\ Active(c)' BY <1>3, <1>5
  <2>2. pc[c] = "cleanup" \/ stopFlag BY <1>5 DEF StopHolds
  <2> QED BY <1>5, <2>1, <2>2
<1> QED BY <1>1, <1>2, <1>4, <1>5 DEF StopHolds

\* A request: the start comes before any stop; a stop takes hold of the live process.
LEMMA RequestLetsStop ==
  ASSUME OneStart, IInv, Bounded, Chain, StopInv, StopHolds, NEW c \in Calls, Request(c)
  PROVE  StopHolds'
<1> USE DEF Goto, service, procs, disk
<1>0. c \in Coroutines BY DEF Coroutines
<1>1. CASE StartRoute(c)
  <2>1. /\ running = NoProc /\ c \in StartCalls /\ c \notin StopCalls
        /\ \A s \in StartCalls : pc[s] = "idle"
    BY <1>1, CallsAreDisjoint DEF StartRoute, OneStart, Chain
  <2>2. UNCHANGED <<running, stopFlag, proc, target>>
    BY <1>1, <2>1 DEF StartRoute, Replace, BeginStart
  <2>3. \A d \in Coroutines \ {c} : pc'[d] = pc[d]
    BY <1>0, <1>1, <2>1 DEF StartRoute, Replace, BeginStart, IInv, TypeOK
  <2>4. \A d \in StopCalls : pc'[d] = pc[d] /\ pc[d] \in {"idle", "refused"}
    BY <2>1, <2>3 DEF StopInv, Undisturbed, Coroutines, Calls
  <2> QED BY <2>2, <2>4 DEF StopHolds, Engaged, LiveIsTracked, Alive
<1>2. CASE StopRoute(c)
  <2>1. /\ c \in StopCalls /\ pc[c] = "idle" /\ UNCHANGED <<running, proc>>
        /\ \A d \in Coroutines \ {c} : pc'[d] = pc[d] /\ target'[d] = target[d]
        /\ pc'[c] \in {"refused", "failed"} => stopFlag' = TRUE \/ stopFlag' = stopFlag
        /\ pc'[c] \in {"refused", "failed", "stopping"}
        /\ pc'[c] = "stopping" =>
             stopFlag' = TRUE /\ target'[c] = running /\ running # NoProc
    BY <1>0, <1>2 DEF StopRoute, BeginStop, IInv, TypeOK
  <2>2. AtWork' = AtWork /\ \A w \in AtWork : pc'[w] = pc[w]
    BY <2>1 DEF AtWork, Active
  <2>3. LiveIsTracked' BY <2>1 DEF StopHolds, LiveIsTracked, Alive
  <2>4. \A d \in StopCalls : d \in Coroutines BY DEF Coroutines, Calls
  <2>5. ASSUME NEW d \in StopCalls
        PROVE  /\ pc'[d] \in {"popping", "stopped", "done"} => \A p \in Proc : ~Alive(p)'
               /\ pc'[d] = "stopping" => \A p \in Proc : Alive(p)' => target'[d] = p
    <3>1. CASE d = c BY <2>1, <3>1 DEF StopHolds, LiveIsTracked, Alive
    <3>2. CASE d # c BY <2>1, <2>4, <3>2 DEF StopHolds, Alive
    <3> QED BY <3>1, <3>2
  <2>6. ASSUME Engaged', NEW w \in AtWork
        PROVE  \/ pc[w] = "cleanup"
               \/ stopFlag' /\ pc[w] \in {"attach", "wait", "terminating", "exited", "fallback", "failover"}
    <3>1. CASE pc'[c] = "stopping"
      <4>1. running # NoProc /\ stopFlag' = TRUE BY <2>1, <3>1
      <4>2. pc[w] \notin {"token", "spawn", "resume", "stopping", "popping", "stopped", "idle"}
        BY <4>1 DEF Chain, SpawnsAlone, AtWork, Active
      <4>3. pc[w] \in PCs \ Finished BY DEF AtWork, Active, IInv, TypeOK
      <4> QED BY <4>1, <4>2, <4>3 DEF PCs
    <3>2. CASE pc'[c] # "stopping"
      <4>1. Engaged BY <2>1, <2>4, <2>6, <3>2 DEF Engaged
      <4> QED BY <2>1, <4>1, <3>2 DEF StopHolds
    <3> QED BY <3>1, <3>2
  <2> QED BY <2>2, <2>3, <2>5, <2>6 DEF StopHolds
<1>3. CASE DoneRoute(c)
  <2>1. /\ pc[c] = "idle" /\ pc'[c] = "done" /\ c \notin StopCalls
        /\ \A d \in Coroutines \ {c} : pc'[d] = pc[d]
        /\ UNCHANGED <<running, stopFlag, proc, target>>
    BY <1>0, <1>3, CallsAreDisjoint DEF DoneRoute, IInv, TypeOK
  <2>2. AtWork' = AtWork /\ \A w \in AtWork : pc'[w] = pc[w]
    BY <2>1 DEF AtWork, Active, Finished
  <2>3. \A d \in StopCalls : pc'[d] = pc[d] BY <2>1 DEF Coroutines, Calls
  <2> QED BY <2>1, <2>2, <2>3 DEF StopHolds, Engaged, LiveIsTracked, Alive
<1> QED BY <1>1, <1>2, <1>3 DEF Request, OneStart, ApproveRoute, ChangesRoute

\* A start that has not spawned runs only while no stop has taken hold.
LEMMA ProceedLetsStop ==
  ASSUME OneStart, IInv, Bounded, Chain, StopHolds, NEW c \in Coroutines, Proceed(c)
  PROVE  StopHolds'
<1> USE DEF Goto, service, procs, disk
<1>0. \A d \in StopCalls : d \in Coroutines /\ d \notin Proc
  BY CallsAreNotProcesses DEF Coroutines, Calls
<1>1. CASE ResolveToken(c) \/ Spawn(c) \/ SpawnFails(c)
  <2>1. /\ pc[c] \in {"token", "spawn"}
        /\ \A d \in Coroutines \ {c} : pc'[d] = pc[d]
    BY <1>1 DEF ResolveToken, Spawn, SpawnFails, IInv, TypeOK
  <2>2. c \in AtWork BY <2>1 DEF AtWork, Active, Finished, IInv, Roles
  <2>3. ~Engaged BY <2>1, <2>2 DEF StopHolds
  <2>4. \A p \in Proc : ~Alive(p) BY <2>1, <2>2, NobodyLives
  <2>5. ~Engaged' /\ \A d \in StopCalls : pc'[d] = pc[d]
    BY <1>0, <2>1, <2>2, <2>3 DEF Engaged, AtWork
  <2>6. LiveIsTracked'
    <3>1. CASE Spawn(c)
      <4>1. PICK q \in Proc : NewProcess(q, want[c], NoProc) BY <3>1 DEF Spawn
      <4> QED BY <2>4, <4>1 DEF NewProcess, LiveIsTracked, Alive, IInv, TypeOK
    <3>2. CASE ResolveToken(c) \/ SpawnFails(c)
      BY <2>4, <3>2 DEF ResolveToken, SpawnFails, LiveIsTracked, Alive
    <3> QED BY <1>1, <3>1, <3>2
  <2> QED BY <2>5, <2>6 DEF StopHolds, Engaged
<1>2. CASE Attach(c)
  <2>1. /\ pc[c] = "attach" /\ target[c] \in Proc /\ target[c] \in Coroutines \ StopCalls
        /\ pc[target[c]] = "idle"
    BY <1>0, <1>2 DEF Attach, IInv, AttachIsExclusive, Coroutines
  <2>2. /\ pc'[target[c]] = "wait" /\ pc'[c] = "done"
        /\ \A d \in Coroutines \ {c, target[c]} : pc'[d] = pc[d]
        /\ UNCHANGED <<running, stopFlag, proc>>
    BY <1>2, <2>1 DEF Attach, IInv, TypeOK
  <2>3. c \in AtWork BY <2>1 DEF AtWork, Active, Finished, IInv, Roles
  <2>4. \A d \in StopCalls : pc'[d] = pc[d] /\ target'[d] = target[d]
    BY <1>0, <1>2, <2>1, <2>2, <2>3 DEF AtWork, Attach, IInv, TypeOK
  <2>5. \A w \in AtWork' : w = target[c]
    BY <2>2, <2>3, OneAtWork DEF AtWork, Active, Finished
  <2>6. Engaged => stopFlag BY <2>1, <2>3 DEF StopHolds
  <2>7. Engaged' <=> Engaged BY <2>4 DEF Engaged
  <2> QED BY <2>2, <2>4, <2>5, <2>6, <2>7 DEF StopHolds, LiveIsTracked, Alive
<1>3. CASE StopObservesExit(c) \/ StopDropsTracking(c) \/ StopReturns(c) \/ ResumeRoute(c)
  <2>1. c \in StopCalls
    BY <1>3 DEF StopObservesExit, StopDropsTracking, StopReturns, ResumeRoute, Chain
  <2>2. ~ResumeRoute(c) BY <2>1 DEF ResumeRoute, IInv, Roles, Finished
  <2>3. /\ pc[c] \in {"stopping", "popping", "stopped"}
        /\ pc'[c] \in {"popping", "stopped", "done"}
        /\ \A d \in Coroutines \ {c} : pc'[d] = pc[d] /\ target'[d] = target[d]
        /\ UNCHANGED <<stopFlag, proc>>
        /\ running' \in {running, NoProc}
        /\ running' = NoProc => running = NoProc \/ pc[c] = "popping"
        /\ pc[c] = "stopping" => Exited(target[c])
    BY <1>3, <2>1, <2>2 DEF StopObservesExit, StopDropsTracking, StopReturns, DropTracking,
       IInv, TypeOK
  <2>4. \A p \in Proc : ~Alive(p)
    <3>1. CASE pc[c] = "stopping"
      BY <2>1, <2>3, <3>1 DEF StopHolds, Alive, Exited
    <3>2. CASE pc[c] # "stopping" BY <2>1, <2>3, <3>2 DEF StopHolds
    <3> QED BY <3>1, <3>2
  <2>5. \A p \in Proc : ~Alive(p)' BY <2>3, <2>4 DEF Alive
  <2>6. AtWork' = AtWork /\ \A w \in AtWork : pc'[w] = pc[w]
    BY <2>1, <2>3 DEF AtWork, Active
  <2>7. Engaged BY <2>1, <2>3 DEF Engaged
  <2> QED BY <2>3, <2>5, <2>6, <2>7 DEF StopHolds, LiveIsTracked
<1> QED BY <1>1, <1>2, <1>3 DEF Proceed

\* A monitor heeds the mark of a stop: neither a continuation nor a conclusion passes it,
\* and a plain build is followed by neither a build nor a retry.
LEMMA MonitorLetsStop ==
  ASSUME OneStart, IInv, Bounded, PlainBuilds, PlainBuilds', StopHolds,
         NEW p \in Proc, Monitor(p)
  PROVE  StopHolds'
<1> USE DEF Goto, service, procs, disk
<1>0. p \in Coroutines /\ p \notin StopCalls
  BY CallsAreNotProcesses DEF Coroutines, Calls
<1>1. pc[p] \notin {"idle", "attach"} \cup Finished
  BY DEF Monitor, ObserveExit, DecideFallback, AwaitReview, StartBuild, DecideFailover,
     Respawn, RespawnFails, DeferToStop, Continue, Conclude, Cleanup, Settling, BuildExited,
     AtExit, Finished
<1>2. p \in AtWork BY <1>0, <1>1 DEF AtWork, Active
<1>3. \A r \in Proc : ~Alive(r)
  <2>1. pc[p] \notin {"wait", "terminating"} \/ ~Alive(p)
    BY DEF Monitor, ObserveExit, DecideFallback, AwaitReview, StartBuild, DecideFailover,
       Respawn, RespawnFails, DeferToStop, Continue, Conclude, Cleanup, Settling, BuildExited,
       AtExit, Exited, Alive
  <2> QED BY <1>1, <1>2, <2>1, NobodyLives
<1>4. ~Respawn(p)
  <2> SUFFICES ASSUME Respawn(p) PROVE FALSE
    OBVIOUS
  <2>1. PICK q \in Proc : NewProcess(q, kind[p], p) BY DEF Respawn
  <2>2. retryOf'[q] = p BY <2>1 DEF NewProcess, IInv, TypeOK
  <2> QED BY <2>2, NoProcIsNoProcess DEF PlainBuilds
<1>5. ~StartBuild(p) BY DEF StartBuild, PlainBuilds
<1>6. \A r \in Proc : ~Alive(r)'
  BY <1>3, <1>4, <1>5 DEF Monitor, ObserveExit, DecideFallback, AwaitReview,
     DecideFailover, RespawnFails, DeferToStop, Continue, Conclude, Cleanup, Alive, IInv, TypeOK
<1>7. \A d \in Coroutines \ {p} : pc'[d] = pc[d]
  BY <1>0, <1>4, <1>5 DEF Monitor, ObserveExit, DecideFallback, AwaitReview,
     DecideFailover, RespawnFails, DeferToStop, Continue, Conclude, Cleanup, IInv, TypeOK
<1>8. CASE ObserveExit(p) \/ DecideFallback(p) \/ DecideFailover(p)
  <2>1. /\ stopFlag' = stopFlag /\ pc[p] # "cleanup"
        /\ pc'[p] \in {"exited", "fallback", "failover"}
    BY <1>0, <1>8 DEF ObserveExit, DecideFallback, DecideFailover, BuildExited, AtExit,
       IInv, TypeOK
  <2> QED BY <1>2, <1>6, <1>7, <2>1, WorkerLetsStop
<1>9. CASE AwaitReview(p) \/ RespawnFails(p) \/ DeferToStop(p) \/ Conclude(p) \/ Cleanup(p)
  <2>1. pc'[p] \in {"cleanup", "crashed", "done"}
    BY <1>0, <1>9 DEF AwaitReview, RespawnFails, DeferToStop, Conclude, Cleanup, IInv, TypeOK
  <2> QED BY <1>2, <1>6, <1>7, <2>1, WorkerLetsStop DEF Active, Finished
<1>10. CASE Continue(p)
  <2>1. ~stopFlag /\ pc[p] \in {"exited", "failover"}
    BY <1>10 DEF Continue, Settling, BuildExited
  <2>2. ~Engaged BY <1>2, <2>1 DEF StopHolds
  <2> QED BY <1>2, <1>6, <1>7, <2>2, WorkerLetsStop
<1> QED BY <1>4, <1>5, <1>8, <1>9, <1>10 DEF Monitor

LEMMA TickAgentLetsStop ==
  ASSUME IInv, StopHolds, NEW p \in Proc, Tick(p) \/ Agent(p)
  PROVE  StopHolds'
<1> USE DEF Goto, service, procs, disk
<1>0. p \in Coroutines /\ \A d \in StopCalls : d \in Coroutines /\ d # p
  BY CallsAreNotProcesses DEF Coroutines, Calls
<1>1. UNCHANGED <<running, stopFlag, target>>
  BY DEF Tick, Agent, SeeCheckpoint, ForceRestart, BlockAtGate, WritePlan, WorkOnPlan, Exit
<1>2. \A r \in Proc : Alive(r)' => Alive(r)
  BY DEF Tick, Agent, SeeCheckpoint, ForceRestart, BlockAtGate, WritePlan, WorkOnPlan, Exit,
     Alive, IInv, TypeOK
<1>3. \A d \in Coroutines :
        pc'[d] = pc[d] \/ (d = p /\ pc[d] = "wait" /\ pc'[d] = "terminating")
  BY <1>0 DEF Tick, Agent, SeeCheckpoint, ForceRestart, BlockAtGate, WritePlan, WorkOnPlan,
     Exit, IInv, TypeOK
<1>4. \A d \in StopCalls : pc'[d] = pc[d] BY <1>0, <1>3
<1>5. AtWork' = AtWork BY <1>3 DEF AtWork, Active, Finished
<1>6. Engaged' <=> Engaged BY <1>4 DEF Engaged
<1>7. LiveIsTracked' BY <1>1, <1>2 DEF StopHolds, LiveIsTracked
<1>8. ASSUME Engaged, NEW w \in AtWork
      PROVE  \/ pc'[w] = "cleanup"
             \/ stopFlag' /\ pc'[w] \in {"attach", "wait", "terminating", "exited", "fallback", "failover"}
  BY <1>1, <1>3, <1>8 DEF StopHolds, AtWork
<1> QED BY <1>1, <1>2, <1>4, <1>5, <1>6, <1>7, <1>8 DEF StopHolds

\* A stop that finds nothing tracked is refused.
LEMMA StopsOnly ==
  ASSUME IInv, [Next]_vars, NEW c \in StopCalls, pc[c] \in {"idle", "refused"}, running = NoProc
  PROVE  pc'[c] \in {"idle", "refused"}
<1> USE DEF Goto
<1>0. /\ c \in Coroutines /\ c \notin Proc
      /\ c \notin StartCalls \cup ApproveCalls \cup ChangeCalls \cup DoneCalls
  BY CallsAreNotProcesses, CallsAreDisjoint DEF Coroutines, Calls
<1>1. CASE UNCHANGED vars BY <1>1 DEF vars
<1>2. ASSUME NEW d \in Calls, Request(d) PROVE pc'[c] \in {"idle", "refused"}
  <2>0. d \in Coroutines BY DEF Coroutines
  <2>1. CASE d = c
    <3>1. StopRoute(c)
      BY <1>0, <1>2, <2>1 DEF Request, StartRoute, ApproveRoute, ChangesRoute, DoneRoute
    <3> QED BY <1>0, <3>1 DEF StopRoute, IInv, TypeOK
  <2>2. CASE d # c
    BY <1>0, <1>2, <2>0, <2>2 DEF Request, StartRoute, StopRoute, ApproveRoute, ChangesRoute,
       DoneRoute, Replace, BeginStart, BeginStop, IInv, TypeOK
  <2> QED BY <2>1, <2>2
<1>3. ASSUME NEW d \in Coroutines, Proceed(d) PROVE pc'[c] = pc[c]
  <2>1. d # c
    BY <1>3 DEF Proceed, ResolveToken, Spawn, SpawnFails, Attach, StopObservesExit,
       StopDropsTracking, StopReturns, ResumeRoute
  <2>2. CASE Attach(d)
    BY <1>0, <2>1, <2>2 DEF Attach, IInv, TypeOK, AttachIsExclusive
  <2>3. CASE ~Attach(d)
    BY <1>0, <1>3, <2>1, <2>3 DEF Proceed, ResolveToken, Spawn, SpawnFails, StopObservesExit,
       StopDropsTracking, StopReturns, ResumeRoute, Replace, BeginStart, BeginStop, IInv, TypeOK
  <2> QED BY <2>2, <2>3
<1>4. ASSUME NEW p \in Proc, Monitor(p) PROVE pc'[c] = pc[c]
  BY <1>0, <1>4 DEF Monitor, ObserveExit, DecideFallback, AwaitReview, StartBuild,
     DecideFailover, Respawn, RespawnFails, DeferToStop, Continue, Conclude, Cleanup, IInv, TypeOK
<1>5. ASSUME NEW p \in Proc, Tick(p) \/ Agent(p) PROVE pc'[c] = pc[c]
  BY <1>0, <1>5 DEF Tick, Agent, SeeCheckpoint, ForceRestart, BlockAtGate, WritePlan,
     WorkOnPlan, Exit, IInv, TypeOK
<1> QED BY <1>1, <1>2, <1>3, <1>4, <1>5 DEF Next

LEMMA StopInvInductive ==
  ASSUME OneStart
  PROVE  Spec => []StopInv
<1>1. Init => StopInv
  BY DEF Init, StopInv, StopHolds, UnusedIsPlain, Undisturbed, Engaged, LiveIsTracked, Alive,
         AtWork, Active, Coroutines, Calls
<1>2. IInv /\ Bounded /\ Chain /\ StopInv /\ [Next]_vars => StopInv'
  <2> SUFFICES ASSUME IInv, Bounded, Chain, StopInv, [Next]_vars PROVE StopInv'
    OBVIOUS
  <2>1. UnusedIsPlain' /\ (PlainBuilds' => PlainBuilds) BY PlainBefore DEF StopInv
  <2>2. ASSUME \A s \in StartCalls : pc'[s] = "idle" PROVE Undisturbed'
    <3>1. \A s \in StartCalls : pc[s] = "idle" BY <2>2, StartStays
    <3>2. running = NoProc /\ Undisturbed BY <3>1 DEF Chain, StopInv
    <3> QED BY <3>2, StopsOnly DEF Undisturbed
  <2>3. ASSUME PlainBuilds' PROVE StopHolds'
    <3>1. PlainBuilds /\ StopHolds BY <2>1, <2>3 DEF StopInv
    <3>2. CASE UNCHANGED vars
      BY <3>1, <3>2 DEF vars, service, procs, StopHolds, Engaged, LiveIsTracked, Alive,
         AtWork, Active
    <3> QED BY <2>3, <3>1, <3>2, RequestLetsStop, ProceedLetsStop, MonitorLetsStop,
               TickAgentLetsStop DEF Next
  <2> QED BY <2>1, <2>2, <2>3 DEF StopInv
<1> QED BY <1>1, <1>2, Inductive, BoundedInductive, ChainInductive, PTL DEF Spec

\* The promise of stop_task, as far as it holds: when it has returned True no agent of a
\* build runs any more, whatever the monitor was doing when it was stopped, if the build
\* had no specification phase and no retry.
THEOREM StopEnds ==
  ASSUME OneStart
  PROVE  Spec => []StopEndsBuild
<1>1. StopInv => StopEndsBuild
  BY DEF StopInv, StopHolds, StopEndsBuild, StopIsFinal, PlainBuilds
<1> QED BY <1>1, StopInvInductive, PTL

=============================================================================
