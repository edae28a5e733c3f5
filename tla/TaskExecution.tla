--------------------------- MODULE TaskExecution ---------------------------
(***************************************************************************)
(* The life of one task inside AgentService                                *)
(* (apps/web-server/server/services/agent_service.py): the requests of     *)
(* users that start, stop, approve or finish it, the agent processes       *)
(* (spec_runner.py, run.py) it spawns, and the _monitor_process coroutine  *)
(* of each process, which retries, continues or settles the run.           *)
(*                                                                         *)
(* Every dictionary of the service is keyed by task_id and no method reads *)
(* another task's entry, so one task is modelled.  asyncio switches        *)
(* coroutines only at an await: an action is the code between two awaits.  *)
(***************************************************************************)
EXTENDS Integers, FiniteSets

CONSTANTS
  StartCalls,    \* POST /{task_id}/start requests
  StopCalls,     \* POST /{task_id}/stop requests
  ApproveCalls,  \* POST /{task_id}/approve-plan requests with auto_restart
  ChangeCalls,   \* POST /{task_id}/review requests that ask for changes
  DoneCalls,     \* POST /{task_id}/review requests that accept the build
  MaxRequests,   \* bound: requests made in a behaviour
  MaxProcs,      \* bound: processes spawned in a behaviour
  MaxRounds,     \* auto-continuation rounds, 10 in the code
  Settings       \* the configurations the task may run under

Calls == StartCalls \cup StopCalls \cup ApproveCalls \cup ChangeCalls \cup DoneCalls
Proc == 1..MaxProcs
NoProc == 0
Coroutines == Calls \cup Proc

ASSUME BoundsAssumption == MaxRequests \in Nat /\ MaxProcs \in Nat /\ MaxRounds \in Nat
ASSUME SettingsAssumption ==
  Settings \subseteq [nonClaude : BOOLEAN,      \* its model is not a Claude model
                      failover : BOOLEAN,       \* auto-switch.json allows failover
                      requireReview : BOOLEAN]  \* requireReviewBeforeCoding
ASSUME CallsAssumption ==
  /\ Calls \cap Int = {}
  /\ LET routes == <<StartCalls, StopCalls, ApproveCalls, ChangeCalls, DoneCalls>>
     IN  \A i, j \in 1..5 : i # j => routes[i] \cap routes[j] = {}

VARIABLES
  running,   \* running_tasks[task_id]: the tracked process, or NoProc
  stopFlag,  \* task_id is in _task_stopped
  attempt,   \* _task_profiles[task_id]["attempt"]; 0 when there is no entry
  round,     \* the _continuation_<task_id> attribute; 0 when absent
  specDir,   \* task_id is in _spec_dirs
  proc,      \* each process: unused, alive, or its exit: ok or failed
  kind,      \* spec: spec_runner.py, exec: run.py, forced: run.py --force
  retryOf,   \* the process whose monitor respawned this one, or NoProc; such
             \* a process is monitored with cmd = env = None
  pc,        \* where each request and each monitor (named by its process) is
  target,    \* the process a coroutine waits for, or has spawned
  want,      \* the kind of process a start in flight will spawn
  plan,      \* implementation_plan.json: has it subtasks, is one of them open, its
             \* status; and whether plan_review.html lies beside it (page)
  review,    \* review_state.json: none, awaiting (approved false) or approved
  settings   \* the configuration, the same throughout a behaviour

service == <<running, stopFlag, attempt, round, specDir>>
procs == <<proc, kind, retryOf>>
disk == <<plan, review, settings>>
vars == <<service, procs, pc, target, want, disk>>

Kinds == {"spec", "exec", "forced"}
Statuses == {"backlog", "in_progress", "plan_review", "completed", "errors", "done"}
Plans == [valid : BOOLEAN, pending : BOOLEAN, status : Statuses, page : BOOLEAN]
Finished == {"done", "refused", "failed", "crashed"}
PCs == Finished \cup
  {"idle", "resume", "token", "spawn", "attach", "stopping", "popping", "stopped",
   "wait", "terminating", "exited", "fallback", "failover", "cleanup"}

TypeOK ==
  /\ running \in Proc \cup {NoProc}
  /\ stopFlag \in BOOLEAN
  /\ attempt \in 0..2
  /\ round \in 0..MaxRounds
  /\ specDir \in BOOLEAN
  /\ proc \in [Proc -> {"unused", "alive", "ok", "failed"}]
  /\ kind \in [Proc -> Kinds]
  /\ retryOf \in [Proc -> Proc \cup {NoProc}]
  /\ pc \in [Coroutines -> PCs]
  /\ target \in [Coroutines -> Proc \cup {NoProc}]
  /\ want \in [Coroutines -> Kinds]
  /\ plan \in Plans
  /\ review \in {"none", "awaiting", "approved"}
  /\ settings \in Settings

\* A task just created (no plan yet), or one whose plan was made earlier.
Init ==
  /\ running = NoProc /\ stopFlag = FALSE /\ attempt = 0 /\ round = 0 /\ specDir = FALSE
  /\ proc = [p \in Proc |-> "unused"]
  /\ kind = [p \in Proc |-> "exec"]
  /\ retryOf = [p \in Proc |-> NoProc]
  /\ pc = [c \in Coroutines |-> "idle"]
  /\ target = [c \in Coroutines |-> NoProc]
  /\ want = [c \in Coroutines |-> "exec"]
  /\ \E v \in BOOLEAN :
       plan = [valid |-> v, pending |-> v, status |-> "backlog", page |-> FALSE]
  /\ review = "none"
  /\ settings \in Settings

Alive(p) == proc[p] = "alive"
Exited(p) == proc[p] \in {"ok", "failed"}
\* Mutant: the monitor of a respawned process gets cmd and env too.
RetryableAlways(p) == TRUE
\* cmd and env were handed to the monitor of p.
Retryable(p) == retryOf[p] = NoProc
\* Process ids are handed out in order; which one is new does not matter.
Fresh(q) == proc[q] = "unused" /\ \A r \in Proc : r < q => proc[r] # "unused"

Goto(c, l) == pc' = [pc EXCEPT ![c] = l]

\* Mutant: the done status is not looked at.
UpdatePlanStatusAlways(s) ==
  plan' = IF plan.valid THEN [plan EXCEPT !.status = s] ELSE plan

\* _update_plan_status up to its first await: the file is read and written.
UpdatePlanStatus(s) ==
  plan' = IF plan.valid /\ plan.status # "done" THEN [plan EXCEPT !.status = s] ELSE plan

\* Every method that drops the tracking dictionaries of the task.
DropTracking == running' = NoProc /\ attempt' = 0

-----------------------------------------------------------------------------
\* start_spec_creation and start_task_execution, run by a request or a monitor.

\* Their first segment, up to the first await.
BeginStart(c, k) ==
  IF running = NoProc
  THEN Goto(c, "token") /\ want' = [want EXCEPT ![c] = k]
  ELSE Goto(c, "refused") /\ UNCHANGED want

\* The token is resolved and the profile of this attempt recorded.
ResolveToken(c) ==
  /\ pc[c] = "token"
  /\ attempt' = 1
  /\ Goto(c, "spawn")
  /\ UNCHANGED <<running, stopFlag, round, specDir, procs, target, want, disk>>

NewProcess(q, k, parent) ==
  /\ Fresh(q)
  /\ proc' = [proc EXCEPT ![q] = "alive"]
  /\ kind' = [kind EXCEPT ![q] = k]
  /\ retryOf' = [retryOf EXCEPT ![q] = parent]
  /\ running' = q

\* create_subprocess_exec returned; the initial progress event is awaited next.
Spawn(c) ==
  /\ pc[c] = "spawn"
  /\ \E q \in Proc :
       /\ NewProcess(q, want[c], NoProc)
       /\ target' = [target EXCEPT ![c] = q]
  /\ specDir' = TRUE
  /\ Goto(c, "attach")
  /\ UNCHANGED <<stopFlag, attempt, round, want, disk>>

\* The monitor is created; the start route then persists in_progress.
Attach(c) ==
  /\ pc[c] = "attach"
  /\ pc' = [pc EXCEPT ![c] = "done", ![target[c]] = "wait"]
  /\ target' = [target EXCEPT ![c] = NoProc]
  /\ plan' = IF c \in StartCalls
               THEN [plan EXCEPT !.status = "in_progress"] ELSE plan
  /\ UNCHANGED <<service, procs, want, review>>

\* create_subprocess_exec raised.  The request fails; a monitor that was starting
\* execution records the finished spec or build as completed instead, and the
\* monitor of a build still has its own cleanup to do.
SpawnFails(c) ==
  /\ pc[c] = "spawn"
  /\ IF c \in Calls
       THEN Goto(c, "failed") /\ UNCHANGED plan
       ELSE /\ Goto(c, IF kind[c] = "spec" THEN "done" ELSE "cleanup")
            /\ UpdatePlanStatus("completed")
  /\ UNCHANGED <<service, procs, target, want, review>>

-----------------------------------------------------------------------------
\* stop_task, called by the stop route and by routes that replace a tracked run.

\* terminate() raises ProcessLookupError when the transport has already seen the
\* exit: the stop route fails, the other routes drop the entry and start.
BeginStop(c, k) ==
  /\ stopFlag' = TRUE
  /\ \/ /\ Goto(c, "stopping")
        /\ target' = [target EXCEPT ![c] = running]
        /\ want' = [want EXCEPT ![c] = k]
        /\ UNCHANGED running
     \/ /\ Exited(running)
        /\ UNCHANGED target
        /\ IF c \in StopCalls
             THEN Goto(c, "failed") /\ UNCHANGED <<running, want>>
             ELSE Goto(c, "token") /\ running' = NoProc /\ want' = [want EXCEPT ![c] = k]

\* proc.wait() returned (after SIGKILL, five seconds later, if it had to).
StopObservesExit(c) ==
  /\ pc[c] = "stopping" /\ Exited(target[c])
  /\ Goto(c, "popping")
  /\ target' = [target EXCEPT ![c] = NoProc]
  /\ IF specDir THEN UpdatePlanStatus("errors") ELSE UNCHANGED plan
  /\ UNCHANGED <<service, procs, want, review>>

StopDropsTracking(c) ==
  /\ pc[c] = "popping"
  /\ DropTracking /\ specDir' = FALSE
  /\ Goto(c, "stopped")
  /\ UNCHANGED <<stopFlag, round, procs, target, want, disk>>

\* stop_task returned True.
StopReturns(c) ==
  /\ pc[c] = "stopped"
  /\ IF c \in StopCalls THEN Goto(c, "done") /\ UNCHANGED want ELSE BeginStart(c, want[c])
  /\ UNCHANGED <<service, procs, target, disk>>

-----------------------------------------------------------------------------
\* The routes.

StopRoute(c) ==
  /\ c \in StopCalls /\ pc[c] = "idle"
  /\ IF running = NoProc
       THEN Goto(c, "refused") /\ UNCHANGED <<service, target, want>>
       ELSE BeginStop(c, "exec") /\ UNCHANGED <<attempt, round, specDir>>
  /\ UNCHANGED <<procs, disk>>

\* Stop the tracked run if there is one, then start execution with force=True.
Replace(c) ==
  /\ IF running = NoProc
       THEN BeginStart(c, "forced") /\ UNCHANGED <<running, stopFlag, target>>
       ELSE BeginStop(c, "forced")
  /\ UNCHANGED <<attempt, round, specDir>>

StartRoute(c) ==
  /\ c \in StartCalls /\ pc[c] = "idle"
  /\ \/ /\ plan.status = "done"
        /\ Goto(c, "refused")
        /\ UNCHANGED <<service, target, want, disk>>
     \/ /\ plan.status # "done" /\ ~plan.valid
        /\ BeginStart(c, "spec")
        /\ UNCHANGED <<service, target, plan, review>>
     \/ /\ plan.status # "done" /\ ~plan.valid  \* complexity "simple": no spec creation
        /\ plan' = [plan EXCEPT !.valid = TRUE, !.pending = TRUE, !.status = "in_progress"]
        /\ review' = "approved"
        /\ Replace(c)
     \/ /\ plan.status # "done" /\ plan.valid /\ review = "approved"
        /\ Replace(c)
        /\ UNCHANGED disk
     \/ /\ plan.status # "done" /\ plan.valid /\ review # "approved"
        /\ IF running = NoProc /\ ~settings.requireReview
             THEN BeginStart(c, "exec") /\ UNCHANGED plan
             ELSE /\ Goto(c, "refused")
                  /\ plan' = IF running = NoProc
                               THEN [plan EXCEPT !.status = "plan_review"] ELSE plan
                  /\ UNCHANGED want
        /\ UNCHANGED <<service, target, review>>
  /\ UNCHANGED procs

\* approve_plan up to its first await.
ApproveRoute(c) ==
  /\ c \in ApproveCalls /\ pc[c] = "idle"
  /\ review' = "approved"
  /\ plan' = IF plan.valid THEN [plan EXCEPT !.status = "in_progress"] ELSE plan
  /\ Goto(c, "resume")
  /\ UNCHANGED <<service, procs, target, want>>

\* submit_review with changes requested: a new pending subtask is appended.
ChangesRoute(c) ==
  /\ c \in ChangeCalls /\ pc[c] = "idle"
  /\ plan' = IF plan.valid
               THEN [plan EXCEPT !.pending = TRUE, !.status = "in_progress"] ELSE plan
  /\ Goto(c, "resume")
  /\ UNCHANGED <<service, procs, target, want, review>>

ResumeRoute(c) ==
  /\ pc[c] = "resume"
  /\ Replace(c)
  /\ UNCHANGED <<procs, disk>>

DoneRoute(c) ==
  /\ c \in DoneCalls /\ pc[c] = "idle"
  /\ plan' = IF plan.valid THEN [plan EXCEPT !.status = "done"] ELSE plan
  /\ Goto(c, "done")
  /\ UNCHANGED <<service, procs, target, want, review>>

-----------------------------------------------------------------------------
\* The agent processes, as seen through the files they write and their exit.

\* The approval gate holds run.py back.
Gated(p) == kind[p] = "exec" /\ settings.requireReview /\ review # "approved"

\* run.py saves the review state it waits for, and will exit.
BlockAtGate(p) ==
  /\ Alive(p) /\ Gated(p)
  /\ review' = "awaiting"
  /\ UNCHANGED <<service, procs, pc, target, want, plan>>

\* spec_runner.py writes the plan and leaves it approved (--auto-approve), or awaiting
\* with a page to review; run.py plans a task that has no plan.  The status is the one
\* that the planner gives its new plan.
WritePlan(p) ==
  /\ Alive(p) /\ ~plan.valid /\ ~Gated(p)
  /\ LET paused == kind[p] = "spec" /\ settings.requireReview
     IN  /\ \E s \in Statuses :
              plan' = [valid |-> TRUE, pending |-> TRUE, status |-> s,
                       page |-> plan.page \/ paused]
         /\ review' = IF paused THEN "awaiting"
                      ELSE IF kind[p] = "spec" THEN "approved" ELSE review
  /\ UNCHANGED <<service, procs, pc, target, want>>

\* An agent works on the plan: the last open subtask gets done, or not yet.  Whatever is
\* written comes with the status that the agent's copy has, of its start, of its review
\* or of its QA verdict.  An approved spec_runner.py becomes run.py (execv).
WorkOnPlan(p) ==
  /\ Alive(p) /\ plan.valid /\ ~Gated(p)
  /\ kind[p] = "spec" => review = "approved"
  /\ \E pending \in {plan.pending, FALSE}, s \in Statuses :
       plan' = [plan EXCEPT !.pending = pending, !.status = s]
  /\ UNCHANGED <<service, procs, pc, target, want, review>>

Exit(p) ==
  /\ Alive(p)
  /\ \E code \in {"ok", "failed"} : proc' = [proc EXCEPT ![p] = code]
  /\ UNCHANGED <<service, kind, retryOf, pc, target, want, disk>>

-----------------------------------------------------------------------------
\* _monitor_process of process p.

\* The sync tick of a running spec creation finds plan_review.html, which nobody removes:
\* approved or not, unless it was the last thing reported, the task is put to review.
SeeCheckpoint(p) ==
  /\ pc[p] = "wait" /\ Alive(p) /\ kind[p] = "spec" /\ plan.page
  /\ UpdatePlanStatus("plan_review")
  /\ UNCHANGED <<service, procs, pc, target, want, review>>

MayFailOver(p) == Retryable(p) /\ attempt = 1 /\ settings.failover

\* The sync tick finds a rate limit in the output and terminates the process.
ForceRestart(p) ==
  /\ pc[p] = "wait" /\ Alive(p) /\ MayFailOver(p)
  /\ Goto(p, "terminating")
  /\ UNCHANGED <<service, procs, target, want, disk>>

\* Mutant: the exit of a terminated process is never noticed.
ObserveExitDeaf(p) ==
  /\ pc[p] = "wait" /\ Exited(p) /\ kind[p] # "spec"
  /\ Goto(p, "exited")
  /\ UNCHANGED <<service, procs, target, want, disk>>

\* wait() returned and a build's files are synced next.  An exit the monitor forced
\* counts as a failure whatever its code.
ObserveExit(p) ==
  /\ pc[p] \in {"wait", "terminating"} /\ Exited(p) /\ kind[p] # "spec"
  /\ proc' = IF pc[p] = "terminating" THEN [proc EXCEPT ![p] = "failed"] ELSE proc
  /\ Goto(p, "exited")
  /\ UNCHANGED <<service, kind, retryOf, target, want, disk>>

\* Mutant: after terminate() the exit is not awaited.
AtExitUnawaited(p) ==
  \/ pc[p] = "exited"
  \/ kind[p] = "spec" /\ (pc[p] = "terminating" \/ (pc[p] = "wait" /\ Exited(p)))

\* A spec creation syncs nothing: its exit is handled at once.
AtExit(p) ==
  \/ pc[p] = "exited"
  \/ kind[p] = "spec" /\ pc[p] \in {"wait", "terminating"} /\ Exited(p)

CanFallBack(p) ==
  /\ proc[p] = "failed" \/ pc[p] = "terminating"
  /\ Retryable(p) /\ settings.nonClaude /\ attempt = 1

\* A failed non-Claude run is respawned with sonnet.
DecideFallback(p) ==
  /\ AtExit(p) /\ CanFallBack(p)
  /\ Goto(p, "fallback")
  /\ UNCHANGED <<service, procs, target, want, disk>>

\* Mutant: the status of a task that waits for approval is not persisted.
AwaitReviewUnsaved(p) ==
  /\ AtExit(p) /\ ~CanFallBack(p) /\ review = "awaiting"
  /\ Goto(p, "cleanup")
  /\ UNCHANGED <<service, procs, target, want, disk>>

\* The spec or the build waits for a human: not a failure, not a completion.
AwaitReview(p) ==
  /\ AtExit(p) /\ ~CanFallBack(p) /\ review = "awaiting"
  /\ UpdatePlanStatus("plan_review")
  /\ Goto(p, "cleanup")
  /\ UNCHANGED <<service, procs, target, want, review>>

\* The spec is ready: execution starts in the same segment.
StartBuild(p) ==
  /\ AtExit(p) /\ ~CanFallBack(p) /\ kind[p] = "spec" /\ review # "awaiting"
  /\ DropTracking
  /\ Goto(p, "token") /\ want' = [want EXCEPT ![p] = "exec"]
  /\ UNCHANGED <<stopFlag, round, specDir, procs, target, disk>>

BuildExited(p) ==
  pc[p] = "exited" /\ ~CanFallBack(p) /\ kind[p] # "spec" /\ review # "awaiting"

\* An early or rate-limited failure is respawned with another profile.
DecideFailover(p) ==
  /\ BuildExited(p) /\ proc[p] = "failed" /\ MayFailOver(p)
  /\ Goto(p, "failover")
  /\ UNCHANGED <<service, procs, target, want, disk>>

\* Mutant: running_tasks keeps naming the process that failed.
RespawnUntracked(p) ==
  /\ pc[p] \in {"fallback", "failover"}
  /\ \E q \in Proc :
       /\ Fresh(q)
       /\ proc' = [proc EXCEPT ![q] = "alive"]
       /\ kind' = [kind EXCEPT ![q] = kind[p]]
       /\ retryOf' = [retryOf EXCEPT ![q] = p]
       /\ pc' = [pc EXCEPT ![p] = "done", ![q] = "wait"]
  /\ attempt' = 2
  /\ UNCHANGED <<running, stopFlag, round, specDir, target, want, disk>>

\* Mutant: no monitor is created for the new process.
RespawnUnwatched(p) ==
  /\ pc[p] \in {"fallback", "failover"}
  /\ \E q \in Proc : NewProcess(q, kind[p], p)
  /\ Goto(p, "done")
  /\ attempt' = 2
  /\ UNCHANGED <<stopFlag, round, specDir, target, want, disk>>

Respawn(p) ==
  /\ pc[p] \in {"fallback", "failover"}
  /\ \E q \in Proc :
       /\ NewProcess(q, kind[p], p)
       /\ pc' = [pc EXCEPT ![p] = "done", ![q] = "wait"]
  /\ attempt' = IF attempt = 0 THEN 0 ELSE 2
  /\ UNCHANGED <<stopFlag, round, specDir, target, want, disk>>

\* create_subprocess_exec raised: the outer handler cleans up and reports FAILED.
RespawnFails(p) ==
  /\ pc[p] \in {"fallback", "failover"}
  /\ DropTracking /\ specDir' = FALSE
  /\ Goto(p, "crashed")
  /\ UNCHANGED <<stopFlag, round, procs, target, want, disk>>

\* No retry was due, or no other profile was found.
Settling(p) == BuildExited(p) \/ pc[p] = "failover"

\* The run was stopped: stop_task does the rest.
DeferToStop(p) ==
  /\ Settling(p) /\ stopFlag
  /\ stopFlag' = FALSE
  /\ Goto(p, "done")
  /\ UNCHANGED <<running, attempt, round, specDir, procs, target, want, disk>>

SubtasksRemain(p) == proc[p] = "ok" /\ Retryable(p) /\ plan.valid /\ plan.pending

\* Mutant: one continuation round too many.
ContinueOnceMore(p) ==
  /\ Settling(p) /\ ~stopFlag /\ SubtasksRemain(p) /\ round <= MaxRounds
  /\ round' = round + 1
  /\ DropTracking
  /\ Goto(p, "token") /\ want' = [want EXCEPT ![p] = "exec"]
  /\ UNCHANGED <<stopFlag, specDir, procs, target, disk>>

\* Mutant: the build goes on although it was stopped.
ContinueStopped(p) ==
  /\ Settling(p) /\ SubtasksRemain(p) /\ round < MaxRounds
  /\ round' = round + 1
  /\ DropTracking
  /\ Goto(p, "token") /\ want' = [want EXCEPT ![p] = "exec"]
  /\ UNCHANGED <<stopFlag, specDir, procs, target, disk>>

\* Auto-continuation: execution starts again in the same segment.
Continue(p) ==
  /\ Settling(p) /\ ~stopFlag /\ SubtasksRemain(p) /\ round < MaxRounds
  /\ round' = round + 1
  /\ DropTracking
  /\ Goto(p, "token") /\ want' = [want EXCEPT ![p] = "exec"]
  /\ UNCHANGED <<stopFlag, specDir, procs, target, disk>>

Conclude(p) ==
  /\ Settling(p) /\ ~stopFlag
  /\ SubtasksRemain(p) => round = MaxRounds
  /\ round' = IF proc[p] = "ok" /\ Retryable(p) /\ plan.valid /\ ~plan.pending
                THEN 0 ELSE round
  /\ UpdatePlanStatus(IF proc[p] = "ok" THEN "completed" ELSE "errors")
  /\ Goto(p, "cleanup")
  /\ UNCHANGED <<running, stopFlag, attempt, specDir, procs, target, want, review>>

\* The events are out: the tracking of the task is dropped.
Cleanup(p) ==
  /\ pc[p] = "cleanup"
  /\ DropTracking
  /\ specDir' = (specDir /\ kind[p] = "spec")
  /\ Goto(p, "done")
  /\ UNCHANGED <<stopFlag, round, procs, target, want, disk>>

-----------------------------------------------------------------------------
Request(c) ==
  /\ Cardinality({d \in Calls : pc[d] # "idle"}) < MaxRequests
  /\ \/ StartRoute(c) \/ StopRoute(c)
     \/ ApproveRoute(c) \/ ChangesRoute(c) \/ DoneRoute(c)
  /\ UNCHANGED settings

\* What a coroutine does once it runs: a start, a stop, a resumed route.
Proceed(c) ==
  /\ \/ ResolveToken(c) \/ Spawn(c) \/ SpawnFails(c) \/ Attach(c)
     \/ StopObservesExit(c) \/ StopDropsTracking(c) \/ StopReturns(c)
     \/ ResumeRoute(c)
  /\ UNCHANGED settings

Monitor(p) ==
  /\ \/ ObserveExit(p) \/ DecideFallback(p) \/ AwaitReview(p) \/ StartBuild(p)
     \/ DecideFailover(p) \/ Respawn(p) \/ RespawnFails(p)
     \/ DeferToStop(p) \/ Continue(p) \/ Conclude(p) \/ Cleanup(p)
  /\ UNCHANGED settings

Tick(p) == (SeeCheckpoint(p) \/ ForceRestart(p)) /\ UNCHANGED settings

Agent(p) == (BlockAtGate(p) \/ WritePlan(p) \/ WorkOnPlan(p) \/ Exit(p)) /\ UNCHANGED settings

Next ==
  \/ \E c \in Calls : Request(c)
  \/ \E c \in Coroutines : Proceed(c)
  \/ \E p \in Proc : Monitor(p) \/ Tick(p) \/ Agent(p)

\* asyncio runs every ready coroutine, and every agent process ends: by itself,
\* or killed five seconds after a stop.  Users owe nothing.
Fairness ==
  /\ \A c \in Coroutines : WF_vars(Proceed(c))
  /\ \A p \in Proc : WF_vars(Monitor(p)) /\ WF_vars(Exit(p))

Spec == Init /\ [][Next]_vars /\ Fairness

-----------------------------------------------------------------------------
\* Properties

\* Nothing runs and no coroutine is under way.
Quiet ==
  /\ \A p \in Proc : ~Alive(p)
  /\ \A c \in Coroutines : pc[c] \in Finished \cup {"idle"}

\* A start has spawned p and is about to create its monitor.
Attaching(p) == \E c \in Coroutines : pc[c] = "attach" /\ target[c] = p

\* Every live process has a monitor that waits for it, or a start about to create one,
\* whatever requests overlap: no exit goes unnoticed.
EveryProcessIsWatched ==
  \A p \in Proc :
    /\ Alive(p) => pc[p] \in {"wait", "terminating"} \/ Attaching(p)
    /\ Exited(p) => pc[p] # "idle" \/ Attaching(p)

\* Retries, continuations and the build after the specification add no agent of their
\* own: there are never more agents at work than users asked for.
Begun == {c \in StartCalls \cup ApproveCalls \cup ChangeCalls : pc[c] # "idle"}

AgentsBounded == Cardinality({p \in Proc : Alive(p)}) <= Cardinality(Begun)

\* A run is retried at most once, by one of the two failovers, and a retry never:
\* "Avoid infinite retries (one fallback attempt only)".
OneRetryPerRun ==
  \A p, q \in Proc :
    retryOf[q] # NoProc =>
      /\ retryOf[retryOf[q]] = NoProc
      /\ retryOf[p] = retryOf[q] => p = q

\* No stop has found anything to stop.
Undisturbed == \A c \in StopCalls : pc[c] \in {"idle", "refused"}

\* The agent that runs is the one running_tasks names, so that a stop would reach it.
LiveIsTracked == \A p \in Proc : Alive(p) => running = p

\* A tracked process has a monitor that will drop it from running_tasks; otherwise the
\* task counts as already running for ever.
TrackedIsOwned == running # NoProc => pc[running] \notin Finished

\* As long as nobody has stopped it, running_tasks is right about a task started once.
TrackingIsExact == Undisturbed => LiveIsTracked /\ TrackedIsOwned

\* When all is over, and nobody stopped it, the kanban column shows an outcome: the plan's
\* status is not left in progress, whatever retries, continuations and reviews lie behind.
\* Two cases are excepted.  A run that ends before there is a plan with phases leaves
\* the task in progress for ever: _update_plan_status writes no status to such a plan.  So
\* does a retry that cannot be spawned.
Unplanned == ~plan.valid
RetryCrashed == \E p \in Proc : pc[p] = "crashed"

QuietIsSettled ==
  /\ Quiet /\ Undisturbed
  /\ \E c \in StartCalls : pc[c] = "done"
  /\ ~Unplanned /\ ~RetryCrashed
  => plan.status \in {"plan_review", "completed", "errors", "done"}

\* Monitors and stops write their status late, after awaits, but never take a task out
\* of the done column: only a user's request does, or an agent that still runs, whose copy
\* of the plan brings its own status with it.
DoneStaysDone ==
  [][plan.status = "done" /\ plan'.status # "done"
       => \/ \E c \in StartCalls \cup ApproveCalls \cup ChangeCalls : pc'[c] # pc[c]
          \/ \E p \in Proc : WorkOnPlan(p) \/ WritePlan(p)]_vars

\* What a task started once looks like from outside, whoever stops it.
Launched(kinds) == {p \in Proc : proc[p] # "unused" /\ kind[p] \in kinds}

Stage ==
  IF \A c \in StartCalls : pc[c] = "idle" THEN "new"
  ELSE IF /\ \A p \in Proc : ~Alive(p)
          /\ \A c \in Coroutines \ StopCalls : pc[c] \in Finished \cup {"idle"}
       THEN "over" ELSE "working"

LifeCycle ==
  INSTANCE TaskLifeCycle WITH
    stage <- Stage,
    agent <- \E p \in Proc : Alive(p),
    specs <- Cardinality(Launched({"spec"})),
    builds <- Cardinality(Launched({"exec", "forced"}))

\* Retries, the switch from specification to build and the continuations together
\* follow the simple course of TaskLifeCycle: never two agents, no specification
\* after a build, no more than MaxRounds + 4 agents, nothing after the end.
FollowsLifeCycle == LifeCycle!LifeSpec

\* Once stop_task has returned True no agent runs (stated for a task started once).
StopIsFinal ==
  \A c \in StopCalls : pc[c] = "done" => \A p \in Proc : ~Alive(p)

\* That holds for a build without a specification phase and without a retry: its
\* monitor looks at the stop mark before it continues the build.
StopEndsBuild ==
  (\A p \in Proc : kind[p] # "spec" /\ retryOf[p] = NoProc) => StopIsFinal

\* Retries and continuations run out: the task comes to rest by itself.
ComesToRest == <>[]Quiet

=============================================================================
