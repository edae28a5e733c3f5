------------------------------ MODULE BuildLoop ------------------------------
(***************************************************************************)
(* The loop that builds a task (apps/backend/agents/coder.py): a planner   *)
(* session writes implementation_plan.json, then coder sessions work on    *)
(* its subtasks one by one. After each session the loop reads the plan     *)
(* back, counts the attempt in memory/attempt_history.json, and escalates  *)
(* the subtask that failed too often (agents/session.py,                   *)
(* services/recovery.py). Both files outlive the process, which may be     *)
(* killed between any two writes and started again.                        *)
(*                                                                         *)
(* The agents are language models with a shell: a session may end with any *)
(* status written for its subtask, with or without commits, and may leave  *)
(* a plan that is not JSON any more.                                       *)
(***************************************************************************)
EXTENDS Integers

CONSTANTS
  N,            \* subtasks of the plan, numbered in its order
  PhaseOf,      \* the phase each subtask belongs to
  DependsOn,    \* depends_on of each phase
  AttemptLimit, \* attempts before a failing subtask is stuck, 3 in the code
  Modes,        \* how a task may ask for plan review: not, by its flag, as a quick task
  Limits,       \* --max-iterations, 0 when it is not given
  MaxRuns,      \* bound: runs of the loop in a behaviour
  MaxExpiries   \* bound: attempts that grow older than ATTEMPT_WINDOW_SECONDS

Subtask == 1..N
Phase == {PhaseOf[s] : s \in Subtask}

\* Subtask ids are numbered by phase, and a phase depends on earlier ones only.
ASSUME PlanAssumption ==
  /\ N \in Nat \ {0}
  /\ PhaseOf \in [Subtask -> Nat]
  /\ DependsOn \in [Phase -> SUBSET Phase]
  /\ \A p \in Phase : \A d \in DependsOn[p] : d < p

ASSUME LimitsAssumption ==
  /\ AttemptLimit \in Nat \ {0}
  /\ Modes \subseteq {"none", "flag", "quick"}
  /\ Limits \subseteq Nat
  /\ MaxRuns \in Nat /\ MaxExpiries \in Nat

VARIABLES
  \* on disk
  file,       \* implementation_plan.json: missing or without subtasks, readable, not JSON
  status,     \* the status the plan gives each subtask
  attempts,   \* recent attempts of each subtask in attempt_history.json
  stuck,      \* stuck_subtasks in attempt_history.json
  approval,   \* review_state.json: none, or whether the approved hash is that of the plan
  mode,       \* what task_metadata.json says of review
  paused,     \* there is a PAUSE file
  \* in the process
  pc,
  firstRun,   \* first_run: the next session is the planner's
  planning,   \* is_planning_phase
  current,    \* subtask_id, 0 when there is none
  committed,  \* HEAD has moved since commit_count_before
  outcome,    \* what run_agent_session returned
  limit,      \* max_iterations
  iteration,  \* sessions of the run, counted when there is a limit
  \* of the behaviour
  reviewed,   \* a human has approved the plan that is on disk, as the planner left it
  result,     \* how the last run ended
  runs,       \* runs begun
  expiries    \* attempts that have left the window

disk == <<file, status, attempts, stuck, approval, mode, paused>>
process == <<pc, firstRun, planning, current, committed, outcome, limit, iteration>>
vars == <<disk, process, reviewed, result, runs, expiries>>

Status == {"pending", "in_progress", "completed", "failed"}

TypeOK ==
  /\ file \in {"none", "whole", "garbled"}
  /\ status \in [Subtask -> Status]
  /\ attempts \in [Subtask -> Nat]
  /\ stuck \subseteq Subtask
  /\ approval \in {"none", "valid", "stale"}
  /\ mode \in Modes
  /\ paused \in BOOLEAN
  /\ pc \in {"idle", "top", "session", "process", "record", "escalate", "fail", "handle"}
  /\ firstRun \in BOOLEAN
  /\ planning \in BOOLEAN
  /\ current \in 0..N
  /\ committed \in BOOLEAN
  /\ outcome \in {"unset", "continue", "complete", "error"}
  /\ limit \in Limits \cup {0}
  /\ iteration \in Nat
  /\ reviewed \in BOOLEAN
  /\ result \in {"none", "blocked", "paused", "limit", "review", "no pending", "complete",
                 "killed"}
  /\ runs \in 0..MaxRuns
  /\ expiries \in 0..MaxExpiries

\* A new task: spec_runner may have left a plan without subtasks, read as none.
Init ==
  /\ file = "none" /\ status = [s \in Subtask |-> "pending"]
  /\ attempts = [s \in Subtask |-> 0] /\ stuck = {}
  /\ approval = "none" /\ mode \in Modes /\ paused = FALSE
  /\ pc = "idle" /\ firstRun = FALSE /\ planning = FALSE
  /\ current = 0 /\ committed = FALSE /\ outcome = "unset" /\ limit = 0 /\ iteration = 0
  /\ reviewed = FALSE /\ result = "none" /\ runs = 0 /\ expiries = 0

-----------------------------------------------------------------------------
(* What the loop reads from the plan. *)

PhaseComplete(p) == \A s \in Subtask : PhaseOf[s] = p => status[s] = "completed"

DepsSatisfied(s) == \A d \in DependsOn[PhaseOf[s]] : PhaseComplete(d)

BuildComplete == file = "whole" /\ \A s \in Subtask : status[s] = "completed"

Workable(s) == status[s] = "pending" /\ DepsSatisfied(s)

\* Mutant: get_next_subtask takes the first pending subtask, whatever its phase waits for.
NextIgnoringDeps ==
  LET first == {s \in Subtask : status[s] = "pending" /\ \A t \in 1..(s - 1) : status[t] # "pending"}
  IN  IF file = "whole" /\ first # {} THEN CHOOSE s \in first : TRUE ELSE 0

\* Mutant: get_next_subtask gives up after the plan's first phase.
NextInFirstPhase ==
  IF file = "whole" /\ Workable(1) THEN 1 ELSE 0

NextSubtask ==
  LET first == {s \in Subtask : Workable(s) /\ \A t \in 1..(s - 1) : ~Workable(t)}
  IN  IF file = "whole" /\ first # {} THEN CHOOSE s \in first : TRUE ELSE 0

\* Mutant: the approved hash is that of spec.md alone.
HashOfSpec == approval

\* The approval holds the hash of the plan's text, so every write makes it stale.
Rehashed == IF approval = "valid" THEN "stale" ELSE approval

\* No run is in progress; what the process knew is gone.
Ends(r) ==
  /\ pc' = "idle" /\ result' = r
  /\ firstRun' = FALSE /\ planning' = FALSE /\ current' = 0 /\ committed' = FALSE
  /\ outcome' = "unset" /\ limit' = 0 /\ iteration' = 0

-----------------------------------------------------------------------------
(* Starting a build, and the review of its plan. *)

EnterLoop(l) ==
  /\ runs' = runs + 1
  /\ IF BuildComplete
     THEN Ends("complete")
     ELSE /\ pc' = "top" /\ limit' = l /\ iteration' = 0
          /\ firstRun' = (file # "whole") /\ planning' = (file # "whole")
          /\ current' = 0 /\ committed' = FALSE /\ outcome' = "unset"
          /\ UNCHANGED result

\* The server passes --force unless the task's flag asks for review.
Start(l) ==
  /\ pc = "idle" /\ runs < MaxRuns
  /\ IF mode # "flag" \/ approval = "valid"
     THEN EnterLoop(l)
     ELSE runs' = runs + 1 /\ Ends("blocked")
  /\ UNCHANGED <<disk, reviewed, expiries>>

\* approve_plan hashes the plan, then edits its status, and may be asked to start
\* the build, with --force; a build that runs already is left to run.
ApprovePlan ==
  /\ approval' = IF file = "whole" THEN "stale" ELSE "valid"
  /\ reviewed' = (reviewed \/ file = "whole")
  /\ \/ pc = "idle" /\ runs < MaxRuns /\ EnterLoop(0)
     \/ UNCHANGED <<process, result, runs>>
  /\ UNCHANGED <<file, status, attempts, stuck, mode, paused, expiries>>

\* review.py run by hand.
Approve ==
  /\ approval' = "valid" /\ reviewed' = (reviewed \/ file = "whole")
  /\ UNCHANGED <<file, status, attempts, stuck, mode, paused, process, result, runs, expiries>>

-----------------------------------------------------------------------------
(* The head of the loop. *)

PausedByHuman ==
  /\ pc = "top" /\ paused
  /\ Ends("paused")
  /\ UNCHANGED <<disk, reviewed, runs, expiries>>

LimitReached ==
  /\ pc = "top" /\ ~paused /\ limit # 0 /\ iteration >= limit
  /\ Ends("limit")
  /\ UNCHANGED <<disk, reviewed, runs, expiries>>

MayIterate == pc = "top" /\ ~paused /\ (limit = 0 \/ iteration < limit)

BeginSession ==
  /\ pc' = "session" /\ current' = NextSubtask /\ committed' = FALSE
  /\ iteration' = IF limit = 0 THEN 0 ELSE iteration + 1
  /\ UNCHANGED <<disk, outcome, limit, reviewed, result, runs, expiries>>

PlannerSession ==
  /\ MayIterate /\ firstRun
  /\ firstRun' = FALSE /\ UNCHANGED planning
  /\ BeginSession

NeedsReview == planning /\ mode \in {"flag", "quick"} /\ approval # "valid"

AwaitReview ==
  /\ MayIterate /\ ~firstRun /\ NeedsReview
  /\ Ends("review")
  /\ UNCHANGED <<disk, reviewed, runs, expiries>>

NoPendingSubtasks ==
  /\ MayIterate /\ ~firstRun /\ ~NeedsReview /\ NextSubtask = 0
  /\ Ends("no pending")
  /\ UNCHANGED <<disk, reviewed, runs, expiries>>

CoderSession ==
  /\ MayIterate /\ ~firstRun /\ ~NeedsReview /\ NextSubtask # 0
  /\ planning' = FALSE /\ UNCHANGED firstRun
  /\ BeginSession

-----------------------------------------------------------------------------
(* A session: what the agent does to the files, and how the session ends. *)

PlannerWrites ==
  /\ pc = "session" /\ current = 0
  /\ file' = "whole" /\ status' = [s \in Subtask |-> "pending"]
  /\ approval' = Rehashed /\ reviewed' = FALSE
  /\ UNCHANGED <<attempts, stuck, mode, paused, process, result, runs, expiries>>

AgentMarks(st) ==
  /\ pc = "session" /\ current # 0 /\ file = "whole"
  /\ status' = [status EXCEPT ![current] = st] /\ approval' = Rehashed
  /\ UNCHANGED <<file, attempts, stuck, mode, paused, process, reviewed, result, runs, expiries>>

AgentCommits ==
  /\ pc = "session" /\ current # 0
  /\ committed' = TRUE
  /\ UNCHANGED <<disk, pc, firstRun, planning, current, outcome, limit, iteration, reviewed,
                 result, runs, expiries>>

AgentGarbles ==
  /\ pc = "session" /\ file = "whole"
  /\ file' = "garbled" /\ approval' = Rehashed
  /\ UNCHANGED <<status, attempts, stuck, mode, paused, process, reviewed, result, runs,
                 expiries>>

SessionEnds(o) ==
  /\ pc = "session"
  /\ o = "error" \/ o = (IF BuildComplete THEN "complete" ELSE "continue")
  /\ outcome' = o
  /\ pc' = IF current # 0 THEN "process" ELSE "handle"
  /\ UNCHANGED <<disk, firstRun, planning, current, committed, limit, iteration, reviewed,
                 result, runs, expiries>>

-----------------------------------------------------------------------------
(* post_session_processing, one action per file it writes. *)

ProcessPlan ==
  /\ pc = "process"
  /\ pc' = IF file = "whole" THEN "record" ELSE "escalate"
  /\ IF file = "whole" /\ status[current] = "pending" /\ committed
     THEN status' = [status EXCEPT ![current] = "completed"] /\ approval' = Rehashed
     ELSE UNCHANGED <<status, approval>>
  /\ UNCHANGED <<file, attempts, stuck, mode, paused, firstRun, planning, current, committed,
                 outcome, limit, iteration, reviewed, result, runs, expiries>>

\* Mutant: a session without a commit is not counted.
RecordWithCommits ==
  /\ pc = "record"
  /\ attempts' = IF committed THEN [attempts EXCEPT ![current] = @ + 1] ELSE attempts
  /\ pc' = IF status[current] = "completed" THEN "handle" ELSE "escalate"
  /\ UNCHANGED <<file, status, stuck, approval, mode, paused, firstRun, planning, current,
                 committed, outcome, limit, iteration, reviewed, result, runs, expiries>>

RecordAttempt ==
  /\ pc = "record"
  /\ attempts' = [attempts EXCEPT ![current] = @ + 1]
  /\ pc' = IF status[current] = "completed" THEN "handle" ELSE "escalate"
  /\ UNCHANGED <<file, status, stuck, approval, mode, paused, firstRun, planning, current,
                 committed, outcome, limit, iteration, reviewed, result, runs, expiries>>

\* Mutant: escalation waits for more than AttemptLimit attempts.
EscalateLate ==
  /\ pc = "escalate"
  /\ IF attempts[current] > AttemptLimit
     THEN pc' = "fail" /\ stuck' = stuck \cup {current}
     ELSE pc' = "handle" /\ UNCHANGED stuck
  /\ UNCHANGED <<file, status, attempts, approval, mode, paused, firstRun, planning, current,
                 committed, outcome, limit, iteration, reviewed, result, runs, expiries>>

Escalate ==
  /\ pc = "escalate"
  /\ IF attempts[current] >= AttemptLimit
     THEN pc' = "fail" /\ stuck' = stuck \cup {current}
     ELSE pc' = "handle" /\ UNCHANGED stuck
  /\ UNCHANGED <<file, status, attempts, approval, mode, paused, firstRun, planning, current,
                 committed, outcome, limit, iteration, reviewed, result, runs, expiries>>

\* Mutant: the plan is given the status the history uses.
MarkStuck ==
  /\ pc = "fail"
  /\ pc' = "handle"
  /\ IF file = "whole"
     THEN status' = [status EXCEPT ![current] = "stuck"] /\ approval' = Rehashed
     ELSE UNCHANGED <<status, approval>>
  /\ UNCHANGED <<file, attempts, stuck, mode, paused, firstRun, planning, current, committed,
                 outcome, limit, iteration, reviewed, result, runs, expiries>>

MarkFailed ==
  /\ pc = "fail"
  /\ pc' = "handle"
  /\ IF file = "whole"
     THEN status' = [status EXCEPT ![current] = "failed"] /\ approval' = Rehashed
     ELSE UNCHANGED <<status, approval>>
  /\ UNCHANGED <<file, attempts, stuck, mode, paused, firstRun, planning, current, committed,
                 outcome, limit, iteration, reviewed, result, runs, expiries>>

HandleStatus ==
  /\ pc = "handle"
  /\ IF outcome = "complete"
     THEN Ends("complete")
     ELSE /\ pc' = "top"
          /\ UNCHANGED <<firstRun, planning, current, committed, outcome, limit, iteration,
                         result>>
  /\ UNCHANGED <<disk, reviewed, runs, expiries>>

-----------------------------------------------------------------------------
(* The environment. *)

\* The history is written in place, and so is the plan when post-processing marks a
\* subtask completed and when the loop stops for review: a process that dies while it
\* writes leaves a file that is not JSON. An unreadable history is replaced by an
\* empty one when it is next read.
Kill ==
  /\ pc # "idle"
  /\ Ends("killed")
  /\ \/ UNCHANGED <<file, attempts, stuck>>
     \/ /\ pc = "record" \/ (pc = "escalate" /\ attempts[current] >= AttemptLimit)
        /\ attempts' = [s \in Subtask |-> 0] /\ stuck' = {} /\ UNCHANGED file
     \/ /\ file = "whole"
        /\ \/ pc = "process" /\ status[current] = "pending" /\ committed
           \/ MayIterate /\ ~firstRun /\ NeedsReview
        /\ file' = "garbled" /\ UNCHANGED <<attempts, stuck>>
  /\ approval' = IF file' # file THEN Rehashed ELSE approval
  /\ UNCHANGED <<status, mode, paused, reviewed, runs, expiries>>

Expire(s) ==
  /\ attempts[s] > 0 /\ expiries < MaxExpiries
  /\ attempts' = [attempts EXCEPT ![s] = @ - 1] /\ expiries' = expiries + 1
  /\ UNCHANGED <<file, status, stuck, approval, mode, paused, process, reviewed, result, runs>>

HumanPauses ==
  /\ paused' = ~paused
  /\ UNCHANGED <<file, status, attempts, stuck, approval, mode, process, reviewed, result, runs,
                 expiries>>

-----------------------------------------------------------------------------
IterationHead == PausedByHuman \/ LimitReached \/ PlannerSession \/ AwaitReview
                   \/ NoPendingSubtasks \/ CoderSession

PostSession == ProcessPlan \/ RecordAttempt \/ Escalate \/ MarkFailed \/ HandleStatus

Loop ==
  IterationHead \/ PostSession \/ \E o \in {"continue", "complete", "error"} : SessionEnds(o)

Agent == PlannerWrites \/ (\E st \in Status : AgentMarks(st)) \/ AgentCommits \/ AgentGarbles

Human == (\E l \in Limits : Start(l)) \/ ApprovePlan \/ Approve \/ HumanPauses

Next == Loop \/ Agent \/ Human \/ Kill \/ \E s \in Subtask : Expire(s)

\* The loop goes on as long as its process lives, and a session comes to an end:
\* the stream of the SDK ends or raises.
Spec == Init /\ [][Next]_vars /\ WF_vars(Loop)

-----------------------------------------------------------------------------
(* Properties. *)

\* PhaseOrder: no subtask is ever begun, marked completed or given up before all
\* the phases its own depends on are complete, whatever sessions ended how, and
\* over restarts (get_next_subtask).
PhaseOrder ==
  \A s \in Subtask : status[s] # "pending" =>
    \A t \in Subtask : PhaseOf[t] \in DependsOn[PhaseOf[s]] => status[t] = "completed"

\* AttemptsBounded: a subtask that keeps failing is given up after AttemptLimit
\* attempts. Escalation writes two files, so a process killed between them, or a
\* plan written anew, costs one more attempt per run and never more
\* (run_autonomous_agent's stuck check, record_attempt, mark_subtask_stuck).
AttemptsBounded == \A s \in Subtask : attempts[s] < AttemptLimit + runs

\* StoppedForAReason: when the loop finds no pending subtask in a build that is not
\* complete, some subtask was given up or abandoned half-way: the phases never
\* block each other with all their subtasks untouched or done.
StoppedForAReason ==
  pc = "idle" /\ result = "no pending" /\ file = "whole" /\ ~BuildComplete =>
    \E s \in Subtask : status[s] \in {"failed", "in_progress"}

\* ReviewedBeforeCoding: for a task whose flag asks for review, no coder session
\* runs on a plan that no human has approved since a planner wrote it, over crashes
\* between planning and the pause, and plans written anew.  (Restarts are not forced:
\* one by a change request, in submit_review, passes the gate.)
ReviewedBeforeCoding == mode = "flag" /\ pc = "session" /\ current # 0 => reviewed

\* EveryRunEnds: whatever its agents do, the loop ends: failing subtasks are given
\* up and no error keeps it going for ever.
EveryRunEnds == pc # "idle" ~> pc = "idle"

\* RemainingCanBeWorked: after a run that ran out of pending subtasks and gave none
\* up, what remains can be worked on by running again, as the loop tells the user.
RemainingCanBeWorked ==
  pc = "idle" /\ result = "no pending" /\ file = "whole" /\ ~BuildComplete /\ stuck = {}
    /\ (\A s \in Subtask : status[s] # "failed") => NextSubtask # 0
=============================================================================
