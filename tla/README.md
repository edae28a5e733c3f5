# Verification of aiorch's task life cycle

TLA+ models of the parts of aiorch that decide what happens to a task: which agent
process runs, who watches it, how it is retried, continued, stopped and settled, how its
specification comes about, how a build works through its subtasks, how its plan travels
between two copies, how the QA loop comes to its verdict, and how the result is previewed
and deployed. TLC checks the models on small instances; TLAPS proves their safety properties
for every value of the constants, and that the task service implements its abstract life
cycle. `PROJECT.json` lists the runs, the mutants (plausible bugs that every property is
shown to catch), the source lines of every definition, the findings, the hazards and the
theorems.

## 1. The system

| Component | Code | State | Operations | Hard behaviour | What makes it correct |
|---|---|---|---|---|---|
| Task execution service | `apps/web-server/server/services/agent_service.py`, `routes/execution.py` | dictionaries by task id (`running_tasks`, `_task_stopped`, `_task_profiles`, `_spec_dirs`, `_continuation_*`), the agent processes | start, stop, recover; per process a `_monitor_process` coroutine | asyncio interleavings at every await, exits that race stops, retries that replace processes, chains of continuations | one agent at a time, tracked and watched; every run settles with an outcome; retries and continuations run out |
| Plan approval and review routes | `routes/tasks.py` | `implementation_plan.json`, `review_state.json` | `approve_plan`, `submit_review` | replace a running process while its monitor is active | a user's decision is not overwritten |
| Human review gate | `review/`, `cli/build_commands.py`, `runners/spec_runner.py` | `review_state.json` | `run_review_checkpoint`, gate at the start of a build | the server and the process read and write the same file | no build without approval when it is required |
| QA validation loop | `apps/backend/qa/` | `qa_signoff`, `qa_iteration_history`, `QA_FIX_REQUEST.md` | review, judge, fix, process feedback | language models edit the files; kills and restarts; counters that outlive a run | bounded; recurring issues reach a human; human feedback first |
| Build loop | `agents/coder.py`, `agents/session.py`, `core/progress.py`, `services/recovery.py` | plan, `memory/attempt_history.json`, `PAUSE`, approval | plan, wait for review, pick a subtask, run a session, record the attempt, escalate | agents that leave any status or a broken file, crashes between two files, restarts | phases in order, attempts bounded, no unreviewed coding, every run ends |
| Implementation plan copies | `core/workspace/setup.py`, `agents/utils.py`, `agent_service.py` (`_sync_worktree_files`), `routes/tasks.py`, `routes/execution.py` | the plan in the main tree and in the worktree | copy at the start of a run, marks and sync of the agent, merge of the monitor, drags, change requests, recovery | no lock: two processes read, and write later | no completed work is lost; users see it; requests are kept |
| Spec creation pipeline | `spec/pipeline/`, `spec/phases/`, `spec/validate_pkg/` | the files of a spec directory | phases, retries, validation with a fixer, review, rename | runs over what earlier, perhaps killed, runs left | an undisturbed run succeeds; what passed validation is valid |
| Jenkins deploy | `apps/web-server/server/services/jenkins_deploy_service.py` | two worktrees and their branches, the artifact repository, a status | bump, publish, point the consumer, commit, push, build | a thread for each deploy, failures between any two steps, a base that moves | nothing pushed names an unpublished version; Jenkins builds what was published |
| Local previews | `apps/web-server/server/services/local_preview_service.py` | `_previews`, `task_metadata.json`, the development servers | start, stop, status, shutdown; a coroutine for each preview | coroutines that outlive the preview they belong to | a server that runs can be stopped; nothing builds for ever |
| Implementation plan classes | `implementation_plan/` | phases and subtasks | next subtask, status derivation | - | - |
| File lock | `runners/github/file_lock.py` | lock files, flock | acquire, release, locked JSON update | unlink races | mutual exclusion |
| GitHub runner | `runners/github/` | rate limits, issue life cycle, bot state | triage, review, fix | retries, persisted state | legal life cycles |
| Token and profile service | `services/claude_token_service.py` | profiles, usage | pick a token or a profile | usage caches | - |
| Terminals | `server/pty/` | PTY sessions | create, write, resize, close | reader callbacks against close | no leaked process |
| Others | providers, memory, ideation, roadmap, insights, web client, database | - | - | pipelines, CRUD, I/O | - |

How they interact. A route of the web server calls `AgentService`, which spawns
`spec_runner.py` (spec creation, continued by `run.py` in the same process once approved)
or `run.py` (the build: planner and coder sessions, then the QA loop). The processes talk
to the server through files: the plan, the review state and their exit code. The build
works on a copy of the plan in a worktree, from which three writers bring it back. The monitor
coroutine of a process polls every three seconds, copies files, and acts on the exit; it
may itself start the next process. Routes, monitors and the stop method share the
dictionaries of `AgentService` without locks: asyncio switches between them only at an
`await`, which is where all the hazards of this component are. Previews are coroutines of
the same event loop, deploys are threads; both report through `task_metadata.json`.

## 2. Modules

| Module | What it is |
|---|---|
| `TaskExecution` | one task: requests, processes, monitors |
| `MCTaskExecution` | configurations of `TaskExecution` for TLC |
| `TaskExecutionProofs` | theorems about `TaskExecution` |
| `TaskLifeCycle` | abstract specification: what starting a task once promises |
| `TaskLifeCycleProofs` | `TaskExecution` implements `TaskLifeCycle` |
| `PlanSync`, `PlanSyncProofs` | the two copies of a task's plan and everything that writes them |
| `SpecPipeline`, `SpecPipelineProofs` | the creation of a specification |
| `MCSpecPipeline` | the lists of phases that TLC checks `SpecPipeline` with |
| `BuildLoop` | the loop of planner and coder sessions, and what outlives a run of it |
| `MCBuildLoop` | the plan of two phases that TLC checks `BuildLoop` with |
| `BuildLoopProofs` | theorems about `BuildLoop` |
| `QALoop` | the QA loop and what outlives a run of it |
| `QALoopProofs` | theorems about `QALoop` |
| `JenkinsDeploy`, `JenkinsDeployProofs` | deploys of a task that changed a library |
| `LocalPreview`, `LocalPreviewProofs` | previews by a development server |

`TaskExecution` is composed with `TaskLifeCycle` by `INSTANCE ... WITH`; the other modules
stand for parts that meet only through files or exit codes, which each models as what the
other side may leave there.

### TaskExecution

One action is the code between two awaits. A coroutine is named by the request it serves
or by the process it monitors, and `pc` says at which await it is:

| `pc` | suspended in |
|---|---|
| `resume` | `approve_plan` or `submit_review` before it looks at `running_tasks` |
| `token` | a start method, resolving the profile's token |
| `spawn` | `create_subprocess_exec` |
| `attach` | the first `_emit_progress` after the spawn; the monitor is created next |
| `stopping`, `popping`, `stopped` | `stop_task`: `proc.wait()`, the status update, the events before it returns |
| `wait`, `terminating` | `_monitor_process`: the three-second wait; the wait after its own `terminate()` |
| `exited` | the final file sync of a build |
| `fallback`, `failover` | the preparation of a retry (model fallback; another profile) |
| `cleanup` | the events before the tracking is dropped |
| `done`, `refused`, `failed`, `crashed` | ended: normally, refused as already running or not approved, by an exception, by the outer handler of the monitor |

The state: `running` is `running_tasks[task_id]`, `stopFlag` membership in
`_task_stopped`, `attempt` the entry of `_task_profiles`, `round` the
`_continuation_<task_id>` attribute, `specDir` membership in `_spec_dirs`. `proc`, `kind`
and `retryOf` describe the processes; `plan` and `review` the two files; `settings` the
configuration that decides between the branches.

Abstractions. Every dictionary is keyed by task id and no method reads another task's
entry, so one task is modelled (the one exception, the choice of the newest spec
directory, is listed as a hazard). `_task_stopped` and the other entries are exact; log
writers, phases, sequence numbers, events and file copies are left out, except for the
awaits they introduce. A token is always resolved. The spawn and the registration in
`running_tasks` have no await between them and are one step; so are the write of the
retry's profile entry and the respawn. The plan is whether it has subtasks (`valid`),
whether any is open (`pending`), its status, and whether `plan_review.html` lies beside it
(`page`); the copies in the worktree and in the main tree are one plan. An agent works on a copy
that has a status of its own, the one it started with or the one that its planner, its review or its QA
verdict wrote, and `sync_plan_to_source` brings it along: whatever an agent writes
(`WritePlan`, `WorkOnPlan`) comes with any status. A status that comes with a copy of a torn
file is not followed. The review state is none, awaiting or approved: the hash of the
spec that an approval is bound to is not followed. The two fallback decisions that need
the output of the process (error patterns, rate limits) are choices. Whether a `Process`
object that has exited makes `terminate()` raise depends on whether asyncio has seen the
exit: it is a choice too. `wait_for_task` has no caller. `recover_task` is modelled by what
it does to the plan, in `PlanSync`, not by what it does to a process that runs.

### TaskLifeCycle

`stage` is new, working or over, `agent` whether an agent process runs, `specs` and `builds`
count the agents launched. A specification is written by at most two agents (the first and
its retry), never after a build was launched; a build takes at most `MaxRounds + 2`; nothing
is launched once the task is over. `FollowsLifeCycle` maps `TaskExecution` to it: the
stage is read off the start request and the coroutines under way, stops aside (a stop that
waits for its process keeps no task going), the agent off the live processes, the counts off
the processes that were used. Stops are allowed at any moment: they end agents, and the
abstract task does not care why an agent ended. A retry, the switch to the build and a continuation are in the
code three mechanisms in three places; the refinement says that they add up.

### PlanSync

`main` and `wt` are the two copies. Per run, `run` is `run.py` from the acceptance of its start to its
exit, `writing` the write it has begun, `monitor` its coroutine in the server, and `kept` the plan
that `recover_task` read before its restart and writes back after it; `tracked` is
`running_tasks[task_id]`. `built` (what the agents last marked completed), `asked` (the last
change request), `killed` and `beside` serve the properties only.

A segment of the server (`Attach`, `Sync`, `Conclude`, `Stop` and the routes) reads the copies,
and what it will write is `held` until `WritePlan` writes it. Server segments do not
overlap: the event loop has one thread. The agent is another process and may write either copy
in between, which is the race. Its own writes take two steps: `BeginWrite` truncates the file,
which does not parse from then on (`Torn`), and `EndWrite` leaves what was meant; an `Exit` in between is a
kill in the middle of `json.dump` or of a copy, and leaves the torn file. `CopyPlan` is the branch of the
sync for a plan that does not parse: the bytes of the worktree's copy, torn or whole, go over the
main one, in a tick and in the last sync alike. A route that finds no readable plan goes on with an
empty one (`Base`).

A start looks only at `tracked`. `stop_task` and `recover_task` clear it and leave the
monitor of the stopped run behind, so the next run may start while that monitor has its
last sync still to make; two starts may also overlap before either spawns. `beside`
remembers that one of this has happened: a start was accepted while another run was under way.

A plan is the mark of each subtask and who asked for each feedback phase, or it is torn. Left out:
the status of the plan (`TaskExecution` has it), the other files of the specification, the text
of subtasks, feedback phases that get the same number, a planner that plans a lost plan anew,
starts with an unreadable plan (they create the specification anew), spawns that fail, and a
server that dies before the last sync. The write of a segment of the server is one step: a
server that is killed in the middle of one is the case of a server that dies.

### SpecPipeline

`pc` is a step of `SpecOrchestrator.run`, or `phase` with the position in the `flow` that the
assessment chose. A file is absent, does not parse (`torn`), parses but is not what its
phase wants (`bad`), or `good`. A phase keeps a file that it finds, by the test the code makes
(existence for most, validity for the plan), runs a script or sessions otherwise, and is
tried `MaxRetries` times where the code retries. A session may leave anything in the files of
its phase, and a context script that fails or is timed out anything in the context, which the
next attempt takes as it is. `smooth` remembers whether every script and session of the run did its work and
nobody stopped it: it is the premise of `GoodRunSucceeds`, not part of the program. `Kill` may
cut the write of a file short. `moved` stands for the rename of a directory of the command
line, after which the run keeps its old path.

Left out: the numbering of spec directories and its lock, how the complexity is assessed (any
flow), phase summaries and logs.

### JenkinsDeploy

Each deploy is a thread: `worker[d].pc` names its next step, and `Fail` may end it at any of
them, after any part of the step's effects. A step is one read, write or git command: the version file
is read (`ReadVersion`), git shows the base branch (`LookAtBase`), and the text that was read is
written back (`WriteVersion`), staged and committed; the consumer's file likewise, and the
repositories are pushed one by one. Versions are the counters of the version
patterns; `library` and `consumer` hold per task the version in the file of the worktree, in
its index, in its `HEAD` and at the remote. `base` moves on its own (`BaseAdvances`). Nothing keeps a second
deploy of the task away, and nothing does in the model; `alone` remembers whether one did
overlap, `sole` whether one did while both were bumping. `Crash` is the end
of the server: the threads are lost, the statuses stay. Left out: configuration and credentials, a base branch whose version cannot be read, other
keys of `task_metadata.json`.

### LocalPreview

`preview[n]` is the object of the n-th start and its coroutine: `begun` (the task was created),
`spawning` (`create_subprocess_shell` is awaited), `waiting` (for the port), `failing` (the failure
is sent to the clients), `over`, or `gone` with the web server. A preview knows its process
only from `waiting` on, so a start, stop or shutdown before that kills nothing: `lost`
remembers these previews and those alive in a crash. `Shutdown` is `shutdown_all`; the coroutines
go on while the rest of the server is shut down (`closing`), until the process ends (`Restart`,
which is also a crash). A server is `dying` between the signal and its
end and still accepts connections. The rest of `_previews` and `task_metadata.json` is `handle`
and `meta`; `Get` is the status request, which reconciles them. Left out: docker compose and
remote previews and their reaper, switches between the strategies, a log pattern as a sign
of readiness, the deletion of a task, and errors when the metadata file is written, which `_persist`
ignores. A process group is one process.

### BuildLoop

`pc` names the step of `run_autonomous_agent`: `top` is the head of the loop, `session` a
running agent, `process` to `fail` are `post_session_processing` and the stuck check, one
step for each file they write, and `handle` is the branch on what the session returned.
`file`, `status`, `attempts`, `stuck`, `approval`, `mode` and `paused` are on disk and
outlive the process; the rest of the state is the process, which forgets it when it ends.
A plan with subtasks is as long as the constants say: a planner that plans anew writes all
of them as pending. `file = "none"` covers the skeleton that `spec_runner` may leave.

A coder may give its own subtask any status, at any time and as often as it likes, may
commit, may leave a plan that does not parse (`garbled`), and its session may raise. It is
taken not to edit other subtasks or repair a broken plan: the prompt names one subtask, and
`update_subtask_status` refuses a file that does not parse. An approval holds the hash of
the plan's text, so each write of the plan makes it stale (`Rehashed`);
that `approve_plan` hashes before it rewrites is kept. `Kill` may cut a write in place
short: the history becomes empty at the next load, the plan `garbled`; the write of
`mark_subtask_stuck` is atomic and is not. `attempts` counts what `get_attempt_count`
counts, `Expire` is an attempt that leaves the two-hour window. Left out: the restart that
`submit_review` forces past the gate (`tasks.py:1955`; the gate is there for the others), the record of good
commits (nothing in the loop reads it), the copy of the plan to the main tree, memory,
insights and logs, the error classes of a session, which the loop does not use.

### QALoop

`pc` names the step of `run_qa_validation_loop`; `plan` is what the loop reads of
`implementation_plan.json`, `fixRequest` who wrote `QA_FIX_REQUEST.md`. The reviewer and
the fixer are language models with tools: a session may leave any verdict, none, or a
file that does not parse, and may raise. Issues are compared by the code up to a
similarity of titles and places; the model works with the classes of that comparison.
`record_iteration` replaces a plan that it cannot parse by one that holds nothing but the
history (`file = "emptied"`). `Kill` is a stop of the build at any await, which may cut a
write short. Humans act between runs: `GiveFeedback` writes a fix request by hand,
`RequestChanges` is the review route. The session counter is capped at `MaxIterations`,
beyond which no comparison tells two values apart. Errors of the file system on
`unlink` are left out.

## 3. Runs

| Run | Shows | Bounds |
|---|---|---|
| `task_once` | a task started once and stopped at any moment, under all eight configurations: `TrackingIsExact`, `StopEndsBuild`, `QuietIsSettled`, `ComesToRest`, `FollowsLifeCycle` | 1 start, 1 stop; 7 processes, 2 continuation rounds: spec, build, a retry of each, both rounds and one process to spare |
| `task_contended` | two of six requests (two starts, stop, approve, changes, accept) at any await: `EveryProcessIsWatched`, `OneRetryPerRun`, `AgentsBounded`, `DoneStaysDone` | 3 processes, 1 round, with and without retry and review: enough for two overlapping starts and a retry; the two starts are interchangeable (symmetry: no liveness is checked here) |
| `task_stop` | violation of `StopIsFinal` | one start, one stop |
| `build_loop` | `PhaseOrder`, `AttemptsBounded`, `StoppedForAReason`, `ReviewedBeforeCoding`, `EveryRunEnds` | 2 subtasks in 2 phases, the second waiting for the first: the smallest plan in which one blocks the other; 2 attempts (the code has 3: one that fails, one that escalates); 2 runs, so that every kill is followed by a restart; 1 expiry; no limit or 1 iteration; all review modes |
| `build_resume` | violation of `RemainingCanBeWorked` | the same plan, 3 attempts, one run, no review |
| `qa_loop` | `RecurringIssuesEscalate`, `FeedbackFirst`, `ErrorsInARow`, `EveryRunEnds` | 2 issues, 4 iterations, 2 errors, threshold 3, 2 runs: escalation, the error limit and the iteration limit are each reached, within and across runs |
| `plan_sync` | `NoWorkIsRedone`, `RestingPlanIsCurrent`, `ProgressIsShown` | 1 planned subtask and 1 change request, 3 marks, 2 runs; recoveries, stops and drags without bound: a race needs one subtask and two writers, a loss between runs two runs. `Alone`: no behaviour is followed beyond a start that was accepted beside another run, which the properties except |
| `plan_request` | violation of `RequestIsKept` | the same, changes asked for only between runs |
| `spec_pipeline` | `GoodRunSucceeds`, `SuccessIsUsable`, `EveryRunEnds` | the 3 attempts of the code, 2 runs (one that leaves something, one that finds it), the quick, standard, complex and enterprise flow and one that only an assessor would choose, both origins |
| `jenkins_deploy` | `PushedIsPublished`, `BuildsWhatItPublished`, `BaseIsUntouched`, `StatusIsFinal`, `EveryDeployEnds` | 2 deploys over 3 tasks, two of which changed the library: overlaps in one task, in two, with and without a bump; the base moves once, up to and past a bump |
| `jenkins_retry` | violation of `BumpsAreCommitted` | 2 deploys of one task, the base at rest |
| `local_preview` | `LiveIsReachable`, `FailedIsDown`, `BuildingIsBuilt`, `EveryPreviewSettles` | 2 starts, of one task or of two, 2 ports: a preview replaced by another, two in competition for a port |

`MaxRequests` bounds the requests of a behaviour, `MaxProcs` the processes: when none is
left, a spawn fails, which is a step the code handles. `MaxRuns` bounds the runs of the
build loop, of the QA loop, of the spec creation and of `PlanSync`, `MaxExpiries` the attempts that leave their
window, `MaxTally` (above the threshold) the count of an issue, `MaxAsks` the change
requests, `MaxDeploys` and `MaxStarts` the deploys and previews, `MaxBase` the version of the
base branch. Where the runs switch off deadlock checking, the system is allowed to stop: all
requests served, all processes gone. `plan_sync`, `plan_request` and `local_preview` check it.

What the violations mean:

* **A stop does not end a task whose spec is being created.** `stop_task` marks the task and
  terminates `spec_runner.py`; the monitor's spec branch (and both retry branches) come
  before the test of the mark, so a new agent is started (`StopIsFinal`). What is left of the
  promise is `StopEndsBuild`: in a task without a specification phase and without a retry, no
  agent is alive once a stop has returned.
* **A subtask left in progress is never worked on again.** Only pending subtasks are selected
  and nothing resets the status, so a session that ends with its subtask in progress ends
  the build, with two of its three attempts unused; the advice to run again does not help
  (`RemainingCanBeWorked`).
* **A change request can be lost at the restart that serves it.** The monitor of the new run
  may sync before `run.py` has copied the main plan: the plan of the last run replaces the one
  with the request (`RequestIsKept`). No kill, no overlapping start and no lost plan is
  needed: the property excepts them.
* **A deploy may build the old dependency.** Whether a bump is due is decided by the file, what
  is pushed is `HEAD`: after a deploy that failed between writing and committing, the next one
  commits nothing and reports success (`BumpsAreCommitted`).

What the models also show, without a run of its own:

* A stop that meets a process that has just exited raises after the mark is set; the
  monitor then skips its cleanup and the task stays tracked. `TrackingIsExact` and
  `QuietIsSettled` are therefore stated until a stop takes hold (`Undisturbed`).
* The monitor of a retry gets neither `cmd` nor `env`, which auto-continuation requires: a
  retry's clean exit with open subtasks becomes completed.
* A run that ends writes its own status over one that was set meanwhile, except over done.
  An agent that still runs overwrites done too: its copy of the plan has its own status.
  `DoneStaysDone` excepts the agents, and only them.
* A run that ends before there is a plan with phases leaves its task in progress for ever:
  `_update_plan_status` writes no status to such a plan. So does a retry that cannot be spawned.
  `QuietIsSettled` excepts both by name (`Unplanned`, `RetryCrashed`).
* `plan_review.html` is never removed: the tick of a spec creation that was approved may put its
  task back to review.
* A kill in the middle of an agent's write loses the whole plan: the torn copy goes over the main
  one, and the next route that finds no readable plan writes an empty one. `HasWork` excepts it
  (`killed`, and the plan has nothing left); progress alone is never lost in this way.
* A start accepted beside the monitor of a stopped run may copy or write back a plan
  without the last work. `NoWorkIsRedone` and `RestingPlanIsCurrent` except it (`beside`).
* The QA loop records a rejection before it searches the history, so the current report counts twice and an
  issue is escalated at its second rejection, where `report.py:19`, the docstring (`loop.py:140`) and the
  message to the user (`loop.py:403`) speak of three or more. `RecurringIssuesEscalate` states the
  documented limit, which the stricter code keeps: no fix after three rejections. The
  loop takes up a session count that a change request does not reset; and a fix request that the reviewer wrote looks to the next run like feedback of a human.
* A directory of the command line that was renamed leaves its run with the old path.
* Two deploys of a task that bump at the same time can push a consumer that names a version
  which nobody published: the one that read the version file first writes its stale text over
  the other's bump, and the other's gradle publishes what it finds. The base branch may also reach
  the version between the one look at it and gradle. `PushedIsPublished` and `BaseIsUntouched` name
  both exceptions, and are violated without them.

With overlapping requests there may be several agents, and `running_tasks` need not name the
one that runs: both start methods test it several awaits before they set it. What holds
then is that every process is watched and that there are no more agents than requests for one
(`AgentsBounded`). For a task started once this is one agent at a time, which
`FollowsLifeCycle` includes.

Fairness. `ComesToRest` assumes that asyncio runs every ready coroutine and that every
agent process ends, by itself or by the `SIGKILL` five seconds after a stop; users owe
nothing and a sync tick need not find anything. `EveryRunEnds`, of the build loop and of
the QA loop, assumes that a run whose process lives goes on: an agent session waits for
nothing but the stream of the SDK, which ends or raises. Agents, humans, kills and expiries
owe nothing. With unbounded expiries a build need not end: sessions slow enough that no
two attempts are in the window together never escalate. The `EveryRunEnds` of the spec
creation is of the same kind: scripts have a timeout, a session ends or raises.

`ProgressIsShown` assumes strong fairness of a monitor's `Turn`, its start and its syncs: routes
may take the event loop in between and disable them, but it runs segments in the order in
which they became ready and the monitor's timer fires every three seconds, so no stream of
requests keeps it from its turn. It assumes `[]<>Idle` too: a write of the server or of an agent
takes no time to speak of, and a monitor that wakes every three seconds does not find one under way
every time. The agent need not begin a write, or exit. `EveryDeployEnds`
assumes that the steps of a thread go on: git and HTTP calls have timeouts, the wait for Jenkins
a deadline. Jenkins need not answer. gradle is taken to end by itself, because its deadline is
looked at only when it prints a line. `EveryPreviewSettles` assumes that the event loop
runs the coroutine and that its clock goes on; a server may do nothing at all.

## 4. Proofs

`TaskExecutionProofs` assumes only that the bounds are natural numbers, that the settings
are records of booleans and that requests are not integers and serve one route each.

* `TypeCorrect`: one lemma per group of actions, one step per action.
* `Watched`, `RetriedOnce`: the inductive invariant `IInv` adds to the two properties that
  an unused process is blank, that a start about to attach a monitor names a used process
  without one and is the only one to name it, that only first runs are about to be
  retried, and that a retried run's monitor has ended. Without the exclusiveness of the
  attaching start, a second start could attach to the same process; without the last one, a
  run could be retried again. `StepShape` reduces the steps of the system to five shapes
  (a move, a spawn, an attach, a respawn, nothing), and one lemma per shape shows that the
  invariant is kept.
* `DoneKept`: every write of the status by a monitor or a stop goes through
  `_update_plan_status`, which leaves done alone; the steps that remain are those of the three
  routes and of the agents, which the property names.
* `AgentsAreBounded`: a live agent has a coroutine at work behind it, its monitor or the start
  about to create one (`LiveIsAtWork`), and two agents never the same. `Bounded` is
  inductive: coroutines at work (`AtWork`) come from requests only; a monitor that goes on by
  a retry, a continuation or the build hands its place to the next one (`HandOver`) and
  never doubles it. The theorem compares cardinalities of sets, through an injection.
* Under `OneStart` (one start request, no approval or change request; any number of stops
  and acceptances) `Bounded` says that one coroutine is at work at most (`OneAtWork`), from
  which `OneAgentAtOnce` follows. `Chain` adds that a start which has not spawned yet finds
  nothing tracked. These hold for any number of rounds and processes, so also for the ten
  rounds of the code.
* `TrackingExact`: `Tracking` says that, until a stop takes hold, there is no stop mark, the live
  process is tracked, and what is tracked has a monitor that will drop it.
* `SettledOnce`: with `OutcomeIsShown`, that the outcome is in the plan as soon as all that is
  left to do is the cleanup, but for the property's two exceptions, a task without a plan and
  a retry that was not spawned. `QuietIsSettled` itself is not inductive: a cleanup leads
  to rest without writing a status.
* `StopEnds`: `StopHolds` says that once a stop has taken hold, whatever is at work has the stop
  mark before it or only its cleanup, and that the process the stop waits for is the one that
  lives. It fails in a specification phase and in the retry branches, as `task_stop` shows, and
  is inductive without them: a process keeps its kind, so a task without them now had
  none before.

`TaskLifeCycleProofs` proves `LifeCycleFollowed`, that `Spec` implies `FollowsLifeCycle` under
`OneStart`, stops included. Beside `Bounded` and `Chain` it needs `Paid`: every launch is paid
for, by the start, by a round or by the retry that a first run has. `Paid` bounds the
agents launched so far by the round, with one more while the current run may still be retried,
and says that a specification that is current comes before any build. From it, each step is
one of the life cycle (`RequestBegins`, `LaunchIsAllowed`, the exit in `TickAgentLives`) or
leaves all that is seen unchanged but for the stage (`UnseenStep`); the steps of a stop are among
the latter.

`BuildLoopProofs` assumes a plan of any length whose phases depend on earlier phases, and
natural numbers as limits.

* `TypeCorrect`: the files and the process are handled apart (`Data`, `Flags`,
  `OnSubtask`: whatever is processed after a session has a subtask).
* `PhasesInOrder`: inductive with `WorksInOrder`, that a session and its post-processing
  work on a subtask whose phase has its dependencies complete. It needs that an agent
  changes only its own subtask, and that a dependency is in an earlier phase, so
  that a session never undoes what it depends on.
* `ReviewedFirst`: the invariant `ReviewInv` says that an approval that is valid for a plan
  was given to that plan (`ApprovedIsReviewed`), that a flagged task has something reviewed
  once it is past planning, and that a run that begins without a plan plans first. It is
  what makes a crash between planning and the pause harmless: the restart is blocked.
* `AttemptsAreBounded`: `Spent` is the set of subtasks that have used what they may use in the
  run. `AttemptInv` says that a spent subtask is not pending, unless the loop is about
  to escalate it, and that whatever is worked on is not spent; a new run empties the set.
* `StopHasReason`: in the first phase that is not complete every pending subtask can be worked on
  (`NothingBlocks`), so a loop that finds none has one that failed or was abandoned. The
  first phase and the first workable subtask exist because the natural numbers are
  well-founded (`Least`); phases that depended on each other in a circle would block.

* `RunsAreFinite`: see below.

`QALoopProofs` proves the four safety properties of `qa_loop` for any limits and issues;
the strengthening is that a run that goes on has errors left (`ErrorsLeft`).

`PlanSyncProofs` proves `NothingRedone` and `RestingCurrent` for any plan and any number of runs and
requests. `NoWorkIsRedone` is about a running agent, but what it reads was in the main copy
when the run began, and that was written by segments that had read it earlier. `WorkIsSafe`
therefore speaks of every plan that a run may yet start from: whenever no agent has written
since the last sync (`Still`), the main copy, the segment under way and the plan kept by a recovery have
all the work; otherwise the worktree's copy has it, or the write that the agent has begun. It rests on
`One`, that no two runs are under way at once, and on `Places`, that only the run which works
there has truncated the worktree's copy; both hold up to a start accepted beside another run. `Phases` says which
segments there can be when. A torn file has no subtasks: a kill in the middle of a write makes `HasWork`
true of it by its exception, and whatever is read from a plan that has the work, or is lost, is again
such a plan (`BaseIsPlan`, `MergeHasWork`, `RequestIsPlan`).

`SpecPipelineProofs` proves `GoodRun` and `SuccessUsable` for any number of attempts and any
flows. `Places` is what the origin says of the files, `Known` that a flow is begun only if
its phases are known, `Fixed` that a fixer in a smooth run leaves nothing to fix, `Checked`
that nothing is written after the validation.

`JenkinsDeployProofs` proves all four safety properties for any tasks and any number of
deploys. `Resolvable` (only published versions are named anywhere) is inductive with `Aimed`,
what a thread's target is to the file and the base (to the file only while it is the only one to bump, which
`Exclusive` says of a thread that is `sole`); `Ready` is how far a thread that is alone
has brought both repositories.

`LocalPreviewProofs` proves `Reachable`, `FailedDown` and `Built` for any tasks, ports and
starts. `Registered` says that a handle names a preview of its task, `Unspawned` that before
the spawn there is no process and the preview is still registered, or was dropped.

The three theorems `RunsAreFinite` are the safety half of the three `EveryRunEnds`, for any
limits: a ranking function that is a natural number, bounded by the constants, and that the
loop's steps decrease, so that a run takes a bounded number of them, whatever its agents,
kills and users do.

* QA loop: `StepsLeft` counts five steps for each iteration that is left; the bound is
  `5 * MaxIterations + 4`.
* Build loop: iterations need not be limited, so what ends a run is that every round
  records an attempt. `Chances` is the finite set of the attempts that may still be recorded; a
  recorded attempt takes one of them because `AttemptsBounded` holds, an attempt that expires gives a chance back and uses
  one of `MaxExpiries` up, and `Rounds`, the sum of both, never grows. `StepsLeft` counts eight
  steps for a round and those `Ahead` in the session under way. The bound is
  `8 * (N * (AttemptLimit + runs) + MaxExpiries) + 18`. Without a readable plan the loop
  gets to its head only once more.
* Specification: `Place` orders the steps of a run, and `AttemptsLeft` counts the attempts left
  in the phases of the flow, at most `MaxRetries` for each.

Every safety property of the passing runs is proved, those of `task_once` for any number of
stops, and so is the refinement. Only model-checked are the liveness
properties, `ComesToRest`, the three `EveryRunEnds`, `ProgressIsShown`, `EveryDeployEnds` and
`EveryPreviewSettles`, since TLAPS does not reason about fairness: that a run which can take
only finitely many steps also takes them is what `WF_vars` adds.

## 5. Plan

Done: the task life cycle with its abstract specification and the refinement proved, the
specification, the build, the QA loop, the copies of the plan, deploys and previews, with
their safety properties proved. What is left, in order:

1. `recover_task` in `TaskExecution`, for a task whose monitor is alive.
2. The composition of `TaskExecution` with `BuildLoop`: a `PAUSE` file against
   auto-continuation, exits against what the build left open. For `BuildLoop`, an abstract
   build whose open subtasks only shrink between plans.
3. `FileLock`: the life cycle of a lock file (open, flock, unlink at release) and the locked
   read-modify-write of JSON; abstract specification: a mutex.
4. Two tasks, for the choice of the newest spec directory.
5. Terminals and the GitHub runner's rate limiter.

## 6. Not modelled

* In the components above: what each section of part 2 names as left out.
* Implementation plan classes: the loops read and write the JSON itself.
* Workspaces and merging: sequences of git commands whose effects are outside the program.
* Token and profile service: a lookup; a token is always resolved.
* WebSocket events: only the awaits that they introduce are kept.
* File lock, GitHub runner, terminals: planned, see above.
* Providers, memory, ideation, roadmap, insights, the web client, the database, deployment
  scripts and language servers: sequential, or their logic is outside the repository.
