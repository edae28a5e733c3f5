------------------------------ MODULE PlanSync ------------------------------
(***************************************************************************)
(* The two copies of implementation_plan.json of a task that is built in a *)
(* worktree.  run.py copies the specification directory into the worktree  *)
(* when it starts (core/workspace/setup.py) and works on that copy.  Three *)
(* writers bring the progress back into the main copy, the one users see:  *)
(* the run itself (sync_plan_to_source), the monitor of AgentService every *)
(* three seconds (_sync_worktree_files), and the routes that are about to  *)
(* change the status (sync_worktree_to_main_spec).                         *)
(*                                                                         *)
(* The server runs one segment at a time; an agent is another process and  *)
(* may write either copy between the server's read and its write, and may  *)
(* be killed in the middle of its own write.  A stop leaves the monitor of *)
(* the stopped run behind: the next run may start beside it.               *)
(***************************************************************************)
EXTENDS Integers, FiniteSets

CONSTANTS
  Planned,    \* the subtasks the planner made
  Marks,      \* the statuses of a subtask that are told apart
  MaxAsks,    \* bound: change requests made in a behaviour
  MaxRuns,    \* bound: runs in a behaviour
  AsksAtRest  \* changes are asked for only while nothing is under way

ASSUME AsksAssumption == MaxAsks \in Nat /\ AsksAtRest \in BOOLEAN
ASSUME RunsAssumption == MaxRuns \in Nat
ASSUME PlannedAssumption == IsFiniteSet(Planned) /\ Planned \cap Int = {}
ASSUME MarksAssumption ==
  /\ {"pending", "completed"} \subseteq Marks
  /\ Marks \subseteq {"pending", "in_progress", "completed", "failed"}

\* The n-th feedback phase has one subtask; it is named n.
Feedback == 1..MaxAsks
Subtasks == Planned \cup Feedback
NoAsk == 0
Runs == 1..MaxRuns
NoRun == 0

VARIABLES
  main,     \* the plan in .magestic-ai/specs
  wt,       \* the plan in the worktree
  wtThere,  \* there is a plan in the worktree, readable or not
  run,      \* each run.py: none, accepted (its start is), starting, copying, working
            \* or exited
  writing,  \* what each run has begun to write, and where, if anything
  killed,   \* a run was killed in the middle of a write
  monitor,  \* the _monitor_process of each run: none, starting (not yet created),
            \* watching, settling, dropping or over
  tracked,  \* the run in running_tasks
  held,     \* what a server segment, having read the copies, is about to write, if any
  kept,     \* the plan recover_task writes once its restart returned, if any
  built,    \* subtasks whose status in the worktree was last set to completed
  asked,    \* the change request made last
  beside    \* a start was accepted while another run was under way

service == <<run, monitor, tracked, kept, beside>>
vars == <<main, wt, wtThere, writing, killed, held, built, asked, service>>

\* A plan without phases; a file that does not parse, or is not there.
Empty == [readable |-> TRUE,
          mark |-> [s \in Subtasks |-> "absent"], ask |-> [f \in Feedback |-> NoAsk]]
Torn == [Empty EXCEPT !.readable = FALSE]

\* What is in the file, as far as it concerns the work.  (Its status is in TaskExecution.)
Plan == [readable : {TRUE},
         mark : [Subtasks -> Marks \cup {"absent"}],
         ask : [Feedback -> 0..MaxAsks]] \cup {Torn}

Done(plan) == {s \in Subtasks : plan.mark[s] = "completed"}
Present(plan) == {s \in Subtasks : plan.mark[s] # "absent"}
Lost(plan) == Present(plan) = {}

\* The server's segments that rewrite the plan.
Ops == {"drag", "changes", "recover", "attach", "tick", "final", "conclude", "stop"}
Nothing == [op |-> "none"]
NoPlan == [none |-> TRUE]

TypeOK ==
  /\ main \in Plan /\ wt \in Plan
  /\ wtThere \in BOOLEAN
  /\ run \in [Runs -> {"none", "accepted", "starting", "copying", "working", "exited"}]
  /\ writing \in [Runs -> [to : {"wt", "main"}, plan : Plan] \cup {Nothing}]
  /\ killed \in BOOLEAN
  /\ monitor \in [Runs -> {"none", "starting", "watching", "settling", "dropping", "over"}]
  /\ tracked \in Runs \cup {NoRun}
  /\ held \in [op : Ops, by : Runs \cup {NoRun}, plan : Plan] \cup {Nothing}
  /\ kept \in [Runs -> Plan \cup {NoPlan}]
  /\ built \subseteq Subtasks
  /\ asked \in 0..MaxAsks
  /\ beside \in BOOLEAN

\* A plan just written: nothing built yet, no worktree.
Init ==
  /\ main = [Empty EXCEPT !.mark =
                [s \in Subtasks |-> IF s \in Planned THEN "pending" ELSE "absent"]]
  /\ wt = Torn /\ wtThere = FALSE
  /\ run = [r \in Runs |-> "none"] /\ writing = [r \in Runs |-> Nothing] /\ killed = FALSE
  /\ monitor = [r \in Runs |-> "none"] /\ tracked = NoRun
  /\ held = Nothing /\ kept = [r \in Runs |-> NoPlan]
  /\ built = {} /\ asked = NoAsk /\ beside = FALSE

Fresh(r) == run[r] = "none" /\ \A q \in Runs : q < r => run[q] # "none"
Alive(r) == run[r] \in {"starting", "copying", "working"}
\* The process works, or the last sync of its monitor is still to come.
UnderWay(r) == Alive(r) \/ monitor[r] \in {"starting", "watching"}

\* The start of run r has passed the check of running_tasks.
Accept(r) ==
  /\ run' = [run EXCEPT ![r] = "accepted"]
  /\ beside' = (beside \/ \E q \in Runs : run[q] = "accepted" \/ UnderWay(q))

-----------------------------------------------------------------------------
\* run.py

\* copy_spec_to_worktree: rmtree of the old directory, then copytree.
RemoveOldCopy(r) ==
  /\ run[r] = "starting"
  /\ run' = [run EXCEPT ![r] = "copying"] /\ wtThere' = FALSE /\ wt' = Torn
  /\ UNCHANGED <<main, writing, killed, monitor, tracked, held, kept, built, asked, beside>>

\* A file is truncated first; what was written is there at the end.
BeginWrite(r, file, plan) ==
  /\ writing[r] = Nothing
  /\ writing' = [writing EXCEPT ![r] = [to |-> file, plan |-> plan]]
  /\ IF file = "wt" THEN wt' = Torn /\ UNCHANGED main ELSE main' = Torn /\ UNCHANGED wt
  /\ UNCHANGED <<killed, held, asked, service>>

CopySpec(r) ==
  /\ run[r] = "copying"
  /\ BeginWrite(r, "wt", main) /\ wtThere' = TRUE
  /\ UNCHANGED built

\* update_subtask_status, called by the agent: any subtask, any status.
MarkSubtask(r, s, m) ==
  /\ run[r] = "working" /\ wtThere /\ s \in Present(wt)
  /\ BeginWrite(r, "wt", [wt EXCEPT !.mark[s] = m])
  /\ built' = IF m = "completed" THEN built \cup {s} ELSE built \ {s}
  /\ UNCHANGED wtThere

\* update_qa_status and the plan review pause set the status of the worktree's copy.
SetStatus(r) ==
  /\ run[r] = "working" /\ wtThere /\ wt.readable
  /\ BeginWrite(r, "wt", wt)
  /\ UNCHANGED <<wtThere, built>>

\* sync_plan_to_source after a session, after planning and after QA: a copy of the file.
SyncPlanToSource(r) ==
  /\ run[r] = "working" /\ wtThere
  /\ BeginWrite(r, "main", wt)
  /\ UNCHANGED <<wtThere, built>>

\* The write, or the copy of the specification, is complete.
EndWrite(r) ==
  /\ Alive(r) /\ writing[r] # Nothing
  /\ writing' = [writing EXCEPT ![r] = Nothing]
  /\ IF writing[r].to = "main"
       THEN main' = writing[r].plan /\ UNCHANGED wt
       ELSE wt' = (IF wtThere THEN writing[r].plan ELSE wt) /\ UNCHANGED main
  /\ run' = [run EXCEPT ![r] = "working"]
  /\ UNCHANGED <<wtThere, killed, monitor, tracked, held, kept, built, asked, beside>>

\* It ends: done, failed, terminated by a stop, or killed in the middle of a write.
Exit(r) ==
  /\ Alive(r)
  /\ run' = [run EXCEPT ![r] = "exited"]
  /\ writing' = [writing EXCEPT ![r] = Nothing]
  /\ killed' = (killed \/ writing[r] # Nothing)
  /\ UNCHANGED <<main, wt, wtThere, monitor, tracked, held, kept, built, asked, beside>>

-----------------------------------------------------------------------------
\* What the server's segments make of the plans they read.

Rank(m) == IF m = "pending" THEN 0 ELSE IF m = "in_progress" THEN 1 ELSE 2

\* Mutant: main's subtask statuses are kept when they rank as high.
MergeKeepingMain(theirs, ours) ==
  [mark |-> [s \in Subtasks |->
     IF s \in Present(theirs) /\ s \in Present(ours)
        /\ Rank(ours.mark[s]) >= Rank(theirs.mark[s])
       THEN ours.mark[s] ELSE theirs.mark[s]],
   ask |-> theirs.ask,
   readable |-> TRUE]

\* _sync_worktree_files: the worktree's plan (theirs), no subtask going back in rank.
Merge(theirs, ours) ==
  [mark |-> [s \in Subtasks |->
     IF s \in Present(theirs) /\ s \in Present(ours)
        /\ Rank(ours.mark[s]) > Rank(theirs.mark[s])
       THEN ours.mark[s] ELSE theirs.mark[s]],
   ask |-> theirs.ask,
   readable |-> TRUE]

Ahead ==
  /\ wtThere /\ wt.readable /\ main.readable
  /\ Cardinality(Done(wt)) > Cardinality(Done(main))

\* sync_worktree_to_main_spec: the worktree's copy if it has more completed subtasks.
Synced == IF Ahead THEN wt ELSE main

\* get_plan_with_worktree_sync: a route that cannot read the plan goes on with an empty one.
Base == IF Synced.readable THEN Synced ELSE Empty

\* submit_review: feedback that is not completed is dropped, the new one, a, is added
\* as number n.
WithRequest(plan, n, a) ==
  LET open == {f \in Feedback : plan.mark[f] \notin {"completed", "absent"}}
  IN  [mark |-> [s \in Subtasks |->
         IF s = n THEN "pending" ELSE IF s \in open THEN "absent" ELSE plan.mark[s]],
       ask |-> [f \in Feedback |->
         IF f = n THEN a ELSE IF f \in open THEN NoAsk ELSE plan.ask[f]],
       readable |-> TRUE]

-----------------------------------------------------------------------------
\* The server's segments: read, then write.

WillWrite(op, r, plan) ==
  /\ held = Nothing /\ held' = [op |-> op, by |-> r, plan |-> plan]
  /\ UNCHANGED <<main, wt, wtThere, writing, killed, built, asked, service>>

\* update_task_status and update_task: the plan is written with its new status, or, when
\* a drag to done is refused, as the sync left it.
Drag == WillWrite("drag", NoRun, Base)

\* submit_review with changes requested; nothing is recorded in a plan without phases or
\* that does not parse.  The new number is one more than that of the
\* feedback phases kept.  (They are counted: a number in use is given again when a later
\* request was completed and an earlier one was not.  Here it is the first free one.)
RequestChanges ==
  /\ asked < MaxAsks /\ ~Lost(main)
  /\ AsksAtRest => \A r \in Runs : run[r] \in {"none", "exited"} /\ monitor[r] \in {"none", "over"}
  /\ \E n \in Feedback \ Done(main) :
       /\ 1..(n - 1) \subseteq Done(main)
       /\ WillWrite("changes", NoRun, WithRequest(main, n, asked + 1))

\* start_task_execution, first segment, called by a route.
Start(r) ==
  /\ Fresh(r) /\ tracked = NoRun /\ held = Nothing
  /\ Accept(r)
  /\ UNCHANGED <<main, wt, wtThere, writing, killed, monitor, tracked, held, kept, built, asked>>

\* recover_task with autoRestart: a process that is tracked is terminated first, and its
\* monitor left alone.  Without autoRestart it is a drag.
Recover(r) ==
  /\ Fresh(r)
  /\ tracked # NoRun => run[tracked] = "exited"
  /\ WillWrite("recover", r, Base)

\* The process is spawned and registered.
Spawn(r) ==
  /\ run[r] = "accepted" /\ held = Nothing
  /\ run' = [run EXCEPT ![r] = "starting"]
  /\ monitor' = [monitor EXCEPT ![r] = "starting"]
  /\ tracked' = r
  /\ UNCHANGED <<main, wt, wtThere, writing, killed, held, kept, built, asked, beside>>

\* Mutant: the plan recover_task had read is written by every start.
AttachKept(r) ==
  /\ monitor[r] = "starting"
  /\ WillWrite("attach", r, kept[r])

\* The monitor is created and start_task_execution returns.  The start route persists
\* in_progress in the plan as it is; recover_task persists it in the plan it had before;
\* the other routes, and monitors, persist nothing.
Attach(r) ==
  /\ monitor[r] = "starting"
  /\ \E plan \in IF kept[r] = NoPlan THEN {main, Torn} ELSE {kept[r]} :
       WillWrite("attach", r, plan)

\* Mutant: the plans are not merged once more when the run has ended.
SyncNoFinal(r) ==
  /\ monitor[r] = "watching" /\ wt.readable /\ main.readable
  /\ \/ run[r] # "exited" /\ wtThere /\ WillWrite("tick", r, Merge(wt, main))
     \/ run[r] = "exited" /\ WillWrite("final", r, main)

\* The tick of the monitor, and its last sync when the run has ended.
Sync(r) ==
  /\ monitor[r] = "watching" /\ wtThere /\ wt.readable /\ main.readable
  /\ WillWrite(IF run[r] = "exited" THEN "final" ELSE "tick", r, Merge(wt, main))

\* One of the plans does not parse: a plain copy of the file, whatever is in it.  There is
\* nothing to copy without a plan in the worktree.
CopyPlan(r) ==
  /\ monitor[r] = "watching" /\ held = Nothing
  /\ wtThere => ~wt.readable \/ ~main.readable
  /\ main' = IF wtThere THEN wt ELSE main
  /\ monitor' = [monitor EXCEPT ![r] = IF run[r] = "exited" THEN "settling" ELSE "watching"]
  /\ UNCHANGED <<wt, wtThere, run, writing, killed, tracked, held, kept, built, asked, beside>>

\* _update_plan_status: the outcome of the run is persisted.
Conclude(r) ==
  /\ monitor[r] = "settling"
  /\ WillWrite("conclude", r, main)

\* The process that stop_task terminated has exited; the status is persisted.
Stop ==
  /\ tracked # NoRun /\ run[tracked] = "exited"
  /\ WillWrite("stop", tracked, main)

\* The write of a segment.  There is none if the plan could not be read.
WritePlan ==
  /\ held # Nothing /\ held' = Nothing
  /\ main' = IF held.plan.readable THEN held.plan ELSE main
  /\ asked' = IF held.op = "changes" THEN asked + 1 ELSE asked
  /\ IF held.op = "recover" THEN Accept(held.by) ELSE UNCHANGED <<run, beside>>
  /\ tracked' = IF held.op \in {"recover", "stop"} THEN NoRun ELSE tracked
  /\ monitor' = CASE held.op = "attach" -> [monitor EXCEPT ![held.by] = "watching"]
                  [] held.op = "final" -> [monitor EXCEPT ![held.by] = "settling"]
                  [] held.op = "conclude" -> [monitor EXCEPT ![held.by] = "dropping"]
                  [] OTHER -> monitor
  /\ kept' = CASE held.op = "recover" -> [kept EXCEPT ![held.by] = held.plan]
               [] held.op = "attach" -> [kept EXCEPT ![held.by] = NoPlan]
               [] OTHER -> kept
  /\ UNCHANGED <<wt, wtThere, writing, killed, built>>

MonitorEnds(r) ==
  /\ held = Nothing /\ monitor' = [monitor EXCEPT ![r] = "over"]
  /\ UNCHANGED <<main, wt, wtThere, writing, killed, held, kept, built, asked>>

\* The monitor of a run that is no longer tracked leaves the rest to stop_task.
Defer(r) ==
  /\ monitor[r] = "settling" /\ tracked # r
  /\ MonitorEnds(r) /\ UNCHANGED <<run, tracked, beside>>

\* A retry, which stays tracked, or a continuation, which starts anew.
Restart(r, q) ==
  /\ monitor[r] = "settling" /\ Fresh(q)
  /\ MonitorEnds(r) /\ Accept(q)
  /\ tracked' \in {tracked, NoRun}

DropTracking(r) ==
  /\ monitor[r] = "dropping"
  /\ MonitorEnds(r) /\ tracked' = NoRun /\ UNCHANGED <<run, beside>>

-----------------------------------------------------------------------------
Agent(r) ==
  \/ RemoveOldCopy(r) \/ CopySpec(r) \/ SetStatus(r) \/ SyncPlanToSource(r)
  \/ EndWrite(r) \/ Exit(r)
  \/ \E s \in Subtasks, m \in Marks : MarkSubtask(r, s, m)

User == Drag \/ RequestChanges \/ Stop \/ \E r \in Runs : Start(r) \/ Recover(r)

Monitor(r) ==
  \/ Attach(r) \/ Sync(r) \/ CopyPlan(r) \/ Conclude(r) \/ Defer(r) \/ DropTracking(r)
  \/ \E q \in Runs : Restart(r, q)

Next == User \/ WritePlan \/ \E r \in Runs : Agent(r) \/ Spawn(r) \/ Monitor(r)

\* Writes, of the server or of an agent, are over in no time: there are moments between them.
Idle == held = Nothing /\ \A r \in Runs : writing[r] = Nothing

\* The monitor creates itself and syncs; a sync that falls into a write need not count.
Turn(r) ==
  \/ Attach(r) \/ Sync(r)
  \/ CopyPlan(r) /\ (wt.readable \/ run[r] = "exited")

\* asyncio runs segments in the order in which they became ready, and the monitor wakes
\* every three seconds: no stream of requests keeps it from its turn, and not every turn
\* falls into a write of the agent.  Neither the agent nor the users owe anything else.
Fairness == []<>Idle /\ SF_vars(\E r \in Runs : Turn(r))

Spec == Init /\ [][Next]_vars /\ Fairness

\* For TLC: a run need not follow what comes of overlapping starts.
Alone == ~beside

-----------------------------------------------------------------------------
\* Properties

\* The plan has the completed work.  Two cases are excepted where this is claimed.  The
\* first: a kill in the middle of a write leaves a file that does not parse, the sync
\* copies it over the other and a route that cannot read it writes a plan without phases:
\* then the plan as a whole is lost, and never just the progress in it.
HasWork(plan) == built \subseteq Done(plan) \/ (killed /\ Lost(plan))

\* The second: a start that was accepted before the run before had ended and its monitor
\* had made its last sync (after a stop, a recovery, or overlapping another start) may copy
\* or write back an old plan.

\* When a run gets to work, after any number of earlier runs, stops and recoveries, the
\* copy it works on still has every subtask that was completed before: none is built twice.
NoWorkIsRedone ==
  ~beside => \A r \in Runs : run[r] = "working" /\ writing[r] = Nothing => HasWork(wt)

\* Between runs the plan users see has everything the last run completed, although
\* the run and the server wrote it without a lock.
RestingPlanIsCurrent == ~beside /\ (\A r \in Runs : ~UnderWay(r)) => HasWork(main)

\* Where neither is the case, a change request stays in the plan, completed or not, until
\* the next request:
\* "on restart the coder implements it and QA re-validates afterwards".
RequestIsKept ==
  ~beside /\ ~killed /\ ~Lost(main) /\ asked # NoAsk =>
    \E f \in Feedback : f \in Present(main) /\ main.ask[f] = asked

\* Users get to see every completed subtask, with the same two exceptions.
ProgressIsShown ==
  \A s \in Subtasks :
    s \in built ~> \/ s \in Done(main) \/ s \notin built
                   \/ beside \/ (killed /\ Lost(main))

=============================================================================
