--------------------------- MODULE JenkinsDeploy ---------------------------
(***************************************************************************)
(* Deploying a task through Jenkins (services/jenkins_deploy_service.py).  *)
(* Two repositories are involved: a library and its consumer, which names  *)
(* the library's version.  A deploy of a task that changed the library     *)
(* bumps the version, publishes the library, points the consumer at it,    *)
(* commits both, pushes, and has Jenkins build the consumer's branch.      *)
(*                                                                         *)
(* Each deploy is a thread.  Nothing keeps a second one away, every step   *)
(* may fail, the server may die, and others move the base branch meanwhile.*)
(* Versions are the counters {n} of the version patterns.                  *)
(***************************************************************************)
EXTENDS Integers, FiniteSets

CONSTANTS
  Tasks,
  Changed,     \* the tasks that changed the library
  MaxDeploys,  \* bound: deploys
  MaxBase      \* bound: version on the base branch

ASSUME ChangedAssumption == Changed \subseteq Tasks
ASSUME BoundsAssumption == MaxDeploys \in Nat /\ MaxBase \in Nat \ {0}

VARIABLES
  base,       \* the library's version on the base branch
  library,    \* per task: its version in the worktree's file, in the index, in HEAD and
              \* at origin
  consumer,   \* per task: the version that the consumer names, likewise
  published,  \* versions in the artifact repository
  status,     \* per task: task_metadata.json, key jenkins
  worker      \* per deploy: its thread

vars == <<base, library, consumer, published, status, worker>>

Deploys == 1..MaxDeploys
Versions == 1..(MaxBase + 1)
Repos == {"library", "consumer"}
Transient == {"bumping", "publishing", "pushing", "triggering", "queued", "building"}

\* Up to its gradle a thread relies on the file with the library's version.
Bumping == {"begun", "look", "write", "stage_bump", "commit_bump", "publish"}
Active == Bumping \cup {"point", "write_dependency", "stage_dependency",
                        "commit_dependency", "push", "trigger", "queued", "building"}

\* What a thread becomes: ended by itself, or lost with the server.
Gone == {"ended", "lost"}

\* remote = 0: the branch was not pushed
Copies == [file : Versions, staged : Versions, head : Versions, remote : Versions \cup {0}]

\* seen, target and base are locals of _publish_library (0: not assigned), left the
\* repositories still to be pushed.  alone remembers that no deploy of the same task
\* overlapped, sole that none did while both were bumping.
Workers == [pc : Active \cup Gone \cup {"none"}, task : Tasks,
            seen : Versions \cup {0}, target : Versions \cup {0}, base : Versions \cup {0},
            left : SUBSET Repos, alone : BOOLEAN, sole : BOOLEAN]

TypeOK ==
  /\ base \in 1..MaxBase
  /\ library \in [Tasks -> Copies]
  /\ consumer \in [Tasks -> Copies]
  /\ published \subseteq Versions
  /\ status \in [Tasks -> Transient \cup {"none", "success", "failed"}]
  /\ worker \in [Deploys -> Workers]

\* A worktree without changes, whose branch was not pushed.
Clean(v) == [file |-> v, staged |-> v, head |-> v, remote |-> 0]

\* The agent may have bumped the version of a library that it changed.
Init ==
  /\ base = 1
  /\ \E bumped \in SUBSET Changed :
       library = [t \in Tasks |-> Clean(IF t \in bumped THEN 2 ELSE 1)]
  /\ consumer = [t \in Tasks |-> Clean(1)]
  /\ published = {1}
  /\ status = [t \in Tasks |-> "none"]
  /\ worker \in [Deploys -> [pc : {"none"}, task : Tasks, seen : {0}, target : {0},
                             base : {0}, left : {{}}, alone : {TRUE}, sole : {TRUE}]]

-----------------------------------------------------------------------------
Task(d) == worker[d].task
At(d, pc) == worker[d].pc = pc
Goto(d, pc) == worker' = [worker EXCEPT ![d].pc = pc]
Report(d, s) == status' = [status EXCEPT ![Task(d)] = s]

\* Another deploy of the task is at one of these steps.
Meets(d, e, steps) == e # d /\ Task(e) = Task(d) /\ worker[e].pc \in steps

\* deploy: the route has no guard against a deploy that is under way.  Deploys are
\* numbered as they start.
Deploy(d) ==
  /\ At(d, "none") /\ \A e \in 1..(d - 1) : ~At(e, "none")
  /\ worker' = [e \in Deploys |->
       IF e = d
         THEN [worker[d] EXCEPT !.pc = "begun",
                                !.alone = ~\E f \in Deploys : Meets(d, f, Active),
                                !.sole = ~\E f \in Deploys : Meets(d, f, Bumping)]
         ELSE [worker[e] EXCEPT !.alone = @ /\ ~Meets(d, e, Active),
                                !.sole = @ /\ ~Meets(d, e, Bumping)]]
  /\ Report(d, "bumping")
  /\ UNCHANGED <<base, library, consumer, published>>

\* Go on to the pushes: of the consumer's branch, and the library's if it was changed.
ToPush(d) ==
  /\ worker' = [worker EXCEPT ![d].pc = "push",
                              ![d].left = IF Task(d) \in Changed THEN Repos ELSE {"consumer"}]
  /\ Report(d, "pushing")

\* The version file is read.  A task that left the library alone skips to the push.
ReadVersion(d) ==
  /\ At(d, "begun")
  /\ IF Task(d) \in Changed
       THEN /\ worker' = [worker EXCEPT ![d].pc = "look", ![d].seen = library[Task(d)].file]
            /\ Report(d, "bumping")
       ELSE ToPush(d)
  /\ UNCHANGED <<base, library, consumer, published>>

\* Mutant: a branch that equals the base is taken for one that is bumped already.
TargetAtBase(current) == IF current >= base THEN current ELSE base + 1

\* Mutant: every deploy bumps.
TargetAlwaysBumped(current) == current + 1

\* A branch that is ahead keeps its version: a redeploy, or the agent's own bump.
Target(current) == IF current > base THEN current ELSE base + 1

\* git shows the version on the base branch, and the target is chosen.
LookAtBase(d) ==
  /\ At(d, "look")
  /\ LET target == Target(worker[d].seen)
         pc == IF target = worker[d].seen THEN "publish" ELSE "write"
     IN  /\ worker' = [worker EXCEPT ![d].pc = pc, ![d].target = target, ![d].base = base]
         /\ Report(d, IF pc = "publish" THEN "publishing" ELSE "bumping")
  /\ UNCHANGED <<base, library, consumer, published>>

\* The text that was read is written back with the target in it, whatever the file has
\* become meanwhile.
WriteVersion(d) ==
  /\ At(d, "write") /\ Goto(d, "stage_bump")
  /\ library' = [library EXCEPT ![Task(d)].file = worker[d].target]
  /\ UNCHANGED <<base, consumer, published, status>>

\* git add
StageBump(d) ==
  /\ At(d, "stage_bump") /\ Goto(d, "commit_bump")
  /\ library' = [library EXCEPT ![Task(d)].staged = library[Task(d)].file]
  /\ UNCHANGED <<base, consumer, published, status>>

\* git commit fails when there is nothing to commit: an overlapping deploy did it.
CommitBump(d) ==
  /\ At(d, "commit_bump")
  /\ library' = [library EXCEPT ![Task(d)].head = library[Task(d)].staged]
  /\ IF library' = library THEN Goto(d, "ended") /\ Report(d, "failed")
                            ELSE Goto(d, "publish") /\ Report(d, "publishing")
  /\ UNCHANGED <<base, consumer, published>>

\* Mutant: the exit code of gradle is not looked at.
PublishUnchecked(d) ==
  /\ At(d, "publish")
  /\ published' \in {published, published \cup {library[Task(d)].file}}
  /\ Goto(d, "point")
  /\ UNCHANGED <<base, library, consumer, status>>

\* Gradle publishes the version that it finds in the file.
Publish(d) ==
  /\ At(d, "publish")
  /\ published' = published \cup {library[Task(d)].file}
  /\ Goto(d, "point")
  /\ UNCHANGED <<base, library, consumer, status>>

\* The consumer's file is read: one that names the target already is left as it is.
Point(d) ==
  /\ At(d, "point")
  /\ IF consumer[Task(d)].file = worker[d].target
       THEN ToPush(d)
       ELSE Goto(d, "write_dependency") /\ UNCHANGED status
  /\ UNCHANGED <<base, library, consumer, published>>

WriteDependency(d) ==
  /\ At(d, "write_dependency") /\ Goto(d, "stage_dependency")
  /\ consumer' = [consumer EXCEPT ![Task(d)].file = worker[d].target]
  /\ UNCHANGED <<base, library, published, status>>

StageDependency(d) ==
  /\ At(d, "stage_dependency") /\ Goto(d, "commit_dependency")
  /\ consumer' = [consumer EXCEPT ![Task(d)].staged = consumer[Task(d)].file]
  /\ UNCHANGED <<base, library, published, status>>

CommitDependency(d) ==
  /\ At(d, "commit_dependency")
  /\ consumer' = [consumer EXCEPT ![Task(d)].head = consumer[Task(d)].staged]
  /\ IF consumer' = consumer THEN Goto(d, "ended") /\ Report(d, "failed") ELSE ToPush(d)
  /\ UNCHANGED <<base, library, published>>

\* The branch of a repository is pushed.
Pushed(t, repo) ==
  /\ library' = IF repo = "library"
                  THEN [library EXCEPT ![t].remote = library[t].head] ELSE library
  /\ consumer' = IF repo = "consumer"
                   THEN [consumer EXCEPT ![t].remote = consumer[t].head] ELSE consumer

\* The repository is off the list; after the last one Jenkins is triggered.
PushDone(d, repo) ==
  LET left == worker[d].left \ {repo}
      pc == IF left = {} THEN "trigger" ELSE "push"
  IN  /\ worker' = [worker EXCEPT ![d].pc = pc, ![d].left = left]
      /\ Report(d, IF pc = "trigger" THEN "triggering" ELSE "pushing")

\* Mutant: the deploy branch is left to Jenkins.
PushLibraryOnly(d) ==
  /\ At(d, "push")
  /\ \E repo \in worker[d].left :
       /\ IF repo = "library" THEN Pushed(Task(d), repo) ELSE UNCHANGED <<library, consumer>>
       /\ PushDone(d, repo)
  /\ UNCHANGED <<base, published>>

\* One repository after another, in the order of the worktrees.
Push(d) ==
  /\ At(d, "push")
  /\ \E repo \in worker[d].left : Pushed(Task(d), repo) /\ PushDone(d, repo)
  /\ UNCHANGED <<base, published>>

Trigger(d) ==
  /\ At(d, "trigger") /\ Goto(d, "queued") /\ Report(d, "queued")
  /\ UNCHANGED <<base, library, consumer, published>>

\* Jenkins decides: the queue item becomes a build, the build gets a result.
Answer(d) ==
  /\ \/ At(d, "queued") /\ Goto(d, "building") /\ Report(d, "building")
     \/ /\ At(d, "building") /\ Goto(d, "ended")
        /\ \E result \in {"success", "failed"} : Report(d, result)
  /\ UNCHANGED <<base, library, consumer, published>>

\* Mutant: the deadline covers the build and not the time in the queue.
DeadlineOfTheBuild(d) ==
  /\ At(d, "building") /\ Goto(d, "ended") /\ Report(d, "failed")
  /\ UNCHANGED <<base, library, consumer, published>>

\* One deadline for the time in the queue and the build.
Deadline(d) ==
  /\ worker[d].pc \in {"queued", "building"}
  /\ Goto(d, "ended") /\ Report(d, "failed")
  /\ UNCHANGED <<base, library, consumer, published>>

\* What a call that fails may have done: gradle published, the push reached origin.
Partly(d) ==
  \/ UNCHANGED <<library, consumer, published>>
  \/ /\ At(d, "publish") /\ published' = published \cup {library[Task(d)].file}
     /\ UNCHANGED <<library, consumer>>
  \/ /\ At(d, "push") /\ UNCHANGED published
     /\ \E repo \in worker[d].left : Pushed(Task(d), repo)

\* Mutant: the thread dies of the exception.
FailSilently(d) ==
  /\ worker[d].pc \in Active /\ Goto(d, "ended") /\ Partly(d)
  /\ UNCHANGED <<base, status>>

\* An exception, of git, gradle or the Jenkins API.
Fail(d) ==
  /\ worker[d].pc \in Active
  /\ Goto(d, "ended") /\ Report(d, "failed")
  /\ Partly(d)
  /\ UNCHANGED base

-----------------------------------------------------------------------------
\* Around the deploys

\* The server dies and its threads with it; a gradle that runs may finish all the same.
\* A git command has either ended or left nothing: it is over in a moment.
\* The status stays.
Crash ==
  /\ \E d \in Deploys : worker[d].pc \in Active
  /\ worker' = [d \in Deploys |->
       IF worker[d].pc \in Active THEN [worker[d] EXCEPT !.pc = "lost"] ELSE worker[d]]
  /\ \E finished \in SUBSET {d \in Deploys : At(d, "publish")} :
       published' = published \cup {library[Task(d)].file : d \in finished}
  /\ UNCHANGED <<base, library, consumer, status>>

\* Others bump the library on the base branch, and publish it.
BaseAdvances ==
  /\ base < MaxBase
  /\ base' = base + 1
  /\ published' = published \cup {base + 1}
  /\ UNCHANGED <<library, consumer, status, worker>>

Bump(d) == ReadVersion(d) \/ LookAtBase(d) \/ WriteVersion(d) \/ StageBump(d) \/ CommitBump(d)

PointConsumer(d) ==
  Point(d) \/ WriteDependency(d) \/ StageDependency(d) \/ CommitDependency(d)

Work(d) == Bump(d) \/ Publish(d) \/ PointConsumer(d) \/ Push(d) \/ Trigger(d) \/ Deadline(d)

Next ==
  \/ \E d \in Deploys : Deploy(d) \/ Work(d) \/ Answer(d) \/ Fail(d)
  \/ Crash \/ BaseAdvances

\* The thread goes on: git and HTTP calls have timeouts, gradle is taken to end.
\* Nothing is asked of Jenkins.
Spec == Init /\ [][Next]_vars /\ \A d \in Deploys : WF_vars(Work(d))

-----------------------------------------------------------------------------
\* Properties

\* A branch that was pushed names a version of the library that can be resolved, whatever
\* failed, was repeated or overlapped on the way.  The exception is two deploys of the task
\* that were bumping at the same time: each writes the version file from a text that it
\* read before git showed it the base, so one may publish another version than it
\* points the consumer at.
PushedIsPublished ==
  \A t \in Tasks :
    (\A d \in Deploys : Task(d) = t => worker[d].sole) /\ consumer[t].remote # 0
      => consumer[t].remote \in published

\* "bump one past the base so parallel work on the base version is untouched": what gradle
\* publishes is past the version on the base branch.  The base is looked at once, so this
\* is promised as long as it has not moved since; and only to a deploy that bumped by
\* itself, or it may publish what another one aimed at when the base was older.
BaseIsUntouched ==
  [][\A d \in Deploys :
       Publish(d) /\ worker[d].sole /\ base = worker[d].base => library[Task(d)].file > base]_vars

\* What Jenkins is asked to build is what this deploy has published, for a deploy that
\* no other one of the task overlapped.  The exception is a bump that an earlier deploy
\* wrote but did not commit: "already at" is decided by the file, and the push is of HEAD.
Uncommitted(t) == library[t].head # library[t].file \/ consumer[t].head # consumer[t].file

BuildsWhatItPublished ==
  \A d \in Deploys :
    At(d, "trigger") /\ worker[d].alone /\ Task(d) \in Changed /\ ~Uncommitted(Task(d)) =>
      /\ consumer[Task(d)].remote = worker[d].target
      /\ library[Task(d)].remote = worker[d].target
      /\ worker[d].target \in published

\* "committing both bumps onto the task branches": the branch that Jenkins is asked to
\* build names the version that was published for it.
BumpsAreCommitted ==
  \A d \in Deploys :
    At(d, "trigger") /\ worker[d].alone /\ Task(d) \in Changed =>
      consumer[Task(d)].remote = worker[d].target

\* When no thread works on a task, and none was lost with the server, the status shown
\* is final, in whatever order overlapping deploys failed or ended.
StatusIsFinal ==
  \A t \in Tasks :
    (\A d \in Deploys : Task(d) = t => worker[d].pc \in {"none", "ended"})
      => status[t] \notin Transient

\* Every deploy ends, by itself or with the server, whatever Jenkins does.
EveryDeployEnds ==
  \A d \in Deploys : worker[d].pc \in Active ~> worker[d].pc \in Gone

=============================================================================
