------------------------ MODULE JenkinsDeployProofs ------------------------
(***************************************************************************)
(* Theorems about JenkinsDeploy, for any tasks, deploys and versions.      *)
(***************************************************************************)
EXTENDS JenkinsDeploy, TLAPS

-----------------------------------------------------------------------------
\* The inductive invariant

\* Nobody bumped beside another deploy of the task.
SoleTask(t) == \A d \in Deploys : Task(d) = t => worker[d].sole

\* The base branch names only versions that were published, and so do the consumers of tasks
\* whose deploys bumped one at a time.
Resolvable ==
  /\ \A v \in Versions : v <= base => v \in published
  /\ \A t \in Tasks : SoleTask(t) =>
       /\ consumer[t].file \in published
       /\ consumer[t].staged \in published
       /\ consumer[t].head \in published
       /\ consumer[t].remote # 0 => consumer[t].remote \in published

\* What a thread knows of its target, and, if it bumps by itself, of the file.
Aimed(d) ==
  /\ worker[d].pc = "look" => worker[d].seen \in Versions
  /\ worker[d].pc \in {"write", "stage_bump", "commit_bump", "publish", "point",
                       "write_dependency"}
       => worker[d].target \in Versions /\ worker[d].target > worker[d].base
  /\ worker[d].sole =>
       /\ worker[d].pc = "look" => library[Task(d)].file = worker[d].seen
       /\ worker[d].pc \in {"stage_bump", "commit_bump", "publish"}
            => library[Task(d)].file = worker[d].target
       /\ worker[d].pc \in {"point", "write_dependency"} => worker[d].target \in published

\* A thread that is alone is the only one that works on its task, one that bumps by itself
\* the only one that bumps.
Exclusive(d) ==
  /\ worker[d].alone => worker[d].sole
  /\ worker[d].pc = "none" => worker[d].sole
  /\ worker[d].alone /\ worker[d].pc \in Active => \A e \in Deploys : ~Meets(d, e, Active)
  /\ worker[d].sole /\ worker[d].pc \in Bumping => \A e \in Deploys : ~Meets(d, e, Bumping)

\* How far a thread has brought the two repositories, if no other touched them.
Ready(d) ==
  worker[d].alone /\ Task(d) \in Changed =>
    /\ worker[d].pc \in {"point", "write_dependency", "stage_dependency", "commit_dependency",
                         "push", "trigger"}
         => library[Task(d)].file = worker[d].target
    /\ worker[d].pc \in {"stage_dependency", "commit_dependency", "push", "trigger"}
         => consumer[Task(d)].file = worker[d].target /\ worker[d].target \in published
    /\ worker[d].pc \in {"push", "trigger"}
         => /\ "library" \notin worker[d].left => library[Task(d)].remote = library[Task(d)].head
            /\ "consumer" \notin worker[d].left => consumer[Task(d)].remote = consumer[Task(d)].head
    /\ worker[d].pc = "trigger" => worker[d].left = {}

Threads == \A d \in Deploys : Aimed(d) /\ Exclusive(d) /\ Ready(d)

IInv == TypeOK /\ Resolvable /\ Threads /\ StatusIsFinal

-----------------------------------------------------------------------------
\* What the steps have in common

\* What the types say of a thread and its task.
LEMMA OfThread ==
  ASSUME TypeOK, NEW d \in Deploys
  PROVE  /\ Task(d) \in Tasks /\ worker[d] \in Workers /\ worker \in [Deploys -> Workers]
         /\ library[Task(d)] \in Copies /\ library[Task(d)].file \in 1..(MaxBase + 1)
         /\ consumer[Task(d)] \in Copies
         /\ library \in [Tasks -> Copies] /\ consumer \in [Tasks -> Copies]
         /\ base \in 1..MaxBase /\ MaxBase \in Nat /\ base \in Versions
         /\ worker[d].target \in 0..(MaxBase + 1) /\ worker[d].base \in 0..(MaxBase + 1)
BY BoundsAssumption DEF TypeOK, Workers, Copies, Versions, Task

\* What a step of thread d leaves of the threads: their tasks and what they remember.
Same(d) ==
  /\ worker' \in [Deploys -> Workers]
  /\ worker'[d].task = worker[d].task /\ worker'[d].alone = worker[d].alone
  /\ worker'[d].sole = worker[d].sole
  /\ \A e \in Deploys : e # d => worker'[e] = worker[e]

\* A thread's counter moves, and nothing else of the thread.
LEMMA Moved ==
  ASSUME TypeOK, NEW d \in Deploys, NEW pc \in Active \cup Gone \cup {"none"}, Goto(d, pc)
  PROVE  /\ Same(d) /\ worker'[d].pc = pc
         /\ worker'[d].seen = worker[d].seen /\ worker'[d].target = worker[d].target
         /\ worker'[d].base = worker[d].base /\ worker'[d].left = worker[d].left
BY DEF TypeOK, Goto, Workers, Same

\* A thread goes on to the pushes.
LEMMA MovedToPush ==
  ASSUME TypeOK, NEW d \in Deploys, ToPush(d)
  PROVE  /\ Same(d) /\ worker'[d].pc = "push" /\ worker'[d].target = worker[d].target
         /\ "consumer" \in worker'[d].left
         /\ Task(d) \in Changed => "library" \in worker'[d].left
<1> DEFINE left == IF Task(d) \in Changed THEN Repos ELSE {"consumer"}
<1>1. left \in SUBSET Repos /\ "push" \in Active BY DEF Repos, Active
<1>2. worker' = [worker EXCEPT ![d].pc = "push", ![d].left = left] BY DEF ToPush
<1>3. "consumer" \in left /\ (Task(d) \in Changed => "library" \in left) BY DEF Repos
<1> HIDE DEF left
<1> QED BY <1>1, <1>2, <1>3 DEF TypeOK, Workers, Same

\* The status of one task is replaced.
LEMMA Reported ==
  ASSUME TypeOK, NEW d \in Deploys, NEW s \in Transient \cup {"none", "success", "failed"},
         Report(d, s)
  PROVE  /\ status' \in [Tasks -> Transient \cup {"none", "success", "failed"}]
         /\ status'[Task(d)] = s
         /\ \A t \in Tasks : t # Task(d) => status'[t] = status[t]
<1>1. Task(d) \in Tasks BY DEF TypeOK, Workers, Task
<1> QED BY <1>1 DEF TypeOK, Report

\* How the step of a thread may change what others rely on: only while it bumps does it
\* write the version file.
Mild(d) ==
  /\ worker[d].pc \in Active /\ worker'[d].pc \in Active \cup {"ended"}
  /\ worker'[d].pc \in Bumping => worker[d].pc \in Bumping
  /\ Same(d)
  /\ base' = base /\ published \subseteq published'
  /\ \A t \in Tasks :
       /\ t # Task(d) => library'[t] = library[t] /\ consumer'[t] = consumer[t]
       /\ worker[d].pc \notin Bumping => library'[t].file = library[t].file

\* The step of a thread does not disturb the other threads.
LEMMA OthersGoOn ==
  ASSUME IInv, TypeOK', NEW d \in Deploys, Mild(d), Aimed(d)', Ready(d)'
  PROVE  Threads'
<1>1. \A e \in Deploys : worker[e] \in Workers /\ Task(e) \in Tasks BY OfThread DEF IInv
<1>2. ASSUME NEW e \in Deploys PROVE Aimed(e)'
  <2>1. CASE e = d BY <2>1
  <2>2. CASE e # d
    <3>1. worker'[e] = worker[e] /\ Task(e)' = Task(e) /\ Task(e) \in Tasks
          /\ Aimed(e) /\ Exclusive(e)
      BY <1>1, <2>2 DEF Mild, Same, IInv, Threads, Task
    <3>2. worker[e].sole /\ worker[e].pc \in Bumping
            => library'[Task(e)].file = library[Task(e)].file
      BY <2>2, <3>1 DEF Mild, Exclusive, Meets
    <3> QED BY <3>1, <3>2 DEF Aimed, Mild, Bumping
  <2> QED BY <2>1, <2>2
<1>3. ASSUME NEW e \in Deploys PROVE Exclusive(e)'
  <2>1. \A f \in Deploys : Task(f)' = Task(f) /\ worker'[f].alone = worker[f].alone
                            /\ worker'[f].sole = worker[f].sole
                            /\ (worker'[f].pc \in Active => worker[f].pc \in Active)
                            /\ (worker'[f].pc \in Bumping => worker[f].pc \in Bumping)
                            /\ (worker'[f].pc = "none" => worker[f].pc = "none")
    BY DEF Mild, Same, Task, Active, Bumping
  <2>2. Exclusive(e) BY DEF IInv, Threads
  <2> QED BY <2>1, <2>2 DEF Exclusive, Meets
<1>4. ASSUME NEW e \in Deploys PROVE Ready(e)'
  <2>1. CASE e = d BY <2>1
  <2>2. CASE e # d
    <3>1. worker'[e] = worker[e] /\ Task(e)' = Task(e) /\ Task(e) \in Tasks
          /\ Ready(e) /\ Exclusive(e)
      BY <1>1, <2>2 DEF Mild, Same, IInv, Threads, Task
    <3>2. CASE Task(e) = Task(d)
      <4>1. ~(worker[e].alone /\ worker[e].pc \in Active)
        BY <2>2, <3>1, <3>2 DEF Exclusive, Meets, Mild
      <4> QED BY <3>1, <4>1 DEF Ready, Active, Bumping
    <3>3. CASE Task(e) # Task(d)
      <4>1. library'[Task(e)] = library[Task(e)] /\ consumer'[Task(e)] = consumer[Task(e)]
        BY <3>1, <3>3 DEF Mild
      <4> QED BY <3>1, <4>1 DEF Ready, Mild
    <3> QED BY <3>2, <3>3
  <2> QED BY <2>1, <2>2
<1> QED BY <1>2, <1>3, <1>4 DEF Threads

\* A step that reports a status reports a final one when its thread ends.
LEMMA FinalWhenEnded ==
  ASSUME IInv, TypeOK', NEW d \in Deploys, Mild(d),
         \/ status' = status /\ worker'[d].pc \in Active
         \/ \E s : /\ Report(d, s) /\ s \in Transient \cup {"none", "success", "failed"}
                   /\ s \in Transient => worker'[d].pc \in Active
  PROVE  StatusIsFinal'
<1> SUFFICES ASSUME NEW t \in Tasks,
                    \A e \in Deploys : worker'[e].task = t => worker'[e].pc \in {"none", "ended"}
             PROVE  status'[t] \notin Transient
  BY DEF StatusIsFinal, Task
<1>1. CASE t = Task(d)
  <2>1. worker'[d].pc \notin Active BY <1>1 DEF Mild, Same, Task, Active, Bumping
  <2>2. PICK s \in Transient \cup {"none", "success", "failed"} :
          Report(d, s) /\ s \notin Transient
    BY <2>1
  <2> QED BY <1>1, <2>2, Reported DEF IInv
<1>2. CASE t # Task(d)
  <2>1. status'[t] = status[t] BY <1>2, Reported DEF IInv
  <2>2. \A e \in Deploys : worker[e].task = t => worker'[e] = worker[e]
    BY <1>2 DEF Mild, Same, Task
  <2>3. StatusIsFinal BY DEF IInv
  <2> QED BY <2>1, <2>2, <2>3 DEF StatusIsFinal, Task
<1> QED BY <1>1, <1>2


\* A step of a thread changes nobody's memory of an overlap.
LEMMA SoleStays ==
  ASSUME NEW d \in Deploys, Same(d), NEW t
  PROVE  SoleTask(t)' <=> SoleTask(t)
BY DEF Same, SoleTask, Task

LEMMA ResolvableStays ==
  ASSUME IInv, NEW d \in Deploys, Same(d), base' = base, published \subseteq published',
         consumer' = consumer
  PROVE  Resolvable'
<1>1. Resolvable BY DEF IInv
<1> QED BY <1>1, SoleStays DEF Resolvable

-----------------------------------------------------------------------------
\* The steps of a thread

\* A step of a thread that goes on: it reports or not.
LEMMA GoOnKeepsIInv ==
  ASSUME IInv, NEW d \in Deploys, worker[d].pc \in Active, Same(d), worker'[d].pc \in Active,
         worker'[d].pc \in Bumping => worker[d].pc \in Bumping,
         status' = status \/ \E s \in Transient : Report(d, s),
         base' = base, published \subseteq published', published' \subseteq Versions,
         library' \in [Tasks -> Copies], consumer' \in [Tasks -> Copies],
         \A t \in Tasks :
           /\ t # Task(d) => library'[t] = library[t] /\ consumer'[t] = consumer[t]
           /\ worker[d].pc \notin Bumping => library'[t].file = library[t].file,
         Resolvable', Aimed(d)', Ready(d)'
  PROVE  IInv'
<1>1. status' \in [Tasks -> Transient \cup {"none", "success", "failed"}]
  BY Reported DEF IInv, TypeOK
<1>2. TypeOK' BY <1>1 DEF IInv, TypeOK, Same
<1>3. Mild(d) BY DEF Mild
<1>4. StatusIsFinal' BY <1>2, <1>3, FinalWhenEnded
<1> QED BY <1>2, <1>3, <1>4, OthersGoOn DEF IInv

\* A thread that ends relies on nothing any more, whatever it left behind.
LEMMA EndKeepsIInv ==
  ASSUME IInv, NEW d \in Deploys, worker[d].pc \in Active, Goto(d, "ended"),
         NEW s \in {"success", "failed"}, Report(d, s),
         base' = base, published \subseteq published', published' \subseteq Versions,
         library' \in [Tasks -> Copies], consumer' \in [Tasks -> Copies],
         \A t \in Tasks :
           /\ t # Task(d) => library'[t] = library[t] /\ consumer'[t] = consumer[t]
           /\ library'[t].file = library[t].file,
         Resolvable'
  PROVE  IInv'
<1>1. Same(d) /\ worker'[d].pc = "ended" BY Moved DEF IInv, Gone
<1>2. status' \in [Tasks -> Transient \cup {"none", "success", "failed"}]
  BY Reported DEF IInv
<1>3. TypeOK' BY <1>1, <1>2 DEF IInv, TypeOK, Same
<1>4. Mild(d) BY <1>1 DEF Mild, Bumping
<1>5. Aimed(d)' /\ Ready(d)' BY <1>1 DEF Aimed, Ready
<1>6. Threads' BY <1>3, <1>4, <1>5, OthersGoOn
<1>7. StatusIsFinal' BY <1>3, <1>4, FinalWhenEnded DEF Transient
<1> QED BY <1>3, <1>6, <1>7 DEF IInv

\* Going on to the pushes, with the repositories as they are.
LEMMA ToPushKeepsIInv ==
  ASSUME IInv, NEW d \in Deploys, worker[d].pc \in Active, ToPush(d),
         base' = base, published' = published, library' = library,
         consumer' \in [Tasks -> Copies],
         \A t \in Tasks : t # Task(d) => consumer'[t] = consumer[t],
         worker[d].alone /\ Task(d) \in Changed =>
           /\ library[Task(d)].file = worker[d].target
           /\ consumer'[Task(d)].file = worker[d].target /\ worker[d].target \in published,
         Resolvable'
  PROVE  IInv'
<1>1. /\ Same(d) /\ worker'[d].pc = "push" /\ worker'[d].target = worker[d].target
      /\ "consumer" \in worker'[d].left
      /\ Task(d) \in Changed => "library" \in worker'[d].left
  BY MovedToPush DEF IInv
<1>2. \E s \in Transient : Report(d, s) BY DEF ToPush, Transient
<1>3. Aimed(d)' BY <1>1 DEF Aimed
<1>4. Ready(d)' BY <1>1 DEF Ready, Task, Same
<1>5. worker'[d].pc \in Active /\ worker'[d].pc \notin Bumping BY <1>1 DEF Active, Bumping
<1>6. published' \subseteq Versions /\ library' \in [Tasks -> Copies] BY DEF IInv, TypeOK
<1> QED BY <1>1, <1>2, <1>3, <1>4, <1>5, <1>6, GoOnKeepsIInv

\* Reading the version file.
LEMMA ReadVersionKeepsIInv == ASSUME IInv, NEW d \in Deploys, ReadVersion(d) PROVE IInv'
<1> DEFINE v == library[Task(d)].file
<1>1. /\ worker[d].pc = "begun" /\ UNCHANGED <<base, library, consumer, published>>
  BY DEF ReadVersion, At
<1>2. worker[d].pc \in Active /\ worker[d].pc \in Bumping BY <1>1 DEF Active, Bumping
<1>3. CASE Task(d) \in Changed
  <2>1. /\ worker' = [worker EXCEPT ![d].pc = "look", ![d].seen = v]
        /\ Report(d, "bumping")
    BY <1>3 DEF ReadVersion
  <2>2. v \in Versions /\ "look" \in Active /\ "look" \in Bumping
    BY OfThread DEF IInv, Versions, Active, Bumping
  <2>3. Same(d) /\ worker'[d].pc = "look" /\ worker'[d].seen = v
    BY <2>1, <2>2, OfThread DEF IInv, Workers, Same
  <2>4. Aimed(d)' BY <1>1, <2>2, <2>3 DEF Aimed, Task, Same
  <2>5. Ready(d)' BY <2>3 DEF Ready
  <2>6. Resolvable' BY <1>1, <2>3, ResolvableStays
  <2>7. \E s \in Transient : Report(d, s) BY <2>1 DEF Transient
  <2> QED BY <1>1, <1>2, <2>2, <2>3, <2>4, <2>5, <2>6, <2>7, GoOnKeepsIInv DEF IInv, TypeOK
<1>4. CASE Task(d) \notin Changed
  <2>1. ToPush(d) BY <1>4 DEF ReadVersion
  <2>2. Resolvable' BY <1>1, <2>1, MovedToPush, ResolvableStays DEF IInv
  <2> QED BY <1>1, <1>2, <1>4, <2>1, <2>2, ToPushKeepsIInv DEF IInv, TypeOK
<1> QED BY <1>3, <1>4

\* Choosing the target.
LEMMA LookAtBaseKeepsIInv == ASSUME IInv, NEW d \in Deploys, LookAtBase(d) PROVE IInv'
<1> DEFINE target == Target(worker[d].seen)
           pc == IF target = worker[d].seen THEN "publish" ELSE "write"
<1>1. /\ worker[d].pc = "look" /\ UNCHANGED <<base, library, consumer, published>>
      /\ worker' = [worker EXCEPT ![d].pc = pc, ![d].target = target, ![d].base = base]
  BY DEF LookAtBase, At
<1>2. \E s \in Transient : Report(d, s) BY DEF LookAtBase, Transient
<1>3. Aimed(d) BY DEF IInv, Threads
<1>4. worker[d].seen \in 1..(MaxBase + 1) BY <1>1, <1>3 DEF Aimed, Versions
<1>5. base \in 1..MaxBase /\ MaxBase \in Nat /\ base \in Versions BY OfThread DEF IInv
<1>6. target \in Versions /\ target > base BY <1>4, <1>5 DEF Target, Versions
<1>7. /\ pc \in {"publish", "write"} /\ (pc = "publish" => target = worker[d].seen)
  OBVIOUS
<1> HIDE DEF target, pc
<1>8. pc \in Active /\ pc \in Bumping BY <1>7 DEF Active, Bumping
<1>9. /\ Same(d) /\ worker'[d].pc = pc /\ worker'[d].target = target
      /\ worker'[d].base = base
  <2>1. worker \in [Deploys -> Workers] BY DEF IInv, TypeOK
  <2>2. /\ worker'[d] = [worker[d] EXCEPT !.pc = pc, !.target = target, !.base = base]
        /\ \A e \in Deploys : e # d => worker'[e] = worker[e]
        /\ worker' = [e \in Deploys |-> worker'[e]]
    BY <1>1, <2>1
  <2>3. /\ worker'[d] \in Workers /\ worker'[d].pc = pc /\ worker'[d].target = target
        /\ worker'[d].base = base /\ worker'[d].task = worker[d].task
        /\ worker'[d].alone = worker[d].alone /\ worker'[d].sole = worker[d].sole
    <3>1. worker[d] \in Workers BY <2>1
    <3>2. pc \in Active \cup Gone \cup {"none"} BY <1>8
    <3>3. target \in Versions \cup {0} /\ base \in Versions \cup {0} BY <1>5, <1>6
    <3> QED BY <2>2, <3>1, <3>2, <3>3 DEF Workers
  <2>4. \A e \in Deploys : worker'[e] \in Workers BY <2>1, <2>2, <2>3
  <2>5. worker' \in [Deploys -> Workers] BY <2>2, <2>4
  <2> QED BY <2>2, <2>3, <2>5 DEF Same
<1>10. Aimed(d)' BY <1>1, <1>3, <1>6, <1>7, <1>9 DEF Aimed, Task, Same
<1>11. Ready(d)' BY <1>7, <1>9 DEF Ready
<1>12. Resolvable' BY <1>1, <1>9, ResolvableStays
<1>13. worker[d].pc \in Active /\ worker[d].pc \in Bumping BY <1>1 DEF Active, Bumping
<1> QED BY <1>1, <1>2, <1>8, <1>9, <1>10, <1>11, <1>12, <1>13, GoOnKeepsIInv DEF IInv, TypeOK

\* Writing and staging the bump.
LEMMA WriteVersionKeepsIInv ==
  ASSUME IInv, NEW d \in Deploys, WriteVersion(d) \/ StageBump(d) PROVE IInv'
<1> DEFINE t == Task(d)
<1>1. /\ UNCHANGED <<base, consumer, published, status>>
      /\ worker[d].pc \in {"write", "stage_bump"}
  BY DEF WriteVersion, StageBump, At
<1>2. /\ t \in Tasks /\ library \in [Tasks -> Copies] /\ library[t] \in Copies BY OfThread DEF IInv
<1>3. Aimed(d) BY DEF IInv, Threads
<1>4. PICK pc \in {"stage_bump", "commit_bump"} : Goto(d, pc)
  BY DEF WriteVersion, StageBump
<1>5. /\ Same(d) /\ worker'[d].pc = pc /\ worker'[d].target = worker[d].target
      /\ worker'[d].base = worker[d].base
  BY <1>4, Moved DEF IInv, Active, Bumping
<1>6. /\ library' \in [Tasks -> Copies] /\ \A u \in Tasks : u # t => library'[u] = library[u]
      /\ worker[d].sole => library'[t].file = worker[d].target
  <2>1. CASE WriteVersion(d)
    <3>1. worker[d].target \in Versions BY <1>3, <2>1 DEF Aimed, WriteVersion, At
    <3>2. library' = [library EXCEPT ![t].file = worker[d].target] BY <2>1 DEF WriteVersion
    <3> HIDE DEF t
    <3> QED BY <1>2, <3>1, <3>2 DEF Copies
  <2>2. CASE StageBump(d)
    <3>1. library' = [library EXCEPT ![t].staged = library[t].file] BY <2>2 DEF StageBump
    <3>2. worker[d].sole => library[t].file = worker[d].target
      BY <1>3, <2>2 DEF Aimed, StageBump, At
    <3> HIDE DEF t
    <3> QED BY <1>2, <3>1, <3>2 DEF Copies
  <2> QED BY <2>1, <2>2
<1>7. Aimed(d)' BY <1>1, <1>3, <1>5, <1>6 DEF Aimed, Task, Same
<1>8. Ready(d)' BY <1>5 DEF Ready
<1>9. Resolvable' BY <1>1, <1>5, ResolvableStays
<1>10. worker[d].pc \in Active /\ worker[d].pc \in Bumping /\ worker'[d].pc \in Active
  BY <1>1, <1>5 DEF Active, Bumping
<1> QED BY <1>1, <1>5, <1>6, <1>7, <1>8, <1>9, <1>10, GoOnKeepsIInv DEF IInv, TypeOK

\* Committing the bump.
LEMMA CommitBumpKeepsIInv == ASSUME IInv, NEW d \in Deploys, CommitBump(d) PROVE IInv'
<1> DEFINE t == Task(d)
<1>1. /\ t \in Tasks /\ library[t] \in Copies /\ worker[d].pc = "commit_bump"
      /\ UNCHANGED <<base, consumer, published>>
      /\ library' = [library EXCEPT ![t].head = library[t].staged]
  BY OfThread DEF IInv, CommitBump, At
<1>2. /\ library' \in [Tasks -> Copies]
      /\ \A u \in Tasks : /\ library'[u].file = library[u].file
                          /\ u # t => library'[u] = library[u]
  BY <1>1 DEF IInv, TypeOK, Copies
<1>3. worker[d].pc \in Active /\ worker[d].pc \in Bumping BY <1>1 DEF Active, Bumping
<1>4. CASE library' = library
  <2>1. Goto(d, "ended") /\ Report(d, "failed") BY <1>4 DEF CommitBump
  <2>2. Resolvable' BY <1>1, <2>1, Moved, ResolvableStays DEF IInv, Gone
  <2> QED BY <1>1, <1>2, <1>3, <2>1, <2>2, EndKeepsIInv DEF IInv, TypeOK
<1>5. CASE library' # library
  <2>1. Goto(d, "publish") /\ Report(d, "publishing") BY <1>5 DEF CommitBump
  <2>2. /\ Same(d) /\ worker'[d].pc = "publish" /\ worker'[d].target = worker[d].target
        /\ worker'[d].base = worker[d].base
    BY <2>1, Moved DEF IInv, Active, Bumping
  <2>3. Aimed(d) BY DEF IInv, Threads
  <2>4. Aimed(d)' BY <1>1, <1>2, <2>2, <2>3 DEF Aimed, Task, Same
  <2>5. Ready(d)' BY <2>2 DEF Ready
  <2>6. Resolvable' BY <1>1, <2>2, ResolvableStays
  <2>7. "publish" \in Active /\ \E s \in Transient : Report(d, s)
    BY <2>1 DEF Transient, Active, Bumping
  <2> HIDE DEF t
  <2> QED BY <1>1, <1>2, <1>3, <2>2, <2>4, <2>5, <2>6, <2>7, GoOnKeepsIInv DEF IInv, TypeOK, t
<1> QED BY <1>4, <1>5

\* Publishing the library.
LEMMA PublishKeepsIInv == ASSUME IInv, NEW d \in Deploys, Publish(d) PROVE IInv'
<1> DEFINE t == Task(d)
<1>1. /\ t \in Tasks /\ library[t].file \in Versions /\ worker[d].pc = "publish"
      /\ UNCHANGED <<base, library, consumer, status>> /\ Goto(d, "point")
      /\ published' = published \cup {library[t].file}
  BY OfThread DEF IInv, Publish, At, Versions
<1>2. Aimed(d) /\ Exclusive(d) BY DEF IInv, Threads
<1>3. /\ Same(d) /\ worker'[d].pc = "point" /\ worker'[d].target = worker[d].target
      /\ worker'[d].base = worker[d].base
  BY <1>1, Moved DEF IInv, Active
<1>4. Resolvable' BY <1>1, <1>3, ResolvableStays
<1>5. Aimed(d)' BY <1>1, <1>2, <1>3 DEF Aimed, Task, Same
<1>6. Ready(d)' BY <1>1, <1>2, <1>3 DEF Aimed, Exclusive, Ready, Task, Same
<1>7. worker[d].pc \in Active /\ worker[d].pc \in Bumping /\ worker'[d].pc \in Active
  BY <1>1, <1>3 DEF Active, Bumping
<1> QED BY <1>1, <1>3, <1>4, <1>5, <1>6, <1>7, GoOnKeepsIInv DEF IInv, TypeOK

\* A consumer that changes names published versions if its deploys bumped one at a time.
LEMMA ResolvableOne ==
  ASSUME IInv, NEW d \in Deploys, Same(d), UNCHANGED <<base, published>>,
         \A u \in Tasks : u # Task(d) => consumer'[u] = consumer[u],
         SoleTask(Task(d)) =>
           /\ consumer'[Task(d)].file \in {consumer[Task(d)].file, worker[d].target}
           /\ consumer'[Task(d)].file # consumer[Task(d)].file => worker[d].target \in published
           /\ consumer'[Task(d)].staged \in {consumer[Task(d)].staged, consumer[Task(d)].file}
           /\ consumer'[Task(d)].head \in {consumer[Task(d)].head, consumer[Task(d)].staged}
           /\ consumer'[Task(d)].remote \in {consumer[Task(d)].remote, consumer[Task(d)].head}
  PROVE  Resolvable'
<1>1. Resolvable BY DEF IInv
<1>2. \A v \in Versions : v <= base' => v \in published' BY <1>1 DEF Resolvable
<1>3. ASSUME NEW u \in Tasks, SoleTask(u)'
      PROVE  /\ consumer'[u].file \in published /\ consumer'[u].staged \in published
             /\ consumer'[u].head \in published
             /\ consumer'[u].remote # 0 => consumer'[u].remote \in published
  <2>1. SoleTask(u) BY <1>3, SoleStays
  <2>2. /\ consumer[u].file \in published /\ consumer[u].staged \in published
        /\ consumer[u].head \in published
        /\ consumer[u].remote # 0 => consumer[u].remote \in published
    BY <1>1, <2>1 DEF Resolvable
  <2>3. CASE u = Task(d) BY <2>1, <2>2, <2>3
  <2>4. CASE u # Task(d) BY <2>2, <2>4
  <2> QED BY <2>3, <2>4
<1> QED BY <1>2, <1>3 DEF Resolvable

\* Reading the consumer's file.
LEMMA PointKeepsIInv == ASSUME IInv, NEW d \in Deploys, Point(d) PROVE IInv'
<1>1. /\ worker[d].pc = "point" /\ UNCHANGED <<base, library, consumer, published>>
  BY DEF Point, At
<1>2. Aimed(d) /\ Exclusive(d) /\ Ready(d) BY DEF IInv, Threads
<1>3. worker[d].pc \in Active BY <1>1 DEF Active
<1>4. CASE consumer[Task(d)].file = worker[d].target
  <2>1. ToPush(d) BY <1>4 DEF Point
  <2>2. Resolvable' BY <1>1, <2>1, MovedToPush, ResolvableStays DEF IInv
  <2>3. worker[d].alone /\ Task(d) \in Changed =>
          /\ library[Task(d)].file = worker[d].target
          /\ consumer'[Task(d)].file = worker[d].target /\ worker[d].target \in published
    BY <1>1, <1>2, <1>4 DEF Aimed, Exclusive, Ready
  <2> QED BY <1>1, <1>3, <2>1, <2>2, <2>3, ToPushKeepsIInv DEF IInv, TypeOK
<1>5. CASE consumer[Task(d)].file # worker[d].target
  <2>1. Goto(d, "write_dependency") /\ status' = status BY <1>5 DEF Point
  <2>2. /\ Same(d) /\ worker'[d].pc = "write_dependency"
        /\ worker'[d].target = worker[d].target /\ worker'[d].base = worker[d].base
    BY <2>1, Moved DEF IInv, Active
  <2>3. Resolvable' BY <1>1, <2>2, ResolvableStays
  <2>4. Aimed(d)' BY <1>1, <1>2, <2>2 DEF Aimed, Task, Same
  <2>5. Ready(d)' BY <1>1, <1>2, <2>2 DEF Ready, Task, Same
  <2>6. worker'[d].pc \in Active /\ worker'[d].pc \notin Bumping BY <2>2 DEF Active, Bumping
  <2> QED BY <1>1, <1>3, <2>1, <2>2, <2>3, <2>4, <2>5, <2>6, GoOnKeepsIInv DEF IInv, TypeOK
<1> QED BY <1>4, <1>5

\* Writing and staging the dependency.
LEMMA WriteDependencyKeepsIInv ==
  ASSUME IInv, NEW d \in Deploys, WriteDependency(d) \/ StageDependency(d) PROVE IInv'
<1> DEFINE t == Task(d)
<1>1. /\ UNCHANGED <<base, library, published, status>>
      /\ worker[d].pc \in {"write_dependency", "stage_dependency"}
  BY DEF WriteDependency, StageDependency, At
<1>2. /\ t \in Tasks /\ consumer \in [Tasks -> Copies] /\ consumer[t] \in Copies
  BY OfThread DEF IInv
<1>3. Aimed(d) /\ Exclusive(d) /\ Ready(d) BY DEF IInv, Threads
<1>4. PICK pc \in {"stage_dependency", "commit_dependency"} : Goto(d, pc)
  BY DEF WriteDependency, StageDependency
<1>5. /\ Same(d) /\ worker'[d].pc = pc /\ worker'[d].target = worker[d].target
      /\ worker'[d].base = worker[d].base
  BY <1>4, Moved DEF IInv, Active
<1>6. /\ consumer' \in [Tasks -> Copies]
      /\ \A u \in Tasks : u # t => consumer'[u] = consumer[u]
      /\ consumer'[t].head = consumer[t].head /\ consumer'[t].remote = consumer[t].remote
      /\ \/ /\ worker[d].pc = "write_dependency" /\ consumer'[t].file = worker[d].target
            /\ consumer'[t].staged = consumer[t].staged
         \/ /\ worker[d].pc = "stage_dependency" /\ consumer'[t].file = consumer[t].file
            /\ consumer'[t].staged = consumer[t].file
  <2>1. CASE WriteDependency(d)
    <3>1. worker[d].target \in Versions BY <1>3, <2>1 DEF Aimed, WriteDependency, At
    <3>2. /\ consumer' = [consumer EXCEPT ![t].file = worker[d].target]
          /\ worker[d].pc = "write_dependency"
      BY <2>1 DEF WriteDependency, At
    <3> HIDE DEF t
    <3> QED BY <1>2, <3>1, <3>2 DEF Copies
  <2>2. CASE StageDependency(d)
    <3>1. /\ consumer' = [consumer EXCEPT ![t].staged = consumer[t].file]
          /\ worker[d].pc = "stage_dependency"
      BY <2>2 DEF StageDependency, At
    <3> HIDE DEF t
    <3> QED BY <1>2, <3>1 DEF Copies
  <2> QED BY <2>1, <2>2
<1>7. SoleTask(t) /\ worker[d].pc = "write_dependency" => worker[d].target \in published
  BY <1>3 DEF SoleTask, Aimed
<1>8. Resolvable' BY <1>1, <1>5, <1>6, <1>7, ResolvableOne
<1>9. Aimed(d)' BY <1>5 DEF Aimed
<1>10. Ready(d)' BY <1>1, <1>3, <1>5, <1>6 DEF Aimed, Exclusive, Ready, Task, Same
<1>11. worker[d].pc \in Active /\ worker'[d].pc \in Active /\ worker'[d].pc \notin Bumping
  BY <1>1, <1>5 DEF Active, Bumping
<1> QED BY <1>1, <1>5, <1>6, <1>8, <1>9, <1>10, <1>11, GoOnKeepsIInv DEF IInv, TypeOK

\* Committing the dependency.
LEMMA CommitDependencyKeepsIInv ==
  ASSUME IInv, NEW d \in Deploys, CommitDependency(d) PROVE IInv'
<1> DEFINE t == Task(d)
<1>1. /\ t \in Tasks /\ consumer[t] \in Copies /\ worker[d].pc = "commit_dependency"
      /\ UNCHANGED <<base, library, published>>
      /\ consumer' = [consumer EXCEPT ![t].head = consumer[t].staged]
  BY OfThread DEF IInv, CommitDependency, At
<1>2. /\ consumer' \in [Tasks -> Copies] /\ consumer'[t].file = consumer[t].file
      /\ consumer'[t].staged = consumer[t].staged /\ consumer'[t].head = consumer[t].staged
      /\ consumer'[t].remote = consumer[t].remote
      /\ \A u \in Tasks : u # t => consumer'[u] = consumer[u]
  BY <1>1 DEF IInv, TypeOK, Copies
<1>3. worker[d].pc \in Active BY <1>1 DEF Active
<1>4. Same(d) => Resolvable' BY <1>1, <1>2, ResolvableOne
<1> HIDE DEF t
<1>5. CASE consumer' = consumer
  <2>1. Goto(d, "ended") /\ Report(d, "failed") BY <1>5 DEF CommitDependency
  <2>2. Resolvable' BY <1>4, <2>1, Moved DEF IInv, Gone
  <2> QED BY <1>1, <1>2, <1>3, <1>5, <2>1, <2>2, EndKeepsIInv DEF IInv, TypeOK
<1>6. CASE consumer' # consumer
  <2>1. ToPush(d) BY <1>6 DEF CommitDependency
  <2>2. Resolvable' BY <1>4, <2>1, MovedToPush DEF IInv
  <2>3. Ready(d) BY DEF IInv, Threads
  <2>4. worker[d].alone /\ t \in Changed =>
          /\ library[t].file = worker[d].target
          /\ consumer'[t].file = worker[d].target /\ worker[d].target \in published
    BY <1>1, <1>2, <2>3 DEF Ready, t
  <2> QED BY <1>1, <1>2, <1>3, <2>1, <2>2, <2>4, ToPushKeepsIInv DEF t
<1> QED BY <1>5, <1>6

\* What a push leaves: a branch that names a committed version, and the rest as it was.
LEMMA PushedLeaves ==
  ASSUME IInv, NEW d \in Deploys, NEW repo, Pushed(Task(d), repo)
  PROVE  LET t == Task(d)
         IN  /\ library' \in [Tasks -> Copies] /\ consumer' \in [Tasks -> Copies]
             /\ library'[t].file = library[t].file /\ library'[t].head = library[t].head
             /\ library'[t].remote = IF repo = "library" THEN library[t].head ELSE library[t].remote
             /\ consumer'[t].file = consumer[t].file /\ consumer'[t].head = consumer[t].head
             /\ consumer'[t].staged = consumer[t].staged
             /\ consumer'[t].remote = IF repo = "consumer" THEN consumer[t].head ELSE consumer[t].remote
             /\ \A u \in Tasks : u # t => library'[u] = library[u] /\ consumer'[u] = consumer[u]
<1> DEFINE t == Task(d)
<1>1. t \in Tasks /\ library[t] \in Copies /\ consumer[t] \in Copies BY OfThread DEF IInv
<1>2. library \in [Tasks -> Copies] /\ consumer \in [Tasks -> Copies] BY DEF IInv, TypeOK
<1>3. /\ library' = IF repo = "library" THEN [library EXCEPT ![t].remote = library[t].head]
                                         ELSE library
      /\ consumer' = IF repo = "consumer" THEN [consumer EXCEPT ![t].remote = consumer[t].head]
                                           ELSE consumer
  BY DEF Pushed
<1> HIDE DEF t
<1>4. /\ library' \in [Tasks -> Copies]
      /\ library'[t].file = library[t].file /\ library'[t].head = library[t].head
      /\ library'[t].remote = IF repo = "library" THEN library[t].head ELSE library[t].remote
      /\ \A u \in Tasks : u # t => library'[u] = library[u]
  BY <1>1, <1>2, <1>3 DEF Copies
<1>5. /\ consumer' \in [Tasks -> Copies]
      /\ consumer'[t].file = consumer[t].file /\ consumer'[t].head = consumer[t].head
      /\ consumer'[t].staged = consumer[t].staged
      /\ consumer'[t].remote = IF repo = "consumer" THEN consumer[t].head ELSE consumer[t].remote
      /\ \A u \in Tasks : u # t => consumer'[u] = consumer[u]
  BY <1>1, <1>2, <1>3 DEF Copies
<1> QED BY <1>4, <1>5 DEF t

\* The pushes.
LEMMA PushKeepsIInv == ASSUME IInv, NEW d \in Deploys, Push(d) PROVE IInv'
<1> DEFINE t == Task(d)
<1>1. PICK repo \in worker[d].left : Pushed(t, repo) /\ PushDone(d, repo) BY DEF Push
<1> DEFINE left == worker[d].left \ {repo}
           pc == IF left = {} THEN "trigger" ELSE "push"
<1>2. /\ worker[d].pc = "push" /\ UNCHANGED <<base, published>>
      /\ worker' = [worker EXCEPT ![d].pc = pc, ![d].left = left]
      /\ \E s \in Transient : Report(d, s)
  BY <1>1 DEF Push, PushDone, At, Transient
<1>3. worker \in [Deploys -> Workers] /\ worker[d] \in Workers BY OfThread DEF IInv
<1>4. left \in SUBSET Repos /\ pc \in {"trigger", "push"} /\ (pc = "trigger" => left = {})
  BY <1>3 DEF Workers
<1>5. "library" \notin left => "library" \notin worker[d].left \/ repo = "library"
  OBVIOUS
<1>6. "consumer" \notin left => "consumer" \notin worker[d].left \/ repo = "consumer"
  OBVIOUS
<1> HIDE DEF left, pc
<1>7. pc \in Active /\ pc \notin Bumping BY <1>4 DEF Active, Bumping
<1>8. /\ Same(d) /\ worker'[d].pc = pc /\ worker'[d].left = left
      /\ worker'[d].target = worker[d].target
  <2>1. /\ worker'[d] = [worker[d] EXCEPT !.pc = pc, !.left = left]
        /\ \A e \in Deploys : e # d => worker'[e] = worker[e]
        /\ worker' = [e \in Deploys |-> worker'[e]]
    BY <1>2, <1>3
  <2>2. /\ worker'[d] \in Workers /\ worker'[d].pc = pc /\ worker'[d].left = left
        /\ worker'[d].target = worker[d].target /\ worker'[d].task = worker[d].task
        /\ worker'[d].alone = worker[d].alone /\ worker'[d].sole = worker[d].sole
    BY <1>3, <1>4, <1>7, <2>1 DEF Workers
  <2> QED BY <1>3, <2>1, <2>2 DEF Same
<1>9. /\ library' \in [Tasks -> Copies] /\ consumer' \in [Tasks -> Copies]
      /\ library'[t].file = library[t].file /\ library'[t].head = library[t].head
      /\ library'[t].remote = IF repo = "library" THEN library[t].head ELSE library[t].remote
      /\ consumer'[t].file = consumer[t].file /\ consumer'[t].head = consumer[t].head
      /\ consumer'[t].staged = consumer[t].staged
      /\ consumer'[t].remote = IF repo = "consumer" THEN consumer[t].head ELSE consumer[t].remote
      /\ \A u \in Tasks : u # t => library'[u] = library[u] /\ consumer'[u] = consumer[u]
  BY <1>1, PushedLeaves
<1>10. Resolvable' BY <1>2, <1>8, <1>9, ResolvableOne
<1>11. Aimed(d)' BY <1>4, <1>8 DEF Aimed
<1>12. Ready(d)'
  <2>1. Ready(d) /\ Task(d)' = Task(d) /\ worker'[d].alone = worker[d].alone
    BY <1>8 DEF IInv, Threads, Task, Same
  <2>2. SUFFICES ASSUME worker[d].alone, t \in Changed
                 PROVE  /\ library'[t].file = worker'[d].target
                        /\ consumer'[t].file = worker'[d].target /\ worker'[d].target \in published'
                        /\ "library" \notin left => library'[t].remote = library'[t].head
                        /\ "consumer" \notin left => consumer'[t].remote = consumer'[t].head
    BY <1>4, <1>8, <2>1 DEF Ready
  <2>3. /\ library[t].file = worker[d].target
        /\ consumer[t].file = worker[d].target /\ worker[d].target \in published
        /\ "library" \notin worker[d].left => library[t].remote = library[t].head
        /\ "consumer" \notin worker[d].left => consumer[t].remote = consumer[t].head
    BY <1>2, <2>1, <2>2 DEF Ready
  <2> QED BY <1>2, <1>5, <1>6, <1>8, <1>9, <2>3
<1>13. \A u \in Tasks : library'[u].file = library[u].file BY <1>9
<1>14. worker[d].pc \in Active BY <1>2 DEF Active
<1> HIDE DEF t
<1> QED BY <1>2, <1>7, <1>8, <1>9, <1>10, <1>11, <1>12, <1>13, <1>14, GoOnKeepsIInv DEF IInv, TypeOK, t

\* The steps that follow Jenkins.
LEMMA FollowKeepsIInv ==
  ASSUME IInv, NEW d \in Deploys, Trigger(d) \/ Answer(d) \/ Deadline(d) PROVE IInv'
<1>1. /\ UNCHANGED <<base, library, consumer, published>>
      /\ worker[d].pc \in {"trigger", "queued", "building"}
  BY DEF Trigger, Answer, Deadline, At
<1>2. Same(d) => Resolvable' BY <1>1, ResolvableStays
<1>3. worker[d].pc \in Active BY <1>1 DEF Active
<1>4. CASE \E pc \in {"queued", "building"} : Goto(d, pc) /\ Report(d, pc)
  <2>1. PICK pc \in {"queued", "building"} : Goto(d, pc) /\ Report(d, pc) BY <1>4
  <2>2. Same(d) /\ worker'[d].pc = pc BY <2>1, Moved DEF IInv, Active
  <2>3. Aimed(d)' /\ Ready(d)' BY <2>2 DEF Aimed, Ready
  <2>4. \E s \in Transient : Report(d, s) BY <2>1 DEF Transient
  <2>5. worker'[d].pc \in Active /\ worker'[d].pc \notin Bumping BY <2>2 DEF Active, Bumping
  <2> QED BY <1>1, <1>2, <1>3, <2>2, <2>3, <2>4, <2>5, GoOnKeepsIInv DEF IInv, TypeOK
<1>5. CASE \E s \in {"success", "failed"} : Goto(d, "ended") /\ Report(d, s)
  <2>1. PICK s \in {"success", "failed"} : Goto(d, "ended") /\ Report(d, s) BY <1>5
  <2>2. Same(d) BY <2>1, Moved DEF IInv, Gone
  <2> QED BY <1>1, <1>2, <1>3, <2>1, <2>2, EndKeepsIInv DEF IInv, TypeOK
<1> QED BY <1>4, <1>5 DEF Trigger, Answer, Deadline

\* A call that fails.
LEMMA FailKeepsIInv == ASSUME IInv, NEW d \in Deploys, Fail(d) PROVE IInv'
<1> DEFINE t == Task(d)
<1>1. /\ worker[d].pc \in Active /\ Goto(d, "ended") /\ Report(d, "failed")
      /\ base' = base /\ Partly(d)
  BY DEF Fail
<1>2. t \in Tasks /\ library[t].file \in Versions BY OfThread DEF IInv, Versions
<1>3. Same(d) BY <1>1, Moved DEF IInv, Gone
<1>4. /\ published \subseteq published' /\ published' \subseteq Versions
      /\ library' \in [Tasks -> Copies] /\ consumer' \in [Tasks -> Copies]
      /\ \A u \in Tasks : /\ library'[u].file = library[u].file
                          /\ u # t => library'[u] = library[u] /\ consumer'[u] = consumer[u]
      /\ Resolvable'
  <2>1. CASE UNCHANGED <<library, consumer, published>>
    BY <1>1, <1>3, <2>1, ResolvableStays DEF IInv, TypeOK
  <2>2. CASE /\ published' = published \cup {library[t].file}
             /\ UNCHANGED <<library, consumer>>
    BY <1>1, <1>2, <1>3, <2>2, ResolvableStays DEF IInv, TypeOK
  <2>3. CASE UNCHANGED published /\ \E repo \in worker[d].left : Pushed(t, repo)
    <3>1. PICK repo : Pushed(t, repo) BY <2>3
    <3>2. /\ library' \in [Tasks -> Copies] /\ consumer' \in [Tasks -> Copies]
          /\ library'[t].file = library[t].file /\ consumer'[t].file = consumer[t].file
          /\ consumer'[t].staged = consumer[t].staged /\ consumer'[t].head = consumer[t].head
          /\ consumer'[t].remote \in {consumer[t].remote, consumer[t].head}
          /\ \A u \in Tasks : u # t => library'[u] = library[u] /\ consumer'[u] = consumer[u]
      BY <3>1, PushedLeaves
    <3>3. Resolvable' BY <1>1, <1>3, <2>3, <3>2, ResolvableOne
    <3> QED BY <2>3, <3>2, <3>3 DEF IInv, TypeOK
  <2> QED BY <1>1, <2>1, <2>2, <2>3 DEF Partly
<1> QED BY <1>1, <1>4, EndKeepsIInv

-----------------------------------------------------------------------------
\* Deploys that start, the server and the base branch

\* A deploy starts: it overlaps with those that work on its task, and they with it.
LEMMA DeployKeepsIInv == ASSUME IInv, NEW d \in Deploys, Deploy(d) PROVE IInv'
<1> DEFINE W(e) == IF e = d
                     THEN [worker[d] EXCEPT !.pc = "begun",
                                            !.alone = ~\E f \in Deploys : Meets(d, f, Active),
                                            !.sole = ~\E f \in Deploys : Meets(d, f, Bumping)]
                     ELSE [worker[e] EXCEPT !.alone = @ /\ ~Meets(d, e, Active),
                                            !.sole = @ /\ ~Meets(d, e, Bumping)]
<1>1. /\ worker[d].pc = "none" /\ worker' = [e \in Deploys |-> W(e)]
      /\ Report(d, "bumping") /\ UNCHANGED <<base, library, consumer, published>>
  BY DEF Deploy, At
<1>2. \A e \in Deploys : worker[e] \in Workers BY DEF IInv, TypeOK
<1>3. \A e \in Deploys :
        /\ worker'[e] \in Workers /\ worker'[e].task = worker[e].task
        /\ worker'[e].seen = worker[e].seen /\ worker'[e].target = worker[e].target
        /\ worker'[e].base = worker[e].base /\ worker'[e].left = worker[e].left
        /\ e # d => worker'[e].pc = worker[e].pc
  <2> TAKE e \in Deploys
  <2> DEFINE a == IF e = d THEN ~\E f \in Deploys : Meets(d, f, Active)
                           ELSE worker[e].alone /\ ~Meets(d, e, Active)
             o == IF e = d THEN ~\E f \in Deploys : Meets(d, f, Bumping)
                           ELSE worker[e].sole /\ ~Meets(d, e, Bumping)
             pc == IF e = d THEN "begun" ELSE worker[e].pc
  <2>1. a \in BOOLEAN /\ o \in BOOLEAN OBVIOUS
  <2>2. pc \in Active \cup Gone \cup {"none"} BY <1>2 DEF Workers, Active, Bumping
  <2>3. worker'[e] = [worker[e] EXCEPT !.pc = pc, !.alone = a, !.sole = o]
    BY <1>1, <1>2 DEF Workers
  <2>4. e # d => pc = worker[e].pc OBVIOUS
  <2> HIDE DEF a, o, pc
  <2> QED BY <1>2, <2>1, <2>2, <2>3, <2>4 DEF Workers
<1>4. /\ worker'[d].pc = "begun"
      /\ worker'[d].alone <=> ~\E f \in Deploys : Meets(d, f, Active)
      /\ worker'[d].sole <=> ~\E f \in Deploys : Meets(d, f, Bumping)
  BY <1>1, <1>2 DEF Workers
<1>5. \A e \in Deploys : e # d =>
        /\ worker'[e].alone <=> worker[e].alone /\ ~Meets(d, e, Active)
        /\ worker'[e].sole <=> worker[e].sole /\ ~Meets(d, e, Bumping)
  BY <1>1, <1>2 DEF Workers
<1>6. TypeOK'
  <2>1. worker' \in [Deploys -> Workers] BY <1>1, <1>3
  <2>2. status' \in [Tasks -> Transient \cup {"none", "success", "failed"}]
    BY <1>1, Reported DEF IInv, Transient
  <2> QED BY <1>1, <2>1, <2>2 DEF IInv, TypeOK
<1>7. Resolvable'
  <2>1. worker[d].sole BY <1>1 DEF IInv, Threads, Exclusive
  <2>2. \A t \in Tasks : SoleTask(t)' => SoleTask(t)
    BY <1>3, <1>5, <2>1 DEF SoleTask, Task
  <2> QED BY <1>1, <2>2 DEF IInv, Resolvable
<1>8. ASSUME NEW e \in Deploys PROVE Aimed(e)' /\ Ready(e)'
  <2>1. CASE e = d BY <1>4, <2>1 DEF Aimed, Ready
  <2>2. CASE e # d
    <3>1. Aimed(e) /\ Ready(e) BY DEF IInv, Threads
    <3>2. /\ worker'[e].pc = worker[e].pc /\ worker'[e].task = worker[e].task
          /\ worker'[e].seen = worker[e].seen /\ worker'[e].left = worker[e].left
          /\ worker'[e].target = worker[e].target /\ worker'[e].base = worker[e].base
          /\ worker'[e].alone => worker[e].alone
          /\ worker'[e].sole => worker[e].sole
      BY <1>3, <1>5, <2>2
    <3>3. base' = base /\ library' = library /\ consumer' = consumer /\ published' = published
      BY <1>1
    <3>4. Aimed(e)' BY <3>1, <3>2, <3>3 DEF Aimed, Task
    <3>5. Ready(e)' BY <3>1, <3>2, <3>3 DEF Ready, Task
    <3> QED BY <3>4, <3>5
  <2> QED BY <2>1, <2>2
<1>9. ASSUME NEW e \in Deploys PROVE Exclusive(e)'
  <2>1. Exclusive(e) BY DEF IInv, Threads
  <2>2. (worker'[e].alone => worker'[e].sole) /\ (worker'[e].pc = "none" => worker'[e].sole)
    <3>1. \A f \in Deploys : Meets(d, f, Bumping) => Meets(d, f, Active) BY DEF Meets, Active
    <3>2. CASE e = d BY <1>4, <3>1, <3>2
    <3>3. CASE e # d
      <4>1. worker[e].pc = "none" => ~Meets(d, e, Bumping) BY DEF Meets, Bumping
      <4> QED BY <1>3, <1>5, <2>1, <3>1, <3>3, <4>1 DEF Exclusive
    <3> QED BY <3>2, <3>3
  <2>3. ASSUME worker'[e].alone, worker'[e].pc \in Active, NEW f \in Deploys, f # e,
               worker'[f].task = worker'[e].task, worker'[f].pc \in Active
        PROVE  FALSE
    <3>1. CASE e = d BY <1>3, <1>4, <2>3, <3>1 DEF Meets, Task
    <3>2. CASE f = d BY <1>3, <1>5, <2>3, <3>2 DEF Meets, Task
    <3>3. CASE e # d /\ f # d BY <1>3, <1>5, <2>1, <2>3, <3>3 DEF Exclusive, Meets, Task
    <3> QED BY <3>1, <3>2, <3>3
  <2>4. ASSUME worker'[e].sole, worker'[e].pc \in Bumping, NEW f \in Deploys, f # e,
               worker'[f].task = worker'[e].task, worker'[f].pc \in Bumping
        PROVE  FALSE
    <3>1. CASE e = d BY <1>3, <1>4, <2>4, <3>1 DEF Meets, Task
    <3>2. CASE f = d BY <1>3, <1>5, <2>4, <3>2 DEF Meets, Task
    <3>3. CASE e # d /\ f # d BY <1>3, <1>5, <2>1, <2>4, <3>3 DEF Exclusive, Meets, Task
    <3> QED BY <3>1, <3>2, <3>3
  <2> QED BY <2>2, <2>3, <2>4 DEF Exclusive, Meets, Task
<1>10. StatusIsFinal'
  <2> SUFFICES ASSUME NEW t \in Tasks,
                      \A e \in Deploys : worker'[e].task = t => worker'[e].pc \in {"none", "ended"}
               PROVE  status'[t] \notin Transient
    BY DEF StatusIsFinal, Task
  <2>1. t # Task(d) BY <1>3, <1>4 DEF Task
  <2>2. status'[t] = status[t] BY <1>1, <2>1, Reported DEF IInv, Transient
  <2>3. \A e \in Deploys : worker[e].task = t => worker[e].pc \in {"none", "ended"}
    BY <1>1, <1>3
  <2> QED BY <2>2, <2>3 DEF IInv, StatusIsFinal, Task
<1> QED BY <1>6, <1>7, <1>8, <1>9, <1>10 DEF IInv, Threads

\* The server dies.
LEMMA CrashKeepsIInv == ASSUME IInv, Crash PROVE IInv'
<1>1. UNCHANGED <<base, library, consumer, status>> BY DEF Crash
<1>2. \A e \in Deploys : worker[e] \in Workers BY DEF IInv, TypeOK
<1>3. \A e \in Deploys :
        /\ worker'[e] \in Workers /\ worker'[e].task = worker[e].task
        /\ worker'[e].sole = worker[e].sole /\ worker'[e].alone = worker[e].alone
        /\ worker'[e].pc = IF worker[e].pc \in Active THEN "lost" ELSE worker[e].pc
  BY <1>2 DEF Crash, Workers, Gone
<1>4. published \subseteq published' /\ published' \subseteq Versions
  <2>1. PICK finished \in SUBSET {d \in Deploys : At(d, "publish")} :
          published' = published \cup {library[Task(d)].file : d \in finished}
    BY DEF Crash
  <2>2. \A d \in finished : library[Task(d)].file \in Versions
    BY OfThread DEF IInv, Versions
  <2> QED BY <2>1, <2>2 DEF IInv, TypeOK
<1>5. TypeOK'
  <2>1. worker' \in [Deploys -> Workers] BY <1>3 DEF Crash
  <2> QED BY <1>1, <1>4, <2>1 DEF IInv, TypeOK
<1>6. Resolvable'
  <2>1. \A t \in Tasks : SoleTask(t)' <=> SoleTask(t) BY <1>3 DEF SoleTask, Task
  <2> QED BY <1>1, <1>4, <2>1 DEF IInv, Resolvable
<1>7. ASSUME NEW d \in Deploys PROVE Aimed(d)' /\ Exclusive(d)' /\ Ready(d)'
  <2>1. worker'[d].pc \notin Active /\ worker'[d].pc \notin Bumping
    BY <1>3 DEF Active, Bumping
  <2>2. /\ worker'[d].sole = worker[d].sole /\ worker'[d].alone = worker[d].alone
        /\ worker'[d].pc = "none" => worker[d].pc = "none"
    BY <1>3
  <2>3. Exclusive(d) BY DEF IInv, Threads
  <2> QED BY <2>1, <2>2, <2>3 DEF Aimed, Exclusive, Ready, Active, Bumping
<1>8. StatusIsFinal'
  <2> SUFFICES ASSUME NEW t \in Tasks,
                      \A e \in Deploys : worker'[e].task = t => worker'[e].pc \in {"none", "ended"}
               PROVE  status'[t] \notin Transient
    BY DEF StatusIsFinal, Task
  <2>1. \A e \in Deploys : worker[e].task = t => worker[e].pc \in {"none", "ended"} BY <1>3
  <2> QED BY <1>1, <2>1 DEF IInv, StatusIsFinal, Task
<1> QED BY <1>5, <1>6, <1>7, <1>8 DEF IInv, Threads

\* Others bump the library and publish it.
LEMMA BaseAdvancesKeepsIInv == ASSUME IInv, BaseAdvances PROVE IInv'
<1>1. /\ base < MaxBase /\ base' = base + 1 /\ published' = published \cup {base + 1}
      /\ UNCHANGED <<library, consumer, status, worker>>
  BY DEF BaseAdvances
<1>2. base \in 1..MaxBase /\ MaxBase \in Nat BY BoundsAssumption DEF IInv, TypeOK
<1>3. TypeOK' BY <1>1, <1>2 DEF IInv, TypeOK, Versions
<1>4. Resolvable'
  <2>1. Resolvable BY DEF IInv
  <2>2. \A v \in Versions : v <= base' => v \in published'
    BY <1>1, <1>2, <2>1 DEF Resolvable, Versions
  <2>3. \A t \in Tasks : SoleTask(t)' <=> SoleTask(t) BY <1>1 DEF SoleTask, Task
  <2> QED BY <1>1, <2>1, <2>2, <2>3 DEF Resolvable
<1>5. ASSUME NEW d \in Deploys PROVE Aimed(d)' /\ Exclusive(d)' /\ Ready(d)'
  <2>1. Aimed(d) /\ Exclusive(d) /\ Ready(d) BY DEF IInv, Threads
  <2>2. Aimed(d)'
    <3>1. worker[d].target \in Int BY OfThread DEF IInv
    <3> QED BY <1>1, <1>2, <2>1, <3>1 DEF Aimed, Task
  <2>3. Exclusive(d)' BY <1>1, <2>1 DEF Exclusive, Meets, Task
  <2>4. Ready(d)' BY <1>1, <2>1 DEF Ready, Task
  <2> QED BY <2>2, <2>3, <2>4
<1>6. StatusIsFinal' BY <1>1 DEF IInv, StatusIsFinal, Task
<1> QED BY <1>3, <1>4, <1>5, <1>6 DEF IInv, Threads

-----------------------------------------------------------------------------
\* The theorems

\* Before the first deploy.
LEMMA InitIInv == Init => IInv
<1> SUFFICES ASSUME Init PROVE IInv OBVIOUS
<1>1. /\ base = 1 /\ published = {1} /\ status = [t \in Tasks |-> "none"]
      /\ consumer = [t \in Tasks |-> Clean(1)]
      /\ 1 \in Versions /\ 2 \in Versions /\ base \in 1..MaxBase
  BY BoundsAssumption DEF Init, Versions
<1>2. library \in [Tasks -> Copies]
  <2>1. PICK bumped \in SUBSET Changed :
          library = [t \in Tasks |-> Clean(IF t \in bumped THEN 2 ELSE 1)]
    BY DEF Init
  <2> QED BY <1>1, <2>1 DEF Copies, Clean
<1>3. consumer \in [Tasks -> Copies] BY <1>1 DEF Copies, Clean
<1>4. /\ worker \in [Deploys -> Workers]
      /\ \A d \in Deploys : worker[d].pc = "none" /\ worker[d].sole
  BY DEF Init, Workers
<1>5. TypeOK BY <1>1, <1>2, <1>3, <1>4 DEF TypeOK
<1>6. Resolvable BY <1>1 DEF Resolvable, Versions, Clean
<1>7. Threads BY <1>4 DEF Threads, Aimed, Exclusive, Ready, Active, Bumping
<1>8. StatusIsFinal BY <1>1 DEF StatusIsFinal, Transient
<1> QED BY <1>5, <1>6, <1>7, <1>8 DEF IInv

\* Every step keeps the invariant.
LEMMA NextIInv == IInv /\ [Next]_vars => IInv'
<1> SUFFICES ASSUME IInv, [Next]_vars PROVE IInv' OBVIOUS
<1>1. ASSUME NEW d \in Deploys, Deploy(d) \/ Work(d) \/ Answer(d) \/ Fail(d) PROVE IInv'
  BY <1>1, DeployKeepsIInv, ReadVersionKeepsIInv, LookAtBaseKeepsIInv,
     WriteVersionKeepsIInv, CommitBumpKeepsIInv, PublishKeepsIInv, PointKeepsIInv,
     WriteDependencyKeepsIInv, CommitDependencyKeepsIInv, PushKeepsIInv, FollowKeepsIInv,
     FailKeepsIInv DEF Work, Bump, PointConsumer
<1>2. CASE UNCHANGED vars
  <2>1. Threads' BY <1>2 DEF vars, IInv, Threads, Aimed, Exclusive, Meets, Ready, Task
  <2>2. TypeOK' BY <1>2 DEF vars, IInv, TypeOK
  <2>3. Resolvable' BY <1>2 DEF vars, IInv, Resolvable, SoleTask, Task
  <2>4. StatusIsFinal' BY <1>2 DEF vars, IInv, StatusIsFinal, Task
  <2> QED BY <2>1, <2>2, <2>3, <2>4 DEF IInv
<1> QED BY <1>1, <1>2, CrashKeepsIInv, BaseAdvancesKeepsIInv DEF Next

\* The invariant holds throughout.
LEMMA Invariance == Spec => []IInv
<1> QED BY InitIInv, NextIInv, PTL DEF Spec

\* The repositories, the artifacts, the statuses and the threads have their types: no
\* version is past the one that follows the base branch's.
THEOREM TypeCorrect == Spec => []TypeOK
<1>1. IInv => TypeOK BY DEF IInv
<1> QED BY <1>1, Invariance, PTL

\* The pushed branch of a task whose deploys bumped one at a time names a version that
\* can be resolved, however else they failed, were repeated or overlapped.
THEOREM NothingUnresolvable == Spec => []PushedIsPublished
<1>1. IInv => PushedIsPublished BY DEF IInv, Resolvable, PushedIsPublished, SoleTask
<1> QED BY <1>1, Invariance, PTL

\* When no thread works on a task, and none was lost, its status is final.
THEOREM FinalStatus == Spec => []StatusIsFinal
<1>1. IInv => StatusIsFinal BY DEF IInv
<1> QED BY <1>1, Invariance, PTL

\* What Jenkins is asked to build is what the deploy has published.
THEOREM BuildIsOwn == Spec => []BuildsWhatItPublished
<1>1. IInv => BuildsWhatItPublished
  BY DEF IInv, Threads, Ready, BuildsWhatItPublished, Uncommitted, At
<1> QED BY <1>1, Invariance, PTL

\* What a deploy that bumped by itself publishes is past the base version, if that has
\* not moved since the deploy looked at it.
THEOREM PastTheBase == Spec => BaseIsUntouched
<1>1. ASSUME IInv, NEW d \in Deploys, Publish(d), worker[d].sole, base = worker[d].base
      PROVE  library[Task(d)].file > base
  BY <1>1 DEF IInv, Threads, Aimed, Publish, At
<1>2. IInv => [\A d \in Deploys :
                 Publish(d) /\ worker[d].sole /\ base = worker[d].base
                   => library[Task(d)].file > base]_vars
  BY <1>1
<1> QED BY <1>2, Invariance, PTL DEF BaseIsUntouched

=============================================================================
