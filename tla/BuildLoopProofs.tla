-------------------------- MODULE BuildLoopProofs --------------------------
(***************************************************************************)
(* Theorems about BuildLoop, for any plan whose phases depend on earlier   *)
(* ones only, any limits and any number of runs.                           *)
(***************************************************************************)
EXTENDS BuildLoop, FiniteSetTheorems, WellFoundedInduction, TLAPS

\* The limits and the plan's shape as the steps below use them.
LEMMA Bounds ==
  /\ N \in Nat /\ AttemptLimit \in Nat /\ AttemptLimit > 0
  /\ MaxRuns \in Nat /\ MaxExpiries \in Nat
  /\ Limits \subseteq Nat
  /\ 0 \in 0..N /\ 0 \in Nat /\ 0 \in Limits \cup {0}
  /\ Subtask \subseteq 0..N /\ ~(0 \in Subtask)
  /\ \A n \in 0..N : n # 0 => n \in Subtask
BY PlanAssumption, LimitsAssumption DEF Subtask

\* Counting one up to a bound.
LEMMA OneMore ==
  ASSUME NEW m \in Nat, NEW n \in 0..m, n < m
  PROVE  n + 1 \in 0..m
OBVIOUS

\* What UNCHANGED disk says of each variable.
LEMMA DiskKept ==
  ASSUME UNCHANGED disk
  PROVE  /\ file' = file /\ status' = status /\ attempts' = attempts /\ stuck' = stuck
         /\ approval' = approval /\ mode' = mode /\ paused' = paused
BY Zenon DEF disk

\* The same of the process.
LEMMA ProcessKept ==
  ASSUME UNCHANGED process
  PROVE  /\ pc' = pc /\ firstRun' = firstRun /\ planning' = planning /\ current' = current
         /\ committed' = committed /\ outcome' = outcome /\ limit' = limit
         /\ iteration' = iteration
BY Zenon DEF process

\* A step that changes nothing.
LEMMA AllKept ==
  ASSUME UNCHANGED vars
  PROVE  /\ UNCHANGED disk /\ UNCHANGED process
         /\ reviewed' = reviewed /\ result' = result /\ runs' = runs /\ expiries' = expiries
BY Zenon DEF vars

\* get_next_subtask returns a pending subtask of a readable plan whose phase has
\* all it waits for, or nothing.
LEMMA NextIsWorkable ==
  /\ NextSubtask \in 0..N
  /\ NextSubtask # 0 => file = "whole" /\ NextSubtask \in Subtask /\ Workable(NextSubtask)
<1> DEFINE first == {s \in Subtask : Workable(s) /\ \A t \in 1..(s - 1) : ~Workable(t)}
<1>1. CASE file = "whole" /\ first # {}
  <2>1. (CHOOSE s \in first : TRUE) \in first BY <1>1
  <2>2. NextSubtask = CHOOSE s \in first : TRUE BY <1>1 DEF NextSubtask
  <2>3. NextSubtask \in Subtask /\ Workable(NextSubtask) BY <2>1, <2>2
  <2> QED BY <1>1, <2>3, Bounds
<1>2. CASE ~(file = "whole" /\ first # {})
  <2>1. NextSubtask = 0 BY <1>2 DEF NextSubtask
  <2> QED BY <2>1, Bounds
<1> QED BY <1>1, <1>2

-----------------------------------------------------------------------------
\* Types

\* Post-session processing is always about a subtask.
OnSubtask == pc \in {"process", "record", "escalate", "fail"} => current \in Subtask

\* A new task is well-typed.
LEMMA TypeInit == Init => TypeOK /\ OnSubtask
<1> SUFFICES ASSUME Init PROVE TypeOK /\ OnSubtask OBVIOUS
<1>1. paused \in BOOLEAN /\ firstRun \in BOOLEAN /\ planning \in BOOLEAN
      /\ committed \in BOOLEAN /\ reviewed \in BOOLEAN
  BY Zenon DEF Init
<1>2. 0 \in 0..N /\ 0 \in 0..MaxRuns /\ 0 \in 0..MaxExpiries BY Bounds
<1>3. status \in [Subtask -> Status] /\ attempts \in [Subtask -> Nat] BY DEF Init, Status
<1> QED BY <1>1, <1>2, <1>3 DEF Init, TypeOK, OnSubtask

\* Every step keeps post-session processing about a subtask.
LEMMA OnSubtaskStep == TypeOK /\ OnSubtask /\ [Next]_vars => OnSubtask'
<1> SUFFICES ASSUME TypeOK, OnSubtask, [Next]_vars PROVE OnSubtask' OBVIOUS
<1>1. CASE UNCHANGED vars BY <1>1, AllKept, ProcessKept DEF OnSubtask
<1>2. ASSUME UNCHANGED <<pc, current>> PROVE OnSubtask' BY <1>2 DEF OnSubtask
<1>3. ASSUME pc' \in {"idle", "top", "session", "handle"} PROVE OnSubtask'
  BY <1>3 DEF OnSubtask
<1>4. ASSUME NEW o \in {"continue", "complete", "error"}, SessionEnds(o) PROVE OnSubtask'
  <2>1. current \in 0..N BY DEF TypeOK
  <2> QED BY <1>4, <2>1, Bounds DEF SessionEnds, OnSubtask
<1>5. CASE ProcessPlan \/ RecordAttempt \/ Escalate \/ MarkFailed
  <2>1. current \in Subtask /\ current' = current
    BY <1>5 DEF OnSubtask, ProcessPlan, RecordAttempt, Escalate, MarkFailed
  <2> QED BY <2>1 DEF OnSubtask
<1>6. CASE (\E l \in Limits : Start(l)) \/ IterationHead \/ HandleStatus \/ Kill
  BY <1>3, <1>6 DEF Start, EnterLoop, Ends, IterationHead, PausedByHuman, LimitReached, PlannerSession,
       AwaitReview, NoPendingSubtasks, CoderSession, BeginSession, HandleStatus, Kill
<1>7. CASE Agent \/ Approve \/ HumanPauses \/ \E s \in Subtask : Expire(s)
  BY <1>2, <1>7 DEF Agent, PlannerWrites, AgentMarks, AgentCommits, AgentGarbles, Approve,
       HumanPauses, Expire, process
<1>8. CASE ApprovePlan
  BY <1>2, <1>3, <1>8 DEF ApprovePlan, EnterLoop, Ends, process
<1> QED BY <1>1, <1>4, <1>5, <1>6, <1>7, <1>8 DEF Next, Loop, PostSession, Human

\* TypeOK in two parts, the flags and the rest.
Flags ==
  /\ paused \in BOOLEAN /\ firstRun \in BOOLEAN /\ planning \in BOOLEAN
  /\ committed \in BOOLEAN /\ reviewed \in BOOLEAN

Data ==
  /\ file \in {"none", "whole", "garbled"}
  /\ status \in [Subtask -> Status]
  /\ attempts \in [Subtask -> Nat]
  /\ stuck \subseteq Subtask
  /\ approval \in {"none", "valid", "stale"}
  /\ mode \in Modes
  /\ pc \in {"idle", "top", "session", "process", "record", "escalate", "fail", "handle"}
  /\ current \in 0..N
  /\ outcome \in {"unset", "continue", "complete", "error"}
  /\ limit \in Limits \cup {0}
  /\ iteration \in Nat
  /\ result \in {"none", "blocked", "paused", "limit", "review", "no pending", "complete",
                 "killed"}
  /\ runs \in 0..MaxRuns
  /\ expiries \in 0..MaxExpiries

\* The two parts are the whole.
LEMMA TypeParts == TypeOK <=> Flags /\ Data
BY Zenon DEF TypeOK, Flags, Data

\* Every step keeps the flags Boolean.
LEMMA FlagsStep == Flags /\ [Next]_vars => Flags'
<1> SUFFICES ASSUME Flags, [Next]_vars PROVE Flags' OBVIOUS
<1>1. CASE UNCHANGED vars BY <1>1, Zenon DEF vars, disk, process, Flags
<1>2. ASSUME NEW l, EnterLoop(l), UNCHANGED paused, reviewed' \in BOOLEAN PROVE Flags'
  BY <1>2, Zenon DEF EnterLoop, Ends, Flags
<1>3. ASSUME NEW r, Ends(r), UNCHANGED <<paused, reviewed>> PROVE Flags'
  BY <1>3, Zenon DEF Ends, Flags
<1>4. ASSUME UNCHANGED process, paused' \in BOOLEAN, reviewed' \in BOOLEAN PROVE Flags'
  BY <1>4, Zenon DEF process, Flags
<1>5. ASSUME NEW l \in Limits, Start(l) PROVE Flags'
  <2>1. UNCHANGED <<paused, reviewed>> BY <1>5, Zenon DEF Start, disk
  <2>2. reviewed' \in BOOLEAN BY <2>1, Zenon DEF Flags
  <2>3. EnterLoop(l) \/ Ends("blocked") BY <1>5, Zenon DEF Start
  <2> QED BY <1>2, <1>3, <2>1, <2>2, <2>3, Zenon
<1>6. CASE ApprovePlan
  <2>1. reviewed' \in BOOLEAN BY <1>6, Zenon DEF ApprovePlan, Flags
  <2>2. UNCHANGED paused /\ (EnterLoop(0) \/ UNCHANGED process)
    BY <1>6, Zenon DEF ApprovePlan
  <2>3. paused' \in BOOLEAN BY <2>2, Zenon DEF Flags
  <2> QED BY <1>2, <1>4, <2>1, <2>2, <2>3, Zenon
<1>7. CASE Approve
  <2>1. reviewed' \in BOOLEAN /\ paused' \in BOOLEAN /\ UNCHANGED process
    BY <1>7, Zenon DEF Approve, Flags
  <2> QED BY <1>4, <2>1, Zenon
<1>8. CASE HumanPauses
  <2>1. reviewed' \in BOOLEAN /\ paused' \in BOOLEAN /\ UNCHANGED process
    BY <1>8, Zenon DEF HumanPauses, Flags
  <2> QED BY <1>4, <2>1, Zenon
<1>9. CASE PausedByHuman \/ LimitReached \/ AwaitReview \/ NoPendingSubtasks
  BY <1>3, <1>9, Zenon DEF PausedByHuman, LimitReached, AwaitReview, NoPendingSubtasks, disk
<1>10. CASE PlannerSession \/ CoderSession
  BY <1>10, Zenon DEF PlannerSession, CoderSession, BeginSession, disk, Flags
<1>11. CASE PlannerWrites
  <2>1. reviewed' \in BOOLEAN /\ paused' \in BOOLEAN /\ UNCHANGED process
    BY <1>11, Zenon DEF PlannerWrites, Flags
  <2> QED BY <1>4, <2>1, Zenon
<1>12. CASE AgentGarbles \/ (\E st \in Status : AgentMarks(st)) \/ \E s \in Subtask : Expire(s)
  <2>1. reviewed' \in BOOLEAN /\ paused' \in BOOLEAN /\ UNCHANGED process
    BY <1>12, Zenon DEF AgentGarbles, AgentMarks, Expire, Flags
  <2> QED BY <1>4, <2>1, Zenon
<1>13. CASE AgentCommits BY <1>13, Zenon DEF AgentCommits, disk, Flags
<1>14. CASE \E o \in {"continue", "complete", "error"} : SessionEnds(o)
  BY <1>14, Zenon DEF SessionEnds, disk, Flags
<1>15. CASE ProcessPlan \/ RecordAttempt \/ Escalate \/ MarkFailed
  BY <1>15, Zenon DEF ProcessPlan, RecordAttempt, Escalate, MarkFailed, Flags
<1>16. CASE HandleStatus
  <2>1. Ends("complete") \/ UNCHANGED <<firstRun, planning, committed>>
    BY <1>16, Zenon DEF HandleStatus
  <2>2. UNCHANGED <<paused, reviewed>> BY <1>16, Zenon DEF HandleStatus, disk
  <2> QED BY <1>3, <2>1, <2>2, Zenon DEF Flags
<1>17. CASE Kill BY <1>3, <1>17, Zenon DEF Kill
<1> QED
  BY <1>1, <1>5, <1>6, <1>7, <1>8, <1>9, <1>10, <1>11, <1>12, <1>13, <1>14, <1>15, <1>16, <1>17
  DEF Next, Loop, IterationHead, PostSession, Agent, Human

\* Entering the loop keeps the process and the counters well-typed.
LEMMA EnterType ==
  ASSUME Data, runs < MaxRuns, NEW l \in Limits \cup {0}, EnterLoop(l)
  PROVE  /\ pc' \in {"idle", "top"} /\ current' = 0 /\ outcome' = "unset"
         /\ limit' \in Limits \cup {0} /\ iteration' = 0
         /\ result' \in {result, "complete"} /\ runs' \in 0..MaxRuns
<1>1. runs' \in 0..MaxRuns
  <2>1. runs \in 0..MaxRuns /\ runs' = runs + 1 BY DEF Data, EnterLoop
  <2> QED BY <2>1, OneMore, Bounds
<1>2. CASE BuildComplete BY <1>1, <1>2 DEF EnterLoop, Ends
<1>3. CASE ~BuildComplete BY <1>1, <1>3 DEF EnterLoop
<1> QED BY <1>2, <1>3

\* A step that changes at most the attempts and their expiries keeps the types of
\* the rest when these two stay well-typed.
LEMMA KeptTypes ==
  ASSUME Data, attempts' \in [Subtask -> Nat], expiries' \in 0..MaxExpiries,
         file' = file, status' = status, stuck' = stuck, approval' = approval, mode' = mode,
         pc' = pc, current' = current, outcome' = outcome, limit' = limit,
         iteration' = iteration, result' = result, runs' = runs
  PROVE  Data'
<1>1. limit' \in Limits \cup {0} BY DEF Data
<1>2. stuck' \subseteq Subtask BY DEF Data
<1>3. status' \in [Subtask -> Status] BY DEF Data
<1>4. current' \in 0..N BY DEF Data
<1>5. runs' \in 0..MaxRuns BY DEF Data
<1>6. mode' \in Modes BY DEF Data
<1>7. outcome' \in {"unset", "continue", "complete", "error"} BY DEF Data
<1>8. iteration' \in Nat BY DEF Data
<1> QED BY <1>1, <1>2, <1>3, <1>4, <1>5, <1>6, <1>7, <1>8 DEF Data

\* Every step keeps the types of the rest.
LEMMA DataStep == Data /\ OnSubtask /\ [Next]_vars => Data'
<1> SUFFICES ASSUME Data, OnSubtask, [Next]_vars PROVE Data' OBVIOUS
<1>1. CASE UNCHANGED vars
  <2>1. /\ UNCHANGED <<file, status, attempts, stuck, approval, mode>>
        /\ UNCHANGED <<pc, current, outcome, limit, iteration, result, runs, expiries>>
    BY <1>1, Zenon DEF vars, disk, process
  <2>2. attempts' \in [Subtask -> Nat] /\ expiries' \in 0..MaxExpiries
    BY <1>1, Zenon DEF vars, disk, Data
  <2> QED BY <2>1, <2>2, KeptTypes, Zenon
<1>2. ASSUME NEW l \in Limits, Start(l) PROVE Data'
  <2>1. CASE mode # "flag" \/ approval = "valid"
    <3>1. EnterLoop(l) /\ runs < MaxRuns BY <1>2, <2>1 DEF Start
    <3> QED BY <1>2, <3>1, EnterType, DiskKept, Bounds DEF Start, Data
  <2>2. CASE ~(mode # "flag" \/ approval = "valid")
    <3>1. runs \in 0..MaxRuns /\ runs < MaxRuns /\ runs' = runs + 1
      BY <1>2, <2>2 DEF Start, Data
    <3>2. runs' \in 0..MaxRuns BY <3>1, OneMore, Bounds
    <3> QED BY <1>2, <2>2, <3>2, DiskKept, Bounds DEF Start, Ends, Data
  <2> QED BY <2>1, <2>2
<1>3. CASE ApprovePlan
  <2>1. CASE pc = "idle" /\ runs < MaxRuns /\ EnterLoop(0)
    BY <1>3, <2>1, EnterType, Bounds DEF ApprovePlan, Data
  <2>2. CASE UNCHANGED <<process, result, runs>>
    BY <1>3, <2>2, ProcessKept DEF ApprovePlan, Data
  <2> QED BY <1>3, <2>1, <2>2 DEF ApprovePlan
<1>4. CASE Approve BY <1>4, ProcessKept DEF Approve, Data
<1>5. ASSUME NEW r \in {"paused", "limit", "review", "no pending"},
             Ends(r), UNCHANGED <<disk, reviewed, runs, expiries>>
      PROVE  Data'
  BY <1>5, DiskKept, Bounds DEF Ends, Data
<1>6. CASE PlannerSession \/ CoderSession
  <2>1. BeginSession BY <1>6 DEF PlannerSession, CoderSession
  <2>2. iteration' \in Nat
    <3>1. iteration' \in {0, iteration + 1} BY <2>1, Zenon DEF BeginSession
    <3>2. iteration \in Nat BY Zenon DEF Data
    <3>3. iteration + 1 \in Nat /\ 0 \in Nat BY <3>2
    <3> QED BY <3>1, <3>3, Zenon
  <2> QED BY <2>1, <2>2, NextIsWorkable, DiskKept DEF BeginSession, Data
<1>7. CASE PlannerWrites BY <1>7, ProcessKept DEF PlannerWrites, Rehashed, Status, Data
<1>8. ASSUME NEW st \in Status, AgentMarks(st) PROVE Data'
  <2>1. status' \in [Subtask -> Status] BY <1>8 DEF AgentMarks, Data
  <2> QED BY <1>8, <2>1, ProcessKept DEF AgentMarks, Rehashed, Data
<1>9. CASE AgentCommits BY <1>9, DiskKept DEF AgentCommits, Data
<1>10. CASE AgentGarbles BY <1>10, ProcessKept DEF AgentGarbles, Rehashed, Data
<1>11. ASSUME NEW o \in {"continue", "complete", "error"}, SessionEnds(o) PROVE Data'
  BY <1>11, DiskKept DEF SessionEnds, Data
<1>12. CASE ProcessPlan
  <2>1. status' \in [Subtask -> Status] BY <1>12 DEF ProcessPlan, Status, Data
  <2> QED BY <1>12, <2>1 DEF ProcessPlan, Rehashed, Data
<1>13. CASE RecordAttempt
  <2>1. attempts \in [Subtask -> Nat] /\ attempts' = [attempts EXCEPT ![current] = @ + 1]
    BY <1>13 DEF RecordAttempt, Data
  <2>2. attempts' \in [Subtask -> Nat]
    <3>1. current \in Subtask => attempts[current] + 1 \in Nat BY <2>1
    <3> QED BY <2>1, <3>1
  <2> QED BY <1>13, <2>2 DEF RecordAttempt, Data
<1>14. CASE Escalate
  <2>1. stuck' \subseteq Subtask BY <1>14 DEF Escalate, OnSubtask, Data
  <2> QED BY <1>14, <2>1 DEF Escalate, Data
<1>15. CASE MarkFailed
  <2>1. status' \in [Subtask -> Status] BY <1>15 DEF MarkFailed, Status, Data
  <2> QED BY <1>15, <2>1 DEF MarkFailed, Rehashed, Data
<1>16. CASE HandleStatus BY <1>16, DiskKept, Bounds DEF HandleStatus, Ends, Data
<1>17. CASE Kill
  <2>1. /\ file' \in {file, "garbled"} /\ approval' \in {approval, "stale"}
        /\ attempts' \in [Subtask -> Nat] /\ stuck' \subseteq Subtask
    <3>1. file' \in {file, "garbled"} /\ approval' \in {approval, "stale"}
      BY <1>17 DEF Kill, Rehashed
    <3>2. \/ UNCHANGED <<attempts, stuck>>
          \/ attempts' = [s \in Subtask |-> 0] /\ stuck' = {}
      BY <1>17, Zenon DEF Kill
    <3>3. attempts \in [Subtask -> Nat] /\ stuck \subseteq Subtask BY Zenon DEF Data
    <3> QED BY <3>1, <3>2, <3>3
  <2>2. /\ pc' = "idle" /\ result' = "killed" /\ current' = 0 /\ outcome' = "unset"
        /\ limit' = 0 /\ iteration' = 0 /\ UNCHANGED <<status, mode, runs, expiries>>
    BY <1>17, Zenon DEF Kill, Ends
  <2> QED BY <2>1, <2>2, Bounds DEF Data
<1>18. ASSUME NEW s \in Subtask, Expire(s) PROVE Data'
  <2>1. /\ attempts \in [Subtask -> Nat] /\ attempts[s] > 0
        /\ attempts' = [attempts EXCEPT ![s] = @ - 1]
        /\ expiries \in 0..MaxExpiries /\ expiries < MaxExpiries /\ expiries' = expiries + 1
    BY <1>18 DEF Expire, Data
  <2>2. attempts[s] - 1 \in Nat BY <1>18, <2>1
  <2>3. attempts' \in [Subtask -> Nat] BY <2>1, <2>2
  <2>4. expiries' \in 0..MaxExpiries BY <2>1, OneMore, Bounds
  <2> QED BY <1>18, <2>3, <2>4, ProcessKept, KeptTypes, Zenon DEF Expire
<1>19. CASE HumanPauses
  <2>1. UNCHANGED process /\ UNCHANGED <<file, status, attempts, stuck, approval, mode>>
        /\ UNCHANGED <<result, runs, expiries>>
    BY <1>19, Zenon DEF HumanPauses
  <2>2. UNCHANGED <<pc, current, outcome, limit, iteration>> BY <2>1, Zenon DEF process
  <2>3. attempts' \in [Subtask -> Nat] /\ expiries' \in 0..MaxExpiries
    BY <2>1, Zenon DEF Data
  <2> QED BY <2>1, <2>2, <2>3, KeptTypes, Zenon
<1>20. CASE PausedByHuman \/ LimitReached \/ AwaitReview \/ NoPendingSubtasks
  BY <1>5, <1>20 DEF PausedByHuman, LimitReached, AwaitReview, NoPendingSubtasks
<1> QED
  BY <1>1, <1>2, <1>3, <1>4, <1>6, <1>7, <1>8, <1>9, <1>10, <1>11, <1>12, <1>13, <1>14, <1>15,
     <1>16, <1>17, <1>18, <1>19, <1>20
  DEF Next, Loop, IterationHead, PostSession, Agent, Human

\* TypeCorrect: TypeOK holds of every state the build of a task reaches.
THEOREM TypeCorrect == Spec => []TypeOK
<1>1. Init => TypeOK /\ OnSubtask BY TypeInit
<1>2. TypeOK /\ OnSubtask /\ [Next]_vars => TypeOK' /\ OnSubtask'
  BY TypeParts, FlagsStep, DataStep, OnSubtaskStep, PTL
<1> QED BY <1>1, <1>2, PTL DEF Spec
-----------------------------------------------------------------------------
\* Phases

\* t has to be completed before s is begun.
Before(t, s) == PhaseOf[t] \in DependsOn[PhaseOf[s]]

\* The subtask worked on has all it waits for, and what waits for it is untouched.
WorksInOrder ==
  current # 0 =>
    /\ \A t \in Subtask : Before(t, current) => status[t] = "completed"
    /\ \A s \in Subtask : Before(current, s) => status[s] = "pending"

\* No subtask waits for itself.
LEMMA NotBeforeItself == \A s \in Subtask : ~Before(s, s)
<1> SUFFICES ASSUME NEW s \in Subtask, Before(s, s) PROVE FALSE OBVIOUS
<1>1. PhaseOf[s] \in Phase BY DEF Phase
<1>2. PhaseOf[s] < PhaseOf[s] BY <1>1, PlanAssumption DEF Before
<1>3. PhaseOf[s] \in Nat BY PlanAssumption
<1> QED BY <1>2, <1>3

\* What get_next_subtask picks waits for nothing.
LEMMA NextInOrder ==
  NextSubtask # 0 => /\ NextSubtask \in Subtask /\ status[NextSubtask] = "pending"
                     /\ \A t \in Subtask : Before(t, NextSubtask) => status[t] = "completed"
BY NextIsWorkable, Zenon DEF Workable, DepsSatisfied, PhaseComplete, Before

\* A step leaves the plan's statuses alone, or it is the planner's, or it changes
\* the status of the subtask worked on.
StatusKept == status' = status /\ current' \in {current, 0, NextSubtask}

PlannedAnew == current' = 0 /\ \A s \in Subtask : status'[s] = "pending"

OneMoves ==
  /\ current \in Subtask /\ current' = current
  /\ \A s \in Subtask : s # current => status'[s] = status[s]

\* Every step is one of the three.
LEMMA StatusShape ==
  TypeOK /\ OnSubtask /\ [Next]_vars => StatusKept \/ PlannedAnew \/ OneMoves
<1> SUFFICES ASSUME TypeOK, OnSubtask, [Next]_vars PROVE StatusKept \/ PlannedAnew \/ OneMoves
  OBVIOUS
<1>1. ASSUME UNCHANGED status, current' = current PROVE StatusKept BY <1>1 DEF StatusKept
<1>2. ASSUME UNCHANGED status, current' = 0 PROVE StatusKept BY <1>2 DEF StatusKept
<1>3. ASSUME UNCHANGED status, current' = NextSubtask PROVE StatusKept
  BY <1>3 DEF StatusKept
<1>4. ASSUME current \in Subtask, current' = current, NEW st,
             status' = [status EXCEPT ![current] = st]
      PROVE  OneMoves
  <2>1. status \in [Subtask -> Status] BY Zenon DEF TypeOK
  <2> QED BY <1>4, <2>1 DEF OneMoves
<1>5. CASE UNCHANGED vars BY <1>1, <1>5, Zenon DEF vars, disk, process
<1>6. CASE (\E l \in Limits : Start(l)) \/ PausedByHuman \/ LimitReached \/ AwaitReview
             \/ NoPendingSubtasks \/ Kill
  BY <1>2, <1>6, Zenon DEF Start, EnterLoop, Ends, PausedByHuman, LimitReached, AwaitReview,
       NoPendingSubtasks, Kill, disk
<1>7. CASE ApprovePlan BY <1>1, <1>2, <1>7, Zenon DEF ApprovePlan, EnterLoop, Ends, process
<1>8. CASE Approve \/ HumanPauses \/ AgentCommits \/ AgentGarbles
             \/ (\E s \in Subtask : Expire(s))
             \/ \E o \in {"continue", "complete", "error"} : SessionEnds(o)
  BY <1>1, <1>8, Zenon DEF Approve, HumanPauses, AgentCommits, AgentGarbles, Expire, SessionEnds,
       disk, process
<1>9. CASE PlannerSession \/ CoderSession
  BY <1>3, <1>9, Zenon DEF PlannerSession, CoderSession, BeginSession, disk
<1>10. CASE PlannerWrites
  <2>1. current' = current /\ current = 0 /\ status' = [s \in Subtask |-> "pending"]
    BY <1>10, Zenon DEF PlannerWrites, process
  <2> QED BY <2>1 DEF PlannedAnew
<1>11. ASSUME NEW st \in Status, AgentMarks(st) PROVE OneMoves
  <2>1. current # 0 /\ current' = current /\ status' = [status EXCEPT ![current] = st]
    BY <1>11, Zenon DEF AgentMarks, process
  <2>2. current \in 0..N BY Zenon DEF TypeOK
  <2>3. current \in Subtask BY <2>1, <2>2, Bounds
  <2> QED BY <1>4, <2>1, <2>3
<1>12. CASE ProcessPlan \/ RecordAttempt \/ Escalate \/ MarkFailed
  <2>1. current \in Subtask /\ current' = current
    BY <1>12 DEF OnSubtask, ProcessPlan, RecordAttempt, Escalate, MarkFailed
  <2>2. \/ UNCHANGED status
        \/ status' = [status EXCEPT ![current] = "completed"]
        \/ status' = [status EXCEPT ![current] = "failed"]
    BY <1>12, Zenon DEF ProcessPlan, RecordAttempt, Escalate, MarkFailed
  <2> QED BY <1>1, <1>4, <2>1, <2>2
<1>13. CASE HandleStatus
  <2>1. UNCHANGED status BY <1>13, Zenon DEF HandleStatus, disk
  <2>2. current' = 0 \/ current' = current BY <1>13, Zenon DEF HandleStatus, Ends
  <2> QED BY <1>1, <1>2, <2>1, <2>2
<1> QED
  BY <1>5, <1>6, <1>7, <1>8, <1>9, <1>10, <1>11, <1>12, <1>13
  DEF Next, Loop, IterationHead, PostSession, Agent, Human

\* The order of the phases is kept by every step.
LEMMA PhasesStep ==
  TypeOK /\ OnSubtask /\ PhaseOrder /\ WorksInOrder /\ [Next]_vars
    => PhaseOrder' /\ WorksInOrder'
<1> SUFFICES ASSUME TypeOK, OnSubtask, PhaseOrder, WorksInOrder, [Next]_vars
             PROVE  PhaseOrder' /\ WorksInOrder'
  OBVIOUS
<1> DEFINE Ordered(st) ==
      \A s \in Subtask : st[s] # "pending" =>
        \A t \in Subtask : Before(t, s) => st[t] = "completed"
<1> DEFINE Works(st, c) ==
      c # 0 => /\ \A t \in Subtask : Before(t, c) => st[t] = "completed"
               /\ \A s \in Subtask : Before(c, s) => st[s] = "pending"
<1>1. Ordered(status) /\ Works(status, current)
  BY Zenon DEF PhaseOrder, WorksInOrder, Before
<1>2. Ordered(status') /\ Works(status', current') => PhaseOrder' /\ WorksInOrder'
  BY Zenon DEF PhaseOrder, WorksInOrder, Before
<1>3. CASE StatusKept
  <2>0. status' = status BY <1>3 DEF StatusKept
  <2>1. Ordered(status') BY <1>1, <2>0
  <2>2. CASE current' = current \/ current' = 0
    <3>1. Works(status, current') BY <1>1, <2>2
    <3> QED BY <1>2, <2>0, <2>1, <3>1
  <2>3. CASE current' = NextSubtask
    <3>1. \A s \in Subtask : NextSubtask # 0 /\ Before(NextSubtask, s) => status[s] = "pending"
      BY <1>1, NextInOrder, Zenon
    <3>2. Works(status, NextSubtask) BY <3>1, NextInOrder, Zenon
    <3>3. Works(status, current') BY <2>3, <3>2
    <3> QED BY <1>2, <2>0, <2>1, <3>3
  <2> QED BY <1>3, <2>2, <2>3 DEF StatusKept
<1>4. CASE PlannedAnew
  <2>1. Ordered(status') /\ Works(status', current') BY <1>4, Zenon DEF PlannedAnew
  <2> QED BY <1>2, <2>1
<1>5. CASE OneMoves
  <2>1. current \in Subtask /\ current # 0 /\ current' = current
    BY <1>5, Bounds, Zenon DEF OneMoves
  <2>2. \A t \in Subtask : Before(t, current) => status[t] = "completed" /\ t # current
    BY <1>1, <2>1, NotBeforeItself, Zenon
  <2>3. \A s \in Subtask : Before(current, s) => status[s] = "pending" /\ s # current
    BY <1>1, <2>1, NotBeforeItself, Zenon
  <2>4. \A s \in Subtask : s # current => status'[s] = status[s] BY <1>5, Zenon DEF OneMoves
  <2>5. Works(status', current') BY <2>1, <2>2, <2>3, <2>4, Zenon
  <2>6. Ordered(status')
    <3> SUFFICES ASSUME NEW s \in Subtask, status'[s] # "pending",
                        NEW t \in Subtask, Before(t, s)
                 PROVE  status'[t] = "completed"
      BY Zenon
    <3>1. t # current BY <2>3, <2>4, Zenon
    <3>2. status'[t] = status[t] BY <2>4, <3>1, Zenon
    <3>3. CASE s = current BY <2>2, <3>2, <3>3, Zenon
    <3>4. CASE s # current BY <1>1, <2>4, <3>2, <3>4, Zenon
    <3> QED BY <3>3, <3>4
  <2> QED BY <1>2, <2>5, <2>6
<1> QED BY <1>3, <1>4, <1>5, StatusShape

\* PhasesInOrder: PhaseOrder holds of every state of every behaviour.
THEOREM PhasesInOrder == Spec => []PhaseOrder
<1>1. Init => TypeOK /\ OnSubtask /\ PhaseOrder /\ WorksInOrder
  <2>1. Init => PhaseOrder /\ WorksInOrder BY DEF Init, PhaseOrder, WorksInOrder
  <2> QED BY <2>1, TypeInit
<1>2. TypeOK /\ OnSubtask /\ PhaseOrder /\ WorksInOrder /\ [Next]_vars
        => (TypeOK /\ OnSubtask /\ PhaseOrder /\ WorksInOrder)'
  BY TypeParts, FlagsStep, DataStep, OnSubtaskStep, PhasesStep, PTL
<1> QED BY <1>1, <1>2, PTL DEF Spec
-----------------------------------------------------------------------------
\* Review

\* A planner session still to come finds no readable plan.
PlannerFirst == firstRun => pc = "top" /\ planning /\ file # "whole"

\* The planner works on no subtask, and a coder is out of the planning phase.
WhoWorks == pc = "session" => (current = 0 <=> planning)

\* A plan with a valid approval was approved by a human as it is.
ApprovedIsReviewed == approval = "valid" /\ file = "whole" => reviewed

\* Out of the planning phase, a task whose flag asks for review has had it.
CodesReviewed == mode = "flag" /\ pc # "idle" /\ ~planning => reviewed

ReviewInv == PlannerFirst /\ WhoWorks /\ ApprovedIsReviewed /\ CodesReviewed

\* Without a readable plan there is no next subtask.
LEMMA NothingNext == file # "whole" => NextSubtask = 0
BY NextIsWorkable

\* A write to the plan leaves no valid approval.
LEMMA RehashedIsStale == Rehashed # "valid"
BY DEF Rehashed

\* What the loop knows of review is kept by entering it, once the human of the step
\* has reviewed a readable plan or there is none.
LEMMA EnterReview ==
  ASSUME NEW l, EnterLoop(l), UNCHANGED <<file, mode>>,
         approval' = "valid" /\ file = "whole" => reviewed',
         mode = "flag" /\ file = "whole" => reviewed'
  PROVE  ReviewInv'
<1>1. CASE BuildComplete
  BY <1>1, Zenon DEF EnterLoop, Ends, ReviewInv, PlannerFirst, WhoWorks, ApprovedIsReviewed,
     CodesReviewed
<1>2. CASE ~BuildComplete
  BY <1>2, Zenon DEF EnterLoop, ReviewInv, PlannerFirst, WhoWorks, ApprovedIsReviewed,
     CodesReviewed
<1> QED BY <1>1, <1>2

\* A run that ends leaves nothing but the files to be right about.
LEMMA EndReview ==
  ASSUME ReviewInv, NEW r, Ends(r), UNCHANGED reviewed,
         approval' = "valid" /\ file' = "whole" => approval = "valid" /\ file = "whole"
  PROVE  ReviewInv'
BY Zenon DEF Ends, ReviewInv, PlannerFirst, WhoWorks, ApprovedIsReviewed, CodesReviewed

\* Every step keeps what the loop knows of review.
LEMMA ReviewStep == ReviewInv /\ [Next]_vars => ReviewInv'
<1> SUFFICES ASSUME ReviewInv, [Next]_vars PROVE ReviewInv' OBVIOUS
<1> USE DEF ReviewInv, PlannerFirst, WhoWorks, ApprovedIsReviewed, CodesReviewed
<1>1. CASE UNCHANGED vars BY <1>1, Zenon DEF vars, disk, process
<1>2. ASSUME NEW l \in Limits, Start(l) PROVE ReviewInv'
  <2>1. CASE mode # "flag" \/ approval = "valid"
    BY <1>2, <2>1, EnterReview, Zenon DEF Start, disk
  <2>2. CASE ~(mode # "flag" \/ approval = "valid")
    BY <1>2, <2>2, EndReview, Zenon DEF Start, disk
  <2> QED BY <2>1, <2>2
<1>3. CASE ApprovePlan
  <2>1. /\ UNCHANGED <<file, mode>> /\ (reviewed => reviewed') /\ (file = "whole" => reviewed')
    BY <1>3, Zenon DEF ApprovePlan
  <2>2. CASE EnterLoop(0) BY <2>1, <2>2, EnterReview, Zenon
  <2>3. CASE UNCHANGED <<process, result, runs>> BY <2>1, <2>3, Zenon DEF process
  <2> QED BY <1>3, <2>2, <2>3, Zenon DEF ApprovePlan
<1>4. CASE Approve
  <2>1. /\ UNCHANGED <<file, mode, process>> /\ (reviewed => reviewed')
        /\ (file = "whole" => reviewed')
    BY <1>4, Zenon DEF Approve
  <2> QED BY <2>1, Zenon DEF process
<1>5. CASE PausedByHuman \/ LimitReached \/ AwaitReview \/ NoPendingSubtasks
  BY <1>5, EndReview, Zenon DEF PausedByHuman, LimitReached, AwaitReview, NoPendingSubtasks, disk
<1>6. CASE PlannerSession
  <2>1. /\ file # "whole" /\ planning /\ pc' = "session" /\ firstRun' = FALSE /\ UNCHANGED planning
        /\ current' = NextSubtask /\ UNCHANGED disk /\ UNCHANGED reviewed
    BY <1>6, Zenon DEF PlannerSession, BeginSession
  <2>2. current' = 0 BY <2>1, NothingNext
  <2> QED BY <2>1, <2>2, Zenon DEF disk
<1>7. CASE CoderSession
  <2>1. /\ firstRun' = FALSE /\ planning' = FALSE /\ pc' = "session" /\ pc = "top"
        /\ current' # 0 /\ UNCHANGED disk /\ UNCHANGED reviewed
    <3>1. current' = NextSubtask /\ NextSubtask # 0 BY <1>7, Zenon DEF CoderSession, BeginSession
    <3>2. current' # 0 BY <3>1, Zenon
    <3>3. pc = "top" /\ firstRun' = FALSE /\ planning' = FALSE
      BY <1>7 DEF CoderSession, MayIterate
    <3>4. pc' = "session" /\ UNCHANGED disk /\ UNCHANGED reviewed
      BY <1>7, Zenon DEF CoderSession, BeginSession
    <3> QED BY <3>2, <3>3, <3>4
  <2>2. file = "whole" BY <1>7, NextIsWorkable DEF CoderSession
  <2>3. mode = "flag" /\ planning => approval = "valid"
    BY <1>7, Zenon DEF CoderSession, NeedsReview
  <2> QED BY <2>1, <2>2, <2>3, Zenon DEF disk
<1>8. CASE PlannerWrites
  <2>1. approval' # "valid" BY <1>8, RehashedIsStale, Zenon DEF PlannerWrites
  <2> QED BY <1>8, <2>1, Zenon DEF PlannerWrites, process
<1>9. CASE AgentGarbles \/ \E st \in Status : AgentMarks(st)
  <2>1. approval' # "valid" BY <1>9, RehashedIsStale, Zenon DEF AgentGarbles, AgentMarks
  <2>2. /\ UNCHANGED <<pc, firstRun, planning, current, mode, reviewed>>
        /\ pc = "session"
    BY <1>9, Zenon DEF AgentGarbles, AgentMarks, process
  <2>3. ~firstRun BY <2>2
  <2> QED BY <2>1, <2>2, <2>3, Zenon
<1>10. CASE AgentCommits BY <1>10, Zenon DEF AgentCommits, disk
<1>11. CASE \E o \in {"continue", "complete", "error"} : SessionEnds(o)
  <2>1. UNCHANGED disk /\ UNCHANGED <<firstRun, planning, reviewed>> /\ pc = "session"
    BY <1>11, Zenon DEF SessionEnds
  <2>2. pc' \in {"process", "handle"} BY <1>11 DEF SessionEnds
  <2>3. ~firstRun BY <2>1
  <2> QED BY <2>1, <2>2, <2>3, Zenon DEF disk
<1>12. CASE ProcessPlan \/ RecordAttempt \/ Escalate \/ MarkFailed
  <2>1. approval' = "valid" => approval = "valid"
    BY <1>12, RehashedIsStale, Zenon DEF ProcessPlan, RecordAttempt, Escalate, MarkFailed
  <2>2. /\ pc \notin {"idle", "top", "session"} /\ pc' \notin {"idle", "top", "session"}
        /\ UNCHANGED <<file, mode, firstRun, planning, reviewed>>
    BY <1>12 DEF ProcessPlan, RecordAttempt, Escalate, MarkFailed
  <2> QED BY <2>1, <2>2, Zenon
<1>13. CASE HandleStatus
  <2>1. UNCHANGED disk /\ UNCHANGED reviewed /\ pc = "handle"
    BY <1>13, Zenon DEF HandleStatus
  <2>2. CASE Ends("complete") BY <2>1, <2>2, EndReview, Zenon DEF disk
  <2>3. CASE pc' = "top" /\ UNCHANGED <<firstRun, planning>>
    BY <2>1, <2>3, Zenon DEF disk
  <2> QED BY <1>13, <2>2, <2>3, Zenon DEF HandleStatus
<1>14. CASE Kill
  <2>1. approval' = "valid" /\ file' = "whole" => approval = "valid" /\ file = "whole"
    <3>1. file' = file \/ file' = "garbled" BY <1>14, Zenon DEF Kill
    <3>2. file' = file => approval' = approval BY <1>14, Zenon DEF Kill
    <3> QED BY <3>1, <3>2
  <2> QED BY <1>14, <2>1, EndReview, Zenon DEF Kill
<1>15. CASE HumanPauses \/ \E s \in Subtask : Expire(s)
  <2>1. UNCHANGED <<file, approval, mode, reviewed>> /\ UNCHANGED process
    BY <1>15, Zenon DEF HumanPauses, Expire
  <2> QED BY <2>1, Zenon DEF process
<1> QED
  BY <1>1, <1>2, <1>3, <1>4, <1>5, <1>6, <1>7, <1>8, <1>9, <1>10, <1>11, <1>12, <1>13, <1>14,
     <1>15
  DEF Next, Loop, IterationHead, PostSession, Agent, Human

\* ReviewedFirst: ReviewedBeforeCoding holds of every state of every behaviour.
THEOREM ReviewedFirst == Spec => []ReviewedBeforeCoding
<1>1. Init => ReviewInv
  BY Zenon DEF Init, ReviewInv, PlannerFirst, WhoWorks, ApprovedIsReviewed, CodesReviewed
<1>2. ReviewInv => ReviewedBeforeCoding
  BY Zenon DEF ReviewInv, WhoWorks, CodesReviewed, ReviewedBeforeCoding
<1> QED BY <1>1, <1>2, ReviewStep, PTL DEF Spec
-----------------------------------------------------------------------------
\* Attempts

\* The subtasks that have used up what they may use in the run.
Spent == {s \in Subtask : attempts[s] + 1 >= AttemptLimit + runs}

\* A run that goes on has begun; a run that still plans finds every subtask with an
\* attempt left, and so is every subtask worked on. A subtask without one is not
\* pending in the plan, unless the loop is about to escalate it. What is processed
\* after a session is a coder's.
Counted == pc # "idle" => runs > 0

PlansFresh == pc # "idle" /\ planning => Spent = {}

WorksUnspent == pc \in {"session", "process", "record"} => current \notin Spent

SpentIsClosed ==
  pc # "idle" /\ file = "whole" =>
    \A s \in Spent : status[s] # "pending" \/ (s = current /\ pc \in {"escalate", "fail"})

CodedOnly == pc \in {"process", "record", "escalate", "fail"} => ~planning

AttemptInv ==
  AttemptsBounded /\ Counted /\ PlansFresh /\ WorksUnspent /\ SpentIsClosed /\ CodedOnly

\* The numbers are natural.
LEMMA Numbers == TypeOK => runs \in Nat /\ \A s \in Subtask : attempts[s] \in Nat
<1> SUFFICES ASSUME TypeOK PROVE runs \in Nat /\ \A s \in Subtask : attempts[s] \in Nat
  OBVIOUS
<1>1. runs \in 0..MaxRuns /\ attempts \in [Subtask -> Nat] BY Zenon DEF TypeOK
<1> QED BY <1>1, Bounds

\* Attempts that do not grow leave no more subtasks spent, and the bound intact.
LEMMA NoMoreSpent ==
  ASSUME TypeOK, TypeOK', AttemptsBounded, runs' = runs,
         \A s \in Subtask : attempts'[s] <= attempts[s]
  PROVE  AttemptsBounded' /\ Spent' \subseteq Spent
<1>1. runs \in Nat /\ \A s \in Subtask : attempts[s] \in Nat BY Numbers
<1>2. attempts' \in [Subtask -> Nat] BY Zenon DEF TypeOK
<1>3. AttemptLimit \in Nat BY Zenon, LimitsAssumption
<1>4. \A s \in Subtask : attempts'[s] \in Nat BY <1>2
<1>5. AttemptsBounded'
  <2> SUFFICES ASSUME NEW s \in Subtask PROVE attempts'[s] < AttemptLimit + runs'
    BY DEF AttemptsBounded
  <2>1. attempts[s] < AttemptLimit + runs BY DEF AttemptsBounded
  <2>2. attempts'[s] <= attempts[s] OBVIOUS
  <2> QED BY <1>1, <1>3, <1>4, <2>1, <2>2
<1>6. Spent' \subseteq Spent
  <2> SUFFICES ASSUME NEW s \in Subtask, attempts'[s] + 1 >= AttemptLimit + runs'
               PROVE  attempts[s] + 1 >= AttemptLimit + runs
    BY DEF Spent
  <2>1. attempts'[s] <= attempts[s] OBVIOUS
  <2> QED BY <1>1, <1>3, <1>4, <2>1
<1> QED BY <1>5, <1>6

\* A new run allows one more attempt.
LEMMA NewRun ==
  ASSUME TypeOK, AttemptsBounded, runs' = runs + 1, attempts' = attempts
  PROVE  AttemptsBounded' /\ Spent' = {} /\ runs' > 0
<1>1. runs \in Nat /\ \A s \in Subtask : attempts[s] \in Nat BY Numbers
<1>2. AttemptLimit \in Nat BY Zenon, LimitsAssumption
<1> SUFFICES ASSUME NEW s \in Subtask
             PROVE  attempts'[s] < AttemptLimit + runs' /\ ~(attempts'[s] + 1 >= AttemptLimit + runs')
  BY <1>1 DEF AttemptsBounded, Spent
<1>3. attempts[s] < AttemptLimit + runs BY DEF AttemptsBounded
<1> QED BY <1>1, <1>2, <1>3

\* Whether a run begins, an attempt is recorded, or neither.
LEMMA AttemptShape ==
  ASSUME TypeOK, TypeOK', [Next]_vars
  PROVE  \/ pc = "idle" /\ runs' = runs + 1 /\ attempts' = attempts
         \/ RecordAttempt
         \/ runs' = runs /\ \A s \in Subtask : attempts'[s] <= attempts[s]
<1>1. \A s \in Subtask : attempts[s] \in Nat BY Numbers
<1>2. ASSUME UNCHANGED <<runs, attempts>> PROVE \A s \in Subtask : attempts'[s] <= attempts[s]
  BY <1>1, <1>2
<1>3. CASE UNCHANGED vars BY <1>2, <1>3, Zenon DEF vars, disk
<1>4. CASE \E l \in Limits : Start(l)
  BY <1>4, Zenon DEF Start, EnterLoop, disk
<1>5. CASE ApprovePlan BY <1>2, <1>5, Zenon DEF ApprovePlan, EnterLoop
<1>6. CASE Approve \/ HumanPauses BY <1>2, <1>6, Zenon DEF Approve, HumanPauses
<1>7. CASE IterationHead
  BY <1>2, <1>7, Zenon DEF IterationHead, PausedByHuman, LimitReached, PlannerSession, AwaitReview,
     NoPendingSubtasks, CoderSession, BeginSession, disk
<1>8. CASE Agent \/ \E o \in {"continue", "complete", "error"} : SessionEnds(o)
  BY <1>2, <1>8, Zenon DEF Agent, PlannerWrites, AgentMarks, AgentCommits, AgentGarbles,
     SessionEnds, disk
<1>9. CASE ProcessPlan \/ Escalate \/ MarkFailed \/ HandleStatus
  BY <1>2, <1>9, Zenon DEF ProcessPlan, Escalate, MarkFailed, HandleStatus, disk
<1>10. CASE Kill
  <2>1. runs' = runs /\ (UNCHANGED attempts \/ attempts' = [s \in Subtask |-> 0])
    BY <1>10, Zenon DEF Kill
  <2> QED BY <1>1, <2>1
<1>11. ASSUME NEW t \in Subtask, Expire(t)
       PROVE  runs' = runs /\ \A s \in Subtask : attempts'[s] <= attempts[s]
  <2>1. attempts' = [attempts EXCEPT ![t] = @ - 1] /\ runs' = runs
    BY <1>11, Zenon DEF Expire
  <2>2. attempts \in [Subtask -> Nat] BY Zenon DEF TypeOK
  <2> QED BY <1>1, <2>1, <2>2
<1> QED
  BY <1>3, <1>4, <1>5, <1>6, <1>7, <1>8, <1>9, <1>10, <1>11, Zenon
  DEF Next, Loop, PostSession, Human

\* Recording an attempt of a subtask that has one left.
LEMMA RecordStep ==
  ASSUME TypeOK, OnSubtask, AttemptInv, RecordAttempt
  PROVE  AttemptInv'
<1>1. runs \in Nat /\ \A s \in Subtask : attempts[s] \in Nat BY Numbers
<1>2. /\ pc = "record" /\ current \in Subtask /\ current \notin Spent /\ runs > 0
  BY Zenon DEF RecordAttempt, OnSubtask, AttemptInv, WorksUnspent, Counted
<1>3. /\ pc' = IF status[current] = "completed" THEN "handle" ELSE "escalate"
      /\ UNCHANGED <<file, status, current, planning, runs>>
      /\ attempts' = [attempts EXCEPT ![current] = @ + 1]
  BY Zenon DEF RecordAttempt
<1>4. attempts \in [Subtask -> Nat] BY Zenon DEF TypeOK
<1>5. /\ attempts'[current] = attempts[current] + 1
      /\ \A s \in Subtask : s # current => attempts'[s] = attempts[s]
  BY <1>2, <1>3, <1>4
<1>6. attempts[current] + 1 < AttemptLimit + runs BY <1>1, <1>2, Bounds DEF Spent
<1>7. AttemptsBounded'
  BY <1>1, <1>3, <1>5, <1>6, Bounds DEF AttemptInv, AttemptsBounded
<1>8. Spent' \subseteq Spent \cup {current} BY <1>3, <1>5 DEF Spent
<1>9. ~planning /\ ~planning' BY <1>2, <1>3, Zenon DEF AttemptInv, CodedOnly
<1>10. pc' \in {"handle", "escalate"} /\ (pc' = "handle" => status[current] = "completed")
  BY <1>3
<1>11. file' = "whole" =>
         \A s \in Spent' : status'[s] # "pending" \/ (s = current' /\ pc' \in {"escalate", "fail"})
  <2>1. SUFFICES ASSUME file' = "whole", NEW s \in Spent'
                 PROVE  status'[s] # "pending" \/ (s = current' /\ pc' \in {"escalate", "fail"})
    OBVIOUS
  <2>2. CASE s = current BY <1>3, <1>10, <2>2
  <2>3. CASE s # current
    <3>1. s \in Spent BY <1>8, <2>1, <2>3
    <3>2. status[s] # "pending"
      BY <1>2, <1>3, <2>1, <2>3, <3>1 DEF AttemptInv, SpentIsClosed
    <3> QED BY <1>3, <3>2
  <2> QED BY <2>2, <2>3
<1>12. Counted' /\ PlansFresh' /\ WorksUnspent' /\ CodedOnly'
  BY <1>2, <1>3, <1>9, <1>10 DEF Counted, PlansFresh, WorksUnspent, CodedOnly
<1> QED BY <1>7, <1>11, <1>12, Zenon DEF AttemptInv, SpentIsClosed

\* What entering the loop establishes.
LEMMA EnterAttempts ==
  ASSUME TypeOK, AttemptInv, NEW l, EnterLoop(l), attempts' = attempts
  PROVE  AttemptInv'
<1>1. runs' = runs + 1 /\ (pc' = "idle" \/ pc' = "top")
  BY Zenon DEF EnterLoop, Ends
<1>2. AttemptsBounded' /\ Spent' = {} /\ runs' > 0
  BY <1>1, NewRun, Zenon DEF AttemptInv
<1> QED
  BY <1>1, <1>2
  DEF AttemptInv, Counted, PlansFresh, WorksUnspent, SpentIsClosed, CodedOnly

\* Every other step leaves no more subtasks spent, and none of them pending.
LEMMA CalmStep ==
  ASSUME TypeOK, TypeOK', OnSubtask, WhoWorks, PlannerFirst, AttemptInv, [Next]_vars,
         runs' = runs, AttemptsBounded', Spent' \subseteq Spent, ~RecordAttempt
  PROVE  AttemptInv'
<1> USE DEF AttemptInv, Counted, PlansFresh, WorksUnspent, SpentIsClosed, CodedOnly
<1>1. ASSUME pc' = "idle" PROVE AttemptInv' BY <1>1
<1>2. ASSUME UNCHANGED <<pc, planning, current, file, status>> PROVE AttemptInv'
  <2>1. PlansFresh' BY <1>2
  <2>2. WorksUnspent' BY <1>2
  <2>3. SpentIsClosed' BY <1>2
  <2> QED BY <1>2, <2>1, <2>2, <2>3
<1>3. CASE UNCHANGED vars BY <1>2, <1>3, Zenon DEF vars, disk, process
<1>4. CASE (\E l \in Limits : Start(l)) \/ ApprovePlan
  <2>1. runs \in Nat BY Numbers
  <2>2. ~ \E l : EnterLoop(l) BY <2>1 DEF EnterLoop
  <2>3. CASE \E l \in Limits : Start(l) BY <1>1, <2>2, <2>3, Zenon DEF Start, Ends
  <2>4. CASE ApprovePlan BY <1>2, <2>2, <2>4, Zenon DEF ApprovePlan, process
  <2> QED BY <1>4, <2>3, <2>4
<1>5. CASE Approve \/ HumanPauses \/ AgentCommits \/ \E s \in Subtask : Expire(s)
  BY <1>2, <1>5, Zenon DEF Approve, HumanPauses, AgentCommits, Expire, disk, process
<1>6. CASE PausedByHuman \/ LimitReached \/ AwaitReview \/ NoPendingSubtasks \/ Kill
  BY <1>1, <1>6, Zenon DEF PausedByHuman, LimitReached, AwaitReview, NoPendingSubtasks, Kill, Ends
<1>7. CASE PlannerSession
  <2>1. /\ pc = "top" /\ planning /\ pc' = "session" /\ UNCHANGED <<planning, file, status>>
    BY <1>7, Zenon DEF PlannerSession, MayIterate, BeginSession, PlannerFirst, disk
  <2>2. Spent = {} BY <2>1
  <2> QED BY <2>1, <2>2
<1>8. CASE CoderSession
  <2>1. /\ pc = "top" /\ planning' = FALSE /\ pc' = "session" /\ UNCHANGED <<file, status>>
    BY <1>8, Zenon DEF CoderSession, MayIterate, BeginSession, disk
  <2>2. current' = NextSubtask /\ NextSubtask # 0
    BY <1>8, Zenon DEF CoderSession, BeginSession
  <2>3. file = "whole" /\ status[NextSubtask] = "pending"
    BY <2>2, NextIsWorkable DEF Workable
  <2>4. \A s \in Spent : status[s] # "pending" BY <2>1, <2>3
  <2>5. current' \notin Spent BY <2>2, <2>3, <2>4
  <2> QED BY <2>1, <2>4, <2>5
<1>9. CASE PlannerWrites
  <2>1. pc = "session" /\ current = 0 /\ UNCHANGED <<pc, planning, current>>
    BY <1>9, Zenon DEF PlannerWrites, process
  <2>2. planning BY <2>1, Zenon DEF WhoWorks
  <2>3. Spent = {} BY <2>1, <2>2
  <2> QED BY <2>1, <2>3
<1>10. CASE \E st \in Status : AgentMarks(st)
  <2>1. pc = "session" /\ current # 0 /\ UNCHANGED <<pc, planning, current, file>>
    BY <1>10, Zenon DEF AgentMarks, process
  <2>2. current \notin Spent BY <2>1
  <2>3. \A s \in Subtask : s # current => status'[s] = status[s]
    <3>1. status \in [Subtask -> Status] BY Zenon DEF TypeOK
    <3>2. PICK st \in Status : status' = [status EXCEPT ![current] = st]
      BY <1>10, Zenon DEF AgentMarks
    <3> QED BY <3>1, <3>2
  <2>4. Spent \subseteq Subtask BY DEF Spent
  <2>5. SpentIsClosed' BY <2>1, <2>2, <2>3, <2>4
  <2>6. PlansFresh' BY <2>1
  <2> QED BY <2>1, <2>2, <2>5, <2>6
<1>11. CASE AgentGarbles
  <2>1. pc = "session" /\ UNCHANGED <<pc, planning, current>> /\ file' # "whole"
    BY <1>11, Zenon DEF AgentGarbles, process
  <2>2. PlansFresh' BY <2>1
  <2> QED BY <2>1, <2>2
<1>12. CASE \E o \in {"continue", "complete", "error"} : SessionEnds(o)
  <2>1. /\ pc = "session" /\ UNCHANGED <<planning, current, file, status>>
        /\ pc' = IF current # 0 THEN "process" ELSE "handle"
    BY <1>12, Zenon DEF SessionEnds, disk
  <2>2. pc' = "process" => ~planning BY <2>1, Zenon DEF WhoWorks
  <2>3. pc' \in {"process", "handle"} BY <2>1
  <2>4. PlansFresh' BY <2>1
  <2>5. SpentIsClosed' BY <2>1
  <2> QED BY <2>1, <2>2, <2>3, <2>4, <2>5
<1>13. CASE ProcessPlan
  <2>1. /\ pc = "process" /\ UNCHANGED <<planning, current, file>>
        /\ pc' = IF file = "whole" THEN "record" ELSE "escalate"
        /\ UNCHANGED status \/ status' = [status EXCEPT ![current] = "completed"]
    BY <1>13, Zenon DEF ProcessPlan
  <2>2. status \in [Subtask -> Status] /\ Spent \subseteq Subtask /\ current \notin Spent
    BY <2>1, Zenon DEF TypeOK, Spent
  <2>3. \A s \in Spent : status'[s] = status[s] BY <2>1, <2>2
  <2>4. ~planning BY <2>1
  <2>5. pc' \in {"record", "escalate"} BY <2>1
  <2>6. SpentIsClosed' BY <2>1, <2>3
  <2> QED BY <2>1, <2>2, <2>4, <2>5, <2>6
<1>14. CASE Escalate
  <2>1. /\ pc = "escalate" /\ UNCHANGED <<planning, current, file, status>>
        /\ pc' = IF attempts[current] >= AttemptLimit THEN "fail" ELSE "handle"
    BY <1>14, Zenon DEF Escalate
  <2>2. ~planning /\ runs > 0 /\ current \in Subtask BY <2>1 DEF OnSubtask
  <2>3. pc' \in {"fail", "handle"} BY <2>1
  <2>4. pc' = "handle" => current \notin Spent
    <3>1. runs \in Nat /\ attempts[current] \in Nat BY <2>2, Numbers
    <3>2. pc' = "handle" => ~(attempts[current] >= AttemptLimit) BY <2>1
    <3> QED BY <2>2, <3>1, <3>2, Bounds DEF Spent
  <2>5. SpentIsClosed' BY <2>1, <2>3, <2>4
  <2> QED BY <2>1, <2>2, <2>3, <2>5
<1>15. CASE MarkFailed
  <2>1. /\ pc = "fail" /\ UNCHANGED <<planning, current, file>> /\ pc' = "handle"
        /\ file = "whole" => status' = [status EXCEPT ![current] = "failed"]
    BY <1>15, Zenon DEF MarkFailed
  <2>2. status \in [Subtask -> Status] /\ Spent \subseteq Subtask /\ current \in Subtask
    BY <2>1, Zenon DEF TypeOK, Spent, OnSubtask
  <2>3. ~planning BY <2>1
  <2>4. SpentIsClosed' BY <2>1, <2>2
  <2> QED BY <2>1, <2>3, <2>4
<1>16. CASE HandleStatus
  <2>1. pc = "handle" /\ UNCHANGED <<file, status>> BY <1>16, Zenon DEF HandleStatus, disk
  <2>2. CASE pc' = "idle" BY <1>1, <2>2
  <2>3. CASE pc' = "top" /\ UNCHANGED <<planning, current>>
    <3>1. PlansFresh' BY <2>1, <2>3
    <3>2. SpentIsClosed' BY <2>1, <2>3
    <3> QED BY <2>1, <2>3, <3>1, <3>2
  <2> QED BY <1>16, <2>2, <2>3, Zenon DEF HandleStatus, Ends
<1> QED
  BY <1>3, <1>4, <1>5, <1>6, <1>7, <1>8, <1>9, <1>10, <1>11, <1>12, <1>13, <1>14, <1>15, <1>16
  DEF Next, Loop, IterationHead, PostSession, Agent, Human

\* Every step keeps the account of the attempts.
LEMMA AttemptStep ==
  TypeOK /\ TypeOK' /\ OnSubtask /\ ReviewInv /\ AttemptInv /\ [Next]_vars => AttemptInv'
<1> SUFFICES ASSUME TypeOK, TypeOK', OnSubtask, ReviewInv, AttemptInv, [Next]_vars
             PROVE  AttemptInv'
  OBVIOUS
<1>1. CASE RecordAttempt BY <1>1, RecordStep
<1>2. CASE pc = "idle" /\ runs' = runs + 1 /\ attempts' = attempts
  <2>1. AttemptsBounded' /\ Spent' = {} /\ runs' > 0 BY <1>2, NewRun, Zenon DEF AttemptInv
  <2>2. pc' = "idle" \/ pc' = "top"
    <3>1. runs' # runs
      <4>1. runs \in Nat BY Numbers
      <4> QED BY <1>2, <4>1
    <3>2. (\E l \in Limits : Start(l)) \/ ApprovePlan
      BY <1>2, <3>1, Zenon DEF Next, vars, Loop, IterationHead, PausedByHuman, LimitReached,
         PlannerSession, AwaitReview, NoPendingSubtasks, CoderSession, BeginSession, SessionEnds,
         PostSession, ProcessPlan, RecordAttempt, Escalate, MarkFailed, HandleStatus, Agent,
         PlannerWrites, AgentMarks, AgentCommits, AgentGarbles, Human, Approve, HumanPauses,
         Kill, Expire
    <3> QED BY <3>1, <3>2, Zenon DEF Start, ApprovePlan, EnterLoop, Ends
  <2> QED
    BY <2>1, <2>2
    DEF AttemptInv, Counted, PlansFresh, WorksUnspent, SpentIsClosed, CodedOnly
<1>3. CASE ~RecordAttempt /\ runs' = runs /\ \A s \in Subtask : attempts'[s] <= attempts[s]
  <2>1. AttemptsBounded' /\ Spent' \subseteq Spent BY <1>3, NoMoreSpent, Zenon DEF AttemptInv
  <2> QED BY <1>3, <2>1, CalmStep, Zenon DEF ReviewInv
<1> QED BY <1>1, <1>2, <1>3, AttemptShape

\* All of this together is inductive.
LoopInv == TypeOK /\ OnSubtask /\ ReviewInv /\ AttemptInv

LEMMA Inductive == Spec => []LoopInv
<1> USE DEF LoopInv
<1>1. Init => LoopInv
  <2> SUFFICES ASSUME Init PROVE LoopInv OBVIOUS
  <2>1. TypeOK /\ OnSubtask BY TypeInit
  <2>2. ReviewInv
    BY Zenon DEF Init, ReviewInv, PlannerFirst, WhoWorks, ApprovedIsReviewed, CodesReviewed
  <2>3. AttemptsBounded BY Bounds DEF Init, AttemptsBounded
  <2>4. pc = "idle" BY DEF Init
  <2>5. AttemptInv
    BY <2>3, <2>4 DEF AttemptInv, Counted, PlansFresh, WorksUnspent, SpentIsClosed, CodedOnly
  <2> QED BY <2>1, <2>2, <2>5
<1>2. LoopInv /\ [Next]_vars => LoopInv'
  <2> SUFFICES ASSUME LoopInv, [Next]_vars PROVE LoopInv' OBVIOUS
  <2>1. TypeOK' /\ OnSubtask'
    <3>1. Flags' /\ Data' BY TypeParts, FlagsStep, DataStep
    <3>2. Flags' /\ Data' => TypeOK' BY Zenon DEF TypeOK, Flags, Data
    <3> QED BY <3>1, <3>2, OnSubtaskStep
  <2>2. ReviewInv' BY ReviewStep
  <2> QED BY <2>1, <2>2, AttemptStep
<1> QED BY <1>1, <1>2, PTL DEF Spec

\* AttemptsAreBounded: AttemptsBounded holds of every state of every behaviour.
THEOREM AttemptsAreBounded == Spec => []AttemptsBounded
<1>1. LoopInv => AttemptsBounded BY DEF LoopInv, AttemptInv
<1> QED BY <1>1, Inductive, PTL

-----------------------------------------------------------------------------
\* Why a run stops

\* A set of natural numbers has a least one.
LEMMA Least ==
  ASSUME NEW T \in SUBSET Nat, T # {}
  PROVE  \E m \in T : \A k \in T : m <= k
<1> DEFINE R == OpToRel(<, Nat)
<1>1. PICK m \in T : \A k \in T : ~(<<k, m>> \in R)
  BY WFMin, NatLessThanWellFounded
<1>2. \A k \in T : ~(k < m) BY <1>1 DEF OpToRel
<1> QED BY <1>2

\* If a subtask can be worked on, get_next_subtask finds one.
LEMMA NextIsFound ==
  ASSUME file = "whole", NextSubtask = 0
  PROVE  \A s \in Subtask : ~Workable(s)
<1> SUFFICES ASSUME NEW s \in Subtask, Workable(s) PROVE FALSE
  OBVIOUS
<1> DEFINE T == {t \in Subtask : Workable(t)}
           first == {t \in Subtask : Workable(t) /\ \A u \in 1..(t - 1) : ~Workable(u)}
<1>1. T \in SUBSET Nat /\ T # {} BY DEF Subtask
<1>2. PICK t \in T : \A u \in T : t <= u BY <1>1, Least
<1>3. \A u \in 1..(t - 1) : u \in Subtask /\ ~(t <= u)
  BY Bounds, <1>2 DEF Subtask
<1>4. t \in first BY <1>2, <1>3
<1>5. NextSubtask = CHOOSE u \in first : TRUE BY <1>4 DEF NextSubtask
<1>6. NextSubtask \in Subtask BY <1>4, <1>5
<1> QED BY <1>6, Bounds

\* Phases do not block each other: in the first phase that is not complete every pending
\* subtask can be worked on.
LEMMA NothingBlocks ==
  ASSUME TypeOK, file = "whole", NextSubtask = 0, ~BuildComplete
  PROVE  \E s \in Subtask : status[s] \in {"failed", "in_progress"}
<1> DEFINE Open == {s \in Subtask : status[s] # "completed"}
           T == {PhaseOf[s] : s \in Open}
<1>1. Open # {} BY DEF BuildComplete
<1>2. T \in SUBSET Nat /\ T # {}
  <2>1. \A s \in Subtask : PhaseOf[s] \in Nat BY PlanAssumption
  <2> QED BY <1>1, <2>1
<1>3. PICK p \in T : \A k \in T : p <= k BY <1>2, Least
<1>4. PICK s \in Open : PhaseOf[s] = p BY <1>3
<1>5. p \in Phase /\ p \in Nat BY <1>2, <1>4 DEF Phase
<1>6. \A d \in DependsOn[p] : PhaseComplete(d)
  <2> SUFFICES ASSUME NEW d \in DependsOn[p], NEW t \in Subtask, PhaseOf[t] = d
               PROVE  status[t] = "completed"
    BY DEF PhaseComplete
  <2>1. d < p BY <1>5, PlanAssumption
  <2>2. d \in Nat BY PlanAssumption
  <2>3. d \notin T BY <1>3, <1>5, <2>1, <2>2
  <2> QED BY <2>3
<1>7. ~Workable(s) BY NextIsFound
<1>8. status[s] # "pending" BY <1>4, <1>6, <1>7 DEF Workable, DepsSatisfied
<1>9. status[s] \in Status BY DEF TypeOK
<1> QED BY <1>8, <1>9 DEF Status

\* Between runs nobody changes the plan, and a run that ends for lack of pending subtasks
\* has just looked at it.
LEMMA StopShape ==
  ASSUME [Next]_vars, pc' = "idle", result' = "no pending"
  PROVE  /\ file' = file /\ status' = status
         /\ \/ pc = "idle" /\ result = "no pending"
            \/ NextSubtask = 0
<1> USE DEF Ends
<1>1. CASE UNCHANGED vars BY <1>1, AllKept, DiskKept, ProcessKept
<1>2. CASE IterationHead
  BY <1>2, DiskKept
     DEF IterationHead, PausedByHuman, LimitReached, PlannerSession, AwaitReview, NoPendingSubtasks,
         CoderSession, BeginSession
<1>3. CASE \E o \in {"continue", "complete", "error"} : SessionEnds(o)
  BY <1>3 DEF SessionEnds
<1>4. CASE PostSession
  BY <1>4 DEF PostSession, ProcessPlan, RecordAttempt, Escalate, MarkFailed, HandleStatus
<1>5. CASE Agent
  BY <1>5, ProcessKept
     DEF Agent, PlannerWrites, AgentMarks, AgentCommits, AgentGarbles
<1>6. CASE Human
  BY <1>6, DiskKept, ProcessKept
     DEF Human, Start, EnterLoop, ApprovePlan, Approve, HumanPauses
<1>7. CASE Kill BY <1>7 DEF Kill
<1>8. CASE \E s \in Subtask : Expire(s) BY <1>8, ProcessKept DEF Expire
<1> QED BY <1>1, <1>2, <1>3, <1>4, <1>5, <1>6, <1>7, <1>8 DEF Next, Loop

\* StopHasReason: StoppedForAReason holds of every state of every behaviour.
THEOREM StopHasReason == Spec => []StoppedForAReason
<1>1. Init => StoppedForAReason BY DEF Init, StoppedForAReason
<1>2. TypeOK /\ StoppedForAReason /\ [Next]_vars => StoppedForAReason'
  <2> SUFFICES ASSUME TypeOK, StoppedForAReason, [Next]_vars,
                      pc' = "idle", result' = "no pending", file' = "whole", ~BuildComplete'
               PROVE  \E s \in Subtask : status'[s] \in {"failed", "in_progress"}
    BY DEF StoppedForAReason
  <2>1. file' = file /\ status' = status BY StopShape
  <2>2. ~BuildComplete BY <2>1 DEF BuildComplete
  <2>3. CASE NextSubtask = 0 BY <2>1, <2>2, <2>3, NothingBlocks
  <2>4. CASE pc = "idle" /\ result = "no pending"
    BY <2>1, <2>2, <2>4 DEF StoppedForAReason
  <2> QED BY <2>3, <2>4, StopShape
<1> QED BY <1>1, <1>2, TypeCorrect, PTL DEF Spec
-----------------------------------------------------------------------------
\* Termination

\* The attempts that the plan and the limits allow in all, those of them that may still
\* be made, and with these those that may yet expire.
Recordable == 1..(AttemptLimit + runs)
Chances == {c \in Subtask \X Recordable : attempts[c[1]] < c[2]}

Rounds == Cardinality(Chances) + (MaxExpiries - expiries)

\* How far the loop is in a session.  Without a readable plan it only gets to the head
\* once more; until the planner has written one, all is yet to come.
Ahead ==
  LET more == IF file = "whole" THEN 8 ELSE 0
  IN  CASE pc = "top" -> IF firstRun THEN 18 ELSE more + 4
        [] pc = "session" -> IF current = 0 THEN 17 ELSE IF file = "whole" THEN 11 ELSE 9
        [] pc = "process" -> IF file = "whole" THEN 10 ELSE 8
        [] pc = "record" -> 9
        [] pc = "escalate" -> more + 7
        [] pc = "fail" -> more + 6
        [] pc = "handle" -> more + 5
        [] pc = "idle" -> 0

\* An upper bound of the steps that the loop may still take in the run under way.
StepsLeft == 8 * Rounds + Ahead

StepsBounded ==
  /\ StepsLeft \in Nat
  /\ StepsLeft <= 8 * (N * (AttemptLimit + runs) + MaxExpiries) + 18

\* While a run goes on, each of its steps uses up some of them, and nothing that agents,
\* humans or the passing of time do gives any back.
RunsShrink ==
  [][pc # "idle" /\ pc' # "idle" =>
       StepsLeft' <= StepsLeft /\ (Loop => StepsLeft' < StepsLeft)]_vars

\* There are finitely many chances.
LEMMA ChancesFinite ==
  ASSUME TypeOK
  PROVE  /\ IsFiniteSet(Chances) /\ Cardinality(Chances) \in Nat
         /\ Cardinality(Chances) <= N * (AttemptLimit + runs)
<1>0. runs \in Nat /\ AttemptLimit \in Nat /\ N \in Nat /\ N > 0 /\ AttemptLimit > 0
  <2>1. N \in Nat /\ N > 0 BY PlanAssumption
  <2>2. runs \in 0..MaxRuns BY DEF TypeOK
  <2> QED BY <2>1, <2>2, Bounds
<1>1. IsFiniteSet(Subtask) /\ Cardinality(Subtask) = N
  <2>1. IsFiniteSet(1..N) /\ Cardinality(1..N) = IF 1 > N THEN 0 ELSE N - 1 + 1
    BY <1>0, FS_Interval
  <2> QED BY <1>0, <2>1 DEF Subtask
<1>2. IsFiniteSet(Recordable) /\ Cardinality(Recordable) = AttemptLimit + runs
  <2> DEFINE k == AttemptLimit + runs
  <2>1. k \in Nat /\ k > 0 BY <1>0
  <2> HIDE DEF k
  <2>2. IsFiniteSet(1..k) /\ Cardinality(1..k) = IF 1 > k THEN 0 ELSE k - 1 + 1
    BY <2>1, FS_Interval
  <2> QED BY <2>1, <2>2 DEF Recordable, k
<1>3. /\ IsFiniteSet(Subtask \X Recordable)
      /\ Cardinality(Subtask \X Recordable) = N * (AttemptLimit + runs)
  BY <1>1, <1>2, FS_Product
<1>4. Chances \in SUBSET (Subtask \X Recordable) BY DEF Chances
<1> QED BY <1>3, <1>4, FS_Subset, FS_CardinalityType

\* A recorded attempt uses up a chance.
LEMMA RecordSpends ==
  ASSUME TypeOK, AttemptsBounded, NEW s \in Subtask, runs' = runs,
         attempts' = [attempts EXCEPT ![s] = @ + 1]
  PROVE  Cardinality(Chances') = Cardinality(Chances) - 1
<1> DEFINE c == <<s, attempts[s] + 1>>
<1>0. /\ attempts[s] \in Nat /\ runs \in Nat /\ AttemptLimit \in Nat
      /\ attempts[s] < AttemptLimit + runs /\ attempts \in [Subtask -> Nat]
  <2>1. runs \in 0..MaxRuns /\ attempts \in [Subtask -> Nat] BY DEF TypeOK
  <2>2. attempts[s] < AttemptLimit + runs BY DEF AttemptsBounded
  <2> QED BY <2>1, <2>2, Bounds
<1>1. c \in Chances
  <2>1. attempts[s] + 1 \in Recordable BY <1>0 DEF Recordable
  <2> QED BY <1>0, <2>1 DEF Chances
<1>2. ASSUME NEW t \in Subtask, NEW n \in Nat
      PROVE  attempts'[t] < n <=> attempts[t] < n /\ <<t, n>> # c
  <2>1. CASE t = s
    <3>1. attempts'[t] = attempts[t] + 1 BY <1>0, <2>1
    <3> QED BY <1>0, <2>1, <3>1
  <2>2. CASE t # s BY <1>0, <2>2
  <2> QED BY <2>1, <2>2
<1>3. Chances' = Chances \ {c}
  <2>1. Recordable' = Recordable /\ Recordable \subseteq Nat BY <1>0 DEF Recordable
  <2>2. ASSUME NEW d \in Subtask \X Recordable
        PROVE  attempts'[d[1]] < d[2] <=> attempts[d[1]] < d[2] /\ d # c
    <3>1. PICK t \in Subtask, n \in Recordable : d = <<t, n>> BY SMT
    <3>2. n \in Nat /\ d[1] = t /\ d[2] = n BY <2>1, <3>1
    <3> HIDE DEF c
    <3> QED BY <1>2, <3>1, <3>2
  <2> HIDE DEF c
  <2> QED BY <2>1, <2>2 DEF Chances
<1> HIDE DEF c
<1>4. IsFiniteSet(Chances) /\ Cardinality(Chances) \in Nat BY ChancesFinite
<1>5. Cardinality(Chances \ {c}) = Cardinality(Chances) - 1 BY <1>1, <1>4, FS_RemoveElement
<1> QED BY <1>3, <1>5

\* An expired attempt gives one back.
LEMMA ExpiryGives ==
  ASSUME TypeOK, AttemptsBounded, NEW s \in Subtask, runs' = runs, attempts[s] > 0,
         attempts' = [attempts EXCEPT ![s] = @ - 1]
  PROVE  Cardinality(Chances') = Cardinality(Chances) + 1
<1> DEFINE c == <<s, attempts[s]>>
<1>0. /\ attempts[s] \in Nat /\ runs \in Nat /\ AttemptLimit \in Nat
      /\ attempts[s] < AttemptLimit + runs /\ attempts \in [Subtask -> Nat]
  <2>1. runs \in 0..MaxRuns /\ attempts \in [Subtask -> Nat] BY DEF TypeOK
  <2>2. attempts[s] < AttemptLimit + runs BY DEF AttemptsBounded
  <2> QED BY <2>1, <2>2, Bounds
<1>1. c \in Subtask \X Recordable /\ c \notin Chances
  <2>1. attempts[s] \in Recordable BY <1>0 DEF Recordable
  <2> QED BY <1>0, <2>1 DEF Chances
<1>2. ASSUME NEW t \in Subtask, NEW n \in Nat
      PROVE  attempts'[t] < n <=> attempts[t] < n \/ <<t, n>> = c
  <2>1. CASE t = s
    <3>1. attempts'[t] = attempts[t] - 1 BY <1>0, <2>1
    <3> QED BY <1>0, <2>1, <3>1
  <2>2. CASE t # s BY <1>0, <2>2
  <2> QED BY <2>1, <2>2
<1>3. Chances' = Chances \cup {c}
  <2>1. Recordable' = Recordable /\ Recordable \subseteq Nat BY <1>0 DEF Recordable
  <2>2. ASSUME NEW d \in Subtask \X Recordable
        PROVE  attempts'[d[1]] < d[2] <=> attempts[d[1]] < d[2] \/ d = c
    <3>1. PICK t \in Subtask, n \in Recordable : d = <<t, n>> BY SMT
    <3>2. n \in Nat /\ d[1] = t /\ d[2] = n BY <2>1, <3>1
    <3> HIDE DEF c
    <3> QED BY <1>2, <3>1, <3>2
  <2> HIDE DEF c
  <2> QED BY <1>1, <2>1, <2>2 DEF Chances
<1> HIDE DEF c
<1>4. IsFiniteSet(Chances) /\ Cardinality(Chances) \in Nat BY ChancesFinite
<1>5. Cardinality(Chances \cup {c}) = Cardinality(Chances) + 1 BY <1>1, <1>4, FS_AddElement
<1> QED BY <1>3, <1>5

\* The bound is a number, and no greater than the plan and the limits allow.
LEMMA StepsType ==
  ASSUME TypeOK
  PROVE  StepsBounded /\ Rounds \in Nat /\ Ahead \in 0..18
<1>1. /\ expiries \in 0..MaxExpiries /\ runs \in Nat /\ MaxExpiries \in Nat
      /\ N \in Nat /\ AttemptLimit \in Nat
      /\ pc \in {"idle", "top", "session", "process", "record", "escalate", "fail", "handle"}
  <2>1. expiries \in 0..MaxExpiries /\ runs \in 0..MaxRuns BY DEF TypeOK
  <2>2. pc \in {"idle", "top", "session", "process", "record", "escalate", "fail", "handle"}
    BY DEF TypeOK
  <2> QED BY <2>1, <2>2, Bounds
<1>2. Ahead \in 0..18 BY <1>1 DEF Ahead
<1> DEFINE K == N * (AttemptLimit + runs)
<1>3. K \in Nat BY <1>1
<1>4. Cardinality(Chances) \in Nat /\ Cardinality(Chances) <= K BY ChancesFinite
<1> HIDE DEF K
<1>5. Rounds \in Nat /\ Rounds <= K + MaxExpiries BY <1>1, <1>3, <1>4 DEF Rounds
<1>6. StepsLeft \in Nat /\ StepsLeft <= 8 * (K + MaxExpiries) + 18
  BY <1>1, <1>2, <1>3, <1>5 DEF StepsLeft
<1> QED BY <1>2, <1>5, <1>6 DEF StepsBounded, K

\* A step that leaves the attempts alone leaves the rounds.
LEMMA RoundsStay ==
  ASSUME UNCHANGED <<attempts, runs, expiries>>
  PROVE  Rounds' = Rounds
BY DEF Rounds, Chances, Recordable

\* A step of the loop that neither records an attempt nor ends the run.
LEMMA LoopShrinks ==
  ASSUME LoopInv, TypeOK', Loop, ~RecordAttempt, pc' # "idle"
  PROVE  Rounds' = Rounds /\ Ahead' < Ahead
<1> USE DEF disk, process
<1>1. CASE PlannerSession
  <2>1. /\ pc = "top" /\ firstRun /\ pc' = "session" /\ file' = file
        /\ UNCHANGED <<attempts, runs, expiries>>
    BY <1>1 DEF PlannerSession, MayIterate, BeginSession
  <2> QED BY <2>1, RoundsStay DEF Ahead
<1>2. CASE CoderSession
  <2>1. /\ pc = "top" /\ ~firstRun /\ pc' = "session" /\ file' = file
        /\ current' # 0 /\ file = "whole"
        /\ UNCHANGED <<attempts, runs, expiries>>
    BY <1>2, NothingNext DEF CoderSession, MayIterate, BeginSession
  <2> QED BY <2>1, RoundsStay DEF Ahead
<1>3. CASE \E o \in {"continue", "complete", "error"} : SessionEnds(o)
  <2>1. /\ pc = "session" /\ pc' = IF current # 0 THEN "process" ELSE "handle"
        /\ file' = file
        /\ UNCHANGED <<attempts, runs, expiries>>
    BY <1>3 DEF SessionEnds
  <2> QED BY <2>1, RoundsStay DEF Ahead
<1>4. CASE ProcessPlan
  <2>1. /\ pc = "process" /\ pc' = IF file = "whole" THEN "record" ELSE "escalate"
        /\ file' = file
        /\ UNCHANGED <<attempts, runs, expiries>>
    BY <1>4 DEF ProcessPlan
  <2> QED BY <2>1, RoundsStay DEF Ahead
<1>5. CASE Escalate \/ MarkFailed
  <2>1. /\ <<pc, pc'>> \in {<<"escalate", "fail">>, <<"escalate", "handle">>,
                           <<"fail", "handle">>}
        /\ file' = file
        /\ UNCHANGED <<attempts, runs, expiries>>
    BY <1>5 DEF Escalate, MarkFailed
  <2> QED BY <2>1, RoundsStay DEF Ahead
<1>6. CASE HandleStatus
  <2>1. /\ pc = "handle" /\ pc' = "top" /\ ~firstRun' /\ file' = file
        /\ UNCHANGED <<attempts, runs, expiries>>
    BY <1>6 DEF HandleStatus, Ends, LoopInv, ReviewInv, PlannerFirst
  <2> QED BY <2>1, RoundsStay DEF Ahead
<1>7. ~(PausedByHuman \/ LimitReached \/ AwaitReview \/ NoPendingSubtasks)
  BY DEF PausedByHuman, LimitReached, AwaitReview, NoPendingSubtasks, Ends
<1> QED BY <1>1, <1>2, <1>3, <1>4, <1>5, <1>6, <1>7 DEF Loop, IterationHead, PostSession

\* Recording an attempt costs a round, which is worth more than the rest of the session.
LEMMA RecordShrinks ==
  ASSUME LoopInv, RecordAttempt
  PROVE  Rounds' = Rounds - 1 /\ Ahead' < Ahead + 8
<1>1. /\ pc = "record" /\ pc' \in {"handle", "escalate"} /\ file' = file
      /\ attempts' = [attempts EXCEPT ![current] = @ + 1]
      /\ runs' = runs /\ expiries' = expiries /\ current \in Subtask
  BY DEF RecordAttempt, LoopInv, OnSubtask
<1>2. Cardinality(Chances') = Cardinality(Chances) - 1
  BY <1>1, RecordSpends DEF LoopInv, AttemptInv
<1>3. /\ Cardinality(Chances) \in Nat /\ expiries \in 0..MaxExpiries /\ MaxExpiries \in Nat
  BY ChancesFinite, Bounds DEF LoopInv, TypeOK
<1>4. Rounds' = Rounds - 1 BY <1>1, <1>2, <1>3 DEF Rounds
<1>5. Ahead' < Ahead + 8 BY <1>1 DEF Ahead
<1> QED BY <1>4, <1>5

\* What agents, humans and time do in the course of a run.
LEMMA OthersGiveNothing ==
  ASSUME LoopInv, TypeOK', Agent \/ Human \/ Kill \/ (\E s \in Subtask : Expire(s)),
         pc # "idle", pc' # "idle"
  PROVE  Rounds' = Rounds /\ Ahead' <= Ahead /\ ~Loop
<1> USE DEF disk, process
<1>1. pc' = pc /\ firstRun' = firstRun /\ current' = current
  BY DEF Agent, PlannerWrites, AgentMarks, AgentCommits, AgentGarbles, Human, Start, ApprovePlan,
     Approve, HumanPauses, Kill, Ends, Expire
<1>2. ~Loop
  BY <1>1 DEF Loop, IterationHead, PostSession, PausedByHuman, LimitReached, PlannerSession, AwaitReview,
     NoPendingSubtasks, CoderSession, MayIterate, BeginSession, SessionEnds, ProcessPlan,
     RecordAttempt, Escalate, MarkFailed, HandleStatus, Ends
<1>3. ASSUME NEW s \in Subtask, Expire(s)
      PROVE  Rounds' = Rounds /\ file' = file
  <2>1. /\ attempts[s] > 0 /\ attempts' = [attempts EXCEPT ![s] = @ - 1]
        /\ expiries' = expiries + 1 /\ runs' = runs /\ file' = file
    BY <1>3 DEF Expire
  <2>2. Cardinality(Chances') = Cardinality(Chances) + 1
    BY <2>1, ExpiryGives DEF LoopInv, AttemptInv
  <2>3. /\ Cardinality(Chances) \in Nat /\ expiries \in 0..MaxExpiries /\ MaxExpiries \in Nat
    BY ChancesFinite, Bounds DEF LoopInv, TypeOK
  <2> QED BY <2>1, <2>2, <2>3 DEF Rounds
<1>8. Ahead \in 0..18 BY StepsType DEF LoopInv
<1>4. CASE Agent
  <2>1. /\ pc = "session" /\ (current # 0 => file' = file \/ file' # "whole")
        /\ UNCHANGED <<attempts, runs, expiries>>
    BY <1>4 DEF Agent, PlannerWrites, AgentMarks, AgentCommits, AgentGarbles
  <2>2. Ahead' <= Ahead BY <1>1, <2>1 DEF Ahead
  <2> QED BY <1>2, <2>1, <2>2, RoundsStay
<1>5. CASE Human
  <2>1. file' = file /\ UNCHANGED <<attempts, runs, expiries>>
    BY <1>5 DEF Human, Start, ApprovePlan, Approve, HumanPauses
  <2>2. Ahead' = Ahead BY <1>1, <2>1 DEF Ahead
  <2> QED BY <1>2, <1>8, <2>1, <2>2, RoundsStay
<1>6. ~Kill BY DEF Kill, Ends
<1>7. CASE \E s \in Subtask : Expire(s)
  <2>1. Rounds' = Rounds /\ file' = file BY <1>3, <1>7
  <2>2. Ahead' = Ahead BY <1>1, <2>1 DEF Ahead
  <2> QED BY <1>2, <1>8, <2>1, <2>2
<1> QED BY <1>4, <1>5, <1>6, <1>7

\* What a step costs.
LEMMA Costs ==
  ASSUME NEW r \in Nat, NEW a \in Nat, NEW q \in Nat, NEW b \in Nat
  PROVE  /\ q = r /\ b < a => 8 * q + b < 8 * r + a
         /\ q = r /\ b <= a => 8 * q + b <= 8 * r + a
         /\ q = r - 1 /\ b < a + 8 => 8 * q + b < 8 * r + a
         /\ 8 * q + b < 8 * r + a => 8 * q + b <= 8 * r + a
OBVIOUS

\* Whatever the agents do to the plan, however sessions end and whichever attempts
\* expire, a run of the loop takes a bounded number of steps: it ends, or its process
\* stops taking them.
THEOREM RunsAreFinite == Spec => []StepsBounded /\ RunsShrink
<1> DEFINE Measured == Rounds \in Nat /\ Ahead \in 0..18
<1>1. LoopInv => StepsBounded /\ TypeOK /\ Measured BY StepsType DEF LoopInv
<1>2. /\ LoopInv /\ TypeOK /\ Measured /\ TypeOK' /\ Measured' /\ [Next]_vars
      => [pc # "idle" /\ pc' # "idle" =>
            StepsLeft' <= StepsLeft /\ (Loop => StepsLeft' < StepsLeft)]_vars
  <2> SUFFICES ASSUME LoopInv, TypeOK, Measured, TypeOK', Measured', Next,
                      pc # "idle", pc' # "idle"
               PROVE  StepsLeft' <= StepsLeft /\ (Loop => StepsLeft' < StepsLeft)
    OBVIOUS
  <2>0. /\ Rounds \in Nat /\ Ahead \in Nat /\ Rounds' \in Nat /\ Ahead' \in Nat
        /\ StepsLeft = 8 * Rounds + Ahead /\ StepsLeft' = 8 * Rounds' + Ahead'
    BY DEF StepsLeft
  <2> HIDE DEF Measured
  <2>4. /\ Rounds' = Rounds /\ Ahead' < Ahead => StepsLeft' < StepsLeft
        /\ Rounds' = Rounds /\ Ahead' <= Ahead => StepsLeft' <= StepsLeft
        /\ Rounds' = Rounds - 1 /\ Ahead' < Ahead + 8 => StepsLeft' < StepsLeft
        /\ StepsLeft' < StepsLeft => StepsLeft' <= StepsLeft
    BY <2>0, Costs
  <2>1. CASE Loop /\ ~RecordAttempt
    <3>1. Rounds' = Rounds /\ Ahead' < Ahead BY <2>1, LoopShrinks
    <3> QED BY <2>4, <3>1
  <2>2. CASE RecordAttempt
    <3>1. Rounds' = Rounds - 1 /\ Ahead' < Ahead + 8 BY <2>2, RecordShrinks
    <3> QED BY <2>4, <3>1
  <2>3. CASE ~Loop
    <3>1. Rounds' = Rounds /\ Ahead' <= Ahead BY <2>3, OthersGiveNothing DEF Next
    <3> QED BY <2>3, <2>4, <3>1
  <2> QED BY <2>1, <2>2, <2>3
<1> QED BY <1>1, <1>2, Inductive, PTL DEF RunsShrink, Spec

=============================================================================
