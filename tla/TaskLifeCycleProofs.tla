------------------------ MODULE TaskLifeCycleProofs ------------------------
(***************************************************************************)
(* TaskExecution implements TaskLifeCycle, for a task started once and     *)
(* stopped at any moments, any number of rounds and processes and any      *)
(* configuration.                                                          *)
(***************************************************************************)
EXTENDS TaskExecutionProofs

\* A coroutine other than a stop is under way.
Busy(c) ==
  pc[c] \in {"resume", "token", "spawn", "attach", "wait", "terminating", "exited",
             "fallback", "failover", "cleanup"}

\* It is alone, and the task has been started.
LEMMA Alone ==
  ASSUME OneStart, IInv, Bounded, NEW c \in Coroutines, Busy(c)
  PROVE  /\ c \notin StopCalls
         /\ \A d \in Coroutines : Busy(d) => d = c
         /\ \A s \in StartCalls : pc[s] # "idle"
         /\ StartCalls # {}
<1>1. \A d \in Coroutines : Busy(d) => d \in AtWork
  BY DEF Busy, AtWork, Active, Finished, IInv, Roles
<1>2. c \notin StopCalls BY <1>1 DEF AtWork
<1>3. ~(\A s \in StartCalls : pc[s] = "idle") BY <1>1, OneAtWork
<1> QED BY <1>1, <1>2, <1>3, OneAtWork DEF OneStart

Specs == Cardinality(Launched({"spec"}))
Builds == Cardinality(Launched({"exec", "forced"}))

-----------------------------------------------------------------------------
\* Counting agents

\* The agents launched so far are finitely many.
LEMMA Countable ==
  ASSUME NEW K
  PROVE  IsFiniteSet(Launched(K)) /\ Cardinality(Launched(K)) \in Nat
<1>1. IsFiniteSet(Proc) BY BoundsAssumption, FS_Interval DEF Proc
<1>2. Launched(K) \in SUBSET Proc BY DEF Launched
<1>3. IsFiniteSet(Launched(K)) BY <1>1, <1>2, FS_Subset
<1> QED BY <1>3, FS_CardinalityType

\* A step that starts no process.
NoLaunch ==
  kind' = kind /\ \A p \in Proc : proc'[p] = "unused" <=> proc[p] = "unused"

\* It changes no count.
LEMMA CountsStay == ASSUME NoLaunch PROVE Specs' = Specs /\ Builds' = Builds
<1>1. /\ Launched({"spec"})' = Launched({"spec"})
      /\ Launched({"exec", "forced"})' = Launched({"exec", "forced"})
  BY DEF NoLaunch, Launched
<1> QED BY <1>1 DEF Specs, Builds

\* A process that is started counts for its kind.
LEMMA OneMore ==
  ASSUME TypeOK, NEW q \in Proc, NEW k \in Kinds, NEW r, NewProcess(q, k, r)
  PROVE  /\ k = "spec" => Specs' = Specs + 1 /\ Builds' = Builds
         /\ k # "spec" => Specs' = Specs /\ Builds' = Builds + 1
<1>1. /\ proc[q] = "unused" /\ proc' = [proc EXCEPT ![q] = "alive"]
      /\ kind' = [kind EXCEPT ![q] = k]
  BY DEF NewProcess, Fresh
<1>2. /\ proc'[q] = "alive" /\ kind'[q] = k
      /\ \A p \in Proc \ {q} : proc'[p] = proc[p] /\ kind'[p] = kind[p]
  BY <1>1 DEF TypeOK
<1>3. ASSUME NEW K
      PROVE  q \notin Launched(K)
  BY <1>1 DEF Launched
<1>4. ASSUME NEW K, k \in K
      PROVE  Launched(K)' = Launched(K) \cup {q}
  BY <1>1, <1>2, <1>4 DEF Launched
<1>5. ASSUME NEW K, k \notin K
      PROVE  Launched(K)' = Launched(K)
  BY <1>1, <1>2, <1>5 DEF Launched
<1>6. CASE k = "spec"
  <2>1. Launched({"spec"})' = Launched({"spec"}) \cup {q} BY <1>4, <1>6
  <2>2. Launched({"exec", "forced"})' = Launched({"exec", "forced"}) BY <1>5, <1>6
  <2> QED BY <1>3, <1>6, <2>1, <2>2, Countable, FS_AddElement DEF Specs, Builds
<1>7. CASE k # "spec"
  <2>1. k \in {"exec", "forced"} BY <1>7 DEF Kinds
  <2>2. Launched({"exec", "forced"})' = Launched({"exec", "forced"}) \cup {q} BY <1>4, <2>1
  <2>3. Launched({"spec"})' = Launched({"spec"}) BY <1>5, <1>7
  <2> QED BY <1>3, <1>7, <2>2, <2>3, Countable, FS_AddElement DEF Specs, Builds
<1> QED BY <1>6, <1>7

-----------------------------------------------------------------------------
\* How many agents there are

\* The process that runs, or has ended and may yet be followed by another.
Current(p) ==
  \/ pc[p] \in {"wait", "terminating", "exited", "fallback", "failover"}
  \/ Attaching(p)

\* Nothing is launched before the start request does it; a monitor starts builds only; and
\* the rounds and the retry pay for the agents launched.
Paid ==
  /\ Specs <= 2 /\ Builds <= MaxRounds + 2
  /\ \A s \in StartCalls : pc[s] \in {"idle", "token", "spawn"} => Specs = 0 /\ Builds = 0
  /\ \A p \in Proc : pc[p] \in {"token", "spawn"} => want[p] = "exec" /\ Builds <= round
  /\ \A p \in Proc : pc[p] = "failover" => kind[p] # "spec"
  /\ \A p \in Proc : Current(p) =>
       /\ kind[p] = "spec" => Builds = 0 /\ (Retryable(p) => Specs <= 1)
       /\ kind[p] # "spec" /\ Retryable(p) => Builds <= round + 1
       /\ kind[p] # "spec" => Builds <= round + 2

\* The numbers that are compared.
LEMMA Numbers ==
  ASSUME TypeOK
  PROVE  Specs \in Nat /\ Builds \in Nat /\ round \in Nat /\ MaxRounds \in Nat
BY Countable, BoundsAssumption DEF Specs, Builds, TypeOK

\* The coroutine under way goes on without a process: it starts one only if it is due,
\* and if it changes the rounds no process is current.
LEMMA MovesPaid ==
  ASSUME OneStart, IInv, Bounded, Chain, Paid, NEW c \in Coroutines, Busy(c), NoLaunch,
         \A d \in Coroutines \ {c} : pc'[d] = pc[d],
         UNCHANGED <<retryOf, target>>,
         c \in Calls => pc'[c] \notin {"idle", "token"} /\
                        (pc'[c] = "spawn" => pc[c] = "token"),
         c \in Proc /\ pc'[c] \in {"token", "spawn"} => want'[c] = "exec" /\ Builds <= round',
         c \in Proc /\ pc'[c] = "failover" => kind[c] # "spec",
         \A p \in Proc : Current(p)' => Current(p) /\ round' = round
  PROVE  Paid'
<1>1. Specs' = Specs /\ Builds' = Builds BY CountsStay
<1>2. \A d \in Coroutines \ {c} : ~Busy(d) BY Alone
<1>3. \A s \in StartCalls : s \in Calls /\ s \in Coroutines BY DEF Calls, Coroutines
<1>4. \A s \in StartCalls :
        pc'[s] \in {"idle", "token", "spawn"} => pc[s] \in {"idle", "token", "spawn"}
  BY <1>3
<1>5. \A p \in Proc : pc'[p] \in {"token", "spawn"} => want'[p] = "exec" /\ Builds <= round'
  BY <1>2 DEF Busy, Coroutines
<1>6. \A p \in Proc : kind'[p] = kind[p] /\ (Retryable(p)' <=> Retryable(p))
  BY DEF NoLaunch, Retryable
<1>7. \A p \in Proc : Current(p)' =>
       /\ kind'[p] = "spec" => Builds = 0 /\ (Retryable(p)' => Specs <= 1)
       /\ kind'[p] # "spec" /\ Retryable(p)' => Builds <= round' + 1
       /\ kind'[p] # "spec" => Builds <= round' + 2
  BY <1>6 DEF Paid
<1>8. Specs <= 2 /\ Builds <= MaxRounds + 2 BY DEF Paid
<1>9. \A s \in StartCalls : pc'[s] \in {"idle", "token", "spawn"} => Specs = 0 /\ Builds = 0
  BY <1>4 DEF Paid
<1>10. \A p \in Proc : pc'[p] = "failover" => kind'[p] # "spec"
  <2> SUFFICES ASSUME NEW p \in Proc, pc'[p] = "failover" PROVE kind[p] # "spec"
    BY <1>6
  <2>1. CASE p = c BY <2>1
  <2>2. CASE p # c BY <1>2, <2>2 DEF Busy, Coroutines
  <2> QED BY <2>1, <2>2
<1> QED BY <1>1, <1>5, <1>7, <1>8, <1>9, <1>10 DEF Paid

\* What a stop, or a review that accepts the build, does launches nothing.
LEMMA AsidePaid ==
  ASSUME IInv, Paid, NEW c \in StopCalls \cup DoneCalls, ~Busy(c)', NoLaunch,
         \A d \in Coroutines \ {c} : pc'[d] = pc[d] /\ want'[d] = want[d] /\ target'[d] = target[d],
         UNCHANGED <<retryOf, round>>
  PROVE  Paid'
<1>0. c \notin Proc /\ c \notin StartCalls
  BY CallsAreNotProcesses, CallsAreDisjoint DEF Calls
<1>1. Specs' = Specs /\ Builds' = Builds BY CountsStay
<1>2. \A p \in Proc : p \in Coroutines /\ pc'[p] = pc[p] /\ want'[p] = want[p]
  BY <1>0 DEF Coroutines
<1>3. \A s \in StartCalls : pc'[s] = pc[s] BY <1>0 DEF Coroutines, Calls
<1>4. \A p \in Proc : Current(p)' => Current(p)
  BY <1>2 DEF Current, Attaching, Busy
<1>5. \A p \in Proc : kind'[p] = kind[p] /\ (Retryable(p)' <=> Retryable(p))
  BY DEF NoLaunch, Retryable
<1> QED BY <1>1, <1>2, <1>3, <1>4, <1>5 DEF Paid

\* The start request comes in, a stop or the end of the review.
LEMMA RequestPaid ==
  ASSUME OneStart, IInv, Bounded, Chain, Paid, NEW c \in Calls, Request(c)
  PROVE  Paid'
<1> USE DEF Goto, service, procs, disk
<1>0. c \in Coroutines BY DEF Coroutines
<1>1. CASE StartRoute(c)
  <2>1. c \in StartCalls /\ pc[c] = "idle" /\ running = NoProc
    BY <1>1 DEF OneStart, StartRoute, Chain
  <2>2. UNCHANGED <<proc, kind, retryOf, target, round>>
    BY <1>1, <2>1 DEF StartRoute, Replace, BeginStart
  <2>3. \A d \in Coroutines \ {c} : pc'[d] = pc[d] /\ want'[d] = want[d]
    BY <1>1, <2>1 DEF StartRoute, Replace, BeginStart, IInv, TypeOK
  <2>4. pc'[c] \in {"token", "refused"}
    BY <1>0, <1>1, <2>1 DEF StartRoute, Replace, BeginStart, IInv, TypeOK
  <2>5. Specs' = Specs /\ Builds' = Builds BY <2>2, CountsStay DEF NoLaunch
  <2>6. \A p \in Proc : pc'[p] = pc[p] /\ want'[p] = want[p]
    BY <2>3, CallsAreNotProcesses DEF Coroutines
  <2>7. \A p \in Proc : Current(p)' => Current(p)
    BY <2>2, <2>3, <2>4, <2>6 DEF Current, Attaching
  <2>8. Specs = 0 /\ Builds = 0 BY <2>1 DEF Paid
  <2> QED BY <2>2, <2>5, <2>6, <2>7, <2>8 DEF Paid, Retryable
<1>2. CASE StopRoute(c)
  <2>1. /\ c \in StopCalls /\ pc'[c] \in {"refused", "failed", "stopping"}
        /\ \A d \in Coroutines \ {c} :
             pc'[d] = pc[d] /\ want'[d] = want[d] /\ target'[d] = target[d]
        /\ UNCHANGED <<proc, kind, retryOf, round>>
    BY <1>0, <1>2 DEF StopRoute, BeginStop, IInv, TypeOK
  <2> QED BY <2>1, AsidePaid DEF Busy, NoLaunch
<1>3. CASE DoneRoute(c)
  <2>1. /\ c \in DoneCalls /\ pc'[c] = "done"
        /\ \A d \in Coroutines \ {c} : pc'[d] = pc[d]
        /\ UNCHANGED <<proc, kind, retryOf, round, want, target>>
    BY <1>0, <1>3 DEF DoneRoute, IInv, TypeOK
  <2> QED BY <2>1, AsidePaid DEF Busy, NoLaunch
<1> QED BY <1>1, <1>2, <1>3 DEF Request, OneStart, ApproveRoute, ChangesRoute

\* A stop that waits for the exit, drops the tracking or returns.
LEMMA StopSteps ==
  ASSUME IInv, Chain, NEW c \in Coroutines,
         StopObservesExit(c) \/ StopDropsTracking(c) \/ StopReturns(c) \/ ResumeRoute(c)
  PROVE  /\ c \in StopCalls /\ ~Busy(c)'
         /\ \A d \in Coroutines \ {c} :
              pc'[d] = pc[d] /\ want'[d] = want[d] /\ target'[d] = target[d]
         /\ UNCHANGED <<proc, kind, retryOf, round>>
<1>1. c \in StopCalls
  BY DEF StopObservesExit, StopDropsTracking, StopReturns, ResumeRoute, Chain
<1>2. ~ResumeRoute(c) BY <1>1 DEF ResumeRoute, IInv, Roles, Finished
<1> QED BY <1>1, <1>2 DEF StopObservesExit, StopDropsTracking, StopReturns, Busy, Goto,
           service, procs, disk, IInv, TypeOK

\* A start spawns an agent, for which a request or a round pays.
LEMMA SpawnPaid ==
  ASSUME OneStart, IInv, Bounded, Chain, Paid, NEW c \in Coroutines, Spawn(c)
  PROVE  Paid' /\ (want[c] = "spec" => Specs = 0 /\ Builds = 0) /\ Builds <= MaxRounds
<1>0. PICK q \in Proc : NewProcess(q, want[c], NoProc) /\ target' = [target EXCEPT ![c] = q]
  BY DEF Spawn
<1>1. /\ pc[c] = "spawn" /\ pc'[c] = "attach" /\ target'[c] = q
      /\ \A d \in Coroutines \ {c} : pc'[d] = pc[d]
      /\ kind'[q] = want[c] /\ retryOf'[q] = NoProc /\ round' = round
  BY <1>0 DEF Spawn, Goto, NewProcess, IInv, TypeOK
<1>2. /\ \A d \in Coroutines : Busy(d) => d = c
      /\ \A s \in StartCalls : pc[s] # "idle"
  BY <1>1, Alone DEF Busy
<1>3. want[c] \in Kinds BY DEF IInv, TypeOK
<1>4. round \in 0..MaxRounds /\ Specs \in Nat /\ Builds \in Nat /\ MaxRounds \in Nat
  BY Numbers DEF IInv, TypeOK
<1>5. /\ c \in Proc => want[c] = "exec" /\ Builds <= round /\ Specs' = Specs
                       /\ Builds' = Builds + 1
      /\ c \in Calls => /\ Specs = 0 /\ Builds = 0
                        /\ want[c] = "spec" => Specs' = 1 /\ Builds' = 0
                        /\ want[c] # "spec" => Specs' = 0 /\ Builds' = 1
  <2>1. c \in Proc => want[c] = "exec" /\ Builds <= round BY <1>1 DEF Paid
  <2>2. c \in Proc => Specs' = Specs /\ Builds' = Builds + 1
    BY <1>0, <1>3, <2>1, OneMore DEF IInv
  <2>3. c \in Calls => Specs = 0 /\ Builds = 0
    <3>1. c \notin StopCalls /\ c \notin DoneCalls
      BY <1>1, Alone DEF Busy, IInv, Roles
    <3> QED BY <1>1, <3>1 DEF Paid, OneStart, Calls
  <2>4. c \in Calls => /\ want[c] = "spec" => Specs' = 1 /\ Builds' = 0
                       /\ want[c] # "spec" => Specs' = 0 /\ Builds' = 1
    BY <1>0, <1>3, <2>3, OneMore DEF IInv
  <2> QED BY <2>1, <2>2, <2>3, <2>4
<1>6. c \in Proc \/ c \in Calls BY DEF Coroutines
<1>7. Specs' <= 2 /\ Builds' <= MaxRounds + 2
  BY <1>4, <1>5, <1>6 DEF Paid
<1>8. \A s \in StartCalls : pc'[s] \notin {"idle", "token", "spawn"}
  <2> SUFFICES ASSUME NEW s \in StartCalls PROVE pc'[s] \notin {"idle", "token", "spawn"}
    OBVIOUS
  <2>1. s \in Coroutines BY DEF Calls, Coroutines
  <2>2. CASE s = c BY <1>1, <2>2
  <2>3. CASE s # c
    <3>1. pc'[s] = pc[s] /\ ~Busy(s) BY <1>1, <1>2, <2>1, <2>3
    <3>2. pc[s] # "idle" BY <1>2
    <3> QED BY <3>1, <3>2 DEF Busy
  <2> QED BY <2>2, <2>3
<1>9. \A p \in Proc : pc'[p] \notin {"token", "spawn", "failover"}
  BY <1>1, <1>2 DEF Busy, Coroutines
<1>10. \A p \in Proc : Current(p)' => p = q
  BY <1>1, <1>2 DEF Current, Attaching, Busy, Coroutines
<1>11. /\ kind'[q] = "spec" => Builds' = 0 /\ Specs' <= 1
       /\ kind'[q] # "spec" => Builds' <= round' + 1
  BY <1>1, <1>4, <1>5, <1>6
<1>12. Paid'
  <2>1. \A p \in Proc : Current(p)' =>
          /\ kind'[p] = "spec" => Builds' = 0 /\ (Retryable(p)' => Specs' <= 1)
          /\ kind'[p] # "spec" /\ Retryable(p)' => Builds' <= round' + 1
          /\ kind'[p] # "spec" => Builds' <= round' + 2
    <3>1. Builds' <= round' + 1 => Builds' <= round' + 2
      BY <1>1, <1>4, <1>5, <1>6
    <3> QED BY <1>10, <1>11, <3>1
  <2> QED BY <1>7, <1>8, <1>9, <2>1 DEF Paid
<1>13. want[c] = "spec" => Specs = 0 /\ Builds = 0 BY <1>5, <1>6
<1>14. Builds <= MaxRounds BY <1>4, <1>5, <1>6
<1> QED BY <1>12, <1>13, <1>14

\* A run is retried: the retry takes the place of a first run, and pays for the agent.
LEMMA RespawnPaid ==
  ASSUME OneStart, IInv, Bounded, Chain, Paid, NEW p \in Proc, Respawn(p)
  PROVE  /\ Paid' /\ (kind[p] = "spec" => Specs <= 1 /\ Builds = 0)
         /\ Builds <= MaxRounds + 1
<1>0. PICK q \in Proc : /\ NewProcess(q, kind[p], p)
                        /\ pc' = [pc EXCEPT ![p] = "done", ![q] = "wait"]
  BY DEF Respawn
<1>1. /\ pc[p] \in {"fallback", "failover"} /\ pc[q] = "idle" /\ p # q
      /\ UNCHANGED <<round, target>>
  BY <1>0 DEF Respawn, NewProcess, Fresh, IInv, UnusedIsBlank, Used
<1>2. /\ pc'[p] = "done" /\ pc'[q] = "wait" /\ kind'[q] = kind[p] /\ retryOf'[q] = p
      /\ \A d \in Coroutines \ {p, q} : pc'[d] = pc[d]
  BY <1>0, <1>1 DEF NewProcess, IInv, TypeOK, Coroutines
<1>3. /\ Busy(p) /\ \A d \in Coroutines : Busy(d) => d = p
      /\ \A s \in StartCalls : pc[s] # "idle"
  BY <1>1, Alone DEF Busy, Coroutines
<1>4. Current(p) /\ Retryable(p) /\ ~Retryable(q)'
  <2>1. retryOf[p] = NoProc BY <1>1 DEF IInv, RetryOnlyFirst
  <2> QED BY <1>1, <1>2, <2>1, NoProcIsNoProcess DEF Current, Retryable
<1>5. /\ kind[p] = "spec" => Builds = 0 /\ Specs <= 1
      /\ kind[p] # "spec" => Builds <= round + 1
  BY <1>4 DEF Paid
<1>6. kind[p] \in Kinds BY DEF IInv, TypeOK
<1>7. /\ kind[p] = "spec" => Specs' = Specs + 1 /\ Builds' = Builds
      /\ kind[p] # "spec" => Specs' = Specs /\ Builds' = Builds + 1
  BY <1>0, <1>6, OneMore DEF IInv
<1>8. round \in 0..MaxRounds /\ Specs \in Nat /\ Builds \in Nat /\ MaxRounds \in Nat
  BY Numbers DEF IInv, TypeOK
<1>9. Specs <= 2 BY DEF Paid
<1>10. Specs' <= 2 /\ Builds' <= MaxRounds + 2 BY <1>5, <1>7, <1>8, <1>9
<1>11. \A s \in StartCalls : pc'[s] \notin {"idle", "token", "spawn"}
  <2> SUFFICES ASSUME NEW s \in StartCalls PROVE pc'[s] \notin {"idle", "token", "spawn"}
    OBVIOUS
  <2>1. s \in Coroutines /\ s # p /\ s # q
    BY CallsAreNotProcesses DEF Calls, Coroutines
  <2>2. pc'[s] = pc[s] /\ ~Busy(s) BY <1>2, <1>3, <2>1
  <2>3. pc[s] # "idle" BY <1>3
  <2> QED BY <2>2, <2>3 DEF Busy
<1>12. \A r \in Proc : pc'[r] \notin {"token", "spawn", "failover"}
  BY <1>2, <1>3 DEF Busy, Coroutines
<1>13. \A r \in Proc : Current(r)' => r = q
  <2> SUFFICES ASSUME NEW r \in Proc, r # q, Current(r)' PROVE FALSE OBVIOUS
  <2>1. \A d \in Coroutines : pc'[d] # "attach"
    BY <1>2, <1>3 DEF Busy
  <2>2. pc'[r] \in {"wait", "terminating", "exited", "fallback", "failover"}
    BY <2>1 DEF Current, Attaching
  <2>3. r # p /\ pc'[r] = pc[r] BY <1>2, <2>2 DEF Coroutines
  <2> QED BY <1>3, <2>2, <2>3 DEF Busy, Coroutines
<1>14. /\ kind'[q] = "spec" => Builds' = 0
       /\ kind'[q] # "spec" => Builds' <= round' + 2
  BY <1>1, <1>2, <1>5, <1>7, <1>8
<1>15. Paid'
  <2>1. \A r \in Proc : Current(r)' =>
          /\ kind'[r] = "spec" => Builds' = 0 /\ (Retryable(r)' => Specs' <= 1)
          /\ kind'[r] # "spec" /\ Retryable(r)' => Builds' <= round' + 1
          /\ kind'[r] # "spec" => Builds' <= round' + 2
    BY <1>4, <1>13, <1>14
  <2> QED BY <1>10, <1>11, <1>12, <2>1 DEF Paid
<1>16. Builds <= MaxRounds + 1 BY <1>5, <1>8
<1> QED BY <1>5, <1>15, <1>16

\* The start's agent gets its monitor.
LEMMA AttachPaid ==
  ASSUME OneStart, IInv, Bounded, Chain, Paid, NEW c \in Coroutines, Attach(c)
  PROVE  Paid'
<1>0. PICK q \in Proc : q = target[c]
  BY DEF Attach, IInv, AttachIsExclusive
<1>1. q \in Coroutines /\ pc[q] = "idle" /\ pc[c] = "attach"
  BY <1>0 DEF Attach, IInv, AttachIsExclusive, Coroutines
<1>2. /\ pc'[q] = "wait" /\ pc'[c] = "done"
      /\ \A d \in Coroutines \ {c, q} : pc'[d] = pc[d]
      /\ UNCHANGED <<proc, kind, retryOf, round>>
  BY <1>0, <1>1 DEF Attach, service, procs, IInv, TypeOK
<1>3. /\ Busy(c) /\ \A d \in Coroutines : Busy(d) => d = c
      /\ \A s \in StartCalls : pc[s] # "idle"
  BY <1>1, Alone DEF Busy
<1>4. Current(q) BY <1>0, <1>1 DEF Current, Attaching
<1>5. Specs' = Specs /\ Builds' = Builds BY <1>2, CountsStay DEF NoLaunch
<1>6. \A p \in Proc : Current(p)' => p = q
  <2> SUFFICES ASSUME NEW p \in Proc, p # q, Current(p)' PROVE FALSE OBVIOUS
  <2>1. \A d \in Coroutines : pc'[d] # "attach"
    BY <1>1, <1>2, <1>3 DEF Busy
  <2>2. pc'[p] \in {"wait", "terminating", "exited", "fallback", "failover"}
    BY <2>1 DEF Current, Attaching
  <2>3. p # c /\ pc'[p] = pc[p] BY <1>2, <2>2 DEF Coroutines
  <2> QED BY <1>3, <2>2, <2>3 DEF Busy, Coroutines
<1>7. \A d \in Coroutines : pc'[d] \notin {"token", "spawn", "failover"}
  BY <1>1, <1>2, <1>3 DEF Busy
<1>8. \A s \in StartCalls : pc'[s] # "idle"
  <2> SUFFICES ASSUME NEW s \in StartCalls PROVE pc'[s] # "idle" OBVIOUS
  <2>1. s \in Coroutines /\ s # q BY <1>1, CallsAreNotProcesses DEF Calls, Coroutines
  <2>2. pc[s] # "idle" BY <1>3
  <2> QED BY <1>2, <2>1, <2>2
<1>9. \A s \in StartCalls : s \in Coroutines BY DEF Calls, Coroutines
<1>10. \A s \in StartCalls : pc'[s] \notin {"idle", "token", "spawn"}
  BY <1>7, <1>8, <1>9
<1>11. \A p \in Proc : pc'[p] \notin {"token", "spawn", "failover"} BY <1>7 DEF Coroutines
<1>12. /\ kind'[q] = "spec" => Builds' = 0 /\ (Retryable(q)' => Specs' <= 1)
       /\ kind'[q] # "spec" /\ Retryable(q)' => Builds' <= round' + 1
       /\ kind'[q] # "spec" => Builds' <= round' + 2
  BY <1>1, <1>2, <1>4, <1>5 DEF Paid, Retryable
<1> QED BY <1>5, <1>6, <1>10, <1>11, <1>12 DEF Paid

\* A start on its way.
LEMMA ProceedPaid ==
  ASSUME OneStart, IInv, Bounded, Chain, Paid, NEW c \in Coroutines, Proceed(c)
  PROVE  Paid'
<1> USE DEF Goto, service, procs, disk
<1>1. CASE ResolveToken(c) \/ SpawnFails(c)
  <2>1. /\ Busy(c) /\ pc[c] \in {"token", "spawn"}
        /\ pc'[c] \in {"spawn", "failed", "done", "cleanup"}
        /\ pc'[c] = "spawn" => pc[c] = "token"
        /\ \A d \in Coroutines \ {c} : pc'[d] = pc[d]
        /\ UNCHANGED <<proc, kind, retryOf, target, want, round>>
    BY <1>1 DEF ResolveToken, SpawnFails, IInv, TypeOK, Busy
  <2>2. NoLaunch BY <2>1 DEF NoLaunch
  <2>3. c \in Proc => want'[c] = "exec" /\ Builds <= round' BY <2>1 DEF Paid
  <2>4. \A p \in Proc : Current(p)' => Current(p)
    BY <2>1 DEF Current, Attaching, Coroutines
  <2> QED BY <2>1, <2>2, <2>3, <2>4, MovesPaid
<1>2. CASE Spawn(c) BY <1>2, SpawnPaid
<1>3. CASE Attach(c) BY <1>3, AttachPaid
<1>4. CASE StopObservesExit(c) \/ StopDropsTracking(c) \/ StopReturns(c) \/ ResumeRoute(c)
  <2>1. NoLaunch BY <1>4, StopSteps DEF NoLaunch
  <2> QED BY <1>4, <2>1, StopSteps, AsidePaid
<1> QED BY <1>1, <1>2, <1>3, <1>4 DEF Proceed

\* A monitor: the build that follows the specification is the first one, a continuation
\* takes a round, and a run that ends leaves nothing that could be retried.
LEMMA MonitorPaid ==
  ASSUME OneStart, IInv, Bounded, Chain, Paid, NEW p \in Proc, Monitor(p)
  PROVE  Paid'
<1> USE DEF Goto, service, procs, disk
<1>0. p \in Coroutines /\ p \notin Calls BY CallsAreNotProcesses DEF Coroutines
<1>1. CASE Respawn(p) BY <1>1, RespawnPaid
<1>3. CASE ~Respawn(p)
  <2>1. Busy(p)
    BY <1>3 DEF Monitor, ObserveExit, DecideFallback, AwaitReview, StartBuild,
       DecideFailover, RespawnFails, DeferToStop, Continue, Conclude, Cleanup, Settling, BuildExited, AtExit,
       Busy
  <2>2. /\ \A d \in Coroutines \ {p} : pc'[d] = pc[d]
        /\ UNCHANGED <<kind, retryOf, target>>
    BY <1>0, <1>3 DEF Monitor, ObserveExit, DecideFallback, AwaitReview, StartBuild,
       DecideFailover, RespawnFails, DeferToStop, Continue, Conclude, Cleanup, IInv, TypeOK
  <2>3. \A r \in Proc : proc'[r] = "unused" <=> proc[r] = "unused"
    BY <1>0, <1>3 DEF Monitor, ObserveExit, DecideFallback, AwaitReview, StartBuild,
       DecideFailover, RespawnFails, DeferToStop, Continue, Conclude, Cleanup, Exited, IInv, TypeOK
  <2>4. NoLaunch BY <2>2, <2>3 DEF NoLaunch
  <2>5. \A d \in Coroutines : Busy(d) => d = p BY <1>0, <2>1, Alone
  <2>6. CASE ObserveExit(p) \/ DecideFallback(p) \/ DecideFailover(p)
    <3>1. /\ pc[p] \in {"wait", "terminating", "exited"}
          /\ pc'[p] \in {"exited", "fallback", "failover"} /\ round' = round
          /\ pc'[p] = "failover" => kind[p] # "spec"
      BY <1>0, <2>6 DEF ObserveExit, DecideFallback, DecideFailover, AtExit, BuildExited,
         IInv, TypeOK
    <3>2. \A r \in Proc : Current(r)' => Current(r)
      BY <1>0, <2>2, <3>1 DEF Current, Attaching, Coroutines
    <3> QED BY <1>0, <2>1, <2>2, <2>4, <3>1, <3>2, MovesPaid
  <2>7. CASE pc'[p] \notin {"wait", "terminating", "exited", "fallback", "failover", "attach"}
    <3>1. \A r \in Proc : ~Current(r)'
      <4> SUFFICES ASSUME NEW r \in Proc, Current(r)' PROVE FALSE OBVIOUS
      <4>1. \A d \in Coroutines : pc'[d] # "attach"
        BY <2>2, <2>5, <2>7 DEF Busy
      <4>2. pc'[r] \in {"wait", "terminating", "exited", "fallback", "failover"}
        BY <4>1 DEF Current, Attaching
      <4>3. r # p /\ pc'[r] = pc[r] BY <2>2, <2>7, <4>2 DEF Coroutines
      <4> QED BY <2>5, <4>2, <4>3 DEF Busy, Coroutines
    <3>2. CASE \/ AwaitReview(p) \/ RespawnFails(p) \/ DeferToStop(p)
             \/ Conclude(p) \/ Cleanup(p)
      <4>1. pc'[p] \in {"cleanup", "crashed", "done"}
        BY <1>0, <3>2 DEF AwaitReview, RespawnFails, DeferToStop, Conclude, Cleanup,
           IInv, TypeOK
      <4> QED BY <1>0, <2>1, <2>2, <2>4, <3>1, <4>1, MovesPaid
    <3>3. CASE StartBuild(p)
      <4>1. pc[p] \in {"wait", "terminating", "exited"} /\ kind[p] = "spec"
        BY <3>3 DEF StartBuild, AtExit
      <4>2. Builds = 0 BY <4>1 DEF Paid, Current
      <4>3. pc'[p] = "token" /\ want'[p] = "exec" /\ round' = round
        BY <1>0, <3>3 DEF StartBuild, IInv, TypeOK
      <4>4. Builds <= round' BY <4>2, <4>3, Numbers DEF IInv
      <4> QED BY <1>0, <2>1, <2>2, <2>4, <3>1, <4>3, <4>4, MovesPaid
    <3>4. CASE Continue(p)
      <4>1. Retryable(p) /\ Current(p) /\ kind[p] # "spec"
        <5>1. Retryable(p) /\ pc[p] \in {"exited", "failover"}
          BY <3>4 DEF Continue, SubtasksRemain, Settling, BuildExited
        <5>2. proc[p] = "ok" BY <3>4 DEF Continue, SubtasksRemain
        <5>3. CASE BuildExited(p) BY <5>1, <5>3 DEF Current, BuildExited
        <5>4. CASE pc[p] = "failover" /\ kind[p] # "spec" BY <5>1, <5>4 DEF Current
        <5>5. ~(pc[p] = "failover" /\ kind[p] = "spec") BY DEF Paid
        <5> QED BY <3>4, <5>3, <5>4, <5>5 DEF Continue, Settling
      <4>2. Builds <= round + 1 BY <4>1 DEF Paid
      <4>3. pc'[p] = "token" /\ want'[p] = "exec" /\ round' = round + 1
        BY <1>0, <3>4 DEF Continue, IInv, TypeOK
      <4> QED BY <1>0, <2>1, <2>2, <2>4, <3>1, <4>2, <4>3, MovesPaid
    <3> QED BY <1>0, <1>3, <2>7, <3>2, <3>3, <3>4
            DEF Monitor, ObserveExit, DecideFallback, DecideFailover, IInv, TypeOK
  <2> QED BY <1>0, <1>3, <2>6, <2>7
          DEF Monitor, AwaitReview, StartBuild, RespawnFails, DeferToStop, Continue, Conclude,
              Cleanup, IInv, TypeOK
<1> QED BY <1>1, <1>3

\* A tick or an agent launches nothing.
LEMMA TickAgentPaid ==
  ASSUME OneStart, IInv, Bounded, Chain, Paid, NEW p \in Proc, Tick(p) \/ Agent(p)
  PROVE  Paid'
<1> USE DEF Goto, service, procs, disk
<1>0. p \in Coroutines /\ p \notin Calls BY CallsAreNotProcesses DEF Coroutines
<1>1. UNCHANGED <<kind, retryOf, round, want, target>>
  BY DEF Tick, Agent, SeeCheckpoint, ForceRestart, BlockAtGate, WritePlan, WorkOnPlan, Exit
<1>2. \A r \in Proc : proc'[r] = "unused" <=> proc[r] = "unused"
  BY DEF Tick, Agent, SeeCheckpoint, ForceRestart, BlockAtGate, WritePlan, WorkOnPlan, Exit,
     Alive, IInv, TypeOK
<1>3. \A d \in Coroutines :
        pc'[d] = pc[d] \/ (d = p /\ pc[d] = "wait" /\ pc'[d] = "terminating")
  BY <1>0 DEF Tick, Agent, SeeCheckpoint, ForceRestart, BlockAtGate, WritePlan, WorkOnPlan,
     Exit, IInv, TypeOK
<1>4. Specs' = Specs /\ Builds' = Builds BY <1>1, <1>2, CountsStay DEF NoLaunch
<1>5. \A s \in StartCalls : s \in Coroutines /\ s # p BY <1>0 DEF Calls, Coroutines
<1>6. \A r \in Proc : r \in Coroutines BY DEF Coroutines
<1>7. \A r \in Proc : Current(r)' => Current(r)
  BY <1>1, <1>3, <1>6 DEF Current, Attaching
<1>8. \A s \in StartCalls : pc'[s] = pc[s] BY <1>3, <1>5
<1>9. \A r \in Proc : /\ pc'[r] \in {"token", "spawn"} => pc[r] \in {"token", "spawn"}
                      /\ pc'[r] = "failover" => pc[r] = "failover"
  BY <1>3, <1>6
<1>10. \A r \in Proc : kind'[r] = kind[r] /\ (Retryable(r)' <=> Retryable(r))
  BY <1>1 DEF Retryable
<1> QED BY <1>1, <1>4, <1>7, <1>8, <1>9, <1>10 DEF Paid

\* Every agent launched is paid for, throughout.
LEMMA PaidInductive ==
  ASSUME OneStart
  PROVE  Spec => []Paid
<1>1. Init => Paid
  <2> SUFFICES ASSUME Init PROVE Paid
    OBVIOUS
  <2>1. \A K : Launched(K) = {} BY DEF Init, Launched
  <2>2. Specs = 0 /\ Builds = 0 BY <2>1, FS_EmptySet DEF Specs, Builds
  <2>3. \A c \in Coroutines : pc[c] = "idle" BY DEF Init
  <2>4. \A p \in Proc : pc[p] = "idle" /\ ~Attaching(p)
    BY <2>3 DEF Attaching, Coroutines
  <2> QED BY <2>2, <2>4, BoundsAssumption DEF Paid, Current
<1>2. IInv /\ Bounded /\ Chain /\ Paid /\ [Next]_vars => Paid'
  <2> SUFFICES ASSUME IInv, Bounded, Chain, Paid, [Next]_vars PROVE Paid'
    OBVIOUS
  <2>1. CASE UNCHANGED vars
    <3>1. UNCHANGED <<proc, kind, retryOf, pc, target, want, round>>
      BY <2>1 DEF vars, service, procs
    <3>2. Specs' = Specs /\ Builds' = Builds BY <3>1, CountsStay DEF NoLaunch
    <3> QED BY <3>1, <3>2 DEF Paid, Current, Attaching, Retryable
  <2> QED BY <2>1, RequestPaid, ProceedPaid, MonitorPaid, TickAgentPaid DEF Next
<1> QED BY <1>1, <1>2, Inductive, BoundedInductive, ChainInductive, PTL DEF Spec

-----------------------------------------------------------------------------
\* Each step is a step of the life cycle, or none

SomeAgent == \E p \in Proc : Alive(p)

\* While a coroutine is under way the task has been started and is not over.
LEMMA Working ==
  ASSUME OneStart, IInv, Bounded, NEW c \in Coroutines, Busy(c)
  PROVE  Stage = "working"
<1>1. c \in Coroutines \ StopCalls /\ ~(\A s \in StartCalls : pc[s] = "idle") BY Alone
<1>2. pc[c] \notin Finished \cup {"idle"} BY DEF Busy, Finished
<1> QED BY <1>1, <1>2 DEF Stage

\* A live process has a coroutine under way.
LEMMA AliveIsBusy ==
  ASSUME IInv, NEW p \in Proc, Alive(p)
  PROVE  \E c \in Coroutines : Busy(c)
<1>1. CASE pc[p] \in {"wait", "terminating"} BY <1>1 DEF Busy, Coroutines
<1>2. CASE Attaching(p) BY <1>2 DEF Attaching, Busy
<1> QED BY <1>1, <1>2 DEF IInv, EveryProcessIsWatched

\* Once a task is started it is worked on, or over and without an agent.
LEMMA StageAfter ==
  ASSUME NEW s \in StartCalls, pc'[s] # "idle"
  PROVE  /\ Stage' \in {"working", "over"}
         /\ Stage' = "over" => ~SomeAgent'
BY DEF Stage, SomeAgent

\* A step that launches and ends no agent may settle the task, or nothing is seen of it.
LEMMA UnseenStep ==
  ASSUME OneStart, IInv, Bounded, Chain, [Next]_vars, NEW c \in Coroutines, Busy(c),
         NoLaunch, SomeAgent' <=> SomeAgent
  PROVE  [LifeCycle!LifeNext]_(LifeCycle!lifeVars)
<1>1. Stage = "working" BY Working
<1>2. PICK s \in StartCalls : TRUE BY Alone
<1>3. pc[s] # "idle" BY Alone
<1>4. pc'[s] # "idle" BY <1>3, StartStays
<1>5. Stage' \in {"working", "over"} /\ (Stage' = "over" => ~SomeAgent')
  BY <1>4, StageAfter
<1>6. Specs' = Specs /\ Builds' = Builds BY CountsStay
<1>7. CASE Stage' = "working"
  BY <1>1, <1>6, <1>7 DEF LifeCycle!lifeVars, SomeAgent, Specs, Builds
<1>8. CASE Stage' = "over"
  BY <1>1, <1>5, <1>6, <1>8
     DEF LifeCycle!LifeNext, LifeCycle!Settle, SomeAgent, Specs, Builds
<1> QED BY <1>5, <1>7, <1>8

\* Nothing is seen of a stop, or of a review that accepts the build.
LEMMA AsideUnseen ==
  ASSUME NEW c \in StopCalls \cup DoneCalls,
         c \in DoneCalls => pc[c] = "idle" /\ pc'[c] = "done",
         \A d \in Coroutines \ {c} : pc'[d] = pc[d],
         UNCHANGED <<proc, kind>>
  PROVE  UNCHANGED LifeCycle!lifeVars
<1>1. Specs' = Specs /\ Builds' = Builds BY CountsStay DEF NoLaunch
<1>2. SomeAgent' <=> SomeAgent BY DEF SomeAgent, Alive
<1>3. \A s \in StartCalls : pc'[s] = pc[s]
  BY CallsAreDisjoint DEF Coroutines, Calls
<1>4. \A d \in Coroutines \ StopCalls :
        pc'[d] \in Finished \cup {"idle"} <=> pc[d] \in Finished \cup {"idle"}
  BY DEF Finished
<1>5. Stage' = Stage BY <1>3, <1>4 DEF Stage, Alive
<1> QED BY <1>1, <1>2, <1>5 DEF LifeCycle!lifeVars, SomeAgent, Specs, Builds

\* The start request begins the task's life; the other requests are not seen.
LEMMA RequestBegins ==
  ASSUME OneStart, IInv, Bounded, Chain, NEW c \in Calls, Request(c)
  PROVE  [LifeCycle!LifeNext]_(LifeCycle!lifeVars)
<1> USE DEF Goto, service, procs, disk
<1>0. c \in Coroutines BY DEF Coroutines
<1>1. CASE StartRoute(c)
  <2>1. c \in StartCalls /\ \A s \in StartCalls : pc[s] = "idle"
    BY <1>1 DEF OneStart, StartRoute
  <2>2. running = NoProc BY <2>1 DEF Chain
  <2>3. UNCHANGED <<proc, kind>> BY <1>1 DEF StartRoute
  <2>4. pc'[c] \in {"token", "refused"}
    BY <1>0, <1>1, <2>2 DEF StartRoute, Replace, BeginStart, IInv, TypeOK
  <2>5. Stage = "new" BY <2>1 DEF Stage
  <2>6. Stage' \in {"working", "over"} BY <2>1, <2>4, StageAfter
  <2>7. Specs' = Specs /\ Builds' = Builds BY <2>3, CountsStay DEF NoLaunch
  <2>8. SomeAgent' <=> SomeAgent BY <2>3 DEF SomeAgent, Alive
  <2> QED BY <2>5, <2>6, <2>7, <2>8
          DEF LifeCycle!LifeNext, LifeCycle!Begin, SomeAgent, Specs, Builds
<1>2. CASE StopRoute(c)
  <2>1. /\ c \in StopCalls /\ \A d \in Coroutines \ {c} : pc'[d] = pc[d]
        /\ UNCHANGED <<proc, kind>>
    BY <1>0, <1>2 DEF StopRoute, BeginStop, IInv, TypeOK
  <2> QED BY <2>1, AsideUnseen, CallsAreDisjoint
<1>3. CASE DoneRoute(c)
  <2>1. /\ c \in DoneCalls /\ pc[c] = "idle" /\ pc'[c] = "done"
        /\ \A d \in Coroutines \ {c} : pc'[d] = pc[d]
        /\ UNCHANGED <<proc, kind>>
    BY <1>0, <1>3 DEF DoneRoute, IInv, TypeOK
  <2> QED BY <2>1, AsideUnseen
<1> QED BY <1>1, <1>2, <1>3 DEF Request, OneStart, ApproveRoute, ChangesRoute

\* A process is started while none is alive, and paid for.
LEMMA LaunchIsAllowed ==
  ASSUME OneStart, IInv, Bounded, Chain, [Next]_vars,
         NEW c \in Coroutines, Busy(c), NEW d \in Coroutines \ StopCalls, Busy(d)', ~SomeAgent,
         NEW q \in Proc, NEW k \in Kinds, NEW r, NewProcess(q, k, r),
         k = "spec" => Specs <= 1 /\ Builds = 0,
         Builds <= MaxRounds + 1
  PROVE  LifeCycle!LifeNext
<1>1. Stage = "working" BY Working
<1>2. PICK s \in StartCalls : TRUE BY Alone
<1>3. pc[s] # "idle" BY Alone
<1>4. pc'[s] # "idle" BY <1>3, StartStays
<1>5. Stage' = "working"
  <2>1. pc'[d] \notin Finished \cup {"idle"} BY DEF Busy, Finished
  <2> QED BY <1>4, <2>1 DEF Stage
<1>6. SomeAgent'
  <2>1. proc' = [proc EXCEPT ![q] = "alive"] BY DEF NewProcess
  <2>2. proc'[q] = "alive" BY <2>1 DEF IInv, TypeOK
  <2> QED BY <2>2 DEF SomeAgent, Alive
<1>7. Specs \in Nat /\ Builds \in Nat /\ MaxRounds \in Nat BY Numbers DEF IInv
<1>8. CASE k = "spec"
  <2>1. Specs' = Specs + 1 /\ Builds' = Builds BY <1>8, OneMore DEF IInv
  <2>2. Specs < 2 /\ Builds = 0 BY <1>7, <1>8
  <2> QED BY <1>1, <1>5, <1>6, <2>1, <2>2
          DEF LifeCycle!LifeNext, LifeCycle!LaunchSpec, SomeAgent, Specs, Builds
<1>9. CASE k # "spec"
  <2>1. Specs' = Specs /\ Builds' = Builds + 1 BY <1>9, OneMore DEF IInv
  <2>2. Builds < MaxRounds + 2 BY <1>7
  <2> QED BY <1>1, <1>5, <1>6, <2>1, <2>2
          DEF LifeCycle!LifeNext, LifeCycle!LaunchBuild, SomeAgent, Specs, Builds
<1> QED BY <1>8, <1>9

\* A start launches an agent, or is not seen.
LEMMA ProceedLives ==
  ASSUME OneStart, IInv, Bounded, Chain, Paid, [Next]_vars, NEW c \in Coroutines, Proceed(c)
  PROVE  [LifeCycle!LifeNext]_(LifeCycle!lifeVars)
<1> USE DEF Goto, service, procs, disk
<1>1. CASE StopObservesExit(c) \/ StopDropsTracking(c) \/ StopReturns(c) \/ ResumeRoute(c)
  <2>1. c \notin DoneCalls
    BY <1>1, StopSteps, CallsAreDisjoint
  <2> QED BY <1>1, <2>1, StopSteps, AsideUnseen
<1>2. CASE Spawn(c)
  <2>1. PICK q \in Proc : NewProcess(q, want[c], NoProc) BY <1>2 DEF Spawn
  <2>2. pc[c] = "spawn" /\ Busy(c) BY <1>2 DEF Spawn, Busy
  <2>3. Busy(c)' BY <1>2 DEF Spawn, Busy, IInv, TypeOK
  <2>4. ~SomeAgent
    <3>1. c \in AtWork BY <2>2, Alone DEF AtWork, Active, Finished
    <3> QED BY <2>2, <3>1, NobodyLives DEF SomeAgent
  <2>5. want[c] \in Kinds BY DEF IInv, TypeOK
  <2>6. (want[c] = "spec" => Specs = 0 /\ Builds = 0) /\ Builds <= MaxRounds
    BY <1>2, SpawnPaid
  <2>7. /\ want[c] = "spec" => Specs <= 1 /\ Builds = 0
        /\ Builds <= MaxRounds + 1
    BY <2>6, Numbers DEF IInv
  <2> QED BY <2>1, <2>2, <2>3, <2>4, <2>5, <2>7, Alone, LaunchIsAllowed
<1>3. CASE ResolveToken(c) \/ SpawnFails(c) \/ Attach(c)
  <2>1. Busy(c)
    BY <1>3 DEF ResolveToken, SpawnFails, Attach, Busy
  <2>2. UNCHANGED <<proc, kind>> BY <1>3 DEF ResolveToken, SpawnFails, Attach
  <2>3. NoLaunch /\ (SomeAgent' <=> SomeAgent)
    BY <2>2 DEF NoLaunch, SomeAgent, Alive
  <2> QED BY <2>1, <2>3, UnseenStep
<1> QED BY <1>1, <1>2, <1>3 DEF Proceed

\* A monitor launches a retry, or is not seen.
LEMMA MonitorLives ==
  ASSUME OneStart, IInv, Bounded, Chain, Paid, [Next]_vars, NEW p \in Proc, Monitor(p)
  PROVE  [LifeCycle!LifeNext]_(LifeCycle!lifeVars)
<1> USE DEF Goto, service, procs, disk
<1>0. p \in Coroutines BY DEF Coroutines
<1>1. CASE Respawn(p)
  <2>1. PICK q \in Proc : /\ NewProcess(q, kind[p], p)
                          /\ pc' = [pc EXCEPT ![p] = "done", ![q] = "wait"]
    BY <1>1 DEF Respawn
  <2>2. pc[p] \in {"fallback", "failover"} /\ Busy(p)
    BY <1>1 DEF Respawn, Busy
  <2>3. q \in Coroutines \ StopCalls /\ pc'[q] = "wait"
    BY <2>1, CallsAreNotProcesses DEF Coroutines, Calls, IInv, TypeOK
  <2>4. Busy(q)' BY <2>3 DEF Busy
  <2>5. ~SomeAgent
    <3>1. p \in AtWork BY <1>0, <2>2, Alone DEF AtWork, Active, Finished
    <3> QED BY <2>2, <3>1, NobodyLives DEF SomeAgent
  <2>6. kind[p] \in Kinds BY DEF IInv, TypeOK
  <2>7. /\ kind[p] = "spec" => Specs <= 1 /\ Builds = 0
        /\ Builds <= MaxRounds + 1
    BY <1>1, RespawnPaid
  <2> QED BY <1>0, <2>1, <2>2, <2>3, <2>4, <2>5, <2>6, <2>7, LaunchIsAllowed
<1>2. CASE ~Respawn(p)
  <2>1. Busy(p)
    BY <1>2 DEF Monitor, ObserveExit, DecideFallback, AwaitReview, StartBuild, DeferToStop,
       DecideFailover, RespawnFails, Continue, Conclude, Cleanup, Settling, BuildExited, AtExit,
       Busy
  <2>2. kind' = kind
    BY <1>2 DEF Monitor, ObserveExit, DecideFallback, AwaitReview, StartBuild, DeferToStop,
       DecideFailover, RespawnFails, Continue, Conclude, Cleanup
  <2>3. \A r \in Proc : /\ proc'[r] = "unused" <=> proc[r] = "unused"
                        /\ proc'[r] = "alive" <=> proc[r] = "alive"
    BY <1>2 DEF Monitor, ObserveExit, DecideFallback, AwaitReview, StartBuild, DeferToStop,
       DecideFailover, RespawnFails, Continue, Conclude, Cleanup, Exited, IInv, TypeOK
  <2>4. NoLaunch /\ (SomeAgent' <=> SomeAgent)
    BY <2>2, <2>3 DEF NoLaunch, SomeAgent, Alive
  <2> QED BY <1>0, <2>1, <2>4, UnseenStep
<1> QED BY <1>1, <1>2

\* An agent's exit ends it; its other steps and the ticks are not seen.
LEMMA TickAgentLives ==
  ASSUME OneStart, IInv, Bounded, Chain, [Next]_vars, NEW p \in Proc, Tick(p) \/ Agent(p)
  PROVE  [LifeCycle!LifeNext]_(LifeCycle!lifeVars)
<1> USE DEF Goto, service, procs, disk
<1>1. Alive(p)
  BY DEF Tick, Agent, SeeCheckpoint, ForceRestart, BlockAtGate, WritePlan, WorkOnPlan, Exit
<1>2. PICK c \in Coroutines : Busy(c) BY <1>1, AliveIsBusy
<1>3. kind' = kind
  BY DEF Tick, Agent, SeeCheckpoint, ForceRestart, BlockAtGate, WritePlan, WorkOnPlan, Exit
<1>4. CASE Exit(p)
  <2>1. proc'[p] \in {"ok", "failed"} /\ \A r \in Proc \ {p} : proc'[r] = proc[r]
    BY <1>4 DEF Exit, IInv, TypeOK
  <2>2. ~SomeAgent'
    <3>1. \A r \in Proc \ {p} : ~Alive(r) BY <1>1, LiveIsAlone DEF OneAgent
    <3> QED BY <2>1, <3>1 DEF SomeAgent, Alive
  <2>3. NoLaunch BY <1>1, <1>3, <2>1 DEF NoLaunch, Alive
  <2>4. Specs' = Specs /\ Builds' = Builds BY <2>3, CountsStay
  <2>5. Stage' = Stage
    <3>1. pc' = pc BY <1>4 DEF Exit
    <3>2. c \in Coroutines \ StopCalls /\ pc[c] \notin Finished \cup {"idle"}
      BY <1>2, Alone DEF Busy, Finished
    <3> QED BY <3>1, <3>2 DEF Stage
  <2>6. SomeAgent BY <1>1 DEF SomeAgent
  <2> QED BY <2>2, <2>4, <2>5, <2>6
          DEF LifeCycle!LifeNext, LifeCycle!End, SomeAgent, Specs, Builds
<1>5. CASE ~Exit(p)
  <2>1. proc' = proc
    BY <1>5 DEF Tick, Agent, SeeCheckpoint, ForceRestart, BlockAtGate, WritePlan, WorkOnPlan
  <2>2. NoLaunch /\ (SomeAgent' <=> SomeAgent)
    BY <1>3, <2>1 DEF NoLaunch, SomeAgent, Alive
  <2> QED BY <1>2, <2>2, UnseenStep
<1> QED BY <1>4, <1>5

\* For any number of rounds and any configuration, a task started once, and stopped at
\* any moments, has the life that TaskLifeCycle describes: the retries by two mechanisms,
\* the switch from specification to build and the continuations add up to one agent at a
\* time, no specification after a build, and MaxRounds + 4 agents in all.
THEOREM LifeCycleFollowed ==
  ASSUME OneStart
  PROVE  Spec => FollowsLifeCycle
<1>1. Init => LifeCycle!LifeInit
  <2> SUFFICES ASSUME Init PROVE LifeCycle!LifeInit
    OBVIOUS
  <2>1. \A K : Launched(K) = {} BY DEF Init, Launched
  <2>2. Specs = 0 /\ Builds = 0 BY <2>1, FS_EmptySet DEF Specs, Builds
  <2>3. Stage = "new" BY DEF Init, Stage, Coroutines, Calls
  <2>4. ~SomeAgent BY DEF Init, SomeAgent, Alive
  <2> QED BY <2>2, <2>3, <2>4 DEF LifeCycle!LifeInit, SomeAgent, Specs, Builds
<1>2. IInv /\ Bounded /\ Chain /\ Paid /\ [Next]_vars => [LifeCycle!LifeNext]_(LifeCycle!lifeVars)
  <2> SUFFICES ASSUME IInv, Bounded, Chain, Paid, [Next]_vars
               PROVE  [LifeCycle!LifeNext]_(LifeCycle!lifeVars)
    OBVIOUS
  <2>1. CASE UNCHANGED vars
    <3>1. UNCHANGED <<proc, kind, pc>> BY <2>1 DEF vars, procs
    <3>2. Specs' = Specs /\ Builds' = Builds BY <3>1, CountsStay DEF NoLaunch
    <3>3. Stage' = Stage BY <3>1 DEF Stage, Alive
    <3>4. SomeAgent' <=> SomeAgent BY <3>1 DEF SomeAgent, Alive
    <3> QED BY <3>2, <3>3, <3>4 DEF LifeCycle!lifeVars, SomeAgent, Specs, Builds
  <2> QED BY <2>1, RequestBegins, ProceedLives, MonitorLives, TickAgentLives DEF Next
<1> QED BY <1>1, <1>2, Inductive, BoundedInductive, ChainInductive, PaidInductive, PTL
        DEF Spec, FollowsLifeCycle, LifeCycle!LifeSpec

=============================================================================
