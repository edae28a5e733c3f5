------------------------ MODULE LocalPreviewProofs ------------------------
(***************************************************************************)
(* Theorems about LocalPreview, for any tasks, ports and previews.         *)
(***************************************************************************)
EXTENDS LocalPreview, TLAPS

\* A registered preview is one of its task, and it was started.
Registered ==
  \A t \in Tasks : handle[t] # 0 => /\ preview[handle[t]].task = t
                                    /\ preview[handle[t]].pc # "none"

\* Before it is spawned a server is not there, and who is to spawn it is registered.
Unspawned ==
  \A n \in Starts :
    /\ preview[n].pc \in {"none", "begun"} => server[n] = "none"
    /\ preview[n].pc = "begun" /\ n \notin lost => handle[preview[n].task] = n

IInv == TypeOK /\ Registered /\ Unspawned /\ LiveIsReachable /\ FailedIsDown /\ BuildingIsBuilt

-----------------------------------------------------------------------------
\* What the steps have in common

\* Signals: a server is told to end, or is left as it was.
LEMMA KilledServers ==
  ASSUME TypeOK, NEW ps
  PROVE  /\ Killed(ps) \in [Starts -> {"none", "starting", "serving", "dying", "dead"}]
         /\ \A n \in Starts :
              /\ Killed(ps)[n] = server[n] \/ (Alive(n) /\ Killed(ps)[n] = "dying")
              /\ n \in ps /\ Known(n) => Killed(ps)[n] \notin {"starting", "serving"}
BY DEF TypeOK, Killed, Alive

\* A step that changes only servers, and brings none to life that was not.
LEMMA ServersOnly ==
  ASSUME IInv, UNCHANGED <<preview, handle, meta, lost>>, closing' \in BOOLEAN,
         server' \in [Starts -> {"none", "starting", "serving", "dying", "dead"}],
         \A n \in Starts : /\ server'[n] \in {"starting", "serving"} => Alive(n)
                           /\ server'[n] = "none" <=> server[n] = "none"
  PROVE  IInv'
<1>1. TypeOK' BY DEF IInv, TypeOK
<1>2. Registered' /\ BuildingIsBuilt' BY DEF IInv, Registered, BuildingIsBuilt
<1>3. Unspawned' BY DEF IInv, Unspawned
<1>4. LiveIsReachable' BY DEF IInv, LiveIsReachable, Alive
<1>5. FailedIsDown' BY DEF IInv, FailedIsDown, Alive
<1> QED BY <1>1, <1>2, <1>3, <1>4, <1>5 DEF IInv

\* Servers listen and end.
LEMMA ProcessKeepsIInv == ASSUME IInv, NEW n \in Starts, Listen(n) \/ Exit(n) PROVE IInv'
<1>1. CASE Listen(n) BY <1>1, ServersOnly DEF Listen, Alive, IInv, TypeOK
<1>2. CASE Exit(n) BY <1>2, ServersOnly DEF Exit, Alive, IInv, TypeOK
<1> QED BY <1>1, <1>2

\* A step of a coroutine: it moves on, with its status and port, and may write the task's
\* status; its server is left alone, told to end, or spawned.
LEMMA CoroutineMoves ==
  ASSUME IInv, NEW n \in Starts, NEW p \in Previews,
         preview[n].pc # "none", p.pc \notin {"none", "begun"}, p.task = preview[n].task,
         preview' = [preview EXCEPT ![n] = p],
         UNCHANGED <<handle, lost>>, closing' \in BOOLEAN,
         server' \in [Starts -> {"none", "starting", "serving", "dying", "dead"}],
         \A m \in Starts : m # n => server'[m] = server[m],
         p.pc \in {"spawning", "waiting"} => server'[n] # "none",
         server'[n] \in {"starting", "serving"} => Alive(n) \/ preview[n].pc = "begun",
         p.pc = "over" /\ p.status = "failed" => server'[n] \notin {"starting", "serving"},
         meta' \in [Tasks -> Statuses \cup {"none"}],
         \A t \in Tasks : meta'[t] = "building" => meta[t] = "building",
         p.pc \notin {"spawning", "waiting"} /\ handle[p.task] = n => meta'[p.task] # "building"
  PROVE  IInv'
<1>1. /\ preview' \in [Starts -> Previews] /\ preview'[n] = p
      /\ \A m \in Starts : m # n => preview'[m] = preview[m]
  BY DEF IInv, TypeOK
<1>2. \A m \in Starts : preview[m] \in Previews BY DEF IInv, TypeOK
<1>3. TypeOK' BY <1>1 DEF IInv, TypeOK
<1>4. \A t \in Tasks : handle[t] # 0 => handle[t] \in Starts
  BY BoundsAssumption DEF IInv, TypeOK, Starts
<1>5. Registered' BY <1>1, <1>4 DEF IInv, Registered
<1>6. Unspawned' BY <1>1 DEF IInv, Unspawned
<1>7. LiveIsReachable' BY <1>1 DEF IInv, LiveIsReachable, Unspawned, Alive
<1>8. FailedIsDown' BY <1>1 DEF IInv, FailedIsDown, Alive
<1>9. BuildingIsBuilt' BY <1>1, <1>4 DEF IInv, BuildingIsBuilt, Registered
<1> QED BY <1>3, <1>5, <1>6, <1>7, <1>8, <1>9 DEF IInv

\* A coroutine that reports a status.
LEMMA BecomeKeepsIInv ==
  ASSUME IInv, NEW n \in Starts, preview[n].pc \in {"begun", "waiting"},
         NEW s \in {"running", "failed"}, NEW pc \in {"over", "failing"},
         s = "failed" => pc = "failing",
         Become(n, s, pc), UNCHANGED <<server, handle, lost>>, closing' \in BOOLEAN
  PROVE  IInv'
<1> DEFINE p == [preview[n] EXCEPT !.status = s, !.pc = pc]
<1>1. preview[n] \in Previews BY DEF IInv, TypeOK
<1>2. /\ p \in Previews /\ p.pc = pc /\ p.status = s /\ p.task = preview[n].task
      /\ p.task \in Tasks
  BY <1>1 DEF Previews, Statuses, Working
<1>3. preview' = [preview EXCEPT ![n] = p] BY DEF Become
<1>4. meta' = [meta EXCEPT ![preview[n].task] = s] BY DEF Become
<1>5. /\ meta' \in [Tasks -> Statuses \cup {"none"}] /\ meta'[p.task] = s
      /\ \A t \in Tasks : meta'[t] = "building" => meta[t] = "building"
  BY <1>2, <1>4 DEF IInv, TypeOK, Statuses
<1>6. server \in [Starts -> {"none", "starting", "serving", "dying", "dead"}]
  BY DEF IInv, TypeOK
<1> HIDE DEF p
<1> QED BY <1>2, <1>3, <1>5, <1>6, CoroutineMoves DEF Alive

\* The other steps of coroutines.
LEMMA CoroutineKeepsIInv ==
  ASSUME IInv, NEW n \in Starts, Coroutine(n) \/ Ready(n)
  PROVE  IInv'
<1>0. /\ preview[n] \in Previews
      /\ server \in [Starts -> {"none", "starting", "serving", "dying", "dead"}]
      /\ meta \in [Tasks -> Statuses \cup {"none"}]
      /\ closing' \in BOOLEAN
  <2>1. closing' = closing
    BY DEF Coroutine, Spawn, SpawnFails, Spawned, Ready, NotReady, CleanUp
  <2> QED BY <2>1 DEF IInv, TypeOK
<1>1. CASE Spawn(n)
  <2>1. PICK port \in Ports :
          preview' = [preview EXCEPT ![n] = [@ EXCEPT !.pc = "spawning", !.port = port]]
    BY <1>1 DEF Spawn
  <2> DEFINE p == [preview[n] EXCEPT !.pc = "spawning", !.port = port]
  <2>2. p \in Previews /\ p.pc = "spawning" /\ p.task = preview[n].task
    BY <1>0 DEF Previews, Working
  <2>3. preview' = [preview EXCEPT ![n] = p] BY <2>1
  <2>4. /\ server' \in [Starts -> {"none", "starting", "serving", "dying", "dead"}]
        /\ server'[n] # "none" /\ \A m \in Starts : m # n => server'[m] = server[m]
        /\ preview[n].pc = "begun" /\ UNCHANGED <<handle, meta, lost>>
    BY <1>0, <1>1 DEF Spawn
  <2> HIDE DEF p
  <2> QED BY <1>0, <2>2, <2>3, <2>4, CoroutineMoves
<1>2. CASE SpawnFails(n) BY <1>0, <1>2, BecomeKeepsIInv DEF SpawnFails
<1>3. CASE Spawned(n)
  <2> DEFINE p == [preview[n] EXCEPT !.pc = "waiting"]
  <2>1. p \in Previews /\ p.pc = "waiting" /\ p.task = preview[n].task
    BY <1>0 DEF Previews, Working
  <2>2. /\ preview' = [preview EXCEPT ![n] = p] /\ preview[n].pc = "spawning"
        /\ UNCHANGED <<server, handle, meta, lost>> /\ server[n] # "none"
    BY <1>3 DEF Spawned, IInv, TypeOK
  <2> HIDE DEF p
  <2> QED BY <1>0, <2>1, <2>2, CoroutineMoves DEF Alive
<1>4. CASE Ready(n) BY <1>0, <1>4, BecomeKeepsIInv DEF Ready
<1>5. CASE NotReady(n) BY <1>0, <1>5, BecomeKeepsIInv DEF NotReady
<1>6. CASE CleanUp(n)
  <2> DEFINE p == [preview[n] EXCEPT !.pc = "over"]
  <2>1. /\ p \in Previews /\ p.pc = "over" /\ p.task = preview[n].task /\ p.task \in Tasks
    BY <1>0 DEF Previews, Working
  <2>2. /\ preview' = [preview EXCEPT ![n] = p] /\ preview[n].pc = "failing"
        /\ UNCHANGED <<handle, meta, lost>>
        /\ server' = [server EXCEPT ![n] = IF Alive(n) THEN "dying" ELSE @]
    BY <1>6 DEF CleanUp
  <2>3. /\ server' \in [Starts -> {"none", "starting", "serving", "dying", "dead"}]
        /\ server'[n] \notin {"starting", "serving"}
        /\ \A m \in Starts : m # n => server'[m] = server[m]
    BY <1>0, <2>2 DEF Alive
  <2>4. handle[p.task] = n => meta[p.task] # "building"
    <3>1. handle[p.task] = n => handle[p.task] # 0 BY BoundsAssumption DEF Starts
    <3> HIDE DEF p
    <3> QED BY <2>1, <2>2, <3>1 DEF IInv, BuildingIsBuilt
  <2> HIDE DEF p
  <2> QED BY <1>0, <2>1, <2>2, <2>3, <2>4, CoroutineMoves
<1> QED BY <1>1, <1>2, <1>3, <1>4, <1>5, <1>6 DEF Coroutine

-----------------------------------------------------------------------------
\* The requests

\* Where the previews, the tasks and the registry point.
LEMMA Pointers ==
  ASSUME IInv
  PROVE  /\ \A t \in Tasks : handle[t] # 0 => handle[t] \in Starts
         /\ \A n \in Starts : n # 0 /\ preview[n] \in Previews /\ preview[n].task \in Tasks
BY BoundsAssumption DEF IInv, TypeOK, Starts, Previews

\* A preview starts; the one that its task had is killed.
LEMMA StartKeepsIInv == ASSUME IInv, NEW n \in Starts, Start(n) PROVE IInv'
<1> DEFINE t == preview[n].task
           old == handle[t]
           p == [preview[n] EXCEPT !.pc = "begun"]
<1>1. t \in Tasks /\ preview[n] \in Previews BY Pointers
<1>2. /\ preview[n].pc = "none" /\ server' = Killed({old})
      /\ lost' = lost \cup {m \in {old} \ {0} : preview[m].pc \in {"begun", "spawning"}}
      /\ handle' = [handle EXCEPT ![t] = n] /\ meta' = [meta EXCEPT ![t] = "building"]
      /\ preview' = [preview EXCEPT ![n] = p] /\ closing' = closing
  BY DEF Start, Dropped
<1>3. p \in Previews /\ p.pc = "begun" /\ p.task = t BY <1>1 DEF Previews, Working
<1> HIDE DEF p, t
<1>4. /\ preview' \in [Starts -> Previews] /\ preview'[n] = p
      /\ \A m \in Starts : m # n => preview'[m] = preview[m]
  BY <1>2, <1>3 DEF IInv, TypeOK
<1>5. /\ handle' \in [Tasks -> 0..MaxStarts] /\ handle'[t] = n
      /\ \A u \in Tasks : u # t => handle'[u] = handle[u]
  BY <1>1, <1>2, BoundsAssumption DEF IInv, TypeOK, Starts
<1>6. /\ meta' \in [Tasks -> Statuses \cup {"none"}]
      /\ \A u \in Tasks : u # t => meta'[u] = meta[u]
  BY <1>1, <1>2 DEF IInv, TypeOK, Statuses
<1>7. /\ server' \in [Starts -> {"none", "starting", "serving", "dying", "dead"}]
      /\ \A m \in Starts : /\ server'[m] = server[m] \/ (Alive(m) /\ server'[m] = "dying")
                           /\ m = old /\ Known(m) => server'[m] \notin {"starting", "serving"}
  BY <1>2, KilledServers DEF IInv
<1>8. old # 0 => old \in Starts BY <1>1, Pointers
<1>9. lost' \subseteq Starts /\ lost \subseteq lost'
  BY <1>2, <1>8 DEF IInv, TypeOK
<1>10. old # 0 /\ preview[old].pc \in {"begun", "spawning"} => old \in lost'
  BY <1>2
<1> HIDE DEF old
<1>11. TypeOK'
  <2>1. \A m \in Starts : preview'[m].pc \in {"spawning", "waiting"} => server'[m] # "none"
    BY <1>3, <1>4, <1>7 DEF IInv, TypeOK, Alive
  <2> QED BY <2>1, <1>2, <1>4, <1>5, <1>6, <1>7, <1>9 DEF IInv, TypeOK
<1>12. Registered'
  <2> SUFFICES ASSUME NEW u \in Tasks, handle'[u] # 0
               PROVE  preview'[handle'[u]].task = u /\ preview'[handle'[u]].pc # "none"
    BY DEF Registered
  <2>1. CASE u = t BY <2>1, <1>3, <1>4, <1>5
  <2>2. CASE u # t
    <3>1. /\ handle'[u] = handle[u] /\ handle[u] \in Starts
          /\ preview[handle[u]].task = u /\ preview[handle[u]].pc # "none"
      BY <2>2, <1>5, Pointers DEF IInv, Registered
    <3> QED BY <3>1, <1>2, <1>4
  <2> QED BY <2>1, <2>2
<1>13. \A m \in Starts : m # n /\ preview[m].task = t /\ handle[t] = m => m = old
  BY DEF old
<1>14. Unspawned'
  <2> SUFFICES ASSUME NEW m \in Starts
               PROVE  /\ preview'[m].pc \in {"none", "begun"} => server'[m] = "none"
                      /\ preview'[m].pc = "begun" /\ m \notin lost'
                           => handle'[preview'[m].task] = m
    BY DEF Unspawned
  <2>1. CASE m = n
    <3>1. server[n] = "none" BY <1>2 DEF IInv, Unspawned
    <3>2. server'[n] = "none" BY <3>1, <1>7 DEF Alive
    <3>3. handle'[preview'[n].task] = n BY <1>3, <1>4, <1>5
    <3> QED BY <2>1, <3>2, <3>3
  <2>2. CASE m # n
    <3>1. /\ preview'[m] = preview[m] /\ preview[m].task \in Tasks /\ m # 0
      BY <2>2, <1>4, Pointers
    <3>2. preview[m].pc \in {"none", "begun"} => server'[m] = "none"
      BY <1>7 DEF IInv, Unspawned, Alive
    <3>3. preview[m].pc = "begun" /\ m \notin lost' => handle[preview[m].task] = m
      BY <1>9 DEF IInv, Unspawned
    <3>4. preview[m].pc = "begun" /\ m \notin lost' => preview[m].task # t
      BY <2>2, <3>1, <3>3, <1>10, <1>13
    <3> QED BY <3>1, <3>2, <3>3, <3>4, <1>5
  <2> QED BY <2>1, <2>2
<1>15. LiveIsReachable'
  <2> SUFFICES ASSUME NEW m \in Starts, server'[m] \in {"starting", "serving"}, m \notin lost'
               PROVE  handle'[preview'[m].task] = m
    BY DEF LiveIsReachable, Alive
  <2>1. m # n BY <1>2, <1>7 DEF IInv, Unspawned, Alive
  <2>2. Alive(m) /\ m \notin lost BY <1>7, <1>9 DEF Alive
  <2>3. handle[preview[m].task] = m BY <2>2 DEF IInv, LiveIsReachable
  <2>4. preview[m].task # t
    <3> SUFFICES ASSUME preview[m].task = t PROVE FALSE OBVIOUS
    <3>1. m = old /\ m # 0 BY <2>1, <2>3, <1>13, Pointers
    <3>2. preview[m].pc \notin {"begun", "spawning"} BY <3>1, <1>10
    <3>3. preview[m].pc # "none" BY <2>2 DEF IInv, Unspawned, Alive
    <3> QED BY <3>1, <3>2, <3>3, <1>7 DEF Known
  <2> QED BY <2>1, <2>3, <2>4, <1>4, <1>5, Pointers
<1>16. FailedIsDown'
  <2> SUFFICES ASSUME NEW m \in Starts, preview'[m].pc = "over", preview'[m].status = "failed"
               PROVE  server'[m] \notin {"starting", "serving"}
    BY DEF FailedIsDown, Alive
  <2>1. m # n /\ preview'[m] = preview[m] BY <1>3, <1>4
  <2> QED BY <2>1, <1>7 DEF IInv, FailedIsDown, Alive
<1>17. BuildingIsBuilt'
  <2> SUFFICES ASSUME NEW u \in Tasks, meta'[u] = "building", handle'[u] # 0
               PROVE  preview'[handle'[u]].pc \in {"begun", "spawning", "waiting"}
    BY DEF BuildingIsBuilt
  <2>1. CASE u = t BY <2>1, <1>3, <1>4, <1>5
  <2>2. CASE u # t
    <3>1. /\ handle'[u] = handle[u] /\ handle[u] \in Starts
          /\ preview[handle[u]].pc \in {"begun", "spawning", "waiting"}
      BY <2>2, <1>5, <1>6, Pointers DEF IInv, BuildingIsBuilt
    <3> QED BY <3>1, <1>2, <1>4
  <2> QED BY <2>1, <2>2
<1> QED BY <1>11, <1>12, <1>14, <1>15, <1>16, <1>17 DEF IInv

\* Steps that let previews go: no preview fails, or is registered, by them; a server that
\* is not lost has its preview registered after them.
LEMMA LettingGo ==
  ASSUME IInv,
         preview' \in [Starts -> Previews], closing' \in BOOLEAN,
         \A n \in Starts :
           /\ preview'[n].task = preview[n].task
           /\ \/ preview'[n].pc = preview[n].pc
              \/ preview[n].pc # "none" /\ preview'[n].pc = "gone"
           /\ preview'[n].status = preview[n].status \/ preview'[n].status # "failed",
         handle' \in [Tasks -> 0..MaxStarts],
         meta' \in [Tasks -> Statuses \cup {"none"}],
         \A t \in Tasks : \/ handle'[t] = 0
                          \/ /\ handle'[t] = handle[t] /\ meta'[t] = meta[t]
                             /\ preview'[handle[t]].pc = preview[handle[t]].pc,
         server' \in [Starts -> {"none", "starting", "serving", "dying", "dead"}],
         \A n \in Starts : server'[n] = server[n] \/ (Alive(n) /\ server'[n] = "dying"),
         lost' \subseteq Starts, lost \subseteq lost',
         \A n \in Starts : preview'[n].pc = "begun" /\ n \notin lost'
                             => handle'[preview[n].task] = handle[preview[n].task],
         \A n \in Starts : server'[n] \in {"starting", "serving"} /\ n \notin lost'
                             => handle'[preview[n].task] = handle[preview[n].task]
  PROVE  IInv'
<1>1. TypeOK' BY DEF IInv, TypeOK, Alive
<1>2. Registered' BY Pointers DEF IInv, Registered
<1>3. Unspawned'
  <2> SUFFICES ASSUME NEW n \in Starts
               PROVE  /\ preview'[n].pc \in {"none", "begun"} => server'[n] = "none"
                      /\ preview'[n].pc = "begun" /\ n \notin lost'
                           => handle'[preview'[n].task] = n
    BY DEF Unspawned
  <2>1. preview'[n].pc \in {"none", "begun"} => server'[n] = "none"
    BY DEF IInv, Unspawned, Alive
  <2>2. preview'[n].pc = "begun" /\ n \notin lost' => handle'[preview'[n].task] = n
    BY DEF IInv, Unspawned
  <2> QED BY <2>1, <2>2
<1>4. LiveIsReachable' BY DEF IInv, LiveIsReachable, Alive
<1>5. FailedIsDown' BY DEF IInv, FailedIsDown, Alive
<1>6. BuildingIsBuilt' BY DEF IInv, BuildingIsBuilt
<1> QED BY <1>1, <1>2, <1>3, <1>4, <1>5, <1>6 DEF IInv

\* A preview is stopped.
LEMMA StopKeepsIInv == ASSUME IInv, NEW t \in Tasks, Stop(t) PROVE IInv'
<1> DEFINE old == handle[t]
<1>1. /\ server' = Killed({old}) /\ handle' = [handle EXCEPT ![t] = 0]
      /\ lost' = lost \cup {m \in {old} \ {0} : preview[m].pc \in {"begun", "spawning"}}
      /\ preview' = [n \in Starts |->
           IF n = old THEN [preview[n] EXCEPT !.status = "stopped"] ELSE preview[n]]
      /\ meta' = [meta EXCEPT ![t] = "stopped"]
      /\ closing' \in BOOLEAN
  BY DEF Stop, Dropped, IInv, TypeOK
<1>2. old # 0 => old \in Starts BY Pointers
<1> HIDE DEF old
<1>3. \A n \in Starts : preview[n] \in Previews BY Pointers
<1>4. preview' \in [Starts -> Previews]
  <2>1. \A n \in Starts : [preview[n] EXCEPT !.status = "stopped"] \in Previews
    BY <1>3 DEF Previews, Statuses
  <2> QED BY <1>1, <1>3, <2>1
<1>5. \A n \in Starts :
        /\ preview'[n].task = preview[n].task /\ preview'[n].pc = preview[n].pc
        /\ preview'[n].status = preview[n].status \/ preview'[n].status # "failed"
  BY <1>1, <1>3 DEF Previews
<1>6. /\ handle' \in [Tasks -> 0..MaxStarts] /\ handle'[t] = 0
      /\ \A u \in Tasks : u # t => handle'[u] = handle[u]
  BY <1>1, BoundsAssumption DEF IInv, TypeOK
<1>7. /\ meta' \in [Tasks -> Statuses \cup {"none"}]
      /\ \A u \in Tasks : u # t => meta'[u] = meta[u]
  BY <1>1 DEF IInv, TypeOK, Statuses
<1>8. \A u \in Tasks : handle[u] # 0 => preview'[handle[u]].pc = preview[handle[u]].pc
  BY <1>5, Pointers
<1>9. /\ server' \in [Starts -> {"none", "starting", "serving", "dying", "dead"}]
      /\ \A n \in Starts : /\ server'[n] = server[n] \/ (Alive(n) /\ server'[n] = "dying")
                           /\ n = old /\ Known(n) => server'[n] \notin {"starting", "serving"}
  BY <1>1, KilledServers DEF IInv
<1>10. lost' \subseteq Starts /\ lost \subseteq lost' BY <1>1, <1>2 DEF IInv, TypeOK
<1>11. \A n \in Starts : n = old /\ preview[n].pc \in {"begun", "spawning"} => n \in lost'
  BY <1>1, Pointers
<1>12. \A n \in Starts : preview'[n].pc = "begun" /\ n \notin lost'
                           => handle'[preview[n].task] = handle[preview[n].task]
  <2> SUFFICES ASSUME NEW n \in Starts, preview'[n].pc = "begun", n \notin lost'
               PROVE  preview[n].task # t
    BY <1>6, Pointers
  <2>1. preview[n].pc = "begun" /\ n \notin lost BY <1>5, <1>10
  <2>2. handle[preview[n].task] = n BY <2>1 DEF IInv, Unspawned
  <2> QED BY <2>1, <2>2, <1>11 DEF old
<1>13. \A n \in Starts : server'[n] \in {"starting", "serving"} /\ n \notin lost'
                           => handle'[preview[n].task] = handle[preview[n].task]
  <2> SUFFICES ASSUME NEW n \in Starts, server'[n] \in {"starting", "serving"}, n \notin lost'
               PROVE  preview[n].task # t
    BY <1>6, Pointers
  <2>1. Alive(n) /\ n \notin lost BY <1>9, <1>10 DEF Alive
  <2>2. handle[preview[n].task] = n BY <2>1 DEF IInv, LiveIsReachable
  <2>3. preview[n].pc # "none" BY <2>1 DEF IInv, Unspawned, Alive
  <2>4. n # old BY <2>3, <1>9, <1>11 DEF Known
  <2> QED BY <2>2, <2>4 DEF old
<1>14. \A u \in Tasks : \/ handle'[u] = 0
                        \/ /\ handle'[u] = handle[u] /\ meta'[u] = meta[u]
                           /\ preview'[handle[u]].pc = preview[handle[u]].pc
  BY <1>6, <1>7, <1>8
<1>15. \A n \in Starts : server'[n] = server[n] \/ (Alive(n) /\ server'[n] = "dying")
  BY <1>9
<1> QED BY <1>1, <1>4, <1>5, <1>6, <1>7, <1>9, <1>10, <1>12, <1>13, <1>14, <1>15, LettingGo

\* A stale status is corrected.
LEMMA GetKeepsIInv == ASSUME IInv, NEW t \in Tasks, Get(t) PROVE IInv'
<1>1. /\ handle[t] = 0 /\ meta' = [meta EXCEPT ![t] = "stopped"]
      /\ UNCHANGED <<preview, server, handle, lost, closing>>
  BY DEF Get
<1>2. /\ meta' \in [Tasks -> Statuses \cup {"none"}]
      /\ \A u \in Tasks : u # t => meta'[u] = meta[u]
  BY <1>1 DEF IInv, TypeOK, Statuses
<1> QED BY <1>1, <1>2, LettingGo DEF IInv, TypeOK

-----------------------------------------------------------------------------
\* The end of the web server

\* The coroutines go with the process.
LEMMA GoneIsTyped ==
  ASSUME IInv, NEW n \in Starts
  PROVE  /\ Gone(n) \in Previews /\ Gone(n).task = preview[n].task
         /\ Gone(n).status = preview[n].status
         /\ Gone(n).pc = preview[n].pc \/ (preview[n].pc # "none" /\ Gone(n).pc = "gone")
         /\ Gone(n).pc \notin {"begun", "spawning"}
<1>1. preview[n] \in Previews BY Pointers
<1>2. CASE preview[n].pc \in Working
  <2>1. Gone(n) = [preview[n] EXCEPT !.pc = "gone"] BY <1>2 DEF Gone
  <2> QED BY <1>1, <1>2, <2>1 DEF Previews, Working
<1>3. CASE preview[n].pc \notin Working
  <2>1. Gone(n) = [preview[n] EXCEPT !.pc = @] BY <1>3 DEF Gone
  <2>2. Gone(n) = preview[n] BY <1>1, <2>1 DEF Previews
  <2> QED BY <1>1, <1>3, <2>2 DEF Working
<1> QED BY <1>2, <1>3

\* An orderly end kills the servers of the registered previews.
LEMMA ShutdownKeepsIInv == ASSUME IInv, Shutdown PROVE IInv'
<1> DEFINE olds == {handle[t] : t \in Tasks}
<1>1. /\ server' = Killed(olds) /\ handle' = [t \in Tasks |-> 0]
      /\ lost' = lost \cup {m \in olds \ {0} : preview[m].pc \in {"begun", "spawning"}}
      /\ preview' = [n \in Starts |->
           IF \E t \in Tasks : handle[t] = n THEN [preview[n] EXCEPT !.status = "stopped"]
                                             ELSE preview[n]]
      /\ meta' = [t \in Tasks |-> IF handle[t] # 0 THEN "stopped" ELSE meta[t]]
      /\ closing' = TRUE
  BY DEF Shutdown, Dropped
<1>2. olds \ {0} \subseteq Starts BY Pointers
<1>3. \A n \in Starts : preview[n].task \in Tasks BY Pointers
<1>4. \A n \in Starts : handle[preview[n].task] = n => n \in olds BY <1>3
<1> HIDE DEF olds
<1>5. preview' \in [Starts -> Previews]
  <2>1. \A n \in Starts : [preview[n] EXCEPT !.status = "stopped"] \in Previews
    BY Pointers DEF Previews, Statuses
  <2> QED BY <1>1, <2>1, Pointers
<1>6. \A n \in Starts :
        /\ preview'[n].task = preview[n].task /\ preview'[n].pc = preview[n].pc
        /\ preview'[n].status = preview[n].status \/ preview'[n].status # "failed"
  <2> SUFFICES ASSUME NEW n \in Starts
               PROVE  /\ preview'[n].task = preview[n].task /\ preview'[n].pc = preview[n].pc
                      /\ preview'[n].status = preview[n].status \/ preview'[n].status # "failed"
    OBVIOUS
  <2>1. preview[n] \in Previews BY Pointers
  <2>2. preview'[n] = preview[n] \/ preview'[n] = [preview[n] EXCEPT !.status = "stopped"]
    BY <1>1
  <2> QED BY <2>1, <2>2 DEF Previews
<1>7. handle' \in [Tasks -> 0..MaxStarts] /\ \A t \in Tasks : handle'[t] = 0
  BY <1>1, BoundsAssumption
<1>8. meta' \in [Tasks -> Statuses \cup {"none"}]
  BY <1>1 DEF IInv, TypeOK, Statuses
<1>9. /\ server' \in [Starts -> {"none", "starting", "serving", "dying", "dead"}]
      /\ \A n \in Starts : /\ server'[n] = server[n] \/ (Alive(n) /\ server'[n] = "dying")
                           /\ n \in olds /\ Known(n) => server'[n] \notin {"starting", "serving"}
  BY <1>1, KilledServers DEF IInv
<1>10. lost' \subseteq Starts /\ lost \subseteq lost' BY <1>1, <1>2 DEF IInv, TypeOK
<1>11. \A n \in Starts : server'[n] \in {"starting", "serving"} => n \in lost'
  <2> SUFFICES ASSUME NEW n \in Starts, server'[n] \in {"starting", "serving"}, n \notin lost'
               PROVE  FALSE
    OBVIOUS
  <2>1. Alive(n) /\ n \notin lost BY <1>9, <1>10 DEF Alive
  <2>2. n \in olds BY <2>1, <1>4 DEF IInv, LiveIsReachable
  <2>3. preview[n].pc # "none" BY <2>1 DEF IInv, Unspawned, Alive
  <2>4. preview[n].pc \in {"begun", "spawning"} => n \in lost' BY <1>1, <2>2, Pointers
  <2> QED BY <2>2, <2>3, <2>4, <1>9 DEF Known
<1>12. \A n \in Starts : server'[n] = server[n] \/ (Alive(n) /\ server'[n] = "dying")
  BY <1>9
<1>13. \A n \in Starts : preview'[n].pc = "begun" => n \in lost'
  <2> SUFFICES ASSUME NEW n \in Starts, preview[n].pc = "begun", n \notin lost
               PROVE  n \in olds \ {0}
    BY <1>1, <1>6, <1>10
  <2>1. handle[preview[n].task] = n BY DEF IInv, Unspawned
  <2> QED BY <2>1, <1>4, Pointers
<1> QED BY <1>1, <1>5, <1>6, <1>13, <1>7, <1>8, <1>9, <1>10, <1>11, <1>12, LettingGo

\* The end of the web server loses the servers that run.
LEMMA RestartKeepsIInv == ASSUME IInv, Restart PROVE IInv'
<1>1. /\ lost' = lost \cup {n \in Starts : Alive(n)}
      /\ preview' = [n \in Starts |-> Gone(n)]
      /\ handle' = [t \in Tasks |-> 0] /\ UNCHANGED <<server, meta>> /\ closing' = FALSE
  BY DEF Restart
<1>2. preview' \in [Starts -> Previews] BY <1>1, GoneIsTyped
<1>3. \A n \in Starts :
        /\ preview'[n].task = preview[n].task
        /\ \/ preview'[n].pc = preview[n].pc
           \/ preview[n].pc # "none" /\ preview'[n].pc = "gone"
        /\ preview'[n].status = preview[n].status \/ preview'[n].status # "failed"
        /\ preview'[n].pc # "begun"
  BY <1>1, GoneIsTyped
<1>4. handle' \in [Tasks -> 0..MaxStarts] /\ \A t \in Tasks : handle'[t] = 0
  BY <1>1, BoundsAssumption
<1>5. lost' \subseteq Starts /\ lost \subseteq lost' BY <1>1 DEF IInv, TypeOK
<1>6. \A n \in Starts : server'[n] \in {"starting", "serving"} => n \in lost'
  BY <1>1 DEF Alive
<1>7. /\ meta' \in [Tasks -> Statuses \cup {"none"}]
      /\ server' \in [Starts -> {"none", "starting", "serving", "dying", "dead"}]
  BY <1>1 DEF IInv, TypeOK
<1> QED BY <1>1, <1>2, <1>3, <1>4, <1>5, <1>6, <1>7, LettingGo

-----------------------------------------------------------------------------
\* The invariant, and what it says

\* Nothing has been started.
LEMMA InitIInv == Init => IInv
<1> SUFFICES ASSUME Init PROVE IInv OBVIOUS
<1>1. TypeOK
  <2>1. preview \in [Starts -> Previews] /\ \A n \in Starts : preview[n].pc = "none"
    BY DEF Init, Previews, Statuses, Working
  <2>2. handle \in [Tasks -> 0..MaxStarts] BY BoundsAssumption DEF Init
  <2> QED BY <2>1, <2>2 DEF Init, TypeOK, Statuses
<1>2. \A n \in Starts : preview[n].pc = "none" /\ server[n] = "none"
  BY DEF Init
<1>3. Registered /\ BuildingIsBuilt BY DEF Init, Registered, BuildingIsBuilt
<1>4. Unspawned /\ LiveIsReachable /\ FailedIsDown
  BY <1>2 DEF Unspawned, LiveIsReachable, FailedIsDown, Alive
<1> QED BY <1>1, <1>3, <1>4 DEF IInv

\* Every step keeps the invariant.
LEMMA NextIInv == IInv /\ [Next]_vars => IInv'
<1> SUFFICES ASSUME IInv, [Next]_vars PROVE IInv' OBVIOUS
<1>1. ASSUME NEW n \in Starts, Start(n) PROVE IInv' BY <1>1, StartKeepsIInv
<1>2. ASSUME NEW n \in Starts, Coroutine(n) \/ Ready(n) PROVE IInv'
  BY <1>2, CoroutineKeepsIInv
<1>3. ASSUME NEW n \in Starts, Listen(n) \/ Exit(n) PROVE IInv' BY <1>3, ProcessKeepsIInv
<1>4. ASSUME NEW t \in Tasks, Stop(t) PROVE IInv' BY <1>4, StopKeepsIInv
<1>5. ASSUME NEW t \in Tasks, Get(t) PROVE IInv' BY <1>5, GetKeepsIInv
<1>6. CASE Shutdown BY <1>6, ShutdownKeepsIInv
<1>7. CASE Restart BY <1>7, RestartKeepsIInv
<1>8. CASE UNCHANGED vars
  BY <1>8 DEF vars, IInv, TypeOK, Registered, Unspawned, LiveIsReachable, FailedIsDown,
              BuildingIsBuilt, Alive
<1> QED BY <1>1, <1>2, <1>3, <1>4, <1>5, <1>6, <1>7, <1>8 DEF Next

\* The invariant holds throughout.
THEOREM Invariance == Spec => []IInv
<1> QED BY InitIInv, NextIInv, PTL DEF Spec

\* Coroutines, servers and statuses have their types; a coroutine that waits for its
\* server has one.
THEOREM TypeCorrect == Spec => []TypeOK
<1>1. IInv => TypeOK BY DEF IInv
<1> QED BY <1>1, Invariance, PTL

\* However starts, stops and ends of the web server interleave with the coroutines, a
\* server that runs is known by its task's preview, unless it was dropped while spawned.
THEOREM Reachable == Spec => []LiveIsReachable
<1>1. IInv => LiveIsReachable BY DEF IInv
<1> QED BY <1>1, Invariance, PTL

\* A preview that failed leaves no server behind.
THEOREM FailedDown == Spec => []FailedIsDown
<1>1. IInv => FailedIsDown BY DEF IInv
<1> QED BY <1>1, Invariance, PTL

\* Late writes of earlier previews never make a task look as if it were being built.
THEOREM Built == Spec => []BuildingIsBuilt
<1>1. IInv => BuildingIsBuilt BY DEF IInv
<1> QED BY <1>1, Invariance, PTL

=============================================================================
