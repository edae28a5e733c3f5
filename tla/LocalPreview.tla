---------------------------- MODULE LocalPreview ----------------------------
(***************************************************************************)
(* Previews of a task by a development server on the machine of the web    *)
(* server (services/local_preview_service.py, strategy dev-server).        *)
(*                                                                         *)
(* start, stop, the status request and the shutdown run at once on the     *)
(* event loop; the coroutine of a preview gives way whenever it awaits, and*)
(* its server is a process that starts, listens and dies on its own.       *)
(***************************************************************************)
EXTENDS Naturals

CONSTANTS
  Tasks,
  Ports,
  NoPort,     \* not allocated
  MaxStarts   \* bound: previews that are started

ASSUME PortsAssumption == NoPort \notin Ports
ASSUME BoundsAssumption == MaxStarts \in Nat

VARIABLES
  preview,  \* per start: the LocalPreview object and its coroutine
  server,   \* per start: the process of its development server
  handle,   \* _previews: per task its preview, 0 if there is none
  meta,     \* per task: task_metadata.json, status of the preview
  lost,     \* history: previews dropped before their process was known, or by a crash
  closing   \* the web server is shutting down

vars == <<preview, server, handle, meta, lost, closing>>

Starts == 1..MaxStarts
Statuses == {"building", "running", "failed", "stopped"}
Working == {"begun", "spawning", "waiting", "failing"}

\* over: the coroutine has returned; gone: it went with the web server.
Previews == [task : Tasks, pc : Working \cup {"none", "over", "gone"}, status : Statuses,
             port : Ports \cup {NoPort}]

\* The types; and a coroutine that waits for its server has one.
TypeOK ==
  /\ preview \in [Starts -> Previews]
  /\ server \in [Starts -> {"none", "starting", "serving", "dying", "dead"}]
  /\ handle \in [Tasks -> 0..MaxStarts]
  /\ meta \in [Tasks -> Statuses \cup {"none"}]
  /\ lost \subseteq Starts
  /\ closing \in BOOLEAN
  /\ \A n \in Starts : preview[n].pc \in {"spawning", "waiting"} => server[n] # "none"

Init ==
  /\ preview \in [Starts -> [task : Tasks, pc : {"none"}, status : {"building"},
                         port : {NoPort}]]
  /\ server = [n \in Starts |-> "none"]
  /\ handle = [t \in Tasks |-> 0]
  /\ meta = [t \in Tasks |-> "none"]
  /\ lost = {} /\ closing = FALSE

-----------------------------------------------------------------------------
\* The processes

Alive(n) == server[n] \in {"starting", "serving"}
Accepts(n) == server[n] \in {"serving", "dying"}
Taken(port) == \E n \in Starts : Accepts(n) /\ preview[n].port = port

\* A server finds its port free and listens.
Listen(n) ==
  /\ server[n] = "starting" /\ ~Taken(preview[n].port)
  /\ server' = [server EXCEPT ![n] = "serving"]
  /\ UNCHANGED <<preview, handle, meta, lost, closing>>

\* A server ends, by itself or by the signal.
Exit(n) ==
  /\ server[n] \in {"starting", "serving", "dying"}
  /\ server' = [server EXCEPT ![n] = "dead"]
  /\ UNCHANGED <<preview, handle, meta, lost, closing>>

\* _kill sends SIGTERM to the processes that their previews know.
Known(n) == preview[n].pc \notin {"none", "begun", "spawning"}
Killed(previews) ==
  [n \in Starts |-> IF n \in previews /\ Known(n) /\ Alive(n) THEN "dying" ELSE server[n]]

\* Previews that are dropped by who could have killed them later.
Dropped(previews) ==
  lost \cup {n \in previews : preview[n].pc \in {"begun", "spawning"}}

-----------------------------------------------------------------------------
\* The requests

\* Mutant: a preview that was started before is left alone.
StartBeside(n) ==
  /\ preview[n].pc = "none" /\ \A m \in 1..(n - 1) : preview[m].pc # "none"
  /\ handle' = [handle EXCEPT ![preview[n].task] = n]
  /\ meta' = [meta EXCEPT ![preview[n].task] = "building"]
  /\ preview' = [preview EXCEPT ![n].pc = "begun"]
  /\ UNCHANGED <<server, lost, closing>>

\* Previews are numbered as they start.
Start(n) ==
  /\ preview[n].pc = "none" /\ \A m \in 1..(n - 1) : preview[m].pc # "none"
  /\ LET t == preview[n].task
     IN  /\ server' = Killed({handle[t]})
         /\ lost' = Dropped({handle[t]} \ {0})
         /\ handle' = [handle EXCEPT ![t] = n]
         /\ meta' = [meta EXCEPT ![t] = "building"]
         /\ preview' = [preview EXCEPT ![n].pc = "begun"]
  /\ ~closing /\ UNCHANGED closing

Stop(t) ==
  /\ ~closing /\ UNCHANGED closing
  /\ server' = Killed({handle[t]})
  /\ lost' = Dropped({handle[t]} \ {0})
  /\ preview' = [n \in Starts |->
       IF n = handle[t] THEN [preview[n] EXCEPT !.status = "stopped"] ELSE preview[n]]
  /\ handle' = [handle EXCEPT ![t] = 0]
  /\ meta' = [meta EXCEPT ![t] = "stopped"]

\* reconcile: a status in flight that no preview stands behind is stale.
Get(t) ==
  /\ ~closing /\ handle[t] = 0 /\ meta[t] \in {"building", "running"}
  /\ meta' = [meta EXCEPT ![t] = "stopped"]
  /\ UNCHANGED <<preview, server, handle, lost, closing>>

-----------------------------------------------------------------------------
\* The coroutine of a preview

\* Mutant: the status is not persisted.
BecomeUnsaved(n, s, pc) ==
  /\ preview' = [preview EXCEPT ![n] = [@ EXCEPT !.status = s, !.pc = pc]]
  /\ UNCHANGED meta

\* _persist: the status goes to the task, whether or not the preview is still its own.
\* (The write is taken to succeed: _persist ignores its errors.)
Become(n, s, pc) ==
  /\ preview' = [preview EXCEPT ![n] = [@ EXCEPT !.status = s, !.pc = pc]]
  /\ meta' = [meta EXCEPT ![preview[n].task] = s]

\* A port is chosen on which nothing listens, and nothing reserves it; the process is
\* forked, and create_subprocess_exec is awaited.
Spawn(n) ==
  /\ preview[n].pc = "begun"
  /\ \E p \in Ports :
       /\ ~Taken(p)
       /\ preview' = [preview EXCEPT ![n] = [@ EXCEPT !.pc = "spawning", !.port = p]]
  /\ server' = [server EXCEPT ![n] = "starting"]
  /\ UNCHANGED <<handle, meta, lost, closing>>

\* Mutant: a command that does not exist is waited for.
SpawnUnchecked(n) ==
  /\ preview[n].pc = "begun"
  /\ preview' = [preview EXCEPT ![n].pc = "waiting"]
  /\ UNCHANGED <<server, handle, meta, lost, closing>>

\* No command was detected, or it does not exist.
SpawnFails(n) ==
  /\ preview[n].pc = "begun"
  /\ Become(n, "failed", "failing")
  /\ UNCHANGED <<server, handle, lost, closing>>

\* The preview gets to know its process.
Spawned(n) ==
  /\ preview[n].pc = "spawning"
  /\ preview' = [preview EXCEPT ![n].pc = "waiting"]
  /\ UNCHANGED <<server, handle, meta, lost, closing>>

\* Something accepts connections on the port; the server may have died since it was
\* seen to run, for the connection is awaited.
Ready(n) ==
  /\ preview[n].pc = "waiting" /\ Taken(preview[n].port)
  /\ Become(n, "running", "over")
  /\ UNCHANGED <<server, handle, lost, closing>>

\* Mutant: a server that takes long is waited for.
NotReadyYet(n) ==
  /\ preview[n].pc = "waiting" /\ server[n] = "dead"
  /\ Become(n, "failed", "failing")
  /\ UNCHANGED <<server, handle, lost, closing>>

\* The server exited, or 120 seconds have passed.
NotReady(n) ==
  /\ preview[n].pc = "waiting"
  /\ Become(n, "failed", "failing")
  /\ UNCHANGED <<server, handle, lost, closing>>

\* Mutant: what failed is left as it is.
CleanUpNothing(n) ==
  /\ preview[n].pc = "failing"
  /\ preview' = [preview EXCEPT ![n].pc = "over"]
  /\ UNCHANGED <<server, handle, meta, lost, closing>>

\* After the failure was sent to the clients.
CleanUp(n) ==
  /\ preview[n].pc = "failing"
  /\ server' = [server EXCEPT ![n] = IF Alive(n) THEN "dying" ELSE @]
  /\ preview' = [preview EXCEPT ![n].pc = "over"]
  /\ UNCHANGED <<handle, meta, lost, closing>>

-----------------------------------------------------------------------------
\* The web server ends and comes back.

\* shutdown_all, after the last request; the coroutines go on while the rest is shut down.
Shutdown ==
  /\ ~closing /\ closing' = TRUE
  /\ server' = Killed({handle[t] : t \in Tasks})
  /\ lost' = Dropped({handle[t] : t \in Tasks} \ {0})
  /\ preview' = [n \in Starts |->
       IF \E t \in Tasks : handle[t] = n THEN [preview[n] EXCEPT !.status = "stopped"]
                                        ELSE preview[n]]
  /\ meta' = [t \in Tasks |-> IF handle[t] # 0 THEN "stopped" ELSE meta[t]]
  /\ handle' = [t \in Tasks |-> 0]

Gone(n) == [preview[n] EXCEPT !.pc = IF @ \in Working THEN "gone" ELSE @]

\* The process of the web server ends, shut down or crashed: its coroutines are gone, the
\* registry is empty.  Development servers have a session of their own and live on.
Restart ==
  /\ closing' = FALSE
  /\ lost' = lost \cup {n \in Starts : Alive(n)}
  /\ preview' = [n \in Starts |-> Gone(n)]
  /\ handle' = [t \in Tasks |-> 0]
  /\ UNCHANGED <<server, meta>>

-----------------------------------------------------------------------------
Coroutine(n) ==
  Spawn(n) \/ SpawnFails(n) \/ Spawned(n) \/ NotReady(n) \/ CleanUp(n)

Next ==
  \/ \E n \in Starts : Start(n) \/ Coroutine(n) \/ Ready(n) \/ Listen(n) \/ Exit(n)
  \/ \E t \in Tasks : Stop(t) \/ Get(t)
  \/ Shutdown \/ Restart

\* The event loop runs its coroutines, and its clock goes on; nothing is asked of servers.
Spec == Init /\ [][Next]_vars /\ \A n \in Starts : WF_vars(Coroutine(n))

-----------------------------------------------------------------------------
\* Properties

\* A development server that runs can be stopped: the preview registered for its task is
\* the one that knows it.  Exceptions: it was stopped, replaced or shut down in the moment
\* it was spawned, or the web server crashed.
LiveIsReachable ==
  \A n \in Starts : Alive(n) /\ n \notin lost => handle[preview[n].task] = n

\* A preview that failed leaves no server behind, also one that nobody could stop.
FailedIsDown ==
  \A n \in Starts : preview[n].pc = "over" /\ preview[n].status = "failed" => ~Alive(n)

\* A task shown as building is being built by the preview that is registered for it,
\* although coroutines of earlier previews write its status too; without a preview,
\* reconcile corrects it.
BuildingIsBuilt ==
  \A t \in Tasks :
    meta[t] = "building" /\ handle[t] # 0
      => preview[handle[t]].pc \in {"begun", "spawning", "waiting"}

\* Every preview comes to an end of its building, whatever its server does.
EveryPreviewSettles == \A n \in Starts : preview[n].pc = "begun" ~> preview[n].pc \in {"over", "gone"}

=============================================================================
